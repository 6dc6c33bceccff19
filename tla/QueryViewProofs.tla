-------------------------- MODULE QueryViewProofs --------------------------
(***************************************************************************)
(* Proofs about QueryView, for any number of documents, of lookups at a    *)
(* time, of versions and of disturbances, of a client that never runs out  *)
(* of target ids.                                                          *)
(***************************************************************************)
EXTENDS QueryView, SequenceTheorems, FiniteSetTheorems, WellFoundedInduction, TLAPS

IsOneToOne(s) == \A i, j \in DOMAIN s : s[i] = s[j] => i = j

-----------------------------------------------------------------------------
(* Numbers, sequences and sets.                                            *)

\* A set of numbers has a least one.
LEMMA LeastNumber ==
  ASSUME NEW T \in SUBSET Nat, T # {}
  PROVE  \E n \in T : \A m \in T : n <= m
<1>1. PICK n \in T : \A m \in T : ~ (<<m, n>> \in OpToRel(<, Nat))
  BY WFMin, NatLessThanWellFounded, Zenon
<1>2. \A m \in T : ~ (m < n)
  BY <1>1, Zenon DEF OpToRel
<1> QED BY <1>2

LEMMA TailFacts ==
  ASSUME NEW S, NEW s \in Seq(S), s # <<>>
  PROVE  /\ Tail(s) \in Seq(S) /\ Head(s) = s[1] /\ 1 \in DOMAIN s
         /\ Len(s) \in Nat /\ DOMAIN s = 1 .. Len(s) /\ DOMAIN Tail(s) = 1 .. Len(s) - 1
         /\ \A i \in DOMAIN Tail(s) : i + 1 \in DOMAIN s /\ Tail(s)[i] = s[i + 1]
         /\ \A i \in DOMAIN s : i # 1 => i - 1 \in DOMAIN Tail(s) /\ Tail(s)[i - 1] = s[i]
         /\ \A i \in DOMAIN s : \A j \in DOMAIN s : i < j => j # 1
<1>1. /\ Tail(s) \in Seq(S) /\ Len(s) \in Nat \ {0} /\ Head(s) = s[1]
      /\ Len(Tail(s)) = Len(s) - 1
      /\ \A i \in 1 .. Len(s) - 1 : Tail(s)[i] = s[i + 1]
  BY HeadTailProperties, EmptySeq
<1>2. DOMAIN s = 1 .. Len(s) /\ DOMAIN Tail(s) = 1 .. Len(s) - 1
  BY <1>1
<1>3. \A i \in DOMAIN s : i # 1 => i - 1 \in 1 .. Len(s) - 1 /\ i - 1 + 1 = i
  BY <1>1, <1>2
<1>4. /\ \A i \in DOMAIN Tail(s) : i + 1 \in DOMAIN s
      /\ 1 \in DOMAIN s
      /\ \A i \in DOMAIN s : \A j \in DOMAIN s : i < j => j # 1
  BY <1>1, <1>2
<1>5. \A i \in DOMAIN s : i # 1 => Tail(s)[i - 1] = s[i]
  BY <1>1, <1>3
<1> QED BY <1>1, <1>2, <1>3, <1>4, <1>5

LEMMA AppendFacts ==
  ASSUME NEW S, NEW s \in Seq(S), NEW x \in S
  PROVE  LET t == Append(s, x)
         IN  /\ t \in Seq(S) /\ Len(s) \in Nat /\ DOMAIN s = 1 .. Len(s)
             /\ DOMAIN t = 1 .. Len(s) + 1
             /\ \A i \in DOMAIN s : i \in DOMAIN t /\ t[i] = s[i] /\ i < Len(s) + 1
             /\ Len(s) + 1 \in DOMAIN t /\ t[Len(s) + 1] = x
             /\ \A i \in DOMAIN t : i \in DOMAIN s \/ i = Len(s) + 1
             /\ ToSet(t) = ToSet(s) \cup {x}
<1> DEFINE t == Append(s, x)
           n == Len(s)
<1>1. t \in Seq(S) /\ n \in Nat /\ DOMAIN s = 1 .. n /\ DOMAIN t = 1 .. n + 1
  OBVIOUS
<1>2. t[n + 1] = x /\ \A i \in 1 .. n : t[i] = s[i]
  OBVIOUS
<1> HIDE DEF t, n
<1>3. /\ \A i \in DOMAIN s : i \in DOMAIN t /\ t[i] = s[i] /\ i < n + 1
      /\ n + 1 \in DOMAIN t
      /\ \A i \in DOMAIN t : i \in DOMAIN s \/ i = n + 1
  BY <1>1, <1>2
<1>4. ToSet(t) = ToSet(s) \cup {x}
  <2>1. ToSet(t) \subseteq ToSet(s) \cup {x}
    BY <1>2, <1>3 DEF ToSet
  <2>2. ToSet(s) \subseteq ToSet(t) /\ x \in ToSet(t)
    BY <1>2, <1>3 DEF ToSet
  <2> QED BY <2>1, <2>2
<1> QED BY <1>1, <1>2, <1>3, <1>4 DEF t, n

\* t is s and then r.
Joined(t, s, r) ==
  /\ \A i \in DOMAIN s : i \in DOMAIN t /\ t[i] = s[i] /\ i \in Nat
  /\ \A i \in DOMAIN r :
       Len(s) + i \in DOMAIN t /\ t[Len(s) + i] = r[i] /\ i \in Nat
  /\ \A i \in DOMAIN s : \A j \in DOMAIN r : i < Len(s) + j
  /\ \A i, j \in DOMAIN r : i < j <=> Len(s) + i < Len(s) + j
  /\ \A i \in DOMAIN t : i \in DOMAIN s \/ \E j \in DOMAIN r : i = Len(s) + j

LEMMA ConcatFacts ==
  ASSUME NEW S, NEW s \in Seq(S), NEW r \in Seq(S)
  PROVE  s \o r \in Seq(S) /\ Joined(s \o r, s, r)
<1> DEFINE t == s \o r
           n == Len(s)
           m == Len(r)
<1>1. n \in Nat /\ m \in Nat /\ DOMAIN s = 1 .. n /\ DOMAIN r = 1 .. m
  OBVIOUS
<1>2. /\ t \in Seq(S) /\ Len(t) = n + m
      /\ \A i \in 1 .. n + m : t[i] = IF i <= n THEN s[i] ELSE r[i - n]
  BY ConcatProperties, Zenon
<1>3. DOMAIN t = 1 .. n + m
  <2> HIDE DEF t, n, m
  <2> QED BY <1>2
<1> HIDE DEF t, n, m
<1>4. /\ \A i \in 1 .. n : i \in 1 .. n + m /\ i <= n
      /\ \A i \in 1 .. m : n + i \in 1 .. n + m /\ ~(n + i <= n) /\ n + i - n = i
      /\ \A i \in 1 .. n + m : i \in 1 .. n \/ (i - n \in 1 .. m /\ i = n + (i - n))
      /\ \A i \in 1 .. n : \A j \in 1 .. m : i < n + j
      /\ \A i, j \in 1 .. m : i < j <=> n + i < n + j
  BY <1>1
<1>5. \A i \in 1 .. m : t[n + i] = r[i]
  BY <1>2, <1>4
<1>6. \A i \in 1 .. n + m : i \in 1 .. n \/ \E j \in 1 .. m : i = n + j
  BY <1>4
<1>7. \A i \in 1 .. n : t[i] = s[i]
  BY <1>2, <1>4
<1>8. /\ \A i \in DOMAIN s : i \in DOMAIN t /\ t[i] = s[i] /\ i \in Nat
      /\ \A i \in DOMAIN r : n + i \in DOMAIN t /\ t[n + i] = r[i] /\ i \in Nat
  <2>1. \A i \in 1 .. n : i \in Nat
    BY <1>1
  <2>2. \A i \in 1 .. m : i \in Nat
    BY <1>1
  <2> QED BY <1>1, <1>3, <1>4, <1>5, <1>7, <2>1, <2>2, Zenon
<1>9. /\ \A i \in DOMAIN s : \A j \in DOMAIN r : i < n + j
      /\ \A i, j \in DOMAIN r : i < j <=> n + i < n + j
      /\ \A i \in DOMAIN t : i \in DOMAIN s \/ \E j \in DOMAIN r : i = n + j
  BY <1>1, <1>3, <1>4, <1>6, Zenon
<1> QED BY <1>2, <1>8, <1>9, Zenon DEF t, n, Joined

LEMMA RemoveFirstFacts ==
  ASSUME NEW S, NEW s \in Seq(S), NEW e, IsOneToOne(s)
  PROVE  LET t == RemoveFirst(s, e)
         IN  /\ t \in Seq(S) /\ IsOneToOne(t)
             /\ ToSet(t) = ToSet(s) \ {e}
             /\ Len(t) <= Len(s)
<1> DEFINE t == RemoveFirst(s, e)
<1>1. CASE ~ \E i \in 1 .. Len(s) : s[i] = e
  <2>1. RemoveFirst(s, e) = s
    BY <1>1 DEF RemoveFirst
  <2>2. DOMAIN s = 1 .. Len(s) /\ Len(s) \in Nat
    OBVIOUS
  <2>3. ToSet(s) \ {e} = ToSet(s)
    BY <1>1, <2>2 DEF ToSet
  <2> QED BY <2>1, <2>2, <2>3
<1>2. CASE \E i \in 1 .. Len(s) : s[i] = e
  <2> DEFINE I == {i \in 1 .. Len(s) : s[i] = e}
             k == Min(I)
  <2>1. I \in SUBSET Nat /\ I # {}
    BY <1>2
  <2>2. k \in I
    BY <2>1, LeastNumber DEF Min
  <2>3. k \in 1 .. Len(s) /\ s[k] = e
    BY <2>2
  <2>4. t = SubSeq(s, 1, k - 1) \o SubSeq(s, k + 1, Len(s))
    BY <1>2 DEF RemoveFirst, RemoveAt, SelectInSeq
  <2> HIDE DEF k, t
  <2> DEFINE u == SubSeq(s, 1, k - 1)
             v == SubSeq(s, k + 1, Len(s))
  <2>4a. u \in Seq(S) /\ Len(u) = k - 1 /\ \A i \in 1 .. k - 1 : u[i] = s[i]
    BY <2>3
  <2>4b. v \in Seq(S) /\ Len(v) = Len(s) - k /\ \A i \in 1 .. Len(s) - k : v[i] = s[i + k]
    <3>1. k + 1 \in 1 .. Len(s) + 1 /\ Len(s) \in k .. Len(s)
      BY <2>3
    <3> QED BY <3>1, SubSeqProperties, <2>3
  <2>4c. t = u \o v
    BY <2>4
  <2> HIDE DEF u, v
  <2>5. t \in Seq(S) /\ Len(t) = Len(s) - 1
    <3>1. t \in Seq(S) /\ Len(t) = Len(u) + Len(v)
      BY <2>4a, <2>4b, <2>4c, ConcatProperties
    <3> QED BY <3>1, <2>3, <2>4a, <2>4b
  <2>6. \A i \in 1 .. Len(t) : t[i] = IF i < k THEN s[i] ELSE s[i + 1]
    <3> SUFFICES ASSUME NEW i \in 1 .. Len(t)
                 PROVE  t[i] = IF i < k THEN s[i] ELSE s[i + 1]
      OBVIOUS
    <3>1. CASE i < k
      BY <3>1, <2>3, <2>4a, <2>4b, <2>4c, <2>5
    <3>2. CASE ~(i < k)
      <4>1. t[i] = v[i - (k - 1)] /\ i - (k - 1) \in 1 .. Len(s) - k
        BY <3>2, <2>3, <2>4a, <2>4b, <2>4c, <2>5
      <4>2. i - (k - 1) + k = i + 1
        BY <2>3, <2>5
      <4> QED BY <3>2, <4>1, <4>2, <2>4b
    <3> QED BY <3>1, <3>2
  <2>7. \A i \in DOMAIN s : s[i] = e <=> i = k
    BY <2>3 DEF IsOneToOne
  <2>8. DOMAIN t = 1 .. Len(s) - 1 /\ DOMAIN s = 1 .. Len(s) /\ Len(s) \in Nat
    BY <2>5
  <2> DEFINE in(i) == IF i < k THEN i ELSE i + 1
             out(i) == IF i < k THEN i ELSE i - 1
  <2>9. \A i \in DOMAIN t : in(i) \in DOMAIN s /\ in(i) # k /\ t[i] = s[in(i)]
    BY <2>3, <2>5, <2>6, <2>8
  <2>10. \A i \in DOMAIN s : i # k => out(i) \in DOMAIN t /\ t[out(i)] = s[i]
    BY <2>3, <2>5, <2>6, <2>8
  <2>11. IsOneToOne(t)
    <3> SUFFICES ASSUME NEW i \in DOMAIN t, NEW j \in DOMAIN t, t[i] = t[j]
                 PROVE  i = j
      BY DEF IsOneToOne
    <3>1. in(i) = in(j)
      BY <2>9 DEF IsOneToOne
    <3> QED BY <3>1, <2>3, <2>8
  <2>12. ToSet(t) = ToSet(s) \ {e}
    BY <2>7, <2>9, <2>10 DEF ToSet
  <2> QED BY <2>5, <2>11, <2>12 DEF t
<1> QED BY <1>1, <1>2

-----------------------------------------------------------------------------
(* Folds.  What is true of the base, and of the result of a step for x     *)
(* when it was true of what the step started from, is true of the fold.    *)
(* "What is true" is a set of results for each set T of the elements that  *)
(* have had their step, family[T].                                         *)

\* The element that a fold takes next, and the function it is defined by, where
\* step[<<x, r>>] is the step for x from r.
Chosen(T) == CHOOSE x \in T : TRUE

Folds(h, step, base, S) ==
  h = [T \in SUBSET S |-> IF T = {} THEN base ELSE step[<<Chosen(T), h[T \ {Chosen(T)}]>>]]

LEMMA ChosenIn ==
  ASSUME NEW T, T # {}
  PROVE  Chosen(T) \in T
  BY DEF Chosen

\* A family of sets that a failing subset of S has a least failing subset of.
LEMMA FirstToFail ==
  ASSUME NEW S, IsFiniteSet(S), NEW Bad \in SUBSET SUBSET S, Bad # {}
  PROVE  \E T \in Bad : \A x \in T : T \ {x} \notin Bad
<1>1. IsWellFoundedOn(StrictSubsetOrdering(S), SUBSET S)
  BY FS_StrictSubsetOrderingWellFounded, FS_FiniteSubsetsOfFinite, Zenon
<1>2. PICK T \in Bad : \A U \in Bad : ~ (<<U, T>> \in StrictSubsetOrdering(S))
  BY <1>1, WFMin, Zenon
<1>3. \A x \in T : <<T \ {x}, T>> \in StrictSubsetOrdering(S)
  BY DEF StrictSubsetOrdering
<1> QED BY <1>2, <1>3, Zenon

\* What holds of all the steps of a fold holds of its result.
LEMMA FoldInduction ==
  ASSUME NEW S, IsFiniteSet(S), NEW h, NEW family,
         h[{}] \in family[{}],
         \A T \in SUBSET S : T # {} /\ h[T \ {Chosen(T)}] \in family[T \ {Chosen(T)}] =>
           h[T] \in family[T]
  PROVE  h[S] \in family[S]
<1> DEFINE Bad == {T \in SUBSET S : h[T] \notin family[T]}
<1>1. SUFFICES ASSUME Bad # {} PROVE FALSE
  OBVIOUS
<1>2. PICK T \in Bad : \A x \in T : T \ {x} \notin Bad
  BY <1>1, FirstToFail, Zenon
<1>3. T # {} /\ T \in SUBSET S /\ h[T] \notin family[T]
  OBVIOUS
<1> DEFINE x == Chosen(T)
<1>4. x \in T
  BY <1>3 DEF Chosen
<1>5. h[T \ {x}] \in family[T \ {x}]
  BY <1>2, <1>3, <1>4
<1> QED BY <1>3, <1>5

\* The function that a fold is defined by exists.
LEMMA FoldExists ==
  ASSUME NEW S, IsFiniteSet(S), NEW family, NEW base \in family[{}], NEW step,
         \A T \in SUBSET S : \A x \in T : \A r \in family[T \ {x}] :
           step[<<x, r>>] \in family[T]
  PROVE  \E h : /\ Folds(h, step, base, S)
               /\ \A T \in SUBSET S : h[T] \in family[T]
<1> DEFINE Stepped(h, T) == step[<<Chosen(T), h[T \ {Chosen(T)}]>>]
           Small(n) == {T \in SUBSET S : Cardinality(T) <= n}
           Defines(h, n) ==
             /\ h = [T \in Small(n) |-> IF T = {} THEN base ELSE Stepped(h, T)]
             /\ \A T \in Small(n) : h[T] \in family[T]
           Bad == {n \in Nat : ~ \E h : Defines(h, n)}
<1>1. \A T \in SUBSET S : /\ IsFiniteSet(T) /\ Cardinality(T) \in Nat
                          /\ Cardinality(T) <= Cardinality(S)
                          /\ Cardinality(T) = 0 <=> T = {}
  BY FS_Subset, FS_CardinalityType, FS_EmptySet
<1>2. \A T \in SUBSET S : \A x \in T : T \ {x} \in SUBSET S /\ Cardinality(T \ {x}) = Cardinality(T) - 1
  BY <1>1, FS_RemoveElement
<1>3. Bad = {}
  <2>1. SUFFICES ASSUME Bad # {} PROVE FALSE
    OBVIOUS
  <2>2. PICK n \in Bad : \A m \in Bad : n <= m
    BY <2>1, LeastNumber
  <2>3. n \in Nat /\ ~ \E h : Defines(h, n)
    OBVIOUS
  <2>4. CASE n = 0
    <3> DEFINE h == [T \in Small(0) |-> base]
    <3>1. \A T \in Small(0) : T = {}
      BY <1>1
    <3>2. h = [T \in Small(0) |-> IF T = {} THEN base ELSE Stepped(h, T)]
      BY <3>1
    <3>3. \A T \in Small(0) : h[T] \in family[T]
      BY <3>1
    <3>4. Defines(h, 0)
      BY <3>2, <3>3
    <3> HIDE DEF Defines, h
    <3> QED BY <2>3, <2>4, <3>4
  <2>5. CASE n # 0
    <3>1. n - 1 \in Nat /\ n - 1 \notin Bad
      <4>1. n - 1 \in Nat /\ ~ (n <= n - 1)
        BY <2>3, <2>5
      <4> HIDE DEF Bad
      <4> QED BY <2>2, <4>1
    <3>2. PICK g : Defines(g, n - 1)
      BY <3>1
    <3> DEFINE h == [T \in Small(n) |-> IF T = {} THEN base ELSE Stepped(g, T)]
    <3>3. \A T \in Small(n) : \A x \in T : T \ {x} \in Small(n - 1)
      <4> SUFFICES ASSUME NEW T \in Small(n), NEW x \in T PROVE T \ {x} \in Small(n - 1)
        OBVIOUS
      <4>1. /\ T \ {x} \in SUBSET S /\ Cardinality(T \ {x}) = Cardinality(T) - 1
            /\ Cardinality(T) <= n /\ Cardinality(T) \in Nat
        BY <1>1, <1>2
      <4> QED BY <2>3, <4>1
    <3>4. Small(n - 1) \subseteq Small(n)
      BY <1>1, <2>3
    <3>5. \A T \in Small(n - 1) : h[T] = g[T] /\ g[T] \in family[T]
      BY <3>2, <3>4
    <3>6. \A T \in Small(n) : T # {} => Stepped(g, T) = Stepped(h, T)
      <4> SUFFICES ASSUME NEW T \in Small(n), T # {} PROVE Stepped(g, T) = Stepped(h, T)
        OBVIOUS
      <4> DEFINE x == Chosen(T)
      <4>1. x \in T
        BY DEF Chosen
      <4>2. h[T \ {x}] = g[T \ {x}]
        BY <3>3, <3>5, <4>1
      <4> QED BY <4>2
    <3>7. h = [T \in Small(n) |-> IF T = {} THEN base ELSE Stepped(h, T)]
      <4>1. \A T \in Small(n) : (IF T = {} THEN base ELSE Stepped(g, T))
                                = (IF T = {} THEN base ELSE Stepped(h, T))
        BY <3>6, Zenon
      <4>2. h = [T \in Small(n) |-> IF T = {} THEN base ELSE Stepped(g, T)]
        OBVIOUS
      <4> HIDE DEF h, Stepped, Small
      <4> QED BY <4>1, <4>2, Zenon
    <3>8. \A T \in Small(n) : h[T] \in family[T]
      <4> SUFFICES ASSUME NEW T \in Small(n) PROVE h[T] \in family[T]
        OBVIOUS
      <4>1. CASE T = {}
        BY <4>1
      <4>2. CASE T # {}
        <5> DEFINE x == Chosen(T)
        <5>1. x \in T /\ T \in SUBSET S
          BY <4>2 DEF Chosen
        <5>2. g[T \ {x}] \in family[T \ {x}]
          BY <3>3, <3>5, <5>1
        <5>3. step[<<x, g[T \ {x}]>>] \in family[T]
          BY <5>1, <5>2
        <5> QED BY <4>2, <5>3
      <4> QED BY <4>1, <4>2
    <3>9. Defines(h, n)
      BY <3>7, <3>8
    <3> HIDE DEF Defines, h
    <3> QED BY <2>3, <3>9
  <2> QED BY <2>4, <2>5
<1>4. Cardinality(S) \in Nat /\ Small(Cardinality(S)) = SUBSET S
  BY <1>1
<1>5. PICK h : Defines(h, Cardinality(S))
  BY <1>3, <1>4
<1> QED BY <1>4, <1>5 DEF Folds

\* Pump.
LEMMA PumpFold ==
  ASSUME NEW S, IsFiniteSet(S), NEW family, NEW base \in family[{}],
         S = Docs,
         \A T \in SUBSET S : \A x \in T : \A r \in family[T \ {x}] :
           PumpOne(r) \in family[T]
  PROVE  Pump(base) \in family[S]
<1> DEFINE Results == UNION {family[T] : T \in SUBSET S}
           step == [p \in S \X Results |-> PumpOne(p[2])]
           F(h) == h = [T \in SUBSET S |->
                          IF T = {} THEN base ELSE PumpOne(h[T \ {Chosen(T)}])]
<1>1. \A T \in SUBSET S : \A x \in T : \A r \in family[T \ {x}] :
        step[<<x, r>>] = PumpOne(r)
  OBVIOUS
<1>2. \A T \in SUBSET S : \A x \in T : \A r \in family[T \ {x}] : step[<<x, r>>] \in family[T]
  <2> SUFFICES ASSUME NEW T \in SUBSET S, NEW x \in T, NEW r \in family[T \ {x}]
               PROVE  step[<<x, r>>] \in family[T]
    OBVIOUS
  <2>1. step[<<x, r>>] = PumpOne(r)
    BY <1>1
  <2>2. PumpOne(r) \in family[T]
    OBVIOUS
  <2> HIDE DEF step
  <2> QED BY <2>1, <2>2, Zenon
<1> HIDE DEF step
<1>3. PICK g : Folds(g, step, base, S) /\ \A T \in SUBSET S : g[T] \in family[T]
  BY <1>2, FoldExists
<1>4. \A T \in SUBSET S : T # {} => Chosen(T) \in T /\ T \ {Chosen(T)} \in SUBSET S
  BY ChosenIn
<1>5. F(g)
  <2>1. \A T \in SUBSET S : T # {} =>
          step[<<Chosen(T), g[T \ {Chosen(T)}]>>] = PumpOne(g[T \ {Chosen(T)}])
    BY <1>1, <1>3, <1>4
  <2> QED BY <1>3, <2>1 DEF Folds
<1> DEFINE h == CHOOSE h : F(h)
<1>6. F(h)
  <2> HIDE DEF F
  <2> QED BY <1>5, Zenon
<1>7. Pump(base) = h[S]
  BY Zenon DEF Pump, FoldSet, MapThenFoldSet, Chosen
<1> HIDE DEF h
<1>8. h[{}] \in family[{}]
  BY <1>6
<1>9. \A T \in SUBSET S : T # {} /\ h[T \ {Chosen(T)}] \in family[T \ {Chosen(T)}] =>
        h[T] \in family[T]
  <2>1. \A T \in SUBSET S : T # {} => h[T] = PumpOne(h[T \ {Chosen(T)}])
    BY <1>6
  <2>2. SUFFICES ASSUME NEW T \in SUBSET S, T # {},
                        h[T \ {Chosen(T)}] \in family[T \ {Chosen(T)}]
                 PROVE  h[T] \in family[T]
    OBVIOUS
  <2> DEFINE x == Chosen(T)
  <2>3. x \in T /\ h[T] = PumpOne(h[T \ {x}])
    BY <2>1, <2>2, <1>4
  <2> HIDE DEF x
  <2> QED BY <2>2, <2>3 DEF x
<1> HIDE DEF F
<1>10. h[S] \in family[S]
  BY <1>8, <1>9, FoldInduction
<1> QED BY <1>7, <1>10

\* RemoveLimboTargets.
LEMMA DropFold ==
  ASSUME NEW S, IsFiniteSet(S), NEW family, NEW base \in family[{}],
         \A T \in SUBSET S : \A x \in T : \A r \in family[T \ {x}] :
           RemoveLimboTarget(r, x) \in family[T]
  PROVE  RemoveLimboTargets(base, S) \in family[S]
<1> DEFINE Results == UNION {family[T] : T \in SUBSET S}
           step == [p \in S \X Results |-> RemoveLimboTarget(p[2], p[1])]
           F(h) == h = [T \in SUBSET S |->
                          IF T = {} THEN base ELSE RemoveLimboTarget(h[T \ {Chosen(T)}], Chosen(T))]
<1>1. \A T \in SUBSET S : \A x \in T : \A r \in family[T \ {x}] :
        step[<<x, r>>] = RemoveLimboTarget(r, x)
  OBVIOUS
<1>2. \A T \in SUBSET S : \A x \in T : \A r \in family[T \ {x}] : step[<<x, r>>] \in family[T]
  <2> SUFFICES ASSUME NEW T \in SUBSET S, NEW x \in T, NEW r \in family[T \ {x}]
               PROVE  step[<<x, r>>] \in family[T]
    OBVIOUS
  <2>1. step[<<x, r>>] = RemoveLimboTarget(r, x)
    BY <1>1
  <2>2. RemoveLimboTarget(r, x) \in family[T]
    OBVIOUS
  <2> HIDE DEF step
  <2> QED BY <2>1, <2>2, Zenon
<1> HIDE DEF step
<1>3. PICK g : Folds(g, step, base, S) /\ \A T \in SUBSET S : g[T] \in family[T]
  BY <1>2, FoldExists
<1>4. \A T \in SUBSET S : T # {} => Chosen(T) \in T /\ T \ {Chosen(T)} \in SUBSET S
  BY ChosenIn
<1>5. F(g)
  <2>1. \A T \in SUBSET S : T # {} =>
          step[<<Chosen(T), g[T \ {Chosen(T)}]>>] = RemoveLimboTarget(g[T \ {Chosen(T)}], Chosen(T))
    BY <1>1, <1>3, <1>4
  <2> QED BY <1>3, <2>1 DEF Folds
<1> DEFINE h == CHOOSE h : F(h)
<1>6. F(h)
  <2> HIDE DEF F
  <2> QED BY <1>5, Zenon
<1>7. RemoveLimboTargets(base, S) = h[S]
  BY Zenon DEF RemoveLimboTargets, FoldSet, MapThenFoldSet, Chosen
<1> HIDE DEF h
<1>8. h[{}] \in family[{}]
  BY <1>6
<1>9. \A T \in SUBSET S : T # {} /\ h[T \ {Chosen(T)}] \in family[T \ {Chosen(T)}] =>
        h[T] \in family[T]
  <2>1. \A T \in SUBSET S : T # {} => h[T] = RemoveLimboTarget(h[T \ {Chosen(T)}], Chosen(T))
    BY <1>6
  <2>2. SUFFICES ASSUME NEW T \in SUBSET S, T # {},
                        h[T \ {Chosen(T)}] \in family[T \ {Chosen(T)}]
                 PROVE  h[T] \in family[T]
    OBVIOUS
  <2> DEFINE x == Chosen(T)
  <2>3. x \in T /\ h[T] = RemoveLimboTarget(h[T \ {x}], x)
    BY <2>1, <2>2, <1>4
  <2> HIDE DEF x
  <2> QED BY <2>2, <2>3 DEF x
<1> HIDE DEF F
<1>10. h[S] \in family[S]
  BY <1>8, <1>9, FoldInduction
<1> QED BY <1>7, <1>10

\* TrackLimboChanges.
LEMMA TrackFold ==
  ASSUME NEW S, IsFiniteSet(S), NEW family, NEW base \in family[{}],
         \A T \in SUBSET S : \A x \in T : \A r \in family[T \ {x}] :
           TrackLimboChange(r, x) \in family[T]
  PROVE  TrackLimboChanges(base, S) \in family[S]
<1> DEFINE Results == UNION {family[T] : T \in SUBSET S}
           step == [p \in S \X Results |-> TrackLimboChange(p[2], p[1])]
           F(h) == h = [T \in SUBSET S |->
                          IF T = {} THEN base ELSE TrackLimboChange(h[T \ {Chosen(T)}], Chosen(T))]
<1>1. \A T \in SUBSET S : \A x \in T : \A r \in family[T \ {x}] :
        step[<<x, r>>] = TrackLimboChange(r, x)
  OBVIOUS
<1>2. \A T \in SUBSET S : \A x \in T : \A r \in family[T \ {x}] : step[<<x, r>>] \in family[T]
  <2> SUFFICES ASSUME NEW T \in SUBSET S, NEW x \in T, NEW r \in family[T \ {x}]
               PROVE  step[<<x, r>>] \in family[T]
    OBVIOUS
  <2>1. step[<<x, r>>] = TrackLimboChange(r, x)
    BY <1>1
  <2>2. TrackLimboChange(r, x) \in family[T]
    OBVIOUS
  <2> HIDE DEF step
  <2> QED BY <2>1, <2>2, Zenon
<1> HIDE DEF step
<1>3. PICK g : Folds(g, step, base, S) /\ \A T \in SUBSET S : g[T] \in family[T]
  BY <1>2, FoldExists
<1>4. \A T \in SUBSET S : T # {} => Chosen(T) \in T /\ T \ {Chosen(T)} \in SUBSET S
  BY ChosenIn
<1>5. F(g)
  <2>1. \A T \in SUBSET S : T # {} =>
          step[<<Chosen(T), g[T \ {Chosen(T)}]>>] = TrackLimboChange(g[T \ {Chosen(T)}], Chosen(T))
    BY <1>1, <1>3, <1>4
  <2> QED BY <1>3, <2>1 DEF Folds
<1> DEFINE h == CHOOSE h : F(h)
<1>6. F(h)
  <2> HIDE DEF F
  <2> QED BY <1>5, Zenon
<1>7. TrackLimboChanges(base, S) = h[S]
  BY Zenon DEF TrackLimboChanges, FoldSet, MapThenFoldSet, Chosen
<1> HIDE DEF h
<1>8. h[{}] \in family[{}]
  BY <1>6
<1>9. \A T \in SUBSET S : T # {} /\ h[T \ {Chosen(T)}] \in family[T \ {Chosen(T)}] =>
        h[T] \in family[T]
  <2>1. \A T \in SUBSET S : T # {} => h[T] = TrackLimboChange(h[T \ {Chosen(T)}], Chosen(T))
    BY <1>6
  <2>2. SUFFICES ASSUME NEW T \in SUBSET S, T # {},
                        h[T \ {Chosen(T)}] \in family[T \ {Chosen(T)}]
                 PROVE  h[T] \in family[T]
    OBVIOUS
  <2> DEFINE x == Chosen(T)
  <2>3. x \in T /\ h[T] = TrackLimboChange(h[T \ {x}], x)
    BY <2>1, <2>2, <1>4
  <2> HIDE DEF x
  <2> QED BY <2>2, <2>3 DEF x
<1> HIDE DEF F
<1>10. h[S] \in family[S]
  BY <1>8, <1>9, FoldInduction
<1> QED BY <1>7, <1>10

\* SendWatchRequests.
LEMMA SendFold ==
  ASSUME NEW targets, NEW S, IsFiniteSet(S), NEW family, NEW base \in family[{}],
         S = DOMAIN targets,
         \A T \in SUBSET S : \A x \in T : \A r \in family[T \ {x}] :
           SendWatchRequest(r, x, targets[x]) \in family[T]
  PROVE  SendWatchRequests(base, targets) \in family[S]
<1> DEFINE Results == UNION {family[T] : T \in SUBSET S}
           step == [p \in S \X Results |-> SendWatchRequest(p[2], p[1], targets[p[1]])]
           F(h) == h = [T \in SUBSET S |->
                          IF T = {} THEN base ELSE SendWatchRequest(h[T \ {Chosen(T)}], Chosen(T), targets[Chosen(T)])]
<1>1. \A T \in SUBSET S : \A x \in T : \A r \in family[T \ {x}] :
        step[<<x, r>>] = SendWatchRequest(r, x, targets[x])
  OBVIOUS
<1>2. \A T \in SUBSET S : \A x \in T : \A r \in family[T \ {x}] : step[<<x, r>>] \in family[T]
  <2> SUFFICES ASSUME NEW T \in SUBSET S, NEW x \in T, NEW r \in family[T \ {x}]
               PROVE  step[<<x, r>>] \in family[T]
    OBVIOUS
  <2>1. step[<<x, r>>] = SendWatchRequest(r, x, targets[x])
    BY <1>1
  <2>2. SendWatchRequest(r, x, targets[x]) \in family[T]
    OBVIOUS
  <2> HIDE DEF step
  <2> QED BY <2>1, <2>2, Zenon
<1> HIDE DEF step
<1>3. PICK g : Folds(g, step, base, S) /\ \A T \in SUBSET S : g[T] \in family[T]
  BY <1>2, FoldExists
<1>4. \A T \in SUBSET S : T # {} => Chosen(T) \in T /\ T \ {Chosen(T)} \in SUBSET S
  BY ChosenIn
<1>5. F(g)
  <2>1. \A T \in SUBSET S : T # {} =>
          step[<<Chosen(T), g[T \ {Chosen(T)}]>>] = SendWatchRequest(g[T \ {Chosen(T)}], Chosen(T), targets[Chosen(T)])
    BY <1>1, <1>3, <1>4
  <2> QED BY <1>3, <2>1 DEF Folds
<1> DEFINE h == CHOOSE h : F(h)
<1>6. F(h)
  <2> HIDE DEF F
  <2> QED BY <1>5, Zenon
<1>7. SendWatchRequests(base, targets) = h[S]
  BY Zenon DEF SendWatchRequests, FoldSet, MapThenFoldSet, Chosen
<1> HIDE DEF h
<1>8. h[{}] \in family[{}]
  BY <1>6
<1>9. \A T \in SUBSET S : T # {} /\ h[T \ {Chosen(T)}] \in family[T \ {Chosen(T)}] =>
        h[T] \in family[T]
  <2>1. \A T \in SUBSET S : T # {} => h[T] = SendWatchRequest(h[T \ {Chosen(T)}], Chosen(T), targets[Chosen(T)])
    BY <1>6
  <2>2. SUFFICES ASSUME NEW T \in SUBSET S, T # {},
                        h[T \ {Chosen(T)}] \in family[T \ {Chosen(T)}]
                 PROVE  h[T] \in family[T]
    OBVIOUS
  <2> DEFINE x == Chosen(T)
  <2>3. x \in T /\ h[T] = SendWatchRequest(h[T \ {x}], x, targets[x])
    BY <2>1, <2>2, <1>4
  <2> HIDE DEF x
  <2> QED BY <2>2, <2>3 DEF x
<1> HIDE DEF F
<1>10. h[S] \in family[S]
  BY <1>8, <1>9, FoldInduction
<1> QED BY <1>7, <1>10

\* RewatchAll.
LEMMA RewatchFold ==
  ASSUME NEW S, IsFiniteSet(S), NEW family, NEW base \in family[{}],
         \A T \in SUBSET S : \A x \in T : \A r \in family[T \ {x}] :
           Rewatch(r, x) \in family[T]
  PROVE  RewatchAll(base, S) \in family[S]
<1> DEFINE Results == UNION {family[T] : T \in SUBSET S}
           step == [p \in S \X Results |-> Rewatch(p[2], p[1])]
           F(h) == h = [T \in SUBSET S |->
                          IF T = {} THEN base ELSE Rewatch(h[T \ {Chosen(T)}], Chosen(T))]
<1>1. \A T \in SUBSET S : \A x \in T : \A r \in family[T \ {x}] :
        step[<<x, r>>] = Rewatch(r, x)
  OBVIOUS
<1>2. \A T \in SUBSET S : \A x \in T : \A r \in family[T \ {x}] : step[<<x, r>>] \in family[T]
  <2> SUFFICES ASSUME NEW T \in SUBSET S, NEW x \in T, NEW r \in family[T \ {x}]
               PROVE  step[<<x, r>>] \in family[T]
    OBVIOUS
  <2>1. step[<<x, r>>] = Rewatch(r, x)
    BY <1>1
  <2>2. Rewatch(r, x) \in family[T]
    OBVIOUS
  <2> HIDE DEF step
  <2> QED BY <2>1, <2>2, Zenon
<1> HIDE DEF step
<1>3. PICK g : Folds(g, step, base, S) /\ \A T \in SUBSET S : g[T] \in family[T]
  BY <1>2, FoldExists
<1>4. \A T \in SUBSET S : T # {} => Chosen(T) \in T /\ T \ {Chosen(T)} \in SUBSET S
  BY ChosenIn
<1>5. F(g)
  <2>1. \A T \in SUBSET S : T # {} =>
          step[<<Chosen(T), g[T \ {Chosen(T)}]>>] = Rewatch(g[T \ {Chosen(T)}], Chosen(T))
    BY <1>1, <1>3, <1>4
  <2> QED BY <1>3, <2>1 DEF Folds
<1> DEFINE h == CHOOSE h : F(h)
<1>6. F(h)
  <2> HIDE DEF F
  <2> QED BY <1>5, Zenon
<1>7. RewatchAll(base, S) = h[S]
  BY Zenon DEF RewatchAll, FoldSet, MapThenFoldSet, Chosen
<1> HIDE DEF h
<1>8. h[{}] \in family[{}]
  BY <1>6
<1>9. \A T \in SUBSET S : T # {} /\ h[T \ {Chosen(T)}] \in family[T \ {Chosen(T)}] =>
        h[T] \in family[T]
  <2>1. \A T \in SUBSET S : T # {} => h[T] = Rewatch(h[T \ {Chosen(T)}], Chosen(T))
    BY <1>6
  <2>2. SUFFICES ASSUME NEW T \in SUBSET S, T # {},
                        h[T \ {Chosen(T)}] \in family[T \ {Chosen(T)}]
                 PROVE  h[T] \in family[T]
    OBVIOUS
  <2> DEFINE x == Chosen(T)
  <2>3. x \in T /\ h[T] = Rewatch(h[T \ {x}], x)
    BY <2>1, <2>2, <1>4
  <2> HIDE DEF x
  <2> QED BY <2>2, <2>3 DEF x
<1> HIDE DEF F
<1>10. h[S] \in family[S]
  BY <1>8, <1>9, FoldInduction
<1> QED BY <1>7, <1>10

\* AddDocument.
LEMMA AddFold ==
  ASSUME NEW meta, NEW key, NEW update, NEW S, IsFiniteSet(S), NEW family, NEW base \in family[{}],
         \A T \in SUBSET S : \A x \in T : \A r \in family[T \ {x}] :
           AddDocumentToTarget(r, meta, x, key, update) \in family[T]
  PROVE  AddDocument(base, meta, S, key, update) \in family[S]
<1> DEFINE Results == UNION {family[T] : T \in SUBSET S}
           step == [p \in S \X Results |-> AddDocumentToTarget(p[2], meta, p[1], key, update)]
           F(h) == h = [T \in SUBSET S |->
                          IF T = {} THEN base ELSE AddDocumentToTarget(h[T \ {Chosen(T)}], meta, Chosen(T), key, update)]
<1>1. \A T \in SUBSET S : \A x \in T : \A r \in family[T \ {x}] :
        step[<<x, r>>] = AddDocumentToTarget(r, meta, x, key, update)
  OBVIOUS
<1>2. \A T \in SUBSET S : \A x \in T : \A r \in family[T \ {x}] : step[<<x, r>>] \in family[T]
  <2> SUFFICES ASSUME NEW T \in SUBSET S, NEW x \in T, NEW r \in family[T \ {x}]
               PROVE  step[<<x, r>>] \in family[T]
    OBVIOUS
  <2>1. step[<<x, r>>] = AddDocumentToTarget(r, meta, x, key, update)
    BY <1>1
  <2>2. AddDocumentToTarget(r, meta, x, key, update) \in family[T]
    OBVIOUS
  <2> HIDE DEF step
  <2> QED BY <2>1, <2>2, Zenon
<1> HIDE DEF step
<1>3. PICK g : Folds(g, step, base, S) /\ \A T \in SUBSET S : g[T] \in family[T]
  BY <1>2, FoldExists
<1>4. \A T \in SUBSET S : T # {} => Chosen(T) \in T /\ T \ {Chosen(T)} \in SUBSET S
  BY ChosenIn
<1>5. F(g)
  <2>1. \A T \in SUBSET S : T # {} =>
          step[<<Chosen(T), g[T \ {Chosen(T)}]>>] = AddDocumentToTarget(g[T \ {Chosen(T)}], meta, Chosen(T), key, update)
    BY <1>1, <1>3, <1>4
  <2> QED BY <1>3, <2>1 DEF Folds
<1> DEFINE h == CHOOSE h : F(h)
<1>6. F(h)
  <2> HIDE DEF F
  <2> QED BY <1>5, Zenon
<1>7. AddDocument(base, meta, S, key, update) = h[S]
  BY Zenon DEF AddDocument, FoldSet, MapThenFoldSet, Chosen
<1> HIDE DEF h
<1>8. h[{}] \in family[{}]
  BY <1>6
<1>9. \A T \in SUBSET S : T # {} /\ h[T \ {Chosen(T)}] \in family[T \ {Chosen(T)}] =>
        h[T] \in family[T]
  <2>1. \A T \in SUBSET S : T # {} => h[T] = AddDocumentToTarget(h[T \ {Chosen(T)}], meta, Chosen(T), key, update)
    BY <1>6
  <2>2. SUFFICES ASSUME NEW T \in SUBSET S, T # {},
                        h[T \ {Chosen(T)}] \in family[T \ {Chosen(T)}]
                 PROVE  h[T] \in family[T]
    OBVIOUS
  <2> DEFINE x == Chosen(T)
  <2>3. x \in T /\ h[T] = AddDocumentToTarget(h[T \ {x}], meta, x, key, update)
    BY <2>1, <2>2, <1>4
  <2> HIDE DEF x
  <2> QED BY <2>2, <2>3 DEF x
<1> HIDE DEF F
<1>10. h[S] \in family[S]
  BY <1>8, <1>9, FoldInduction
<1> QED BY <1>7, <1>10

\* RemoveDocument.
LEMMA RemoveFold ==
  ASSUME NEW meta, NEW key, NEW update, NEW S, IsFiniteSet(S), NEW family, NEW base \in family[{}],
         \A T \in SUBSET S : \A x \in T : \A r \in family[T \ {x}] :
           RemoveDocumentFromTarget(r, meta, x, key, update) \in family[T]
  PROVE  RemoveDocument(base, meta, S, key, update) \in family[S]
<1> DEFINE Results == UNION {family[T] : T \in SUBSET S}
           step == [p \in S \X Results |-> RemoveDocumentFromTarget(p[2], meta, p[1], key, update)]
           F(h) == h = [T \in SUBSET S |->
                          IF T = {} THEN base ELSE RemoveDocumentFromTarget(h[T \ {Chosen(T)}], meta, Chosen(T), key, update)]
<1>1. \A T \in SUBSET S : \A x \in T : \A r \in family[T \ {x}] :
        step[<<x, r>>] = RemoveDocumentFromTarget(r, meta, x, key, update)
  OBVIOUS
<1>2. \A T \in SUBSET S : \A x \in T : \A r \in family[T \ {x}] : step[<<x, r>>] \in family[T]
  <2> SUFFICES ASSUME NEW T \in SUBSET S, NEW x \in T, NEW r \in family[T \ {x}]
               PROVE  step[<<x, r>>] \in family[T]
    OBVIOUS
  <2>1. step[<<x, r>>] = RemoveDocumentFromTarget(r, meta, x, key, update)
    BY <1>1
  <2>2. RemoveDocumentFromTarget(r, meta, x, key, update) \in family[T]
    OBVIOUS
  <2> HIDE DEF step
  <2> QED BY <2>1, <2>2, Zenon
<1> HIDE DEF step
<1>3. PICK g : Folds(g, step, base, S) /\ \A T \in SUBSET S : g[T] \in family[T]
  BY <1>2, FoldExists
<1>4. \A T \in SUBSET S : T # {} => Chosen(T) \in T /\ T \ {Chosen(T)} \in SUBSET S
  BY ChosenIn
<1>5. F(g)
  <2>1. \A T \in SUBSET S : T # {} =>
          step[<<Chosen(T), g[T \ {Chosen(T)}]>>] = RemoveDocumentFromTarget(g[T \ {Chosen(T)}], meta, Chosen(T), key, update)
    BY <1>1, <1>3, <1>4
  <2> QED BY <1>3, <2>1 DEF Folds
<1> DEFINE h == CHOOSE h : F(h)
<1>6. F(h)
  <2> HIDE DEF F
  <2> QED BY <1>5, Zenon
<1>7. RemoveDocument(base, meta, S, key, update) = h[S]
  BY Zenon DEF RemoveDocument, FoldSet, MapThenFoldSet, Chosen
<1> HIDE DEF h
<1>8. h[{}] \in family[{}]
  BY <1>6
<1>9. \A T \in SUBSET S : T # {} /\ h[T \ {Chosen(T)}] \in family[T \ {Chosen(T)}] =>
        h[T] \in family[T]
  <2>1. \A T \in SUBSET S : T # {} => h[T] = RemoveDocumentFromTarget(h[T \ {Chosen(T)}], meta, Chosen(T), key, update)
    BY <1>6
  <2>2. SUFFICES ASSUME NEW T \in SUBSET S, T # {},
                        h[T \ {Chosen(T)}] \in family[T \ {Chosen(T)}]
                 PROVE  h[T] \in family[T]
    OBVIOUS
  <2> DEFINE x == Chosen(T)
  <2>3. x \in T /\ h[T] = RemoveDocumentFromTarget(h[T \ {x}], meta, x, key, update)
    BY <2>1, <2>2, <1>4
  <2> HIDE DEF x
  <2> QED BY <2>2, <2>3 DEF x
<1> HIDE DEF F
<1>10. h[S] \in family[S]
  BY <1>8, <1>9, FoldInduction
<1> QED BY <1>7, <1>10

\* RemoveDocumentsFromTarget.
LEMMA RemoveKeysFold ==
  ASSUME NEW meta, NEW t, NEW S, IsFiniteSet(S), NEW family, NEW base \in family[{}],
         \A T \in SUBSET S : \A x \in T : \A r \in family[T \ {x}] :
           RemoveDocumentFromTarget(r, meta, t, x, NoUpdate) \in family[T]
  PROVE  RemoveDocumentsFromTarget(base, meta, t, S) \in family[S]
<1> DEFINE Results == UNION {family[T] : T \in SUBSET S}
           step == [p \in S \X Results |-> RemoveDocumentFromTarget(p[2], meta, t, p[1], NoUpdate)]
           F(h) == h = [T \in SUBSET S |->
                          IF T = {} THEN base ELSE RemoveDocumentFromTarget(h[T \ {Chosen(T)}], meta, t, Chosen(T), NoUpdate)]
<1>1. \A T \in SUBSET S : \A x \in T : \A r \in family[T \ {x}] :
        step[<<x, r>>] = RemoveDocumentFromTarget(r, meta, t, x, NoUpdate)
  OBVIOUS
<1>2. \A T \in SUBSET S : \A x \in T : \A r \in family[T \ {x}] : step[<<x, r>>] \in family[T]
  <2> SUFFICES ASSUME NEW T \in SUBSET S, NEW x \in T, NEW r \in family[T \ {x}]
               PROVE  step[<<x, r>>] \in family[T]
    OBVIOUS
  <2>1. step[<<x, r>>] = RemoveDocumentFromTarget(r, meta, t, x, NoUpdate)
    BY <1>1
  <2>2. RemoveDocumentFromTarget(r, meta, t, x, NoUpdate) \in family[T]
    OBVIOUS
  <2> HIDE DEF step
  <2> QED BY <2>1, <2>2, Zenon
<1> HIDE DEF step
<1>3. PICK g : Folds(g, step, base, S) /\ \A T \in SUBSET S : g[T] \in family[T]
  BY <1>2, FoldExists
<1>4. \A T \in SUBSET S : T # {} => Chosen(T) \in T /\ T \ {Chosen(T)} \in SUBSET S
  BY ChosenIn
<1>5. F(g)
  <2>1. \A T \in SUBSET S : T # {} =>
          step[<<Chosen(T), g[T \ {Chosen(T)}]>>] = RemoveDocumentFromTarget(g[T \ {Chosen(T)}], meta, t, Chosen(T), NoUpdate)
    BY <1>1, <1>3, <1>4
  <2> QED BY <1>3, <2>1 DEF Folds
<1> DEFINE h == CHOOSE h : F(h)
<1>6. F(h)
  <2> HIDE DEF F
  <2> QED BY <1>5, Zenon
<1>7. RemoveDocumentsFromTarget(base, meta, t, S) = h[S]
  BY Zenon DEF RemoveDocumentsFromTarget, FoldSet, MapThenFoldSet, Chosen
<1> HIDE DEF h
<1>8. h[{}] \in family[{}]
  BY <1>6
<1>9. \A T \in SUBSET S : T # {} /\ h[T \ {Chosen(T)}] \in family[T \ {Chosen(T)}] =>
        h[T] \in family[T]
  <2>1. \A T \in SUBSET S : T # {} => h[T] = RemoveDocumentFromTarget(h[T \ {Chosen(T)}], meta, t, Chosen(T), NoUpdate)
    BY <1>6
  <2>2. SUFFICES ASSUME NEW T \in SUBSET S, T # {},
                        h[T \ {Chosen(T)}] \in family[T \ {Chosen(T)}]
                 PROVE  h[T] \in family[T]
    OBVIOUS
  <2> DEFINE x == Chosen(T)
  <2>3. x \in T /\ h[T] = RemoveDocumentFromTarget(h[T \ {x}], meta, t, x, NoUpdate)
    BY <2>1, <2>2, <1>4
  <2> HIDE DEF x
  <2> QED BY <2>2, <2>3 DEF x
<1> HIDE DEF F
<1>10. h[S] \in family[S]
  BY <1>8, <1>9, FoldInduction
<1> QED BY <1>7, <1>10

\* SynthesizeDeletes.
LEMMA SynthesizeFold ==
  ASSUME NEW meta, NEW version, NEW S, IsFiniteSet(S), NEW family, NEW base \in family[{}],
         S = {t \in DOMAIN base.states \cap DOMAIN meta.lookup :
                base.states[t].current /\ IsActiveTarget(base, meta, t)},
         \A T \in SUBSET S : \A x \in T : \A r \in family[T \ {x}] :
           SynthesizeDelete(r, meta, x, version) \in family[T]
  PROVE  SynthesizeDeletes(base, meta, version) \in family[S]
<1> DEFINE Results == UNION {family[T] : T \in SUBSET S}
           step == [p \in S \X Results |-> SynthesizeDelete(p[2], meta, p[1], version)]
           F(h) == h = [T \in SUBSET S |->
                          IF T = {} THEN base ELSE SynthesizeDelete(h[T \ {Chosen(T)}], meta, Chosen(T), version)]
<1>1. \A T \in SUBSET S : \A x \in T : \A r \in family[T \ {x}] :
        step[<<x, r>>] = SynthesizeDelete(r, meta, x, version)
  OBVIOUS
<1>2. \A T \in SUBSET S : \A x \in T : \A r \in family[T \ {x}] : step[<<x, r>>] \in family[T]
  <2> SUFFICES ASSUME NEW T \in SUBSET S, NEW x \in T, NEW r \in family[T \ {x}]
               PROVE  step[<<x, r>>] \in family[T]
    OBVIOUS
  <2>1. step[<<x, r>>] = SynthesizeDelete(r, meta, x, version)
    BY <1>1
  <2>2. SynthesizeDelete(r, meta, x, version) \in family[T]
    OBVIOUS
  <2> HIDE DEF step
  <2> QED BY <2>1, <2>2, Zenon
<1> HIDE DEF step
<1>3. PICK g : Folds(g, step, base, S) /\ \A T \in SUBSET S : g[T] \in family[T]
  BY <1>2, FoldExists
<1>4. \A T \in SUBSET S : T # {} => Chosen(T) \in T /\ T \ {Chosen(T)} \in SUBSET S
  BY ChosenIn
<1>5. F(g)
  <2>1. \A T \in SUBSET S : T # {} =>
          step[<<Chosen(T), g[T \ {Chosen(T)}]>>] = SynthesizeDelete(g[T \ {Chosen(T)}], meta, Chosen(T), version)
    BY <1>1, <1>3, <1>4
  <2> QED BY <1>3, <2>1 DEF Folds
<1> DEFINE h == CHOOSE h : F(h)
<1>6. F(h)
  <2> HIDE DEF F
  <2> QED BY <1>5, Zenon
<1>7. SynthesizeDeletes(base, meta, version) = h[S]
  BY Zenon DEF SynthesizeDeletes, FoldSet, MapThenFoldSet, Chosen
<1> HIDE DEF h
<1>8. h[{}] \in family[{}]
  BY <1>6
<1>9. \A T \in SUBSET S : T # {} /\ h[T \ {Chosen(T)}] \in family[T \ {Chosen(T)}] =>
        h[T] \in family[T]
  <2>1. \A T \in SUBSET S : T # {} => h[T] = SynthesizeDelete(h[T \ {Chosen(T)}], meta, Chosen(T), version)
    BY <1>6
  <2>2. SUFFICES ASSUME NEW T \in SUBSET S, T # {},
                        h[T \ {Chosen(T)}] \in family[T \ {Chosen(T)}]
                 PROVE  h[T] \in family[T]
    OBVIOUS
  <2> DEFINE x == Chosen(T)
  <2>3. x \in T /\ h[T] = SynthesizeDelete(h[T \ {x}], meta, x, version)
    BY <2>1, <2>2, <1>4
  <2> HIDE DEF x
  <2> QED BY <2>2, <2>3 DEF x
<1> HIDE DEF F
<1>10. h[S] \in family[S]
  BY <1>8, <1>9, FoldInduction
<1> QED BY <1>7, <1>10

-----------------------------------------------------------------------------
(* Types.  The parts of a step, in full.                                   *)

Partial(S, T) == UNION {[D -> T] : D \in {D \in SUBSET S : IsFiniteSet(D)}}

Updates == [version : Versions, value : Values \cup {"unknown"}]

TargetStates ==
  [outstanding : Nat, pending : BOOLEAN, changes : Partial(Docs, Types),
   current : BOOLEAN, token : Versions]

\* Only the query can be watched anew, because a lookup has no filter to fail.
Aggregators ==
  [states : Partial(TargetIds, TargetStates), updates : Partial(Docs, Updates),
   resets : SUBSET {QueryTarget}]

Views ==
  [docs : SUBSET Docs, synced : SUBSET Docs, current : BOOLEAN, limbo : SUBSET Docs,
   state : {"none", "local", "synced"}]

Lookups == [key : Docs, received : BOOLEAN]

Clients ==
  [open : BOOLEAN, targets : Partial(TargetIds, Versions), agg : Aggregators,
   listening : BOOLEAN, view : Views, token : Versions, limboFree : Versions,
   resolving : Partial(LookupIds, Lookups), enqueued : Seq(Docs)]

AckMessages == [what : {"added", "removed"}, target : TargetIds]
RefusedMessages == [what : {"refused"}, target : LookupIds]
ResetMessages == [what : {"reset"}, target : TargetIds]
CurrentMessages == [what : {"current"}, target : TargetIds, token : Versions]
FilterMessages ==
  [what : {"filter"}, target : TargetIds, count : Nat, might : SUBSET Docs]
DocMessages ==
  [what : {"doc"}, key : Docs, update : Updates,
   in : {T \in SUBSET TargetIds : IsFiniteSet(T)},
   out : {T \in SUBSET TargetIds : IsFiniteSet(T)}]
SnapshotMessages == [what : {"snapshot"}, version : Versions]

Messages ==
  UNION {AckMessages, RefusedMessages, ResetMessages, CurrentMessages, FilterMessages,
         DocMessages, SnapshotMessages}

Watches == [key : Docs \cup {NoKey}, asOf : Versions, resumed : BOOLEAN, current : BOOLEAN]

Servers == [watching : Partial(TargetIds, Watches), wire : Seq(Messages)]

Steps == [client : Clients, disk : Disks, server : Servers]

Metas ==
  {m \in [keys : Partial(TargetIds, SUBSET Docs), lookup : Partial(LookupIds, Docs)] :
     DOMAIN m.keys \ {QueryTarget} \subseteq DOMAIN m.lookup}

-----------------------------------------------------------------------------
(* The inductive invariant.                                                *)

\* The acknowledgements of requests for t that are on their way.
Acks(wire, t) ==
  {i \in DOMAIN wire : wire[i].what \in {"added", "removed"} /\ wire[i].target = t}

Counted(agg, wire) ==
  \A t \in TargetIds : EnsureTargetState(agg, t).outstanding = Cardinality(Acks(wire, t))

\* The last acknowledgement of a target says whether it is still listened to.
LastTells(wire, targets) ==
  \A t \in TargetIds : \A i \in Acks(wire, t) :
    (\A j \in Acks(wire, t) : j <= i) => (wire[i].what = "added" <=> t \in targets)

\* The refusal of a target that is listened to is the last the server says of it.
RefusalsEnd(wire, targets) ==
  \A i \in DOMAIN wire :
    (wire[i].what = "refused" /\ wire[i].target \in targets) =>
      \A j \in Acks(wire, wire[i].target) : j < i

\* Aggregator and wire of an open stream, and the targets listened to.
Linked(agg, wire, targets) ==
  /\ targets \subseteq DOMAIN agg.states
  /\ Counted(agg, wire)
  /\ LastTells(wire, targets)
  /\ RefusalsEnd(wire, targets)

Connected(c, far) ==
  IF c.open THEN Linked(c.agg, far.wire, DOMAIN c.targets)
            ELSE c.agg = NewAggregator /\ far = NewServer

\* Changes of a target are changes of the documents it has.
ChangesFit(changes, keys) == \A d \in DOMAIN changes : d \in keys <=> changes[d] # "added"

Fits(agg, meta) ==
  \A t \in DOMAIN meta.keys \cap DOMAIN agg.states :
    agg.states[t].outstanding = 0 => ChangesFit(agg.states[t].changes, meta.keys[t])

TargetsMatch(c) ==
  DOMAIN c.targets = DOMAIN c.resolving \cup (IF c.listening THEN {QueryTarget} ELSE {})

\* No document is looked up or enqueued twice, and only those in limbo are.
Queued(c, limbo) ==
  /\ IsOneToOne(c.enqueued)
  /\ \A t, u \in DOMAIN c.resolving : c.resolving[t].key = c.resolving[u].key => t = u
  /\ Resolved(c) \cap ToSet(c.enqueued) = {}
  /\ Resolved(c) \cup ToSet(c.enqueued) \subseteq limbo

\* The lookups are as many as can be.
Pumped(c) ==
  /\ Cardinality(DOMAIN c.resolving) <= MaxLookups
  /\ c.enqueued # <<>> => Cardinality(DOMAIN c.resolving) = MaxLookups

\* As before a call of Pump: they are once one more has been started.
Pumpable(c) ==
  /\ Cardinality(DOMAIN c.resolving) <= MaxLookups
  /\ \/ Len(c.enqueued) <= 1
     \/ Cardinality(DOMAIN c.resolving) + 1 >= MaxLookups

\* A step that keeps Whole may leave lookups to be started.
Whole(s, limbo) ==
  /\ s \in Steps
  /\ TargetsMatch(s.client)
  /\ Connected(s.client, s.server)
  /\ Fits(s.client.agg, Meta(s.client))
  /\ Queued(s.client, limbo)

Sound(s, limbo) == Whole(s, limbo) /\ Pumped(s.client)

Resting(c) == ~c.listening => c.view = NoView

\* The view and the disk, each changed by changes, agree.
Follows(s) ==
  LET view == s.client.view
  IN  /\ \A d \in view.docs : s.disk.cache[d].value = "in"
      /\ s.client.listening => view.synced = s.disk.keys
      /\ view.current => view.limbo = view.docs \ view.synced
      /\ view.state = "synced" => view.current /\ view.limbo = {}

\* What is so between the steps of the client.
Good(s) == Sound(s, s.client.view.limbo) /\ Resting(s.client) /\ Follows(s)

IInv ==
  /\ db \in Databases /\ Len(db) \in 1 .. MaxVersion
  /\ disturbances \in 0 .. MaxDisturbances /\ excused \subseteq {"crossed", "recounted"}
  /\ Good(State)

-----------------------------------------------------------------------------
(* What the server has told, is telling and will have to tell: that the    *)
(* keys of the view miss nothing.                                          *)

\* The result of the query at a version of the database; there is none at 0.
Told(h, v) == {d \in Docs : v # 0 /\ h[v][d].value = "in"}

\* Is d in the query, for a state of its target, where the view has these keys?
HasIn(state, keys, d) ==
  IF state.outstanding = 0 /\ d \in DOMAIN state.changes
    THEN state.changes[d] # "removed" ELSE d \in keys

Has(agg, keys, d) == HasIn(EnsureTargetState(agg, QueryTarget), keys, d)

\* The messages that arrive when no answer about the query is due any more.
Heard(w) == {i \in DOMAIN w : \A j \in Acks(w, QueryTarget) : j < i}

Gives(m, d) == m.what = "doc" /\ m.key = d /\ QueryTarget \in m.in

Takes(m, d) ==
  \/ m.what = "doc" /\ m.key = d /\ QueryTarget \in m.out
  \/ m.what = "reset" /\ m.target = QueryTarget
  \/ m.what = "filter" /\ m.target = QueryTarget /\ d \notin m.might

\* After the messages of I the client has d in the query, if it has it now or not.
Promised(w, I, d, has) ==
  /\ has \/ \E i \in I : Gives(w[i], d)
  /\ \A j \in I : Takes(w[j], d) => \E i \in I : j < i /\ Gives(w[i], d)

Before(I, n) == {i \in I : i < n}

\* At each snapshot on its way the client has all that the query had then, and
\* after all messages what the query had when the server last told of it.
SnapshotsTrue(h, w, agg, keys) ==
  \A n \in Heard(w) : w[n].what = "snapshot" =>
    \A d \in Told(h, w[n].version) : Promised(w, Before(Heard(w), n), d, Has(agg, keys, d))

ServerTrue(h, w, agg, keys, asOf) ==
  \A d \in Told(h, asOf) : Promised(w, Heard(w), d, Has(agg, keys, d))

Watched(h, watching) ==
  /\ QueryTarget \in DOMAIN watching
  /\ watching[QueryTarget].key = NoKey /\ watching[QueryTarget].asOf <= Len(h)

\* A mismatch ends it, until the query is watched anew.
Learns(h, w, agg, keys, asOf) ==
  \/ QueryTarget \in agg.resets
  \/ SnapshotsTrue(h, w, agg, keys) /\ ServerTrue(h, w, agg, keys, asOf)

Knows(h, s) ==
  s.client.open /\ s.client.listening =>
    /\ Watched(h, s.server.watching)
    /\ Learns(h, s.server.wire, s.client.agg, s.client.view.synced,
              s.server.watching[QueryTarget].asOf)

MessageFits(h, m) ==
  /\ m.what = "snapshot" => m.version \in 1 .. Len(h)
  /\ m.what = "doc" /\ QueryTarget \in m.in => QueryTarget \notin m.out /\ IsFound(m.update)

WireFits(h, w) == \A i \in DOMAIN w : MessageFits(h, w[i])

\* The keys stand for a version of the query at least as new as the last one
\* without limbo.
DiskMarks(h, k) ==
  /\ k.limboFree <= k.token /\ k.token <= k.last /\ k.last <= Len(h)
  /\ Told(h, k.token) \subseteq k.keys

ClientMarks(h, c, last) ==
  c.listening =>
    /\ c.limboFree <= c.token /\ c.token <= last /\ c.targets[QueryTarget] <= last
    /\ Told(h, c.token) \subseteq c.view.synced
    /\ Told(h, c.targets[QueryTarget]) \subseteq c.view.synced

\* NothingMissed, of a step.
Complete(h, s) ==
  s.client.listening =>
    \A d \in Matching(s.disk) \ s.client.view.docs :
      \E v \in (s.disk.cache[d].read .. s.disk.last) \ {0} : h[v][d].value # "in"

Covered(h, s) ==
  DiskMarks(h, s.disk) /\ ClientMarks(h, s.client, s.disk.last) /\ Complete(h, s)

Informed(h, s) == Knows(h, s) /\ WireFits(h, s.server.wire) /\ Covered(h, s)

-----------------------------------------------------------------------------
(* Partial functions and records.                                          *)

LEMMA PartialIs ==
  ASSUME NEW S, NEW T, NEW f
  PROVE  f \in Partial(S, T) <=>
           /\ f = [x \in DOMAIN f |-> f[x]]
           /\ DOMAIN f \in SUBSET S /\ IsFiniteSet(DOMAIN f)
           /\ \A x \in DOMAIN f : f[x] \in T
  BY DEF Partial

LEMMA PartialMade ==
  ASSUME NEW S, NEW T, NEW D \in SUBSET S, IsFiniteSet(D), NEW f \in [D -> T]
  PROVE  f \in Partial(S, T)
  BY DEF Partial

LEMMA PartialEmpty ==
  ASSUME NEW S, NEW T
  PROVE  <<>> \in Partial(S, T) /\ DOMAIN <<>> = {}
<1>1. DOMAIN <<>> = {} /\ <<>> \in [{} -> T]
  OBVIOUS
<1> QED BY <1>1, PartialMade, FS_EmptySet

LEMMA WithType ==
  ASSUME NEW S, NEW T, NEW f \in Partial(S, T), NEW x \in S, NEW y \in T
  PROVE  With(f, x, y) \in Partial(S, T)
<1> DEFINE g == With(f, x, y)
<1>1. g = [z \in DOMAIN f \cup {x} |-> IF z = x THEN y ELSE f[z]]
  BY DEF With
<1>2. /\ DOMAIN f \in SUBSET S /\ IsFiniteSet(DOMAIN f)
      /\ \A z \in DOMAIN f : f[z] \in T
  BY PartialIs
<1>3. IsFiniteSet(DOMAIN f \cup {x}) /\ DOMAIN f \cup {x} \in SUBSET S
  BY <1>2, FS_AddElement
<1>4. g \in [DOMAIN f \cup {x} -> T]
  BY <1>1, <1>2
<1> QED BY <1>3, <1>4, PartialMade

LEMMA WithoutType ==
  ASSUME NEW S, NEW T, NEW f \in Partial(S, T), NEW x
  PROVE  Without(f, x) \in Partial(S, T)
<1> DEFINE g == Without(f, x)
<1>1. g = [z \in DOMAIN f \ {x} |-> f[z]]
  BY DEF Without, Restrict
<1>2. /\ DOMAIN f \in SUBSET S /\ IsFiniteSet(DOMAIN f)
      /\ \A z \in DOMAIN f : f[z] \in T
  BY PartialIs
<1>3. IsFiniteSet(DOMAIN f \ {x})
  BY <1>2, FS_RemoveElement
<1>4. g \in [DOMAIN f \ {x} -> T]
  BY <1>1, <1>2
<1> QED BY <1>2, <1>3, <1>4, PartialMade

-----------------------------------------------------------------------------
(* The aggregator.                                                         *)

LEMMA NewStateType ==
  /\ NewTargetState \in TargetStates /\ NewTargetState.outstanding = 0
  /\ DOMAIN NewTargetState.changes = {}
<1>1. 0 \in Versions
  BY BoundAssumption DEF Versions
<1>2. \A b, c \in BOOLEAN :
        [outstanding |-> 0, pending |-> b, changes |-> <<>>, current |-> c, token |-> 0]
          \in TargetStates
  BY <1>1, PartialEmpty DEF TargetStates
<1>3. NewTargetState \in TargetStates
  BY <1>2, Zenon DEF NewTargetState
<1>4. NewTargetState.outstanding = 0 /\ NewTargetState.changes = <<>>
  BY DEF NewTargetState
<1> QED BY <1>3, <1>4, PartialEmpty

LEMMA EnsureType ==
  ASSUME NEW agg \in Aggregators, NEW t
  PROVE  EnsureTargetState(agg, t) \in TargetStates
<1>1. agg.states \in Partial(TargetIds, TargetStates)
  BY DEF Aggregators
<1> QED BY <1>1, PartialIs, NewStateType DEF EnsureTargetState

LEMMA SetStateFacts ==
  ASSUME NEW agg \in Aggregators, NEW t \in TargetIds, NEW st \in TargetStates,
         NEW a, a = SetState(agg, t, st)
  PROVE  /\ a \in Aggregators /\ a.updates = agg.updates /\ a.resets = agg.resets
         /\ DOMAIN a.states = DOMAIN agg.states \cup {t} /\ a.states[t] = st
         /\ \A u \in DOMAIN agg.states : u # t => a.states[u] = agg.states[u]
<1> DEFINE states == With(agg.states, t, st)
<1>1. agg.states \in Partial(TargetIds, TargetStates)
  BY DEF Aggregators
<1>2. /\ states \in Partial(TargetIds, TargetStates)
      /\ DOMAIN states = DOMAIN agg.states \cup {t} /\ states[t] = st
      /\ \A u \in DOMAIN agg.states : u # t => states[u] = agg.states[u]
  <2> HIDE DEF states
  <2>1. states = With(agg.states, t, st)
    BY DEF states
  <2>2. states \in Partial(TargetIds, TargetStates)
    BY <1>1, <2>1, WithType
  <2> QED BY <2>1, <2>2 DEF With
<1>3. a = [agg EXCEPT !.states = states]
  BY DEF SetState
<1> HIDE DEF states
<1>4. /\ a.states = states /\ a.updates = agg.updates /\ a.resets = agg.resets
      /\ a \in Aggregators
  BY <1>2, <1>3 DEF Aggregators
<1> QED BY <1>2, <1>4

\* What an aggregator may become by messages about documents: the targets and
\* what is due are the same, and the changes fit.
Like(agg, meta) ==
  {a \in Aggregators :
     /\ DOMAIN a.states = DOMAIN agg.states
     /\ \A t \in DOMAIN a.states : a.states[t].outstanding = agg.states[t].outstanding
     /\ Fits(a, meta)}

LEMMA StateType ==
  ASSUME NEW st \in TargetStates, NEW changes \in Partial(Docs, Types), NEW token \in Versions,
         NEW b \in BOOLEAN, NEW c \in BOOLEAN,
         NEW r, r = [outstanding |-> st.outstanding, pending |-> b, changes |-> changes,
                     current |-> c, token |-> token]
  PROVE  r \in TargetStates
  BY DEF TargetStates

LEMMA SetStateLike ==
  ASSUME NEW meta, NEW agg, NEW a \in Like(agg, meta), NEW t \in DOMAIN agg.states,
         NEW st \in TargetStates, st.outstanding = a.states[t].outstanding,
         ChangesFit(st.changes, meta.keys[t]),
         NEW b \in Aggregators, b.states = SetState(a, t, st).states
  PROVE  b \in Like(agg, meta)
<1>1. /\ a \in Aggregators /\ DOMAIN a.states = DOMAIN agg.states
      /\ \A u \in DOMAIN a.states : a.states[u].outstanding = agg.states[u].outstanding
      /\ Fits(a, meta)
  BY DEF Like
<1>2. t \in TargetIds
  <2>1. a.states \in Partial(TargetIds, TargetStates)
    BY <1>1 DEF Aggregators
  <2> QED BY <1>1, <2>1, PartialIs
<1>3. /\ DOMAIN b.states = DOMAIN agg.states /\ b.states[t] = st
      /\ \A u \in DOMAIN agg.states : u # t => b.states[u] = a.states[u]
  <2> DEFINE c == SetState(a, t, st)
  <2>1. /\ DOMAIN c.states = DOMAIN a.states \cup {t} /\ c.states[t] = st
        /\ \A u \in DOMAIN a.states : u # t => c.states[u] = a.states[u]
    BY <1>1, <1>2, SetStateFacts
  <2> HIDE DEF c
  <2>2. b.states = c.states
    BY DEF c
  <2> QED BY <1>1, <2>1, <2>2
<1>4. \A u \in DOMAIN b.states : b.states[u].outstanding = agg.states[u].outstanding
  BY <1>1, <1>3
<1>5. Fits(b, meta)
  BY <1>1, <1>3 DEF Fits, ChangesFit
<1> QED BY <1>3, <1>4, <1>5 DEF Like

\* An active target of an aggregator that is like agg.
LEMMA ActiveFacts ==
  ASSUME NEW meta \in Metas, NEW agg, DOMAIN meta.keys \subseteq DOMAIN agg.states,
         NEW a \in Like(agg, meta), NEW t, IsActiveTarget(a, meta, t)
  PROVE  /\ t \in DOMAIN meta.keys /\ t \in DOMAIN agg.states /\ t \in DOMAIN a.states
         /\ t \in TargetIds /\ meta.keys[t] \in SUBSET Docs
         /\ EnsureTargetState(a, t) = a.states[t] /\ a.states[t] \in TargetStates
         /\ a.states[t].outstanding = 0 /\ a.states[t].changes \in Partial(Docs, Types)
         /\ ChangesFit(a.states[t].changes, meta.keys[t])
<1>1. /\ a \in Aggregators /\ DOMAIN a.states = DOMAIN agg.states /\ Fits(a, meta)
  BY DEF Like
<1>2. /\ t \in DOMAIN meta.keys /\ t \in DOMAIN agg.states /\ t \in DOMAIN a.states
      /\ EnsureTargetState(a, t) = a.states[t] /\ a.states[t].outstanding = 0
  BY <1>1 DEF IsActiveTarget, EnsureTargetState
<1>3. a.states[t] \in TargetStates
  BY <1>1, <1>2, EnsureType
<1>4. a.states[t].changes \in Partial(Docs, Types)
  BY <1>3 DEF TargetStates
<1>5. ChangesFit(a.states[t].changes, meta.keys[t])
  BY <1>1, <1>2 DEF Fits
<1>6. t \in TargetIds /\ meta.keys[t] \in SUBSET Docs
  <2>1. meta.keys \in Partial(TargetIds, SUBSET Docs)
    BY DEF Metas
  <2> QED BY <1>2, <2>1, PartialIs
<1> QED BY <1>2, <1>3, <1>4, <1>5, <1>6

\* New changes of an active target, and an update.
LEMMA ChangedLike ==
  ASSUME NEW meta \in Metas, NEW agg, DOMAIN meta.keys \subseteq DOMAIN agg.states,
         NEW a \in Like(agg, meta), NEW t, IsActiveTarget(a, meta, t),
         NEW changes \in Partial(Docs, Types), ChangesFit(changes, meta.keys[t]),
         NEW updates \in Partial(Docs, Updates), NEW pending \in BOOLEAN
  PROVE  [SetState(a, t, [a.states[t] EXCEPT !.pending = pending, !.changes = changes])
            EXCEPT !.updates = updates] \in Like(agg, meta)
<1> DEFINE st == [a.states[t] EXCEPT !.pending = pending, !.changes = changes]
           c == SetState(a, t, st)
           b == [c EXCEPT !.updates = updates]
<1>1. /\ t \in DOMAIN meta.keys /\ t \in DOMAIN agg.states /\ t \in DOMAIN a.states
      /\ t \in TargetIds /\ a.states[t] \in TargetStates /\ a.states[t].outstanding = 0
  BY ActiveFacts
<1>2. st \in TargetStates /\ st.outstanding = 0 /\ st.changes = changes
  BY <1>1 DEF TargetStates
<1>3. a \in Aggregators
  BY DEF Like
<1> HIDE DEF st
<1>4. c \in Aggregators
  BY <1>1, <1>2, <1>3, SetStateFacts
<1> HIDE DEF c
<1>5. b \in Aggregators /\ b.states = c.states
  BY <1>4 DEF Aggregators
<1> HIDE DEF b
<1>6. b.states = SetState(a, t, st).states
  BY <1>5 DEF c
<1>7. ChangesFit(st.changes, meta.keys[t]) /\ st.outstanding = a.states[t].outstanding
  BY <1>1, <1>2
<1>8. b \in Like(agg, meta)
  BY <1>1, <1>2, <1>5, <1>6, <1>7, SetStateLike
<1> QED BY <1>8 DEF b, c, st

LEMMA AddDocumentLike ==
  ASSUME NEW meta \in Metas, NEW agg, DOMAIN meta.keys \subseteq DOMAIN agg.states,
         NEW a \in Like(agg, meta), NEW t, NEW key \in Docs, NEW update \in Updates
  PROVE  AddDocumentToTarget(a, meta, t, key, update) \in Like(agg, meta)
<1>1. CASE ~IsActiveTarget(a, meta, t)
  BY <1>1 DEF AddDocumentToTarget
<1>2. CASE IsActiveTarget(a, meta, t)
  <2> DEFINE type == IF key \in meta.keys[t] THEN "modified" ELSE "added"
             changes == With(a.states[t].changes, key, type)
             updates == With(a.updates, key, update)
             st == [a.states[t] EXCEPT !.pending = TRUE, !.changes = changes]
             b == [SetState(a, t, st) EXCEPT !.updates = updates]
  <2>1. /\ EnsureTargetState(a, t) = a.states[t]
        /\ a.states[t].changes \in Partial(Docs, Types)
        /\ ChangesFit(a.states[t].changes, meta.keys[t])
    BY <1>2, ActiveFacts
  <2>2. type \in Types /\ (key \in meta.keys[t] <=> type # "added")
    BY DEF Types
  <2> HIDE DEF type
  <2>3. changes \in Partial(Docs, Types)
    BY <2>1, <2>2, WithType
  <2>4. ChangesFit(changes, meta.keys[t])
    BY <2>1, <2>2 DEF ChangesFit, With
  <2>5. updates \in Partial(Docs, Updates)
    <3>1. a.updates \in Partial(Docs, Updates)
      BY DEF Like, Aggregators
    <3> QED BY <3>1, WithType
  <2>6. AddDocumentToTarget(a, meta, t, key, update) = b
    <3>1. SetState(a, t, st).updates = a.updates
      BY DEF SetState
    <3> QED BY <1>2, <2>1, <3>1 DEF AddDocumentToTarget, type
  <2> HIDE DEF changes, updates
  <2>7. b \in Like(agg, meta)
    BY <1>2, <2>3, <2>4, <2>5, ChangedLike, Zenon
  <2> QED BY <2>6, <2>7
<1> QED BY <1>1, <1>2

LEMMA RemoveDocumentLike ==
  ASSUME NEW meta \in Metas, NEW agg, DOMAIN meta.keys \subseteq DOMAIN agg.states,
         NEW a \in Like(agg, meta), NEW t, NEW key \in Docs, NEW update \in Updates
  PROVE  RemoveDocumentFromTarget(a, meta, t, key, update) \in Like(agg, meta)
<1>1. CASE ~IsActiveTarget(a, meta, t)
  BY <1>1 DEF RemoveDocumentFromTarget
<1>2. CASE IsActiveTarget(a, meta, t)
  <2> DEFINE changes == IF key \in meta.keys[t] THEN With(a.states[t].changes, key, "removed")
                                                ELSE Without(a.states[t].changes, key)
             updates == IF update = NoUpdate THEN a.updates ELSE With(a.updates, key, update)
             st == [a.states[t] EXCEPT !.pending = TRUE, !.changes = changes]
             b == [SetState(a, t, st) EXCEPT !.updates = updates]
  <2>1. /\ EnsureTargetState(a, t) = a.states[t]
        /\ a.states[t].changes \in Partial(Docs, Types)
        /\ ChangesFit(a.states[t].changes, meta.keys[t])
    BY <1>2, ActiveFacts
  <2>2. "removed" \in Types
    BY DEF Types
  <2>3. changes \in Partial(Docs, Types)
    BY <2>1, <2>2, WithType, WithoutType
  <2>4. ChangesFit(changes, meta.keys[t])
    BY <2>1 DEF ChangesFit, With, Without, Restrict
  <2>5. updates \in Partial(Docs, Updates)
    <3>1. a.updates \in Partial(Docs, Updates)
      BY DEF Like, Aggregators
    <3> QED BY <3>1, WithType
  <2>6. RemoveDocumentFromTarget(a, meta, t, key, update) = b
    <3>1. SetState(a, t, st).updates = a.updates
      BY DEF SetState
    <3> QED BY <1>2, <2>1, <3>1 DEF RemoveDocumentFromTarget
  <2> HIDE DEF changes, updates
  <2>7. b \in Like(agg, meta)
    BY <1>2, <2>3, <2>4, <2>5, ChangedLike, Zenon
  <2> QED BY <2>6, <2>7
<1> QED BY <1>1, <1>2

LEMMA HandleDocumentLike ==
  ASSUME NEW meta \in Metas, NEW agg, DOMAIN meta.keys \subseteq DOMAIN agg.states,
         NEW a \in Like(agg, meta), NEW msg \in DocMessages
  PROVE  HandleDocumentChange(a, meta, msg) \in Like(agg, meta)
<1>1. /\ msg.key \in Docs /\ msg.update \in Updates
      /\ IsFiniteSet(msg.in) /\ IsFiniteSet(msg.out)
  BY DEF DocMessages
<1>2. \A b \in Like(agg, meta) : \A S : IsFiniteSet(S) =>
        RemoveDocument(b, meta, S, msg.key, msg.update) \in Like(agg, meta)
  <2> SUFFICES ASSUME NEW b \in Like(agg, meta), NEW S, IsFiniteSet(S)
               PROVE  RemoveDocument(b, meta, S, msg.key, msg.update) \in Like(agg, meta)
    OBVIOUS
  <2> DEFINE family == [T \in SUBSET S |-> Like(agg, meta)]
  <2>1. b \in family[{}]
    OBVIOUS
  <2>2. \A T \in SUBSET S : \A x \in T : \A r \in family[T \ {x}] :
          RemoveDocumentFromTarget(r, meta, x, msg.key, msg.update) \in family[T]
    BY <1>1, RemoveDocumentLike
  <2> HIDE DEF family
  <2>3. RemoveDocument(b, meta, S, msg.key, msg.update) \in family[S]
    BY <2>1, <2>2, RemoveFold
  <2> QED BY <2>3 DEF family
<1>3. \A S : IsFiniteSet(S) =>
        AddDocument(a, meta, S, msg.key, msg.update) \in Like(agg, meta)
  <2> SUFFICES ASSUME NEW S, IsFiniteSet(S)
               PROVE  AddDocument(a, meta, S, msg.key, msg.update) \in Like(agg, meta)
    OBVIOUS
  <2> DEFINE family == [T \in SUBSET S |-> Like(agg, meta)]
  <2>1. a \in family[{}]
    OBVIOUS
  <2>2. \A T \in SUBSET S : \A x \in T : \A r \in family[T \ {x}] :
          AddDocumentToTarget(r, meta, x, msg.key, msg.update) \in family[T]
    BY <1>1, AddDocumentLike
  <2> HIDE DEF family
  <2>3. AddDocument(a, meta, S, msg.key, msg.update) \in family[S]
    BY <2>1, <2>2, AddFold
  <2> QED BY <2>3 DEF family
<1> QED BY <1>1, <1>2, <1>3 DEF HandleDocumentChange

LEMMA NoUpdateType == NoUpdate \in Updates /\ \A v \in Versions : Deleted(v) \in Updates
<1>1. 0 \in Versions
  BY BoundAssumption DEF Versions
<1> QED BY <1>1 DEF NoUpdate, Deleted, Updates, Values

LEMMA RemoveDocumentsLike ==
  ASSUME NEW meta \in Metas, NEW agg, DOMAIN meta.keys \subseteq DOMAIN agg.states,
         NEW a \in Like(agg, meta), NEW t, NEW keys \in SUBSET Docs
  PROVE  RemoveDocumentsFromTarget(a, meta, t, keys) \in Like(agg, meta)
<1> DEFINE family == [T \in SUBSET keys |-> Like(agg, meta)]
<1>1. a \in family[{}]
  OBVIOUS
<1>2. \A T \in SUBSET keys : \A x \in T : \A r \in family[T \ {x}] :
        RemoveDocumentFromTarget(r, meta, t, x, NoUpdate) \in family[T]
  BY RemoveDocumentLike, NoUpdateType
<1>3. IsFiniteSet(keys)
  BY DocsAssumption, FS_Subset
<1> HIDE DEF family
<1>4. RemoveDocumentsFromTarget(a, meta, t, keys) \in family[keys]
  BY <1>1, <1>2, <1>3, RemoveKeysFold
<1> QED BY <1>4 DEF family

LEMMA ResetTargetLike ==
  ASSUME NEW meta \in Metas, NEW agg, DOMAIN meta.keys \subseteq DOMAIN agg.states,
         NEW a \in Like(agg, meta), NEW t, IsActiveTarget(a, meta, t)
  PROVE  ResetTarget(a, meta, t) \in Like(agg, meta)
<1> DEFINE b == SetState(a, t, NewTargetState)
<1>1. /\ t \in DOMAIN meta.keys /\ t \in DOMAIN agg.states /\ t \in TargetIds
      /\ meta.keys[t] \in SUBSET Docs /\ a.states[t].outstanding = 0
  BY ActiveFacts
<1>2. a \in Aggregators
  BY DEF Like
<1>3. ChangesFit(NewTargetState.changes, meta.keys[t])
  BY NewStateType DEF ChangesFit
<1>4. b \in Aggregators
  BY <1>1, <1>2, NewStateType, SetStateFacts
<1>5. NewTargetState.outstanding = a.states[t].outstanding /\ NewTargetState \in TargetStates
  BY <1>1, NewStateType
<1> HIDE DEF b
<1>6. b.states = SetState(a, t, NewTargetState).states
  BY DEF b
<1>7. b \in Like(agg, meta)
  BY <1>1, <1>3, <1>4, <1>5, <1>6, SetStateLike
<1>8. ResetTarget(a, meta, t) = RemoveDocumentsFromTarget(b, meta, t, meta.keys[t])
  BY DEF ResetTarget, b
<1> QED BY <1>1, <1>7, <1>8, RemoveDocumentsLike

LEMMA TargetResetLike ==
  ASSUME NEW meta \in Metas, NEW agg, DOMAIN meta.keys \subseteq DOMAIN agg.states,
         NEW a \in Like(agg, meta), NEW t
  PROVE  TargetReset(a, meta, t) \in Like(agg, meta)
  BY ResetTargetLike DEF TargetReset

LEMMA TargetCurrentLike ==
  ASSUME NEW meta \in Metas, NEW agg, DOMAIN meta.keys \subseteq DOMAIN agg.states,
         NEW a \in Like(agg, meta), NEW t, NEW token \in Versions
  PROVE  TargetCurrent(a, meta, t, token) \in Like(agg, meta)
<1>1. CASE ~IsActiveTarget(a, meta, t)
  BY <1>1 DEF TargetCurrent
<1>2. CASE IsActiveTarget(a, meta, t)
  <2>1. /\ t \in DOMAIN meta.keys /\ t \in DOMAIN agg.states /\ t \in TargetIds
        /\ a.states[t] \in TargetStates /\ EnsureTargetState(a, t) = a.states[t]
        /\ ChangesFit(a.states[t].changes, meta.keys[t])
    BY <1>2, ActiveFacts
  <2>2. \A p \in BOOLEAN : \A st \in TargetStates :
          LET new == [st EXCEPT !.pending = p, !.current = p]
              told == IF token = 0 THEN new ELSE [new EXCEPT !.pending = p, !.token = token]
          IN  told \in TargetStates /\ told.outstanding = st.outstanding
              /\ told.changes = st.changes
    BY DEF TargetStates
  <2> DEFINE new == [a.states[t] EXCEPT !.pending = TRUE, !.current = TRUE]
             st == UpdateResumeToken(new, token)
             b == SetState(a, t, st)
  <2>3. /\ st \in TargetStates /\ st.outstanding = a.states[t].outstanding
        /\ st.changes = a.states[t].changes
    BY <2>1, <2>2, Zenon DEF UpdateResumeToken
  <2>4. TargetCurrent(a, meta, t, token) = b
    BY <1>2, <2>1 DEF TargetCurrent
  <2>5. ChangesFit(st.changes, meta.keys[t])
    BY <2>1, <2>3
  <2> HIDE DEF st
  <2>6. b \in Aggregators
    BY <2>1, <2>3, SetStateFacts DEF Like
  <2> HIDE DEF b
  <2>7. b.states = SetState(a, t, st).states
    BY DEF b
  <2>8. b \in Like(agg, meta)
    BY <2>1, <2>3, <2>5, <2>6, <2>7, SetStateLike
  <2> QED BY <2>4, <2>8
<1> QED BY <1>1, <1>2

LEMMA LikeActive ==
  ASSUME NEW meta, NEW agg, DOMAIN meta.keys \subseteq DOMAIN agg.states,
         NEW a \in Like(agg, meta), NEW b \in Like(agg, meta), NEW t, IsActiveTarget(a, meta, t)
  PROVE  IsActiveTarget(b, meta, t)
  BY DEF Like, IsActiveTarget, EnsureTargetState

\* Resets, of the query.
LEMMA ResetsLike ==
  ASSUME NEW meta, NEW agg, NEW a \in Like(agg, meta)
  PROVE  [a EXCEPT !.resets = @ \cup {QueryTarget}] \in Like(agg, meta)
<1> DEFINE b == [a EXCEPT !.resets = @ \cup {QueryTarget}]
<1>1. a \in Aggregators
  BY DEF Like
<1>2. b \in Aggregators /\ b.states = a.states
  BY <1>1 DEF Aggregators
<1> HIDE DEF b
<1>3. b \in Like(agg, meta)
  BY <1>2 DEF Like, Fits
<1> QED BY <1>3 DEF b

LEMMA HandleFilterLike ==
  ASSUME NEW meta \in Metas, NEW agg, DOMAIN meta.keys \subseteq DOMAIN agg.states,
         NEW a \in Like(agg, meta), NEW msg \in FilterMessages
  PROVE  HandleExistenceFilter(a, meta, msg) \in Like(agg, meta)
<1> DEFINE t == msg.target
<1>1. CASE ~IsActiveTarget(a, meta, t)
  BY <1>1 DEF HandleExistenceFilter
<1>2. CASE IsActiveTarget(a, meta, t) /\ t \notin DOMAIN meta.lookup
  <2>1. t = QueryTarget
    <3>1. t \in DOMAIN meta.keys
      BY <1>2 DEF IsActiveTarget
    <3> QED BY <1>2, <3>1 DEF Metas
  <2> DEFINE absent == meta.keys[t] \ msg.might
             filtered == RemoveDocumentsFromTarget(a, meta, t, absent)
             anew == ResetTarget(filtered, meta, t)
  <2>2. absent \in SUBSET Docs
    BY <1>2, ActiveFacts
  <2> HIDE DEF absent
  <2>3. filtered \in Like(agg, meta)
    BY <2>2, RemoveDocumentsLike
  <2>4. IsActiveTarget(filtered, meta, t)
    BY <1>2, <2>3, LikeActive
  <2> HIDE DEF filtered
  <2>5. anew \in Like(agg, meta)
    BY <2>3, <2>4, ResetTargetLike
  <2> HIDE DEF anew
  <2>6. [anew EXCEPT !.resets = @ \cup {t}] \in Like(agg, meta)
    BY <2>1, <2>5, ResetsLike
  <2>7. HandleExistenceFilter(a, meta, msg)
          \in {a, filtered, [anew EXCEPT !.resets = @ \cup {t}]}
    BY <1>2 DEF HandleExistenceFilter, ApplyFilter, absent, filtered, anew
  <2> QED BY <2>3, <2>6, <2>7
<1>3. CASE IsActiveTarget(a, meta, t) /\ t \in DOMAIN meta.lookup
  <2>1. meta.lookup[t] \in Docs
    <3>1. meta.lookup \in Partial(LookupIds, Docs)
      BY DEF Metas
    <3> QED BY <1>3, <3>1, PartialIs
  <2>2. Deleted(0) \in Updates
    BY NoUpdateType, BoundAssumption DEF Versions
  <2>3. RemoveDocumentFromTarget(a, meta, t, meta.lookup[t], Deleted(0)) \in Like(agg, meta)
    BY <2>1, <2>2, RemoveDocumentLike
  <2> QED BY <1>3, <2>3 DEF HandleExistenceFilter
<1> QED BY <1>1, <1>2, <1>3

LEMMA TargetsNoChangeLike ==
  ASSUME NEW meta \in Metas, NEW agg, DOMAIN meta.keys \subseteq DOMAIN agg.states,
         NEW a \in Like(agg, meta), NEW token \in Versions
  PROVE  TargetsNoChange(a, meta, token) \in Like(agg, meta)
<1> DEFINE states == [t \in DOMAIN a.states |->
                        IF IsActiveTarget(a, meta, t) THEN UpdateResumeToken(a.states[t], token)
                                                      ELSE a.states[t]]
           b == [a EXCEPT !.states = states]
<1>1. /\ a \in Aggregators /\ a.states \in Partial(TargetIds, TargetStates)
      /\ DOMAIN a.states = DOMAIN agg.states /\ Fits(a, meta)
      /\ \A u \in DOMAIN a.states : a.states[u].outstanding = agg.states[u].outstanding
  BY DEF Like, Aggregators
<1>2. \A p \in BOOLEAN : \A st \in TargetStates :
        LET told == IF token = 0 THEN st ELSE [st EXCEPT !.pending = p, !.token = token]
        IN  told \in TargetStates /\ told.outstanding = st.outstanding
            /\ told.changes = st.changes
  BY DEF TargetStates
<1>3. \A st \in TargetStates :
        /\ UpdateResumeToken(st, token) \in TargetStates
        /\ UpdateResumeToken(st, token).outstanding = st.outstanding
        /\ UpdateResumeToken(st, token).changes = st.changes
  BY <1>2, Zenon DEF UpdateResumeToken
<1>4. /\ \A t \in DOMAIN a.states : a.states[t] \in TargetStates
      /\ DOMAIN a.states \in SUBSET TargetIds /\ IsFiniteSet(DOMAIN a.states)
  BY <1>1, PartialIs
<1>5. \A t \in DOMAIN a.states :
        /\ states[t] \in TargetStates /\ states[t].outstanding = a.states[t].outstanding
        /\ states[t].changes = a.states[t].changes
  BY <1>3, <1>4
<1>6. states \in [DOMAIN a.states -> TargetStates] /\ DOMAIN states = DOMAIN a.states
  BY <1>5
<1>7. states \in Partial(TargetIds, TargetStates)
  BY <1>4, <1>6, PartialMade
<1>8. TargetsNoChange(a, meta, token) = b
  BY DEF TargetsNoChange
<1> HIDE DEF states
<1>9. b \in Aggregators /\ b.states = states
  BY <1>1, <1>7 DEF Aggregators
<1> HIDE DEF b
<1>10. Fits(b, meta)
  BY <1>1, <1>5, <1>6, <1>9 DEF Fits
<1>11. \A u \in DOMAIN b.states : b.states[u].outstanding = agg.states[u].outstanding
  BY <1>1, <1>5, <1>6, <1>9
<1>12. b \in Like(agg, meta)
  BY <1>1, <1>6, <1>9, <1>10, <1>11 DEF Like
<1> QED BY <1>8, <1>12

LEMMA SynthesizeLike ==
  ASSUME NEW meta \in Metas, NEW agg, DOMAIN meta.keys \subseteq DOMAIN agg.states,
         NEW a \in Like(agg, meta), NEW version \in Versions
  PROVE  SynthesizeDeletes(a, meta, version) \in Like(agg, meta)
<1> DEFINE S == {t \in DOMAIN a.states \cap DOMAIN meta.lookup :
                   a.states[t].current /\ IsActiveTarget(a, meta, t)}
           family == [T \in SUBSET S |-> Like(agg, meta)]
<1>1. IsFiniteSet(S)
  <2>1. a.states \in Partial(TargetIds, TargetStates)
    BY DEF Like, Aggregators
  <2>2. IsFiniteSet(DOMAIN a.states) /\ S \in SUBSET DOMAIN a.states
    BY <2>1, PartialIs
  <2> QED BY <2>2, FS_Subset
<1>2. \A t \in S : meta.lookup[t] \in Docs
  <2>1. meta.lookup \in Partial(LookupIds, Docs)
    BY DEF Metas
  <2> QED BY <2>1, PartialIs
<1>3. \A T \in SUBSET S : \A x \in T : \A r \in family[T \ {x}] :
        SynthesizeDelete(r, meta, x, version) \in family[T]
  <2> SUFFICES ASSUME NEW x \in S, NEW r \in Like(agg, meta)
               PROVE  SynthesizeDelete(r, meta, x, version) \in Like(agg, meta)
    OBVIOUS
  <2>1. RemoveDocumentFromTarget(r, meta, x, meta.lookup[x], Deleted(version))
          \in Like(agg, meta)
    BY <1>2, NoUpdateType, RemoveDocumentLike
  <2> QED BY <2>1 DEF SynthesizeDelete
<1>4. a \in family[{}]
  OBVIOUS
<1>5. S = {t \in DOMAIN a.states \cap DOMAIN meta.lookup :
             a.states[t].current /\ IsActiveTarget(a, meta, t)}
  OBVIOUS
<1> HIDE DEF family, S
<1>6. SynthesizeDeletes(a, meta, version) \in family[S]
  BY <1>1, <1>3, <1>4, <1>5, SynthesizeFold
<1> QED BY <1>6 DEF family

-----------------------------------------------------------------------------
(* The event of a snapshot.                                                *)

TargetChanges ==
  {c \in [token : Versions, current : BOOLEAN, added : SUBSET Docs, modified : SUBSET Docs,
          removed : SUBSET Docs] : c.added \cap c.removed = {}}

Events ==
  [version : Versions, updates : Partial(Docs, Updates), mismatches : SUBSET {QueryTarget},
   changes : Partial(TargetIds, TargetChanges)]

\* Nothing is pending for these targets.
Cleared(agg, targets) ==
  \A t \in targets \cap DOMAIN agg.states : DOMAIN agg.states[t].changes = {}

LEMMA ChangingFinite ==
  ASSUME NEW agg \in Aggregators, NEW meta
  PROVE  /\ Changing(agg, meta) \in SUBSET TargetIds /\ IsFiniteSet(Changing(agg, meta))
         /\ Changing(agg, meta) \subseteq DOMAIN agg.states
         /\ \A t \in DOMAIN agg.states : agg.states[t] \in TargetStates
<1>1. agg.states \in Partial(TargetIds, TargetStates)
  BY DEF Aggregators
<1>2. /\ DOMAIN agg.states \in SUBSET TargetIds /\ IsFiniteSet(DOMAIN agg.states)
      /\ \A t \in DOMAIN agg.states : agg.states[t] \in TargetStates
  BY <1>1, PartialIs
<1>3. Changing(agg, meta) \in SUBSET DOMAIN agg.states
  BY DEF Changing
<1> QED BY <1>2, <1>3, FS_Subset

LEMMA RemoteEventType ==
  ASSUME NEW agg \in Aggregators, NEW meta, NEW version \in Versions,
         NEW event, event = RemoteEvent(agg, meta, version)
  PROVE  /\ event \in Events /\ event.version = version
         /\ event.mismatches = agg.resets /\ DOMAIN event.changes = Changing(agg, meta)
<1> DEFINE changes == [t \in Changing(agg, meta) |-> TargetChange(agg.states[t])]
<1>1. \A st \in TargetStates : TargetChange(st) \in TargetChanges
  <2> SUFFICES ASSUME NEW st \in TargetStates PROVE TargetChange(st) \in TargetChanges
    OBVIOUS
  <2>1. st.changes \in Partial(Docs, Types) /\ st.token \in Versions /\ st.current \in BOOLEAN
    BY DEF TargetStates
  <2>2. \A type : ChangedAs(st, type) \in SUBSET Docs
    BY <2>1, PartialIs DEF ChangedAs
  <2>3. \A c \in BOOLEAN : \A A, B, C \in SUBSET Docs : A \cap C = {} =>
          [token |-> st.token, current |-> c, added |-> A, modified |-> B, removed |-> C]
            \in TargetChanges
    BY <2>1 DEF TargetChanges
  <2>4. ChangedAs(st, "added") \cap ChangedAs(st, "removed") = {}
    BY DEF ChangedAs
  <2> QED BY <2>1, <2>2, <2>3, <2>4, Zenon DEF TargetChange
<1>2. changes \in Partial(TargetIds, TargetChanges)
  <2>1. changes \in [Changing(agg, meta) -> TargetChanges]
    BY <1>1, ChangingFinite
  <2> HIDE DEF changes
  <2> QED BY <2>1, ChangingFinite, PartialMade
<1>3. event = [version |-> version, updates |-> agg.updates, mismatches |-> agg.resets,
               changes |-> changes]
  BY DEF RemoteEvent
<1>4. DOMAIN changes = Changing(agg, meta)
  OBVIOUS
<1> HIDE DEF changes
<1>5. agg.updates \in Partial(Docs, Updates) /\ agg.resets \in SUBSET {QueryTarget}
  BY DEF Aggregators
<1> QED BY <1>2, <1>3, <1>4, <1>5 DEF Events

LEMMA AfterRemoteEventFacts ==
  ASSUME NEW meta, NEW agg, NEW a \in Like(agg, meta), NEW b, b = AfterRemoteEvent(a, meta)
  PROVE  b \in Like(agg, meta) /\ Cleared(b, Changing(a, meta))
<1> DEFINE states == [t \in DOMAIN a.states |->
                        IF t \in Changing(a, meta) THEN ClearPendingChanges(a.states[t])
                                                   ELSE a.states[t]]
<1>1. /\ a \in Aggregators /\ DOMAIN a.states = DOMAIN agg.states /\ Fits(a, meta)
      /\ \A u \in DOMAIN a.states : a.states[u].outstanding = agg.states[u].outstanding
  BY DEF Like
<1>2. \A p \in BOOLEAN : \A st \in TargetStates :
        LET new == [st EXCEPT !.pending = p, !.changes = <<>>]
        IN  new \in TargetStates /\ new.outstanding = st.outstanding /\ new.changes = <<>>
  BY PartialEmpty DEF TargetStates
<1>3. \A st \in TargetStates :
        /\ ClearPendingChanges(st) \in TargetStates
        /\ ClearPendingChanges(st).outstanding = st.outstanding
        /\ ClearPendingChanges(st).changes = <<>>
  BY <1>2, Zenon DEF ClearPendingChanges
<1>4. /\ \A t \in DOMAIN a.states : a.states[t] \in TargetStates
      /\ DOMAIN a.states \in SUBSET TargetIds /\ IsFiniteSet(DOMAIN a.states)
  <2>1. a.states \in Partial(TargetIds, TargetStates)
    BY <1>1 DEF Aggregators
  <2> QED BY <2>1, PartialIs
<1>5. \A t \in DOMAIN a.states :
        /\ states[t] \in TargetStates /\ states[t].outstanding = a.states[t].outstanding
        /\ t \in Changing(a, meta) => states[t].changes = <<>>
        /\ t \notin Changing(a, meta) => states[t].changes = a.states[t].changes
  BY <1>3, <1>4
<1>6. states \in [DOMAIN a.states -> TargetStates] /\ DOMAIN states = DOMAIN a.states
  BY <1>5
<1>7. states \in Partial(TargetIds, TargetStates)
  BY <1>4, <1>6, PartialMade
<1>8. b = [states |-> states, updates |-> <<>>, resets |-> {}]
  BY DEF AfterRemoteEvent
<1> HIDE DEF states
<1>9. b \in Aggregators /\ b.states = states
  BY <1>7, <1>8, PartialEmpty DEF Aggregators
<1>10. \A t \in DOMAIN b.states :
         /\ b.states[t].outstanding = a.states[t].outstanding
         /\ t \in Changing(a, meta) => DOMAIN b.states[t].changes = {}
         /\ t \notin Changing(a, meta) => b.states[t].changes = a.states[t].changes
  BY <1>5, <1>6, <1>9, PartialEmpty
<1>11. DOMAIN b.states = DOMAIN a.states
  BY <1>6, <1>9
<1>12. Fits(b, meta)
  <2> SUFFICES ASSUME NEW t \in DOMAIN meta.keys \cap DOMAIN b.states,
                      b.states[t].outstanding = 0
               PROVE  ChangesFit(b.states[t].changes, meta.keys[t])
    BY DEF Fits
  <2>1. CASE t \in Changing(a, meta)
    BY <1>10, <2>1 DEF ChangesFit
  <2>2. CASE t \notin Changing(a, meta)
    BY <1>1, <1>10, <1>11, <2>2 DEF Fits
  <2> QED BY <2>1, <2>2
<1>13. \A u \in DOMAIN b.states : b.states[u].outstanding = agg.states[u].outstanding
  BY <1>1, <1>10, <1>11
<1>14. b \in Like(agg, meta)
  BY <1>1, <1>9, <1>11, <1>12, <1>13 DEF Like
<1>15. Cleared(b, Changing(a, meta))
  BY <1>10 DEF Cleared
<1> QED BY <1>14, <1>15

-----------------------------------------------------------------------------
(* Requests and acknowledgements.                                          *)

\* b is a with one more request for t.
Requested(b, a, t) ==
  /\ DOMAIN b.states = DOMAIN a.states \cup {t}
  /\ b.states[t].outstanding = EnsureTargetState(a, t).outstanding + 1
  /\ b.states[t].changes = EnsureTargetState(a, t).changes
  /\ \A u \in DOMAIN a.states : u # t => b.states[u] = a.states[u]

LEMMA RequestFacts ==
  ASSUME NEW a \in Aggregators, NEW t \in TargetIds,
         NEW b, b = RecordPendingTargetRequest(a, t)
  PROVE  b \in Aggregators /\ Requested(b, a, t) /\ b.resets = a.resets
<1> DEFINE st == [EnsureTargetState(a, t) EXCEPT !.outstanding = @ + 1]
<1>1. EnsureTargetState(a, t) \in TargetStates
  BY EnsureType
<1>2. /\ st \in TargetStates /\ st.outstanding = EnsureTargetState(a, t).outstanding + 1
      /\ st.changes = EnsureTargetState(a, t).changes
  BY <1>1 DEF TargetStates
<1>3. b = SetState(a, t, st)
  BY DEF RecordPendingTargetRequest
<1> HIDE DEF st
<1>4. /\ b \in Aggregators /\ b.resets = a.resets
      /\ DOMAIN b.states = DOMAIN a.states \cup {t} /\ b.states[t] = st
      /\ \A u \in DOMAIN a.states : u # t => b.states[u] = a.states[u]
  BY <1>2, <1>3, SetStateFacts
<1> QED BY <1>2, <1>4 DEF Requested

\* The documents of the other targets are the same.
SameKeysBut(now, meta, t) ==
  \A u \in DOMAIN now.keys : u # t => u \in DOMAIN meta.keys /\ now.keys[u] = meta.keys[u]

\* The changes of the other targets still fit, whatever documents t has now.
LEMMA RequestFits ==
  ASSUME NEW a \in Aggregators, NEW b, NEW t, Requested(b, a, t),
         NEW meta, Fits(a, meta), NEW now,
         SameKeysBut(now, meta, t)
  PROVE  Fits(b, now)
<1> SUFFICES ASSUME NEW u \in DOMAIN now.keys \cap DOMAIN b.states,
                    b.states[u].outstanding = 0
             PROVE  ChangesFit(b.states[u].changes, now.keys[u])
  BY DEF Fits
<1>1. u # t
  <2>1. EnsureTargetState(a, t).outstanding \in Nat
    BY EnsureType DEF TargetStates
  <2> QED BY <2>1 DEF Requested
<1> QED BY <1>1 DEF Requested, Fits, SameKeysBut

LEMMA RequestCleared ==
  ASSUME NEW a, NEW b, NEW t, Requested(b, a, t), NEW T, Cleared(a, T)
  PROVE  Cleared(b, T)
<1> SUFFICES ASSUME NEW u \in T \cap DOMAIN b.states
             PROVE  DOMAIN b.states[u].changes = {}
  BY DEF Cleared
<1>1. CASE u = t
  <2>1. DOMAIN EnsureTargetState(a, t).changes = {}
    BY <1>1, NewStateType DEF EnsureTargetState, Cleared
  <2> QED BY <1>1, <2>1 DEF Requested
<1>2. CASE u # t
  BY <1>2 DEF Requested, Cleared
<1> QED BY <1>1, <1>2

LEMMA AcksFinite ==
  ASSUME NEW w \in Seq(Messages), NEW t
  PROVE  /\ Acks(w, t) \in SUBSET (1 .. Len(w)) /\ IsFiniteSet(Acks(w, t))
         /\ Cardinality(Acks(w, t)) \in Nat
<1>1. Len(w) \in Nat /\ DOMAIN w = 1 .. Len(w)
  OBVIOUS
<1>2. Acks(w, t) \in SUBSET (1 .. Len(w))
  BY <1>1 DEF Acks
<1>3. IsFiniteSet(1 .. Len(w))
  BY <1>1, FS_Interval
<1> QED BY <1>2, <1>3, FS_Subset, FS_CardinalityType

\* v is w with one more acknowledgement, m, of t.
Acknowledged(v, w, m, t) ==
  /\ Acks(v, t) = Acks(w, t) \cup {Len(w) + 1} /\ v[Len(w) + 1] = m
  /\ \A u : u # t => Acks(v, u) = Acks(w, u)
  /\ \A i \in DOMAIN w : i \in DOMAIN v /\ v[i] = w[i] /\ i < Len(w) + 1
  /\ \A i \in DOMAIN v : i \in DOMAIN w \/ i = Len(w) + 1
  /\ Cardinality(Acks(v, t)) = Cardinality(Acks(w, t)) + 1

LEMMA AcksAppend ==
  ASSUME NEW w \in Seq(Messages), NEW t \in TargetIds, NEW m \in AckMessages, m.target = t,
         NEW v, v = Append(w, m)
  PROVE  v \in Seq(Messages) /\ Acknowledged(v, w, m, t)
<1>1. m \in Messages /\ m.what \in {"added", "removed"}
  BY DEF AckMessages, Messages
<1>2. /\ v \in Seq(Messages) /\ Len(w) \in Nat /\ DOMAIN w = 1 .. Len(w)
      /\ \A i \in DOMAIN w : i \in DOMAIN v /\ v[i] = w[i] /\ i < Len(w) + 1
      /\ Len(w) + 1 \in DOMAIN v /\ v[Len(w) + 1] = m
      /\ \A i \in DOMAIN v : i \in DOMAIN w \/ i = Len(w) + 1
  BY <1>1, AppendFacts
<1>3. Acks(v, t) = Acks(w, t) \cup {Len(w) + 1}
  BY <1>1, <1>2 DEF Acks
<1>4. \A u : u # t => Acks(v, u) = Acks(w, u)
  BY <1>1, <1>2 DEF Acks
<1>5. Len(w) + 1 \notin Acks(w, t)
  BY <1>2 DEF Acks
<1>6. Cardinality(Acks(v, t)) = Cardinality(Acks(w, t)) + 1
  <2>1. IsFiniteSet(Acks(w, t))
    BY AcksFinite
  <2>2. Cardinality(Acks(w, t) \cup {Len(w) + 1}) = Cardinality(Acks(w, t)) + 1
    BY <1>5, <2>1, FS_AddElement
  <2> QED BY <1>3, <2>2
<1> QED BY <1>2, <1>3, <1>4, <1>6 DEF Acknowledged

NotRefused(w, t) == \A i \in DOMAIN w : w[i].what = "refused" => w[i].target # t

\* With the request that m acknowledges, U is listened to and no longer T.
Turns(m, w, T, U) ==
  \/ m.what = "added" /\ U = T \cup {m.target} /\ NotRefused(w, m.target)
  \/ m.what = "removed" /\ U = T \ {m.target}

\* A request and the acknowledgement of it, as one.
LEMMA LinkedRequest ==
  ASSUME NEW a \in Aggregators, NEW w \in Seq(Messages), NEW T, Linked(a, w, T),
         NEW t \in TargetIds, NEW b, Requested(b, a, t),
         NEW m \in AckMessages, m.target = t,
         NEW U, Turns(m, w, T, U), NEW v, v = Append(w, m)
  PROVE  Linked(b, v, U)
<1>0. /\ m.what \in {"added", "removed"}
      /\ m.what = "added" => U = T \cup {t} /\ NotRefused(w, t)
      /\ m.what = "removed" => U = T \ {t}
  BY DEF AckMessages, Turns
<1>a. Acknowledged(v, w, m, t)
  BY AcksAppend
<1>1. /\ Acks(v, t) = Acks(w, t) \cup {Len(w) + 1} /\ v[Len(w) + 1] = m
      /\ \A u : u # t => Acks(v, u) = Acks(w, u)
      /\ Cardinality(Acks(v, t)) = Cardinality(Acks(w, t)) + 1
  BY <1>a DEF Acknowledged
<1>2. /\ \A i \in DOMAIN w : i \in DOMAIN v /\ v[i] = w[i] /\ i < Len(w) + 1
      /\ \A i \in DOMAIN v : i \in DOMAIN w \/ i = Len(w) + 1
  BY <1>a DEF Acknowledged
<1>3. \A u \in U : u # t => u \in T
  BY <1>0
<1>4. U \subseteq DOMAIN b.states
  BY <1>3 DEF Linked, Requested
<1>5. Counted(b, v)
  <2> SUFFICES ASSUME NEW u \in TargetIds
               PROVE  EnsureTargetState(b, u).outstanding = Cardinality(Acks(v, u))
    BY DEF Counted
  <2>1. EnsureTargetState(a, u).outstanding = Cardinality(Acks(w, u))
    BY DEF Linked, Counted
  <2>2. CASE u = t
    <3>1. EnsureTargetState(b, t) = b.states[t]
      BY DEF EnsureTargetState, Requested
    <3> QED BY <1>1, <2>1, <2>2, <3>1 DEF Requested
  <2>3. CASE u # t
    <3>1. EnsureTargetState(b, u) = EnsureTargetState(a, u)
      BY <2>3 DEF EnsureTargetState, Requested
    <3> QED BY <1>1, <2>1, <2>3, <3>1
  <2> QED BY <2>2, <2>3
<1>6. \A u : \A i \in Acks(w, u) : i \in DOMAIN w /\ i < Len(w) + 1 /\ v[i] = w[i]
  BY <1>2 DEF Acks
<1>7. LastTells(v, U)
  <2> SUFFICES ASSUME NEW u \in TargetIds, NEW i \in Acks(v, u),
                      \A j \in Acks(v, u) : j <= i
               PROVE  v[i].what = "added" <=> u \in U
    BY DEF LastTells
  <2>1. CASE u = t
    <3>1. i = Len(w) + 1
      <4>1. Len(w) + 1 \in Acks(v, u) /\ Len(w) \in Nat
        BY <1>1, <2>1
      <4>2. Len(w) + 1 <= i
        BY <4>1
      <4>3. CASE i \in Acks(w, u)
        <5>1. i < Len(w) + 1 /\ i \in 1 .. Len(w)
          BY <1>6, <4>3, AcksFinite
        <5> QED BY <4>1, <4>2, <5>1
      <4> QED BY <1>1, <2>1, <4>3
    <3> QED BY <1>0, <1>1, <2>1, <3>1
  <2>2. CASE u # t
    <3>1. i \in Acks(w, u) /\ \A j \in Acks(w, u) : j <= i
      BY <1>1, <2>2
    <3>2. w[i].what = "added" <=> u \in T
      BY <3>1 DEF Linked, LastTells
    <3>3. u \in U <=> u \in T
      BY <1>0, <2>2
    <3> QED BY <1>6, <3>1, <3>2, <3>3
  <2> QED BY <2>1, <2>2
<1>8. RefusalsEnd(v, U)
  <2> SUFFICES ASSUME NEW i \in DOMAIN v, v[i].what = "refused", v[i].target \in U,
                      NEW j \in Acks(v, v[i].target)
               PROVE  j < i
    BY DEF RefusalsEnd
  <2>1. i \in DOMAIN w /\ v[i] = w[i]
    BY <1>0, <1>1, <1>2
  <2>2. w[i].target # t
    BY <1>0, <2>1 DEF NotRefused
  <2>3. w[i].target \in T /\ j \in Acks(w, w[i].target)
    BY <1>1, <1>3, <2>1, <2>2
  <2> QED BY <2>1, <2>3 DEF Linked, RefusalsEnd
<1> QED BY <1>4, <1>5, <1>7, <1>8 DEF Linked

\* The wire after its first message has arrived.
LEMMA AcksTail ==
  ASSUME NEW w \in Seq(Messages), w # <<>>, NEW u
  PROVE  /\ \A i \in Acks(Tail(w), u) : i \in Nat /\ i + 1 \in Acks(w, u)
         /\ \A i \in Acks(w, u) : i # 1 => i - 1 \in Acks(Tail(w), u)
         /\ Cardinality(Acks(Tail(w), u)) =
              IF 1 \in Acks(w, u) THEN Cardinality(Acks(w, u)) - 1 ELSE Cardinality(Acks(w, u))
<1> DEFINE v == Tail(w)
           A == Acks(v, u)
           B == Acks(w, u) \ {1}
           f == [i \in A |-> i + 1]
<1>1. /\ v \in Seq(Messages) /\ Len(w) \in Nat
      /\ DOMAIN w = 1 .. Len(w) /\ DOMAIN v = 1 .. Len(w) - 1
      /\ \A i \in DOMAIN v : i + 1 \in DOMAIN w /\ v[i] = w[i + 1]
      /\ \A i \in DOMAIN w : i # 1 => i - 1 \in DOMAIN v /\ v[i - 1] = w[i]
  BY TailFacts
<1> HIDE DEF v
<1>2. \A i \in A : i \in Nat /\ i + 1 \in Acks(w, u) /\ i + 1 # 1
  BY <1>1 DEF Acks
<1>3. \A i \in Acks(w, u) : i # 1 => i - 1 \in A /\ i \in Nat
  BY <1>1 DEF Acks
<1>4. f \in Bijection(A, B)
  <2>1. f \in [A -> B]
    BY <1>2
  <2>2. \A i, j \in A : f[i] = f[j] => i = j
    BY <1>2
  <2>3. \A j \in B : \E i \in A : f[i] = j
    <3> SUFFICES ASSUME NEW j \in B PROVE \E i \in A : f[i] = j
      OBVIOUS
    <3>1. j - 1 \in A /\ j - 1 + 1 = j
      BY <1>3
    <3> HIDE DEF A
    <3> QED BY <3>1
  <2> HIDE DEF f, A, B
  <2> QED BY <2>1, <2>2, <2>3 DEF Bijection, Injection, Surjection, IsInjective
<1>5. IsFiniteSet(A)
  BY <1>1, AcksFinite
<1>6. Cardinality(B) = Cardinality(A)
  <2>1. ExistsBijection(A, B)
    BY <1>4 DEF ExistsBijection
  <2> HIDE DEF A, B
  <2> QED BY <1>5, <2>1, FS_Bijection
<1>7. Cardinality(B) =
        IF 1 \in Acks(w, u) THEN Cardinality(Acks(w, u)) - 1 ELSE Cardinality(Acks(w, u))
  <2>1. IsFiniteSet(Acks(w, u))
    BY AcksFinite
  <2> QED BY <2>1, FS_RemoveElement
<1> QED BY <1>2, <1>3, <1>6, <1>7 DEF v

LEMMA LinkedTail ==
  ASSUME NEW a \in Aggregators, NEW w \in Seq(Messages), w # <<>>,
         NEW T, Linked(a, w, T),
         NEW U \in SUBSET T, \A u \in T \ U : Acks(w, u) = {},
         NEW b, U \subseteq DOMAIN b.states,
         \A u \in TargetIds :
           EnsureTargetState(b, u).outstanding =
             IF 1 \in Acks(w, u) THEN EnsureTargetState(a, u).outstanding - 1
                                 ELSE EnsureTargetState(a, u).outstanding
  PROVE  Linked(b, Tail(w), U)
<1> DEFINE v == Tail(w)
<1>1. /\ v \in Seq(Messages)
      /\ \A i \in DOMAIN v : i \in Nat /\ i + 1 \in DOMAIN w /\ v[i] = w[i + 1]
  <2>1. /\ v \in Seq(Messages) /\ DOMAIN v = 1 .. Len(w) - 1
        /\ \A i \in DOMAIN v : i + 1 \in DOMAIN w /\ v[i] = w[i + 1]
    BY TailFacts
  <2> HIDE DEF v
  <2> QED BY <2>1
<1>2. \A u : /\ \A i \in Acks(v, u) : i \in Nat /\ i + 1 \in Acks(w, u)
             /\ \A i \in Acks(w, u) : i # 1 => i - 1 \in Acks(v, u)
  BY AcksTail
<1>3. Counted(b, v)
  <2> SUFFICES ASSUME NEW u \in TargetIds
               PROVE  EnsureTargetState(b, u).outstanding = Cardinality(Acks(v, u))
    BY DEF Counted
  <2>1. EnsureTargetState(a, u).outstanding = Cardinality(Acks(w, u))
    BY DEF Linked, Counted
  <2> QED BY <2>1, AcksTail
<1> HIDE DEF v
<1>4. \A i \in DOMAIN w : i \in Nat /\ i >= 1
  OBVIOUS
<1>5. LastTells(v, U)
  <2> SUFFICES ASSUME NEW u \in TargetIds, NEW i \in Acks(v, u),
                      \A j \in Acks(v, u) : j <= i
               PROVE  v[i].what = "added" <=> u \in U
    BY DEF LastTells
  <2>1. i \in Nat /\ i + 1 \in Acks(w, u) /\ v[i] = w[i + 1]
    BY <1>1, <1>2 DEF Acks
  <2>2. \A j \in Acks(w, u) : j <= i + 1
    <3> SUFFICES ASSUME NEW j \in Acks(w, u) PROVE j <= i + 1
      OBVIOUS
    <3>1. j \in Nat
      BY <1>4 DEF Acks
    <3>2. CASE j = 1
      BY <2>1, <3>2
    <3>3. CASE j # 1
      <4>1. j - 1 \in Acks(v, u)
        BY <1>2, <3>3
      <4>2. j - 1 <= i
        BY <4>1
      <4> QED BY <2>1, <3>1, <4>2
    <3> QED BY <3>2, <3>3
  <2>3. w[i + 1].what = "added" <=> u \in T
    BY <2>1, <2>2 DEF Linked, LastTells
  <2>4. u \in T <=> u \in U
    BY <2>1
  <2> QED BY <2>1, <2>3, <2>4
<1>6. RefusalsEnd(v, U)
  <2> SUFFICES ASSUME NEW i \in DOMAIN v, v[i].what = "refused", v[i].target \in U,
                      NEW j \in Acks(v, v[i].target)
               PROVE  j < i
    BY DEF RefusalsEnd
  <2>1. /\ i \in Nat /\ i + 1 \in DOMAIN w /\ v[i] = w[i + 1]
        /\ j \in Nat /\ j + 1 \in Acks(w, v[i].target)
    BY <1>1, <1>2
  <2>2. j + 1 < i + 1
    BY <2>1 DEF Linked, RefusalsEnd
  <2> QED BY <2>1, <2>2
<1> QED BY <1>3, <1>5, <1>6 DEF Linked, v

\* What else the server sends.
LEMMA LinkedExtend ==
  ASSUME NEW a, NEW w \in Seq(Messages), NEW r \in Seq(Messages), NEW T, Linked(a, w, T),
         \A i \in DOMAIN r : r[i].what \notin {"added", "removed"}
  PROVE  Linked(a, w \o r, T)
<1> DEFINE v == w \o r
<1>1. /\ \A i \in DOMAIN w : i \in DOMAIN v /\ v[i] = w[i] /\ i \in Nat
      /\ \A i \in DOMAIN r :
           Len(w) + i \in DOMAIN v /\ v[Len(w) + i] = r[i] /\ i \in Nat
      /\ \A i \in DOMAIN w : \A j \in DOMAIN r : i < Len(w) + j
      /\ \A i \in DOMAIN v : i \in DOMAIN w \/ \E j \in DOMAIN r : i = Len(w) + j
  <2>1. Joined(v, w, r)
    BY ConcatFacts
  <2> HIDE DEF v
  <2> QED BY <2>1, Zenon DEF Joined
<1> HIDE DEF v
<1>2. \A u : Acks(v, u) = Acks(w, u)
  BY <1>1 DEF Acks
<1>3. Counted(a, v)
  BY <1>2 DEF Linked, Counted
<1>4. LastTells(v, T)
  <2>1. \A u : \A i \in Acks(w, u) : v[i] = w[i]
    BY <1>1 DEF Acks
  <2> QED BY <1>2, <2>1 DEF Linked, LastTells
<1>5. RefusalsEnd(v, T)
  <2> SUFFICES ASSUME NEW i \in DOMAIN v, v[i].what = "refused", v[i].target \in T,
                      NEW j \in Acks(v, v[i].target)
               PROVE  j < i
    BY DEF RefusalsEnd
  <2>1. j \in Acks(w, v[i].target) /\ j \in DOMAIN w
    BY <1>2 DEF Acks
  <2>2. CASE i \in DOMAIN w
    BY <1>1, <2>1, <2>2 DEF Linked, RefusalsEnd
  <2>3. CASE \E k \in DOMAIN r : i = Len(w) + k
    BY <1>1, <2>1, <2>3
  <2> QED BY <1>1, <2>2, <2>3
<1> QED BY <1>3, <1>4, <1>5 DEF Linked, v

\* Acknowledgements that arrive.
\* b is a with the state st for t.
Updated(b, a, t, st) ==
  /\ DOMAIN b.states = DOMAIN a.states \cup {t}
  /\ b.states[t] = st
  /\ \A u \in DOMAIN a.states : u # t => b.states[u] = a.states[u]
  /\ EnsureTargetState(b, t) = st
  /\ \A u : u # t => EnsureTargetState(b, u) = EnsureTargetState(a, u)

LEMMA EnsureUpdated ==
  ASSUME NEW a \in Aggregators, NEW t \in TargetIds, NEW st \in TargetStates
  PROVE  SetState(a, t, st) \in Aggregators /\ Updated(SetState(a, t, st), a, t, st)
<1> DEFINE b == SetState(a, t, st)
<1>1. /\ b \in Aggregators /\ DOMAIN b.states = DOMAIN a.states \cup {t}
      /\ b.states[t] = st
      /\ \A u \in DOMAIN a.states : u # t => b.states[u] = a.states[u]
  BY SetStateFacts
<1> HIDE DEF b
<1>2. /\ EnsureTargetState(b, t) = st
      /\ \A u : u # t => EnsureTargetState(b, u) = EnsureTargetState(a, u)
  BY <1>1 DEF EnsureTargetState
<1>3. b \in Aggregators /\ Updated(b, a, t, st)
  BY <1>1, <1>2 DEF Updated
<1> QED BY <1>3 DEF b

\* b is a with one answer for t less to come.
Answered(b, a, t) ==
  \A u \in TargetIds :
    EnsureTargetState(b, u).outstanding =
      IF u = t THEN EnsureTargetState(a, u).outstanding - 1
               ELSE EnsureTargetState(a, u).outstanding

LEMMA AddedFacts ==
  ASSUME NEW a \in Aggregators, NEW t \in DOMAIN a.states, a.states[t].outstanding # 0,
         NEW meta, Fits(a, meta), NEW b, b = TargetAdded(a, t)
  PROVE  b \in Aggregators /\ DOMAIN b.states = DOMAIN a.states /\ Answered(b, a, t)
         /\ Fits(b, meta)
<1> DEFINE old == EnsureTargetState(a, t)
           less == [old EXCEPT !.outstanding = @ - 1]
           st == IF less.outstanding = 0 THEN ClearPendingChanges(less) ELSE less
<1>1. old \in TargetStates /\ t \in TargetIds /\ old = a.states[t]
  <2>1. a.states \in Partial(TargetIds, TargetStates)
    BY DEF Aggregators
  <2> QED BY <2>1, PartialIs DEF EnsureTargetState
<1>2. less \in TargetStates /\ less.outstanding = old.outstanding - 1
  BY <1>1 DEF TargetStates
<1>3. \A p \in BOOLEAN : \A x \in TargetStates :
        LET new == [x EXCEPT !.pending = p, !.changes = <<>>]
        IN  new \in TargetStates /\ new.outstanding = x.outstanding /\ new.changes = <<>>
  BY PartialEmpty DEF TargetStates
<1>4. \A x \in TargetStates :
        /\ ClearPendingChanges(x) \in TargetStates
        /\ ClearPendingChanges(x).outstanding = x.outstanding
        /\ ClearPendingChanges(x).changes = <<>>
  BY <1>3, Zenon DEF ClearPendingChanges
<1>5. /\ st \in TargetStates /\ st.outstanding = old.outstanding - 1
      /\ st.outstanding = 0 => DOMAIN st.changes = {}
  <2> HIDE DEF less, old
  <2> QED BY <1>2, <1>4, PartialEmpty
<1>6. b = SetState(a, t, st)
  BY DEF TargetAdded
<1> HIDE DEF st
<1>7. /\ b \in Aggregators /\ DOMAIN b.states = DOMAIN a.states \cup {t}
      /\ b.states[t] = st
      /\ \A u \in DOMAIN a.states : u # t => b.states[u] = a.states[u]
      /\ EnsureTargetState(b, t) = st
      /\ \A u : u # t => EnsureTargetState(b, u) = EnsureTargetState(a, u)
  <2>1. b \in Aggregators /\ Updated(b, a, t, st)
    BY <1>1, <1>5, <1>6, EnsureUpdated
  <2> HIDE DEF old
  <2> QED BY <2>1, Zenon DEF Updated
<1> HIDE DEF old
<1>8. Answered(b, a, t)
  BY <1>5, <1>7 DEF Answered, old
<1>9. Fits(b, meta)
  <2> SUFFICES ASSUME NEW u \in DOMAIN meta.keys \cap DOMAIN b.states,
                      b.states[u].outstanding = 0
               PROVE  ChangesFit(b.states[u].changes, meta.keys[u])
    BY DEF Fits
  <2>1. CASE u = t
    BY <1>5, <1>7, <2>1 DEF ChangesFit
  <2>2. CASE u # t
    BY <1>7, <2>2 DEF Fits
  <2> QED BY <2>1, <2>2
<1> QED BY <1>7, <1>8, <1>9

LEMMA RemovedFacts ==
  ASSUME NEW a \in Aggregators, NEW t \in DOMAIN a.states, a.states[t].outstanding # 0,
         NEW meta, Fits(a, meta), NEW b, b = TargetRemoved(a, t)
  PROVE  /\ b \in Aggregators /\ Answered(b, a, t) /\ Fits(b, meta)
         /\ DOMAIN a.states \ {t} \subseteq DOMAIN b.states
         /\ a.states[t].outstanding # 1 => t \in DOMAIN b.states
<1> DEFINE old == EnsureTargetState(a, t)
           less == [old EXCEPT !.outstanding = @ - 1]
<1>0. a.states \in Partial(TargetIds, TargetStates)
  BY DEF Aggregators
<1>1. old \in TargetStates /\ t \in TargetIds /\ old = a.states[t] /\ old.outstanding \in Nat
  <2>1. old \in TargetStates /\ t \in TargetIds /\ old = a.states[t]
    BY <1>0, PartialIs DEF EnsureTargetState
  <2> QED BY <2>1 DEF TargetStates
<1>2. less \in TargetStates /\ less.outstanding = old.outstanding - 1
  BY <1>1 DEF TargetStates
<1>3. CASE less.outstanding # 0
  <2>1. b = SetState(a, t, less)
    BY <1>3 DEF TargetRemoved
  <2> HIDE DEF less
  <2>2. /\ b \in Aggregators /\ DOMAIN b.states = DOMAIN a.states \cup {t}
        /\ b.states[t] = less
        /\ \A u \in DOMAIN a.states : u # t => b.states[u] = a.states[u]
        /\ EnsureTargetState(b, t) = less
        /\ \A u : u # t => EnsureTargetState(b, u) = EnsureTargetState(a, u)
    <3>1. b \in Aggregators /\ Updated(b, a, t, less)
      BY <1>1, <1>2, <2>1, EnsureUpdated
    <3> QED BY <3>1, Zenon DEF Updated
  <2>3. Answered(b, a, t)
    BY <1>2, <2>2 DEF Answered
  <2>4. Fits(b, meta)
    BY <1>3, <2>2 DEF Fits
  <2> QED BY <2>2, <2>3, <2>4
<1>4. CASE less.outstanding = 0
  <2> DEFINE states == Without(a.states, t)
  <2>1. b = [a EXCEPT !.states = states]
    BY <1>4 DEF TargetRemoved, RemoveTarget
  <2>2. states \in Partial(TargetIds, TargetStates)
    BY <1>0, WithoutType
  <2>3. DOMAIN states = DOMAIN a.states \ {t} /\ \A u \in DOMAIN states : states[u] = a.states[u]
    BY DEF Without, Restrict
  <2> HIDE DEF states
  <2>4. b \in Aggregators /\ b.states = states
    BY <2>1, <2>2 DEF Aggregators
  <2>5. Fits(b, meta)
    BY <2>3, <2>4 DEF Fits
  <2>6. Answered(b, a, t)
    <3>1. EnsureTargetState(b, t).outstanding = 0
      BY <2>3, <2>4, NewStateType DEF EnsureTargetState
    <3>2. \A u : u # t => EnsureTargetState(b, u) = EnsureTargetState(a, u)
      BY <2>3, <2>4 DEF EnsureTargetState
    <3> QED BY <1>2, <1>4, <3>1, <3>2 DEF Answered
  <2>7. a.states[t].outstanding = 1
    BY <1>1, <1>2, <1>4
  <2> QED BY <2>3, <2>4, <2>5, <2>6, <2>7
<1> QED BY <1>3, <1>4

LEMMA AckArrives ==
  ASSUME NEW a \in Aggregators, NEW w \in Seq(Messages), w # <<>>, NEW T, Linked(a, w, T),
         NEW m \in AckMessages, m = w[1], NEW meta, Fits(a, meta), NEW b,
         b = IF m.what = "added" THEN TargetAdded(a, m.target) ELSE TargetRemoved(a, m.target)
  PROVE  b \in Aggregators /\ Linked(b, Tail(w), T) /\ Fits(b, meta)
<1> DEFINE t == m.target
<1>0. t \in TargetIds /\ m.what \in {"added", "removed"} /\ 1 \in DOMAIN w
  BY TailFacts DEF AckMessages
<1>1. 1 \in Acks(w, t) /\ \A u : 1 \in Acks(w, u) <=> u = t
  BY <1>0 DEF Acks
<1>2. /\ EnsureTargetState(a, t).outstanding = Cardinality(Acks(w, t))
      /\ Cardinality(Acks(w, t)) \in Nat \ {0}
      /\ Cardinality(Acks(w, t)) = 1 => Acks(w, t) = {1}
  <2>1. EnsureTargetState(a, t).outstanding = Cardinality(Acks(w, t))
    BY <1>0 DEF Linked, Counted
  <2>2. IsFiniteSet(Acks(w, t)) /\ Cardinality(Acks(w, t)) \in Nat
    BY AcksFinite
  <2>3. Cardinality(Acks(w, t)) # 0
    BY <1>1, <2>2, FS_EmptySet
  <2>4. Cardinality(Acks(w, t)) = 1 => Acks(w, t) = {1}
    BY <1>1, <2>2, FS_Singleton
  <2> QED BY <2>1, <2>2, <2>3, <2>4
<1>3. t \in DOMAIN a.states /\ a.states[t].outstanding = Cardinality(Acks(w, t))
  BY <1>2, NewStateType DEF EnsureTargetState
<1>4. T \subseteq DOMAIN a.states
  BY DEF Linked
<1>5. b \in Aggregators /\ Fits(b, meta) /\ Answered(b, a, t) /\ T \subseteq DOMAIN b.states
  <2>1. CASE m.what = "added"
    <3>1. b = TargetAdded(a, t)
      BY <2>1
    <3> QED BY <1>2, <1>3, <1>4, <3>1, AddedFacts
  <2>2. CASE m.what = "removed"
    <3>1. b = TargetRemoved(a, t)
      BY <2>2
    <3>2. /\ b \in Aggregators /\ Answered(b, a, t) /\ Fits(b, meta)
          /\ DOMAIN a.states \ {t} \subseteq DOMAIN b.states
          /\ a.states[t].outstanding # 1 => t \in DOMAIN b.states
      BY <1>2, <1>3, <3>1, RemovedFacts
    <3>3. a.states[t].outstanding = 1 => t \notin T
      <4>1. SUFFICES ASSUME a.states[t].outstanding = 1 PROVE t \notin T
        OBVIOUS
      <4>2. Acks(w, t) = {1}
        BY <1>2, <1>3, <4>1
      <4>3. \A j \in Acks(w, t) : j <= 1
        BY <4>2
      <4> QED BY <1>0, <1>1, <2>2, <4>3 DEF Linked, LastTells
    <3> QED BY <1>4, <3>2, <3>3
  <2> QED BY <1>0, <2>1, <2>2
<1>6. \A u \in TargetIds :
        EnsureTargetState(b, u).outstanding =
          IF 1 \in Acks(w, u) THEN EnsureTargetState(a, u).outstanding - 1
                              ELSE EnsureTargetState(a, u).outstanding
  BY <1>1, <1>5 DEF Answered
<1>7. Linked(b, Tail(w), T)
  BY <1>5, <1>6, LinkedTail
<1> QED BY <1>5, <1>7

\* Another message that arrives.
LEMMA LikeLinked ==
  ASSUME NEW a \in Aggregators, NEW w \in Seq(Messages), w # <<>>, NEW T, Linked(a, w, T),
         w[1].what \notin {"added", "removed"}, NEW meta, NEW b \in Like(a, meta)
  PROVE  Linked(b, Tail(w), T)
<1>1. T \subseteq DOMAIN b.states
  BY DEF Linked, Like
<1>2. \A u : 1 \notin Acks(w, u)
  BY DEF Acks
<1>3. \A u : EnsureTargetState(b, u).outstanding = EnsureTargetState(a, u).outstanding
  BY DEF Like, EnsureTargetState
<1> QED BY <1>1, <1>2, <1>3, LinkedTail

KeysWithout(now, meta, t) ==
  /\ DOMAIN now.keys = DOMAIN meta.keys \ {t}
  /\ \A u \in DOMAIN now.keys : now.keys[u] = meta.keys[u]

\* The refusal of a target that arrives while it is listened to.
LEMMA RefusalArrives ==
  ASSUME NEW a \in Aggregators, NEW w \in Seq(Messages), w # <<>>, NEW T, Linked(a, w, T),
         NEW t \in T, w[1].what = "refused", w[1].target = t, NEW meta, Fits(a, meta),
         NEW now, KeysWithout(now, meta, t)
  PROVE  LET b == RemoveTarget(a, t)
         IN  b \in Aggregators /\ Linked(b, Tail(w), T \ {t}) /\ Fits(b, now)
<1> DEFINE b == RemoveTarget(a, t)
<1> HIDE DEF b
<1> SUFFICES b \in Aggregators /\ Linked(b, Tail(w), T \ {t}) /\ Fits(b, now)
  BY DEF b
<1>keys. DOMAIN now.keys = DOMAIN meta.keys \ {t} /\ \A u \in DOMAIN now.keys : now.keys[u] = meta.keys[u]
  BY DEF KeysWithout
<1> DEFINE states == Without(a.states, t)
<1>0. a.states \in Partial(TargetIds, TargetStates)
  BY DEF Aggregators
<1>1. b = [a EXCEPT !.states = states]
  BY DEF b, RemoveTarget
<1>2. states \in Partial(TargetIds, TargetStates)
  BY <1>0, WithoutType
<1>3. DOMAIN states = DOMAIN a.states \ {t} /\ \A u \in DOMAIN states : states[u] = a.states[u]
  BY DEF Without, Restrict
<1> HIDE DEF states
<1>4. b \in Aggregators /\ b.states = states
  BY <1>1, <1>2 DEF Aggregators
<1>5. Fits(b, now)
  BY <1>keys, <1>3, <1>4 DEF Fits
<1>6. 1 \in DOMAIN w /\ \A u : 1 \notin Acks(w, u)
  BY TailFacts DEF Acks
<1>7. Acks(w, t) = {}
  <2>1. \A j \in Acks(w, t) : j \in Nat /\ j >= 1 /\ j < 1
    BY <1>6, AcksFinite DEF Linked, RefusalsEnd
  <2> QED BY <2>1
<1>8. \A u \in TargetIds : EnsureTargetState(b, u).outstanding = EnsureTargetState(a, u).outstanding
  <2> SUFFICES ASSUME NEW u \in TargetIds
               PROVE  EnsureTargetState(b, u).outstanding = EnsureTargetState(a, u).outstanding
    OBVIOUS
  <2>1. CASE u = t
    <3>1. EnsureTargetState(a, t).outstanding = 0
      BY <1>7, <2>1, FS_EmptySet DEF Linked, Counted
    <3>2. EnsureTargetState(b, t).outstanding = 0
      BY <1>3, <1>4, NewStateType DEF EnsureTargetState
    <3> QED BY <2>1, <3>1, <3>2
  <2>2. CASE u # t
    BY <1>3, <1>4, <2>2 DEF EnsureTargetState
  <2> QED BY <2>1, <2>2
<1>9. T \ {t} \subseteq DOMAIN b.states
  BY <1>3, <1>4 DEF Linked
<1>10. Linked(b, Tail(w), T \ {t})
  BY <1>6, <1>7, <1>8, <1>9, LinkedTail
<1> QED BY <1>4, <1>5, <1>10

-----------------------------------------------------------------------------
(* A request, of a client with an open stream.                             *)

LEMMA StepTypes ==
  ASSUME NEW s \in Steps
  PROVE  /\ s.client \in Clients /\ s.disk \in Disks /\ s.server \in Servers
         /\ s.client.targets \in Partial(TargetIds, Versions)
         /\ s.client.agg \in Aggregators /\ s.client.view \in Views
         /\ s.client.resolving \in Partial(LookupIds, Lookups)
         /\ s.client.enqueued \in Seq(Docs)
         /\ s.client.token \in Versions /\ s.client.limboFree \in Versions
         /\ s.client.open \in BOOLEAN /\ s.client.listening \in BOOLEAN
         /\ s.server.watching \in Partial(TargetIds, Watches)
         /\ s.server.wire \in Seq(Messages)
  BY DEF Steps, Clients, Servers

\* What a request leaves alone.
SameBesides(c, d) ==
  /\ c.open = d.open /\ c.listening = d.listening /\ c.view = d.view /\ c.token = d.token
  /\ c.limboFree = d.limboFree /\ c.resolving = d.resolving /\ c.enqueued = d.enqueued

\* v is w and then acknowledgements of targets of T.
Appended(v, w, T) ==
  /\ \A i \in DOMAIN w : i \in DOMAIN v /\ v[i] = w[i]
  /\ \A i \in DOMAIN v \ DOMAIN w : v[i].what \in {"added", "removed"} /\ v[i].target \in T

QuerySame(f, g) == QueryTarget \in DOMAIN g => QueryTarget \in DOMAIN f /\ f[QueryTarget] = g[QueryTarget]

\* r is s, as far as the target of the query is concerned.
Aside(r, s) ==
  /\ r.client.agg.resets = s.client.agg.resets
  /\ EnsureTargetState(r.client.agg, QueryTarget) = EnsureTargetState(s.client.agg, QueryTarget)
  /\ QuerySame(r.client.targets, s.client.targets)
  /\ QuerySame(r.server.watching, s.server.watching)
  /\ Appended(r.server.wire, s.server.wire, LookupIds)

LEMMA AppendedTwice ==
  ASSUME NEW u, NEW v, NEW w, NEW T, Appended(u, v, T), Appended(v, w, T)
  PROVE  Appended(u, w, T)
  BY DEF Appended

LEMMA AppendedAny ==
  ASSUME NEW v, NEW w, NEW T, NEW U, T \subseteq U, Appended(v, w, T)
  PROVE  Appended(v, w, U)
  BY DEF Appended

LEMMA AsideItself ==
  ASSUME NEW s
  PROVE  Aside(s, s)
  BY DEF Aside, Appended, QuerySame

LEMMA AsideTwice ==
  ASSUME NEW q, NEW r, NEW s, Aside(q, r), Aside(r, s)
  PROVE  Aside(q, s)
<1>1. Appended(q.server.wire, s.server.wire, LookupIds)
  BY AppendedTwice DEF Aside
<1>2. /\ QuerySame(q.client.targets, s.client.targets)
      /\ QuerySame(q.server.watching, s.server.watching)
  BY DEF Aside, QuerySame
<1> QED BY <1>1, <1>2 DEF Aside

\* The server watches the query from a version.
WatchedFrom(watching, token) ==
  /\ QueryTarget \in DOMAIN watching
  /\ watching[QueryTarget].key = NoKey /\ watching[QueryTarget].asOf = token

\* Nothing on its way is heeded for the query, and an answer is due.
Deaf(s) ==
  /\ Heard(s.server.wire) = {}
  /\ EnsureTargetState(s.client.agg, QueryTarget).outstanding # 0

\* r is s after a request for t, after which U is listened to.
Sent(r, s, t, U) ==
  /\ r \in Steps /\ r.disk = s.disk /\ SameBesides(r.client, s.client)
  /\ r.client.targets = s.client.targets
  /\ Requested(r.client.agg, s.client.agg, t)
  /\ Linked(r.client.agg, r.server.wire, U)
  /\ \A u : NotRefused(s.server.wire, u) => NotRefused(r.server.wire, u)
  /\ Appended(r.server.wire, s.server.wire, TargetIds)
  /\ r.client.agg.resets = s.client.agg.resets
  /\ IF t = QueryTarget THEN Deaf(r) ELSE Aside(r, s)

\* A request about t is on record, and the server knows of it.
Requests(s, t, watching, m) ==
  [[s EXCEPT !.client.agg = RecordPendingTargetRequest(@, t)]
     EXCEPT !.server.watching = watching, !.server.wire = Append(@, m)]

OthersSame(f, g, t) == t # QueryTarget => QuerySame(f, g)

LEMMA SendsRequest ==
  ASSUME NEW s \in Steps, NEW t \in TargetIds, NEW T,
         Linked(s.client.agg, s.server.wire, T),
         NEW m \in AckMessages, m.target = t,
         NEW U, Turns(m, s.server.wire, T, U),
         NEW watching \in Partial(TargetIds, Watches),
         OthersSame(watching, s.server.watching, t)
  PROVE  /\ Sent(Requests(s, t, watching, m), s, t, U)
         /\ Requests(s, t, watching, m).server.watching = watching
<1> DEFINE a == RecordPendingTargetRequest(s.client.agg, t)
           v == Append(s.server.wire, m)
           c == [s.client EXCEPT !.agg = a]
           f == [s.server EXCEPT !.watching = watching, !.wire = v]
           r == [s EXCEPT !.client = c, !.server = f]
<1>1. a \in Aggregators /\ Requested(a, s.client.agg, t) /\ a.resets = s.client.agg.resets
  BY StepTypes, RequestFacts
<1> HIDE DEF a
<1>2. c \in Clients /\ c.agg = a /\ c.targets = s.client.targets /\ SameBesides(c, s.client)
  BY <1>1, StepTypes DEF Clients, SameBesides
<1>3. v \in Seq(Messages) /\ m \in Messages /\ m.what # "refused"
  BY AcksAppend, StepTypes DEF AckMessages, Messages
<1> HIDE DEF c
<1>4. Linked(a, v, U)
  <2>1. s.client.agg \in Aggregators /\ s.server.wire \in Seq(Messages)
    BY StepTypes
  <2>2. v = Append(s.server.wire, m)
    OBVIOUS
  <2> HIDE DEF v
  <2> QED BY <1>1, <2>1, <2>2, LinkedRequest, Zenon
<1>5. \A u : NotRefused(s.server.wire, u) => NotRefused(v, u)
  <2>1. s.server.wire \in Seq(Messages)
    BY StepTypes
  <2> QED BY <1>3, <2>1, AppendFacts DEF NotRefused
<1>5a. Acknowledged(v, s.server.wire, m, t)
  BY StepTypes, AcksAppend
<1> HIDE DEF v
<1>5b. Appended(v, s.server.wire, {t})
  BY <1>5a DEF Acknowledged, Appended, AckMessages
<1>5c. t = QueryTarget => Heard(v) = {}
  <2>1. SUFFICES ASSUME t = QueryTarget, NEW i \in Heard(v) PROVE FALSE
    OBVIOUS
  <2>2. Len(s.server.wire) + 1 \in Acks(v, QueryTarget)
    BY <1>5a, <2>1 DEF Acknowledged
  <2>3. Len(s.server.wire) \in Nat /\ i \in DOMAIN v /\ Len(s.server.wire) + 1 < i
    BY <2>2, StepTypes DEF Heard
  <2>4. i \in DOMAIN s.server.wire \/ i = Len(s.server.wire) + 1
    BY <1>5a, <2>3 DEF Acknowledged
  <2>5. s.server.wire \in Seq(Messages)
    BY StepTypes
  <2>6. i \in 1 .. Len(s.server.wire) \/ i = Len(s.server.wire) + 1
    BY <2>4, <2>5
  <2> QED BY <2>3, <2>6
<1>6. f \in Servers /\ f.wire = v /\ f.watching = watching
  BY <1>3, StepTypes DEF Servers
<1> HIDE DEF f
<1>7. r \in Steps /\ r.client = c /\ r.disk = s.disk /\ r.server = f
  BY <1>2, <1>6 DEF Steps
<1>8. Requests(s, t, watching, m) = r
  BY DEF Requests, c, f, a, v, Steps
<1> HIDE DEF r
<1>8a. t = QueryTarget => Deaf(r)
  <2>1. EnsureTargetState(s.client.agg, t).outstanding \in Nat
    BY StepTypes, EnsureType DEF TargetStates
  <2>2. EnsureTargetState(a, t).outstanding # 0
    BY <1>1, <2>1 DEF Requested, EnsureTargetState
  <2> QED BY <1>2, <1>5c, <1>6, <1>7, <2>2 DEF Deaf
<1>8b. t # QueryTarget => Aside(r, s)
  <2>1. SUFFICES ASSUME t # QueryTarget PROVE Aside(r, s)
    OBVIOUS
  <2>2. EnsureTargetState(a, QueryTarget) = EnsureTargetState(s.client.agg, QueryTarget)
    BY <1>1, <2>1 DEF Requested, EnsureTargetState
  <2>3. Appended(v, s.server.wire, LookupIds)
    BY <1>5b, <2>1, AppendedAny DEF TargetIds
  <2>4. QuerySame(watching, s.server.watching) /\ QuerySame(s.client.targets, s.client.targets)
    BY <2>1 DEF OthersSame, QuerySame
  <2> QED BY <1>1, <1>2, <1>6, <1>7, <2>2, <2>3, <2>4 DEF Aside
<1>8c. Appended(v, s.server.wire, TargetIds)
  BY <1>5b, AppendedAny
<1>9. Sent(r, s, t, U)
  BY <1>1, <1>2, <1>4, <1>5, <1>6, <1>7, <1>8a, <1>8b, <1>8c DEF Sent
<1>10. r.server.watching = watching
  BY <1>6, <1>7
<1> QED BY <1>8, <1>9, <1>10

LEMMA SendsWatch ==
  ASSUME NEW s \in Steps, NEW t \in TargetIds, NEW T,
         Linked(s.client.agg, s.server.wire, T), NotRefused(s.server.wire, t),
         t = QueryTarget \/ t \in DOMAIN s.client.resolving, NEW token \in Versions
  PROVE  LET r == SendWatchRequest(s, t, token)
         IN  /\ Sent(r, s, t, T \cup {t})
             /\ t = QueryTarget => WatchedFrom(r.server.watching, token)
<1> DEFINE key == IF t = QueryTarget THEN NoKey ELSE s.client.resolving[t].key
           watch == [key |-> key, asOf |-> token, resumed |-> token # 0, current |-> FALSE]
           watching == With(s.server.watching, t, watch)
           m == [what |-> "added", target |-> t]
<1>1. key \in Docs \cup {NoKey}
  <2>1. s.client.resolving \in Partial(LookupIds, Lookups)
    BY StepTypes
  <2>2. t \in DOMAIN s.client.resolving => s.client.resolving[t] \in Lookups
    BY <2>1, PartialIs
  <2> QED BY <2>2 DEF Lookups
<1>1a. t = QueryTarget => key = NoKey
  OBVIOUS
<1> HIDE DEF key
<1>2. watch \in Watches /\ watch.key = key /\ watch.asOf = token
  BY <1>1 DEF Watches
<1> HIDE DEF watch
<1>3. watching \in Partial(TargetIds, Watches)
  BY <1>2, StepTypes, WithType
<1>3a. OthersSame(watching, s.server.watching, t)
  BY DEF OthersSame, QuerySame, With
<1>3b. t = QueryTarget => WatchedFrom(watching, token)
  BY <1>1a, <1>2 DEF WatchedFrom, With
<1> HIDE DEF watching
<1>4. m \in AckMessages /\ m.target = t /\ m.what = "added"
  BY DEF AckMessages
<1>4a. Turns(m, s.server.wire, T, T \cup {t})
  BY DEF Turns
<1> HIDE DEF m
<1> DEFINE r == Requests(s, t, watching, m)
<1>5. Sent(r, s, t, T \cup {t}) /\ r.server.watching = watching
  BY <1>3, <1>3a, <1>4, <1>4a, SendsRequest
<1>6. SendWatchRequest(s, t, token) = r
  BY DEF SendWatchRequest, ServerWatches, Requests, m, watching, watch, key, Steps, Clients, Servers
<1> HIDE DEF r
<1> QED BY <1>3b, <1>5, <1>6

LEMMA SendsUnwatch ==
  ASSUME NEW s \in Steps, NEW t \in TargetIds, NEW T,
         Linked(s.client.agg, s.server.wire, T)
  PROVE  Sent(SendUnwatchRequest(s, t), s, t, T \ {t})
<1> DEFINE watching == Without(s.server.watching, t)
           m == [what |-> "removed", target |-> t]
<1>1. watching \in Partial(TargetIds, Watches)
  BY StepTypes, WithoutType
<1>1a. OthersSame(watching, s.server.watching, t)
  BY DEF OthersSame, QuerySame, Without, Restrict
<1> HIDE DEF watching
<1>2. m \in AckMessages /\ m.target = t /\ m.what = "removed"
  BY DEF AckMessages
<1>2a. Turns(m, s.server.wire, T, T \ {t})
  BY DEF Turns
<1> HIDE DEF m
<1>3. Sent(Requests(s, t, watching, m), s, t, T \ {t})
  BY <1>1, <1>1a, <1>2, <1>2a, SendsRequest
<1>4. SendUnwatchRequest(s, t) = Requests(s, t, watching, m)
  BY DEF SendUnwatchRequest, ServerUnwatches, Requests, m, watching, Steps, Clients, Servers
<1> QED BY <1>3, <1>4

\* r is s after t has come to or gone from the targets listened to, now D.
Moved(r, s, t, D) ==
  /\ r \in Steps /\ r.disk = s.disk /\ SameBesides(r.client, s.client)
  /\ DOMAIN r.client.targets = D /\ Connected(r.client, r.server)
  /\ IF s.client.open THEN Requested(r.client.agg, s.client.agg, t)
                      ELSE r.client.agg = NewAggregator
  /\ Appended(r.server.wire, s.server.wire, TargetIds)
  /\ t # QueryTarget => Aside(r, s)

\* The query is listened to from a version.
ListenedFrom(r, token) ==
  /\ r.client.targets[QueryTarget] = token
  /\ r.client.open => Deaf(r) /\ WatchedFrom(r.server.watching, token)

\* Another target has come to or gone from those listened to.
LEMMA AsideTargets ==
  ASSUME NEW s, NEW targets, QuerySame(targets, s.client.targets),
         NEW r, r.client.agg = s.client.agg, r.server = s.server, r.client.targets = targets
  PROVE  Aside(r, s)
  BY DEF Aside, Appended, QuerySame

LEMMA TargetsChanged ==
  ASSUME NEW s \in Steps, NEW targets \in Partial(TargetIds, Versions)
  PROVE  LET r == [s EXCEPT !.client.targets = targets]
         IN  /\ r \in Steps /\ r.client.targets = targets /\ r.client.agg = s.client.agg
             /\ SameBesides(r.client, s.client) /\ r.disk = s.disk /\ r.server = s.server
<1> DEFINE c == [s.client EXCEPT !.targets = targets]
           r == [s EXCEPT !.client = c]
<1>1. c \in Clients /\ c.targets = targets /\ c.agg = s.client.agg /\ SameBesides(c, s.client)
  BY StepTypes DEF Clients, SameBesides
<1>2. [s EXCEPT !.client.targets = targets] = r
  BY DEF Steps
<1> HIDE DEF c
<1>3. r \in Steps /\ r.client = c /\ r.disk = s.disk /\ r.server = s.server
  BY <1>1 DEF Steps
<1> HIDE DEF r
<1> QED BY <1>1, <1>2, <1>3

LEMMA Listens ==
  ASSUME NEW s \in Steps, NEW t \in TargetIds, t = QueryTarget \/ t \in DOMAIN s.client.resolving,
         NEW token \in Versions, Connected(s.client, s.server), NotRefused(s.server.wire, t)
  PROVE  /\ Moved(RemoteListen(s, t, token), s, t, DOMAIN s.client.targets \cup {t})
         /\ t = QueryTarget => ListenedFrom(RemoteListen(s, t, token), token)
<1> DEFINE targets == With(s.client.targets, t, token)
           l == [s EXCEPT !.client.targets = targets]
           D == DOMAIN s.client.targets \cup {t}
           r == SendWatchRequest(l, t, token)
<1>1. targets \in Partial(TargetIds, Versions)
  BY StepTypes, WithType
<1>2. DOMAIN targets = D /\ targets[t] = token
  BY DEF With
<1>2a. t # QueryTarget => QuerySame(targets, s.client.targets)
  BY DEF QuerySame, With
<1> HIDE DEF targets
<1>3. /\ l \in Steps /\ l.client.targets = targets /\ l.client.agg = s.client.agg
      /\ SameBesides(l.client, s.client) /\ l.disk = s.disk /\ l.server = s.server
  BY <1>1, TargetsChanged
<1>4. RemoteListen(s, t, token) = IF s.client.open THEN r ELSE l
  BY DEF RemoteListen, l, targets
<1> HIDE DEF l
<1>4a. t # QueryTarget => Aside(l, s)
  BY <1>2a, <1>3, AsideTargets
<1>5. CASE s.client.open
  <2>1. Linked(l.client.agg, l.server.wire, DOMAIN s.client.targets)
    BY <1>3, <1>5 DEF Connected
  <2>2. t = QueryTarget \/ t \in DOMAIN l.client.resolving
    BY <1>3 DEF SameBesides
  <2>3. Sent(r, l, t, D) /\ (t = QueryTarget => WatchedFrom(r.server.watching, token))
    BY <1>3, <2>1, <2>2, SendsWatch
  <2> HIDE DEF r
  <2>3a. /\ Appended(r.server.wire, s.server.wire, TargetIds)
         /\ t # QueryTarget => Aside(r, s)
    BY <1>3, <1>4a, <2>3, AsideTwice DEF Sent
  <2>3b. t = QueryTarget => ListenedFrom(r, token)
    BY <1>2, <1>3, <2>3 DEF Sent, ListenedFrom
  <2>4. Connected(r.client, r.server)
    BY <1>2, <1>3, <1>5, <2>3 DEF Sent, SameBesides, Connected
  <2> QED BY <1>2, <1>3, <1>4, <1>5, <2>3, <2>3a, <2>3b, <2>4 DEF Sent, SameBesides, Moved
<1>6. CASE ~s.client.open
  <2>1. Connected(l.client, l.server) /\ l.client.agg = NewAggregator
    BY <1>3, <1>6 DEF Connected, SameBesides
  <2>2. Appended(l.server.wire, s.server.wire, TargetIds)
    BY <1>3 DEF Appended
  <2>3. t = QueryTarget => ListenedFrom(l, token)
    BY <1>2, <1>3, <1>6 DEF ListenedFrom, SameBesides
  <2> QED BY <1>2, <1>3, <1>4, <1>4a, <1>6, <2>1, <2>2, <2>3 DEF Moved
<1> QED BY <1>5, <1>6

LEMMA StopsListening ==
  ASSUME NEW s \in Steps, NEW t \in TargetIds, Connected(s.client, s.server)
  PROVE  Moved(RemoteStopListening(s, t), s, t, DOMAIN s.client.targets \ {t})
<1> DEFINE targets == Without(s.client.targets, t)
           l == [s EXCEPT !.client.targets = targets]
           D == DOMAIN s.client.targets \ {t}
           r == SendUnwatchRequest(l, t)
<1>1. targets \in Partial(TargetIds, Versions)
  BY StepTypes, WithoutType
<1>2. DOMAIN targets = D
  BY DEF Without, Restrict
<1>2a. t # QueryTarget => QuerySame(targets, s.client.targets)
  BY DEF QuerySame, Without, Restrict
<1> HIDE DEF targets
<1>3. /\ l \in Steps /\ l.client.targets = targets /\ l.client.agg = s.client.agg
      /\ SameBesides(l.client, s.client) /\ l.disk = s.disk /\ l.server = s.server
  BY <1>1, TargetsChanged
<1>4. RemoteStopListening(s, t) = IF s.client.open THEN r ELSE l
  BY DEF RemoteStopListening, l, targets
<1> HIDE DEF l
<1>4a. t # QueryTarget => Aside(l, s)
  BY <1>2a, <1>3, AsideTargets
<1>5. CASE s.client.open
  <2>1. Linked(l.client.agg, l.server.wire, DOMAIN s.client.targets)
    BY <1>3, <1>5 DEF Connected
  <2>2. Sent(r, l, t, D)
    BY <1>3, <2>1, SendsUnwatch
  <2> HIDE DEF r
  <2>2a. /\ Appended(r.server.wire, s.server.wire, TargetIds)
         /\ t # QueryTarget => Aside(r, s)
    BY <1>3, <1>4a, <2>2, AsideTwice DEF Sent
  <2>3. Connected(r.client, r.server)
    BY <1>2, <1>3, <1>5, <2>2 DEF Sent, SameBesides, Connected
  <2> QED BY <1>2, <1>3, <1>4, <1>5, <2>2, <2>2a, <2>3 DEF Sent, SameBesides, Moved
<1>6. CASE ~s.client.open
  <2>1. Connected(l.client, l.server) /\ l.client.agg = NewAggregator
    BY <1>3, <1>6 DEF Connected, SameBesides
  <2>2. Appended(l.server.wire, s.server.wire, TargetIds)
    BY <1>3 DEF Appended
  <2> QED BY <1>2, <1>3, <1>4, <1>4a, <1>6, <2>1, <2>2 DEF Moved
<1> QED BY <1>5, <1>6

LEMMA MovedFits ==
  ASSUME NEW s \in Steps, NEW r, NEW t, NEW D, Moved(r, s, t, D),
         NEW meta, Fits(s.client.agg, meta), NEW now,
         SameKeysBut(now, meta, t)
  PROVE  Fits(r.client.agg, now)
<1>1. CASE s.client.open
  BY <1>1, StepTypes, RequestFits DEF Moved
<1>2. CASE ~s.client.open
  <2>1. r.client.agg = NewAggregator
    BY <1>2 DEF Moved
  <2>2. DOMAIN r.client.agg.states = {}
    BY <2>1, PartialEmpty DEF NewAggregator
  <2> QED BY <2>2 DEF Fits
<1> QED BY <1>1, <1>2

LEMMA MetaFacts ==
  ASSUME NEW c
  PROVE  /\ DOMAIN Meta(c).keys = DOMAIN c.targets
         /\ \A t \in DOMAIN c.targets :
              Meta(c).keys[t] = IF t = QueryTarget THEN c.view.synced
                                ELSE IF c.resolving[t].received THEN {c.resolving[t].key}
                                ELSE {}
         /\ DOMAIN Meta(c).lookup = DOMAIN c.resolving
         /\ \A t \in DOMAIN c.resolving : Meta(c).lookup[t] = c.resolving[t].key
  BY DEF Meta

LEMMA MetaType ==
  ASSUME NEW s \in Steps, TargetsMatch(s.client)
  PROVE  Meta(s.client) \in Metas
<1> DEFINE c == s.client
           keys == [t \in DOMAIN c.targets |->
                      IF t = QueryTarget THEN c.view.synced
                      ELSE IF c.resolving[t].received THEN {c.resolving[t].key} ELSE {}]
           lookup == [t \in DOMAIN c.resolving |-> c.resolving[t].key]
<1>1. /\ c.targets \in Partial(TargetIds, Versions) /\ c.view \in Views
      /\ c.resolving \in Partial(LookupIds, Lookups)
  BY StepTypes
<1>2. /\ DOMAIN c.targets \in SUBSET TargetIds /\ IsFiniteSet(DOMAIN c.targets)
      /\ DOMAIN c.resolving \in SUBSET LookupIds /\ IsFiniteSet(DOMAIN c.resolving)
      /\ \A t \in DOMAIN c.resolving : c.resolving[t].key \in Docs
      /\ c.view.synced \in SUBSET Docs
  <2> HIDE DEF c
  <2>1. \A t \in DOMAIN c.resolving : c.resolving[t] \in Lookups
    BY <1>1, PartialIs
  <2>2. c.view.synced \in SUBSET Docs
    BY <1>1 DEF Views
  <2> QED BY <1>1, <2>1, <2>2, PartialIs DEF Lookups
<1>3. \A t \in DOMAIN c.targets : t # QueryTarget => t \in DOMAIN c.resolving
  BY DEF TargetsMatch
<1> HIDE DEF c
<1>4. keys \in [DOMAIN c.targets -> SUBSET Docs]
  BY <1>2, <1>3
<1>5. lookup \in [DOMAIN c.resolving -> Docs]
  BY <1>2
<1>6. DOMAIN keys \ {QueryTarget} \subseteq DOMAIN lookup
  BY <1>3
<1>7. Meta(c) = [keys |-> keys, lookup |-> lookup]
  BY DEF Meta
<1> HIDE DEF keys, lookup
<1>8. keys \in Partial(TargetIds, SUBSET Docs) /\ lookup \in Partial(LookupIds, Docs)
  BY <1>2, <1>4, <1>5, PartialMade
<1>9. Meta(c) \in Metas
  BY <1>6, <1>7, <1>8 DEF Metas
<1> QED BY <1>9 DEF c

\* There is always an id for the next lookup, and it is new.
LEMMA NextIdFresh ==
  ASSUME ~IsFiniteSet(LookupIds), NEW s \in Steps
  PROVE  /\ NextId(s) \in LookupIds /\ NextId(s) \in TargetIds /\ NextId(s) # QueryTarget
         /\ NextId(s) \notin DOMAIN s.client.targets
         /\ NextId(s) \notin DOMAIN s.client.resolving
         /\ NotRefused(s.server.wire, NextId(s))
<1> DEFINE w == s.server.wire
           remembered == UNION {DOMAIN s.client.targets, DOMAIN s.client.agg.states,
                                DOMAIN s.client.resolving, DOMAIN s.server.watching}
           OnWire(t) == \E m \in ToSet(w) : m.what \notin {"doc", "snapshot"} /\ m.target = t
           f == [i \in 1 .. Len(w) |->
                   IF w[i].what \in {"doc", "snapshot"} THEN 0 ELSE w[i].target]
           wired == {f[i] : i \in 1 .. Len(w)}
           free == {t \in LookupIds \ remembered : ~OnWire(t)}
<1>1. /\ IsFiniteSet(DOMAIN s.client.targets) /\ IsFiniteSet(DOMAIN s.client.agg.states)
      /\ IsFiniteSet(DOMAIN s.client.resolving) /\ IsFiniteSet(DOMAIN s.server.watching)
  <2>1. s.client.agg.states \in Partial(TargetIds, TargetStates)
    BY StepTypes DEF Aggregators
  <2> QED BY <2>1, StepTypes, PartialIs
<1>2. IsFiniteSet(remembered)
  <2> DEFINE A == DOMAIN s.client.targets
             B == DOMAIN s.client.agg.states
             C == DOMAIN s.client.resolving
             D == DOMAIN s.server.watching
  <2>1. remembered = (A \cup B) \cup (C \cup D)
    OBVIOUS
  <2> HIDE DEF A, B, C, D, remembered
  <2>2. IsFiniteSet(A) /\ IsFiniteSet(B) /\ IsFiniteSet(C) /\ IsFiniteSet(D)
    BY <1>1 DEF A, B, C, D
  <2>3. IsFiniteSet(A \cup B) /\ IsFiniteSet(C \cup D)
    BY <2>2, FS_Union
  <2> QED BY <2>1, <2>3, FS_Union
<1>3. w \in Seq(Messages) /\ Len(w) \in Nat /\ DOMAIN w = 1 .. Len(w)
  BY StepTypes
<1>4. IsFiniteSet(wired)
  <2>1. IsFiniteSet(1 .. Len(w))
    BY <1>3, FS_Interval
  <2>2. f \in Surjection(1 .. Len(w), wired)
    BY DEF Surjection
  <2> HIDE DEF f, wired
  <2> QED BY <2>1, <2>2, FS_Surjection
<1>5. \A t : t # 0 /\ OnWire(t) => t \in wired
  <2> SUFFICES ASSUME NEW t, NEW m \in ToSet(w), m.what \notin {"doc", "snapshot"}, m.target = t
               PROVE  t \in wired
    OBVIOUS
  <2>1. PICK i \in DOMAIN w : w[i] = m
    BY DEF ToSet
  <2>2. f[i] = t
    BY <1>3, <2>1
  <2> HIDE DEF f
  <2> QED BY <1>3, <2>1, <2>2
<1>6. free # {}
  <2>1. SUFFICES ASSUME free = {} PROVE FALSE
    OBVIOUS
  <2>2. \A t \in LookupIds : t # 0
    BY LookupAssumption
  <2> HIDE DEF remembered, wired, OnWire
  <2>3. LookupIds \in SUBSET (remembered \cup wired)
    BY <1>5, <2>1, <2>2
  <2>4. IsFiniteSet(remembered \cup wired)
    BY <1>2, <1>4, FS_Union
  <2> QED BY <2>3, <2>4, FS_Subset
<1>7. free \in SUBSET Nat
  BY LookupAssumption
<1>8. NextId(s) = Min(free)
  BY DEF NextId
<1> HIDE DEF free
<1>9. NextId(s) \in free
  BY <1>6, <1>7, <1>8, LeastNumber DEF Min
<1>10. /\ NextId(s) \in LookupIds /\ NextId(s) \notin DOMAIN s.client.targets
       /\ NextId(s) \notin DOMAIN s.client.resolving /\ ~OnWire(NextId(s))
  BY <1>9 DEF free
<1>11. NotRefused(w, NextId(s))
  <2> SUFFICES ASSUME NEW i \in DOMAIN w, w[i].what = "refused", w[i].target = NextId(s)
               PROVE  FALSE
    BY DEF NotRefused
  <2>1. w[i] \in ToSet(w)
    BY DEF ToSet
  <2> QED BY <1>10, <2>1
<1> QED BY <1>10, <1>11, LookupAssumption DEF TargetIds, QueryTarget

\* What the lookups leave alone.
Looks(r, s) ==
  /\ r.client.open = s.client.open /\ r.client.listening = s.client.listening
  /\ r.client.view = s.client.view /\ r.client.token = s.client.token
  /\ r.client.limboFree = s.client.limboFree /\ r.disk = s.disk

Kept(r, s) == Looks(r, s) /\ Aside(r, s)

LEMMA KeptItself ==
  ASSUME NEW s
  PROVE  Kept(s, s)
  BY AsideItself DEF Kept, Looks

LEMMA KeptTwice ==
  ASSUME NEW q, NEW r, NEW s, Kept(q, r), Kept(r, s)
  PROVE  Kept(q, s)
<1>1. Aside(q, s)
  BY AsideTwice DEF Kept
<1> QED BY <1>1 DEF Kept, Looks

\* The lookup that PumpOne starts.
StartLookup(s) ==
  LET t == NextId(s)
      d == Head(s.client.enqueued)
  IN  RemoteListen([s EXCEPT !.client.enqueued = Tail(@),
                             !.client.resolving = With(@, t, [key |-> d, received |-> FALSE])],
                   t, 0)

Starts(r, s, limbo) ==
  /\ Whole(r, limbo) /\ Kept(r, s) /\ r.client.enqueued = Tail(s.client.enqueued)
  /\ Cardinality(DOMAIN r.client.resolving) = Cardinality(DOMAIN s.client.resolving) + 1

LEMMA LookupStarts ==
  ASSUME ~IsFiniteSet(LookupIds), NEW s, NEW limbo, Whole(s, limbo),
         s.client.enqueued # <<>>
  PROVE  Starts(StartLookup(s), s, limbo)
<1> DEFINE t == NextId(s)
           d == Head(s.client.enqueued)
           mid == [s EXCEPT !.client.enqueued = Tail(@),
                            !.client.resolving = With(@, t, [key |-> d, received |-> FALSE])]
           r == RemoteListen(mid, t, 0)
           queue == Tail(s.client.enqueued)
           lookup == [key |-> d, received |-> FALSE]
           resolving == With(s.client.resolving, t, lookup)
           c == [s.client EXCEPT !.enqueued = queue, !.resolving = resolving]
<1>0. s \in Steps
  BY DEF Whole
<1> HIDE DEF t
<1>1. /\ t \in LookupIds /\ t \in TargetIds /\ t # QueryTarget
      /\ t \notin DOMAIN s.client.targets /\ t \notin DOMAIN s.client.resolving
      /\ NotRefused(s.server.wire, t)
  BY <1>0, NextIdFresh DEF t
<1>2. /\ queue \in Seq(Docs) /\ d \in Docs
      /\ d \in ToSet(s.client.enqueued) /\ ToSet(queue) = ToSet(s.client.enqueued) \ {d}
      /\ IsOneToOne(queue)
  <2> DEFINE e == s.client.enqueued
  <2>0. e \in Seq(Docs) /\ IsOneToOne(e)
    BY <1>0, StepTypes DEF Whole, Queued
  <2> HIDE DEF e
  <2>1. /\ Tail(e) \in Seq(Docs) /\ Head(e) = e[1] /\ 1 \in DOMAIN e
        /\ Len(e) \in Nat /\ DOMAIN e = 1 .. Len(e) /\ DOMAIN Tail(e) = 1 .. Len(e) - 1
        /\ \A i \in DOMAIN Tail(e) : i + 1 \in DOMAIN e /\ Tail(e)[i] = e[i + 1]
        /\ \A i \in DOMAIN e : i # 1 => i - 1 \in DOMAIN Tail(e) /\ Tail(e)[i - 1] = e[i]
    BY <2>0, TailFacts DEF e
  <2>2. d = e[1] /\ d \in Docs /\ d \in ToSet(e)
    BY <2>0, <2>1 DEF e, ToSet
  <2>3. ToSet(Tail(e)) \subseteq ToSet(e) \ {d}
    <3> SUFFICES ASSUME NEW i \in DOMAIN Tail(e) PROVE Tail(e)[i] \in ToSet(e) \ {d}
      BY DEF ToSet
    <3>1. i + 1 \in DOMAIN e /\ i + 1 # 1 /\ Tail(e)[i] = e[i + 1]
      BY <2>1
    <3> QED BY <2>0, <2>1, <2>2, <3>1 DEF IsOneToOne, ToSet
  <2>4. ToSet(e) \ {d} \subseteq ToSet(Tail(e))
    BY <2>1, <2>2 DEF ToSet
  <2>5. IsOneToOne(Tail(e))
    <3> SUFFICES ASSUME NEW i \in DOMAIN Tail(e), NEW j \in DOMAIN Tail(e), Tail(e)[i] = Tail(e)[j]
                 PROVE  i = j
      BY DEF IsOneToOne
    <3>1. i + 1 = j + 1 /\ i \in Nat /\ j \in Nat
      BY <2>0, <2>1 DEF IsOneToOne
    <3> QED BY <3>1
  <2> QED BY <2>1, <2>2, <2>3, <2>4, <2>5 DEF e
<1> HIDE DEF d
<1>3. lookup \in Lookups /\ lookup.key = d
  BY <1>2 DEF Lookups
<1> HIDE DEF lookup
<1>4. resolving \in Partial(LookupIds, Lookups)
  <2>1. s.client.resolving \in Partial(LookupIds, Lookups)
    BY <1>0, StepTypes
  <2> QED BY <1>1, <1>3, <2>1, WithType
<1>5. /\ DOMAIN resolving = DOMAIN s.client.resolving \cup {t} /\ resolving[t] = lookup
      /\ \A u \in DOMAIN s.client.resolving : resolving[u] = s.client.resolving[u]
  BY <1>1 DEF With
<1>6. Cardinality(DOMAIN resolving) = Cardinality(DOMAIN s.client.resolving) + 1
  <2>1. s.client.resolving \in Partial(LookupIds, Lookups)
    BY <1>0, StepTypes
  <2>2. IsFiniteSet(DOMAIN s.client.resolving)
    BY <2>1, PartialIs
  <2> HIDE DEF resolving
  <2> QED BY <1>1, <1>5, <2>2, FS_AddElement
<1> HIDE DEF resolving, queue
<1>7. /\ c \in Clients /\ c.enqueued = queue /\ c.resolving = resolving
      /\ c.agg = s.client.agg /\ c.open = s.client.open /\ c.targets = s.client.targets
      /\ c.view = s.client.view /\ c.listening = s.client.listening
      /\ c.token = s.client.token /\ c.limboFree = s.client.limboFree
  BY <1>0, <1>2, <1>4, StepTypes DEF Clients
<1>8. mid = [s EXCEPT !.client = c]
  BY <1>0 DEF Steps, queue, resolving, lookup, Clients, d, t
<1> HIDE DEF c, mid
<1>9. mid \in Steps /\ mid.client = c /\ mid.disk = s.disk /\ mid.server = s.server
  BY <1>0, <1>7, <1>8 DEF Steps
<1>10. Connected(mid.client, mid.server)
  BY <1>7, <1>9 DEF Connected, Whole
<1>11. t \in DOMAIN mid.client.resolving /\ NotRefused(mid.server.wire, t) /\ 0 \in Versions
  BY <1>1, <1>5, <1>7, <1>9, BoundAssumption DEF Versions
<1>12. Moved(r, mid, t, DOMAIN mid.client.targets \cup {t})
  BY <1>1, <1>9, <1>10, <1>11, Listens
<1> HIDE DEF r
<1>13. /\ r \in Steps /\ r.disk = s.disk /\ Connected(r.client, r.server)
       /\ DOMAIN r.client.targets = DOMAIN s.client.targets \cup {t}
       /\ r.client.open = s.client.open /\ r.client.listening = s.client.listening
       /\ r.client.view = s.client.view /\ r.client.token = s.client.token
       /\ r.client.limboFree = s.client.limboFree
       /\ r.client.enqueued = queue /\ r.client.resolving = resolving
  BY <1>7, <1>9, <1>12 DEF Moved, SameBesides
<1>14. TargetsMatch(r.client)
  BY <1>5, <1>13 DEF TargetsMatch, Whole
<1>15. Fits(r.client.agg, Meta(r.client))
  <2> DEFINE now == Meta(r.client)
             meta == Meta(s.client)
  <2>1. DOMAIN now.keys = DOMAIN s.client.targets \cup {t} /\ DOMAIN meta.keys = DOMAIN s.client.targets
    BY <1>13, MetaFacts
  <2>2. \A u \in DOMAIN s.client.targets : u # QueryTarget => u \in DOMAIN s.client.resolving
    BY DEF Whole, TargetsMatch
  <2>3. \A u \in DOMAIN s.client.targets : now.keys[u] = meta.keys[u]
    <3> SUFFICES ASSUME NEW u \in DOMAIN s.client.targets PROVE now.keys[u] = meta.keys[u]
      OBVIOUS
    <3>1. u \in DOMAIN r.client.targets /\ r.client.view = s.client.view
      BY <1>13
    <3>2. u # QueryTarget => r.client.resolving[u] = s.client.resolving[u]
      BY <1>5, <1>13, <2>2
    <3>3. now.keys[u] = IF u = QueryTarget THEN r.client.view.synced
                        ELSE IF r.client.resolving[u].received THEN {r.client.resolving[u].key}
                        ELSE {}
      BY <3>1, MetaFacts
    <3>4. meta.keys[u] = IF u = QueryTarget THEN s.client.view.synced
                         ELSE IF s.client.resolving[u].received THEN {s.client.resolving[u].key}
                         ELSE {}
      BY MetaFacts
    <3> HIDE DEF now, meta
    <3> QED BY <3>1, <3>2, <3>3, <3>4
  <2>4. SameKeysBut(now, meta, t)
    BY <2>1, <2>3 DEF SameKeysBut
  <2>5. Fits(mid.client.agg, meta)
    BY <1>7, <1>9 DEF Whole
  <2> HIDE DEF now, meta
  <2>6. Fits(r.client.agg, now)
    BY <1>9, <1>12, <2>4, <2>5, MovedFits
  <2> QED BY <2>6 DEF now
<1>16. Queued(r.client, limbo)
  <2>1. /\ \A u \in DOMAIN s.client.resolving : s.client.resolving[u].key # d
        /\ Resolved(s.client) \cap ToSet(s.client.enqueued) = {}
        /\ Resolved(s.client) \cup ToSet(s.client.enqueued) \subseteq limbo
        /\ \A t1, u \in DOMAIN s.client.resolving :
             s.client.resolving[t1].key = s.client.resolving[u].key => t1 = u
    BY <1>2 DEF Whole, Queued, Resolved
  <2>1a. \A u \in DOMAIN resolving :
           /\ u # t => u \in DOMAIN s.client.resolving
           /\ resolving[u].key = IF u = t THEN d ELSE s.client.resolving[u].key
    BY <1>1, <1>3, <1>5
  <2>2. Resolved(r.client) = Resolved(s.client) \cup {d}
    <3>1. Resolved(r.client) = {resolving[u].key : u \in DOMAIN resolving}
      BY <1>13 DEF Resolved
    <3>2. {resolving[u].key : u \in DOMAIN resolving}
            = {s.client.resolving[u].key : u \in DOMAIN s.client.resolving} \cup {d}
      BY <1>1, <1>5, <2>1a
    <3> QED BY <3>1, <3>2 DEF Resolved
  <2>3. \A t1, u \in DOMAIN r.client.resolving :
          r.client.resolving[t1].key = r.client.resolving[u].key => t1 = u
    <3> SUFFICES ASSUME NEW t1 \in DOMAIN resolving, NEW u \in DOMAIN resolving,
                        resolving[t1].key = resolving[u].key
                 PROVE  t1 = u
      BY <1>13
    <3> QED BY <2>1, <2>1a
  <2> QED BY <1>2, <1>13, <2>1, <2>2, <2>3 DEF Queued
<1>17. Whole(r, limbo)
  BY <1>13, <1>14, <1>15, <1>16 DEF Whole
<1>18. Aside(r, s)
  <2>1. Aside(r, mid)
    BY <1>1, <1>12 DEF Moved
  <2>2. Aside(mid, s)
    BY <1>7, <1>9, AsideTargets DEF QuerySame
  <2> QED BY <2>1, <2>2, AsideTwice
<1>19. Starts(r, s, limbo)
  BY <1>6, <1>13, <1>17, <1>18 DEF Kept, Looks, queue, Starts
<1> QED BY <1>19 DEF r, mid, t, d, StartLookup

LEMMA PumpsOne ==
  ASSUME ~IsFiniteSet(LookupIds), NEW s, NEW limbo, Whole(s, limbo), Pumpable(s.client)
  PROVE  Sound(PumpOne(s), limbo) /\ Kept(PumpOne(s), s)
<1> DEFINE n == Cardinality(DOMAIN s.client.resolving)
<1>0. s \in Steps
  BY DEF Whole
<1>1. n \in Nat /\ n <= MaxLookups /\ MaxLookups \in Nat
  <2>1. s.client.resolving \in Partial(LookupIds, Lookups)
    BY <1>0, StepTypes
  <2>2. n \in Nat
    BY <2>1, PartialIs, FS_CardinalityType
  <2> QED BY <2>2, LookupAssumption DEF Pumpable
<1>2. CASE s.client.enqueued = <<>> \/ n >= MaxLookups
  <2>1. PumpOne(s) = s
    BY <1>2 DEF PumpOne
  <2>2. Pumped(s.client)
    BY <1>1, <1>2 DEF Pumped
  <2> QED BY <2>1, <2>2, KeptItself DEF Sound
<1>3. CASE ~(s.client.enqueued = <<>> \/ n >= MaxLookups)
  <2> DEFINE r == StartLookup(s)
  <2>1. PumpOne(s) = r
    BY <1>3 DEF PumpOne, StartLookup
  <2>2. /\ Whole(r, limbo) /\ Kept(r, s) /\ r.client.enqueued = Tail(s.client.enqueued)
        /\ Cardinality(DOMAIN r.client.resolving) = n + 1
    BY <1>3, LookupStarts DEF Starts
  <2> HIDE DEF r
  <2>3. Pumped(r.client)
    <3>1. s.client.enqueued \in Seq(Docs)
      BY <1>0, StepTypes
    <3>2. r.client.enqueued # <<>> => Len(s.client.enqueued) > 1
      BY <1>3, <2>2, <3>1
    <3>3. Len(s.client.enqueued) > 1 => n + 1 >= MaxLookups
      BY <3>1 DEF Pumpable
    <3>4. n + 1 <= MaxLookups
      BY <1>1, <1>3
    <3> QED BY <1>1, <2>2, <3>2, <3>3, <3>4 DEF Pumped
  <2> QED BY <2>1, <2>2, <2>3 DEF Sound
<1> QED BY <1>2, <1>3

LEMMA PumpedPumpable ==
  ASSUME NEW s \in Steps, Pumped(s.client)
  PROVE  Pumpable(s.client)
<1>1. Cardinality(DOMAIN s.client.resolving) \in Nat
  <2>1. s.client.resolving \in Partial(LookupIds, Lookups)
    BY StepTypes
  <2> QED BY <2>1, PartialIs, FS_CardinalityType
<1>2. s.client.enqueued = <<>> => Len(s.client.enqueued) = 0
  OBVIOUS
<1> QED BY <1>1, <1>2, LookupAssumption DEF Pumped, Pumpable

\* PumpEnqueuedLimboResolutions.
LEMMA Pumps ==
  ASSUME ~IsFiniteSet(LookupIds), NEW s, NEW limbo, Whole(s, limbo), Pumpable(s.client)
  PROVE  Sound(Pump(s), limbo) /\ Kept(Pump(s), s)
<1> DEFINE Done == {r \in Steps : Sound(r, limbo) /\ Kept(r, s)}
           family == [T \in SUBSET Docs |-> IF T = {} THEN Done \cup {s} ELSE Done]
<1>0. s \in Steps
  BY DEF Whole
<1>1. \A r \in Done \cup {s} : PumpOne(r) \in Done
  <2> SUFFICES ASSUME NEW r \in Done \cup {s} PROVE PumpOne(r) \in Done
    OBVIOUS
  <2>1. Whole(r, limbo) /\ Pumpable(r.client) /\ Kept(r, s)
    BY PumpedPumpable, KeptItself DEF Sound
  <2>2. Sound(PumpOne(r), limbo) /\ Kept(PumpOne(r), r)
    BY <2>1, PumpsOne
  <2>3. PumpOne(r) \in Steps /\ Kept(PumpOne(r), s)
    BY <2>1, <2>2, KeptTwice DEF Sound, Whole
  <2> QED BY <2>2, <2>3
<1>2. \A T \in SUBSET Docs : \A x \in T : \A r \in family[T \ {x}] : PumpOne(r) \in family[T]
  <2> SUFFICES ASSUME NEW T \in SUBSET Docs, NEW x \in T, NEW r \in family[T \ {x}]
               PROVE  PumpOne(r) \in family[T]
    OBVIOUS
  <2>1. r \in Done \cup {s} /\ family[T] = Done
    OBVIOUS
  <2> HIDE DEF family, Done
  <2> QED BY <1>1, <2>1
<1>3. s \in family[{}] /\ family[Docs] = IF Docs = {} THEN Done \cup {s} ELSE Done
  OBVIOUS
<1>4. Pump(s) \in family[Docs]
  <2> HIDE DEF family
  <2> QED BY <1>2, <1>3, DocsAssumption, PumpFold
<1>5. CASE Docs # {}
  BY <1>3, <1>4, <1>5
<1>6. CASE Docs = {}
  <2>1. s.client.enqueued = <<>>
    BY <1>0, <1>6, StepTypes, EmptySeq
  <2>2. Sound(s, limbo) /\ Kept(s, s)
    BY <2>1, KeptItself DEF Sound, Pumped, Pumpable
  <2> QED BY <1>3, <1>4, <1>6, <2>2
<1> QED BY <1>5, <1>6

-----------------------------------------------------------------------------
(* Documents in limbo.                                                     *)

\* A step with another queue.
Queueing(r, s, queue) ==
  /\ Kept(r, s) /\ r.client.enqueued = queue /\ r.client.resolving = s.client.resolving
  /\ r.client.targets = s.client.targets /\ r.client.agg = s.client.agg
  /\ r.server = s.server

LEMMA QueueChanges ==
  ASSUME NEW s, NEW limbo, Whole(s, limbo), NEW queue \in Seq(Docs), IsOneToOne(queue),
         NEW now, Resolved(s.client) \cap ToSet(queue) = {},
         Resolved(s.client) \cup ToSet(queue) \subseteq now
  PROVE  /\ Whole([s EXCEPT !.client.enqueued = queue], now)
         /\ Queueing([s EXCEPT !.client.enqueued = queue], s, queue)
<1> DEFINE c == [s.client EXCEPT !.enqueued = queue]
           r == [s EXCEPT !.client = c]
<1>0. s \in Steps
  BY DEF Whole
<1>1. /\ c \in Clients /\ c.enqueued = queue /\ c.resolving = s.client.resolving
      /\ c.agg = s.client.agg /\ c.open = s.client.open /\ c.targets = s.client.targets
      /\ c.view = s.client.view /\ c.listening = s.client.listening
      /\ c.token = s.client.token /\ c.limboFree = s.client.limboFree
  BY <1>0, StepTypes DEF Clients
<1>2. r = [s EXCEPT !.client.enqueued = queue]
  BY <1>0 DEF Steps
<1> HIDE DEF c
<1>3. r \in Steps /\ r.client = c /\ r.disk = s.disk /\ r.server = s.server
  BY <1>0, <1>1 DEF Steps
<1> HIDE DEF r
<1>4. Meta(r.client) = Meta(s.client)
  BY <1>1, <1>3 DEF Meta
<1>5. TargetsMatch(r.client) /\ Connected(r.client, r.server)
  BY <1>1, <1>3 DEF Whole, TargetsMatch, Connected
<1>6. Fits(r.client.agg, Meta(r.client))
  BY <1>1, <1>3, <1>4 DEF Whole
<1>7. Queued(r.client, now)
  BY <1>1, <1>3 DEF Whole, Queued, Resolved
<1>7a. Aside(r, s)
  BY <1>1, <1>3, AsideTargets DEF QuerySame
<1>8. Whole(r, now) /\ Queueing(r, s, queue)
  BY <1>1, <1>3, <1>5, <1>6, <1>7, <1>7a DEF Whole, Queueing, Kept, Looks
<1> QED BY <1>2, <1>8

\* TrackLimboChange.
LEMMA Tracks ==
  ASSUME ~IsFiniteSet(LookupIds), NEW s, NEW limbo, Sound(s, limbo), NEW d \in Docs
  PROVE  Sound(TrackLimboChange(s, d), limbo \cup {d}) /\ Kept(TrackLimboChange(s, d), s)
<1>0. s \in Steps /\ Whole(s, limbo)
  BY DEF Sound, Whole
<1>1. CASE d \in Resolved(s.client) \cup ToSet(s.client.enqueued)
  <2>1. TrackLimboChange(s, d) = s
    BY <1>1 DEF TrackLimboChange
  <2>2. Sound(s, limbo \cup {d})
    BY DEF Sound, Whole, Queued
  <2> QED BY <2>1, <2>2, KeptItself
<1>2. CASE d \notin Resolved(s.client) \cup ToSet(s.client.enqueued)
  <2> DEFINE e == s.client.enqueued
             queue == Append(e, d)
             r == [s EXCEPT !.client.enqueued = queue]
  <2>0. e \in Seq(Docs) /\ IsOneToOne(e)
    BY <1>0, StepTypes DEF Whole, Queued
  <2> HIDE DEF e
  <2>1. /\ queue \in Seq(Docs) /\ Len(e) \in Nat /\ DOMAIN e = 1 .. Len(e)
        /\ DOMAIN queue = 1 .. Len(e) + 1
        /\ \A i \in DOMAIN e : i \in DOMAIN queue /\ queue[i] = e[i] /\ i < Len(e) + 1
        /\ Len(e) + 1 \in DOMAIN queue /\ queue[Len(e) + 1] = d
        /\ \A i \in DOMAIN queue : i \in DOMAIN e \/ i = Len(e) + 1
        /\ ToSet(queue) = ToSet(e) \cup {d}
    BY <2>0, AppendFacts
  <2>1a. Len(queue) = Len(e) + 1
    BY <2>0
  <2> HIDE DEF queue
  <2>2. IsOneToOne(queue)
    <3> SUFFICES ASSUME NEW i \in DOMAIN queue, NEW j \in DOMAIN queue, queue[i] = queue[j]
                 PROVE  i = j
      BY DEF IsOneToOne
    <3>1. \A k \in DOMAIN e : queue[k] # d
      BY <1>2, <2>1 DEF e, ToSet
    <3> QED BY <2>0, <2>1, <3>1 DEF IsOneToOne
  <2>3. /\ Resolved(s.client) \cap ToSet(queue) = {}
        /\ Resolved(s.client) \cup ToSet(queue) \subseteq limbo \cup {d}
    BY <1>0, <1>2, <2>1 DEF Whole, Queued, e
  <2>4. Whole(r, limbo \cup {d}) /\ Queueing(r, s, queue)
    BY <1>0, <2>1, <2>2, <2>3, QueueChanges
  <2>5. TrackLimboChange(s, d) = Pump(r)
    <3>1. [s EXCEPT !.client.enqueued = Append(@, d)] = r
      BY <1>0 DEF queue, e, Steps, Clients
    <3> QED BY <1>2, <3>1 DEF TrackLimboChange
  <2> HIDE DEF r
  <2>6. Pumpable(r.client)
    <3>1. Pumped(s.client) /\ Pumpable(s.client)
      BY <1>0, PumpedPumpable DEF Sound
    <3>2. e = <<>> => Len(queue) <= 1
      BY <2>1a
    <3>3. e # <<>> => Cardinality(DOMAIN s.client.resolving) = MaxLookups
      BY <3>1 DEF Pumped, e
    <3> QED BY <2>4, <3>1, <3>2, <3>3, LookupAssumption DEF Pumpable, Queueing
  <2>7. Sound(Pump(r), limbo \cup {d}) /\ Kept(Pump(r), r)
    BY <2>4, <2>6, Pumps
  <2> QED BY <2>4, <2>5, <2>7, KeptTwice DEF Queueing
<1> QED BY <1>1, <1>2

\* The end of a lookup: what RemoveLimboTarget does before it calls Pump.
WithoutLookup(s, t) == [s EXCEPT !.client.resolving = Without(@, t)]

Ends(r, s, t, limbo) ==
  /\ Whole(r, limbo \ {s.client.resolving[t].key}) /\ Looks(r, s)
  /\ r.client.enqueued = s.client.enqueued
  /\ Cardinality(DOMAIN r.client.resolving) = Cardinality(DOMAIN s.client.resolving) - 1

\* r is s after t has left the targets listened to.
Left(r, s, t) ==
  /\ r \in Steps /\ r.disk = s.disk /\ SameBesides(r.client, s.client)
  /\ DOMAIN r.client.targets = DOMAIN s.client.targets \ {t}
  /\ Connected(r.client, r.server)
  /\ \A now : DOMAIN now.keys = DOMAIN s.client.targets \ {t}
             /\ SameKeysBut(now, Meta(s.client), t) => Fits(r.client.agg, now)

LEMMA LookupEnds ==
  ASSUME NEW s, NEW limbo, Whole(s, limbo), NEW t \in DOMAIN s.client.resolving,
         NEW r1, Left(r1, s, t)
  PROVE  Ends(WithoutLookup(r1, t), s, t, limbo) /\ Aside(WithoutLookup(r1, t), r1)
<1> DEFINE r == WithoutLookup(r1, t)
           resolving == Without(s.client.resolving, t)
           d == s.client.resolving[t].key
           c == [r1.client EXCEPT !.resolving = resolving]
<1>0. /\ s \in Steps /\ s.client.resolving \in Partial(LookupIds, Lookups)
      /\ TargetsMatch(s.client) /\ Queued(s.client, limbo)
  BY StepTypes DEF Whole
<1>1. /\ r1 \in Steps /\ r1.disk = s.disk /\ Connected(r1.client, r1.server)
      /\ DOMAIN r1.client.targets = DOMAIN s.client.targets \ {t}
      /\ SameBesides(r1.client, s.client)
  BY DEF Left
<1>2. resolving \in Partial(LookupIds, Lookups)
  BY <1>0, WithoutType
<1>3. /\ DOMAIN resolving = DOMAIN s.client.resolving \ {t}
      /\ \A u \in DOMAIN resolving : resolving[u] = s.client.resolving[u]
  BY DEF Without, Restrict
<1>4. Cardinality(DOMAIN resolving) = Cardinality(DOMAIN s.client.resolving) - 1
  <2>1. IsFiniteSet(DOMAIN s.client.resolving)
    BY <1>0, PartialIs
  <2> HIDE DEF resolving
  <2> QED BY <1>3, <2>1, FS_RemoveElement
<1>5. t \in LookupIds /\ t # QueryTarget
  <2>1. t \in LookupIds
    BY <1>0, PartialIs
  <2> QED BY <2>1, LookupAssumption DEF QueryTarget
<1> HIDE DEF resolving
<1>6. /\ c \in Clients /\ c.enqueued = s.client.enqueued /\ c.resolving = resolving
      /\ c.agg = r1.client.agg /\ c.open = s.client.open /\ c.targets = r1.client.targets
      /\ c.view = s.client.view /\ c.listening = s.client.listening
      /\ c.token = s.client.token /\ c.limboFree = s.client.limboFree
  BY <1>1, <1>2, StepTypes DEF Clients, SameBesides
<1>7. r = [r1 EXCEPT !.client = c]
  BY <1>1 DEF Steps, resolving, Clients, SameBesides, WithoutLookup
<1> HIDE DEF c, r
<1>8. r \in Steps /\ r.client = c /\ r.disk = s.disk /\ r.server = r1.server
  BY <1>1, <1>6, <1>7 DEF Steps
<1>9. Connected(r.client, r.server)
  BY <1>1, <1>6, <1>8 DEF Connected, SameBesides
<1>10. TargetsMatch(r.client)
  BY <1>0, <1>1, <1>3, <1>5, <1>6, <1>8 DEF TargetsMatch
<1>11. Fits(r.client.agg, Meta(r.client))
  <2> DEFINE now == Meta(r.client)
             meta == Meta(s.client)
  <2>1. SameKeysBut(now, meta, t)
    <3> SUFFICES ASSUME NEW u \in DOMAIN now.keys, u # t
                 PROVE  u \in DOMAIN meta.keys /\ now.keys[u] = meta.keys[u]
      BY DEF SameKeysBut
    <3>1. u \in DOMAIN r.client.targets /\ u \in DOMAIN s.client.targets
      BY <1>1, <1>6, <1>8, MetaFacts
    <3>2. u # QueryTarget => r.client.resolving[u] = s.client.resolving[u]
      BY <1>0, <1>3, <1>6, <1>8, <3>1 DEF TargetsMatch
    <3>3. now.keys[u] = IF u = QueryTarget THEN r.client.view.synced
                        ELSE IF r.client.resolving[u].received THEN {r.client.resolving[u].key}
                        ELSE {}
      BY <3>1, MetaFacts
    <3>4. meta.keys[u] = IF u = QueryTarget THEN s.client.view.synced
                         ELSE IF s.client.resolving[u].received THEN {s.client.resolving[u].key}
                         ELSE {}
      BY <3>1, MetaFacts
    <3>5. u \in DOMAIN meta.keys /\ r.client.view = s.client.view
      BY <1>6, <1>8, <3>1, MetaFacts
    <3> HIDE DEF now, meta
    <3> QED BY <3>2, <3>3, <3>4, <3>5
  <2>2. DOMAIN now.keys = DOMAIN s.client.targets \ {t}
    BY <1>1, <1>6, <1>8, MetaFacts
  <2> HIDE DEF now
  <2>3. Fits(r1.client.agg, now)
    BY <2>1, <2>2 DEF Left
  <2> QED BY <1>6, <1>8, <2>3 DEF now
<1>12. Queued(r.client, limbo \ {d})
  <2>1. \A u \in DOMAIN s.client.resolving : s.client.resolving[u].key = d => u = t
    BY <1>0 DEF Queued
  <2>2. d \notin ToSet(s.client.enqueued)
    BY <1>0 DEF Queued, Resolved
  <2>3. Resolved(r.client) = Resolved(s.client) \ {d}
    <3>1. Resolved(r.client) = {resolving[u].key : u \in DOMAIN resolving}
      BY <1>6, <1>8 DEF Resolved
    <3>2. \A u \in DOMAIN resolving : u # t /\ u \in DOMAIN s.client.resolving
                                      /\ resolving[u].key = s.client.resolving[u].key
      BY <1>3
    <3>3. \A u \in DOMAIN s.client.resolving :
            s.client.resolving[u].key # d => u \in DOMAIN resolving
      BY <1>3
    <3> HIDE DEF d
    <3>4. {resolving[u].key : u \in DOMAIN resolving} \subseteq Resolved(s.client) \ {d}
      BY <2>1, <3>2 DEF Resolved
    <3>5. ASSUME NEW u \in DOMAIN s.client.resolving, s.client.resolving[u].key # d
          PROVE  s.client.resolving[u].key \in {resolving[v].key : v \in DOMAIN resolving}
      BY <3>2, <3>3, <3>5
    <3>6. Resolved(s.client) \ {d} \subseteq {resolving[u].key : u \in DOMAIN resolving}
      BY <3>5 DEF Resolved
    <3> QED BY <3>1, <3>4, <3>6
  <2>4. \A t1, u \in DOMAIN r.client.resolving :
          r.client.resolving[t1].key = r.client.resolving[u].key => t1 = u
    <3> SUFFICES ASSUME NEW t1 \in DOMAIN resolving, NEW u \in DOMAIN resolving,
                        resolving[t1].key = resolving[u].key
                 PROVE  t1 = u
      BY <1>6, <1>8
    <3> QED BY <1>0, <1>3 DEF Queued
  <2> QED BY <1>0, <1>6, <1>8, <2>2, <2>3, <2>4 DEF Queued
<1>13. Whole(r, limbo \ {d})
  BY <1>8, <1>9, <1>10, <1>11, <1>12 DEF Whole
<1>14. Aside(r, r1)
  BY <1>6, <1>8, AsideTargets DEF QuerySame
<1>15. Ends(r, s, t, limbo)
  BY <1>4, <1>6, <1>8, <1>13 DEF Looks, Ends
<1> QED BY <1>14, <1>15 DEF r

LEMMA MovedLeft ==
  ASSUME NEW s \in Steps, Fits(s.client.agg, Meta(s.client)), NEW r, NEW t,
         Moved(r, s, t, DOMAIN s.client.targets \ {t})
  PROVE  Left(r, s, t)
<1>1. \A now : SameKeysBut(now, Meta(s.client), t) => Fits(r.client.agg, now)
  BY MovedFits
<1> QED BY <1>1 DEF Moved, Left

\* RemoveLimboTarget.
LEMMA Untracks ==
  ASSUME ~IsFiniteSet(LookupIds), NEW s, NEW limbo, Sound(s, limbo), NEW d
  PROVE  Sound(RemoveLimboTarget(s, d), limbo \ {d}) /\ Kept(RemoveLimboTarget(s, d), s)
<1>0. s \in Steps /\ Whole(s, limbo) /\ Pumped(s.client)
  BY DEF Sound, Whole
<1> DEFINE e == s.client.enqueued
           queue == RemoveFirst(e, d)
           r == [s EXCEPT !.client.enqueued = queue]
           n == Cardinality(DOMAIN s.client.resolving)
<1>1. e \in Seq(Docs) /\ IsOneToOne(e) /\ n \in Nat
  <2>1. s.client.resolving \in Partial(LookupIds, Lookups)
    BY <1>0, StepTypes
  <2> QED BY <1>0, <2>1, StepTypes, PartialIs, FS_CardinalityType DEF Whole, Queued
<1>2. /\ queue \in Seq(Docs) /\ IsOneToOne(queue) /\ ToSet(queue) = ToSet(e) \ {d}
      /\ Len(queue) <= Len(e)
  <2> HIDE DEF e
  <2> QED BY <1>1, RemoveFirstFacts
<1>3. [s EXCEPT !.client.enqueued = RemoveFirst(@, d)] = r
  BY <1>0 DEF Steps, Clients
<1> HIDE DEF queue
<1>4. queue # <<>> => n = MaxLookups
  <2>1. queue # <<>> => e # <<>>
    <3>1. e = <<>> => Len(queue) = 0
      BY <1>1, <1>2
    <3> QED BY <1>2, <3>1, EmptySeq
  <2> QED BY <1>0, <2>1 DEF Pumped
<1>5. /\ Resolved(s.client) \cap ToSet(queue) = {}
      /\ Resolved(s.client) \cup ToSet(queue) \subseteq limbo
  BY <1>0, <1>2 DEF Whole, Queued
<1>6. Whole(r, limbo) /\ Queueing(r, s, queue)
  BY <1>0, <1>2, <1>5, QueueChanges
<1>7. CASE d \notin Resolved(s.client)
  <2>1. RemoveLimboTarget(s, d) = r
    BY <1>3, <1>7 DEF RemoveLimboTarget
  <2>2. Resolved(s.client) \cup ToSet(queue) \subseteq limbo \ {d}
    BY <1>2, <1>5, <1>7
  <2>3. Whole(r, limbo \ {d})
    BY <1>0, <1>2, <1>5, <2>2, QueueChanges
  <2> HIDE DEF r
  <2>4. Pumped(r.client)
    BY <1>0, <1>4, <1>6 DEF Pumped, Queueing
  <2> QED BY <1>6, <2>1, <2>3, <2>4 DEF Sound, Queueing
<1>8. CASE d \in Resolved(s.client)
  <2> DEFINE t == LookupOf(s.client, d)
             r1 == RemoteStopListening(r, t)
             r2 == WithoutLookup(r1, t)
  <2>1. t \in DOMAIN s.client.resolving /\ s.client.resolving[t].key = d
    BY <1>8 DEF LookupOf, Resolved
  <2>2. RemoveLimboTarget(s, d) = Pump(r2)
    BY <1>3, <1>8 DEF RemoveLimboTarget, WithoutLookup
  <2> HIDE DEF t, r
  <2>3. t \in DOMAIN r.client.resolving /\ r.client.resolving[t].key = d
    BY <1>6, <2>1 DEF Queueing
  <2>4. r \in Steps /\ Connected(r.client, r.server)
    BY <1>6 DEF Whole
  <2>5. t \in TargetIds /\ t # QueryTarget
    <3>1. r.client.resolving \in Partial(LookupIds, Lookups)
      BY <2>4, StepTypes
    <3>2. t \in LookupIds
      BY <2>3, <3>1, PartialIs
    <3> QED BY <3>2, LookupAssumption DEF TargetIds, QueryTarget
  <2>6. Moved(r1, r, t, DOMAIN r.client.targets \ {t})
    BY <2>4, <2>5, StopsListening
  <2> HIDE DEF r1
  <2>7. /\ Whole(r2, limbo \ {d}) /\ Kept(r2, r)
        /\ r2.client.enqueued = r.client.enqueued
        /\ Cardinality(DOMAIN r2.client.resolving) = Cardinality(DOMAIN r.client.resolving) - 1
    <3>1. Left(r1, r, t)
      BY <1>6, <2>4, <2>6, MovedLeft DEF Whole
    <3>2. Ends(r2, r, t, limbo) /\ Aside(r2, r1)
      BY <1>6, <2>3, <3>1, LookupEnds
    <3>3. Aside(r2, r)
      BY <2>5, <2>6, <3>2, AsideTwice DEF Moved
    <3> QED BY <2>3, <3>2, <3>3 DEF Ends, Kept
  <2> HIDE DEF r2
  <2>8. Pumpable(r2.client)
    <3>1. Cardinality(DOMAIN r2.client.resolving) = n - 1 /\ r2.client.enqueued = queue
      BY <1>6, <2>7 DEF Queueing
    <3>2. n <= MaxLookups
      BY <1>0 DEF Pumped
    <3>3. queue = <<>> => Len(queue) = 0
      OBVIOUS
    <3> HIDE DEF n
    <3> QED BY <1>1, <1>4, <3>1, <3>2, <3>3, LookupAssumption DEF Pumpable
  <2>9. Sound(Pump(r2), limbo \ {d}) /\ Kept(Pump(r2), r2)
    BY <2>7, <2>8, Pumps
  <2>10. Kept(Pump(r2), r)
    BY <2>7, <2>9, KeptTwice
  <2> QED BY <1>6, <2>2, <2>9, <2>10, KeptTwice DEF Queueing
<1> QED BY <1>7, <1>8

LEMMA UntracksAll ==
  ASSUME ~IsFiniteSet(LookupIds), NEW s, NEW limbo, Sound(s, limbo), NEW docs \in SUBSET Docs
  PROVE  /\ Sound(RemoveLimboTargets(s, docs), limbo \ docs)
         /\ Kept(RemoveLimboTargets(s, docs), s)
<1> DEFINE family == [T \in SUBSET docs |-> {r \in Steps : Sound(r, limbo \ T) /\ Kept(r, s)}]
<1>1. s \in family[{}]
  <2>1. s \in Steps /\ Kept(s, s) /\ limbo \ {} = limbo
    BY KeptItself DEF Sound, Whole
  <2> QED BY <2>1
<1>2. \A T \in SUBSET docs : \A x \in T : \A r \in family[T \ {x}] :
        RemoveLimboTarget(r, x) \in family[T]
  <2> SUFFICES ASSUME NEW T \in SUBSET docs, NEW x \in T, NEW r \in family[T \ {x}]
               PROVE  RemoveLimboTarget(r, x) \in family[T]
    OBVIOUS
  <2>1. r \in Steps /\ Sound(r, limbo \ (T \ {x})) /\ Kept(r, s)
    OBVIOUS
  <2> DEFINE q == RemoveLimboTarget(r, x)
  <2>2. Sound(q, (limbo \ (T \ {x})) \ {x}) /\ Kept(q, r)
    BY <2>1, Untracks
  <2>3. (limbo \ (T \ {x})) \ {x} = limbo \ T
    OBVIOUS
  <2> HIDE DEF q
  <2>4. q \in Steps /\ Sound(q, limbo \ T) /\ Kept(q, s)
    BY <2>1, <2>2, <2>3, KeptTwice DEF Sound, Whole
  <2>5. q \in family[T]
    BY <2>4
  <2> QED BY <2>5 DEF q
<1>3. IsFiniteSet(docs)
  BY DocsAssumption, FS_Subset
<1>4. family[docs] = {r \in Steps : Sound(r, limbo \ docs) /\ Kept(r, s)}
  OBVIOUS
<1> HIDE DEF family
<1>5. RemoveLimboTargets(s, docs) \in family[docs]
  BY <1>1, <1>2, <1>3, DropFold
<1> QED BY <1>4, <1>5

LEMMA TracksAll ==
  ASSUME ~IsFiniteSet(LookupIds), NEW s, NEW limbo, Sound(s, limbo), NEW docs \in SUBSET Docs
  PROVE  /\ Sound(TrackLimboChanges(s, docs), limbo \cup docs)
         /\ Kept(TrackLimboChanges(s, docs), s)
<1> DEFINE family == [T \in SUBSET docs |-> {r \in Steps : Sound(r, limbo \cup T) /\ Kept(r, s)}]
<1>1. s \in family[{}]
  <2>1. s \in Steps /\ Kept(s, s) /\ limbo \cup {} = limbo
    BY KeptItself DEF Sound, Whole
  <2> QED BY <2>1
<1>2. \A T \in SUBSET docs : \A x \in T : \A r \in family[T \ {x}] :
        TrackLimboChange(r, x) \in family[T]
  <2> SUFFICES ASSUME NEW T \in SUBSET docs, NEW x \in T, NEW r \in family[T \ {x}]
               PROVE  TrackLimboChange(r, x) \in family[T]
    OBVIOUS
  <2>1. r \in Steps /\ Sound(r, limbo \cup (T \ {x})) /\ Kept(r, s) /\ x \in Docs
    OBVIOUS
  <2> DEFINE q == TrackLimboChange(r, x)
  <2>2. Sound(q, (limbo \cup (T \ {x})) \cup {x}) /\ Kept(q, r)
    BY <2>1, Tracks
  <2>3. (limbo \cup (T \ {x})) \cup {x} = limbo \cup T
    OBVIOUS
  <2> HIDE DEF q
  <2>4. q \in Steps /\ Sound(q, limbo \cup T) /\ Kept(q, s)
    BY <2>1, <2>2, <2>3, KeptTwice DEF Sound, Whole
  <2>5. q \in family[T]
    BY <2>4
  <2> QED BY <2>5 DEF q
<1>3. IsFiniteSet(docs)
  BY DocsAssumption, FS_Subset
<1>4. family[docs] = {r \in Steps : Sound(r, limbo \cup docs) /\ Kept(r, s)}
  OBVIOUS
<1> HIDE DEF family
<1>5. TrackLimboChanges(s, docs) \in family[docs]
  BY <1>1, <1>2, <1>3, TrackFold
<1> QED BY <1>4, <1>5

\* UpdateTrackedLimboDocuments.
LEMMA TracksLimbo ==
  ASSUME ~IsFiniteSet(LookupIds), NEW old \in SUBSET Docs, NEW new \in SUBSET Docs,
         NEW s, Sound(s, old)
  PROVE  Sound(TrackLimbo(s, old, new), new) /\ Kept(TrackLimbo(s, old, new), s)
<1> DEFINE r == RemoveLimboTargets(s, old \ new)
           q == TrackLimboChanges(r, new \ old)
<1>1. Sound(r, old \ (old \ new)) /\ Kept(r, s)
  BY UntracksAll
<1> HIDE DEF r
<1>2. Sound(q, (old \ (old \ new)) \cup (new \ old)) /\ Kept(q, r)
  BY <1>1, TracksAll
<1>3. (old \ (old \ new)) \cup (new \ old) = new
  OBVIOUS
<1>4. TrackLimbo(s, old, new) = q
  BY DEF TrackLimbo, r
<1> HIDE DEF q
<1> QED BY <1>1, <1>2, <1>3, <1>4, KeptTwice

-----------------------------------------------------------------------------
(* An event reaches the sync engine.                                       *)

\* Nothing but data about the target, and the disk, is different.
SameCore(r, s) ==
  /\ r \in Steps /\ r.server = s.server
  /\ r.client.open = s.client.open /\ r.client.targets = s.client.targets
  /\ r.client.agg = s.client.agg /\ r.client.listening = s.client.listening
  /\ r.client.view = s.client.view /\ r.client.resolving = s.client.resolving
  /\ r.client.enqueued = s.client.enqueued

\* What the listener of the query is shown, and what the disk has of it.
SameShown(r, s) ==
  /\ r.client.listening = s.client.listening /\ r.client.view = s.client.view
  /\ r.disk.cache = s.disk.cache /\ r.disk.keys = s.disk.keys

LEMMA StillFollows ==
  ASSUME NEW s, Follows(s), NEW r, SameShown(r, s)
  PROVE  Follows(r)
BY DEF Follows, SameShown

LEMMA CoreSound ==
  ASSUME NEW s, NEW r, SameCore(r, s), NEW limbo, Sound(s, limbo)
  PROVE  Sound(r, limbo)
<1>1. Meta(r.client) = Meta(s.client)
  BY DEF SameCore, Meta
<1>2. /\ TargetsMatch(r.client) /\ Connected(r.client, r.server) /\ Pumped(r.client)
      /\ Fits(r.client.agg, Meta(r.client))
  BY <1>1 DEF SameCore, Sound, Whole, TargetsMatch, Connected, Pumped
<1>3. Queued(r.client, limbo)
  BY DEF SameCore, Sound, Whole, Queued, Resolved
<1> QED BY <1>2, <1>3 DEF Sound, Whole, SameCore

\* The disk has taken the marks of the client.
Took(r) == r.disk.token = r.client.token /\ r.disk.limboFree = r.client.limboFree

Persisted(r, s, changes) ==
  /\ r.client = s.client /\ r.disk.last = s.disk.last
  /\ Took(r) \/ (r.disk = s.disk /\ changes = {})

LEMMA Persists ==
  ASSUME NEW s \in Steps, NEW oldToken, NEW changes, NEW aged
  PROVE  /\ SameCore(Persist(s, oldToken, changes, aged), s)
         /\ SameShown(Persist(s, oldToken, changes, aged), s)
         /\ Persisted(Persist(s, oldToken, changes, aged), s, changes)
<1> DEFINE k == [s.disk EXCEPT !.token = s.client.token, !.limboFree = s.client.limboFree]
           r == [s EXCEPT !.disk = k]
<1>1. /\ k \in Disks /\ k.cache = s.disk.cache /\ k.keys = s.disk.keys /\ k.last = s.disk.last
      /\ k.token = s.client.token /\ k.limboFree = s.client.limboFree
  BY StepTypes DEF Disks
<1>2. r = [s EXCEPT !.disk.token = s.client.token, !.disk.limboFree = s.client.limboFree]
  BY DEF Steps, Disks
<1> HIDE DEF k
<1>3. r \in Steps /\ r.client = s.client /\ r.server = s.server /\ r.disk = k
  BY <1>1 DEF Steps
<1> HIDE DEF r
<1>4. SameCore(r, s) /\ SameCore(s, s) /\ SameShown(r, s) /\ SameShown(s, s)
  BY <1>1, <1>3 DEF SameCore, SameShown
<1>5. /\ Persist(s, oldToken, changes, aged) \in {r, s}
      /\ Persist(s, oldToken, changes, aged) = r \/ changes = {}
  BY <1>2 DEF Persist
<1>6. Persisted(r, s, changes) /\ (changes = {} => Persisted(s, s, changes))
  BY <1>1, <1>3 DEF Persisted, Took
<1> QED BY <1>4, <1>5, <1>6

Marked(r, s) ==
  /\ r.client.token = s.client.token /\ r.client.limboFree = s.client.token
  /\ r.disk.last = s.disk.last
  /\ Took(r) \/ (r.disk.token = s.disk.token /\ r.disk.limboFree = s.disk.limboFree)

LEMMA MarksLimboFree ==
  ASSUME NEW s \in Steps, NEW aged
  PROVE  /\ SameCore(MarkLimboFree(s, aged), s) /\ SameShown(MarkLimboFree(s, aged), s)
         /\ Marked(MarkLimboFree(s, aged), s)
<1> DEFINE c == [s.client EXCEPT !.limboFree = s.client.token]
           r == [s EXCEPT !.client = c]
           q == Persist(r, s.client.token, {}, aged)
<1>1. /\ c \in Clients /\ c.open = s.client.open /\ c.targets = s.client.targets
      /\ c.agg = s.client.agg /\ c.listening = s.client.listening /\ c.view = s.client.view
      /\ c.resolving = s.client.resolving /\ c.enqueued = s.client.enqueued
      /\ c.token = s.client.token /\ c.limboFree = s.client.token
  BY StepTypes DEF Clients
<1>2. r = [s EXCEPT !.client.limboFree = s.client.token]
  BY DEF Steps
<1> HIDE DEF c
<1>3. r \in Steps /\ r.client = c /\ r.server = s.server /\ r.disk = s.disk
  BY <1>1 DEF Steps
<1> HIDE DEF r
<1>4. SameCore(q, r) /\ SameShown(q, r) /\ Persisted(q, r, {})
  BY <1>3, Persists
<1>5. MarkLimboFree(s, aged) = q
  BY <1>2 DEF MarkLimboFree
<1> HIDE DEF q
<1>6. Marked(q, s)
  BY <1>1, <1>3, <1>4 DEF Marked, Persisted
<1> QED BY <1>1, <1>3, <1>4, <1>5, <1>6 DEF SameCore, SameShown

LEMMA EventFacts ==
  ASSUME NEW event \in Events
  PROVE  /\ event.version \in Versions
         /\ event.mismatches \in SUBSET {QueryTarget}
         /\ event.updates \in Partial(Docs, Updates)
         /\ DOMAIN event.updates \in SUBSET Docs
         /\ \A d \in DOMAIN event.updates : event.updates[d] \in Updates
         /\ DOMAIN event.changes \in SUBSET TargetIds
         /\ \A t \in DOMAIN event.changes : event.changes[t] \in TargetChanges
<1>1. event.updates \in Partial(Docs, Updates) /\ event.changes \in Partial(TargetIds, TargetChanges)
      /\ event.version \in Versions /\ event.mismatches \in SUBSET {QueryTarget}
  BY DEF Events
<1> QED BY <1>1, PartialIs

\* The keys of the target after an event, and those of the view.
KeysAfter(keys, event) ==
  IF QueryTarget \in DOMAIN event.changes
    THEN (keys \ event.changes[QueryTarget].removed) \cup event.changes[QueryTarget].added
    ELSE keys

\* The marks of the target after an event.
TokenAfter(token, event) ==
  IF QueryTarget \notin DOMAIN event.changes THEN token
  ELSE IF QueryTarget \in event.mismatches THEN 0
  ELSE IF event.changes[QueryTarget].token # 0 THEN event.changes[QueryTarget].token
  ELSE token

FreeAfter(limboFree, event) ==
  IF QueryTarget \in DOMAIN event.changes /\ QueryTarget \in event.mismatches THEN 0
  ELSE limboFree

LastAfter(last, event) == IF event.version = 0 THEN last ELSE event.version

SameMarks(r, s) ==
  /\ r.disk.token = s.disk.token /\ r.disk.limboFree = s.disk.limboFree
  /\ r.disk.keys = s.disk.keys

TargetUpdated(r, s, event) ==
  /\ r.disk.last = s.disk.last
  /\ IF s.client.listening
       THEN /\ r.client.token = TokenAfter(s.client.token, event)
            /\ r.client.limboFree = FreeAfter(s.client.limboFree, event)
            /\ Took(r) \/ SameMarks(r, s)
       ELSE r.disk = s.disk

LEMMA UpdatesTarget ==
  ASSUME NEW s \in Steps, NEW event \in Events, NEW aged
  PROVE  LET r == UpdateTarget(s, event, aged)
         IN  /\ SameCore(r, s) /\ r.disk.cache = s.disk.cache
             /\ s.client.listening => r.disk.keys = KeysAfter(s.disk.keys, event)
             /\ TargetUpdated(r, s, event)
<1>1. CASE QueryTarget \notin DOMAIN event.changes \/ ~s.client.listening
  <2>1. UpdateTarget(s, event, aged) = s
    BY <1>1 DEF UpdateTarget
  <2>2. TargetUpdated(s, s, event)
    BY <1>1 DEF TargetUpdated, TokenAfter, FreeAfter, SameMarks
  <2> QED BY <1>1, <2>1, <2>2 DEF SameCore, KeysAfter
<1>2. CASE ~(QueryTarget \notin DOMAIN event.changes \/ ~s.client.listening)
  <2> DEFINE change == event.changes[QueryTarget]
             dropped == [s EXCEPT !.client.token = 0, !.client.limboFree = 0]
             newer == [s EXCEPT !.client.token = change.token]
             told == IF QueryTarget \in event.mismatches THEN dropped
                     ELSE IF change.token # 0 THEN newer ELSE s
             keyed == [told EXCEPT !.disk.keys = (@ \ change.removed) \cup change.added]
             all == change.added \cup change.modified \cup change.removed
  <2>1. /\ change.token \in Versions /\ change.added \in SUBSET Docs
        /\ change.removed \in SUBSET Docs
    BY <1>2, EventFacts DEF TargetChanges
  <2>2. 0 \in Versions
    BY BoundAssumption DEF Versions
  <2> HIDE DEF change
  <2>3. /\ SameCore(dropped, s) /\ dropped.disk = s.disk
        /\ dropped.client.token = 0 /\ dropped.client.limboFree = 0
    <3> DEFINE c == [s.client EXCEPT !.token = 0, !.limboFree = 0]
               r == [s EXCEPT !.client = c]
    <3>1. /\ c \in Clients /\ c.open = s.client.open /\ c.targets = s.client.targets
          /\ c.agg = s.client.agg /\ c.listening = s.client.listening /\ c.view = s.client.view
          /\ c.resolving = s.client.resolving /\ c.enqueued = s.client.enqueued
          /\ c.token = 0 /\ c.limboFree = 0
      BY <2>2, StepTypes DEF Clients
    <3>2. dropped = r
      BY DEF Steps
    <3> HIDE DEF c, dropped
    <3>3. r \in Steps /\ r.client = c /\ r.server = s.server /\ r.disk = s.disk
      BY <3>1 DEF Steps
    <3> HIDE DEF r
    <3> QED BY <3>1, <3>2, <3>3 DEF SameCore
  <2>4. /\ SameCore(newer, s) /\ newer.disk = s.disk
        /\ newer.client.token = change.token /\ newer.client.limboFree = s.client.limboFree
    <3> DEFINE c == [s.client EXCEPT !.token = change.token]
               r == [s EXCEPT !.client = c]
    <3>1. /\ c \in Clients /\ c.open = s.client.open /\ c.targets = s.client.targets
          /\ c.agg = s.client.agg /\ c.listening = s.client.listening /\ c.view = s.client.view
          /\ c.resolving = s.client.resolving /\ c.enqueued = s.client.enqueued
          /\ c.token = change.token /\ c.limboFree = s.client.limboFree
      BY <2>1, StepTypes DEF Clients
    <3>2. newer = r
      BY DEF Steps
    <3> HIDE DEF c, newer
    <3>3. r \in Steps /\ r.client = c /\ r.server = s.server /\ r.disk = s.disk
      BY <3>1 DEF Steps
    <3> HIDE DEF r
    <3> QED BY <3>1, <3>2, <3>3 DEF SameCore
  <2>5. SameCore(s, s)
    BY DEF SameCore
  <2> HIDE DEF dropped, newer
  <2>6. SameCore(told, s) /\ told.disk = s.disk
    BY <2>3, <2>4, <2>5
  <2>6a. /\ told.client.token = TokenAfter(s.client.token, event)
         /\ told.client.limboFree = FreeAfter(s.client.limboFree, event)
    BY <1>2, <2>3, <2>4 DEF TokenAfter, FreeAfter, change
  <2>7. told \in Steps
    BY <2>6 DEF SameCore
  <2>8. UpdateTarget(s, event, aged) = Persist(keyed, s.client.token, all, aged)
    BY <1>2 DEF UpdateTarget, dropped, newer, change
  <2> HIDE DEF told
  <2>9. /\ keyed \in Steps /\ keyed.client = told.client /\ keyed.server = told.server
        /\ keyed.disk.cache = s.disk.cache
        /\ keyed.disk.keys = (s.disk.keys \ change.removed) \cup change.added
        /\ keyed.disk.token = s.disk.token /\ keyed.disk.limboFree = s.disk.limboFree
        /\ keyed.disk.last = s.disk.last
    <3> DEFINE keys == (told.disk.keys \ change.removed) \cup change.added
               k == [told.disk EXCEPT !.keys = keys]
               r == [told EXCEPT !.disk = k]
    <3>1. keys \in SUBSET Docs
      BY <2>1, <2>7, StepTypes DEF Disks
    <3>2. keyed = r
      BY <2>7 DEF Steps, Disks
    <3> HIDE DEF keys, keyed
    <3>3. /\ k \in Disks /\ k.cache = told.disk.cache /\ k.keys = keys
          /\ k.token = told.disk.token /\ k.limboFree = told.disk.limboFree
          /\ k.last = told.disk.last
      BY <2>7, <3>1, StepTypes DEF Disks
    <3> HIDE DEF k
    <3>4. r \in Steps /\ r.client = told.client /\ r.server = told.server /\ r.disk = k
      BY <2>7, <3>3 DEF Steps
    <3> HIDE DEF r
    <3> QED BY <2>6, <3>2, <3>3, <3>4 DEF keys
  <2>9a. all = {} => keyed.disk.keys = s.disk.keys
    BY <2>9
  <2> HIDE DEF keyed, all
  <2> DEFINE r == Persist(keyed, s.client.token, all, aged)
  <2>10. SameCore(r, keyed) /\ SameShown(r, keyed) /\ Persisted(r, keyed, all)
    BY <2>9, Persists
  <2> HIDE DEF r
  <2>11. SameCore(r, s)
    BY <2>6, <2>9, <2>10 DEF SameCore
  <2>12. r.disk.cache = s.disk.cache /\ r.disk.keys = KeysAfter(s.disk.keys, event)
    BY <1>2, <2>9, <2>10 DEF SameShown, KeysAfter, change
  <2>13. TargetUpdated(r, s, event)
    BY <1>2, <2>6a, <2>9, <2>9a, <2>10 DEF TargetUpdated, Persisted, SameMarks
  <2> QED BY <2>8, <2>11, <2>12, <2>13 DEF r
<1> QED BY <1>1, <1>2

LEMMA Populates ==
  ASSUME NEW k \in Disks, NEW event \in Events
  PROVE  /\ Populate(k, event).cache \in [Docs -> Entries]
         /\ Populate(k, event).changed \in SUBSET Docs
         /\ \A d \in Docs \ Populate(k, event).changed : Populate(k, event).cache[d] = k.cache[d]
<1> DEFINE changed == {d \in DOMAIN event.updates : IsNews(k, d, event.updates[d])}
           entry(d) == IF d \notin changed THEN k.cache[d]
                       ELSE IF event.updates[d] = Deleted(0)
                         THEN [version |-> 0, value |-> "unknown", read |-> 0]
                       ELSE [version |-> event.updates[d].version,
                             value |-> event.updates[d].value, read |-> event.version]
<1>1. changed \in SUBSET Docs /\ \A d \in changed : event.updates[d] \in Updates
  BY EventFacts
<1>2. 0 \in Versions
  BY BoundAssumption DEF Versions
<1> HIDE DEF changed
<1>3. \A d \in Docs : entry(d) \in Entries
  <2> SUFFICES ASSUME NEW d \in Docs PROVE entry(d) \in Entries
    OBVIOUS
  <2>1. k.cache[d] \in Entries
    BY DEF Disks
  <2>2. [version |-> 0, value |-> "unknown", read |-> 0] \in Entries
    BY <1>2 DEF Entries
  <2>3. d \in changed => [version |-> event.updates[d].version,
                          value |-> event.updates[d].value, read |-> event.version] \in Entries
    BY <1>1, EventFacts DEF Updates, Entries
  <2> QED BY <2>1, <2>2, <2>3
<1>4. Populate(k, event) = [cache |-> [d \in Docs |-> entry(d)], changed |-> changed]
  BY DEF Populate, changed
<1>5. \A d \in Docs \ changed : entry(d) = k.cache[d]
  OBVIOUS
<1> HIDE DEF entry
<1> QED BY <1>1, <1>3, <1>4, <1>5

\* Neither the connection nor the marks of the target are different.
Steady(r, s) ==
  /\ r.server = s.server /\ r.client.open = s.client.open
  /\ r.client.targets = s.client.targets /\ r.client.agg = s.client.agg
  /\ r.client.listening = s.client.listening
  /\ r.client.token = s.client.token /\ r.client.limboFree = s.client.limboFree

LEMMA SteadyAside ==
  ASSUME NEW s, NEW r, Steady(r, s) \/ SameCore(r, s)
  PROVE  Aside(r, s)
  BY DEF Steady, SameCore, Aside, Appended, QuerySame

LEMMA ViewChanges ==
  ASSUME NEW s, NEW limbo, Sound(s, limbo), NEW view \in Views,
         view.synced = s.client.view.synced \/ Cleared(s.client.agg, {QueryTarget})
  PROVE  /\ Sound([s EXCEPT !.client.view = view], limbo)
         /\ [s EXCEPT !.client.view = view].client.view = view
         /\ [s EXCEPT !.client.view = view].client.listening = s.client.listening
         /\ [s EXCEPT !.client.view = view].disk = s.disk
         /\ Steady([s EXCEPT !.client.view = view], s)
<1> DEFINE c == [s.client EXCEPT !.view = view]
           r == [s EXCEPT !.client = c]
<1>0. s \in Steps
  BY DEF Sound, Whole
<1>1. /\ c \in Clients /\ c.enqueued = s.client.enqueued /\ c.resolving = s.client.resolving
      /\ c.agg = s.client.agg /\ c.open = s.client.open /\ c.targets = s.client.targets
      /\ c.view = view /\ c.listening = s.client.listening
      /\ c.token = s.client.token /\ c.limboFree = s.client.limboFree
  BY <1>0, StepTypes DEF Clients
<1>2. r = [s EXCEPT !.client.view = view]
  BY <1>0 DEF Steps
<1> HIDE DEF c
<1>3. r \in Steps /\ r.client = c /\ r.server = s.server /\ r.disk = s.disk
  BY <1>0, <1>1 DEF Steps
<1> HIDE DEF r
<1>4. /\ TargetsMatch(r.client) /\ Connected(r.client, r.server) /\ Pumped(r.client)
  BY <1>1, <1>3 DEF Sound, Whole, TargetsMatch, Connected, Pumped
<1>5. Queued(r.client, limbo)
  BY <1>1, <1>3 DEF Sound, Whole, Queued, Resolved
<1>6. Fits(r.client.agg, Meta(r.client))
  <2> DEFINE now == Meta(r.client)
             meta == Meta(s.client)
  <2> SUFFICES ASSUME NEW t \in DOMAIN now.keys \cap DOMAIN r.client.agg.states,
                      r.client.agg.states[t].outstanding = 0
               PROVE  ChangesFit(r.client.agg.states[t].changes, now.keys[t])
    BY DEF Fits
  <2>1. /\ t \in DOMAIN s.client.targets /\ t \in DOMAIN meta.keys
        /\ r.client.agg = s.client.agg
    BY <1>1, <1>3, MetaFacts
  <2>2. now.keys[t] = IF t = QueryTarget THEN r.client.view.synced
                      ELSE IF r.client.resolving[t].received THEN {r.client.resolving[t].key}
                      ELSE {}
    BY <1>1, <1>3, <2>1, MetaFacts
  <2>3. meta.keys[t] = IF t = QueryTarget THEN s.client.view.synced
                       ELSE IF s.client.resolving[t].received THEN {s.client.resolving[t].key}
                       ELSE {}
    BY <2>1, MetaFacts
  <2>4. Fits(s.client.agg, meta)
    BY DEF Sound, Whole
  <2> HIDE DEF now, meta
  <2>5. CASE t = QueryTarget /\ Cleared(s.client.agg, {QueryTarget})
    BY <2>1, <2>5 DEF Cleared, ChangesFit
  <2>6. CASE ~(t = QueryTarget /\ Cleared(s.client.agg, {QueryTarget}))
    <3>1. now.keys[t] = meta.keys[t]
      BY <1>1, <1>3, <2>2, <2>3, <2>6
    <3> QED BY <2>1, <2>4, <3>1 DEF Fits
  <2> QED BY <2>5, <2>6
<1>7. Sound(r, limbo) /\ r.client.view = view /\ r.client.listening = s.client.listening
  BY <1>1, <1>3, <1>4, <1>5, <1>6 DEF Sound, Whole
<1>8. Steady(r, s)
  BY <1>1, <1>3 DEF Steady
<1> QED BY <1>2, <1>3, <1>7, <1>8

\* The view that EmitNewSnapshots computes, but for its state.
NewView(old, docs, event) ==
  LET shown == [old EXCEPT !.docs = docs]
  IN  UpdateLimboDocuments(IF QueryTarget \in DOMAIN event.changes
                             THEN ApplyTargetChange(shown, event.changes[QueryTarget])
                             ELSE shown)

LimboMarked(view) == view.current => view.limbo = view.docs \ view.synced

LEMMA NewViewType ==
  ASSUME NEW old \in Views, NEW docs \in SUBSET Docs, NEW event \in Events
  PROVE  /\ NewView(old, docs, event) \in Views
         /\ NewView(old, docs, event).docs = docs
         /\ NewView(old, docs, event).synced = KeysAfter(old.synced, event)
         /\ LimboMarked(NewView(old, docs, event))
<1> DEFINE shown == [old EXCEPT !.docs = docs]
           change == event.changes[QueryTarget]
           applied == IF QueryTarget \in DOMAIN event.changes
                        THEN ApplyTargetChange(shown, change) ELSE shown
<1>1. shown \in Views /\ shown.synced = old.synced /\ shown.docs = docs
  BY DEF Views
<1> HIDE DEF shown
<1>2. QueryTarget \in DOMAIN event.changes =>
        /\ ApplyTargetChange(shown, change) \in Views
        /\ ApplyTargetChange(shown, change).docs = docs
        /\ ApplyTargetChange(shown, change).synced = KeysAfter(old.synced, event)
  <2>1. SUFFICES ASSUME QueryTarget \in DOMAIN event.changes
                 PROVE  /\ ApplyTargetChange(shown, change) \in Views
                        /\ ApplyTargetChange(shown, change).docs = docs
                        /\ ApplyTargetChange(shown, change).synced = KeysAfter(old.synced, event)
    OBVIOUS
  <2>2. /\ change.current \in BOOLEAN /\ change.added \in SUBSET Docs
        /\ change.removed \in SUBSET Docs /\ change.added \cap change.removed = {}
    BY <2>1, EventFacts DEF TargetChanges
  <2> DEFINE synced == (shown.synced \cup change.added) \ change.removed
  <2>3. synced \in SUBSET Docs
    BY <1>1, <2>2 DEF Views
  <2>4. ApplyTargetChange(shown, change)
          = [shown EXCEPT !.synced = synced, !.current = change.current]
    BY DEF ApplyTargetChange
  <2>5. synced = KeysAfter(old.synced, event)
    BY <1>1, <2>1, <2>2 DEF KeysAfter
  <2> HIDE DEF change, synced
  <2> QED BY <1>1, <2>2, <2>3, <2>4, <2>5 DEF Views
<1>3. /\ applied \in Views /\ applied.docs = docs
      /\ applied.synced = KeysAfter(old.synced, event)
  BY <1>1, <1>2 DEF KeysAfter
<1>4. NewView(old, docs, event) = UpdateLimboDocuments(applied)
  BY DEF NewView, shown
<1> HIDE DEF applied
<1>5. /\ UpdateLimboDocuments(applied) \in Views
      /\ UpdateLimboDocuments(applied).synced = applied.synced
      /\ UpdateLimboDocuments(applied).docs = applied.docs
      /\ LimboMarked(UpdateLimboDocuments(applied))
  <2> DEFINE limbo == applied.docs \ applied.synced
             more == [applied EXCEPT !.limbo = limbo]
  <2>1. limbo \in SUBSET Docs
    BY <1>3 DEF Views
  <2>2. UpdateLimboDocuments(applied) = IF applied.current THEN more ELSE applied
    BY DEF UpdateLimboDocuments
  <2> HIDE DEF limbo
  <2>3. more \in Views /\ more.synced = applied.synced /\ more.docs = applied.docs /\ more.limbo = limbo
    BY <1>3, <2>1 DEF Views
  <2> HIDE DEF more
  <2> QED BY <1>3, <2>2, <2>3 DEF limbo, LimboMarked
<1> QED BY <1>3, <1>4, <1>5

\* The event has reached the disk, and the view not yet.
Stored(s, event, changed) ==
  /\ Sound(s, s.client.view.limbo) /\ Resting(s.client)
  /\ \A d \in s.client.view.docs \ changed : s.disk.cache[d].value = "in"
  /\ s.client.listening => s.disk.keys = KeysAfter(s.client.view.synced, event)

\* A document that is not shown, but matches, has not changed and was not shown.
Emitted(r, s, changed) ==
  /\ Aside(r, s) /\ r.client.open = s.client.open /\ r.client.listening = s.client.listening
  /\ r.client.token = s.client.token
  /\ r.client.limboFree \in {s.client.limboFree, s.client.token}
  /\ r.disk.last = s.disk.last /\ r.disk.keys = s.disk.keys /\ r.disk.cache = s.disk.cache
  /\ \/ r.disk.token = s.disk.token /\ r.disk.limboFree = s.disk.limboFree
     \/ r.disk.token = s.client.token /\ r.disk.limboFree = s.client.token
  /\ IF s.client.listening
       THEN \A d \in Docs \ r.client.view.docs :
              s.disk.cache[d].value = "in" => d \notin changed \cup s.client.view.docs
       ELSE r.disk = s.disk

\* EmitNewSnapshotsAndNotifyLocalStore.
LEMMA Emits ==
  ASSUME ~IsFiniteSet(LookupIds), NEW s, NEW event \in Events, NEW changed, Stored(s, event, changed),
         Cleared(s.client.agg, DOMAIN event.changes), NEW aged
  PROVE  /\ Good(EmitNewSnapshots(s, event, changed, aged))
         /\ Emitted(EmitNewSnapshots(s, event, changed, aged), s, changed)
<1>0. s \in Steps /\ s.client.view \in Views /\ Sound(s, s.client.view.limbo) /\ Resting(s.client)
  BY StepTypes DEF Stored, Sound, Whole
<1>1. CASE ~s.client.listening
  <2>1. Follows(s)
    BY <1>0, <1>1 DEF Resting, Follows, NoView
  <2>2. Emitted(s, s, changed)
    BY <1>1, AsideItself DEF Emitted
  <2> QED BY <1>0, <1>1, <2>1, <2>2 DEF EmitNewSnapshots, Good
<1>2. CASE s.client.listening
  <2> DEFINE old == s.client.view
             docs == {d \in Docs : IF d \in changed THEN s.disk.cache[d].value = "in"
                                                    ELSE d \in old.docs}
             view == NewView(old, docs, event)
             state == SyncState(view)
             final == [view EXCEPT !.state = state]
             base == [s EXCEPT !.client.view = final]
             tracked == TrackLimbo(base, old.limbo, view.limbo)
             marked == MarkLimboFree(tracked, aged)
  <2>1. EmitNewSnapshots(s, event, changed, aged) \in {marked, tracked}
    BY <1>2 DEF EmitNewSnapshots, NewView
  <2>2. docs \in SUBSET Docs /\ \A d \in docs : s.disk.cache[d].value = "in"
    BY DEF Stored
  <2>2a. \A d \in Docs \ docs :
           s.disk.cache[d].value = "in" => d \notin changed \cup s.client.view.docs
    OBVIOUS
  <2> HIDE DEF docs
  <2>3. /\ view \in Views /\ view.docs = docs
        /\ view.synced = KeysAfter(old.synced, event)
        /\ LimboMarked(view)
    BY <1>0, <2>2, NewViewType
  <2> HIDE DEF view
  <2>4. /\ state \in {"none", "local", "synced"}
        /\ state = "synced" => view.current /\ view.limbo = {}
    BY DEF SyncState
  <2> HIDE DEF state
  <2>5. /\ final \in Views /\ final.limbo = view.limbo /\ final.synced = view.synced
        /\ final.docs = view.docs /\ final.current = view.current /\ final.state = state
    BY <2>3, <2>4 DEF Views
  <2> HIDE DEF final
  <2>6. final.synced = s.client.view.synced \/ Cleared(s.client.agg, {QueryTarget})
    BY <2>3, <2>5 DEF Cleared, KeysAfter
  <2>7. /\ Sound(base, old.limbo) /\ base.client.view = final
        /\ base.client.listening = s.client.listening /\ base.disk = s.disk
        /\ Steady(base, s)
    BY <1>0, <2>5, <2>6, ViewChanges
  <2>7a. Follows(base)
    BY <1>2, <2>2, <2>3, <2>4, <2>5, <2>7 DEF Follows, Stored, LimboMarked
  <2> HIDE DEF base
  <2>8. old.limbo \in SUBSET Docs /\ view.limbo \in SUBSET Docs
    BY <1>0, <2>3 DEF Views
  <2> HIDE DEF old
  <2>9. Sound(tracked, view.limbo) /\ Kept(tracked, base)
    BY <2>7, <2>8, TracksLimbo
  <2> HIDE DEF tracked
  <2>10. /\ tracked \in Steps /\ tracked.client.view = final /\ tracked.client.listening
         /\ SameShown(tracked, base)
    BY <1>2, <2>7, <2>9 DEF Sound, Whole, Kept, Looks, SameShown
  <2>10a. Follows(tracked)
    BY <2>7a, <2>10, StillFollows
  <2>11. Good(tracked)
    BY <2>5, <2>9, <2>10, <2>10a DEF Good, Resting
  <2>11a. Aside(tracked, s) /\ Steady(base, s) /\ Looks(tracked, base)
    BY <2>7, <2>9, SteadyAside, AsideTwice DEF Kept
  <2>11b. \A d \in Docs \ final.docs :
            s.disk.cache[d].value = "in" => d \notin changed \cup s.client.view.docs
    BY <2>2a, <2>3, <2>5
  <2>11c. Emitted(tracked, s, changed)
    BY <1>2, <2>7, <2>10, <2>11a, <2>11b DEF Emitted, Looks, Steady
  <2>12. /\ SameCore(marked, tracked) /\ SameShown(marked, tracked)
         /\ Marked(marked, tracked)
    BY <2>10, MarksLimboFree
  <2> HIDE DEF marked
  <2>13. Sound(marked, view.limbo)
    BY <2>9, <2>12, CoreSound
  <2>13a. Follows(marked)
    BY <2>10a, <2>12, StillFollows
  <2>14. Good(marked)
    BY <2>5, <2>10, <2>12, <2>13, <2>13a DEF Good, Resting, SameCore
  <2>15. Aside(marked, s)
    BY <2>11a, <2>12, SteadyAside, AsideTwice
  <2>16. Emitted(marked, s, changed)
    BY <1>2, <2>10, <2>11b, <2>11c, <2>12, <2>15 DEF Emitted, Marked, Took, SameCore, SameShown
  <2> QED BY <2>1, <2>11, <2>11c, <2>14, <2>16
<1> QED BY <1>1, <1>2

\* The lookups that have received their documents.
ReceivedIn(resolving, c, T) ==
  /\ resolving \in Partial(LookupIds, Lookups)
  /\ DOMAIN resolving = DOMAIN c.resolving
  /\ \A t \in DOMAIN resolving : resolving[t].key = c.resolving[t].key
  /\ \A t \in DOMAIN resolving \ T : resolving[t] = c.resolving[t]

Resolving(r, s) ==
  /\ r.client.view = s.client.view /\ r.client.agg = s.client.agg
  /\ r.client.listening = s.client.listening /\ r.disk = s.disk /\ Steady(r, s)

LEMMA Receives ==
  ASSUME NEW s, NEW limbo, Sound(s, limbo), NEW T, Cleared(s.client.agg, T),
         NEW resolving, ReceivedIn(resolving, s.client, T)
  PROVE  /\ Sound([s EXCEPT !.client.resolving = resolving], limbo)
         /\ Resolving([s EXCEPT !.client.resolving = resolving], s)
<1> DEFINE c == [s.client EXCEPT !.resolving = resolving]
           r == [s EXCEPT !.client = c]
<1>a. /\ resolving \in Partial(LookupIds, Lookups)
      /\ DOMAIN resolving = DOMAIN s.client.resolving
      /\ \A t \in DOMAIN resolving : resolving[t].key = s.client.resolving[t].key
      /\ \A t \in DOMAIN resolving \ T : resolving[t] = s.client.resolving[t]
  BY DEF ReceivedIn
<1>0. s \in Steps
  BY DEF Sound, Whole
<1>1. /\ c \in Clients /\ c.enqueued = s.client.enqueued /\ c.resolving = resolving
      /\ c.agg = s.client.agg /\ c.open = s.client.open /\ c.targets = s.client.targets
      /\ c.view = s.client.view /\ c.listening = s.client.listening
      /\ c.token = s.client.token /\ c.limboFree = s.client.limboFree
  BY <1>0, <1>a, StepTypes DEF Clients
<1>2. r = [s EXCEPT !.client.resolving = resolving]
  BY <1>0 DEF Steps
<1> HIDE DEF c
<1>3. r \in Steps /\ r.client = c /\ r.server = s.server /\ r.disk = s.disk
  BY <1>0, <1>1 DEF Steps
<1> HIDE DEF r
<1>4. /\ TargetsMatch(r.client) /\ Connected(r.client, r.server) /\ Pumped(r.client)
  BY <1>a, <1>1, <1>3 DEF Sound, Whole, TargetsMatch, Connected, Pumped
<1>5. Resolved(r.client) = Resolved(s.client)
  BY <1>a, <1>1, <1>3 DEF Resolved
<1>6. Queued(r.client, limbo)
  <2>1. Queued(s.client, limbo)
    BY DEF Sound, Whole
  <2>2. \A t, u \in DOMAIN r.client.resolving :
          r.client.resolving[t].key = r.client.resolving[u].key => t = u
    BY <1>a, <1>1, <1>3, <2>1 DEF Queued
  <2> QED BY <1>1, <1>3, <1>5, <2>1, <2>2 DEF Queued
<1>7. Fits(r.client.agg, Meta(r.client))
  <2> DEFINE now == Meta(r.client)
             meta == Meta(s.client)
  <2> SUFFICES ASSUME NEW t \in DOMAIN now.keys \cap DOMAIN r.client.agg.states,
                      r.client.agg.states[t].outstanding = 0
               PROVE  ChangesFit(r.client.agg.states[t].changes, now.keys[t])
    BY DEF Fits
  <2>1. /\ t \in DOMAIN s.client.targets /\ t \in DOMAIN meta.keys
        /\ r.client.agg = s.client.agg
    BY <1>1, <1>3, MetaFacts
  <2>2. now.keys[t] = IF t = QueryTarget THEN r.client.view.synced
                      ELSE IF r.client.resolving[t].received THEN {r.client.resolving[t].key}
                      ELSE {}
    BY <1>1, <1>3, <2>1, MetaFacts
  <2>3. meta.keys[t] = IF t = QueryTarget THEN s.client.view.synced
                       ELSE IF s.client.resolving[t].received THEN {s.client.resolving[t].key}
                       ELSE {}
    BY <2>1, MetaFacts
  <2>4. Fits(s.client.agg, meta)
    BY DEF Sound, Whole
  <2>5. t # QueryTarget => t \in DOMAIN s.client.resolving
    BY <2>1 DEF Sound, Whole, TargetsMatch
  <2> HIDE DEF now, meta
  <2>6. CASE t \in T
    BY <2>1, <2>6 DEF Cleared, ChangesFit
  <2>7. CASE t \notin T
    <3>1. t # QueryTarget => r.client.resolving[t] = s.client.resolving[t]
      BY <1>a, <1>1, <1>3, <2>5, <2>7
    <3>2. r.client.view = s.client.view
      BY <1>1, <1>3
    <3>3. now.keys[t] = meta.keys[t]
      <4> HIDE DEF r
      <4> QED BY <2>2, <2>3, <3>1, <3>2
    <3> QED BY <2>1, <2>4, <3>3 DEF Fits
  <2> QED BY <2>6, <2>7
<1>8. /\ Sound(r, limbo) /\ r.client.view = s.client.view /\ r.client.agg = s.client.agg
      /\ r.client.listening = s.client.listening /\ r.disk = s.disk
  BY <1>1, <1>3, <1>4, <1>6, <1>7 DEF Sound, Whole
<1>9. Sound(r, limbo) /\ Resolving(r, s)
  BY <1>1, <1>3, <1>8 DEF Resolving, Steady
<1> QED BY <1>2, <1>9

\* What an event does to the query: the keys and the marks of its target, and
\* that a document that matches is shown unless it did before and was not.
Applied(r, s, event) ==
  /\ Aside(r, s) /\ r.client.open = s.client.open /\ r.client.listening = s.client.listening
  /\ r.disk.last = LastAfter(s.disk.last, event)
  /\ IF s.client.listening
       THEN /\ r.client.token = TokenAfter(s.client.token, event)
            /\ r.client.limboFree \in {FreeAfter(s.client.limboFree, event), r.client.token}
            /\ r.disk.keys = KeysAfter(s.disk.keys, event)
            /\ \/ SameMarks(r, s)
               \/ /\ r.disk.token = r.client.token
                  /\ r.disk.limboFree \in {FreeAfter(s.client.limboFree, event), r.client.token}
            /\ \A d \in Docs \ r.client.view.docs :
                 r.disk.cache[d].value = "in" =>
                   r.disk.cache[d] = s.disk.cache[d] /\ d \notin s.client.view.docs
       ELSE SameMarks(r, s)

\* SyncEngine::ApplyRemoteEvent.
LEMMA AppliesEvent ==
  ASSUME ~IsFiniteSet(LookupIds), NEW s, Good(s), NEW event \in Events,
         Cleared(s.client.agg, DOMAIN event.changes), NEW aged
  PROVE  /\ Good(ApplyRemoteEvent(s, event, aged))
         /\ Applied(ApplyRemoteEvent(s, event, aged), s, event)
<1> DEFINE received(t) ==
             IF t \notin DOMAIN event.changes THEN s.client.resolving[t].received
             ELSE \/ event.changes[t].added # {}
                  \/ /\ event.changes[t].removed = {}
                     /\ s.client.resolving[t].received
           resolving == [t \in DOMAIN s.client.resolving |->
                           [s.client.resolving[t] EXCEPT !.received = received(t)]]
           populated == Populate(s.disk, event)
           s1 == [s EXCEPT !.client.resolving = resolving]
           s2 == UpdateTarget(s1, event, aged)
           last == IF event.version = 0 THEN s2.disk.last ELSE event.version
           k == [s2.disk EXCEPT !.cache = populated.cache, !.last = last]
           stored == [s2 EXCEPT !.disk = k]
<1>0. /\ s \in Steps /\ Sound(s, s.client.view.limbo)
      /\ s.client.resolving \in Partial(LookupIds, Lookups)
  BY StepTypes DEF Good, Sound, Whole
<1>1. /\ DOMAIN s.client.resolving \in SUBSET LookupIds /\ IsFiniteSet(DOMAIN s.client.resolving)
      /\ \A t \in DOMAIN s.client.resolving : s.client.resolving[t] \in Lookups
  BY <1>0, PartialIs
<1>2. \A t \in DOMAIN s.client.resolving : received(t) \in BOOLEAN
  BY <1>1 DEF Lookups
<1> HIDE DEF received
<1>3. \A t \in DOMAIN s.client.resolving :
        /\ resolving[t] \in Lookups /\ resolving[t].key = s.client.resolving[t].key
        /\ resolving[t].received = received(t)
  BY <1>1, <1>2 DEF Lookups
<1>4. /\ DOMAIN resolving = DOMAIN s.client.resolving
      /\ resolving \in [DOMAIN s.client.resolving -> Lookups]
  BY <1>3
<1> HIDE DEF resolving
<1>5. resolving \in Partial(LookupIds, Lookups)
  BY <1>1, <1>4, PartialMade
<1>6. \A t \in DOMAIN resolving \ DOMAIN event.changes : resolving[t] = s.client.resolving[t]
  <2> SUFFICES ASSUME NEW t \in DOMAIN resolving \ DOMAIN event.changes
               PROVE  resolving[t] = s.client.resolving[t]
    OBVIOUS
  <2>1. /\ resolving[t] \in Lookups /\ s.client.resolving[t] \in Lookups
        /\ resolving[t].key = s.client.resolving[t].key
        /\ resolving[t].received = s.client.resolving[t].received
    BY <1>1, <1>3, <1>4 DEF received
  <2> QED BY <2>1 DEF Lookups
<1>7. \A t \in DOMAIN resolving : resolving[t].key = s.client.resolving[t].key
  BY <1>3, <1>4
<1>8. /\ Sound(s1, s.client.view.limbo) /\ s1.client.view = s.client.view
      /\ s1.client.agg = s.client.agg /\ s1.client.listening = s.client.listening
      /\ s1.disk = s.disk /\ Steady(s1, s)
  <2>1. ReceivedIn(resolving, s.client, DOMAIN event.changes)
    BY <1>4, <1>5, <1>6, <1>7 DEF ReceivedIn
  <2>2. Sound(s1, s.client.view.limbo) /\ Resolving(s1, s)
    BY <1>0, <2>1, Receives
  <2> HIDE DEF s1
  <2> QED BY <2>2 DEF Resolving
<1> HIDE DEF s1
<1>9. /\ SameCore(s2, s1) /\ s2.disk.cache = s.disk.cache
      /\ s.client.listening => s2.disk.keys = KeysAfter(s.disk.keys, event)
      /\ TargetUpdated(s2, s1, event)
  <2>1. s1 \in Steps
    BY <1>8 DEF Sound, Whole
  <2> QED BY <1>8, <2>1, UpdatesTarget
<1> HIDE DEF s2
<1>10. s2 \in Steps /\ s2.disk \in Disks /\ s.disk \in Disks
  BY <1>0, <1>9, StepTypes DEF SameCore
<1>11. /\ populated.cache \in [Docs -> Entries] /\ populated.changed \in SUBSET Docs
       /\ \A d \in Docs \ populated.changed : populated.cache[d] = s.disk.cache[d]
  BY <1>10, Populates
<1> HIDE DEF populated
<1>12. last \in Versions
  BY <1>10, EventFacts DEF Disks
<1>13. stored = [s2 EXCEPT !.disk.cache = populated.cache,
                           !.disk.last = IF event.version = 0 THEN @ ELSE event.version]
  BY <1>10 DEF Steps, Disks
<1>14. ApplyRemoteEvent(s, event, aged) = EmitNewSnapshots(stored, event, populated.changed, aged)
  BY <1>13 DEF ApplyRemoteEvent, s2, s1, resolving, received, populated
<1>12a. last = LastAfter(s2.disk.last, event)
  BY DEF LastAfter
<1> HIDE DEF last
<1>15. /\ k \in Disks /\ k.cache = populated.cache /\ k.keys = s2.disk.keys
       /\ k.token = s2.disk.token /\ k.limboFree = s2.disk.limboFree /\ k.last = last
  BY <1>10, <1>11, <1>12 DEF Disks
<1> HIDE DEF k
<1>16. /\ stored \in Steps /\ stored.client = s2.client /\ stored.server = s2.server
       /\ stored.disk = k
  BY <1>10, <1>15 DEF Steps
<1> HIDE DEF stored
<1>17. SameCore(stored, s1)
  BY <1>9, <1>16 DEF SameCore
<1>18. Sound(stored, s.client.view.limbo)
  BY <1>8, <1>17, CoreSound
<1>19. /\ stored.client.view = s.client.view /\ stored.client.listening = s.client.listening
       /\ stored.client.agg = s.client.agg
  BY <1>8, <1>17 DEF SameCore
<1>20. \A d \in s.client.view.docs \ populated.changed : stored.disk.cache[d].value = "in"
  <2>1. s.client.view.docs \in SUBSET Docs
    BY <1>0, StepTypes DEF Views
  <2>2. \A d \in s.client.view.docs : s.disk.cache[d].value = "in"
    BY DEF Good, Follows
  <2> QED BY <1>11, <1>15, <1>16, <2>1, <2>2
<1>21. s.client.listening => stored.disk.keys = KeysAfter(s.client.view.synced, event)
  <2>1. s.client.listening => s.client.view.synced = s.disk.keys
    BY DEF Good, Follows
  <2> QED BY <1>9, <1>15, <1>16, <2>1
<1>22. Stored(stored, event, populated.changed) /\ Cleared(stored.client.agg, DOMAIN event.changes)
  BY <1>18, <1>19, <1>20, <1>21 DEF Stored, Good, Resting
<1> DEFINE r == EmitNewSnapshots(stored, event, populated.changed, aged)
<1>23. Good(r) /\ Emitted(r, stored, populated.changed)
  BY <1>22, Emits
<1> HIDE DEF r
<1>24. Aside(r, s)
  <2>1. Aside(r, stored) /\ Aside(stored, s1) /\ Aside(s1, s)
    BY <1>8, <1>17, <1>23, SteadyAside DEF Emitted
  <2> QED BY <2>1, AsideTwice
<1>25. /\ r.client.open = s.client.open /\ r.client.listening = s.client.listening
       /\ r.disk.last = LastAfter(s.disk.last, event)
  BY <1>8, <1>9, <1>12a, <1>15, <1>16, <1>17, <1>23
     DEF Emitted, Steady, SameCore, TargetUpdated
<1>26. CASE s.client.listening
  <2>1. /\ stored.client.token = TokenAfter(s.client.token, event)
        /\ stored.client.limboFree = FreeAfter(s.client.limboFree, event)
        /\ Took(stored) \/ SameMarks(stored, s)
    BY <1>8, <1>9, <1>15, <1>16, <1>26 DEF TargetUpdated, Steady, Took, SameMarks
  <2>2. /\ r.client.token = stored.client.token
        /\ r.client.limboFree \in {stored.client.limboFree, stored.client.token}
        /\ r.disk.keys = KeysAfter(s.disk.keys, event)
    BY <1>9, <1>15, <1>16, <1>23, <1>26 DEF Emitted
  <2>3. SameMarks(r, s)
        \/ /\ r.disk.token = r.client.token
           /\ r.disk.limboFree \in {FreeAfter(s.client.limboFree, event), r.client.token}
    BY <1>23, <2>1, <2>2 DEF Emitted, Took, SameMarks
  <2>4. \A d \in Docs \ r.client.view.docs :
          r.disk.cache[d].value = "in" =>
            r.disk.cache[d] = s.disk.cache[d] /\ d \notin s.client.view.docs
    BY <1>11, <1>15, <1>16, <1>19, <1>23, <1>26 DEF Emitted
  <2> QED BY <1>14, <1>23, <1>24, <1>25, <1>26, <2>1, <2>2, <2>3, <2>4 DEF Applied, r
<1>27. CASE ~s.client.listening
  <2>1. r.disk = k /\ s2.disk = s.disk
    BY <1>8, <1>9, <1>16, <1>19, <1>23, <1>27 DEF Emitted, TargetUpdated
  <2>2. SameMarks(r, s)
    BY <1>15, <2>1 DEF SameMarks
  <2> QED BY <1>14, <1>23, <1>24, <1>25, <1>27, <2>2 DEF Applied, r
<1> QED BY <1>26, <1>27

-----------------------------------------------------------------------------
(* What the client has of the query, as it hears a message.                *)

\* b has what a had, the documents of D aside.
Keeps(b, a, keys, D) ==
  /\ b.resets = a.resets
  /\ \A d \in Docs \ D : Has(a, keys, d) => Has(b, keys, d)

LEMMA KeepsTwice ==
  ASSUME NEW a, NEW b, NEW c, NEW keys, NEW D, NEW E, NEW F, E \cup F \subseteq D,
         Keeps(c, b, keys, E), Keeps(b, a, keys, F)
  PROVE  Keeps(c, a, keys, D)
  BY DEF Keeps

LEMMA KeepsState ==
  ASSUME NEW a, NEW b, b.resets = a.resets, NEW keys, NEW D,
         EnsureTargetState(b, QueryTarget) = EnsureTargetState(a, QueryTarget)
  PROVE  Keeps(b, a, keys, D)
  BY DEF Keeps, Has

\* A new state of a target has what the old one had.
StaysIn(new, old, keys, D) == \A d \in Docs \ D : HasIn(old, keys, d) => HasIn(new, keys, d)

LEMMA SetStateKeeps ==
  ASSUME NEW a, NEW t, NEW st, NEW keys, NEW D, NEW b,
         b.states = With(a.states, t, st), b.resets = a.resets,
         t # QueryTarget \/ StaysIn(st, EnsureTargetState(a, t), keys, D)
  PROVE  /\ Keeps(b, a, keys, D)
         /\ EnsureTargetState(b, t) = st
<1>1. /\ EnsureTargetState(b, t) = st
      /\ t # QueryTarget => EnsureTargetState(b, QueryTarget) = EnsureTargetState(a, QueryTarget)
  BY DEF EnsureTargetState, With
<1>2. CASE t = QueryTarget
  BY <1>1, <1>2 DEF Keeps, Has, StaysIn
<1>3. CASE t # QueryTarget
  BY <1>1, <1>3, KeepsState
<1> QED BY <1>1, <1>2, <1>3

\* The documents of a set, if the target is that of the query.
OfQuery(t, D) == IF t = QueryTarget THEN D ELSE {}

LEMMA AddDocumentKeeps ==
  ASSUME NEW meta, NEW a \in Aggregators, NEW t, NEW key, NEW update, NEW keys,
         NEW b, b = AddDocumentToTarget(a, meta, t, key, update)
  PROVE  /\ Keeps(b, a, keys, {})
         /\ IsActiveTarget(a, meta, QueryTarget) /\ t = QueryTarget => Has(b, keys, key)
<1>1. CASE ~IsActiveTarget(a, meta, t)
  BY <1>1 DEF AddDocumentToTarget, Keeps
<1>2. CASE IsActiveTarget(a, meta, t)
  <2> DEFINE type == IF key \in meta.keys[t] THEN "modified" ELSE "added"
             old == EnsureTargetState(a, t)
             changes == With(old.changes, key, type)
             st == [old EXCEPT !.pending = TRUE, !.changes = changes]
  <2>1. type # "removed"
    OBVIOUS
  <2> HIDE DEF type
  <2>3. b.states = With(a.states, t, st) /\ b.resets = a.resets
    BY <1>2 DEF AddDocumentToTarget, SetState, Aggregators, type
  <2>4. old.outstanding = 0 /\ old \in TargetStates
    BY <1>2, EnsureType DEF IsActiveTarget
  <2> HIDE DEF old
  <2>5. st.outstanding = 0 /\ st.changes = changes
    BY <2>4 DEF TargetStates
  <2> HIDE DEF st
  <2>6. HasIn(st, keys, key) /\ StaysIn(st, old, keys, {})
    BY <2>1, <2>4, <2>5 DEF HasIn, StaysIn, With
  <2>7. /\ Keeps(b, a, keys, {})
        /\ t = QueryTarget => EnsureTargetState(b, t) = st
    BY <2>3, <2>6, SetStateKeeps DEF old
  <2> QED BY <2>6, <2>7 DEF Has
<1> QED BY <1>1, <1>2

LEMMA RemoveDocumentKeeps ==
  ASSUME NEW meta, NEW a \in Aggregators, NEW t, NEW key, NEW update, NEW keys,
         NEW b, b = RemoveDocumentFromTarget(a, meta, t, key, update),
         t = QueryTarget => meta.keys[t] = keys
  PROVE  Keeps(b, a, keys, OfQuery(t, {key}))
<1>1. CASE ~IsActiveTarget(a, meta, t)
  BY <1>1 DEF RemoveDocumentFromTarget, Keeps
<1>2. CASE IsActiveTarget(a, meta, t)
  <2> DEFINE old == EnsureTargetState(a, t)
             changes == IF key \in meta.keys[t] THEN With(old.changes, key, "removed")
                                                ELSE Without(old.changes, key)
             st == [old EXCEPT !.pending = TRUE, !.changes = changes]
  <2>3. b.states = With(a.states, t, st) /\ b.resets = a.resets
    BY <1>2 DEF RemoveDocumentFromTarget, SetState, Aggregators
  <2>4. old.outstanding = 0 /\ old \in TargetStates
    BY <1>2, EnsureType DEF IsActiveTarget
  <2> HIDE DEF old
  <2>5. st.outstanding = 0 /\ st.changes = changes
    BY <2>4 DEF TargetStates
  <2> HIDE DEF st
  <2>6. StaysIn(st, old, keys, {key})
    BY <2>4, <2>5 DEF HasIn, StaysIn, With, Without, Restrict
  <2>7. t = QueryTarget => Keeps(b, a, keys, {key})
    BY <2>3, <2>6, SetStateKeeps DEF old
  <2>8. t # QueryTarget => Keeps(b, a, keys, {})
    BY <2>3, SetStateKeeps
  <2> QED BY <2>7, <2>8 DEF OfQuery
<1> QED BY <1>1, <1>2

LEMMA KeepsItself ==
  ASSUME NEW a, NEW keys, NEW D
  PROVE  Keeps(a, a, keys, D)
  BY DEF Keeps

LEMMA RemoveAllKeeps ==
  ASSUME NEW meta \in Metas, NEW agg, DOMAIN meta.keys \subseteq DOMAIN agg.states,
         NEW a \in Like(agg, meta), NEW S, IsFiniteSet(S), NEW key \in Docs,
         NEW update \in Updates, NEW keys, keys = meta.keys[QueryTarget],
         NEW b, b = RemoveDocument(a, meta, S, key, update)
  PROVE  b \in Like(agg, meta) /\ Keeps(b, a, keys, IF QueryTarget \in S THEN {key} ELSE {})
<1> DEFINE D(T) == IF QueryTarget \in T THEN {key} ELSE {}
           family == [T \in SUBSET S |-> {r \in Like(agg, meta) : Keeps(r, a, keys, D(T))}]
<1>1. a \in family[{}]
  BY KeepsItself
<1>2. \A T \in SUBSET S : \A x \in T : \A r \in family[T \ {x}] :
        RemoveDocumentFromTarget(r, meta, x, key, update) \in family[T]
  <2> SUFFICES ASSUME NEW T \in SUBSET S, NEW x \in T, NEW r \in family[T \ {x}]
               PROVE  RemoveDocumentFromTarget(r, meta, x, key, update) \in family[T]
    OBVIOUS
  <2> DEFINE q == RemoveDocumentFromTarget(r, meta, x, key, update)
  <2>1. r \in Like(agg, meta) /\ r \in Aggregators /\ Keeps(r, a, keys, D(T \ {x}))
    BY DEF Like
  <2>2. q \in Like(agg, meta)
    BY <2>1, RemoveDocumentLike
  <2>3. Keeps(q, r, keys, OfQuery(x, {key}))
    BY <2>1, RemoveDocumentKeeps
  <2> HIDE DEF q
  <2>4. OfQuery(x, {key}) \cup D(T \ {x}) \subseteq D(T)
    BY DEF OfQuery
  <2> HIDE DEF D
  <2>5. Keeps(q, a, keys, D(T))
    BY <2>1, <2>3, <2>4, KeepsTwice
  <2> QED BY <2>2, <2>5 DEF q
<1> HIDE DEF family
<1>3. b \in family[S]
  BY <1>1, <1>2, RemoveFold
<1> QED BY <1>3 DEF family

LEMMA AddAllKeeps ==
  ASSUME NEW meta \in Metas, NEW agg, DOMAIN meta.keys \subseteq DOMAIN agg.states,
         NEW a \in Like(agg, meta), NEW S, IsFiniteSet(S), NEW key \in Docs,
         NEW update \in Updates, NEW keys,
         NEW b, b = AddDocument(a, meta, S, key, update)
  PROVE  /\ b \in Like(agg, meta) /\ Keeps(b, a, keys, {})
         /\ IsActiveTarget(a, meta, QueryTarget) /\ QueryTarget \in S => Has(b, keys, key)
<1> DEFINE Added(r, T) == IsActiveTarget(a, meta, QueryTarget) /\ QueryTarget \in T => Has(r, keys, key)
           family == [T \in SUBSET S |->
                        {r \in Like(agg, meta) : Keeps(r, a, keys, {}) /\ Added(r, T)}]
<1>1. a \in family[{}]
  BY KeepsItself
<1>2. \A T \in SUBSET S : \A x \in T : \A r \in family[T \ {x}] :
        AddDocumentToTarget(r, meta, x, key, update) \in family[T]
  <2> SUFFICES ASSUME NEW T \in SUBSET S, NEW x \in T, NEW r \in family[T \ {x}]
               PROVE  AddDocumentToTarget(r, meta, x, key, update) \in family[T]
    OBVIOUS
  <2> DEFINE q == AddDocumentToTarget(r, meta, x, key, update)
  <2>1. r \in Like(agg, meta) /\ r \in Aggregators /\ Keeps(r, a, keys, {}) /\ Added(r, T \ {x})
    BY DEF Like
  <2>2. q \in Like(agg, meta)
    BY <2>1, AddDocumentLike
  <2>3. /\ Keeps(q, r, keys, {})
        /\ IsActiveTarget(r, meta, QueryTarget) /\ x = QueryTarget => Has(q, keys, key)
    BY <2>1, AddDocumentKeeps
  <2>4. IsActiveTarget(a, meta, QueryTarget) => IsActiveTarget(r, meta, QueryTarget)
    BY <2>1, LikeActive
  <2> HIDE DEF q
  <2>5. Keeps(q, a, keys, {})
    BY <2>1, <2>3, KeepsTwice
  <2>6. Added(q, T)
    BY <2>1, <2>3, <2>4 DEF Keeps
  <2> HIDE DEF Added
  <2> QED BY <2>2, <2>5, <2>6 DEF q
<1> HIDE DEF family
<1>3. b \in family[S]
  BY <1>1, <1>2, AddFold
<1> QED BY <1>3 DEF family

LEMMA RemoveDocumentsKeep ==
  ASSUME NEW meta \in Metas, NEW agg, DOMAIN meta.keys \subseteq DOMAIN agg.states,
         NEW a \in Like(agg, meta), NEW t, NEW S \in SUBSET Docs,
         NEW keys, keys = meta.keys[QueryTarget],
         NEW b, b = RemoveDocumentsFromTarget(a, meta, t, S)
  PROVE  b \in Like(agg, meta) /\ Keeps(b, a, keys, OfQuery(t, S))
<1> DEFINE D(T) == OfQuery(t, T)
           family == [T \in SUBSET S |-> {r \in Like(agg, meta) : Keeps(r, a, keys, D(T))}]
<1>1. a \in family[{}]
  BY KeepsItself
<1>2. \A T \in SUBSET S : \A x \in T : \A r \in family[T \ {x}] :
        RemoveDocumentFromTarget(r, meta, t, x, NoUpdate) \in family[T]
  <2> SUFFICES ASSUME NEW T \in SUBSET S, NEW x \in T, NEW r \in family[T \ {x}]
               PROVE  RemoveDocumentFromTarget(r, meta, t, x, NoUpdate) \in family[T]
    OBVIOUS
  <2> DEFINE q == RemoveDocumentFromTarget(r, meta, t, x, NoUpdate)
  <2>1. r \in Like(agg, meta) /\ r \in Aggregators /\ Keeps(r, a, keys, D(T \ {x}))
    BY DEF Like
  <2>2. q \in Like(agg, meta)
    BY <2>1, RemoveDocumentLike, NoUpdateType
  <2>3. Keeps(q, r, keys, D({x}))
    BY <2>1, RemoveDocumentKeeps
  <2> HIDE DEF q
  <2>4. D({x}) \cup D(T \ {x}) \subseteq D(T)
    BY DEF OfQuery
  <2> HIDE DEF D
  <2>5. Keeps(q, a, keys, D(T))
    BY <2>1, <2>3, <2>4, KeepsTwice
  <2> QED BY <2>2, <2>5 DEF q
<1>3. IsFiniteSet(S)
  BY DocsAssumption, FS_Subset
<1> HIDE DEF family
<1>4. b \in family[S]
  BY <1>1, <1>2, <1>3, RemoveKeysFold
<1> QED BY <1>4 DEF family

LEMMA ResetKeeps ==
  ASSUME NEW meta \in Metas, NEW agg, DOMAIN meta.keys \subseteq DOMAIN agg.states,
         NEW a \in Like(agg, meta), NEW t, IsActiveTarget(a, meta, t),
         NEW keys, keys = meta.keys[QueryTarget],
         NEW b, b = ResetTarget(a, meta, t)
  PROVE  b \in Like(agg, meta) /\ Keeps(b, a, keys, OfQuery(t, Docs))
<1> DEFINE c == SetState(a, t, NewTargetState)
           D == OfQuery(t, Docs)
<1>1. /\ t \in DOMAIN agg.states /\ t \in TargetIds
      /\ meta.keys[t] \in SUBSET Docs /\ a.states[t].outstanding = 0
  BY ActiveFacts
<1>2. a \in Aggregators
  BY DEF Like
<1>3. ChangesFit(NewTargetState.changes, meta.keys[t])
  BY NewStateType DEF ChangesFit
<1>4. c \in Aggregators /\ c.states = With(a.states, t, NewTargetState) /\ c.resets = a.resets
  <2>1. c \in Aggregators
    BY <1>1, <1>2, NewStateType, SetStateFacts
  <2> QED BY <1>2, <2>1 DEF SetState, Aggregators
<1>5. NewTargetState.outstanding = a.states[t].outstanding /\ NewTargetState \in TargetStates
  BY <1>1, NewStateType
<1>6. b = RemoveDocumentsFromTarget(c, meta, t, meta.keys[t])
  BY DEF ResetTarget
<1> HIDE DEF c
<1>7. c.states = SetState(a, t, NewTargetState).states
  BY DEF c
<1>8. c \in Like(agg, meta)
  BY <1>1, <1>3, <1>4, <1>5, <1>7, SetStateLike
<1>9. Keeps(c, a, keys, D)
  <2>1. t # QueryTarget \/ StaysIn(NewTargetState, EnsureTargetState(a, t), keys, D)
    BY DEF OfQuery, StaysIn
  <2> HIDE DEF D
  <2> QED BY <1>4, <2>1, SetStateKeeps
<1>10. b \in Like(agg, meta) /\ Keeps(b, c, keys, OfQuery(t, meta.keys[t]))
  BY <1>1, <1>6, <1>8, RemoveDocumentsKeep
<1> DEFINE E == OfQuery(t, meta.keys[t])
<1>11. E \cup D \subseteq D
  BY <1>1 DEF OfQuery
<1>12. Keeps(b, c, keys, E)
  BY <1>10
<1> HIDE DEF D, E
<1>13. Keeps(b, a, keys, D)
  BY <1>9, <1>11, <1>12, KeepsTwice
<1> QED BY <1>10, <1>13 DEF D

\* What hearing m does to what the client has of the query: to what it is given
\* and what it is not deprived of, if it listens; to all, if it does not.
Hears(b, a, keys, m) ==
  /\ QueryTarget \in a.resets => QueryTarget \in b.resets
  /\ \/ QueryTarget \in b.resets
     \/ IF EnsureTargetState(a, QueryTarget).outstanding = 0
          THEN \A d \in Docs :
                 Gives(m, d) \/ (Has(a, keys, d) /\ ~Takes(m, d)) => Has(b, keys, d)
          ELSE \A d \in Docs : Has(a, keys, d) => Has(b, keys, d)

Taken(m) == {d \in Docs : Takes(m, d)}

LEMMA HearsIf ==
  ASSUME NEW agg, NEW meta, NEW a \in Like(agg, meta), NEW b \in Like(agg, meta), NEW keys, NEW m,
         Keeps(b, a, keys, Taken(m)),
         EnsureTargetState(a, QueryTarget).outstanding = 0 =>
           \A d \in Docs : Gives(m, d) => Has(b, keys, d)
  PROVE  Hears(b, a, keys, m)
<1>1. EnsureTargetState(b, QueryTarget).outstanding = EnsureTargetState(a, QueryTarget).outstanding
  BY DEF Like, EnsureTargetState
<1>2. CASE EnsureTargetState(a, QueryTarget).outstanding = 0
  BY <1>2 DEF Hears, Keeps, Taken
<1>3. CASE EnsureTargetState(a, QueryTarget).outstanding # 0
  BY <1>1, <1>3 DEF Hears, Keeps, Has, HasIn
<1> QED BY <1>2, <1>3

LEMMA HearsDocument ==
  ASSUME NEW meta \in Metas, NEW agg, DOMAIN meta.keys \subseteq DOMAIN agg.states,
         NEW a \in Like(agg, meta), NEW keys, keys = meta.keys[QueryTarget],
         QueryTarget \in DOMAIN meta.keys,
         NEW m \in DocMessages, NEW h, MessageFits(h, m),
         NEW b, b = HandleDocumentChange(a, meta, m)
  PROVE  Hears(b, a, keys, m)
<1>1. /\ m.key \in Docs /\ m.update \in Updates /\ m.what = "doc"
      /\ IsFiniteSet(m.in) /\ IsFiniteSet(m.out)
  BY DEF DocMessages
<1> DEFINE u == IF IsFound(m.update) THEN AddDocument(a, meta, m.in, m.key, m.update)
                                     ELSE RemoveDocument(a, meta, m.in, m.key, m.update)
           active == IsActiveTarget(a, meta, QueryTarget)
<1>2. b = RemoveDocument(u, meta, m.out, m.key, m.update)
  BY DEF HandleDocumentChange
<1>3. QueryTarget \in m.in => QueryTarget \notin m.out /\ IsFound(m.update)
  BY <1>1 DEF MessageFits
<1>4. /\ u \in Like(agg, meta) /\ Keeps(u, a, keys, {})
      /\ active /\ QueryTarget \in m.in => Has(u, keys, m.key)
  <2>1. CASE IsFound(m.update)
    BY <1>1, <2>1, AddAllKeeps
  <2>2. CASE ~IsFound(m.update)
    BY <1>1, <1>3, <2>2, RemoveAllKeeps
  <2> QED BY <2>1, <2>2
<1> HIDE DEF u
<1> DEFINE D == IF QueryTarget \in m.out THEN {m.key} ELSE {}
<1>5. b \in Like(agg, meta) /\ Keeps(b, u, keys, D)
  BY <1>1, <1>2, <1>4, RemoveAllKeeps
<1>6. D \cup {} \subseteq Taken(m)
  BY <1>1 DEF Taken, Takes
<1>7. QueryTarget \in m.in => D = {}
  BY <1>3
<1> HIDE DEF D
<1>8. Keeps(b, a, keys, Taken(m))
  BY <1>4, <1>5, <1>6, KeepsTwice
<1>9. EnsureTargetState(a, QueryTarget).outstanding = 0 => active
  BY DEF IsActiveTarget
<1>10. active => \A d \in Docs : Gives(m, d) => Has(b, keys, d)
  BY <1>1, <1>4, <1>5, <1>7 DEF Gives, Keeps
<1> HIDE DEF active
<1> QED BY <1>5, <1>8, <1>9, <1>10, HearsIf

LEMMA HearsFilter ==
  ASSUME NEW meta \in Metas, NEW agg, DOMAIN meta.keys \subseteq DOMAIN agg.states,
         NEW a \in Like(agg, meta), NEW keys, keys = meta.keys[QueryTarget],
         NEW m \in FilterMessages, NEW b, b = HandleExistenceFilter(a, meta, m)
  PROVE  Hears(b, a, keys, m)
<1> DEFINE t == m.target
<1>0. m.what = "filter" /\ \A d : ~Gives(m, d)
  BY DEF FilterMessages, Gives
<1>1. CASE ~IsActiveTarget(a, meta, t)
  <2>1. b = a
    BY <1>1 DEF HandleExistenceFilter
  <2> QED BY <1>0, <2>1, KeepsItself, HearsIf
<1>2. CASE IsActiveTarget(a, meta, t) /\ t \notin DOMAIN meta.lookup
  <2>1. t = QueryTarget
    <3>1. t \in DOMAIN meta.keys
      BY <1>2 DEF IsActiveTarget
    <3> QED BY <1>2, <3>1 DEF Metas
  <2> DEFINE absent == meta.keys[t] \ m.might
             filtered == RemoveDocumentsFromTarget(a, meta, t, absent)
             anew == ResetTarget(filtered, meta, t)
  <2>2. absent \in SUBSET Docs
    BY <1>2, ActiveFacts
  <2>2a. absent \subseteq Taken(m)
    BY <1>0, <2>1, <2>2 DEF Taken, Takes
  <2> HIDE DEF absent
  <2>3. filtered \in Like(agg, meta) /\ Keeps(filtered, a, keys, OfQuery(t, absent))
    BY <2>2, RemoveDocumentsKeep
  <2> DEFINE D == OfQuery(t, absent)
  <2>3a. D \cup {} \subseteq Taken(m) /\ Keeps(filtered, a, keys, D)
    BY <2>2a, <2>3 DEF OfQuery
  <2> HIDE DEF filtered, D
  <2>3b. Keeps(filtered, a, keys, Taken(m))
    BY <2>3a DEF Keeps
  <2>3c. Hears(filtered, a, keys, m)
    BY <1>0, <2>3, <2>3b, HearsIf
  <2>4. Hears(a, a, keys, m)
    BY <1>0, KeepsItself, HearsIf
  <2>5. IsActiveTarget(filtered, meta, t)
    BY <1>2, <2>3, LikeActive
  <2>6. anew \in Aggregators
    BY <2>3, <2>5, ResetTargetLike DEF Like
  <2> HIDE DEF anew
  <2>7. QueryTarget \in [anew EXCEPT !.resets = @ \cup {t}].resets
    BY <2>1, <2>6 DEF Aggregators
  <2>8. Hears([anew EXCEPT !.resets = @ \cup {t}], a, keys, m)
    BY <2>7 DEF Hears
  <2>9. b \in {a, filtered, [anew EXCEPT !.resets = @ \cup {t}]}
    BY <1>2 DEF HandleExistenceFilter, ApplyFilter, absent, filtered, anew
  <2> QED BY <2>3c, <2>4, <2>8, <2>9
<1>3. CASE IsActiveTarget(a, meta, t) /\ t \in DOMAIN meta.lookup
  <2>1. meta.lookup[t] \in Docs /\ t # QueryTarget
    <3>1. meta.lookup \in Partial(LookupIds, Docs)
      BY DEF Metas
    <3>2. meta.lookup[t] \in Docs /\ t \in LookupIds
      BY <1>3, <3>1, PartialIs
    <3> QED BY <3>2, LookupAssumption DEF QueryTarget
  <2>2. Deleted(0) \in Updates
    BY NoUpdateType, BoundAssumption DEF Versions
  <2> DEFINE c == RemoveDocumentFromTarget(a, meta, t, meta.lookup[t], Deleted(0))
  <2>3. c \in Like(agg, meta)
    BY <2>1, <2>2, RemoveDocumentLike
  <2>4. Keeps(c, a, keys, OfQuery(t, {meta.lookup[t]}))
    BY <2>1, RemoveDocumentKeeps DEF Like
  <2>5. Keeps(c, a, keys, Taken(m))
    BY <2>1, <2>4 DEF OfQuery, Keeps
  <2>6. b \in {a, c}
    BY <1>3 DEF HandleExistenceFilter
  <2> HIDE DEF c
  <2> QED BY <1>0, <2>3, <2>5, <2>6, KeepsItself, HearsIf
<1> QED BY <1>1, <1>2, <1>3

LEMMA HearsReset ==
  ASSUME NEW meta \in Metas, NEW agg, DOMAIN meta.keys \subseteq DOMAIN agg.states,
         NEW a \in Like(agg, meta), NEW keys, keys = meta.keys[QueryTarget],
         NEW m \in ResetMessages, NEW b, b = TargetReset(a, meta, m.target)
  PROVE  Hears(b, a, keys, m)
<1>0. m.what = "reset" /\ \A d : ~Gives(m, d)
  BY DEF ResetMessages, Gives
<1>1. CASE ~IsActiveTarget(a, meta, m.target)
  <2>1. b = a
    BY <1>1 DEF TargetReset
  <2> QED BY <1>0, <2>1, KeepsItself, HearsIf
<1>2. CASE IsActiveTarget(a, meta, m.target)
  <2> DEFINE D == OfQuery(m.target, Docs)
  <2>1. b = ResetTarget(a, meta, m.target)
    BY <1>2 DEF TargetReset
  <2>2. b \in Like(agg, meta) /\ Keeps(b, a, keys, D)
    BY <1>2, <2>1, ResetKeeps
  <2>3. D \subseteq Taken(m)
    BY <1>0 DEF OfQuery, Taken, Takes
  <2> HIDE DEF D
  <2>4. Keeps(b, a, keys, Taken(m))
    BY <2>2, <2>3 DEF Keeps
  <2> QED BY <1>0, <2>2, <2>4, HearsIf
<1> QED BY <1>1, <1>2

\* A state with the same changes, and as many answers due.
LEMMA SameIn ==
  ASSUME NEW new, NEW old, new.outstanding = old.outstanding, new.changes = old.changes,
         NEW keys, NEW D
  PROVE  StaysIn(new, old, keys, D)
  BY DEF StaysIn, HasIn

LEMMA HearsCurrent ==
  ASSUME NEW meta \in Metas, NEW agg, DOMAIN meta.keys \subseteq DOMAIN agg.states,
         NEW a \in Like(agg, meta), NEW keys,
         NEW m \in CurrentMessages, NEW b, b = TargetCurrent(a, meta, m.target, m.token)
  PROVE  Hears(b, a, keys, m)
<1> DEFINE t == m.target
<1>0. m.what = "current" /\ m.token \in Versions /\ \A d : ~Gives(m, d)
  BY DEF CurrentMessages, Gives
<1>1. CASE ~IsActiveTarget(a, meta, t)
  <2>1. b = a
    BY <1>1 DEF TargetCurrent
  <2> QED BY <1>0, <2>1, KeepsItself, HearsIf
<1>2. CASE IsActiveTarget(a, meta, t)
  <2>1. a \in Aggregators /\ EnsureTargetState(a, t) \in TargetStates
    BY EnsureType DEF Like
  <2>2. \A p \in BOOLEAN : \A st \in TargetStates :
          LET new == [st EXCEPT !.pending = p, !.current = p]
              told == IF m.token = 0 THEN new ELSE [new EXCEPT !.pending = p, !.token = m.token]
          IN  told.outstanding = st.outstanding /\ told.changes = st.changes
    BY DEF TargetStates
  <2> DEFINE old == EnsureTargetState(a, t)
             new == [old EXCEPT !.pending = TRUE, !.current = TRUE]
             st == UpdateResumeToken(new, m.token)
  <2>3. st.outstanding = old.outstanding /\ st.changes = old.changes
    BY <2>1, <2>2, Zenon DEF UpdateResumeToken
  <2>4. b.states = With(a.states, t, st) /\ b.resets = a.resets
    BY <1>2, <2>1 DEF TargetCurrent, SetState, Aggregators
  <2>5. b \in Like(agg, meta)
    BY <1>0, TargetCurrentLike
  <2> HIDE DEF st
  <2>6. StaysIn(st, old, keys, Taken(m))
    BY <2>3, SameIn
  <2>7. Keeps(b, a, keys, Taken(m))
    BY <2>4, <2>6, SetStateKeeps
  <2> QED BY <1>0, <2>5, <2>7, HearsIf
<1> QED BY <1>1, <1>2

\* The global snapshot is news of no change.
LEMMA NoChangeKeeps ==
  ASSUME NEW meta, NEW a \in Aggregators, NEW token \in Versions, NEW keys,
         NEW b, b = TargetsNoChange(a, meta, token)
  PROVE  Keeps(b, a, keys, {})
<1>1. \A p \in BOOLEAN : \A st \in TargetStates :
        LET told == IF token = 0 THEN st ELSE [st EXCEPT !.pending = p, !.token = token]
        IN  told.outstanding = st.outstanding /\ told.changes = st.changes
  BY DEF TargetStates
<1>2. \A st \in TargetStates :
        /\ UpdateResumeToken(st, token).outstanding = st.outstanding
        /\ UpdateResumeToken(st, token).changes = st.changes
  BY <1>1, Zenon DEF UpdateResumeToken
<1>3. /\ DOMAIN b.states = DOMAIN a.states /\ b.resets = a.resets
      /\ \A t \in DOMAIN a.states : b.states[t] \in {a.states[t], UpdateResumeToken(a.states[t], token)}
  BY DEF TargetsNoChange, Aggregators
<1>4. EnsureTargetState(a, QueryTarget) \in TargetStates
  BY EnsureType
<1>5. /\ EnsureTargetState(b, QueryTarget).outstanding = EnsureTargetState(a, QueryTarget).outstanding
      /\ EnsureTargetState(b, QueryTarget).changes = EnsureTargetState(a, QueryTarget).changes
  BY <1>2, <1>3, <1>4 DEF EnsureTargetState
<1>6. StaysIn(EnsureTargetState(b, QueryTarget), EnsureTargetState(a, QueryTarget), keys, {})
  BY <1>5, SameIn
<1> QED BY <1>3, <1>6 DEF Keeps, Has, StaysIn

\* The same of the query.
QueryAlike(b, a) ==
  /\ b.resets = a.resets
  /\ EnsureTargetState(b, QueryTarget) = EnsureTargetState(a, QueryTarget)

LEMMA OtherDocumentLeaves ==
  ASSUME NEW meta, NEW a \in Aggregators, NEW t, t # QueryTarget, NEW key, NEW update,
         NEW b, b = RemoveDocumentFromTarget(a, meta, t, key, update)
  PROVE  QueryAlike(b, a)
<1> DEFINE old == EnsureTargetState(a, t)
           changes == IF key \in meta.keys[t] THEN With(old.changes, key, "removed")
                                              ELSE Without(old.changes, key)
           st == [old EXCEPT !.pending = TRUE, !.changes = changes]
<1>1. b = a \/ (b.states = With(a.states, t, st) /\ b.resets = a.resets)
  BY DEF RemoveDocumentFromTarget, SetState, Aggregators
<1> HIDE DEF st
<1> QED BY <1>1 DEF QueryAlike, EnsureTargetState, With

LEMMA SynthesizeLeaves ==
  ASSUME NEW meta \in Metas, NEW agg, DOMAIN meta.keys \subseteq DOMAIN agg.states,
         NEW a \in Like(agg, meta), NEW version \in Versions,
         NEW b, b = SynthesizeDeletes(a, meta, version)
  PROVE  b \in Like(agg, meta) /\ QueryAlike(b, a)
<1> DEFINE S == {t \in DOMAIN a.states \cap DOMAIN meta.lookup :
                   a.states[t].current /\ IsActiveTarget(a, meta, t)}
           family == [T \in SUBSET S |-> {r \in Like(agg, meta) : QueryAlike(r, a)}]
<1>1. IsFiniteSet(S)
  <2>1. a.states \in Partial(TargetIds, TargetStates)
    BY DEF Like, Aggregators
  <2>2. IsFiniteSet(DOMAIN a.states) /\ S \in SUBSET DOMAIN a.states
    BY <2>1, PartialIs
  <2> QED BY <2>2, FS_Subset
<1>2. \A t \in S : meta.lookup[t] \in Docs /\ t # QueryTarget
  <2>1. meta.lookup \in Partial(LookupIds, Docs)
    BY DEF Metas
  <2>2. \A t \in S : meta.lookup[t] \in Docs /\ t \in LookupIds
    BY <2>1, PartialIs
  <2> QED BY <2>2, LookupAssumption DEF QueryTarget
<1>3. \A T \in SUBSET S : \A x \in T : \A r \in family[T \ {x}] :
        SynthesizeDelete(r, meta, x, version) \in family[T]
  <2> SUFFICES ASSUME NEW x \in S, NEW r \in Like(agg, meta), QueryAlike(r, a)
               PROVE  /\ SynthesizeDelete(r, meta, x, version) \in Like(agg, meta)
                      /\ QueryAlike(SynthesizeDelete(r, meta, x, version), a)
    OBVIOUS
  <2> DEFINE q == RemoveDocumentFromTarget(r, meta, x, meta.lookup[x], Deleted(version))
  <2>1. q \in Like(agg, meta)
    BY <1>2, NoUpdateType, RemoveDocumentLike
  <2>2. QueryAlike(q, r)
    BY <1>2, OtherDocumentLeaves DEF Like
  <2>3. SynthesizeDelete(r, meta, x, version) \in {r, q}
    BY DEF SynthesizeDelete
  <2> HIDE DEF q
  <2> QED BY <2>1, <2>2, <2>3 DEF QueryAlike
<1>4. a \in family[{}]
  BY DEF QueryAlike
<1>5. S = {t \in DOMAIN a.states \cap DOMAIN meta.lookup :
             a.states[t].current /\ IsActiveTarget(a, meta, t)}
  OBVIOUS
<1> HIDE DEF family, S
<1>6. b \in family[S]
  BY <1>1, <1>3, <1>4, <1>5, SynthesizeFold
<1> QED BY <1>6 DEF family

\* A target without an answer due has changed, and its token is of this version.
PrimedFor(state, version) == state.outstanding = 0 => state.pending /\ state.token = version

LEMMA NoChangePrimes ==
  ASSUME NEW meta, NEW a \in Aggregators, NEW version \in Versions \ {0},
         QueryTarget \in DOMAIN meta.keys, QueryTarget \in DOMAIN a.states,
         NEW b, b = TargetsNoChange(a, meta, version)
  PROVE  PrimedFor(EnsureTargetState(b, QueryTarget), version)
<1> DEFINE st == a.states[QueryTarget]
           new == UpdateResumeToken(st, version)
<1>1. st \in TargetStates
  <2>1. a.states \in Partial(TargetIds, TargetStates)
    BY DEF Aggregators
  <2> QED BY <2>1, PartialIs
<1>2. \A p \in BOOLEAN : \A x \in TargetStates :
        /\ [x EXCEPT !.pending = p, !.token = version].pending = p
        /\ [x EXCEPT !.pending = p, !.token = version].token = version
        /\ [x EXCEPT !.pending = p, !.token = version].outstanding = x.outstanding
  BY DEF TargetStates
<1>3. new.pending /\ new.token = version /\ new.outstanding = st.outstanding
  BY <1>1, <1>2, Zenon DEF UpdateResumeToken
<1>4. IsActiveTarget(a, meta, QueryTarget) <=> st.outstanding = 0
  BY DEF IsActiveTarget, EnsureTargetState
<1>5. /\ QueryTarget \in DOMAIN b.states
      /\ b.states[QueryTarget] = IF st.outstanding = 0 THEN new ELSE st
  BY <1>4 DEF TargetsNoChange, Aggregators
<1> HIDE DEF new
<1> QED BY <1>3, <1>5 DEF PrimedFor, EnsureTargetState

\* An answer about the query leaves the keys alone, and forgets the changes.
LEMMA HearsAck ==
  ASSUME NEW a \in Aggregators, NEW m \in AckMessages, NEW t, t = m.target,
         EnsureTargetState(a, t).outstanding # 0,
         NEW keys,
         NEW b, b = IF m.what = "added" THEN TargetAdded(a, t) ELSE TargetRemoved(a, t)
  PROVE  Hears(b, a, keys, m)
<1> DEFINE old == EnsureTargetState(a, t)
           less == [old EXCEPT !.outstanding = @ - 1]
           st == IF less.outstanding = 0 THEN ClearPendingChanges(less) ELSE less
<1>1. old \in TargetStates /\ old.outstanding # 0
  BY EnsureType DEF AckMessages
<1> HIDE DEF old
<1>2. less \in TargetStates
  BY <1>1 DEF TargetStates
<1> HIDE DEF less
<1>3. \A p \in BOOLEAN : \A x \in TargetStates :
        [x EXCEPT !.pending = p, !.changes = <<>>].changes = <<>>
  BY DEF TargetStates
<1>4. \A x \in TargetStates : ClearPendingChanges(x).changes = <<>>
  BY <1>3, Zenon DEF ClearPendingChanges
<1>5. less.outstanding = 0 => DOMAIN ClearPendingChanges(less).changes = {}
  BY <1>2, <1>4, PartialEmpty
<1>6. StaysIn(st, old, keys, {}) /\ (less.outstanding # 0 => StaysIn(less, old, keys, {}))
  BY <1>1, <1>5 DEF StaysIn, HasIn
<1>7. StaysIn(NewTargetState, old, keys, {})
  BY <1>1, PartialEmpty DEF StaysIn, HasIn, NewTargetState
<1> DEFINE added == SetState(a, t, st)
           less2 == SetState(a, t, less)
           left == RemoveTarget(a, t)
<1> HIDE DEF st
<1>8. /\ added.states = With(a.states, t, st) /\ added.resets = a.resets
      /\ less2.states = With(a.states, t, less) /\ less2.resets = a.resets
      /\ left.states = Without(a.states, t) /\ left.resets = a.resets
  BY DEF SetState, RemoveTarget, Aggregators
<1>9. CASE m.what = "added"
  <2>1. b = added
    BY <1>9 DEF TargetAdded, less, st, old
  <2> HIDE DEF added
  <2>2. Keeps(b, a, keys, {})
    BY <1>6, <1>8, <2>1, SetStateKeeps DEF old
  <2> QED BY <1>9, <2>2 DEF Hears, Keeps, Gives
<1>10. CASE m.what = "removed"
  <2>1. b = IF less.outstanding = 0 THEN left ELSE less2
    BY <1>10 DEF TargetRemoved, less, old
  <2> HIDE DEF left, less2
  <2>2. CASE less.outstanding # 0
    <3>1. Keeps(b, a, keys, {})
      BY <1>6, <1>8, <2>1, <2>2, SetStateKeeps DEF old
    <3> QED BY <1>10, <3>1 DEF Hears, Keeps, Gives
  <2>3. CASE less.outstanding = 0
    <3>1. /\ EnsureTargetState(b, t) = NewTargetState
          /\ t # QueryTarget => EnsureTargetState(b, QueryTarget) = EnsureTargetState(a, QueryTarget)
      BY <1>8, <2>1, <2>3 DEF EnsureTargetState, Without, Restrict
    <3>2. Keeps(b, a, keys, {})
      BY <1>7, <1>8, <2>1, <2>3, <3>1 DEF Keeps, Has, StaysIn, old
    <3> QED BY <1>10, <3>2 DEF Hears, Keeps, Gives
  <2> QED BY <2>2, <2>3
<1> QED BY <1>9, <1>10 DEF AckMessages

-----------------------------------------------------------------------------
(* What has been promised, as the wire changes.                            *)

LEMMA HeardTail ==
  ASSUME NEW w \in Seq(Messages), w # <<>>
  PROVE  /\ \A i \in Heard(Tail(w)) :
              i \in Nat /\ i >= 1 /\ i + 1 \in Heard(w) /\ Tail(w)[i] = w[i + 1]
         /\ \A i \in Heard(w) :
              i \in Nat /\ i >= 1 /\ (i # 1 => i - 1 \in Heard(Tail(w)) /\ Tail(w)[i - 1] = w[i])
         /\ 1 \in Heard(w) <=> Acks(w, QueryTarget) = {}
<1> DEFINE v == Tail(w)
           A == Acks(w, QueryTarget)
           B == Acks(v, QueryTarget)
<1>1. /\ v \in Seq(Messages) /\ Len(w) \in Nat /\ 1 \in DOMAIN w
      /\ DOMAIN w = 1 .. Len(w) /\ DOMAIN v = 1 .. Len(w) - 1
      /\ \A i \in DOMAIN v : i + 1 \in DOMAIN w /\ v[i] = w[i + 1]
      /\ \A i \in DOMAIN w : i # 1 => i - 1 \in DOMAIN v /\ v[i - 1] = w[i]
  BY TailFacts
<1>2. /\ \A i \in B : i \in Nat /\ i + 1 \in A
      /\ \A i \in A : i # 1 => i - 1 \in B
  BY AcksTail
<1>3. A \subseteq DOMAIN w /\ B \subseteq DOMAIN v
  BY DEF Acks
<1>4. Heard(w) = {i \in DOMAIN w : \A j \in A : j < i} /\ Heard(v) = {i \in DOMAIN v : \A j \in B : j < i}
  BY DEF Heard
<1> HIDE DEF v, A, B
<1>5. ASSUME NEW i \in Heard(v)
      PROVE  i \in Nat /\ i >= 1 /\ i + 1 \in Heard(w) /\ v[i] = w[i + 1]
  <2>1. i \in DOMAIN v /\ i \in Nat /\ i >= 1 /\ i + 1 \in DOMAIN w /\ v[i] = w[i + 1]
    BY <1>1, <1>4
  <2>2. ASSUME NEW j \in A PROVE j < i + 1
    <3>1. j \in Nat
      BY <1>1, <1>3
    <3>2. CASE j = 1
      BY <2>1, <3>2
    <3>3. CASE j # 1
      <4>1. j - 1 < i
        BY <1>2, <1>4, <3>3
      <4> QED BY <2>1, <3>1, <4>1
    <3> QED BY <3>2, <3>3
  <2> QED BY <1>4, <2>1, <2>2
<1>6. ASSUME NEW i \in Heard(w)
      PROVE  i \in Nat /\ i >= 1 /\ (i # 1 => i - 1 \in Heard(v) /\ v[i - 1] = w[i])
  <2>1. i \in DOMAIN w /\ i \in Nat /\ i >= 1
    BY <1>1, <1>4
  <2>2. SUFFICES ASSUME i # 1 PROVE i - 1 \in Heard(v) /\ v[i - 1] = w[i]
    BY <2>1
  <2>3. i - 1 \in DOMAIN v /\ v[i - 1] = w[i]
    BY <1>1, <2>1, <2>2
  <2>4. ASSUME NEW j \in B PROVE j < i - 1
    <3>1. j \in Nat /\ j + 1 < i
      BY <1>2, <1>4
    <3> QED BY <2>1, <3>1
  <2> QED BY <1>4, <2>3, <2>4
<1>7. 1 \in Heard(w) <=> A = {}
  <2>1. \A j \in A : ~(j < 1)
    BY <1>1, <1>3
  <2> QED BY <1>1, <1>4, <2>1
<1> QED BY <1>5, <1>6, <1>7 DEF v, A

\* J is I without the first message, I and J sets of places in w and its tail.
Shifted(v, J, w, I) ==
  /\ \A i \in J : i \in Nat /\ i + 1 \in I /\ v[i] = w[i + 1]
  /\ \A i \in I : i \in Nat /\ (i # 1 => i - 1 \in J /\ v[i - 1] = w[i])

LEMMA PromiseKept ==
  ASSUME NEW v, NEW J, NEW w, NEW I, Shifted(v, J, w, I), NEW d, NEW has, NEW now,
         Promised(w, I, d, has),
         1 \in I => (Gives(w[1], d) \/ (has /\ ~Takes(w[1], d)) => now),
         1 \notin I => (has => now)
  PROVE  Promised(v, J, d, now)
<1>1. now \/ \E i \in J : Gives(v[i], d)
  <2>1. ASSUME NEW i \in I, i # 1, Gives(w[i], d) PROVE \E j \in J : Gives(v[j], d)
    BY <2>1 DEF Shifted
  <2>2. CASE has
    BY <2>1, <2>2 DEF Promised, Shifted
  <2>3. CASE ~has
    BY <2>1, <2>3 DEF Promised, Shifted
  <2> QED BY <2>2, <2>3
<1>2. ASSUME NEW j \in J, Takes(v[j], d) PROVE \E i \in J : j < i /\ Gives(v[i], d)
  <2>1. j \in Nat /\ j + 1 \in I /\ v[j] = w[j + 1]
    BY DEF Shifted
  <2>2. PICK i \in I : j + 1 < i /\ Gives(w[i], d)
    BY <1>2, <2>1 DEF Promised
  <2>3. i \in Nat /\ i # 1
    BY <2>1, <2>2 DEF Shifted
  <2>4. i - 1 \in J /\ v[i - 1] = w[i] /\ j < i - 1
    BY <2>1, <2>2, <2>3 DEF Shifted
  <2> QED BY <2>2, <2>4
<1> QED BY <1>1, <1>2 DEF Promised

\* A message has been heard.
LEMMA LearnsTail ==
  ASSUME NEW h, NEW w \in Seq(Messages), w # <<>>, NEW a, NEW b, NEW keys, NEW asOf,
         EnsureTargetState(a, QueryTarget).outstanding = 0 <=> Acks(w, QueryTarget) = {},
         Hears(b, a, keys, w[1]), Learns(h, w, a, keys, asOf)
  PROVE  Learns(h, Tail(w), b, keys, asOf)
<1> DEFINE v == Tail(w)
           J(n) == Before(Heard(v), n)
           I(n) == Before(Heard(w), n)
<1>1. CASE QueryTarget \in b.resets
  BY <1>1 DEF Learns
<1>2. CASE QueryTarget \notin b.resets
  <2>1. SnapshotsTrue(h, w, a, keys) /\ ServerTrue(h, w, a, keys, asOf)
    BY <1>2 DEF Learns, Hears
  <2>2. /\ Shifted(v, Heard(v), w, Heard(w))
        /\ 1 \in Heard(w) <=> EnsureTargetState(a, QueryTarget).outstanding = 0
    BY HeardTail DEF Shifted
  <2>2a. \A n \in Heard(v) : n \in Nat /\ n >= 1
    BY HeardTail
  <2>2b. v = Tail(w)
    OBVIOUS
  <2> HIDE DEF v
  <2>3. ASSUME NEW n \in Heard(v)
        PROVE  /\ n + 1 \in Heard(w) /\ v[n] = w[n + 1] /\ Shifted(v, J(n), w, I(n + 1))
               /\ 1 \in I(n + 1) <=> 1 \in Heard(w)
    <3>1. n \in Nat /\ n >= 1 /\ n + 1 \in Heard(w) /\ v[n] = w[n + 1]
      BY <2>2, <2>2a DEF Shifted
    <3>2. ASSUME NEW i \in J(n) PROVE i \in Nat /\ i + 1 \in I(n + 1) /\ v[i] = w[i + 1]
      <4>1. i \in Heard(v) /\ i < n
        BY DEF Before
      <4>2. i \in Nat /\ i + 1 \in Heard(w) /\ v[i] = w[i + 1] /\ i + 1 < n + 1
        BY <2>2, <3>1, <4>1 DEF Shifted
      <4> QED BY <4>2 DEF Before
    <3>3. ASSUME NEW i \in I(n + 1) PROVE i \in Nat /\ (i # 1 => i - 1 \in J(n) /\ v[i - 1] = w[i])
      <4>1. i \in Heard(w) /\ i < n + 1
        BY DEF Before
      <4>2. i \in Nat /\ (i # 1 => i - 1 \in Heard(v) /\ v[i - 1] = w[i] /\ i - 1 < n)
        BY <2>2, <3>1, <4>1 DEF Shifted
      <4> QED BY <4>2 DEF Before
    <3>4. 1 \in I(n + 1) <=> 1 \in Heard(w)
      BY <3>1 DEF Before
    <3> HIDE DEF I, J
    <3> QED BY <3>1, <3>2, <3>3, <3>4 DEF Shifted
  <2>4. ASSUME NEW d \in Docs
        PROVE  /\ 1 \in Heard(w) =>
                    (Gives(w[1], d) \/ (Has(a, keys, d) /\ ~Takes(w[1], d)) => Has(b, keys, d))
               /\ 1 \notin Heard(w) => (Has(a, keys, d) => Has(b, keys, d))
    BY <1>2, <2>2 DEF Hears
  <2> HIDE DEF I, J
  <2>5. SnapshotsTrue(h, v, b, keys)
    <3> SUFFICES ASSUME NEW n \in Heard(v), v[n].what = "snapshot", NEW d \in Told(h, v[n].version)
                 PROVE  Promised(v, J(n), d, Has(b, keys, d))
      BY DEF SnapshotsTrue, J
    <3>1. Promised(w, I(n + 1), d, Has(a, keys, d))
      BY <2>1, <2>3 DEF SnapshotsTrue, I
    <3>2. d \in Docs
      BY DEF Told
    <3> QED BY <2>3, <2>4, <3>1, <3>2, PromiseKept
  <2>6. ServerTrue(h, v, b, keys, asOf)
    <3> SUFFICES ASSUME NEW d \in Told(h, asOf)
                 PROVE  Promised(v, Heard(v), d, Has(b, keys, d))
      BY DEF ServerTrue
    <3>1. Promised(w, Heard(w), d, Has(a, keys, d)) /\ d \in Docs
      BY <2>1 DEF ServerTrue, Told
    <3> QED BY <2>2, <2>4, <3>1, PromiseKept
  <2> QED BY <2>2b, <2>5, <2>6 DEF Learns
<1> QED BY <1>1, <1>2

\* v is w and then messages that do not answer about the query.
Extended(v, w) ==
  /\ \A i \in DOMAIN w : i \in DOMAIN v /\ v[i] = w[i]
  /\ \A i \in DOMAIN v \ DOMAIN w :
       ~(v[i].what \in {"added", "removed"} /\ v[i].target = QueryTarget)

LEMMA HeardExtended ==
  ASSUME NEW w \in Seq(Messages), NEW v \in Seq(Messages), Extended(v, w)
  PROVE  /\ Heard(w) = Heard(v) \cap DOMAIN w
         /\ Acks(v, QueryTarget) = Acks(w, QueryTarget)
         /\ \A i \in DOMAIN v \ DOMAIN w : i \in Heard(v) /\ \A j \in DOMAIN w : j < i
         /\ \A n \in DOMAIN w : Before(Heard(v), n) = Before(Heard(w), n)
<1>1. Acks(v, QueryTarget) = Acks(w, QueryTarget)
  BY DEF Acks, Extended
<1>2. /\ DOMAIN w = 1 .. Len(w) /\ DOMAIN v = 1 .. Len(v)
      /\ Len(w) \in Nat /\ Len(v) \in Nat
  OBVIOUS
<1>3. DOMAIN w \subseteq DOMAIN v /\ Acks(w, QueryTarget) \subseteq DOMAIN w
  BY DEF Extended, Acks
<1>4. \A i \in DOMAIN v \ DOMAIN w : \A j \in DOMAIN w : j < i
  BY <1>2
<1>5. Heard(w) = Heard(v) \cap DOMAIN w
  BY <1>1, <1>3 DEF Heard
<1>6. \A i \in DOMAIN v \ DOMAIN w : i \in Heard(v)
  BY <1>1, <1>3, <1>4 DEF Heard
<1>7. ASSUME NEW n \in DOMAIN w PROVE Before(Heard(v), n) = Before(Heard(w), n)
  <2>1. \A i \in Heard(v) : i < n => i \in DOMAIN w
    <3>1. \A i \in Heard(v) : i \in DOMAIN v
      BY DEF Heard
    <3> QED BY <1>2, <3>1
  <2> QED BY <1>5, <2>1 DEF Before
<1> QED BY <1>1, <1>4, <1>5, <1>6, <1>7

LEMMA SnapshotsKept ==
  ASSUME NEW h, NEW w \in Seq(Messages), NEW v \in Seq(Messages), Extended(v, w),
         \A i \in DOMAIN v \ DOMAIN w : v[i].what # "snapshot",
         NEW a, NEW b, NEW keys, \A d : Has(b, keys, d) <=> Has(a, keys, d),
         SnapshotsTrue(h, w, a, keys)
  PROVE  SnapshotsTrue(h, v, b, keys)
<1> SUFFICES ASSUME NEW n \in Heard(v), v[n].what = "snapshot", NEW d \in Told(h, v[n].version)
             PROVE  Promised(v, Before(Heard(v), n), d, Has(b, keys, d))
  BY DEF SnapshotsTrue
<1>1. \A i \in DOMAIN w : v[i] = w[i]
  BY DEF Extended
<1>2. n \in DOMAIN w
  BY DEF Heard
<1>3. n \in Heard(w) /\ v[n] = w[n] /\ Before(Heard(v), n) = Before(Heard(w), n)
  BY <1>1, <1>2, HeardExtended
<1>4. Promised(w, Before(Heard(w), n), d, Has(a, keys, d))
  BY <1>3 DEF SnapshotsTrue
<1>5. \A i \in Before(Heard(w), n) : v[i] = w[i]
  BY <1>1 DEF Before, Heard
<1> QED BY <1>3, <1>4, <1>5 DEF Promised

\* A message that takes no document from the query, and is no snapshot.
Mild(m) == m.what # "snapshot" /\ \A d \in Docs : ~Takes(m, d)

LEMMA LearnsMore ==
  ASSUME NEW h, NEW w \in Seq(Messages), NEW v \in Seq(Messages), Extended(v, w),
         \A i \in DOMAIN v \ DOMAIN w : Mild(v[i]),
         NEW a, NEW b, b.resets = a.resets,
         EnsureTargetState(b, QueryTarget) = EnsureTargetState(a, QueryTarget),
         NEW keys, NEW asOf, Learns(h, w, a, keys, asOf)
  PROVE  Learns(h, v, b, keys, asOf)
<1>1. CASE QueryTarget \in b.resets
  BY <1>1 DEF Learns
<1>2. CASE QueryTarget \notin b.resets
  <2>1. SnapshotsTrue(h, w, a, keys) /\ ServerTrue(h, w, a, keys, asOf)
    BY <1>2 DEF Learns
  <2>2. \A d : Has(b, keys, d) <=> Has(a, keys, d)
    BY DEF Has
  <2>3. \A i \in DOMAIN w : v[i] = w[i]
    BY DEF Extended
  <2>4. SnapshotsTrue(h, v, b, keys)
    BY <2>1, <2>2, SnapshotsKept DEF Mild
  <2>5. ServerTrue(h, v, b, keys, asOf)
    <3> SUFFICES ASSUME NEW d \in Told(h, asOf)
                 PROVE  Promised(v, Heard(v), d, Has(b, keys, d))
      BY DEF ServerTrue
    <3>1. Promised(w, Heard(w), d, Has(a, keys, d)) /\ d \in Docs
      BY <2>1 DEF ServerTrue, Told
    <3>2. Heard(w) = Heard(v) \cap DOMAIN w /\ \A i \in Heard(v) : i \in DOMAIN v
      BY HeardExtended DEF Heard
    <3>3. \A j \in Heard(v) : Takes(v[j], d) => j \in Heard(w) /\ v[j] = w[j]
      BY <2>3, <3>1, <3>2 DEF Mild
    <3>4. \A i \in Heard(w) : i \in Heard(v) /\ v[i] = w[i]
      BY <2>3, <3>2
    <3> QED BY <2>2, <3>1, <3>3, <3>4 DEF Promised
  <2> QED BY <2>4, <2>5 DEF Learns
<1> QED BY <1>1, <1>2

LEMMA AppendedExtended ==
  ASSUME NEW v, NEW w, Appended(v, w, LookupIds)
  PROVE  Extended(v, w) /\ \A i \in DOMAIN v \ DOMAIN w : Mild(v[i])
<1>1. QueryTarget \notin LookupIds
  BY LookupAssumption DEF QueryTarget
<1> QED BY <1>1 DEF Appended, Extended, Mild, Takes

\* Of a step that does not touch the query.
LEMMA AsideLearns ==
  ASSUME NEW h, NEW s, NEW r, Aside(r, s), NEW keys, NEW asOf,
         s.server.wire \in Seq(Messages), r.server.wire \in Seq(Messages),
         Learns(h, s.server.wire, s.client.agg, keys, asOf)
  PROVE  Learns(h, r.server.wire, r.client.agg, keys, asOf)
<1>1. /\ Extended(r.server.wire, s.server.wire)
      /\ \A i \in DOMAIN r.server.wire \ DOMAIN s.server.wire : Mild(r.server.wire[i])
  BY AppendedExtended DEF Aside
<1> QED BY <1>1, LearnsMore DEF Aside

\* What is on its way is not heeded, and what the keys have is what is asked for.
LEMMA DeafLearns ==
  ASSUME NEW h, NEW s, Deaf(s), NEW keys, NEW asOf, Told(h, asOf) \subseteq keys
  PROVE  Learns(h, s.server.wire, s.client.agg, keys, asOf)
<1>1. SnapshotsTrue(h, s.server.wire, s.client.agg, keys)
  BY DEF Deaf, SnapshotsTrue
<1>2. ServerTrue(h, s.server.wire, s.client.agg, keys, asOf)
  BY DEF Deaf, ServerTrue, Promised, Has, HasIn
<1> QED BY <1>1, <1>2 DEF Learns

-----------------------------------------------------------------------------
(* What an event leaves of what was promised.                              *)

LEMMA AppendedFits ==
  ASSUME NEW h, NEW v, NEW w, NEW T, Appended(v, w, T), WireFits(h, w)
  PROVE  WireFits(h, v)
  BY DEF Appended, WireFits, MessageFits

\* The keys after an event stand for the version of its token.
Brings(h, s, event) ==
  LET keys == KeysAfter(s.disk.keys, event)
      last == LastAfter(s.disk.last, event)
      token == TokenAfter(s.client.token, event)
  IN  /\ s.disk.last <= last /\ last <= Len(h)
      /\ s.client.listening =>
           /\ FreeAfter(s.client.limboFree, event) <= token /\ token <= last
           /\ s.client.targets[QueryTarget] <= last
           /\ Told(h, token) \subseteq keys /\ Told(h, s.client.targets[QueryTarget]) \subseteq keys

LEMMA AppliedCovers ==
  ASSUME NEW h, NEW s, Good(s), NEW r, Good(r), NEW event, Applied(r, s, event),
         DiskMarks(h, s.disk), Complete(h, s), Brings(h, s, event)
  PROVE  Covered(h, r)
<1> DEFINE keys == KeysAfter(s.disk.keys, event)
           last == LastAfter(s.disk.last, event)
           token == TokenAfter(s.client.token, event)
           free == FreeAfter(s.client.limboFree, event)
<1>0. s.disk \in Disks /\ r.disk \in Disks /\ s \in Steps /\ r \in Steps
  BY StepTypes DEF Good, Sound, Whole
<1>1. /\ s.disk.last \in Nat /\ s.disk.token \in Nat /\ s.disk.limboFree \in Nat
      /\ r.disk.last \in Nat /\ r.disk.token \in Nat /\ r.disk.limboFree \in Nat
  BY <1>0 DEF Disks, Versions
<1>2. r.client.listening = s.client.listening /\ r.disk.last = last
  BY DEF Applied
<1>3. /\ s.disk.last <= last /\ last <= Len(h)
      /\ s.client.listening =>
           /\ free <= token /\ token <= last
           /\ s.client.targets[QueryTarget] <= last
           /\ Told(h, token) \subseteq keys /\ Told(h, s.client.targets[QueryTarget]) \subseteq keys
  BY DEF Brings
<1>4. /\ s.disk.limboFree <= s.disk.token /\ s.disk.token <= s.disk.last
      /\ Told(h, s.disk.token) \subseteq s.disk.keys
  BY DEF DiskMarks
<1> HIDE DEF keys, last, token, free
<1>5. SameMarks(r, s) => DiskMarks(h, r.disk)
  <2>1. SUFFICES ASSUME SameMarks(r, s) PROVE DiskMarks(h, r.disk)
    OBVIOUS
  <2>2. r.disk.token = s.disk.token /\ r.disk.limboFree = s.disk.limboFree /\ r.disk.keys = s.disk.keys
    BY <2>1 DEF SameMarks
  <2>3. s.disk.token <= r.disk.last
    BY <1>1, <1>2, <1>3, <1>4
  <2> QED BY <1>1, <1>2, <1>3, <1>4, <2>2, <2>3 DEF DiskMarks
<1>6. CASE ~s.client.listening
  <2>1. SameMarks(r, s)
    BY <1>6 DEF Applied
  <2> QED BY <1>2, <1>5, <1>6, <2>1 DEF Covered, ClientMarks, Complete
<1>7. CASE s.client.listening
  <2>1. /\ r.client.token = token /\ r.client.limboFree \in {free, token} /\ r.disk.keys = keys
        /\ SameMarks(r, s) \/ (r.disk.token = token /\ r.disk.limboFree \in {free, token})
        /\ \A d \in Docs \ r.client.view.docs :
             r.disk.cache[d].value = "in" =>
               r.disk.cache[d] = s.disk.cache[d] /\ d \notin s.client.view.docs
    BY <1>7 DEF Applied, keys, token, free
  <2>2. r.client.token \in Nat
    <3>1. r.client.token \in Versions
      BY <1>0, StepTypes
    <3> QED BY <3>1 DEF Versions
  <2>3. DiskMarks(h, r.disk)
    <3>1. CASE SameMarks(r, s)
      BY <1>5, <3>1
    <3>2. CASE ~SameMarks(r, s)
      BY <1>1, <1>2, <1>3, <1>7, <2>1, <2>2, <3>2 DEF DiskMarks
    <3> QED BY <3>1, <3>2
  <2>4. r.client.view.synced = keys
    BY <1>2, <1>7, <2>1 DEF Good, Follows
  <2>5. r.client.targets[QueryTarget] = s.client.targets[QueryTarget]
    <3>1. QueryTarget \in DOMAIN s.client.targets
      BY <1>7 DEF Good, Sound, Whole, TargetsMatch
    <3> QED BY <3>1 DEF Applied, Aside, QuerySame
  <2>6. ClientMarks(h, r.client, r.disk.last)
    BY <1>2, <1>3, <1>7, <2>1, <2>2, <2>4, <2>5 DEF ClientMarks
  <2>7. Complete(h, r)
    <3> SUFFICES ASSUME NEW d \in Matching(r.disk) \ r.client.view.docs
                 PROVE  \E v \in (r.disk.cache[d].read .. r.disk.last) \ {0} :
                          h[v][d].value # "in"
      BY DEF Complete
    <3>1. d \in Docs \ r.client.view.docs /\ r.disk.cache[d].value = "in"
      BY DEF Matching
    <3>2. r.disk.cache[d] = s.disk.cache[d] /\ d \in Matching(s.disk) \ s.client.view.docs
      BY <2>1, <3>1 DEF Matching
    <3>3. PICK v \in (s.disk.cache[d].read .. s.disk.last) \ {0} : h[v][d].value # "in"
      BY <1>7, <3>2 DEF Complete
    <3>4. s.disk.cache[d].read \in Nat
      BY <1>0, <3>1 DEF Disks, Entries, Versions
    <3>5. v \in (r.disk.cache[d].read .. r.disk.last) \ {0}
      BY <1>1, <1>2, <1>3, <3>2, <3>3, <3>4
    <3> QED BY <3>3, <3>5
  <2> QED BY <2>3, <2>6, <2>7 DEF Covered
<1> QED BY <1>6, <1>7

-----------------------------------------------------------------------------
(* Messages.                                                               *)

\* Requests and messages change the aggregator, the wire and the tokens.
LEMMA StaysSound ==
  ASSUME NEW s, NEW limbo, Sound(s, limbo), NEW r \in Steps, SameBesides(r.client, s.client),
         DOMAIN r.client.targets = DOMAIN s.client.targets, Connected(r.client, r.server),
         Fits(r.client.agg, Meta(s.client))
  PROVE  Sound(r, limbo)
<1>1. Meta(r.client) = Meta(s.client)
  BY DEF SameBesides, Meta
<1>2. TargetsMatch(r.client) /\ Pumped(r.client) /\ Queued(r.client, limbo)
  BY DEF SameBesides, Sound, Whole, TargetsMatch, Pumped, Queued, Resolved
<1> QED BY <1>1, <1>2 DEF Sound, Whole

LEMMA StaysGood ==
  ASSUME NEW s, Good(s), NEW r \in Steps, SameBesides(r.client, s.client), r.disk = s.disk,
         DOMAIN r.client.targets = DOMAIN s.client.targets, Connected(r.client, r.server),
         Fits(r.client.agg, Meta(s.client))
  PROVE  Good(r)
<1>1. Sound(r, s.client.view.limbo)
  BY StaysSound DEF Good
<1>2. Follows(r)
  BY StillFollows DEF Good, SameShown, SameBesides
<1> QED BY <1>1, <1>2 DEF Good, Resting, SameBesides

\* The query cannot be refused.
LEMMA QueryNotRefused ==
  ASSUME NEW w \in Seq(Messages)
  PROVE  NotRefused(w, QueryTarget)
<1>1. \A m \in Messages : m.what = "refused" => m.target \in LookupIds
  BY DEF Messages, AckMessages, RefusedMessages, ResetMessages, CurrentMessages,
         FilterMessages, DocMessages, SnapshotMessages
<1>2. QueryTarget \notin LookupIds
  BY LookupAssumption DEF QueryTarget
<1>3. \A i \in DOMAIN w : w[i] \in Messages
  OBVIOUS
<1> QED BY <1>1, <1>2, <1>3 DEF NotRefused

\* The query, if it is listened to, is watched anew.
Rewatched(r, s) ==
  /\ r.disk = s.disk /\ SameBesides(r.client, s.client)
  /\ Appended(r.server.wire, s.server.wire, TargetIds)
  /\ QueryTarget \in DOMAIN s.client.targets => ListenedFrom(r, 0)

LEMMA Rewatches ==
  ASSUME NEW s, Good(s), s.client.open, NEW T, Cleared(s.client.agg, T)
  PROVE  LET r == Rewatch(s, QueryTarget)
         IN  Good(r) /\ r.client.open /\ Cleared(r.client.agg, T) /\ Rewatched(r, s)
<1> DEFINE t == QueryTarget
           targets == [s.client.targets EXCEPT ![t] = 0]
           s1 == [s EXCEPT !.client.targets = targets]
           s2 == SendUnwatchRequest(s1, t)
           s3 == SendWatchRequest(s2, t, 0)
           D == DOMAIN s.client.targets
           meta == Meta(s.client)
<1>0. /\ s \in Steps /\ s.client.targets \in Partial(TargetIds, Versions)
      /\ Linked(s.client.agg, s.server.wire, D) /\ Fits(s.client.agg, meta)
  BY StepTypes DEF Good, Sound, Whole, Connected
<1>1. CASE t \notin D
  <2>1. Rewatched(s, s)
    BY <1>1 DEF Rewatched, SameBesides, Appended
  <2> QED BY <1>1, <2>1 DEF Rewatch
<1>2. CASE t \in D
  <2>1. t \in TargetIds /\ 0 \in Versions
    BY BoundAssumption DEF TargetIds, Versions
  <2>2. targets \in Partial(TargetIds, Versions) /\ DOMAIN targets = D /\ targets[t] = 0
    <3>1. targets \in [D -> Versions] /\ DOMAIN targets = D /\ targets[t] = 0
      <4> DEFINE f == s.client.targets
      <4>1. f = [x \in DOMAIN f |-> f[x]] /\ \A x \in DOMAIN f : f[x] \in Versions
        BY <1>0, PartialIs
      <4> HIDE DEF f
      <4>2. f \in [DOMAIN f -> Versions]
        BY <4>1
      <4>3. /\ [f EXCEPT ![t] = 0] \in [DOMAIN f -> Versions]
            /\ DOMAIN [f EXCEPT ![t] = 0] = DOMAIN f
            /\ t \in DOMAIN f => [f EXCEPT ![t] = 0][t] = 0
        BY <2>1, <4>2
      <4> QED BY <1>2, <4>3 DEF f
    <3>2. D \in SUBSET TargetIds /\ IsFiniteSet(D)
      BY <1>0, PartialIs
    <3> HIDE DEF targets, D
    <3> QED BY <3>1, <3>2, PartialMade
  <2>3. Rewatch(s, t) = s3
    <3>1. [s EXCEPT !.client.targets[t] = 0] = s1
      BY <1>0 DEF Steps, Clients
    <3> QED BY <1>2, <3>1 DEF Rewatch
  <2> HIDE DEF targets
  <2>4. /\ s1 \in Steps /\ s1.client.targets = targets /\ s1.client.agg = s.client.agg
        /\ SameBesides(s1.client, s.client) /\ s1.server = s.server /\ s1.disk = s.disk
    BY <1>0, <2>2, TargetsChanged
  <2> HIDE DEF s1, D, t, meta
  <2>5. Sent(s2, s1, t, D \ {t})
    BY <1>0, <2>1, <2>4, SendsUnwatch
  <2> HIDE DEF s2
  <2>6. /\ s2 \in Steps /\ SameBesides(s2.client, s1.client) /\ s2.client.targets = targets
        /\ Requested(s2.client.agg, s1.client.agg, t)
        /\ Linked(s2.client.agg, s2.server.wire, D \ {t})
    BY <2>4, <2>5 DEF Sent
  <2>7. NotRefused(s2.server.wire, t)
    BY <2>6, StepTypes, QueryNotRefused DEF t
  <2>8. Sent(s3, s2, t, (D \ {t}) \cup {t}) /\ WatchedFrom(s3.server.watching, 0)
    BY <2>1, <2>6, <2>7, SendsWatch DEF t
  <2> HIDE DEF s3
  <2>9. /\ s3 \in Steps /\ SameBesides(s3.client, s2.client) /\ s3.client.targets = targets
        /\ Requested(s3.client.agg, s2.client.agg, t)
        /\ Linked(s3.client.agg, s3.server.wire, D)
    <3>1. (D \ {t}) \cup {t} = D
      BY <1>2
    <3> QED BY <2>6, <2>8, <3>1 DEF Sent
  <2>10. SameBesides(s3.client, s.client) /\ s3.disk = s.disk
    BY <2>4, <2>5, <2>6, <2>8, <2>9 DEF SameBesides, Sent
  <2>11. Connected(s3.client, s3.server) /\ s3.client.open
    BY <2>2, <2>9, <2>10 DEF Connected, SameBesides
  <2>12. s.client.agg \in Aggregators /\ s2.client.agg \in Aggregators
    BY <1>0, <2>6, StepTypes
  <2>13. SameKeysBut(meta, meta, t)
    BY DEF SameKeysBut
  <2>14. Fits(s3.client.agg, meta)
    <3>1. Fits(s2.client.agg, meta)
      BY <1>0, <2>4, <2>6, <2>12, <2>13, RequestFits
    <3> QED BY <3>1, <2>9, <2>12, <2>13, RequestFits
  <2>15. Cleared(s3.client.agg, T)
    <3>1. Cleared(s2.client.agg, T)
      BY <2>4, <2>6, RequestCleared
    <3> QED BY <3>1, <2>9, RequestCleared
  <2>16. Good(s3)
    BY <2>2, <2>9, <2>10, <2>11, <2>14, StaysGood DEF D, meta
  <2>17. Appended(s3.server.wire, s.server.wire, TargetIds)
    BY <2>4, <2>5, <2>8, AppendedTwice DEF Sent
  <2>18. ListenedFrom(s3, 0)
    BY <2>2, <2>8, <2>9 DEF ListenedFrom, Sent, t
  <2>19. Rewatched(s3, s)
    BY <2>10, <2>17, <2>18 DEF Rewatched
  <2> QED BY <2>3, <2>11, <2>15, <2>16, <2>19 DEF t
<1> QED BY <1>1, <1>2

LEMMA RewatchesAll ==
  ASSUME NEW s, Good(s), s.client.open, NEW T, Cleared(s.client.agg, T),
         NEW targets \in SUBSET {QueryTarget}
  PROVE  LET r == RewatchAll(s, targets)
         IN  /\ Good(r) /\ Cleared(r.client.agg, T)
             /\ IF targets = {} THEN r = s ELSE Rewatched(r, s)
<1> DEFINE Done(U) == {r \in Steps : /\ Good(r) /\ r.client.open /\ Cleared(r.client.agg, T)
                                     /\ IF U = {} THEN r = s ELSE Rewatched(r, s)}
           family == [U \in SUBSET targets |-> Done(U)]
<1>1. s \in Done({})
  BY DEF Good, Sound, Whole
<1>2. ASSUME NEW U, U # {} PROVE Rewatch(s, QueryTarget) \in Done(U)
  <2> DEFINE q == Rewatch(s, QueryTarget)
  <2>1. Good(q) /\ q.client.open /\ Cleared(q.client.agg, T) /\ Rewatched(q, s)
    BY Rewatches
  <2> HIDE DEF q
  <2>2. q \in Done(U)
    BY <1>2, <2>1 DEF Good, Sound, Whole
  <2> QED BY <2>2 DEF q
<1>3. \A U \in SUBSET targets : \A x \in U : \A r \in family[U \ {x}] :
        Rewatch(r, x) \in family[U]
  <2> SUFFICES ASSUME NEW U \in SUBSET targets, NEW x \in U, NEW r \in family[U \ {x}]
               PROVE  Rewatch(r, x) \in family[U]
    OBVIOUS
  <2>1. x = QueryTarget /\ U \ {x} = {} /\ U # {}
    OBVIOUS
  <2>2. r \in Done({})
    BY <2>1
  <2>3. r = s
    BY <2>2
  <2>4. Rewatch(s, QueryTarget) \in Done(U)
    BY <1>2, <2>1
  <2> HIDE DEF Done
  <2> QED BY <2>1, <2>3, <2>4
<1> HIDE DEF Done
<1>4. s \in family[{}] /\ family[targets] = Done(targets)
  BY <1>1
<1>5. IsFiniteSet(targets)
  BY FS_Singleton, FS_Subset
<1> HIDE DEF family
<1>6. RewatchAll(s, targets) \in Done(targets)
  BY <1>3, <1>4, <1>5, RewatchFold
<1> QED BY <1>6 DEF Done

\* The event of a snapshot, with the aggregator it was made from, and the step
\* in which the targets have their tokens and the query may be watched anew.
RaisedBy(r, s, version, event, agg, q) ==
  /\ agg \in Like(s.client.agg, Meta(s.client)) /\ QueryAlike(agg, s.client.agg)
  /\ event = RemoteEvent(agg, Meta(s.client), version)
  /\ Good(q) /\ q.disk = s.disk /\ SameBesides(q.client, s.client)
  /\ DOMAIN q.client.targets = DOMAIN s.client.targets
  /\ Appended(q.server.wire, s.server.wire, TargetIds)
  /\ IF QueryTarget \in s.client.agg.resets
       THEN QueryTarget \in DOMAIN s.client.targets => ListenedFrom(q, 0)
       ELSE /\ q.server = s.server
            /\ q.client.agg = AfterRemoteEvent(agg, Meta(s.client))
            /\ QueryTarget \in DOMAIN s.client.targets =>
                 q.client.targets[QueryTarget] =
                   IF /\ QueryTarget \in DOMAIN event.changes
                      /\ event.changes[QueryTarget].token # 0
                     THEN event.changes[QueryTarget].token
                     ELSE s.client.targets[QueryTarget]
  /\ Applied(r, q, event)

\* RaiseWatchSnapshot.
LEMMA Raises ==
  ASSUME ~IsFiniteSet(LookupIds), NEW s, Good(s), s.client.open,
         NEW version \in Versions, NEW aged
  PROVE  LET r == RaiseWatchSnapshot(s, version, aged)
         IN  Good(r) /\ \E event, agg, q : RaisedBy(r, s, version, event, agg, q)
<1> DEFINE meta == Meta(s.client)
           agg == SynthesizeDeletes(s.client.agg, meta, version)
           event == RemoteEvent(agg, meta, version)
           after == AfterRemoteEvent(agg, meta)
           token(t) == IF t \in DOMAIN event.changes /\ event.changes[t].token # 0
                         THEN event.changes[t].token ELSE s.client.targets[t]
           targets == [t \in DOMAIN s.client.targets |-> token(t)]
           c == [s.client EXCEPT !.agg = after, !.targets = targets]
           taken == [s EXCEPT !.client = c]
           anew == RewatchAll(taken, event.mismatches)
<1>0. /\ s \in Steps /\ s.client.targets \in Partial(TargetIds, Versions)
      /\ s.client.agg \in Aggregators
      /\ Linked(s.client.agg, s.server.wire, DOMAIN s.client.targets)
      /\ Fits(s.client.agg, meta) /\ TargetsMatch(s.client)
  BY StepTypes DEF Good, Sound, Whole, Connected
<1>1. meta \in Metas /\ DOMAIN meta.keys \subseteq DOMAIN s.client.agg.states
  BY <1>0, MetaType, MetaFacts DEF Linked
<1> HIDE DEF meta
<1>2. s.client.agg \in Like(s.client.agg, meta)
  BY <1>0 DEF Like
<1>3. agg \in Like(s.client.agg, meta) /\ QueryAlike(agg, s.client.agg)
  BY <1>1, <1>2, SynthesizeLeaves
<1> HIDE DEF agg
<1>4. agg \in Aggregators
  BY <1>3 DEF Like
<1>5. /\ event \in Events /\ DOMAIN event.changes = Changing(agg, meta)
      /\ event.mismatches = s.client.agg.resets
  BY <1>3, <1>4, RemoteEventType DEF QueryAlike
<1>5a. event = RemoteEvent(agg, meta, version) /\ after = AfterRemoteEvent(agg, meta)
  OBVIOUS
<1>6. after \in Like(s.client.agg, meta) /\ Cleared(after, Changing(agg, meta))
  BY <1>3, AfterRemoteEventFacts
<1> HIDE DEF event, after
<1>7. targets \in Partial(TargetIds, Versions) /\ DOMAIN targets = DOMAIN s.client.targets
  <2>1. /\ DOMAIN s.client.targets \in SUBSET TargetIds /\ IsFiniteSet(DOMAIN s.client.targets)
        /\ \A t \in DOMAIN s.client.targets : s.client.targets[t] \in Versions
    BY <1>0, PartialIs
  <2>2. \A t \in DOMAIN event.changes : event.changes[t].token \in Versions
    BY <1>5, EventFacts DEF TargetChanges
  <2>3. \A t \in DOMAIN s.client.targets : token(t) \in Versions
    BY <2>1, <2>2
  <2> HIDE DEF token
  <2>4. targets \in [DOMAIN s.client.targets -> Versions]
    BY <2>3
  <2> HIDE DEF targets
  <2> QED BY <2>1, <2>4, PartialMade
<1>8. RaiseWatchSnapshot(s, version, aged) = ApplyRemoteEvent(anew, event, aged)
  <2>1. taken = [s EXCEPT !.client.agg = after,
                          !.client.targets = [t \in DOMAIN @ |-> token(t)]]
    BY <1>0 DEF Steps, Clients
  <2> HIDE DEF taken, token
  <2> QED BY <2>1 DEF RaiseWatchSnapshot, meta, agg, event, after, token
<1>8a. /\ DOMAIN targets = DOMAIN s.client.targets
       /\ QueryTarget \in DOMAIN targets =>
           targets[QueryTarget] =
             IF QueryTarget \in DOMAIN event.changes /\ event.changes[QueryTarget].token # 0
               THEN event.changes[QueryTarget].token ELSE s.client.targets[QueryTarget]
  OBVIOUS
<1> HIDE DEF targets, token
<1>9. /\ after \in Aggregators /\ DOMAIN after.states = DOMAIN s.client.agg.states
      /\ \A t \in DOMAIN after.states : after.states[t].outstanding = s.client.agg.states[t].outstanding
      /\ Fits(after, meta)
  BY <1>6 DEF Like
<1>10. Linked(after, s.server.wire, DOMAIN s.client.targets)
  <2>1. \A t : EnsureTargetState(after, t).outstanding
                 = EnsureTargetState(s.client.agg, t).outstanding
    BY <1>9 DEF EnsureTargetState
  <2> QED BY <1>0, <1>9, <2>1 DEF Linked, Counted
<1>11. c \in Clients /\ c.agg = after /\ c.targets = targets /\ SameBesides(c, s.client)
  BY <1>0, <1>7, <1>9, StepTypes DEF Clients, SameBesides
<1> HIDE DEF c
<1>12. taken \in Steps /\ taken.client = c /\ taken.server = s.server /\ taken.disk = s.disk
  BY <1>0, <1>11 DEF Steps
<1> HIDE DEF taken
<1>13. taken.client.open /\ Connected(taken.client, taken.server)
  BY <1>7, <1>10, <1>11, <1>12 DEF SameBesides, Connected
<1>14. Good(taken) /\ Cleared(taken.client.agg, DOMAIN event.changes)
  BY <1>5, <1>6, <1>7, <1>9, <1>11, <1>12, <1>13, StaysGood DEF meta
<1>15. event.mismatches \in SUBSET {QueryTarget}
  BY <1>5, EventFacts
<1>16. /\ Good(anew) /\ Cleared(anew.client.agg, DOMAIN event.changes)
       /\ IF event.mismatches = {} THEN anew = taken ELSE Rewatched(anew, taken)
  BY <1>13, <1>14, <1>15, RewatchesAll
<1> HIDE DEF anew
<1> DEFINE r == ApplyRemoteEvent(anew, event, aged)
<1>17. Good(r) /\ Applied(r, anew, event)
  BY <1>5, <1>16, AppliesEvent
<1> HIDE DEF r
<1>18. CASE QueryTarget \in s.client.agg.resets
  <2>1. Rewatched(anew, taken)
    BY <1>5, <1>16, <1>18
  <2>2. /\ anew.disk = s.disk /\ SameBesides(anew.client, s.client)
        /\ Appended(anew.server.wire, s.server.wire, TargetIds)
        /\ QueryTarget \in DOMAIN s.client.targets => ListenedFrom(anew, 0)
    BY <1>7, <1>11, <1>12, <2>1 DEF Rewatched, SameBesides
  <2>3. DOMAIN anew.client.targets = DOMAIN s.client.targets
    BY <1>16, <2>2 DEF Good, Sound, Whole, TargetsMatch, SameBesides
  <2>4. RaisedBy(r, s, version, event, agg, anew)
    BY <1>3, <1>5a, <1>16, <1>17, <1>18, <2>2, <2>3 DEF RaisedBy, meta
  <2> QED BY <1>8, <1>17, <2>4 DEF r
<1>19. CASE QueryTarget \notin s.client.agg.resets
  <2>1. anew = taken
    BY <1>5, <1>15, <1>16, <1>19
  <2>2. /\ anew.disk = s.disk /\ SameBesides(anew.client, s.client) /\ anew.server = s.server
        /\ anew.client.agg = after /\ anew.client.targets = targets
    BY <1>11, <1>12, <2>1
  <2>3. Appended(anew.server.wire, s.server.wire, TargetIds)
    BY <2>2 DEF Appended
  <2>4. RaisedBy(r, s, version, event, agg, anew)
    BY <1>3, <1>5a, <1>8a, <1>16, <1>17, <1>19, <2>2, <2>3 DEF RaisedBy, meta
  <2> QED BY <1>8, <1>17, <2>4 DEF r
<1> QED BY <1>18, <1>19

\* A message arrives, and the aggregator becomes b.
Aggregated(s, v, b) == [[s EXCEPT !.server.wire = v] EXCEPT !.client.agg = b]

LEMMA AggregatedIs ==
  ASSUME NEW s \in Steps, NEW v, NEW b
  PROVE  LET r == Aggregated(s, v, b)
         IN  /\ r.client.agg = b /\ r.client.targets = s.client.targets
             /\ SameBesides(r.client, s.client) /\ r.disk = s.disk
             /\ r.server.wire = v /\ r.server.watching = s.server.watching
<1> DEFINE c == [s.client EXCEPT !.agg = b]
           f == [s.server EXCEPT !.wire = v]
           r == [s EXCEPT !.client = c, !.server = f]
<1>1. c.agg = b /\ c.targets = s.client.targets /\ SameBesides(c, s.client)
  BY StepTypes DEF Clients, SameBesides
<1>2. f.wire = v /\ f.watching = s.server.watching
  BY StepTypes DEF Servers
<1>3. Aggregated(s, v, b) = r
  BY DEF Aggregated, Steps
<1> HIDE DEF c, f
<1>4. r.client = c /\ r.server = f /\ r.disk = s.disk
  BY DEF Steps
<1> HIDE DEF r
<1> QED BY <1>1, <1>2, <1>3, <1>4

LEMMA Aggregates ==
  ASSUME NEW s, Good(s), s.client.open, NEW v \in Seq(Messages), NEW b \in Aggregators,
         Linked(b, v, DOMAIN s.client.targets), Fits(b, Meta(s.client))
  PROVE  Good(Aggregated(s, v, b)) /\ Aggregated(s, v, b).client.open
<1> DEFINE c == [s.client EXCEPT !.agg = b]
           f == [s.server EXCEPT !.wire = v]
           r == [s EXCEPT !.client = c, !.server = f]
<1>0. s \in Steps
  BY DEF Good, Sound, Whole
<1>1. c \in Clients /\ c.agg = b /\ c.targets = s.client.targets /\ SameBesides(c, s.client)
  BY <1>0, StepTypes DEF Clients, SameBesides
<1>2. f \in Servers /\ f.wire = v
  BY <1>0, StepTypes DEF Servers
<1>3. Aggregated(s, v, b) = r
  BY <1>0 DEF Aggregated, Steps
<1> HIDE DEF c, f
<1>4. r \in Steps /\ r.client = c /\ r.server = f /\ r.disk = s.disk
  BY <1>0, <1>1, <1>2 DEF Steps
<1> HIDE DEF r
<1>5. r.client.open /\ Connected(r.client, r.server)
  BY <1>1, <1>2, <1>4 DEF Connected, SameBesides
<1>6. Good(r)
  BY <1>1, <1>4, <1>5, StaysGood
<1> QED BY <1>3, <1>5, <1>6

LEMMA MessageTypes ==
  ASSUME NEW m \in Messages
  PROVE  /\ m.what \in {"added", "removed", "refused", "current", "reset", "doc", "filter", "snapshot"}
         /\ m.what \in {"added", "removed"} => m \in AckMessages
         /\ m.what = "refused" => m.target \in LookupIds
         /\ m.what = "current" => m.token \in Versions
         /\ m.what = "doc" => m \in DocMessages
         /\ m.what = "filter" => m \in FilterMessages
         /\ m.what = "snapshot" => m.version \in Versions
  BY DEF Messages, AckMessages, RefusedMessages, ResetMessages, CurrentMessages,
         FilterMessages, DocMessages, SnapshotMessages

\* The event of a refusal, and the step in which the lookup is gone.
RefusedBy(r, s, event, gone) ==
  /\ Good(gone) /\ Looks(gone, s)
  /\ Aside(gone, Aggregated(s, Tail(s.server.wire), s.client.agg))
  /\ event.version = 0 /\ DOMAIN event.changes = {}
  /\ Applied(r, gone, event)

\* ProcessTargetError and HandleRejectedListen.
LEMMA Refuses ==
  ASSUME ~IsFiniteSet(LookupIds), NEW s, Good(s), s.client.open, s.server.wire # <<>>,
         s.server.wire[1].what = "refused", NEW t \in LookupIds, s.server.wire[1].target = t,
         NEW aged
  PROVE  LET r == TargetRefused([s EXCEPT !.server.wire = Tail(@)], t, aged)
         IN  /\ Good(r)
             /\ \/ r = Aggregated(s, Tail(s.server.wire), s.client.agg)
                \/ \E event, gone : RefusedBy(r, s, event, gone)
<1> DEFINE w == s.server.wire
           v == Tail(w)
           q == [s EXCEPT !.server.wire = Tail(@)]
           limbo == s.client.view.limbo
           D == DOMAIN s.client.targets
           a == s.client.agg
           meta == Meta(s.client)
           n == Cardinality(DOMAIN s.client.resolving)
<1>0. /\ s \in Steps /\ Sound(s, limbo) /\ Whole(s, limbo) /\ Pumped(s.client)
      /\ w \in Seq(Messages) /\ a \in Aggregators
      /\ Linked(a, w, D) /\ Fits(a, meta) /\ TargetsMatch(s.client)
      /\ s.client.targets \in Partial(TargetIds, Versions)
      /\ s.client.resolving \in Partial(LookupIds, Lookups)
      /\ s.client.agg.states \in Partial(TargetIds, TargetStates)
  BY StepTypes DEF Good, Sound, Whole, Connected, Aggregators
<1>1. v \in Seq(Messages)
  BY <1>0, TailFacts
<1>2. CASE t \notin D
  <2>1. a \in Like(a, meta)
    BY <1>0 DEF Like
  <2>2. Linked(a, v, D)
    BY <1>0, <2>1, LikeLinked
  <2>3. Aggregated(s, v, a) = q
    BY <1>0 DEF Aggregated, Steps, Servers, Clients
  <2>4. Good(Aggregated(s, v, a))
    BY <1>0, <1>1, <2>2, Aggregates
  <2>5. TargetRefused(q, t, aged) = q
    <3>1. q.client = s.client
      BY <1>0 DEF Steps
    <3> HIDE DEF q
    <3> QED BY <1>2, <3>1 DEF TargetRefused
  <2> QED BY <2>3, <2>4, <2>5
<1>3. CASE t \in D
  <2> DEFINE targets == Without(s.client.targets, t)
             b == RemoveTarget(a, t)
             c == [s.client EXCEPT !.targets = targets, !.agg = b]
             f == [s.server EXCEPT !.wire = v]
             r1 == [s EXCEPT !.client = c, !.server = f]
             r2 == WithoutLookup(r1, t)
             gone == Pump(r2)
             d == s.client.resolving[t].key
             event == [version |-> 0, updates |-> [k \in {d} |-> Deleted(0)],
                       mismatches |-> {}, changes |-> <<>>]
  <2>1. t \in DOMAIN s.client.resolving /\ t # QueryTarget
    BY <1>0, <1>3, LookupAssumption DEF TargetsMatch, QueryTarget
  <2>2. TargetRefused(q, t, aged) = ApplyRemoteEvent(gone, event, aged)
    <3>1. q.client = s.client
      BY <1>0 DEF Steps
    <3>2. [q EXCEPT !.client.targets = Without(@, t), !.client.agg = RemoveTarget(@, t),
                    !.client.resolving = Without(@, t)] = r2
      BY <1>0 DEF Steps, Servers, Clients, WithoutLookup
    <3> HIDE DEF q, r2
    <3> QED BY <1>3, <3>1, <3>2 DEF TargetRefused
  <2>3. targets \in Partial(TargetIds, Versions) /\ DOMAIN targets = D \ {t}
    BY <1>0, WithoutType DEF Without, Restrict
  <2>4. /\ b \in Aggregators /\ Linked(b, v, D \ {t})
        /\ \A now : DOMAIN now.keys = D \ {t} /\ SameKeysBut(now, meta, t) => Fits(b, now)
    <3>1. DOMAIN meta.keys = D
      BY MetaFacts
    <3> HIDE DEF meta
    <3>2. ASSUME NEW now, DOMAIN now.keys = D \ {t}, SameKeysBut(now, meta, t)
          PROVE  b \in Aggregators /\ Linked(b, v, D \ {t}) /\ Fits(b, now)
      <4>1. \A u \in DOMAIN now.keys : now.keys[u] = meta.keys[u]
        BY <3>2 DEF SameKeysBut
      <4>2. DOMAIN now.keys = DOMAIN meta.keys \ {t}
        BY <3>1, <3>2
      <4>3. /\ w # <<>> /\ w[1].what = "refused" /\ w[1].target = t
            /\ v = Tail(w) /\ b = RemoveTarget(a, t) /\ t \in D
            /\ a \in Aggregators /\ w \in Seq(Messages) /\ Linked(a, w, D) /\ Fits(a, meta)
        BY <1>0, <1>3
      <4> HIDE DEF D, w, v, b, a
      <4>4. b \in Aggregators /\ Linked(b, Tail(w), D \ {t}) /\ Fits(b, now)
        <5>1. KeysWithout(now, meta, t)
          BY <4>1, <4>2 DEF KeysWithout
        <5> QED BY <4>3, <5>1, RefusalArrives
      <4> QED BY <4>3, <4>4
    <3>3. \E now : DOMAIN now.keys = D \ {t} /\ SameKeysBut(now, meta, t)
      <4> DEFINE now == [keys |-> [u \in D \ {t} |-> meta.keys[u]]]
      <4>1. DOMAIN now.keys = D \ {t} /\ SameKeysBut(now, meta, t)
        BY <3>1 DEF SameKeysBut
      <4> QED BY <4>1
    <3> QED BY <3>2, <3>3
  <2> HIDE DEF targets, b
  <2>5. c \in Clients /\ c.agg = b /\ c.targets = targets /\ SameBesides(c, s.client)
    BY <1>0, <2>3, <2>4, StepTypes DEF Clients, SameBesides
  <2>6. f \in Servers /\ f.wire = v /\ f.watching = s.server.watching
    BY <1>0, <1>1, StepTypes DEF Servers
  <2> HIDE DEF c, f
  <2>7. r1 \in Steps /\ r1.client = c /\ r1.server = f /\ r1.disk = s.disk
    BY <1>0, <2>5, <2>6 DEF Steps
  <2> HIDE DEF r1
  <2>7a. Aside(r1, Aggregated(s, v, a))
    <3>1. QuerySame(targets, s.client.targets)
      BY <2>1 DEF targets, QuerySame, Without, Restrict
    <3>2. /\ EnsureTargetState(b, QueryTarget) = EnsureTargetState(a, QueryTarget)
          /\ b.resets = a.resets
      BY <1>0, <2>1 DEF b, RemoveTarget, EnsureTargetState, Without, Restrict, Aggregators
    <3>3. r1.server.wire = v /\ r1.server.watching = s.server.watching
      BY <2>6, <2>7
    <3> DEFINE before == Aggregated(s, v, a)
    <3>4. /\ before.client.agg = a /\ before.client.targets = s.client.targets
          /\ before.server.wire = v /\ before.server.watching = s.server.watching
      BY <1>0, AggregatedIs
    <3> HIDE DEF before, v, a
    <3>5. Appended(r1.server.wire, before.server.wire, LookupIds)
      BY <3>3, <3>4 DEF Appended
    <3>6. QuerySame(r1.server.watching, before.server.watching)
      BY <3>3, <3>4 DEF QuerySame
    <3>7. Aside(r1, before)
      BY <2>5, <2>7, <3>1, <3>2, <3>4, <3>5, <3>6 DEF Aside
    <3> QED BY <3>7 DEF before
  <2>8. Connected(r1.client, r1.server)
    BY <2>3, <2>4, <2>5, <2>6, <2>7 DEF Connected, SameBesides
  <2>9. Left(r1, s, t)
    BY <2>3, <2>4, <2>5, <2>7, <2>8 DEF Left
  <2>10. Ends(r2, s, t, limbo) /\ Aside(r2, r1)
    BY <1>0, <2>1, <2>9, LookupEnds
  <2> HIDE DEF r2
  <2>11. Whole(r2, limbo)
    BY <2>10 DEF Ends, Whole, Queued
  <2>12. Pumpable(r2.client)
    <3>1. Cardinality(DOMAIN r2.client.resolving) = n - 1 /\ r2.client.enqueued = s.client.enqueued
      BY <2>10 DEF Ends
    <3>2. n \in Nat /\ n <= MaxLookups /\ (s.client.enqueued # <<>> => n = MaxLookups)
      BY <1>0, PartialIs, FS_CardinalityType DEF Pumped
    <3>3. s.client.enqueued = <<>> => Len(s.client.enqueued) = 0
      OBVIOUS
    <3> HIDE DEF n
    <3> QED BY <3>1, <3>2, <3>3, LookupAssumption DEF Pumpable
  <2>13. Sound(gone, limbo) /\ Kept(gone, r2)
    BY <2>11, <2>12, Pumps
  <2> HIDE DEF gone
  <2>14. Good(gone)
    <3>1. SameShown(gone, s)
      BY <2>10, <2>13 DEF SameShown, Kept, Looks, Ends
    <3>2. Follows(gone)
      BY <3>1, StillFollows DEF Good
    <3> QED BY <2>10, <2>13, <3>2 DEF Good, Resting, Kept, Looks, Ends
  <2>15. d \in Docs
    <3>1. s.client.resolving[t] \in Lookups
      BY <1>0, <2>1, PartialIs
    <3> QED BY <3>1 DEF Lookups
  <2> HIDE DEF d
  <2>16. event \in Events /\ DOMAIN event.changes = {} /\ event.version = 0
    <3>1. 0 \in Versions /\ Deleted(0) \in Updates
      BY NoUpdateType, BoundAssumption DEF Versions
    <3>2. [k \in {d} |-> Deleted(0)] \in Partial(Docs, Updates)
      <4>1. [k \in {d} |-> Deleted(0)] \in [{d} -> Updates]
        BY <3>1
      <4>2. {d} \in SUBSET Docs /\ IsFiniteSet({d})
        BY <2>15, FS_Singleton
      <4> QED BY <4>1, <4>2, PartialMade
    <3> QED BY <3>1, <3>2, PartialEmpty DEF Events
  <2> HIDE DEF event
  <2>17. Cleared(gone.client.agg, DOMAIN event.changes)
    BY <2>16 DEF Cleared
  <2> DEFINE r == ApplyRemoteEvent(gone, event, aged)
  <2>18. Good(r) /\ Applied(r, gone, event)
    BY <2>14, <2>16, <2>17, AppliesEvent
  <2>19. Looks(gone, s)
    BY <2>10, <2>13 DEF Kept, Looks, Ends
  <2>20. Aside(gone, Aggregated(s, v, a))
    BY <2>7a, <2>10, <2>13, AsideTwice DEF Kept
  <2> HIDE DEF r
  <2>21. RefusedBy(r, s, event, gone)
    BY <2>14, <2>16, <2>18, <2>19, <2>20 DEF RefusedBy
  <2> QED BY <2>2, <2>18, <2>21 DEF r
<1> QED BY <1>2, <1>3

\* OnWatchStreamChange, of any message.
LEMMA Handles ==
  ASSUME ~IsFiniteSet(LookupIds), NEW s, Good(s), s.client.open, s.server.wire # <<>>, NEW aged
  PROVE  Good(Handle([s EXCEPT !.server.wire = Tail(@)], Head(s.server.wire), aged))
<1> DEFINE w == s.server.wire
           v == Tail(w)
           m == Head(w)
           q == [s EXCEPT !.server.wire = Tail(@)]
           D == DOMAIN s.client.targets
           a == s.client.agg
           meta == Meta(s.client)
<1>0. /\ s \in Steps /\ w \in Seq(Messages) /\ a \in Aggregators
      /\ Linked(a, w, D) /\ Fits(a, meta) /\ TargetsMatch(s.client)
  BY StepTypes DEF Good, Sound, Whole, Connected
<1>1. v \in Seq(Messages) /\ m = w[1] /\ m \in Messages
  BY <1>0, TailFacts
<1>2. q.client = s.client /\ q.disk = s.disk /\ \A b : [q EXCEPT !.client.agg = b] = Aggregated(s, v, b)
  BY <1>0 DEF Aggregated, Steps, Servers, Clients
<1>3. meta \in Metas /\ DOMAIN meta.keys \subseteq DOMAIN a.states
  BY <1>0, MetaType, MetaFacts DEF Linked
<1>4. a \in Like(a, meta)
  BY <1>0 DEF Like
<1>5. ASSUME NEW b \in Like(a, meta), m.what \notin {"added", "removed"}
      PROVE  Good(Aggregated(s, v, b)) /\ Aggregated(s, v, b).client.open
  <2>1. Linked(b, v, D)
    BY <1>0, <1>1, <1>5, LikeLinked
  <2>2. b \in Aggregators /\ Fits(b, meta)
    BY DEF Like
  <2> QED BY <1>1, <2>1, <2>2, Aggregates
<1> DEFINE done == Handle(q, m, aged)
<1> SUFFICES Good(done)
  OBVIOUS
<1>6. CASE m.what \in {"added", "removed"}
  <2> DEFINE b == IF m.what = "added" THEN TargetAdded(a, m.target) ELSE TargetRemoved(a, m.target)
  <2>1. m \in AckMessages
    BY <1>1, <1>6, MessageTypes
  <2>2. b \in Aggregators /\ Linked(b, v, D) /\ Fits(b, meta)
    BY <1>0, <1>1, <2>1, AckArrives
  <2>3. done = Aggregated(s, v, b)
    <3> HIDE DEF q, w, v, D, m
    <3>1. CASE m.what = "added"
      BY <1>2, <3>1 DEF Handle
    <3>2. CASE m.what = "removed"
      BY <1>2, <3>2 DEF Handle
    <3> QED BY <1>6, <3>1, <3>2
  <2> HIDE DEF b
  <2>4. Good(Aggregated(s, v, b))
    BY <1>1, <2>2, Aggregates
  <2> QED BY <2>3, <2>4
<1>7. CASE m.what = "refused"
  <2>1. m.target \in LookupIds
    BY <1>1, <1>7, MessageTypes
  <2>2. done = TargetRefused(q, m.target, aged)
    <3> HIDE DEF q, m
    <3> QED BY <1>7 DEF Handle
  <2> QED BY <1>1, <1>7, <2>1, <2>2, Refuses
<1>8. CASE m.what \in {"current", "reset", "doc", "filter"}
  <2> DEFINE b == CASE m.what = "current" -> TargetCurrent(a, meta, m.target, m.token)
                    [] m.what = "reset" -> TargetReset(a, meta, m.target)
                    [] m.what = "doc" -> HandleDocumentChange(a, meta, m)
                    [] m.what = "filter" -> HandleExistenceFilter(a, meta, m)
  <2>1. b \in Like(a, meta)
    <3> HIDE DEF m, a, meta
    <3>1. CASE m.what = "current"
      BY <1>1, <1>3, <1>4, <3>1, MessageTypes, TargetCurrentLike
    <3>2. CASE m.what = "reset"
      BY <1>3, <1>4, <3>2, TargetResetLike
    <3>3. CASE m.what = "doc"
      BY <1>1, <1>3, <1>4, <3>3, MessageTypes, HandleDocumentLike
    <3>4. CASE m.what = "filter"
      BY <1>1, <1>3, <1>4, <3>4, MessageTypes, HandleFilterLike
    <3> QED BY <1>8, <3>1, <3>2, <3>3, <3>4
  <2>2. done = Aggregated(s, v, b)
    <3> HIDE DEF q, w, v, D, m
    <3>1. CASE m.what = "current"
      BY <1>2, <3>1 DEF Handle
    <3>2. CASE m.what = "reset"
      BY <1>2, <3>2 DEF Handle
    <3>3. CASE m.what = "doc"
      BY <1>2, <3>3 DEF Handle
    <3>4. CASE m.what = "filter"
      BY <1>2, <3>4 DEF Handle
    <3> QED BY <1>8, <3>1, <3>2, <3>3, <3>4
  <2> HIDE DEF b
  <2> QED BY <1>5, <1>8, <2>1, <2>2
<1>9. CASE m.what = "snapshot"
  <2> DEFINE b == TargetsNoChange(a, meta, m.version)
             told == Aggregated(s, v, b)
  <2>1. m.version \in Versions
    BY <1>1, <1>9, MessageTypes
  <2>2. b \in Like(a, meta)
    BY <1>3, <1>4, <2>1, TargetsNoChangeLike
  <2>3. done \in {RaiseWatchSnapshot(told, m.version, aged), told}
    <3> HIDE DEF q, w, v, D, m
    <3> QED BY <1>2, <1>9 DEF Handle
  <2> HIDE DEF b
  <2>4. Good(told) /\ told.client.open
    BY <1>5, <1>9, <2>2
  <2> HIDE DEF told
  <2>5. Good(RaiseWatchSnapshot(told, m.version, aged))
    BY <2>1, <2>4, Raises
  <2> QED BY <2>3, <2>4, <2>5
<1> HIDE DEF done
<1>10. m.what \in {"added", "removed", "refused", "current", "reset", "doc", "filter", "snapshot"}
  BY <1>1, MessageTypes
<1> HIDE DEF m
<1> QED BY <1>6, <1>7, <1>8, <1>9, <1>10

-----------------------------------------------------------------------------
(* The steps of the client.                                                *)

\* A view of what the disk has, before the server has told of it.
Local(view, k) ==
  /\ view \in Views /\ view.limbo = {} /\ view.synced = k.keys
  /\ ~view.current /\ view.state = "local"
  /\ \A d \in view.docs : k.cache[d].value = "in"

\* The listener has the marks of the disk.
Begun(r, s, view) ==
  /\ r.disk = s.disk /\ r.client.open = s.client.open
  /\ r.client.listening /\ r.client.view = view
  /\ r.client.token = s.disk.token /\ r.client.limboFree = s.disk.limboFree
  /\ ListenedFrom(r, s.disk.token)
  /\ Appended(r.server.wire, s.server.wire, TargetIds)

\* SyncEngine::Listen.
LEMMA BeginsListening ==
  ASSUME NEW s, Good(s), ~s.client.listening, NEW view, Local(view, s.disk)
  PROVE  LET r == RemoteListen([s EXCEPT !.client.listening = TRUE, !.client.view = view,
                                         !.client.token = s.disk.token,
                                         !.client.limboFree = s.disk.limboFree],
                               QueryTarget, s.disk.token)
         IN  Good(r) /\ Begun(r, s, view)
<1> DEFINE c == [s.client EXCEPT !.listening = TRUE, !.view = view,
                                 !.token = s.disk.token, !.limboFree = s.disk.limboFree]
           r == [s EXCEPT !.client = c]
           t == QueryTarget
           q == RemoteListen(r, t, s.disk.token)
           D == DOMAIN s.client.targets
           meta == Meta(s.client)
           now == Meta(q.client)
<1>0. /\ s \in Steps /\ Connected(s.client, s.server) /\ Fits(s.client.agg, meta)
      /\ TargetsMatch(s.client) /\ Queued(s.client, s.client.view.limbo) /\ Pumped(s.client)
      /\ s.client.view.limbo = {}
  BY DEF Good, Sound, Whole, Resting, NoView
<1>1. s.disk.token \in Versions /\ s.disk.limboFree \in Versions
  BY <1>0, StepTypes DEF Disks
<1>2. TRUE \in BOOLEAN
  OBVIOUS
<1>3. c \in Clients
  <2>1. \A p \in BOOLEAN : [s.client EXCEPT !.listening = p, !.view = view,
               !.token = s.disk.token, !.limboFree = s.disk.limboFree] \in Clients
    BY <1>0, <1>1, StepTypes DEF Clients, Local
  <2> QED BY <1>2, <2>1, Zenon
<1>4. /\ c.open = s.client.open /\ c.agg = s.client.agg /\ c.targets = s.client.targets
      /\ c.resolving = s.client.resolving /\ c.enqueued = s.client.enqueued
      /\ c.view = view /\ c.listening
      /\ c.token = s.disk.token /\ c.limboFree = s.disk.limboFree
  BY <1>0, StepTypes DEF Clients
<1>5. r = [s EXCEPT !.client.listening = TRUE, !.client.view = view,
                    !.client.token = s.disk.token, !.client.limboFree = s.disk.limboFree]
  BY <1>0 DEF Steps, Clients
<1> HIDE DEF c
<1>6. r \in Steps /\ r.client = c /\ r.server = s.server /\ r.disk = s.disk
  BY <1>0, <1>3 DEF Steps
<1> HIDE DEF r
<1>7. Connected(r.client, r.server)
  BY <1>0, <1>4, <1>6 DEF Connected
<1>8. t \in TargetIds /\ NotRefused(r.server.wire, t)
  BY <1>6, StepTypes, QueryNotRefused DEF TargetIds
<1>9. Moved(q, r, t, D \cup {t}) /\ ListenedFrom(q, s.disk.token)
  BY <1>1, <1>4, <1>6, <1>7, <1>8, Listens
<1> HIDE DEF q
<1>10. /\ q \in Steps /\ SameBesides(q.client, c) /\ DOMAIN q.client.targets = D \cup {t}
       /\ Connected(q.client, q.server)
  BY <1>6, <1>9 DEF Moved
<1>11. TargetsMatch(q.client)
  BY <1>0, <1>4, <1>10 DEF TargetsMatch, SameBesides
<1>12. Queued(q.client, {}) /\ Pumped(q.client)
  <2>1. /\ q.client.resolving = s.client.resolving
        /\ q.client.enqueued = s.client.enqueued
    BY <1>4, <1>10 DEF SameBesides
  <2>2. Queued(s.client, {})
    BY <1>0
  <2>3. Queued(q.client, {})
    BY <2>1, <2>2 DEF Queued, Resolved
  <2> QED BY <1>0, <2>1, <2>3 DEF Pumped
<1>13. SameKeysBut(now, meta, t)
  <2> SUFFICES ASSUME NEW u \in DOMAIN now.keys, u # t
               PROVE  u \in DOMAIN meta.keys /\ now.keys[u] = meta.keys[u]
    BY DEF SameKeysBut
  <2>1. u \in DOMAIN q.client.targets /\ u \in D /\ u \in DOMAIN meta.keys
    BY <1>10, MetaFacts
  <2>2. q.client.resolving = s.client.resolving
    BY <1>4, <1>10 DEF SameBesides
  <2>3. now.keys[u] = IF q.client.resolving[u].received THEN {q.client.resolving[u].key} ELSE {}
    BY <2>1, MetaFacts
  <2>4. meta.keys[u] = IF s.client.resolving[u].received THEN {s.client.resolving[u].key} ELSE {}
    BY <2>1, MetaFacts
  <2> QED BY <2>1, <2>2, <2>3, <2>4
<1>14. Fits(q.client.agg, now)
  <2>1. Fits(r.client.agg, meta)
    BY <1>0, <1>4, <1>6
  <2> HIDE DEF now, meta
  <2> QED BY <1>6, <1>9, <1>13, <2>1, MovedFits
<1>15. q.client.view = view /\ q.client.listening /\ q.disk = s.disk
  BY <1>4, <1>6, <1>9, <1>10 DEF Moved, SameBesides
<1>16. Follows(q)
  BY <1>15 DEF Follows, Local
<1>17. view.limbo = {}
  BY DEF Local
<1>18. Good(q)
  BY <1>10, <1>11, <1>12, <1>14, <1>15, <1>16, <1>17 DEF Good, Sound, Whole, Resting
<1>19. Begun(q, s, view)
  BY <1>4, <1>6, <1>9, <1>10, <1>15 DEF Begun, Moved, SameBesides
<1> QED BY <1>5, <1>18, <1>19 DEF q

\* The disk has the marks of the listener.
Ended(r, s) ==
  /\ ~r.client.listening
  /\ r.disk.token = s.client.token /\ r.disk.limboFree = s.client.limboFree
  /\ r.disk.keys = s.disk.keys /\ r.disk.last = s.disk.last
  /\ Appended(r.server.wire, s.server.wire, TargetIds)

\* SyncEngine::StopListening.
LEMMA EndsListening ==
  ASSUME ~IsFiniteSet(LookupIds), NEW s, Good(s), s.client.listening
  PROVE  LET released == [s EXCEPT !.disk.token = s.client.token,
                                   !.disk.limboFree = s.client.limboFree]
             stopped == [RemoteStopListening(released, QueryTarget) EXCEPT
                           !.client.listening = FALSE, !.client.view = NoView,
                           !.client.token = 0, !.client.limboFree = 0]
             r == RemoveLimboTargets(stopped, s.client.view.limbo)
         IN  Good(r) /\ Ended(r, s)
<1> DEFINE k == [s.disk EXCEPT !.token = s.client.token, !.limboFree = s.client.limboFree]
           r == [s EXCEPT !.disk = k]
           t == QueryTarget
           q == RemoteStopListening(r, t)
           c == [q.client EXCEPT !.listening = FALSE, !.view = NoView, !.token = 0, !.limboFree = 0]
           p == [q EXCEPT !.client = c]
           D == DOMAIN s.client.targets
           meta == Meta(s.client)
           now == Meta(p.client)
           limbo == s.client.view.limbo
           done == RemoveLimboTargets(p, limbo)
<1>0. /\ s \in Steps /\ Connected(s.client, s.server) /\ Fits(s.client.agg, meta)
      /\ TargetsMatch(s.client) /\ Queued(s.client, limbo) /\ Pumped(s.client)
      /\ s.client.resolving \in Partial(LookupIds, Lookups) /\ limbo \in SUBSET Docs
  BY StepTypes DEF Good, Sound, Whole, Views
<1>1. /\ k \in Disks /\ k.token = s.client.token /\ k.limboFree = s.client.limboFree
      /\ k.keys = s.disk.keys /\ k.last = s.disk.last
  BY <1>0, StepTypes DEF Disks
<1>2. r = [s EXCEPT !.disk.token = s.client.token, !.disk.limboFree = s.client.limboFree]
  BY <1>0 DEF Steps, Disks
<1> HIDE DEF k
<1>3. r \in Steps /\ r.client = s.client /\ r.server = s.server /\ r.disk = k
  BY <1>0, <1>1 DEF Steps
<1> HIDE DEF r
<1>4. t \in TargetIds
  BY DEF TargetIds
<1>5. Moved(q, r, t, D \ {t})
  BY <1>0, <1>3, <1>4, StopsListening
<1>6. p = [q EXCEPT !.client.listening = FALSE, !.client.view = NoView,
                    !.client.token = 0, !.client.limboFree = 0]
  BY <1>5 DEF Moved, Steps, Clients
<1>7. done = RemoveLimboTargets([RemoteStopListening([s EXCEPT !.disk.token = s.client.token,
                                      !.disk.limboFree = s.client.limboFree], QueryTarget) EXCEPT
                           !.client.listening = FALSE, !.client.view = NoView,
                           !.client.token = 0, !.client.limboFree = 0], limbo)
  BY <1>2, <1>6
<1> SUFFICES Good(done) /\ Ended(done, s)
  BY <1>7
<1> HIDE DEF q, done
<1>8. /\ q \in Steps /\ SameBesides(q.client, s.client) /\ DOMAIN q.client.targets = D \ {t}
      /\ Connected(q.client, q.server)
  BY <1>3, <1>5 DEF Moved
<1>9. NoView \in Views /\ NoView.limbo = {} /\ 0 \in Versions /\ FALSE \in BOOLEAN
  <2>1. \A b \in BOOLEAN : [docs |-> {}, synced |-> {}, current |-> b, limbo |-> {}, state |-> "none"] \in Views
    BY DEF Views
  <2>2. NoView \in Views
    BY <2>1, Zenon DEF NoView
  <2> QED BY <2>2, BoundAssumption DEF NoView, Versions
<1>10. c \in Clients
  <2>1. \A b \in BOOLEAN : [q.client EXCEPT !.listening = b, !.view = NoView,
                              !.token = 0, !.limboFree = 0] \in Clients
    BY <1>8, <1>9, StepTypes DEF Clients
  <2> QED BY <1>9, <2>1, Zenon
<1>11. /\ c.open = q.client.open /\ c.agg = q.client.agg /\ c.targets = q.client.targets
       /\ c.resolving = q.client.resolving /\ c.enqueued = q.client.enqueued
       /\ c.view = NoView /\ ~c.listening
  BY <1>8, StepTypes DEF Clients
<1> HIDE DEF c
<1>12. p \in Steps /\ p.client = c /\ p.server = q.server /\ p.disk = q.disk
  BY <1>8, <1>10 DEF Steps
<1> HIDE DEF p
<1>13. /\ p.client.resolving = s.client.resolving /\ p.client.enqueued = s.client.enqueued
       /\ p.client.open = s.client.open /\ p.client.agg = q.client.agg
       /\ p.client.targets = q.client.targets
  BY <1>8, <1>11, <1>12 DEF SameBesides
<1>14. Connected(p.client, p.server)
  BY <1>8, <1>11, <1>12 DEF Connected
<1>15. TargetsMatch(p.client)
  <2>1. t \notin DOMAIN s.client.resolving
    BY <1>0, PartialIs, LookupAssumption DEF QueryTarget
  <2> QED BY <1>0, <1>8, <1>11, <1>12, <1>13, <2>1 DEF TargetsMatch
<1>16. Queued(p.client, limbo) /\ Pumped(p.client)
  BY <1>0, <1>13 DEF Queued, Pumped, Resolved
<1>17. SameKeysBut(now, meta, t)
  <2> SUFFICES ASSUME NEW u \in DOMAIN now.keys, u # t
               PROVE  u \in DOMAIN meta.keys /\ now.keys[u] = meta.keys[u]
    BY DEF SameKeysBut
  <2>1. u \in DOMAIN p.client.targets /\ u \in D /\ u \in DOMAIN meta.keys
    BY <1>8, <1>13, MetaFacts
  <2>3. now.keys[u] = IF p.client.resolving[u].received THEN {p.client.resolving[u].key} ELSE {}
    BY <2>1, MetaFacts
  <2>4. meta.keys[u] = IF s.client.resolving[u].received THEN {s.client.resolving[u].key} ELSE {}
    BY <2>1, MetaFacts
  <2> QED BY <1>13, <2>1, <2>3, <2>4
<1>18. Fits(p.client.agg, now)
  <2>1. Fits(r.client.agg, meta)
    BY <1>0, <1>3
  <2> HIDE DEF now, meta
  <2>2. Fits(q.client.agg, now)
    BY <1>3, <1>5, <1>17, <2>1, MovedFits
  <2> QED BY <1>13, <2>2
<1>19. Sound(p, limbo)
  BY <1>12, <1>14, <1>15, <1>16, <1>18 DEF Sound, Whole
<1>20. Sound(done, limbo \ limbo) /\ Kept(done, p)
  BY <1>0, <1>19, UntracksAll DEF done
<1>21. limbo \ limbo = {}
  OBVIOUS
<1> HIDE DEF limbo
<1>22. done.client.view = NoView /\ ~done.client.listening
  BY <1>11, <1>12, <1>20 DEF Kept, Looks
<1>23. Follows(done)
  BY <1>22 DEF Follows, NoView
<1>24. Ended(done, s)
  <2>1. done.disk = k
    BY <1>3, <1>5, <1>12, <1>20 DEF Moved, Kept, Looks
  <2>2. Appended(done.server.wire, q.server.wire, LookupIds)
    BY <1>12, <1>20 DEF Kept, Aside
  <2>3. Appended(done.server.wire, q.server.wire, TargetIds)
    BY <2>2, AppendedAny DEF TargetIds
  <2>4. Appended(done.server.wire, s.server.wire, TargetIds)
    BY <1>3, <1>5, <2>3, AppendedTwice DEF Moved
  <2> QED BY <1>1, <1>22, <2>1, <2>4 DEF Ended
<1>25. Good(done)
  BY <1>9, <1>20, <1>21, <1>22, <1>23 DEF Good, Resting
<1> QED BY <1>24, <1>25

\* The aggregator of a new stream, and the other end of it.
LEMMA NewStream ==
  /\ NewAggregator \in Aggregators /\ DOMAIN NewAggregator.states = {}
  /\ NewServer \in Servers /\ NewServer.wire = <<>>
  /\ Linked(NewAggregator, <<>>, {}) /\ \A meta : Fits(NewAggregator, meta)
<1>1. NewAggregator \in Aggregators /\ DOMAIN NewAggregator.states = {}
  BY PartialEmpty DEF NewAggregator, Aggregators
<1>2. NewServer \in Servers /\ NewServer.wire = <<>>
  BY PartialEmpty DEF NewServer, Servers
<1>3. \A t : Acks(<<>>, t) = {}
  BY DEF Acks
<1>4. \A t : EnsureTargetState(NewAggregator, t).outstanding = 0
  BY <1>1, NewStateType DEF EnsureTargetState
<1>5. Counted(NewAggregator, <<>>)
  BY <1>3, <1>4, FS_EmptySet DEF Counted
<1>6. LastTells(<<>>, {}) /\ RefusalsEnd(<<>>, {})
  BY <1>3 DEF LastTells, RefusalsEnd
<1>7. \A meta : Fits(NewAggregator, meta)
  BY <1>1 DEF Fits
<1> QED BY <1>1, <1>2, <1>5, <1>6, <1>7 DEF Linked

\* Nothing but the connection is different.
Connecting(r, s) ==
  /\ r \in Steps /\ r.client.targets = s.client.targets /\ r.client.listening = s.client.listening
  /\ r.client.view = s.client.view /\ r.client.resolving = s.client.resolving
  /\ r.client.enqueued = s.client.enqueued /\ r.disk = s.disk
  /\ r.client.token = s.client.token /\ r.client.limboFree = s.client.limboFree

LEMMA ConnectionChanges ==
  ASSUME NEW s, Good(s), NEW r, Connecting(r, s), Connected(r.client, r.server),
         Fits(r.client.agg, Meta(s.client))
  PROVE  Good(r)
<1>1. Meta(r.client) = Meta(s.client)
  BY DEF Connecting, Meta
<1>2. TargetsMatch(r.client) /\ Pumped(r.client) /\ Resting(r.client)
  BY DEF Connecting, Good, Sound, Whole, TargetsMatch, Pumped, Resting
<1>3. Queued(r.client, r.client.view.limbo)
  BY DEF Connecting, Good, Sound, Whole, Queued, Resolved
<1>4. Follows(r)
  BY StillFollows DEF Good, Connecting, SameShown
<1> QED BY <1>1, <1>2, <1>3, <1>4 DEF Good, Sound, Whole, Connecting

\* The query is watched from a version, and the client does not forget what it had then.
WatchedAgain(r, token) ==
  /\ WatchedFrom(r.server.watching, token)
  /\ \A h, keys : Told(h, token) \subseteq keys =>
                  Learns(h, r.server.wire, r.client.agg, keys, token)

LEMMA DeafWatched ==
  ASSUME NEW r, Deaf(r), NEW token, WatchedFrom(r.server.watching, token)
  PROVE  WatchedAgain(r, token)
  BY DeafLearns DEF WatchedAgain

LEMMA AsideWatched ==
  ASSUME NEW s, NEW r, Aside(r, s), s.server.wire \in Seq(Messages),
         r.server.wire \in Seq(Messages), NEW token, WatchedAgain(s, token)
  PROVE  WatchedAgain(r, token)
<1>1. WatchedFrom(r.server.watching, token)
  BY DEF WatchedAgain, Aside, QuerySame, WatchedFrom
<1>2. ASSUME NEW h, NEW keys, Told(h, token) \subseteq keys
      PROVE  Learns(h, r.server.wire, r.client.agg, keys, token)
  <2>1. Learns(h, s.server.wire, s.client.agg, keys, token)
    BY <1>2 DEF WatchedAgain
  <2> QED BY <2>1, AsideLearns
<1> QED BY <1>1, <1>2 DEF WatchedAgain

\* OnWatchStreamOpen.
LEMMA StreamOpens ==
  ASSUME NEW s, Good(s), ~s.client.open
  PROVE  LET r == SendWatchRequests([s EXCEPT !.client.open = TRUE,
                                              !.client.agg = NewAggregator], s.client.targets)
         IN  /\ Good(r) /\ Connecting(r, s) /\ r.client.open
             /\ Appended(r.server.wire, s.server.wire, TargetIds)
             /\ QueryTarget \in DOMAIN s.client.targets =>
                  WatchedAgain(r, s.client.targets[QueryTarget])
<1> DEFINE c == [s.client EXCEPT !.open = TRUE, !.agg = NewAggregator]
           base == [s EXCEPT !.client = c]
           targets == s.client.targets
           D == DOMAIN targets
           meta == Meta(s.client)
           Open(T) == {r \in Steps : /\ Connecting(r, s) /\ r.client.open
                                     /\ Linked(r.client.agg, r.server.wire, T)
                                     /\ Fits(r.client.agg, meta)
                                     /\ \A u : NotRefused(r.server.wire, u)
                                     /\ Appended(r.server.wire, s.server.wire, TargetIds)
                                     /\ QueryTarget \in T =>
                                          WatchedAgain(r, targets[QueryTarget])}
           family == [T \in SUBSET D |-> Open(T)]
           done == SendWatchRequests(base, targets)
<1>0. /\ s \in Steps /\ Connected(s.client, s.server) /\ TargetsMatch(s.client)
      /\ targets \in Partial(TargetIds, Versions)
  BY StepTypes DEF Good, Sound, Whole
<1>1. s.server.wire = <<>> /\ TRUE \in BOOLEAN
  BY <1>0, NewStream DEF Connected
<1>2. c \in Clients
  <2>1. \A b \in BOOLEAN : [s.client EXCEPT !.open = b, !.agg = NewAggregator] \in Clients
    BY <1>0, StepTypes, NewStream DEF Clients
  <2> QED BY <1>1, <2>1, Zenon
<1>3. /\ c.open /\ c.agg = NewAggregator /\ c.targets = s.client.targets /\ c.view = s.client.view
      /\ c.resolving = s.client.resolving /\ c.enqueued = s.client.enqueued
      /\ c.listening = s.client.listening
      /\ c.token = s.client.token /\ c.limboFree = s.client.limboFree
  BY <1>0, StepTypes DEF Clients
<1>4. base = [s EXCEPT !.client.open = TRUE, !.client.agg = NewAggregator]
  BY <1>0 DEF Steps, Clients
<1> SUFFICES /\ Good(done) /\ Connecting(done, s) /\ done.client.open
             /\ Appended(done.server.wire, s.server.wire, TargetIds)
             /\ QueryTarget \in D => WatchedAgain(done, targets[QueryTarget])
  BY <1>4
<1> HIDE DEF c
<1>5. base \in Steps /\ base.client = c /\ base.server = s.server /\ base.disk = s.disk
  BY <1>0, <1>2 DEF Steps
<1> HIDE DEF base
<1>6. base \in Open({})
  <2>1. Connecting(base, s)
    BY <1>3, <1>5 DEF Connecting
  <2>2. \A u : NotRefused(base.server.wire, u)
    BY <1>1, <1>5 DEF NotRefused
  <2>3. Appended(base.server.wire, s.server.wire, TargetIds)
    BY <1>5 DEF Appended
  <2> QED BY <1>1, <1>3, <1>5, <2>1, <2>2, <2>3, NewStream
<1>7. \A T \in SUBSET D : \A x \in T : \A r \in family[T \ {x}] :
        SendWatchRequest(r, x, targets[x]) \in family[T]
  <2> SUFFICES ASSUME NEW T \in SUBSET D, NEW x \in T, NEW r \in Open(T \ {x})
               PROVE  SendWatchRequest(r, x, targets[x]) \in Open(T)
    OBVIOUS
  <2> DEFINE q == SendWatchRequest(r, x, targets[x])
  <2>1. /\ r \in Steps /\ Connecting(r, s) /\ r.client.open
        /\ Linked(r.client.agg, r.server.wire, T \ {x}) /\ Fits(r.client.agg, meta)
        /\ \A u : NotRefused(r.server.wire, u)
        /\ Appended(r.server.wire, s.server.wire, TargetIds)
        /\ QueryTarget \in T \ {x} => WatchedAgain(r, targets[QueryTarget])
    OBVIOUS
  <2>2. x \in TargetIds /\ targets[x] \in Versions
    BY <1>0, PartialIs
  <2>3. x = QueryTarget \/ x \in DOMAIN r.client.resolving
    BY <1>0, <2>1 DEF TargetsMatch, Connecting
  <2> HIDE DEF targets, meta
  <2>4. /\ Sent(q, r, x, (T \ {x}) \cup {x})
        /\ x = QueryTarget => WatchedFrom(q.server.watching, targets[x])
    BY <2>1, <2>2, <2>3, SendsWatch
  <2>5. (T \ {x}) \cup {x} = T
    OBVIOUS
  <2> HIDE DEF q
  <2>6. /\ q \in Steps /\ Linked(q.client.agg, q.server.wire, T) /\ SameBesides(q.client, r.client)
        /\ q.client.targets = r.client.targets /\ Requested(q.client.agg, r.client.agg, x)
        /\ \A u : NotRefused(q.server.wire, u)
        /\ q.disk = r.disk
    BY <2>1, <2>4, <2>5 DEF Sent
  <2>7. Connecting(q, s) /\ q.client.open
    BY <2>1, <2>6 DEF Connecting, SameBesides
  <2>8. Fits(q.client.agg, meta)
    <3>1. SameKeysBut(meta, meta, x) /\ r.client.agg \in Aggregators
      BY <2>1, StepTypes DEF SameKeysBut
    <3> QED BY <2>1, <2>6, <3>1, RequestFits
  <2>8a. Appended(q.server.wire, s.server.wire, TargetIds)
    BY <2>1, <2>4, AppendedTwice DEF Sent
  <2>8b. QueryTarget \in T => WatchedAgain(q, targets[QueryTarget])
    <3>1. CASE x = QueryTarget
      BY <2>4, <3>1, DeafWatched DEF Sent
    <3>2. CASE x # QueryTarget
      BY <2>1, <2>4, <2>6, <3>2, StepTypes, AsideWatched DEF Sent
    <3> QED BY <3>1, <3>2
  <2>9. q \in Open(T)
    BY <2>6, <2>7, <2>8, <2>8a, <2>8b DEF targets
  <2> QED BY <2>9 DEF q
<1>8. IsFiniteSet(D) /\ family[D] = Open(D) /\ base \in family[{}]
  BY <1>0, <1>6, PartialIs
<1> HIDE DEF family
<1>9. done \in family[D]
  BY <1>7, <1>8, SendFold
<1> HIDE DEF done
<1>10. /\ Connecting(done, s) /\ done.client.open
       /\ Linked(done.client.agg, done.server.wire, D) /\ Fits(done.client.agg, meta)
       /\ Appended(done.server.wire, s.server.wire, TargetIds)
       /\ QueryTarget \in D => WatchedAgain(done, targets[QueryTarget])
  BY <1>8, <1>9
<1>11. Connected(done.client, done.server)
  BY <1>10 DEF Connecting, Connected
<1> QED BY <1>10, <1>11, ConnectionChanges

\* The stream is closed, by the client or for it.
LEMMA StreamCloses ==
  ASSUME NEW s, Good(s)
  PROVE  LET r == [s EXCEPT !.client.open = FALSE, !.client.agg = NewAggregator,
                            !.server = NewServer]
         IN  Good(r) /\ Connecting(r, s) /\ ~r.client.open /\ r.server.wire = <<>>
<1> DEFINE c == [s.client EXCEPT !.open = FALSE, !.agg = NewAggregator]
           r == [s EXCEPT !.client = c, !.server = NewServer]
<1>0. s \in Steps /\ FALSE \in BOOLEAN
  BY DEF Good, Sound, Whole
<1>1. c \in Clients
  <2>1. \A b \in BOOLEAN : [s.client EXCEPT !.open = b, !.agg = NewAggregator] \in Clients
    BY <1>0, StepTypes, NewStream DEF Clients
  <2> QED BY <1>0, <2>1, Zenon
<1>2. /\ ~c.open /\ c.agg = NewAggregator /\ c.targets = s.client.targets /\ c.view = s.client.view
      /\ c.resolving = s.client.resolving /\ c.enqueued = s.client.enqueued
      /\ c.listening = s.client.listening
      /\ c.token = s.client.token /\ c.limboFree = s.client.limboFree
  BY <1>0, StepTypes DEF Clients
<1>3. r = [s EXCEPT !.client.open = FALSE, !.client.agg = NewAggregator, !.server = NewServer]
  BY <1>0 DEF Steps, Clients
<1> HIDE DEF c
<1>4. r \in Steps /\ r.client = c /\ r.server = NewServer /\ r.disk = s.disk
  BY <1>0, <1>1, NewStream DEF Steps
<1> HIDE DEF r
<1>5. Connecting(r, s) /\ Connected(r.client, r.server)
  BY <1>2, <1>4 DEF Connecting, Connected
<1>6. Good(r)
  BY <1>2, <1>4, <1>5, NewStream, ConnectionChanges
<1>7. ~r.client.open /\ r.server.wire = <<>>
  BY <1>2, <1>4, NewStream
<1> QED BY <1>3, <1>5, <1>6, <1>7

\* View::ApplyOnlineStateChange.
LEMMA ViewGoesLocal ==
  ASSUME NEW s, Good(s), s.client.listening
  PROVE  LET r == [s EXCEPT !.client.view.current = FALSE, !.client.view.state = "local"]
         IN  /\ Good(r) /\ Steady(r, s) /\ r.disk = s.disk
             /\ r.client.view.docs = s.client.view.docs
             /\ r.client.view.synced = s.client.view.synced
<1> DEFINE view == [s.client.view EXCEPT !.current = FALSE, !.state = "local"]
           limbo == s.client.view.limbo
           r == [s EXCEPT !.client.view = view]
<1>0. s \in Steps /\ s.client.view \in Views /\ Sound(s, limbo) /\ FALSE \in BOOLEAN
  BY StepTypes DEF Good, Sound, Whole
<1>1. view \in Views
  <2>1. \A b \in BOOLEAN : [s.client.view EXCEPT !.current = b, !.state = "local"] \in Views
    BY <1>0 DEF Views
  <2> QED BY <1>0, <2>1, Zenon
<1>2. /\ view.synced = s.client.view.synced /\ view.limbo = limbo
      /\ view.docs = s.client.view.docs /\ ~view.current /\ view.state = "local"
  BY <1>0 DEF Views
<1>3. r = [s EXCEPT !.client.view.current = FALSE, !.client.view.state = "local"]
  BY <1>0 DEF Steps, Clients
<1> HIDE DEF view
<1>4. /\ Sound(r, limbo) /\ r.client.view = view /\ r.client.listening = s.client.listening
      /\ r.disk = s.disk /\ Steady(r, s)
  BY <1>0, <1>1, <1>2, ViewChanges
<1> HIDE DEF r
<1>5. Follows(r)
  BY <1>2, <1>4 DEF Good, Follows
<1>6. Good(r)
  BY <1>2, <1>4, <1>5 DEF Good, Resting
<1> QED BY <1>2, <1>3, <1>4, <1>6

\* The app as it is launched.
LEMMA Launched ==
  ASSUME NEW k \in Disks
  PROVE  Good([client |-> NewClient, disk |-> k, server |-> NewServer])
<1> DEFINE s == [client |-> NewClient, disk |-> k, server |-> NewServer]
<1>1. NoView \in Views /\ NoView.limbo = {} /\ 0 \in Versions /\ FALSE \in BOOLEAN
  <2>1. \A b \in BOOLEAN : [docs |-> {}, synced |-> {}, current |-> b, limbo |-> {}, state |-> "none"] \in Views
    BY DEF Views
  <2>2. NoView \in Views
    BY <2>1, Zenon DEF NoView
  <2> QED BY <2>2, BoundAssumption DEF NoView, Versions
<1>2. NewClient \in Clients
  <2>1. <<>> \in Partial(TargetIds, Versions) /\ <<>> \in Partial(LookupIds, Lookups) /\ <<>> \in Seq(Docs)
    BY PartialEmpty
  <2>2. \A b \in BOOLEAN : [open |-> b, targets |-> <<>>, agg |-> NewAggregator,
              listening |-> b, view |-> NoView, token |-> 0, limboFree |-> 0,
              resolving |-> <<>>, enqueued |-> <<>>] \in Clients
    BY <1>1, <2>1, NewStream DEF Clients
  <2> QED BY <1>1, <2>2, Zenon DEF NewClient
<1>3. /\ ~NewClient.open /\ NewClient.agg = NewAggregator /\ NewClient.view = NoView
      /\ NewClient.targets = <<>> /\ NewClient.resolving = <<>> /\ NewClient.enqueued = <<>>
      /\ ~NewClient.listening
  BY DEF NewClient
<1>4. s \in Steps /\ s.client = NewClient /\ s.server = NewServer
  BY <1>2, NewStream DEF Steps
<1> HIDE DEF s
<1>5. DOMAIN s.client.targets = {} /\ DOMAIN s.client.resolving = {} /\ s.client.enqueued = <<>>
  BY <1>3, <1>4
<1>6. TargetsMatch(s.client) /\ Connected(s.client, s.server)
  BY <1>3, <1>4, <1>5 DEF TargetsMatch, Connected
<1>7. Fits(s.client.agg, Meta(s.client))
  BY <1>3, <1>4, NewStream
<1>8. Queued(s.client, {})
  BY <1>5 DEF Queued, Resolved, IsOneToOne, ToSet
<1>9. Pumped(s.client)
  BY <1>5, FS_EmptySet, LookupAssumption DEF Pumped
<1>10. Follows(s)
  BY <1>3, <1>4 DEF Follows, NoView
<1>11. Good(s)
  BY <1>1, <1>3, <1>4, <1>6, <1>7, <1>8, <1>9, <1>10 DEF Good, Sound, Whole, Resting
<1> QED BY <1>11 DEF s

-----------------------------------------------------------------------------
(* The steps of the database and the server.                               *)

LEMMA SetToSeqFacts ==
  ASSUME NEW S, IsFiniteSet(S)
  PROVE  /\ SetToSeq(S) \in Seq(S)
         /\ \A x \in S : \E i \in DOMAIN SetToSeq(S) : SetToSeq(S)[i] = x
<1> DEFINE r == SetToSeq(S)
<1>1. PICK n \in Nat : ExistsBijection(1 .. n, S)
  BY FS_NatBijection
<1>2. Cardinality(S) = n /\ Cardinality(1 .. n) = n
  BY <1>1, FS_CountingElements, FS_Interval
<1>3. \E f \in [1 .. n -> S] : IsInjective(f)
  BY <1>1 DEF ExistsBijection, Bijection, Injection
<1>4. r \in [1 .. n -> S] /\ IsInjective(r)
  BY <1>2, <1>3 DEF SetToSeq
<1> HIDE DEF r
<1>5. r \in Surjection(1 .. n, S)
  <2>1. r \in Injection(1 .. n, S)
    BY <1>4 DEF Injection
  <2> QED BY <1>2, <2>1, FS_Injection
<1>6. r \in Seq(S) /\ \A x \in S : \E i \in DOMAIN r : r[i] = x
  BY <1>4, <1>5 DEF Surjection
<1> QED BY <1>6 DEF r

\* A wire is still linked after messages that acknowledge nothing.
Tells(v, w) ==
  /\ v \in Seq(Messages)
  /\ \A a, T : Linked(a, w, T) => Linked(a, v, T)

NoAck(m) == m.what \notin {"added", "removed"}

LEMMA TellsOne ==
  ASSUME NEW w \in Seq(Messages), NEW m \in Messages, NoAck(m)
  PROVE  Tells(w \o <<m>>, w) /\ Tells(Append(w, m), w)
<1>1. <<m>> \in Seq(Messages) /\ DOMAIN <<m>> = {1} /\ <<m>>[1] = m
  OBVIOUS
<1>2. \A i \in DOMAIN <<m>> : <<m>>[i].what \notin {"added", "removed"}
  BY <1>1 DEF NoAck
<1>3. w \o <<m>> \in Seq(Messages)
  BY <1>1, ConcatFacts
<1>4. Append(w, m) = w \o <<m>>
  OBVIOUS
<1>5. ASSUME NEW a, NEW T, Linked(a, w, T) PROVE Linked(a, w \o <<m>>, T)
  <2> DEFINE r == <<m>>
  <2>1. r \in Seq(Messages) /\ \A i \in DOMAIN r : r[i].what \notin {"added", "removed"}
    BY <1>1, <1>2
  <2> HIDE DEF r
  <2>2. Linked(a, w \o r, T)
    BY <1>5, <2>1, LinkedExtend
  <2> QED BY <2>2 DEF r
<1> QED BY <1>3, <1>4, <1>5 DEF Tells

LEMMA TellsAll ==
  ASSUME NEW w \in Seq(Messages), NEW S \in SUBSET Messages, IsFiniteSet(S),
         \A m \in S : NoAck(m)
  PROVE  Tells(w \o SetToSeq(S), w)
<1> DEFINE r == SetToSeq(S)
<1>1. r \in Seq(S)
  BY SetToSeqFacts
<1> HIDE DEF r
<1>2. r \in Seq(Messages) /\ \A i \in DOMAIN r : r[i] \in S
  BY <1>1
<1>3. \A i \in DOMAIN r : r[i].what \notin {"added", "removed"}
  BY <1>2 DEF NoAck
<1>4. w \o r \in Seq(Messages)
  BY <1>2, ConcatFacts
<1>5. ASSUME NEW a, NEW T, Linked(a, w, T) PROVE Linked(a, w \o r, T)
  BY <1>2, <1>3, <1>5, LinkedExtend
<1> QED BY <1>4, <1>5 DEF Tells, r

\* v is w and then the messages of S.
Adds(v, w, S) ==
  /\ v \in Seq(Messages)
  /\ \A i \in DOMAIN w : i \in DOMAIN v /\ v[i] = w[i]
  /\ \A i \in DOMAIN v \ DOMAIN w : v[i] \in S
  /\ \A m \in S : \E i \in DOMAIN v \ DOMAIN w : v[i] = m

LEMMA AddsSet ==
  ASSUME NEW w \in Seq(Messages), NEW S \in SUBSET Messages, IsFiniteSet(S)
  PROVE  Adds(w \o SetToSeq(S), w, S)
<1> DEFINE r == SetToSeq(S)
           v == w \o r
<1>1. r \in Seq(S) /\ \A m \in S : \E i \in DOMAIN r : r[i] = m
  BY SetToSeqFacts
<1> HIDE DEF r
<1>2. r \in Seq(Messages) /\ \A i \in DOMAIN r : r[i] \in S
  BY <1>1
<1>3. v \in Seq(Messages) /\ Joined(v, w, r)
  BY <1>2, ConcatFacts
<1>4. Len(w) \in Nat
  OBVIOUS
<1> HIDE DEF v
<1>5. \A j \in DOMAIN r : Len(w) + j \in DOMAIN v \ DOMAIN w /\ v[Len(w) + j] = r[j]
  <2>1. ASSUME NEW j \in DOMAIN r, Len(w) + j \in DOMAIN w PROVE FALSE
    <3>1. Len(w) + j < Len(w) + j /\ j \in Nat
      BY <1>3, <2>1 DEF Joined
    <3> QED BY <1>4, <3>1
  <2> QED BY <1>3, <2>1 DEF Joined
<1>6. \A i \in DOMAIN v \ DOMAIN w : \E j \in DOMAIN r : i = Len(w) + j
  BY <1>3 DEF Joined
<1>7. \A i \in DOMAIN v \ DOMAIN w : v[i] \in S
  BY <1>2, <1>5, <1>6
<1>8. \A m \in S : \E i \in DOMAIN v \ DOMAIN w : v[i] = m
  BY <1>1, <1>5
<1>9. \A i \in DOMAIN w : i \in DOMAIN v /\ v[i] = w[i]
  BY <1>3 DEF Joined
<1>10. Adds(v, w, S)
  BY <1>3, <1>7, <1>8, <1>9 DEF Adds
<1> QED BY <1>10 DEF v, r

LEMMA AddsTwice ==
  ASSUME NEW u, NEW v, NEW w, NEW S, NEW T, Adds(u, v, T), Adds(v, w, S)
  PROVE  Adds(u, w, S \cup T)
<1>1. /\ DOMAIN w \subseteq DOMAIN v /\ DOMAIN v \subseteq DOMAIN u
      /\ \A i \in DOMAIN w : u[i] = w[i]
  BY DEF Adds
<1>2. \A i \in DOMAIN u \ DOMAIN w : u[i] \in S \cup T
  BY DEF Adds
<1>3. ASSUME NEW m \in S \cup T PROVE \E i \in DOMAIN u \ DOMAIN w : u[i] = m
  BY <1>1 DEF Adds
<1> QED BY <1>1, <1>2, <1>3 DEF Adds

\* What the server says changes nothing of the client, until it arrives.
LEMMA ServerTells ==
  ASSUME NEW s, Good(s), s.client.open, NEW v, Tells(v, s.server.wire),
         NEW watching \in Partial(TargetIds, Watches),
         NEW r, r = [client |-> s.client, disk |-> s.disk,
                     server |-> [watching |-> watching, wire |-> v]]
  PROVE  Good(r)
<1> DEFINE f == [watching |-> watching, wire |-> v]
<1>1. s \in Steps /\ Connected(s.client, s.server) /\ Fits(s.client.agg, Meta(s.client))
  BY DEF Good, Sound, Whole
<1>2. f \in Servers /\ f.wire = v
  BY DEF Servers, Tells
<1>3. r = [client |-> s.client, disk |-> s.disk, server |-> f]
  OBVIOUS
<1> HIDE DEF f
<1>4. r \in Steps /\ r.client = s.client /\ r.server = f /\ r.disk = s.disk
  BY <1>1, <1>2, <1>3, StepTypes DEF Steps
<1>5. Connecting(r, s)
  BY <1>4 DEF Connecting
<1>6. Connected(r.client, r.server)
  BY <1>1, <1>2, <1>4 DEF Connected, Tells
<1> QED BY <1>1, <1>4, <1>5, <1>6, ConnectionChanges

\* The set of the targets that the server finds to be so.
LEMMA FiniteTargets ==
  ASSUME NEW f \in Partial(TargetIds, Watches), NEW T \in SUBSET DOMAIN f
  PROVE  IsFiniteSet(T) /\ T \in SUBSET TargetIds
<1>1. IsFiniteSet(DOMAIN f) /\ DOMAIN f \in SUBSET TargetIds
  BY PartialIs
<1> QED BY <1>1, FS_Subset

LEMMA ImageFinite ==
  ASSUME NEW S, IsFiniteSet(S), NEW f, DOMAIN f = S, NEW T \in SUBSET {f[x] : x \in S}
  PROVE  IsFiniteSet(T)
<1> DEFINE R == {f[x] : x \in S}
           g == [x \in S |-> f[x]]
<1>1. g \in Surjection(S, R)
  BY DEF Surjection
<1> HIDE DEF R, g
<1>2. IsFiniteSet(R)
  BY <1>1, FS_Surjection
<1> QED BY <1>2, FS_Subset DEF R

LEMMA NowType ==
  ASSUME db \in Databases, Len(db) \in 1 .. MaxVersion
  PROVE  /\ Now \in Nat /\ Now \in Versions /\ Now # 0 /\ Now \in DOMAIN db
         /\ \A d \in Docs : db[Now][d].value \in Values /\ db[Now][d].since \in Versions
<1>1. Now \in Nat /\ Now \in Versions /\ Now # 0 /\ Now \in DOMAIN db
  BY BoundAssumption DEF Now, Versions, Databases
<1> HIDE DEF Now
<1>2. db[Now] \in [Docs -> [value : Values, since : Versions]]
  BY <1>1 DEF Databases
<1> QED BY <1>1, <1>2

LEMMA UpdateOfType ==
  ASSUME db \in Databases, Len(db) \in 1 .. MaxVersion, NEW d \in Docs
  PROVE  UpdateOf(d) \in Updates
BY NowType DEF UpdateOf, Updates

LEMMA DocumentMessageType ==
  ASSUME server.watching \in Partial(TargetIds, Watches),
         NEW d \in Docs, NEW update \in Updates, NEW forgotten
  PROVE  DocumentMessage(d, update, forgotten) \in DocMessages
<1> DEFINE In == {t \in DOMAIN server.watching : d \in Entering(server.watching[t])}
           Out == {t \in DOMAIN server.watching : d \in Leaving(server.watching[t])} \ forgotten
<1>1. In \in SUBSET DOMAIN server.watching /\ Out \in SUBSET DOMAIN server.watching
  OBVIOUS
<1>2. DocumentMessage(d, update, forgotten) =
        [what |-> "doc", key |-> d, update |-> update, in |-> In, out |-> Out]
  BY DEF DocumentMessage
<1> HIDE DEF In, Out
<1>3. /\ IsFiniteSet(In) /\ In \in SUBSET TargetIds
      /\ IsFiniteSet(Out) /\ Out \in SUBSET TargetIds
  BY <1>1, FiniteTargets
<1> QED BY <1>2, <1>3 DEF DocMessages

LEMMA ResultType ==
  ASSUME NEW w \in Watches, NEW v
  PROVE  /\ ResultAt(w, v) \in SUBSET Docs /\ IsFiniteSet(ResultAt(w, v))
         /\ Cardinality(ResultAt(w, v)) \in Nat
<1>1. ResultAt(w, v) \in SUBSET Docs
  BY DEF ResultAt, Watches
<1> HIDE DEF ResultAt
<1>2. IsFiniteSet(ResultAt(w, v))
  BY <1>1, DocsAssumption, FS_Subset
<1> QED BY <1>1, <1>2, FS_CardinalityType

\* The listens that the server resumes, and the messages of ServerSends.
Resumed == {t \in Catching : server.watching[t].resumed}

SaidDocs(omits, forgets) ==
  LET messages == {DocumentMessage(d, IF omits THEN NoUpdate ELSE UpdateOf(d),
                                   IF d \in forgets THEN Resumed ELSE {}) : d \in Docs}
  IN  {m \in {IF m.in = {} THEN m ELSE [m EXCEPT !.update = UpdateOf(m.key)] : m \in messages} :
         m.in \cup m.out # {}}

SaidCurrents == {[what |-> "current", target |-> t, token |-> Now] : t \in Catching}

SaidFilters(might) ==
  {[what |-> "filter", target |-> t,
    count |-> Cardinality(ResultAt(server.watching[t], Now)),
    might |-> ResultAt(server.watching[t], Now) \cup might] : t \in Resumed}

\* The server has said what it had to say, and all targets are current.
Spoken(said) ==
  /\ \E u : /\ Adds(u, server.wire, said)
            /\ server'.wire = u \o <<[what |-> "snapshot", version |-> Now]>>
  /\ server'.watching = [t \in DOMAIN server.watching |->
                           [server.watching[t] EXCEPT !.asOf = Now, !.current = TRUE]]

\* ServerSends.
LEMMA SendsAll ==
  ASSUME db \in Databases, Len(db) \in 1 .. MaxVersion, Good(State),
         NEW omits, NEW forgets, NEW might \in SUBSET Docs, ServerSends(omits, forgets, might)
  PROVE  /\ Good([client |-> client, disk |-> disk, server |-> server'])
         /\ Spoken(UNION {SaidDocs(omits, forgets), SaidCurrents, SaidFilters(might)})
         /\ UNION {SaidDocs(omits, forgets), SaidCurrents, SaidFilters(might)} \subseteq Messages
<1> DEFINE w == server.wire
           D == DOMAIN server.watching
           resumed == {t \in Catching : server.watching[t].resumed}
           First == [d \in Docs |-> DocumentMessage(d, IF omits THEN NoUpdate ELSE UpdateOf(d),
                                                    IF d \in forgets THEN resumed ELSE {})]
           messages == {First[d] : d \in Docs}
           Second == [m \in messages |->
                        IF m.in = {} THEN m ELSE [m EXCEPT !.update = UpdateOf(m.key)]]
           docs == {m \in {Second[m] : m \in messages} : m.in \cup m.out # {}}
           Filter == [t \in resumed |-> [what |-> "filter", target |-> t,
                        count |-> Cardinality(ResultAt(server.watching[t], Now)),
                        might |-> ResultAt(server.watching[t], Now) \cup might]]
           filters == {Filter[t] : t \in resumed}
           Current == [t \in Catching |-> [what |-> "current", target |-> t, token |-> Now]]
           currents == {Current[t] : t \in Catching}
           last == [what |-> "snapshot", version |-> Now]
           w1 == w \o SetToSeq(docs)
           w2 == w1 \o SetToSeq(currents)
           w3 == w2 \o SetToSeq(filters)
           w4 == w3 \o <<last>>
           watching == [t \in D |-> [server.watching[t] EXCEPT !.asOf = Now, !.current = TRUE]]
<1>0. /\ State \in Steps /\ Connected(client, server)
      /\ server.watching \in Partial(TargetIds, Watches) /\ w \in Seq(Messages)
  <2>1. State \in Steps /\ Connected(State.client, State.server)
    BY DEF Good, Sound, Whole
  <2>2. State.client = client /\ State.server = server
    BY DEF State
  <2> QED BY <2>1, <2>2, StepTypes
<1>1. server' = [watching |-> watching, wire |-> w4] /\ Stale # {}
  <2>1. docs = {m \in {IF m.in = {} THEN m ELSE [m EXCEPT !.update = UpdateOf(m.key)] :
                         m \in {DocumentMessage(d, IF omits THEN NoUpdate ELSE UpdateOf(d),
                                  IF d \in forgets THEN resumed ELSE {}) : d \in Docs}} :
                  m.in \cup m.out # {}}
    OBVIOUS
  <2>2. /\ filters = {[what |-> "filter", target |-> t,
                   count |-> Cardinality(ResultAt(server.watching[t], Now)),
                   might |-> ResultAt(server.watching[t], Now) \cup might] : t \in resumed}
        /\ currents = {[what |-> "current", target |-> t, token |-> Now] : t \in Catching}
    OBVIOUS
  <2> HIDE DEF docs, filters, currents
  <2> QED BY <2>1, <2>2 DEF ServerSends, HasToSay
<1>1a. /\ docs = SaidDocs(omits, forgets) /\ currents = SaidCurrents
       /\ filters = SaidFilters(might)
  BY DEF SaidDocs, SaidCurrents, SaidFilters, Resumed
<1>2. /\ resumed \in SUBSET D /\ Catching \in SUBSET D /\ Stale \in SUBSET D
  BY DEF Catching, Stale
<1> HIDE DEF resumed
<1>3. client.open
  <2>1. SUFFICES ASSUME ~client.open PROVE FALSE
    OBVIOUS
  <2>2. server.watching = <<>>
    BY <1>0, <2>1 DEF Connected, NewServer
  <2> QED BY <1>1, <1>2, <2>2
<1>4. /\ IsFiniteSet(resumed) /\ resumed \in SUBSET TargetIds
      /\ IsFiniteSet(Catching) /\ Catching \in SUBSET TargetIds
  BY <1>0, <1>2, FiniteTargets
<1>5. \A d \in Docs : First[d] \in DocMessages
  <2> SUFFICES ASSUME NEW d \in Docs PROVE First[d] \in DocMessages
    OBVIOUS
  <2> DEFINE u == IF omits THEN NoUpdate ELSE UpdateOf(d)
  <2>1. u \in Updates
    BY UpdateOfType, NoUpdateType
  <2> HIDE DEF u
  <2>2. DocumentMessage(d, u, IF d \in forgets THEN resumed ELSE {}) \in DocMessages
    BY <1>0, <2>1, DocumentMessageType
  <2> QED BY <2>2 DEF u
<1>6. IsFiniteSet(messages) /\ messages \in SUBSET DocMessages
  <2>1. DOMAIN First = Docs
    OBVIOUS
  <2> HIDE DEF First
  <2> QED BY <1>5, <2>1, DocsAssumption, ImageFinite
<1> HIDE DEF First, messages
<1>7. \A m \in messages : Second[m] \in DocMessages
  <2> SUFFICES ASSUME NEW m \in messages PROVE Second[m] \in DocMessages
    OBVIOUS
  <2>1. m \in DocMessages /\ m.key \in Docs
    BY <1>6 DEF DocMessages
  <2>2. UpdateOf(m.key) \in Updates
    BY <2>1, UpdateOfType
  <2>3. [m EXCEPT !.update = UpdateOf(m.key)] \in DocMessages
    BY <2>1, <2>2 DEF DocMessages
  <2> QED BY <2>1, <2>3
<1>8. IsFiniteSet(docs) /\ docs \in SUBSET DocMessages
  <2>1. DOMAIN Second = messages
    OBVIOUS
  <2> HIDE DEF Second
  <2>2. docs \in SUBSET {Second[m] : m \in messages}
    OBVIOUS
  <2> HIDE DEF docs
  <2>3. IsFiniteSet(docs)
    BY <1>6, <2>1, <2>2, ImageFinite
  <2> QED BY <1>7, <2>2, <2>3
<1>9. IsFiniteSet(currents) /\ currents \in SUBSET CurrentMessages
  <2>1. DOMAIN Current = Catching
    OBVIOUS
  <2>2. \A t \in Catching : Current[t] \in CurrentMessages
    BY <1>4, NowType DEF CurrentMessages
  <2> HIDE DEF Current
  <2> QED BY <1>4, <2>1, <2>2, ImageFinite
<1>10. IsFiniteSet(filters) /\ filters \in SUBSET FilterMessages
  <2>1. DOMAIN Filter = resumed
    OBVIOUS
  <2>2. \A t \in resumed : Filter[t] \in FilterMessages
    <3> SUFFICES ASSUME NEW t \in resumed PROVE Filter[t] \in FilterMessages
      OBVIOUS
    <3>1. server.watching[t] \in Watches
      BY <1>0, <1>2, PartialIs
    <3> DEFINE S == ResultAt(server.watching[t], Now)
    <3>2. S \in SUBSET Docs /\ Cardinality(S) \in Nat
      BY <3>1, ResultType
    <3>3. Filter[t] = [what |-> "filter", target |-> t, count |-> Cardinality(S),
                       might |-> S \cup might]
      OBVIOUS
    <3> HIDE DEF S, Filter
    <3> QED BY <1>4, <3>2, <3>3 DEF FilterMessages
  <2> HIDE DEF Filter
  <2> QED BY <1>4, <2>1, <2>2, ImageFinite
<1>11. last \in Messages /\ NoAck(last)
  BY NowType DEF Messages, SnapshotMessages, NoAck
<1> HIDE DEF docs, currents, filters, last
<1>12. /\ docs \in SUBSET Messages /\ (\A m \in docs : NoAck(m))
       /\ currents \in SUBSET Messages /\ (\A m \in currents : NoAck(m))
       /\ filters \in SUBSET Messages /\ (\A m \in filters : NoAck(m))
  <2>1. DocMessages \in SUBSET Messages /\ \A m \in DocMessages : NoAck(m)
    BY DEF Messages, DocMessages, NoAck
  <2>2. CurrentMessages \in SUBSET Messages /\ \A m \in CurrentMessages : NoAck(m)
    BY DEF Messages, CurrentMessages, NoAck
  <2>3. FilterMessages \in SUBSET Messages /\ \A m \in FilterMessages : NoAck(m)
    BY DEF Messages, FilterMessages, NoAck
  <2> QED BY <1>8, <1>9, <1>10, <2>1, <2>2, <2>3
<1>13. Tells(w1, w) /\ Adds(w1, w, docs)
  BY <1>0, <1>8, <1>12, TellsAll, AddsSet
<1> HIDE DEF w1
<1>14. Tells(w2, w1) /\ Adds(w2, w1, currents)
  BY <1>9, <1>12, <1>13, TellsAll, AddsSet DEF Tells
<1> HIDE DEF w2
<1>15. Tells(w3, w2) /\ Adds(w3, w2, filters)
  BY <1>10, <1>12, <1>14, TellsAll, AddsSet DEF Tells
<1>15a. Adds(w3, w, (docs \cup currents) \cup filters)
  <2> HIDE DEF w, w3
  <2> QED BY <1>13, <1>14, <1>15, AddsTwice
<1>15b. Spoken(UNION {docs, currents, filters})
  <2>1. UNION {docs, currents, filters} = (docs \cup currents) \cup filters
    OBVIOUS
  <2>2. server'.wire = w3 \o <<last>> /\ last = [what |-> "snapshot", version |-> Now]
    BY <1>1 DEF last
  <2>3. server'.watching = [t \in DOMAIN server.watching |->
                              [server.watching[t] EXCEPT !.asOf = Now, !.current = TRUE]]
    BY <1>1
  <2> HIDE DEF w3
  <2> QED BY <1>15a, <2>1, <2>2, <2>3 DEF Spoken
<1> HIDE DEF w3
<1>16. Tells(w4, w3)
  BY <1>11, <1>15, TellsOne DEF Tells
<1> HIDE DEF w4, w
<1>17. Tells(w4, w)
  BY <1>13, <1>14, <1>15, <1>16 DEF Tells
<1>18. watching \in Partial(TargetIds, Watches)
  <2>1. \A t \in D : server.watching[t] \in Watches
    BY <1>0, PartialIs
  <2>2. \A u \in Watches : \A b \in BOOLEAN : [u EXCEPT !.asOf = Now, !.current = b] \in Watches
    BY NowType DEF Watches
  <2>3. TRUE \in BOOLEAN
    OBVIOUS
  <2>4. \A t \in D : [server.watching[t] EXCEPT !.asOf = Now, !.current = TRUE] \in Watches
    BY <2>1, <2>2, <2>3, Zenon
  <2>5. watching \in [D -> Watches]
    BY <2>4
  <2>6. D \in SUBSET TargetIds /\ IsFiniteSet(D)
    BY <1>0, PartialIs
  <2> HIDE DEF watching, D
  <2> QED BY <2>5, <2>6, PartialMade
<1> HIDE DEF watching
<1>19. State.client = client /\ State.disk = disk /\ State.server.wire = w
  BY DEF State, w
<1> HIDE DEF State
<1>20. Good([client |-> client, disk |-> disk, server |-> server'])
  BY <1>1, <1>3, <1>17, <1>18, <1>19, ServerTells
<1> QED BY <1>1a, <1>12, <1>15b, <1>20

\* ServerResets.
LEMMA ResetsQuery ==
  ASSUME Good(State), ServerResets
  PROVE  Good([client |-> client, disk |-> disk, server |-> server'])
<1> DEFINE t == QueryTarget
           m == [what |-> "reset", target |-> t]
           w == server.wire
           v == Append(w, m)
           watching == [server.watching EXCEPT ![t].asOf = 0, ![t].current = FALSE,
                                               ![t].resumed = FALSE]
<1>0. /\ State \in Steps /\ Connected(client, server)
      /\ server.watching \in Partial(TargetIds, Watches) /\ w \in Seq(Messages)
  <2>1. State \in Steps /\ Connected(State.client, State.server)
    BY DEF Good, Sound, Whole
  <2>2. State.client = client /\ State.server = server
    BY DEF State
  <2> QED BY <2>1, <2>2, StepTypes
<1>1. server' = [watching |-> watching, wire |-> v] /\ t \in DOMAIN server.watching
  BY DEF ServerResets
<1>2. client.open
  <2>1. SUFFICES ASSUME ~client.open PROVE FALSE
    OBVIOUS
  <2>2. server.watching = <<>>
    BY <1>0, <2>1 DEF Connected, NewServer
  <2> QED BY <1>1, <2>2
<1>3. Tells(v, w)
  <2>1. m \in Messages /\ NoAck(m)
    BY DEF Messages, ResetMessages, NoAck, TargetIds
  <2> HIDE DEF m
  <2> QED BY <1>0, <2>1, TellsOne
<1>4. watching \in Partial(TargetIds, Watches)
  <2> DEFINE f == server.watching
             D == DOMAIN f
             y == [f[t] EXCEPT !.asOf = 0, !.current = FALSE, !.resumed = FALSE]
  <2>1. \A x \in D : f[x] \in Watches
    BY <1>0, PartialIs
  <2>2. \A u \in Watches : \A b \in BOOLEAN :
          [u EXCEPT !.asOf = 0, !.current = b, !.resumed = b] \in Watches
    <3>1. 0 \in Versions
      BY BoundAssumption DEF Versions
    <3> QED BY <3>1 DEF Watches
  <2>3. FALSE \in BOOLEAN
    OBVIOUS
  <2>4. y \in Watches
    BY <1>1, <2>1, <2>2, <2>3, Zenon
  <2>5. D \in SUBSET TargetIds /\ IsFiniteSet(D) /\ f = [x \in D |-> f[x]]
    BY <1>0, PartialIs
  <2>6. watching = [f EXCEPT ![t] = y]
    BY <1>1, <2>5
  <2> HIDE DEF y, f, watching
  <2>7. [f EXCEPT ![t] = y] \in [D -> Watches]
    BY <2>1, <2>4, <2>5
  <2> QED BY <2>5, <2>6, <2>7, PartialMade
<1> HIDE DEF watching, v, w
<1>5. State.client = client /\ State.disk = disk /\ State.server.wire = w
  BY DEF State, w
<1> HIDE DEF State
<1> QED BY <1>1, <1>2, <1>3, <1>4, <1>5, ServerTells

\* ServerRefuses.
LEMMA RefusesLookup ==
  ASSUME Good(State), NEW t \in LookupIds, ServerRefuses(t)
  PROVE  Good([client |-> client, disk |-> disk, server |-> server'])
<1> DEFINE m == [what |-> "refused", target |-> t]
           w == server.wire
           v == Append(w, m)
           watching == Without(server.watching, t)
<1>0. /\ State \in Steps /\ Connected(client, server)
      /\ server.watching \in Partial(TargetIds, Watches) /\ w \in Seq(Messages)
  <2>1. State \in Steps /\ Connected(State.client, State.server)
    BY DEF Good, Sound, Whole
  <2>2. State.client = client /\ State.server = server
    BY DEF State
  <2> QED BY <2>1, <2>2, StepTypes
<1>1. server' = [watching |-> watching, wire |-> v] /\ t \in DOMAIN server.watching
  BY DEF ServerRefuses
<1>2. client.open
  <2>1. SUFFICES ASSUME ~client.open PROVE FALSE
    OBVIOUS
  <2>2. server.watching = <<>>
    BY <1>0, <2>1 DEF Connected, NewServer
  <2> QED BY <1>1, <2>2
<1>3. Tells(v, w)
  <2>1. m \in Messages /\ NoAck(m)
    BY DEF Messages, RefusedMessages, NoAck
  <2> HIDE DEF m
  <2> QED BY <1>0, <2>1, TellsOne
<1>4. watching \in Partial(TargetIds, Watches)
  BY <1>0, WithoutType
<1> HIDE DEF watching, v, w
<1>5. State.client = client /\ State.disk = disk /\ State.server.wire = w
  BY DEF State, w
<1> HIDE DEF State
<1> QED BY <1>1, <1>2, <1>3, <1>4, <1>5, ServerTells

\* DatabaseChanges.
LEMMA DatabaseType ==
  ASSUME db \in Databases, Len(db) \in 1 .. MaxVersion, DatabaseChanges
  PROVE  db' \in Databases /\ Len(db') \in 1 .. MaxVersion
<1> DEFINE Rows == [Docs -> [value : Values, since : Versions]]
<1>1. Now < MaxVersion
  BY DEF DatabaseChanges
<1>2. PICK D \in SUBSET Docs \ {{}} : \E value \in [D -> Values] :
        db' = Append(db, [d \in Docs |-> IF d \in D THEN [value |-> value[d], since |-> Now + 1]
                                         ELSE db[Now][d]])
  BY DEF DatabaseChanges
<1>3. PICK value \in [D -> Values] :
        db' = Append(db, [d \in Docs |-> IF d \in D THEN [value |-> value[d], since |-> Now + 1]
                                         ELSE db[Now][d]])
  BY <1>2
<1> DEFINE row == [d \in Docs |-> IF d \in D THEN [value |-> value[d], since |-> Now + 1]
                                  ELSE db[Now][d]]
<1>4. Now \in Nat /\ Now + 1 \in Versions /\ Len(db) = Now
  BY <1>1, NowType, BoundAssumption DEF Versions, Now
<1>5. row \in Rows
  <2>1. db[Now] \in Rows
    BY NowType DEF Databases
  <2> QED BY <1>4, <2>1
<1> HIDE DEF row
<1>6. db' = Append(db, row)
  BY <1>3 DEF row
<1>7. db \in Seq(Rows)
  BY DEF Databases
<1> HIDE DEF Rows
<1>8. db' \in Seq(Rows) /\ Len(db') = Now + 1
  BY <1>4, <1>5, <1>6, <1>7
<1> QED BY <1>1, <1>4, <1>8, BoundAssumption DEF Databases, Rows

-----------------------------------------------------------------------------
(* The invariant.                                                          *)

LEMMA StateFacts ==
  /\ State.client = client /\ State.disk = disk /\ State.server = server
  /\ \A s \in Steps : Do(s) => [client |-> client', disk |-> disk', server |-> server'] = s
<1>1. State.client = client /\ State.disk = disk /\ State.server = server
  BY DEF State
<1>2. \A s \in Steps : s = [client |-> s.client, disk |-> s.disk, server |-> s.server]
  BY DEF Steps
<1> QED BY <1>1, <1>2 DEF Do

LEMMA InitGood == Init => IInv
<1> SUFFICES ASSUME Init PROVE IInv
  OBVIOUS
<1>1. disk \in Disks
  <2>1. 0 \in Versions
    BY BoundAssumption DEF Versions
  <2>2. disk.cache \in [Docs -> Entries]
    BY <2>1 DEF Init, Entries
  <2>3. disk = [cache |-> disk.cache, keys |-> {}, token |-> 0, limboFree |-> 0, last |-> 0]
    BY DEF Init
  <2> QED BY <2>1, <2>2, <2>3 DEF Disks
<1>2. Good(State)
  <2>1. State = [client |-> NewClient, disk |-> disk, server |-> NewServer]
    BY DEF Init, State
  <2> QED BY <1>1, <2>1, Launched
<1>3. db \in Databases /\ Len(db) \in 1 .. MaxVersion
  <2>1. PICK v \in [Docs -> {"in", "gone"}] : db = <<[d \in Docs |-> [value |-> v[d], since |-> 1]]>>
    BY DEF Init
  <2> DEFINE row == [d \in Docs |-> [value |-> v[d], since |-> 1]]
             Rows == [Docs -> [value : Values, since : Versions]]
  <2>2. 1 \in Versions /\ 1 \in 1 .. MaxVersion
    BY BoundAssumption DEF Versions
  <2>3. row \in Rows
    BY <2>2 DEF Values
  <2>4. db = <<row>>
    BY <2>1
  <2> HIDE DEF row, Rows
  <2>5. db \in Seq(Rows) /\ Len(db) = 1
    BY <2>3, <2>4
  <2> QED BY <2>2, <2>5 DEF Databases, Rows
<1>4. disturbances \in 0 .. MaxDisturbances
  BY BoundAssumption DEF Init
<1>5. excused \subseteq {"crossed", "recounted"}
  BY DEF Init
<1> QED BY <1>2, <1>3, <1>4, <1>5 DEF IInv

\* What the client has done, what it has been told, and what became of the data.
LEMMA StepGood ==
  ASSUME ~IsFiniteSet(LookupIds), IInv, Next
  PROVE  Good([client |-> client', disk |-> disk', server |-> server'])
<1> DEFINE After == [client |-> client', disk |-> disk', server |-> server']
<1>0. /\ Good(State) /\ State \in Steps /\ disk \in Disks
      /\ db \in Databases /\ Len(db) \in 1 .. MaxVersion
  BY StepTypes, StateFacts DEF IInv, Good, Sound, Whole
<1>1. \A s : Good(s) /\ Do(s) => Good(After)
  BY StateFacts DEF Good, Sound, Whole
<1>2. CASE Listen
  <2> DEFINE view == [docs |-> ExecuteQuery(disk), synced |-> disk.keys, current |-> FALSE,
                      limbo |-> {}, state |-> "local"]
             s == RemoteListen([State EXCEPT !.client.listening = TRUE, !.client.view = view,
                                             !.client.token = disk.token,
                                             !.client.limboFree = disk.limboFree],
                               QueryTarget, disk.token)
  <2>1. view \in Views
    <3>1. ExecuteQuery(disk) \in SUBSET Docs /\ disk.keys \in SUBSET Docs /\ FALSE \in BOOLEAN
      BY <1>0 DEF ExecuteQuery, Matching, Disks
    <3>2. \A b \in BOOLEAN : [docs |-> ExecuteQuery(disk), synced |-> disk.keys, current |-> b,
                              limbo |-> {}, state |-> "local"] \in Views
      BY <3>1 DEF Views
    <3> QED BY <3>1, <3>2, Zenon
  <2>2. Local(view, disk)
    <3>1. \A d \in ExecuteQuery(disk) : disk.cache[d].value = "in"
      BY DEF ExecuteQuery, Matching
    <3> QED BY <2>1, <3>1 DEF Local
  <2>3. Do(s) /\ ~client.listening
    BY <1>2 DEF Listen
  <2> HIDE DEF view
  <2>4. Good(s)
    <3> HIDE DEF State
    <3> QED BY <1>0, <2>2, <2>3, StateFacts, BeginsListening
  <2> HIDE DEF s
  <2> QED BY <1>1, <2>3, <2>4
<1>3. CASE StopListening
  <2> DEFINE released == [State EXCEPT !.disk.token = client.token,
                                       !.disk.limboFree = client.limboFree]
             stopped == [RemoteStopListening(released, QueryTarget) EXCEPT
                           !.client.listening = FALSE, !.client.view = NoView,
                           !.client.token = 0, !.client.limboFree = 0]
             s == RemoveLimboTargets(stopped, client.view.limbo)
  <2>1. Do(s) /\ client.listening
    BY <1>3 DEF StopListening
  <2>2. Good(s)
    <3> HIDE DEF State
    <3> QED BY <1>0, <2>1, StateFacts, EndsListening
  <2> HIDE DEF s
  <2> QED BY <1>1, <2>1, <2>2
<1>4. CASE Opens
  <2> DEFINE s == SendWatchRequests([State EXCEPT !.client.open = TRUE,
                                                  !.client.agg = NewAggregator],
                                    client.targets)
  <2>1. Do(s) /\ ~client.open
    BY <1>4 DEF Opens
  <2>2. Good(s)
    <3> HIDE DEF State
    <3> QED BY <1>0, <2>1, StateFacts, StreamOpens
  <2> HIDE DEF s
  <2> QED BY <1>1, <2>1, <2>2
<1>5. ASSUME Do(Closed) PROVE Good(After)
  <2>1. Good(Closed)
    <3> HIDE DEF State
    <3> QED BY <1>0, StreamCloses DEF Closed
  <2> QED BY <1>1, <1>5, <2>1
<1>6. CASE IdleTimerFires
  BY <1>5, <1>6 DEF IdleTimerFires
<1>7. CASE Breaks
  BY <1>5, <1>7 DEF Breaks
<1>8. CASE GoesOffline
  <2> DEFINE s == [State EXCEPT !.client.view.current = FALSE, !.client.view.state = "local"]
  <2>1. Do(s)
    BY <1>8 DEF GoesOffline, Do, State
  <2>2. client.listening
    BY <1>8 DEF GoesOffline
  <2>3. Good(s)
    <3> HIDE DEF State
    <3> QED BY <1>0, <2>2, StateFacts, ViewGoesLocal
  <2> HIDE DEF s
  <2> QED BY <1>1, <2>1, <2>3
<1>9. CASE Crash
  <2>1. After = [client |-> NewClient, disk |-> disk, server |-> NewServer]
    BY <1>9 DEF Crash
  <2> QED BY <1>0, <2>1, Launched
<1>10. CASE OnWatchStreamChange
  <2>1. PICK aged : Do(Handle([State EXCEPT !.server.wire = Tail(@)], Head(server.wire), aged))
    BY <1>10 DEF OnWatchStreamChange
  <2> DEFINE s == Handle([State EXCEPT !.server.wire = Tail(@)], Head(server.wire), aged)
  <2>2. client.open /\ server.wire # <<>>
    BY <1>10 DEF OnWatchStreamChange
  <2>3. Good(s)
    <3> HIDE DEF State
    <3> QED BY <1>0, <2>2, StateFacts, Handles
  <2>4. Do(s)
    BY <2>1
  <2> HIDE DEF s
  <2> QED BY <1>1, <2>3, <2>4
<1>11. CASE DatabaseChanges
  <2>1. After = State
    BY <1>11 DEF DatabaseChanges, State
  <2> QED BY <1>0, <2>1
<1>12. ASSUME NEW omits, NEW forgets, NEW might \in SUBSET Docs,
              ServerSends(omits, forgets, might)
       PROVE  Good(After)
  <2>1. client' = client /\ disk' = disk
    BY <1>12 DEF ServerSends
  <2>2. Good([client |-> client, disk |-> disk, server |-> server'])
    BY <1>0, <1>12, SendsAll
  <2> QED BY <2>1, <2>2
<1>13. CASE ServerResets
  <2>1. client' = client /\ disk' = disk
    BY <1>13 DEF ServerResets
  <2>2. Good([client |-> client, disk |-> disk, server |-> server'])
    BY <1>0, <1>13, ResetsQuery
  <2> QED BY <2>1, <2>2
<1>14. ASSUME NEW t \in LookupIds, ServerRefuses(t) PROVE Good(After)
  <2>1. client' = client /\ disk' = disk
    BY <1>14 DEF ServerRefuses
  <2>2. Good([client |-> client, disk |-> disk, server |-> server'])
    BY <1>0, <1>14, RefusesLookup
  <2> QED BY <2>1, <2>2
<1>15. CASE SomethingSent
  <2>1. PICK omits \in BOOLEAN, forgets \in SUBSET Docs, might \in SUBSET Confusable :
          ServerSends(omits, forgets, might)
    BY <1>15 DEF SomethingSent
  <2>2. might \in SUBSET Docs
    BY BoundAssumption
  <2> QED BY <1>12, <2>1, <2>2
<1> HIDE DEF After
<1> QED BY <1>2, <1>3, <1>4, <1>6, <1>7, <1>8, <1>9, <1>10, <1>11, <1>13, <1>14, <1>15
     DEF Next, After

LEMMA Inductive ==
  ASSUME ~IsFiniteSet(LookupIds), IInv, [Next]_vars
  PROVE  IInv'
<1>1. CASE UNCHANGED vars
  <2>1. db' = db /\ disturbances' = disturbances /\ excused' = excused
    BY <1>1 DEF vars
  <2>2. State' = State
    BY <1>1 DEF vars, State
  <2> QED BY <2>1, <2>2 DEF IInv
<1>2. CASE Next
  <2>1. Good(State')
    <3>1. State' = [client |-> client', disk |-> disk', server |-> server']
      BY DEF State
    <3> QED BY <1>2, <3>1, StepGood
  <2>2. db' \in Databases /\ Len(db') \in 1 .. MaxVersion
    <3>1. CASE DatabaseChanges
      BY <3>1, DatabaseType DEF IInv
    <3>2. CASE db' = db
      BY <3>2 DEF IInv
    <3> QED BY <1>2, <3>1, <3>2
         DEF Next, Listen, StopListening, Opens, IdleTimerFires, Breaks, GoesOffline, Crash,
             OnWatchStreamChange, SomethingSent, ServerSends, ServerResets,
             ServerRefuses
  <2>3. disturbances' \in 0 .. MaxDisturbances
    <3>1. CASE Disturbed
      BY <3>1, BoundAssumption DEF Disturbed, IInv
    <3>2. CASE disturbances' = disturbances
      BY <3>2 DEF IInv
    <3> QED BY <1>2, <3>1, <3>2
         DEF Next, Listen, StopListening, Opens, IdleTimerFires, Breaks, GoesOffline, Crash,
             OnWatchStreamChange, DatabaseChanges, SomethingSent, ServerSends, ServerResets,
             ServerRefuses
  <2>4. excused' \subseteq {"crossed", "recounted"}
    <3>0. excused \subseteq {"crossed", "recounted"}
      BY DEF IInv
    <3>1. CASE Listen
      BY <3>0, <3>1 DEF Listen
    <3>2. CASE OnWatchStreamChange
      BY <3>0, <3>2 DEF OnWatchStreamChange
    <3>3. CASE excused' = excused
      BY <3>0, <3>3
    <3> QED BY <1>2, <3>1, <3>2, <3>3
         DEF Next, StopListening, Opens, IdleTimerFires, Breaks, GoesOffline, Crash,
             DatabaseChanges, SomethingSent, ServerSends, ServerResets,
             ServerRefuses
  <2> QED BY <2>1, <2>2, <2>3, <2>4 DEF IInv
<1> QED BY <1>1, <1>2

\* Whatever the client and the server do, in whatever order, the parts of the
\* invariant stay so.
THEOREM Invariant == ~IsFiniteSet(LookupIds) => (Spec => []IInv)
<1> SUFFICES ASSUME ~IsFiniteSet(LookupIds) PROVE Spec => []IInv
  OBVIOUS
<1>1. Init => IInv
  BY InitGood
<1>2. IInv /\ [Next]_vars => IInv'
  BY Inductive
<1> QED BY <1>1, <1>2, PTL DEF Spec

\* Every variable keeps its type, and no more than MaxLookups documents are
\* looked up at a time.
THEOREM TypeCorrect == ~IsFiniteSet(LookupIds) => (Spec => []TypeOK)
<1> SUFFICES ASSUME ~IsFiniteSet(LookupIds) PROVE Spec => []TypeOK
  OBVIOUS
<1>1. IInv => TypeOK
  <2> SUFFICES ASSUME IInv PROVE TypeOK
    OBVIOUS
  <2>1. State \in Steps /\ Pumped(client)
    BY StateFacts DEF IInv, Good, Sound, Whole
  <2>2. /\ client.targets \in Partial(TargetIds, Versions) /\ client.agg \in Aggregators
        /\ client.view \in Views /\ client.resolving \in Partial(LookupIds, Lookups)
        /\ client.enqueued \in Seq(Docs) /\ disk \in Disks
        /\ server.watching \in Partial(TargetIds, Watches)
    BY <2>1, StepTypes, StateFacts
  <2>3. IsPartial(client.targets, TargetIds, Versions)
    BY <2>2, PartialIs DEF IsPartial
  <2>4. client.agg.states \in Partial(TargetIds, TargetStates)
    BY <2>2 DEF Aggregators
  <2>5. DOMAIN client.agg.states \subseteq TargetIds
    BY <2>4, PartialIs
  <2>6. \A t \in DOMAIN client.agg.states :
          /\ client.agg.states[t].outstanding \in Nat
          /\ IsPartial(client.agg.states[t].changes, Docs, Types)
    <3> SUFFICES ASSUME NEW t \in DOMAIN client.agg.states
                 PROVE  /\ client.agg.states[t].outstanding \in Nat
                        /\ IsPartial(client.agg.states[t].changes, Docs, Types)
      OBVIOUS
    <3>1. client.agg.states[t] \in TargetStates
      BY <2>4, PartialIs
    <3>2. /\ client.agg.states[t].outstanding \in Nat
          /\ client.agg.states[t].changes \in Partial(Docs, Types)
      BY <3>1 DEF TargetStates
    <3> QED BY <3>2, PartialIs DEF IsPartial
  <2>7. IsPartial(client.resolving, LookupIds, [key : Docs, received : BOOLEAN])
    <3>1. DOMAIN client.resolving \subseteq LookupIds
          /\ \A t \in DOMAIN client.resolving : client.resolving[t] \in Lookups
      BY <2>2, PartialIs
    <3> QED BY <3>1 DEF IsPartial, Lookups
  <2>8. DOMAIN server.watching \subseteq TargetIds
    BY <2>2, PartialIs
  <2> QED BY <2>1, <2>2, <2>3, <2>5, <2>6, <2>7, <2>8 DEF TypeOK, IInv, Views, Pumped
<1> QED BY <1>1, Invariant, PTL

\* The aggregator counts as due, for every target, the answers that are on
\* their way, however requests and answers cross.
THEOREM DueAcks == ~IsFiniteSet(LookupIds) => (Spec => []AcksAreDue)
<1> SUFFICES ASSUME ~IsFiniteSet(LookupIds) PROVE Spec => []AcksAreDue
  OBVIOUS
<1>1. IInv => AcksAreDue
  <2> SUFFICES ASSUME IInv, client.open, NEW t \in DOMAIN client.agg.states
               PROVE  client.agg.states[t].outstanding =
                        Cardinality({i \in DOMAIN server.wire :
                                       /\ server.wire[i].what \in {"added", "removed"}
                                       /\ server.wire[i].target = t})
    BY DEF AcksAreDue
  <2>1. State \in Steps /\ Connected(client, server)
    BY StateFacts DEF IInv, Good, Sound, Whole
  <2>2. client.agg.states \in Partial(TargetIds, TargetStates)
    BY <2>1, StepTypes, StateFacts DEF Aggregators
  <2>3. t \in TargetIds
    BY <2>2, PartialIs
  <2>4. Counted(client.agg, server.wire)
    BY <2>1 DEF Connected, Linked
  <2>5. EnsureTargetState(client.agg, t).outstanding = Cardinality(Acks(server.wire, t))
    BY <2>3, <2>4 DEF Counted
  <2> QED BY <2>5 DEF EnsureTargetState, Acks
<1> QED BY <1>1, Invariant, PTL

\* The assertions of remote_event.cc and remote_store.cc cannot fail.
THEOREM AssertionsStand == ~IsFiniteSet(LookupIds) => (Spec => []AssertionsHold)
<1> SUFFICES ASSUME ~IsFiniteSet(LookupIds) PROVE Spec => []AssertionsHold
  OBVIOUS
<1>1. IInv => AssertionsHold
  <2> SUFFICES ASSUME IInv PROVE AssertionsHold
    OBVIOUS
  <2> DEFINE meta == Meta(client)
  <2>1. /\ State \in Steps /\ Connected(client, server) /\ TargetsMatch(client)
        /\ Fits(client.agg, meta)
    BY StateFacts DEF IInv, Good, Sound, Whole
  <2>2. client.open => DOMAIN client.targets \subseteq DOMAIN client.agg.states
    BY <2>1 DEF Connected, Linked
  <2>3. \A t \in Changing(client.agg, meta) :
          \A d \in DOMAIN client.agg.states[t].changes :
            d \in meta.keys[t] <=> client.agg.states[t].changes[d] # "added"
    <3> HIDE DEF meta
    <3> SUFFICES ASSUME NEW t \in Changing(client.agg, meta)
                 PROVE  ChangesFit(client.agg.states[t].changes, meta.keys[t])
      BY DEF ChangesFit
    <3>1. /\ t \in DOMAIN client.agg.states /\ t \in DOMAIN meta.keys
          /\ client.agg.states[t].outstanding = 0
      BY DEF Changing, IsActiveTarget, EnsureTargetState
    <3> QED BY <2>1, <3>1 DEF Fits
  <2>4. DOMAIN client.targets =
          DOMAIN client.resolving \cup (IF client.listening THEN {QueryTarget} ELSE {})
    BY <2>1 DEF TargetsMatch
  <2> QED BY <2>2, <2>3, <2>4 DEF AssertionsHold
<1> QED BY <1>1, Invariant, PTL

\* Only documents in limbo are looked up or wait for it, and none waits while a
\* lookup is free.
THEOREM LimboPursued == ~IsFiniteSet(LookupIds) => (Spec => []LimboIsPursued)
<1> SUFFICES ASSUME ~IsFiniteSet(LookupIds) PROVE Spec => []LimboIsPursued
  OBVIOUS
<1>1. IInv => LimboIsPursued
  BY StateFacts DEF IInv, Good, Sound, Whole, Pumped, Queued, LimboIsPursued
<1> QED BY <1>1, Invariant, PTL

\* What the view shows the disk has, the keys that the server has confirmed are
\* those on disk, and a view that is called synced has nothing in limbo.
THEOREM ViewFollows == ~IsFiniteSet(LookupIds) => (Spec => []ViewFollowsDisk)
<1> SUFFICES ASSUME ~IsFiniteSet(LookupIds) PROVE Spec => []ViewFollowsDisk
  OBVIOUS
<1>1. IInv => ViewFollowsDisk
  <2> SUFFICES ASSUME IInv PROVE ViewFollowsDisk
    OBVIOUS
  <2>1. State \in Steps /\ Resting(client) /\ Follows(State)
    BY StateFacts DEF IInv, Good, Sound, Whole
  <2>2. client.view.docs \in SUBSET Docs
    BY <2>1, StepTypes, StateFacts DEF Views
  <2>3. client.view.state = "synced" => client.listening
    BY <2>1 DEF Resting, NoView
  <2> QED BY <2>1, <2>2, <2>3, StateFacts DEF Follows, ViewFollowsDisk, Matching
<1> QED BY <1>1, Invariant, PTL

-----------------------------------------------------------------------------
(* A snapshot.                                                             *)

LEMMA LearnsStill ==
  ASSUME NEW h, NEW w, NEW a, NEW b, NEW keys, NEW now, NEW asOf,
         Learns(h, w, a, keys, asOf), QueryTarget \notin a.resets,
         \A d \in Docs : Has(a, keys, d) => Has(b, now, d)
  PROVE  Learns(h, w, b, now, asOf)
<1>1. \A v : Told(h, v) \subseteq Docs
  BY DEF Told
<1>2. \A I : \A d \in Docs : Promised(w, I, d, Has(a, keys, d)) => Promised(w, I, d, Has(b, now, d))
  BY DEF Promised
<1>3. SnapshotsTrue(h, w, a, keys) /\ ServerTrue(h, w, a, keys, asOf)
  BY DEF Learns
<1>4. SnapshotsTrue(h, w, b, now)
  BY <1>1, <1>2, <1>3 DEF SnapshotsTrue
<1>5. ServerTrue(h, w, b, now, asOf)
  BY <1>1, <1>2, <1>3 DEF ServerTrue
<1> QED BY <1>4, <1>5 DEF Learns

\* An event takes the changes of the query out of the aggregator into the keys.
LEMMA EventKeepsKeys ==
  ASSUME NEW meta, NEW agg \in Aggregators, Fits(agg, meta), NEW version,
         QueryTarget \in DOMAIN meta.keys, QueryTarget \in DOMAIN agg.states,
         NEW keys, keys = meta.keys[QueryTarget],
         NEW state, state = EnsureTargetState(agg, QueryTarget), PrimedFor(state, version),
         NEW event, event = RemoteEvent(agg, meta, version),
         NEW after, after = AfterRemoteEvent(agg, meta)
  PROVE  /\ \A d \in Docs : Has(agg, keys, d) => Has(after, KeysAfter(keys, event), d)
         /\ QueryTarget \in DOMAIN event.changes <=> state.outstanding = 0
         /\ QueryTarget \in DOMAIN event.changes =>
              /\ event.changes[QueryTarget].token = version
              /\ \A d \in Docs : Has(agg, keys, d) => d \in KeysAfter(keys, event)
<1>1. state = agg.states[QueryTarget] /\ state \in TargetStates
  BY EnsureType DEF EnsureTargetState, TargetIds
<1>2. QueryTarget \in Changing(agg, meta) <=> state.outstanding = 0
  BY <1>1 DEF Changing, IsActiveTarget, EnsureTargetState, PrimedFor
<1>3. DOMAIN event.changes = Changing(agg, meta)
  BY DEF RemoteEvent
<1>4. /\ QueryTarget \in DOMAIN after.states
      /\ after.states[QueryTarget] =
           IF QueryTarget \in Changing(agg, meta) THEN ClearPendingChanges(state) ELSE state
  BY <1>1 DEF AfterRemoteEvent
<1>5. CASE state.outstanding # 0
  <2>1. EnsureTargetState(after, QueryTarget) = state
    BY <1>2, <1>4, <1>5 DEF EnsureTargetState
  <2>2. KeysAfter(keys, event) = keys
    BY <1>2, <1>3, <1>5 DEF KeysAfter
  <2> QED BY <1>2, <1>3, <1>5, <2>1, <2>2 DEF Has
<1>6. CASE state.outstanding = 0
  <2> DEFINE change == event.changes[QueryTarget]
             now == KeysAfter(keys, event)
  <2>1. change = TargetChange(state) /\ QueryTarget \in DOMAIN event.changes
    BY <1>1, <1>2, <1>3, <1>6 DEF RemoteEvent
  <2>2. /\ change.token = version /\ change.added = ChangedAs(state, "added")
        /\ change.removed = ChangedAs(state, "removed")
    BY <1>6, <2>1 DEF TargetChange, PrimedFor
  <2>3. now = (keys \ change.removed) \cup change.added
    BY <2>1 DEF KeysAfter
  <2>4. \A d \in DOMAIN state.changes : d \in keys <=> state.changes[d] # "added"
    BY <1>1, <1>6 DEF Fits, ChangesFit
  <2> HIDE DEF now, change
  <2>5. \A d \in Docs : Has(agg, keys, d) => d \in now
    <3> SUFFICES ASSUME NEW d \in Docs, Has(agg, keys, d) PROVE d \in now
      OBVIOUS
    <3>1. CASE d \in DOMAIN state.changes
      <4>1. state.changes[d] # "removed"
        BY <1>6, <3>1 DEF Has, HasIn
      <4>2. d \notin change.removed
        BY <2>2, <4>1 DEF ChangedAs
      <4>3. state.changes[d] = "added" => d \in change.added
        BY <2>2, <3>1 DEF ChangedAs
      <4>4. state.changes[d] # "added" => d \in keys
        BY <2>4, <3>1
      <4> QED BY <2>3, <4>2, <4>3, <4>4
    <3>2. CASE d \notin DOMAIN state.changes
      <4>1. d \in keys
        BY <3>2 DEF Has, HasIn
      <4>2. d \notin change.removed
        BY <2>2, <3>2 DEF ChangedAs
      <4> QED BY <2>3, <4>1, <4>2
    <3> QED BY <3>1, <3>2
  <2>6. \A p \in BOOLEAN : \A x \in TargetStates :
          [x EXCEPT !.pending = p, !.changes = <<>>].changes = <<>>
    BY DEF TargetStates
  <2>7. \A x \in TargetStates : ClearPendingChanges(x).changes = <<>>
    BY <2>6, Zenon DEF ClearPendingChanges
  <2>8. DOMAIN EnsureTargetState(after, QueryTarget).changes = {}
    BY <1>1, <1>2, <1>4, <1>6, <2>7, PartialEmpty DEF EnsureTargetState
  <2>9. \A d \in Docs : d \in now => Has(after, now, d)
    BY <2>8 DEF Has, HasIn
  <2> QED BY <1>2, <1>3, <1>6, <2>2, <2>5, <2>9 DEF now, change
<1> QED BY <1>5, <1>6

\* At a snapshot that is heeded the client has what the query had then.
SnapshotHolds(h, s, version) ==
  /\ PrimedFor(EnsureTargetState(s.client.agg, QueryTarget), version)
  /\ \/ QueryTarget \in s.client.agg.resets
     \/ EnsureTargetState(s.client.agg, QueryTarget).outstanding # 0
     \/ \A d \in Told(h, version) : Has(s.client.agg, s.client.view.synced, d)

\* The client has the marks of s, and a view as complete.
SameClaims(q, s) == q.disk = s.disk /\ SameBesides(q.client, s.client)

LEMMA ClaimsKept ==
  ASSUME NEW h, NEW q, NEW s, SameClaims(q, s)
  PROVE  /\ DiskMarks(h, s.disk) => DiskMarks(h, q.disk)
         /\ Complete(h, s) => Complete(h, q)
  BY DEF SameClaims, SameBesides, Complete

LEMMA RaisesInforms ==
  ASSUME NEW h, Len(h) \in Nat, NEW s, Good(s), s.client.open, NEW r, Good(r),
         NEW version \in 1 .. Len(h), s.disk.last <= version,
         WireFits(h, s.server.wire), Covered(h, s), Knows(h, s),
         s.client.listening => SnapshotHolds(h, s, version),
         NEW event, NEW agg, NEW q, RaisedBy(r, s, version, event, agg, q)
  PROVE  Informed(h, r)
<1> DEFINE keys == s.client.view.synced
           now == KeysAfter(keys, event)
           meta == Meta(s.client)
           asOf == s.server.watching[QueryTarget].asOf
<1>0. /\ s \in Steps /\ q \in Steps /\ r \in Steps /\ Good(q)
      /\ s.client.agg \in Aggregators
      /\ Linked(s.client.agg, s.server.wire, DOMAIN s.client.targets) /\ TargetsMatch(s.client)
      /\ q.server.wire \in Seq(Messages) /\ r.server.wire \in Seq(Messages)
  BY StepTypes DEF Good, Sound, Whole, Connected, RaisedBy
<1>1. /\ agg \in Like(s.client.agg, meta) /\ QueryAlike(agg, s.client.agg)
      /\ event = RemoteEvent(agg, meta, version)
      /\ q.disk = s.disk /\ SameBesides(q.client, s.client)
      /\ DOMAIN q.client.targets = DOMAIN s.client.targets
      /\ Appended(q.server.wire, s.server.wire, TargetIds)
      /\ Applied(r, q, event)
  BY DEF RaisedBy
<1>1a. event.mismatches = s.client.agg.resets /\ event.version = version
  BY <1>1 DEF RemoteEvent, QueryAlike
<1>2. WireFits(h, r.server.wire)
  <2>1. WireFits(h, q.server.wire)
    BY <1>1, AppendedFits
  <2> QED BY <1>1, <2>1, AppendedFits DEF Applied, Aside
<1>3. DiskMarks(h, q.disk) /\ Complete(h, q)
  BY <1>1, ClaimsKept DEF Covered, SameClaims
<1>4. LastAfter(q.disk.last, event) = version /\ q.disk.last <= version /\ version <= Len(h)
  BY <1>1, <1>1a DEF LastAfter
<1>5. /\ r.client.open = s.client.open /\ r.client.listening = s.client.listening
      /\ q.client.listening = s.client.listening /\ q.client.open = s.client.open
  BY <1>1 DEF Applied, SameBesides
<1>6. CASE ~s.client.listening
  <2>1. Brings(h, q, event)
    BY <1>4, <1>5, <1>6 DEF Brings
  <2>2. Covered(h, r)
    BY <1>0, <1>1, <1>3, <2>1, AppliedCovers
  <2>3. Knows(h, r)
    BY <1>5, <1>6 DEF Knows
  <2> QED BY <1>2, <2>2, <2>3 DEF Informed
<1>7. CASE s.client.listening
  <2>1. /\ QueryTarget \in DOMAIN s.client.targets /\ QueryTarget \in DOMAIN meta.keys
        /\ meta.keys[QueryTarget] = keys
    BY <1>0, <1>7, MetaFacts DEF TargetsMatch
  <2>2. agg \in Aggregators /\ Fits(agg, meta) /\ QueryTarget \in DOMAIN agg.states
    BY <1>0, <1>1, <2>1 DEF Like, Linked
  <2>3. keys = q.disk.keys /\ s.client.token = q.client.token /\ s.client.limboFree = q.client.limboFree
    BY <1>1, <1>7 DEF Good, Follows, SameBesides
  <2>4. /\ s.client.limboFree <= s.client.token /\ s.client.token <= s.disk.last
        /\ s.client.targets[QueryTarget] <= s.disk.last
        /\ Told(h, s.client.token) \subseteq keys
        /\ Told(h, s.client.targets[QueryTarget]) \subseteq keys
    BY <1>7 DEF Covered, ClientMarks
  <2>5. /\ s.client.token \in Nat /\ s.client.limboFree \in Nat /\ s.disk.last \in Nat
        /\ s.client.targets[QueryTarget] \in Nat
    <3>1. s.client.targets \in Partial(TargetIds, Versions)
      BY <1>0, StepTypes
    <3>2. s.client.targets[QueryTarget] \in Versions
      BY <2>1, <3>1, PartialIs
    <3>3. s.disk \in Disks /\ s.client.token \in Versions /\ s.client.limboFree \in Versions
      BY <1>0, StepTypes
    <3> QED BY <3>2, <3>3 DEF Disks, Versions
  <2>6. /\ Watched(h, s.server.watching)
        /\ Learns(h, s.server.wire, s.client.agg, keys, asOf)
    BY <1>7 DEF Knows
  <2>7. r.client.view.synced = now
    BY <1>1, <1>5, <1>7, <2>3 DEF Good, Follows, Applied
  <2>8. /\ QuerySame(r.server.watching, q.server.watching) /\ Aside(r, q)
    BY <1>1 DEF Applied, Aside
  <2>9. Told(h, 0) = {}
    BY DEF Told
  <2>10. CASE QueryTarget \in s.client.agg.resets
    <3>1. ListenedFrom(q, 0)
      BY <2>1, <2>10 DEF RaisedBy
    <3>2. q.client.targets[QueryTarget] = 0 /\ Deaf(q) /\ WatchedFrom(q.server.watching, 0)
      BY <1>5, <3>1 DEF ListenedFrom
    <3>3. \/ /\ TokenAfter(q.client.token, event) = 0 /\ FreeAfter(q.client.limboFree, event) = 0
          \/ /\ TokenAfter(q.client.token, event) = s.client.token
             /\ FreeAfter(q.client.limboFree, event) = s.client.limboFree
             /\ KeysAfter(q.disk.keys, event) = keys
      BY <1>1a, <2>3, <2>10 DEF TokenAfter, FreeAfter, KeysAfter
    <3>4. Brings(h, q, event)
      BY <1>4, <1>1, <2>4, <2>5, <2>9, <3>2, <3>3 DEF Brings
    <3>5. Covered(h, r)
      BY <1>0, <1>1, <1>3, <3>4, AppliedCovers
    <3>6. Learns(h, q.server.wire, q.client.agg, now, 0)
      BY <2>9, <3>2, DeafLearns
    <3>7. Learns(h, r.server.wire, r.client.agg, now, 0)
      BY <1>0, <2>8, <3>6, AsideLearns
    <3>8. Watched(h, r.server.watching) /\ r.server.watching[QueryTarget].asOf = 0
      BY <2>8, <3>2 DEF WatchedFrom, QuerySame, Watched
    <3>9. Knows(h, r)
      BY <2>7, <3>7, <3>8 DEF Knows
    <3> QED BY <1>2, <3>5, <3>9 DEF Informed
  <2>11. CASE QueryTarget \notin s.client.agg.resets
    <3> DEFINE state == EnsureTargetState(s.client.agg, QueryTarget)
               after == AfterRemoteEvent(agg, meta)
    <3>1. /\ q.server = s.server /\ q.client.agg = after
          /\ q.client.targets[QueryTarget] =
               IF /\ QueryTarget \in DOMAIN event.changes
                  /\ event.changes[QueryTarget].token # 0
                 THEN event.changes[QueryTarget].token
                 ELSE s.client.targets[QueryTarget]
      BY <2>1, <2>11 DEF RaisedBy
    <3>2. state = EnsureTargetState(agg, QueryTarget) /\ PrimedFor(state, version)
      BY <1>1, <1>7 DEF QueryAlike, SnapshotHolds
    <3>3. /\ \A d \in Docs : Has(agg, keys, d) => Has(after, now, d)
          /\ QueryTarget \in DOMAIN event.changes <=> state.outstanding = 0
          /\ QueryTarget \in DOMAIN event.changes =>
               /\ event.changes[QueryTarget].token = version
               /\ \A d \in Docs : Has(agg, keys, d) => d \in now
      <4> HIDE DEF state, after, meta, keys, now
      <4>1. /\ \A d \in Docs : Has(agg, keys, d) => Has(after, KeysAfter(keys, event), d)
            /\ QueryTarget \in DOMAIN event.changes <=> state.outstanding = 0
            /\ QueryTarget \in DOMAIN event.changes =>
                 /\ event.changes[QueryTarget].token = version
                 /\ \A d \in Docs : Has(agg, keys, d) => d \in KeysAfter(keys, event)
        BY <1>1, <2>1, <2>2, <3>2, EventKeepsKeys DEF after
      <4> QED BY <4>1 DEF now
    <3>4. \A d \in Docs : Has(agg, keys, d) <=> Has(s.client.agg, keys, d)
      BY <3>2 DEF Has
    <3> HIDE DEF after
    <3>5. Learns(h, r.server.wire, r.client.agg, now, asOf)
      <4>1. Learns(h, s.server.wire, after, now, asOf)
        BY <2>6, <2>11, <3>3, <3>4, LearnsStill
      <4>2. Learns(h, q.server.wire, q.client.agg, now, asOf)
        BY <3>1, <4>1
      <4> QED BY <1>0, <2>8, <4>2, AsideLearns
    <3>6. Watched(h, r.server.watching) /\ r.server.watching[QueryTarget].asOf = asOf
      BY <2>6, <2>8, <3>1 DEF QuerySame, Watched
    <3>7. Knows(h, r)
      BY <2>7, <3>5, <3>6 DEF Knows
    <3>8. CASE QueryTarget \in DOMAIN event.changes
      <4>1. /\ TokenAfter(q.client.token, event) = version
            /\ FreeAfter(q.client.limboFree, event) = s.client.limboFree
            /\ q.client.targets[QueryTarget] = version
        BY <1>1a, <2>3, <2>11, <3>1, <3>3, <3>8 DEF TokenAfter, FreeAfter
      <4>2. Told(h, version) \subseteq now
        <5>1. \A d \in Told(h, version) : d \in Docs /\ Has(s.client.agg, keys, d)
          BY <1>7, <2>11, <3>3, <3>8 DEF SnapshotHolds, Told
        <5> QED BY <3>3, <3>4, <3>8, <5>1
      <4>3. Brings(h, q, event)
        BY <1>1, <1>4, <2>3, <2>4, <2>5, <4>1, <4>2 DEF Brings
      <4>4. Covered(h, r)
        BY <1>0, <1>1, <1>3, <4>3, AppliedCovers
      <4> QED BY <1>2, <3>7, <4>4 DEF Informed
    <3>9. CASE QueryTarget \notin DOMAIN event.changes
      <4>1. /\ TokenAfter(q.client.token, event) = s.client.token
            /\ FreeAfter(q.client.limboFree, event) = s.client.limboFree
            /\ KeysAfter(q.disk.keys, event) = keys
            /\ q.client.targets[QueryTarget] = s.client.targets[QueryTarget]
        BY <2>3, <3>1, <3>9 DEF TokenAfter, FreeAfter, KeysAfter
      <4>2. Brings(h, q, event)
        BY <1>1, <1>4, <2>4, <2>5, <4>1 DEF Brings
      <4>3. Covered(h, r)
        BY <1>0, <1>1, <1>3, <4>2, AppliedCovers
      <4> QED BY <1>2, <3>7, <4>3 DEF Informed
    <3> QED BY <3>8, <3>9
  <2> QED BY <2>10, <2>11
<1> QED BY <1>6, <1>7

-----------------------------------------------------------------------------
(* The messages, and what is known of the query.                           *)

\* An answer is due about the query if and only if it is on its way.
LEMMA DueIsAcked ==
  ASSUME NEW a, NEW w \in Seq(Messages), NEW T, Linked(a, w, T)
  PROVE  EnsureTargetState(a, QueryTarget).outstanding = 0 <=> Acks(w, QueryTarget) = {}
<1>1. EnsureTargetState(a, QueryTarget).outstanding = Cardinality(Acks(w, QueryTarget))
  BY DEF Linked, Counted, TargetIds
<1>2. IsFiniteSet(Acks(w, QueryTarget))
  BY AcksFinite
<1>3. Cardinality(Acks(w, QueryTarget)) = 0 <=> Acks(w, QueryTarget) = {}
  BY <1>2, FS_EmptySet
<1> QED BY <1>1, <1>3

\* A message is heard that changes nothing but the aggregator.
LEMMA HeardInforms ==
  ASSUME NEW h, NEW s, Good(s), s.client.open, NEW w, w = s.server.wire, w # <<>>,
         Informed(h, s), NEW b,
         s.client.listening => Hears(b, s.client.agg, s.client.view.synced, w[1])
  PROVE  Informed(h, Aggregated(s, Tail(w), b))
<1> DEFINE v == Tail(w)
           r == Aggregated(s, v, b)
           a == s.client.agg
           keys == s.client.view.synced
           asOf == s.server.watching[QueryTarget].asOf
<1>0. s \in Steps /\ w \in Seq(Messages) /\ Linked(a, w, DOMAIN s.client.targets)
  BY StepTypes DEF Good, Sound, Whole, Connected
<1>1. /\ r.client.agg = b /\ r.client.targets = s.client.targets
      /\ SameBesides(r.client, s.client) /\ r.disk = s.disk
      /\ r.server.wire = v /\ r.server.watching = s.server.watching
  BY <1>0, AggregatedIs
<1> HIDE DEF r
<1>2. WireFits(h, r.server.wire)
  <2>1. \A i \in DOMAIN v : i + 1 \in DOMAIN w /\ v[i] = w[i + 1]
    BY <1>0, TailFacts
  <2>2. WireFits(h, w)
    BY DEF Informed
  <2> HIDE DEF v
  <2> QED BY <1>1, <2>1, <2>2 DEF WireFits
<1>3. Covered(h, r)
  <2>1. SameClaims(r, s)
    BY <1>1 DEF SameClaims
  <2>2. DiskMarks(h, r.disk) /\ Complete(h, r)
    BY <2>1, ClaimsKept DEF Informed, Covered
  <2>3. ClientMarks(h, r.client, r.disk.last)
    BY <1>1 DEF Informed, Covered, ClientMarks, SameBesides
  <2> QED BY <2>2, <2>3 DEF Covered
<1>4. Knows(h, r)
  <2>1. SUFFICES ASSUME s.client.listening PROVE Knows(h, r)
    BY <1>1 DEF Knows, SameBesides
  <2>2. Watched(h, s.server.watching) /\ Learns(h, w, a, keys, asOf)
    BY <2>1 DEF Informed, Knows
  <2>3. EnsureTargetState(a, QueryTarget).outstanding = 0 <=> Acks(w, QueryTarget) = {}
    BY <1>0, DueIsAcked
  <2>4. Hears(b, a, keys, w[1])
    BY <2>1
  <2> HIDE DEF a, keys, asOf
  <2>5. Learns(h, Tail(w), b, keys, asOf)
    BY <1>0, <2>2, <2>3, <2>4, LearnsTail
  <2>6. r.client.view.synced = keys /\ r.server.watching[QueryTarget].asOf = asOf
    BY <1>1 DEF keys, asOf, SameBesides
  <2> QED BY <1>1, <2>2, <2>5, <2>6 DEF Knows
<1>5. Informed(h, r)
  BY <1>2, <1>3, <1>4 DEF Informed
<1> QED BY <1>5 DEF r

LEMMA MoreMessageTypes ==
  ASSUME NEW m \in Messages
  PROVE  /\ m.what = "current" => m \in CurrentMessages
         /\ m.what = "reset" => m \in ResetMessages
  BY DEF Messages, AckMessages, RefusedMessages, ResetMessages, CurrentMessages,
         FilterMessages, DocMessages, SnapshotMessages

\* A message that is none of those about the query is heard.
LEMMA HearsNothing ==
  ASSUME NEW a, NEW keys, NEW m, m.what \in {"refused", "snapshot"}
  PROVE  Hears(a, a, keys, m)
  BY DEF Hears, Gives, Takes

\* The answer that arrives is one that is due.
LEMMA AnswerIsDue ==
  ASSUME NEW a, NEW w \in Seq(Messages), w # <<>>, NEW T, Linked(a, w, T),
         NEW m \in AckMessages, m = w[1]
  PROVE  EnsureTargetState(a, m.target).outstanding # 0
<1>1. 1 \in Acks(w, m.target) /\ m.target \in TargetIds
  BY TailFacts DEF Acks, AckMessages
<1>2. IsFiniteSet(Acks(w, m.target)) /\ Cardinality(Acks(w, m.target)) # 0
  <2>1. IsFiniteSet(Acks(w, m.target))
    BY AcksFinite
  <2> QED BY <1>1, <2>1, FS_EmptySet
<1> QED BY <1>1, <1>2 DEF Linked, Counted

\* A lookup is refused: the query does not notice.
LEMMA RefusalInforms ==
  ASSUME NEW h, NEW s, Good(s), s.client.open, s.server.wire # <<>>,
         s.server.wire[1].what = "refused", Informed(h, s),
         NEW r, Good(r), NEW event, NEW gone, RefusedBy(r, s, event, gone)
  PROVE  Informed(h, r)
<1> DEFINE w == s.server.wire
           v == Tail(w)
           a == s.client.agg
           q == Aggregated(s, v, a)
           keys == s.client.view.synced
<1>0. s \in Steps /\ r \in Steps /\ gone \in Steps /\ Good(gone)
  BY DEF Good, Sound, Whole, RefusedBy
<1>1. Informed(h, q)
  BY HearsNothing, HeardInforms
<1>2. /\ q.client.agg = a /\ q.client.targets = s.client.targets
      /\ SameBesides(q.client, s.client) /\ q.disk = s.disk
      /\ q.server.wire = v /\ q.server.watching = s.server.watching
  BY <1>0, AggregatedIs
<1>3. v \in Seq(Messages) /\ gone.server.wire \in Seq(Messages) /\ r.server.wire \in Seq(Messages)
  BY <1>0, StepTypes, TailFacts
<1> HIDE DEF q
<1>4. /\ Looks(gone, s) /\ Aside(gone, q) /\ event.version = 0 /\ DOMAIN event.changes = {}
      /\ Applied(r, gone, event)
  BY DEF RefusedBy, q
<1>5. Aside(r, q)
  BY <1>4, AsideTwice DEF Applied
<1>6. /\ r.client.open = s.client.open /\ r.client.listening = s.client.listening
      /\ gone.client.listening = s.client.listening
  BY <1>4 DEF Applied, Looks
<1>7. WireFits(h, r.server.wire)
  <2>1. WireFits(h, q.server.wire)
    BY <1>1 DEF Informed
  <2> QED BY <1>5, <2>1, AppendedFits DEF Aside
<1>8. /\ KeysAfter(gone.disk.keys, event) = s.disk.keys
      /\ LastAfter(gone.disk.last, event) = s.disk.last
      /\ TokenAfter(gone.client.token, event) = s.client.token
      /\ FreeAfter(gone.client.limboFree, event) = s.client.limboFree
  BY <1>4 DEF KeysAfter, LastAfter, TokenAfter, FreeAfter, Looks
<1>9. s.client.listening => QueryTarget \in DOMAIN s.client.targets
  BY DEF Good, Sound, Whole, TargetsMatch
<1>10. s.client.listening => keys = s.disk.keys /\ r.client.view.synced = keys
  BY <1>4, <1>6, <1>8 DEF Good, Follows, Applied
<1>11. Covered(h, r)
  <2>1. DiskMarks(h, gone.disk) /\ Complete(h, gone)
    BY <1>4 DEF Informed, Covered, Looks, Complete
  <2>2. s.client.listening => gone.client.targets[QueryTarget] = s.client.targets[QueryTarget]
    BY <1>2, <1>4, <1>9 DEF Aside, QuerySame
  <2>3. s.disk.last \in Nat /\ s.disk.last <= Len(h)
    BY <1>0, StepTypes DEF Disks, Versions, Informed, Covered, DiskMarks
  <2>4. Brings(h, gone, event)
    <3>1. s.client.listening =>
            /\ s.client.limboFree <= s.client.token /\ s.client.token <= s.disk.last
            /\ s.client.targets[QueryTarget] <= s.disk.last
            /\ Told(h, s.client.token) \subseteq s.disk.keys
            /\ Told(h, s.client.targets[QueryTarget]) \subseteq s.disk.keys
      BY <1>10 DEF Informed, Covered, ClientMarks
    <3>2. gone.disk.last = s.disk.last /\ gone.client.listening = s.client.listening
      BY <1>4 DEF Looks
    <3> QED BY <1>8, <2>2, <2>3, <3>1, <3>2 DEF Brings
  <2> QED BY <1>0, <1>4, <2>1, <2>4, AppliedCovers
<1>12. Knows(h, r)
  <2>1. SUFFICES ASSUME s.client.listening PROVE Knows(h, r)
    BY <1>6 DEF Knows
  <2> DEFINE asOf == s.server.watching[QueryTarget].asOf
  <2>2. Watched(h, q.server.watching) /\ Learns(h, q.server.wire, q.client.agg, keys, asOf)
    BY <1>1, <1>2, <2>1 DEF Informed, Knows, SameBesides
  <2>3. Learns(h, r.server.wire, r.client.agg, keys, asOf)
    BY <1>2, <1>3, <1>5, <2>2, AsideLearns
  <2>4. Watched(h, r.server.watching) /\ r.server.watching[QueryTarget].asOf = asOf
    BY <1>2, <1>5, <2>2 DEF Aside, QuerySame, Watched
  <2> QED BY <1>10, <2>1, <2>3, <2>4 DEF Knows
<1> QED BY <1>7, <1>11, <1>12 DEF Informed

\* The first message is a snapshot, and the client has had no other news.
LEMMA SnapshotArrives ==
  ASSUME NEW h, NEW w \in Seq(Messages), w # <<>>, w[1].what = "snapshot",
         NEW a, NEW keys, NEW asOf, Learns(h, w, a, keys, asOf),
         EnsureTargetState(a, QueryTarget).outstanding = 0 <=> Acks(w, QueryTarget) = {}
  PROVE  \/ QueryTarget \in a.resets
         \/ EnsureTargetState(a, QueryTarget).outstanding # 0
         \/ \A d \in Told(h, w[1].version) : Has(a, keys, d)
<1>1. SUFFICES ASSUME QueryTarget \notin a.resets, 1 \in Heard(w), NEW d \in Told(h, w[1].version)
               PROVE  Has(a, keys, d)
  BY HeardTail
<1>2. Promised(w, Before(Heard(w), 1), d, Has(a, keys, d))
  BY <1>1 DEF Learns, SnapshotsTrue
<1>3. \A i \in Heard(w) : ~(i < 1)
  BY HeardTail
<1>4. Before(Heard(w), 1) = {}
  BY <1>3 DEF Before
<1> QED BY <1>2, <1>4 DEF Promised

\* A snapshot is told to the aggregator before it is raised.
LEMMA SnapshotHeard ==
  ASSUME NEW h, NEW s, Good(s), s.client.open, NEW w, w = s.server.wire, w # <<>>,
         w[1].what = "snapshot", Informed(h, s), s.client.listening,
         NEW version, version = w[1].version, version # 0,
         NEW meta, meta = Meta(s.client),
         NEW b, b = TargetsNoChange(s.client.agg, meta, version), b \in Like(s.client.agg, meta)
  PROVE  /\ Hears(b, s.client.agg, s.client.view.synced, w[1])
         /\ SnapshotHolds(h, Aggregated(s, Tail(w), b), version)
<1> DEFINE a == s.client.agg
           keys == s.client.view.synced
           r == Aggregated(s, Tail(w), b)
           asOf == s.server.watching[QueryTarget].asOf
           state == EnsureTargetState(b, QueryTarget)
<1>0. /\ s \in Steps /\ w \in Seq(Messages) /\ a \in Aggregators
      /\ Linked(a, w, DOMAIN s.client.targets)
      /\ QueryTarget \in DOMAIN s.client.targets
  BY StepTypes DEF Good, Sound, Whole, Connected, TargetsMatch
<1>1. w[1] \in Messages /\ version \in Versions \ {0}
  BY <1>0, TailFacts, MessageTypes
<1>2. QueryTarget \in DOMAIN meta.keys /\ QueryTarget \in DOMAIN a.states
  BY <1>0, MetaFacts DEF Linked
<1>3. Keeps(b, a, keys, {})
  BY <1>0, <1>1, NoChangeKeeps
<1>4. PrimedFor(state, version)
  BY <1>0, <1>1, <1>2, NoChangePrimes
<1>5. state.outstanding = EnsureTargetState(a, QueryTarget).outstanding
  BY DEF Like, EnsureTargetState
<1>6. r.client.agg = b /\ r.client.view.synced = keys
  BY <1>0, AggregatedIs DEF SameBesides
<1>7. \A d \in Docs : Has(a, keys, d) => Has(b, keys, d)
  BY <1>3 DEF Keeps
<1>8. Hears(b, a, keys, w[1])
  BY <1>3, <1>7 DEF Hears, Keeps, Gives, Takes
<1>9. \/ QueryTarget \in a.resets
      \/ EnsureTargetState(a, QueryTarget).outstanding # 0
      \/ \A d \in Told(h, version) : Has(a, keys, d)
  <2>1. Learns(h, w, a, keys, asOf)
    BY DEF Informed, Knows
  <2>2. EnsureTargetState(a, QueryTarget).outstanding = 0 <=> Acks(w, QueryTarget) = {}
    BY <1>0, DueIsAcked
  <2> HIDE DEF a, keys, asOf
  <2> QED BY <1>0, <2>1, <2>2, SnapshotArrives
<1>10. \A d \in Told(h, version) : d \in Docs
  BY DEF Told
<1>11. \/ QueryTarget \in b.resets
       \/ state.outstanding # 0
       \/ \A d \in Told(h, version) : Has(b, keys, d)
  BY <1>3, <1>5, <1>7, <1>9, <1>10 DEF Keeps
<1> HIDE DEF r
<1>12. SnapshotHolds(h, r, version)
  BY <1>4, <1>6, <1>11 DEF SnapshotHolds
<1> QED BY <1>8, <1>12 DEF r

\* OnWatchStreamChange: what is known stays so.
LEMMA HandlesInform ==
  ASSUME ~IsFiniteSet(LookupIds), NEW h, Len(h) \in Nat,
         NEW s, Good(s), s.client.open, s.server.wire # <<>>, Informed(h, s), NEW aged
  PROVE  Informed(h, Handle([s EXCEPT !.server.wire = Tail(@)], Head(s.server.wire), aged))
<1> DEFINE w == s.server.wire
           v == Tail(w)
           m == Head(w)
           q == [s EXCEPT !.server.wire = Tail(@)]
           D == DOMAIN s.client.targets
           a == s.client.agg
           meta == Meta(s.client)
           keys == s.client.view.synced
           done == Handle(q, m, aged)
<1>0. /\ s \in Steps /\ w \in Seq(Messages) /\ a \in Aggregators
      /\ Linked(a, w, D) /\ Fits(a, meta) /\ TargetsMatch(s.client)
  BY StepTypes DEF Good, Sound, Whole, Connected
<1>1. v \in Seq(Messages) /\ m = w[1] /\ m \in Messages /\ 1 \in DOMAIN w
  BY <1>0, TailFacts
<1>2. q.client = s.client /\ q.disk = s.disk /\ \A b : [q EXCEPT !.client.agg = b] = Aggregated(s, v, b)
  BY <1>0 DEF Aggregated, Steps, Servers, Clients
<1>3. meta \in Metas /\ DOMAIN meta.keys \subseteq DOMAIN a.states
  BY <1>0, MetaType, MetaFacts DEF Linked
<1>4. a \in Like(a, meta)
  BY <1>0 DEF Like
<1>4a. s.client.listening => QueryTarget \in DOMAIN meta.keys /\ keys = meta.keys[QueryTarget]
  BY <1>0, MetaFacts DEF TargetsMatch
<1>4b. MessageFits(h, m)
  BY <1>1 DEF Informed, WireFits
<1>5. ASSUME NEW b, s.client.listening => Hears(b, a, keys, m)
      PROVE  Informed(h, Aggregated(s, v, b))
  <2>1. w = s.server.wire /\ w # <<>> /\ v = Tail(w) /\ m = w[1]
    BY <1>1
  <2>2. s.client.listening => Hears(b, s.client.agg, s.client.view.synced, w[1])
    BY <1>5, <2>1
  <2> HIDE DEF w, v, m, a, keys
  <2> QED BY <2>1, <2>2, HeardInforms
<1> SUFFICES Informed(h, done)
  OBVIOUS
<1>6. CASE m.what \in {"added", "removed"}
  <2> DEFINE b == IF m.what = "added" THEN TargetAdded(a, m.target) ELSE TargetRemoved(a, m.target)
  <2>1. m \in AckMessages
    BY <1>1, <1>6, MessageTypes
  <2>2. Hears(b, a, keys, m)
    <3> HIDE DEF m, a, keys, w, D
    <3>1. EnsureTargetState(a, m.target).outstanding # 0
      <4>1. w # <<>>
        BY DEF w
      <4> QED BY <1>0, <1>1, <2>1, <4>1, AnswerIsDue
    <3> QED BY <1>0, <2>1, <3>1, HearsAck
  <2>3. done = Aggregated(s, v, b)
    <3> HIDE DEF q, w, v, D, m
    <3>1. CASE m.what = "added"
      BY <1>2, <3>1 DEF Handle
    <3>2. CASE m.what = "removed"
      BY <1>2, <3>2 DEF Handle
    <3> QED BY <1>6, <3>1, <3>2
  <2> HIDE DEF b, done, v, m, a, keys
  <2> QED BY <1>5, <2>2, <2>3
<1>7. CASE m.what = "refused"
  <2>1. m.target \in LookupIds
    BY <1>1, <1>7, MessageTypes
  <2>2. done = TargetRefused(q, m.target, aged)
    <3> HIDE DEF q, m
    <3> QED BY <1>7 DEF Handle
  <2>3. /\ Good(done)
        /\ \/ done = Aggregated(s, v, a)
           \/ \E event, gone : RefusedBy(done, s, event, gone)
    <3> DEFINE t == m.target
    <3>1. w[1].what = "refused" /\ w[1].target = t /\ t \in LookupIds
      BY <1>1, <1>7, <2>1
    <3>2. done = TargetRefused(q, t, aged)
      BY <2>2
    <3> HIDE DEF done, m, t
    <3>3. /\ Good(TargetRefused(q, t, aged))
          /\ \/ TargetRefused(q, t, aged) = Aggregated(s, v, a)
             \/ \E event, gone : RefusedBy(TargetRefused(q, t, aged), s, event, gone)
      BY <3>1, Refuses
    <3> QED BY <3>2, <3>3
  <2>4. Hears(a, a, keys, m)
    BY <1>7, HearsNothing
  <2> HIDE DEF done
  <2>5. CASE done = Aggregated(s, v, a)
    BY <1>5, <2>4, <2>5
  <2>6. CASE \E event, gone : RefusedBy(done, s, event, gone)
    BY <1>1, <1>7, <2>3, <2>6, RefusalInforms
  <2> QED BY <2>3, <2>5, <2>6
<1>8. CASE m.what \in {"current", "reset", "doc", "filter"}
  <2> DEFINE b == CASE m.what = "current" -> TargetCurrent(a, meta, m.target, m.token)
                    [] m.what = "reset" -> TargetReset(a, meta, m.target)
                    [] m.what = "doc" -> HandleDocumentChange(a, meta, m)
                    [] m.what = "filter" -> HandleExistenceFilter(a, meta, m)
  <2>1. ASSUME s.client.listening PROVE Hears(b, a, keys, m)
    <3>0. QueryTarget \in DOMAIN meta.keys /\ keys = meta.keys[QueryTarget]
      BY <1>4a, <2>1
    <3> HIDE DEF m, a, meta, keys
    <3>1. CASE m.what = "current"
      BY <1>1, <1>3, <1>4, <3>0, <3>1, MoreMessageTypes, HearsCurrent
    <3>2. CASE m.what = "reset"
      BY <1>1, <1>3, <1>4, <3>0, <3>2, MoreMessageTypes, HearsReset
    <3>3. CASE m.what = "doc"
      BY <1>1, <1>3, <1>4, <1>4b, <3>0, <3>3, MessageTypes, HearsDocument
    <3>4. CASE m.what = "filter"
      BY <1>1, <1>3, <1>4, <3>0, <3>4, MessageTypes, HearsFilter
    <3> QED BY <1>8, <3>1, <3>2, <3>3, <3>4
  <2>2. done = Aggregated(s, v, b)
    <3> HIDE DEF q, w, v, D, m
    <3>1. CASE m.what = "current"
      BY <1>2, <3>1 DEF Handle
    <3>2. CASE m.what = "reset"
      BY <1>2, <3>2 DEF Handle
    <3>3. CASE m.what = "doc"
      BY <1>2, <3>3 DEF Handle
    <3>4. CASE m.what = "filter"
      BY <1>2, <3>4 DEF Handle
    <3> QED BY <1>8, <3>1, <3>2, <3>3, <3>4
  <2> HIDE DEF b, done, v, m, a, keys
  <2> QED BY <1>5, <2>1, <2>2
<1>9. CASE m.what = "snapshot"
  <2> DEFINE version == m.version
             b == TargetsNoChange(a, meta, version)
             told == Aggregated(s, v, b)
  <2>1. version \in 1 .. Len(h) /\ version \in Versions
    BY <1>1, <1>4b, <1>9, MessageTypes DEF MessageFits
  <2>2. b \in Like(a, meta)
    <3> HIDE DEF a, meta, version
    <3> QED BY <1>3, <1>4, <2>1, TargetsNoChangeLike
  <2>3. done = IF version >= s.disk.last THEN RaiseWatchSnapshot(told, version, aged) ELSE told
    <3> HIDE DEF q, w, v, D, m
    <3> QED BY <1>2, <1>9 DEF Handle
  <2>4. s.client.listening => Hears(b, a, keys, m) /\ SnapshotHolds(h, told, version)
    <3>1. w = s.server.wire /\ w # <<>> /\ v = Tail(w) /\ m = w[1] /\ version # 0
      BY <1>1, <2>1
    <3>2. w[1].what = "snapshot" /\ version = w[1].version
      BY <1>1, <1>9
    <3> HIDE DEF w, v, m, version, b
    <3>3. /\ b = TargetsNoChange(s.client.agg, Meta(s.client), version)
          /\ b \in Like(s.client.agg, Meta(s.client))
      BY <2>2 DEF b
    <3> QED BY <3>1, <3>2, <3>3, SnapshotHeard
  <2>5. Informed(h, told)
    <3> HIDE DEF b, v, m, a, keys
    <3> QED BY <1>5, <2>4
  <2>6. Good(told) /\ told.client.open
    <3>1. Linked(b, v, D)
      <4> HIDE DEF b
      <4> QED BY <1>0, <1>1, <1>9, <2>2, LikeLinked
    <3>2. b \in Aggregators /\ Fits(b, meta)
      BY <2>2 DEF Like
    <3> HIDE DEF b
    <3> QED BY <1>1, <3>1, <3>2, Aggregates
  <2>7. told.disk = s.disk /\ told.client.listening = s.client.listening
    BY <1>0, AggregatedIs DEF SameBesides
  <2> HIDE DEF told, b, version
  <2>8. ASSUME version >= s.disk.last PROVE Informed(h, RaiseWatchSnapshot(told, version, aged))
    <3> DEFINE r == RaiseWatchSnapshot(told, version, aged)
    <3>1. Good(r) /\ \E event, agg, p : RaisedBy(r, told, version, event, agg, p)
      BY <2>1, <2>6, Raises
    <3> HIDE DEF r
    <3>2. PICK event, agg, p : RaisedBy(r, told, version, event, agg, p)
      BY <3>1
    <3>3. told.disk.last <= version
      <4>1. s.disk.last \in Nat /\ version \in Nat
        BY <1>0, <2>1, StepTypes DEF Disks, Versions
      <4> QED BY <2>7, <2>8, <4>1
    <3>4. WireFits(h, told.server.wire) /\ Covered(h, told) /\ Knows(h, told)
      BY <2>5 DEF Informed
    <3>5. Informed(h, r)
      BY <2>1, <2>4, <2>6, <2>7, <3>1, <3>2, <3>3, <3>4, RaisesInforms
    <3> QED BY <3>5 DEF r
  <2> HIDE DEF done
  <2> QED BY <2>3, <2>5, <2>8
<1> HIDE DEF done
<1>10. m.what \in {"added", "removed", "refused", "current", "reset", "doc", "filter", "snapshot"}
  BY <1>1, MessageTypes
<1> HIDE DEF m
<1> QED BY <1>6, <1>7, <1>8, <1>9, <1>10

-----------------------------------------------------------------------------
(* What is known, after the other steps of the client.                     *)

\* The query is watched anew from a version that its keys stand for.
LEMMA WatchedAgainKnows ==
  ASSUME NEW h, NEW r, NEW token, WatchedAgain(r, token), token <= Len(h),
         Told(h, token) \subseteq r.client.view.synced
  PROVE  Knows(h, r)
<1>1. WatchedFrom(r.server.watching, token)
  BY DEF WatchedAgain
<1>2. r.server.watching[QueryTarget].asOf = token /\ Watched(h, r.server.watching)
  BY <1>1 DEF WatchedFrom, Watched
<1>3. Learns(h, r.server.wire, r.client.agg, r.client.view.synced, token)
  BY DEF WatchedAgain
<1> QED BY <1>2, <1>3 DEF Knows

\* The stream opens or is closed.
LEMMA ConnectionInforms ==
  ASSUME NEW h, Len(h) \in Nat, NEW s, Good(s), Informed(h, s), NEW r, Connecting(r, s),
         WireFits(h, r.server.wire),
         r.client.open /\ QueryTarget \in DOMAIN s.client.targets =>
           WatchedAgain(r, s.client.targets[QueryTarget])
  PROVE  Informed(h, r)
<1> DEFINE token == s.client.targets[QueryTarget]
           last == s.disk.last
<1>0. s \in Steps /\ TargetsMatch(s.client)
  BY DEF Good, Sound, Whole
<1>1. /\ r.client.targets = s.client.targets /\ r.client.listening = s.client.listening
      /\ r.client.view = s.client.view /\ r.disk = s.disk
      /\ r.client.token = s.client.token /\ r.client.limboFree = s.client.limboFree
  BY DEF Connecting
<1>2. Covered(h, r)
  BY <1>1 DEF Informed, Covered, ClientMarks, Complete
<1>3. Knows(h, r)
  <2>1. SUFFICES ASSUME r.client.open, s.client.listening PROVE Knows(h, r)
    BY <1>1 DEF Knows
  <2>2. QueryTarget \in DOMAIN s.client.targets
    BY <1>0, <2>1 DEF TargetsMatch
  <2>3. token \in Nat /\ last \in Nat
    <3>1. s.client.targets \in Partial(TargetIds, Versions) /\ last \in Versions
      BY <1>0, StepTypes DEF Disks
    <3>2. token \in Versions
      BY <2>2, <3>1, PartialIs
    <3> QED BY <3>1, <3>2 DEF Versions
  <2>4. token <= last /\ last <= Len(h) /\ Told(h, token) \subseteq r.client.view.synced
    BY <1>1, <2>1 DEF Informed, Covered, ClientMarks, DiskMarks
  <2>5. WatchedAgain(r, token)
    BY <2>1, <2>2
  <2> HIDE DEF token, last
  <2>6. token <= Len(h)
    BY <2>3, <2>4
  <2> QED BY <2>4, <2>5, <2>6, WatchedAgainKnows
<1> QED BY <1>2, <1>3 DEF Informed

\* SyncEngine::Listen.
LEMMA ListenInforms ==
  ASSUME NEW h, Len(h) \in Nat, NEW s, Good(s), Informed(h, s), NEW view, Local(view, s.disk),
         view.docs = ExecuteQuery(s.disk), NEW r, Good(r), Begun(r, s, view)
  PROVE  Informed(h, r)
<1> DEFINE k == s.disk
<1>0. s \in Steps /\ k \in Disks
  BY StepTypes DEF Good, Sound, Whole
<1>1. /\ k.limboFree \in Nat /\ k.token \in Nat /\ k.last \in Nat
      /\ k.limboFree <= k.token /\ k.token <= k.last /\ k.last <= Len(h)
      /\ Told(h, k.token) \subseteq k.keys
  BY <1>0 DEF Disks, Versions, Informed, Covered, DiskMarks
<1>2. /\ r.disk = k /\ r.client.listening /\ r.client.view = view
      /\ r.client.token = k.token /\ r.client.limboFree = k.limboFree
      /\ r.client.targets[QueryTarget] = k.token
      /\ r.client.open => Deaf(r) /\ WatchedFrom(r.server.watching, k.token)
      /\ view.synced = k.keys
  BY DEF Begun, ListenedFrom, Local
<1>3. WireFits(h, r.server.wire)
  BY AppendedFits DEF Begun, Informed
<1>4. DiskMarks(h, r.disk) /\ ClientMarks(h, r.client, r.disk.last)
  BY <1>1, <1>2 DEF Informed, Covered, ClientMarks
<1>5. Complete(h, r)
  <2> SUFFICES ASSUME NEW d \in Matching(k) \ view.docs
               PROVE  \E v \in (k.cache[d].read .. k.last) \ {0} : h[v][d].value # "in"
    BY <1>2 DEF Complete
  <2>1. d \in Docs
    BY DEF Matching
  <2>2. k.cache[d].read \in Nat
    BY <1>0, <2>1 DEF Disks, Entries, Versions
  <2>3. k.limboFree # 0 /\ d \notin k.keys /\ ~(k.cache[d].read > k.limboFree)
    BY DEF ExecuteQuery
  <2> HIDE DEF k
  <2>4. k.token \in (k.cache[d].read .. k.last) \ {0}
    BY <1>1, <2>2, <2>3
  <2>5. d \notin Told(h, k.token)
    BY <1>1, <2>3
  <2>6. h[k.token][d].value # "in"
    BY <2>1, <2>4, <2>5 DEF Told
  <2> QED BY <2>4, <2>6
<1>6. Knows(h, r)
  <2>1. SUFFICES ASSUME r.client.open PROVE Knows(h, r)
    BY DEF Knows
  <2> HIDE DEF k
  <2>2. WatchedAgain(r, k.token)
    BY <1>2, <2>1, DeafWatched
  <2>3. k.token <= Len(h)
    BY <1>1
  <2> QED BY <1>1, <1>2, <2>2, <2>3, WatchedAgainKnows
<1> QED BY <1>3, <1>4, <1>5, <1>6 DEF Informed, Covered

\* SyncEngine::StopListening.
LEMMA StopInforms ==
  ASSUME NEW h, NEW s, Good(s), Informed(h, s), s.client.listening, NEW r, Ended(r, s)
  PROVE  Informed(h, r)
<1>1. s.client.view.synced = s.disk.keys
  BY DEF Good, Follows
<1>2. DiskMarks(h, r.disk)
  BY <1>1 DEF Ended, Informed, Covered, DiskMarks, ClientMarks
<1>3. Covered(h, r) /\ Knows(h, r)
  BY <1>2 DEF Ended, Covered, ClientMarks, Complete, Knows
<1>4. WireFits(h, r.server.wire)
  BY AppendedFits DEF Ended, Informed
<1> QED BY <1>3, <1>4 DEF Informed

\* View::ApplyOnlineStateChange.
LEMMA OfflineInforms ==
  ASSUME NEW h, NEW s, Informed(h, s), NEW r, Steady(r, s), r.disk = s.disk,
         r.client.view.docs = s.client.view.docs, r.client.view.synced = s.client.view.synced
  PROVE  Informed(h, r)
<1>1. Covered(h, r)
  BY DEF Steady, Informed, Covered, ClientMarks, Complete
<1>2. Knows(h, r)
  BY DEF Steady, Informed, Knows
<1> QED BY <1>1, <1>2 DEF Steady, Informed

\* The app is launched.
LEMMA LaunchInforms ==
  ASSUME NEW h, NEW k, DiskMarks(h, k)
  PROVE  Informed(h, [client |-> NewClient, disk |-> k, server |-> NewServer])
<1> DEFINE s == [client |-> NewClient, disk |-> k, server |-> NewServer]
<1>1. ~s.client.listening /\ s.disk = k /\ s.server.wire = <<>>
  BY DEF NewClient, NewServer
<1> HIDE DEF s
<1>2. WireFits(h, s.server.wire)
  BY <1>1 DEF WireFits
<1>3. Informed(h, s)
  BY <1>1, <1>2 DEF Informed, Covered, ClientMarks, Complete, Knows
<1> QED BY <1>3 DEF s

-----------------------------------------------------------------------------
(* What is known, after the server has said more.                          *)

\* The targets that d enters, and what is said of it.
Entered(d) == {t \in DOMAIN server.watching : d \in Entering(server.watching[t])}

DocSaid(m, d) ==
  /\ m.what = "doc" /\ m.key = d /\ m.in = Entered(d)
  /\ \A t \in m.out : t \in DOMAIN server.watching /\ d \in Leaving(server.watching[t])
  /\ m.in # {} => m.update = UpdateOf(d)

LEMMA DocsSaid ==
  ASSUME NEW omits, NEW forgets
  PROVE  /\ \A m \in SaidDocs(omits, forgets) : \E d \in Docs : DocSaid(m, d)
         /\ \A d \in Docs : Entered(d) # {} =>
              \E m \in SaidDocs(omits, forgets) : DocSaid(m, d)
<1> DEFINE update(d) == IF omits THEN NoUpdate ELSE UpdateOf(d)
           forgotten(d) == IF d \in forgets THEN Resumed ELSE {}
           First(d) == DocumentMessage(d, update(d), forgotten(d))
           Second(m) == IF m.in = {} THEN m ELSE [m EXCEPT !.update = UpdateOf(m.key)]
           said == SaidDocs(omits, forgets)
<1>1. \A m : m \in said <=> \E d \in Docs : m = Second(First(d)) /\ m.in \cup m.out # {}
  BY DEF SaidDocs
<1>2. ASSUME NEW d \in Docs PROVE DocSaid(Second(First(d)), d)
  <2> DEFINE Out == {t \in DOMAIN server.watching : d \in Leaving(server.watching[t])} \ forgotten(d)
  <2>1. First(d) = [what |-> "doc", key |-> d, update |-> update(d), in |-> Entered(d), out |-> Out]
    BY DEF DocumentMessage, Entered
  <2>2. \A t \in Out : t \in DOMAIN server.watching /\ d \in Leaving(server.watching[t])
    OBVIOUS
  <2> HIDE DEF Out, First, update
  <2>3. CASE First(d).in = {}
    BY <2>1, <2>2, <2>3 DEF DocSaid
  <2>4. CASE First(d).in # {}
    BY <2>1, <2>2, <2>4 DEF DocSaid
  <2> QED BY <2>3, <2>4
<1> HIDE DEF First, Second, said
<1>3. \A m \in said : \E d \in Docs : DocSaid(m, d)
  BY <1>1, <1>2
<1>4. ASSUME NEW d \in Docs, Entered(d) # {} PROVE \E m \in said : DocSaid(m, d)
  <2>1. DocSaid(Second(First(d)), d) /\ Second(First(d)).in \cup Second(First(d)).out # {}
    BY <1>2, <1>4 DEF DocSaid
  <2> QED BY <1>1, <2>1
<1> QED BY <1>3, <1>4 DEF said

\* All that the query has now the messages leave in it, and what is new they give.
LEMMA AllSaid ==
  ASSUME db \in Databases, Len(db) \in 1 .. MaxVersion,
         server.watching \in Partial(TargetIds, Watches), NEW omits, NEW forgets, NEW might,
         NEW said, said = UNION {SaidDocs(omits, forgets), SaidCurrents, SaidFilters(might)}
  PROVE  /\ \A m \in said : /\ m.what \notin {"added", "removed", "snapshot"}
                            /\ MessageFits(db, m)
         /\ QueryTarget \in DOMAIN server.watching
              /\ server.watching[QueryTarget].key = NoKey =>
              \A d \in Told(db, Now) :
                /\ \A m \in said : ~Takes(m, d)
                /\ d \in Told(db, server.watching[QueryTarget].asOf) \/ \E m \in said : Gives(m, d)
<1> DEFINE x == server.watching[QueryTarget]
<1>1. /\ \A m \in SaidDocs(omits, forgets) : \E d \in Docs : DocSaid(m, d)
      /\ \A d \in Docs : Entered(d) # {} => \E m \in SaidDocs(omits, forgets) : DocSaid(m, d)
  BY DocsSaid
<1>2. \A m \in SaidCurrents : m.what = "current"
  BY DEF SaidCurrents
<1>3. \A m \in SaidFilters(might) :
        m.what = "filter" /\ ResultAt(server.watching[m.target], Now) \subseteq m.might
  BY DEF SaidFilters
<1>4. Now # 0 /\ \A d \in Docs : db[Now][d].value \in Values
  BY NowType
<1>5. \A t \in DOMAIN server.watching : server.watching[t] \in Watches
  BY PartialIs
<1>6. \A m \in said : \/ \E d \in Docs : DocSaid(m, d)
                      \/ m.what = "current"
                      \/ m.what = "filter" /\ ResultAt(server.watching[m.target], Now) \subseteq m.might
  BY <1>1, <1>2, <1>3
<1>7. ASSUME NEW m \in said PROVE m.what \notin {"added", "removed", "snapshot"}
  BY <1>6 DEF DocSaid
<1>8. ASSUME NEW m \in said PROVE MessageFits(db, m)
  <2>1. SUFFICES ASSUME m.what = "doc", QueryTarget \in m.in
                 PROVE  QueryTarget \notin m.out /\ IsFound(m.update)
    BY <1>7 DEF MessageFits
  <2>2. PICK d \in Docs : DocSaid(m, d)
    BY <1>6, <2>1
  <2>3. /\ QueryTarget \in DOMAIN server.watching /\ d \in Entering(x)
        /\ m.update = UpdateOf(d) /\ (QueryTarget \in m.out => d \in Leaving(x))
    BY <2>1, <2>2 DEF DocSaid, Entered
  <2>4. d \in ResultAt(x, Now) /\ x \in Watches
    BY <1>5, <2>3 DEF Entering
  <2> HIDE DEF x
  <2>5. QueryTarget \notin m.out
    BY <2>3, <2>4 DEF Leaving
  <2>6. db[Now][d].value # "gone"
    BY <2>4 DEF ResultAt
  <2>7. db[Now][d].value \in {"in", "out"}
    BY <1>4, <2>6 DEF Values
  <2> QED BY <2>3, <2>5, <2>7 DEF UpdateOf, IsFound
<1>9. ASSUME QueryTarget \in DOMAIN server.watching, x.key = NoKey, NEW d \in Told(db, Now)
      PROVE  /\ \A m \in said : ~Takes(m, d)
             /\ d \in Told(db, x.asOf) \/ \E m \in said : Gives(m, d)
  <2>1. d \in Docs /\ d \in ResultAt(x, Now)
    BY <1>9 DEF Told, ResultAt
  <2>2. ASSUME NEW m \in said, Takes(m, d) PROVE FALSE
    <3>1. CASE m.what = "doc"
      <4>1. PICK e \in Docs : DocSaid(m, e)
        BY <1>6, <3>1
      <4>2. e = d /\ QueryTarget \in m.out
        BY <2>2, <3>1, <4>1 DEF Takes, DocSaid
      <4>3. d \in Leaving(x)
        BY <4>1, <4>2 DEF DocSaid
      <4> HIDE DEF x
      <4> QED BY <2>1, <4>3 DEF Leaving
    <3>2. CASE m.what = "filter"
      <4>1. m.target = QueryTarget /\ d \notin m.might
        BY <2>2, <3>2 DEF Takes
      <4>2. ResultAt(x, Now) \subseteq m.might
        BY <1>6, <3>2, <4>1 DEF DocSaid
      <4> QED BY <2>1, <4>1, <4>2
    <3> QED BY <1>6, <2>2, <3>1, <3>2 DEF DocSaid, Takes
  <2>3. ASSUME d \notin Told(db, x.asOf) PROVE \E m \in said : Gives(m, d)
    <3>1. d \in Entering(x)
      <4>1. x.asOf = 0 \/ d \notin ResultAt(x, x.asOf)
        BY <1>9, <2>1, <2>3 DEF Told, ResultAt
      <4> HIDE DEF x
      <4> QED BY <2>1, <4>1 DEF Entering
    <3>2. QueryTarget \in Entered(d)
      BY <1>9, <3>1 DEF Entered
    <3>3. PICK m \in SaidDocs(omits, forgets) : DocSaid(m, d)
      BY <1>1, <2>1, <3>2
    <3> QED BY <3>2, <3>3 DEF DocSaid, Gives
  <2> QED BY <2>2, <2>3
<1> QED BY <1>7, <1>8, <1>9

\* At the snapshot that ends what is said the client has what the query has now.
LEMMA LearnsSaid ==
  ASSUME NEW h, NEW w \in Seq(Messages), \A i \in DOMAIN w : w[i].what # "snapshot",
         NEW said, \A m \in said : m.what \notin {"added", "removed", "snapshot"},
         NEW u, Adds(u, w, said), NEW now, NEW asOf, NEW last \in Messages,
         last.what = "snapshot", last.version = now,
         \A d \in Told(h, now) : /\ \A m \in said : ~Takes(m, d)
                                 /\ d \in Told(h, asOf) \/ \E m \in said : Gives(m, d),
         NEW a, NEW keys, Learns(h, w, a, keys, asOf)
  PROVE  Learns(h, u \o <<last>>, a, keys, now)
<1> DEFINE v == u \o <<last>>
           n == Len(u) + 1
<1>1. CASE QueryTarget \in a.resets
  BY <1>1 DEF Learns
<1>2. CASE QueryTarget \notin a.resets
  <2>1. /\ u \in Seq(Messages) /\ Extended(u, w)
        /\ \A i \in DOMAIN u \ DOMAIN w : u[i] \in said
        /\ \A m \in said : \E i \in DOMAIN u \ DOMAIN w : u[i] = m
        /\ \A i \in DOMAIN w : i \in DOMAIN u /\ u[i] = w[i]
    BY DEF Adds, Extended
  <2>2. /\ Heard(w) = Heard(u) \cap DOMAIN w
        /\ \A i \in DOMAIN u \ DOMAIN w : i \in Heard(u) /\ \A j \in DOMAIN w : j < i
    BY <2>1, HeardExtended
  <2>3. \A i \in DOMAIN u : u[i].what # "snapshot"
    BY <2>1
  <2>4. ServerTrue(h, u, a, keys, now)
    <3> SUFFICES ASSUME NEW d \in Told(h, now) PROVE Promised(u, Heard(u), d, Has(a, keys, d))
      BY DEF ServerTrue
    <3>1. \A j \in Heard(u) : Takes(u[j], d) => j \in Heard(w) /\ u[j] = w[j]
      <4>1. \A j \in Heard(u) : j \in DOMAIN u
        BY DEF Heard
      <4> QED BY <2>1, <2>2, <4>1
    <3>2. \A i \in Heard(w) : i \in Heard(u) /\ i \in DOMAIN w /\ u[i] = w[i]
      BY <2>1, <2>2
    <3>3. CASE d \in Told(h, asOf)
      <4>1. Promised(w, Heard(w), d, Has(a, keys, d))
        BY <1>2, <3>3 DEF Learns, ServerTrue
      <4> QED BY <3>1, <3>2, <4>1 DEF Promised
    <3>4. CASE d \notin Told(h, asOf)
      <4>1. PICK m \in said : Gives(m, d)
        BY <3>4
      <4>2. PICK i \in DOMAIN u \ DOMAIN w : u[i] = m
        BY <2>1
      <4> QED BY <2>2, <3>1, <3>2, <4>1, <4>2 DEF Promised
    <3> QED BY <3>3, <3>4
  <2>5. /\ v \in Seq(Messages) /\ Len(u) \in Nat /\ DOMAIN v = 1 .. n /\ DOMAIN u = 1 .. Len(u)
        /\ v[n] = last /\ \A i \in DOMAIN u : v[i] = u[i]
    <3>1. <<last>> \in Seq(Messages) /\ v = Append(u, last)
      BY <2>1
    <3> QED BY <2>1, <3>1, AppendFacts
  <2>6. /\ n \in DOMAIN v /\ n \notin DOMAIN u /\ \A i \in DOMAIN v : i = n \/ i \in DOMAIN u
        /\ \A i \in DOMAIN u : i \in DOMAIN v /\ i < n
    BY <2>5
  <2> HIDE DEF v, n
  <2>7. Extended(v, u)
    BY <2>5, <2>6 DEF Extended
  <2>8. Heard(u) = Heard(v) \cap DOMAIN u /\ n \in Heard(v)
    BY <2>1, <2>5, <2>6, <2>7, HeardExtended
  <2>9. Before(Heard(v), n) = Heard(u)
    <3>1. \A i \in Heard(v) : i \in DOMAIN v
      BY DEF Heard
    <3>2. ~(n < n)
      BY <2>5 DEF n
    <3> QED BY <2>6, <2>8, <3>1, <3>2 DEF Before
  <2>10. \A d \in Told(h, now) : Promised(v, Heard(u), d, Has(a, keys, d))
    <3> SUFFICES ASSUME NEW d \in Told(h, now) PROVE Promised(v, Heard(u), d, Has(a, keys, d))
      OBVIOUS
    <3>1. Promised(u, Heard(u), d, Has(a, keys, d))
      BY <2>4 DEF ServerTrue
    <3>2. \A i \in Heard(u) : v[i] = u[i]
      BY <2>5 DEF Heard
    <3> QED BY <3>1, <3>2 DEF Promised
  <2>11. SnapshotsTrue(h, v, a, keys)
    <3> SUFFICES ASSUME NEW i \in Heard(v), v[i].what = "snapshot", NEW d \in Told(h, v[i].version)
                 PROVE  Promised(v, Before(Heard(v), i), d, Has(a, keys, d))
      BY DEF SnapshotsTrue
    <3>1. i = n
      BY <2>3, <2>5, <2>6 DEF Heard
    <3> QED BY <2>5, <2>9, <2>10, <3>1
  <2>12. ServerTrue(h, v, a, keys, now)
    <3> SUFFICES ASSUME NEW d \in Told(h, now) PROVE Promised(v, Heard(v), d, Has(a, keys, d))
      BY DEF ServerTrue
    <3>1. Promised(v, Heard(u), d, Has(a, keys, d))
      BY <2>10
    <3>2. \A j \in Heard(v) : j = n \/ j \in Heard(u)
      BY <2>6, <2>8 DEF Heard
    <3>3. ~Takes(v[n], d)
      BY <2>5 DEF Takes
    <3>4. \A i \in Heard(u) : i \in Heard(v)
      BY <2>8
    <3> QED BY <3>1, <3>2, <3>3, <3>4 DEF Promised
  <2> QED BY <2>11, <2>12 DEF Learns, v
<1> QED BY <1>1, <1>2

LEMMA ServerInforms ==
  ASSUME NEW h, NEW s, Informed(h, s), NEW f, WireFits(h, f.wire),
         s.client.open /\ s.client.listening =>
           /\ Watched(h, f.watching)
           /\ Learns(h, f.wire, s.client.agg, s.client.view.synced,
                     f.watching[QueryTarget].asOf),
         NEW r, r = [client |-> s.client, disk |-> s.disk, server |-> f]
  PROVE  Informed(h, r)
<1>1. r.client = s.client /\ r.disk = s.disk /\ r.server = f
  OBVIOUS
<1>2. Covered(h, r)
  BY <1>1 DEF Informed, Covered, Complete
<1>3. Knows(h, r)
  BY <1>1 DEF Knows
<1> QED BY <1>1, <1>2, <1>3 DEF Informed

\* ServerSends.
LEMMA SendInforms ==
  ASSUME db \in Databases, Len(db) \in 1 .. MaxVersion, Good(State), Informed(db, State),
         NEW omits, NEW forgets, NEW might \in SUBSET Docs, ServerSends(omits, forgets, might)
  PROVE  Informed(db, [client |-> client, disk |-> disk, server |-> server'])
<1> DEFINE said == UNION {SaidDocs(omits, forgets), SaidCurrents, SaidFilters(might)}
           last == [what |-> "snapshot", version |-> Now]
           x == server.watching[QueryTarget]
<1>0. /\ State.client = client /\ State.disk = disk /\ State.server = server
      /\ server.watching \in Partial(TargetIds, Watches) /\ server.wire \in Seq(Messages)
  BY StepTypes, StateFacts DEF Good, Sound, Whole
<1>1. Spoken(said) /\ said \subseteq Messages
  BY SendsAll
<1>2. /\ \A m \in said : m.what \notin {"added", "removed", "snapshot"} /\ MessageFits(db, m)
      /\ QueryTarget \in DOMAIN server.watching /\ x.key = NoKey =>
           \A d \in Told(db, Now) :
             /\ \A m \in said : ~Takes(m, d)
             /\ d \in Told(db, x.asOf) \/ \E m \in said : Gives(m, d)
  BY <1>0, AllSaid
<1> HIDE DEF said
<1>3. PICK u : /\ Adds(u, server.wire, said)
               /\ server'.wire = u \o <<[what |-> "snapshot", version |-> Now]>>
  BY <1>1 DEF Spoken
<1>4. \A i \in DOMAIN server.wire : server.wire[i].what # "snapshot"
  BY DEF ServerSends, HasToSay
<1>5. /\ last \in Messages /\ last.what = "snapshot" /\ last.version = Now
      /\ MessageFits(db, last) /\ server'.wire = u \o <<last>>
  <2>1. Now \in 1 .. Len(db) /\ Now \in Versions
    BY NowType DEF Now
  <2> QED BY <1>3, <2>1 DEF Messages, SnapshotMessages, MessageFits
<1> HIDE DEF last
<1>6. WireFits(db, server'.wire)
  <2>1. u \in Seq(Messages) /\ \A i \in DOMAIN u : MessageFits(db, u[i])
    BY <1>0, <1>2, <1>3 DEF Adds, Informed, WireFits
  <2>2. server'.wire = Append(u, last)
    BY <1>5, <2>1
  <2> QED BY <1>5, <2>1, <2>2, AppendFacts DEF WireFits
<1>7. ASSUME client.open, client.listening
      PROVE  /\ Watched(db, server'.watching)
             /\ Learns(db, server'.wire, client.agg, client.view.synced,
                       server'.watching[QueryTarget].asOf)
  <2>1. /\ Watched(db, server.watching)
        /\ Learns(db, server.wire, client.agg, client.view.synced, x.asOf)
    BY <1>0, <1>7 DEF Informed, Knows
  <2>2. QueryTarget \in DOMAIN server.watching /\ x.key = NoKey
    BY <2>1 DEF Watched
  <2>3. x \in Watches
    BY <1>0, <2>2, PartialIs
  <2>4. /\ QueryTarget \in DOMAIN server'.watching
        /\ server'.watching[QueryTarget] = [x EXCEPT !.asOf = Now, !.current = TRUE]
    BY <1>1, <2>2 DEF Spoken
  <2> HIDE DEF x
  <2>5. server'.watching[QueryTarget].asOf = Now /\ server'.watching[QueryTarget].key = NoKey
    BY <2>2, <2>3, <2>4 DEF Watches
  <2>6. Now <= Len(db)
    BY NowType DEF Now
  <2>7. Learns(db, u \o <<last>>, client.agg, client.view.synced, Now)
    <3>1. \A d \in Told(db, Now) :
            /\ \A m \in said : ~Takes(m, d)
            /\ d \in Told(db, x.asOf) \/ \E m \in said : Gives(m, d)
      BY <1>2, <2>2 DEF x
    <3>2. \A m \in said : m.what \notin {"added", "removed", "snapshot"}
      BY <1>2
    <3> QED BY <1>0, <1>3, <1>4, <1>5, <2>1, <3>1, <3>2, LearnsSaid
  <2> QED BY <1>5, <2>4, <2>5, <2>6, <2>7 DEF Watched
<1> QED BY <1>0, <1>6, <1>7, ServerInforms

LEMMA AppendExtends ==
  ASSUME NEW w \in Seq(Messages), NEW m \in Messages, NoAck(m)
  PROVE  LET v == Append(w, m)
         IN  v \in Seq(Messages) /\ Extended(v, w) /\ \A i \in DOMAIN v \ DOMAIN w : v[i] = m
<1> DEFINE v == Append(w, m)
<1>1. /\ v \in Seq(Messages) /\ (\A i \in DOMAIN w : i \in DOMAIN v /\ v[i] = w[i])
      /\ \A i \in DOMAIN v : i \in DOMAIN w \/ i = Len(w) + 1
      /\ v[Len(w) + 1] = m
  BY AppendFacts
<1> HIDE DEF v
<1>2. \A i \in DOMAIN v \ DOMAIN w : v[i] = m
  BY <1>1
<1>3. Extended(v, w)
  BY <1>1, <1>2 DEF Extended, NoAck
<1> QED BY <1>1, <1>2, <1>3 DEF v

\* ServerResets.
LEMMA ResetInforms ==
  ASSUME Good(State), NEW h, Len(h) \in Nat, Informed(h, State), ServerResets
  PROVE  Informed(h, [client |-> client, disk |-> disk, server |-> server'])
<1> DEFINE m == [what |-> "reset", target |-> QueryTarget]
           w == server.wire
           v == Append(w, m)
           x == server.watching[QueryTarget]
           a == client.agg
           keys == client.view.synced
<1>0. /\ State.client = client /\ State.disk = disk /\ State.server = server
      /\ server.watching \in Partial(TargetIds, Watches) /\ w \in Seq(Messages)
  BY StepTypes, StateFacts DEF Good, Sound, Whole
<1>1. /\ server'.wire = v /\ QueryTarget \in DOMAIN server'.watching
      /\ QueryTarget \in DOMAIN server.watching
      /\ server'.watching[QueryTarget] =
           [x EXCEPT !.asOf = 0, !.current = FALSE, !.resumed = FALSE]
  BY DEF ServerResets
<1>2. m \in Messages /\ NoAck(m) /\ MessageFits(h, m) /\ m.what # "snapshot"
  BY DEF Messages, ResetMessages, TargetIds, NoAck, MessageFits
<1> HIDE DEF m
<1>3. v \in Seq(Messages) /\ Extended(v, w) /\ \A i \in DOMAIN v \ DOMAIN w : v[i] = m
  BY <1>0, <1>2, AppendExtends
<1> HIDE DEF v
<1>4. WireFits(h, v)
  BY <1>0, <1>2, <1>3 DEF Informed, WireFits, Extended
<1>5. x \in Watches
  BY <1>0, <1>1, PartialIs
<1> HIDE DEF x
<1>6. server'.watching[QueryTarget].asOf = 0 /\ server'.watching[QueryTarget].key = x.key
  BY <1>1, <1>5 DEF Watches
<1>7. ASSUME client.open, client.listening
      PROVE  Watched(h, server'.watching) /\ Learns(h, v, a, keys, 0)
  <2>1. Watched(h, server.watching) /\ Learns(h, w, a, keys, x.asOf)
    BY <1>0, <1>7 DEF Informed, Knows, x
  <2>2. Watched(h, server'.watching)
    BY <1>1, <1>6, <2>1 DEF Watched, x
  <2>3. ServerTrue(h, v, a, keys, 0)
    BY DEF ServerTrue, Told
  <2>4. SnapshotsTrue(h, w, a, keys) => SnapshotsTrue(h, v, a, keys)
    BY <1>0, <1>2, <1>3, SnapshotsKept
  <2> QED BY <2>1, <2>2, <2>3, <2>4 DEF Learns
<1> QED BY <1>0, <1>1, <1>4, <1>6, <1>7, ServerInforms

\* ServerRefuses.
LEMMA RefuseInforms ==
  ASSUME Good(State), NEW h, Informed(h, State), NEW t \in LookupIds, ServerRefuses(t)
  PROVE  Informed(h, [client |-> client, disk |-> disk, server |-> server'])
<1> DEFINE m == [what |-> "refused", target |-> t]
           w == server.wire
           v == Append(w, m)
           x == server.watching[QueryTarget]
           a == client.agg
           keys == client.view.synced
<1>0. /\ State.client = client /\ State.disk = disk /\ State.server = server /\ w \in Seq(Messages)
  BY StepTypes, StateFacts DEF Good, Sound, Whole
<1>1. server'.wire = v /\ server'.watching = Without(server.watching, t) /\ t # QueryTarget
  BY DEF ServerRefuses
<1>2. m \in Messages /\ NoAck(m) /\ MessageFits(h, m) /\ Mild(m)
  BY DEF Messages, RefusedMessages, NoAck, MessageFits, Mild, Takes
<1> HIDE DEF m
<1>3. v \in Seq(Messages) /\ Extended(v, w) /\ \A i \in DOMAIN v \ DOMAIN w : v[i] = m
  BY <1>0, <1>2, AppendExtends
<1> HIDE DEF v
<1>4. WireFits(h, v)
  BY <1>0, <1>2, <1>3 DEF Informed, WireFits, Extended
<1>5. QueryTarget \in DOMAIN server.watching =>
        QueryTarget \in DOMAIN server'.watching /\ server'.watching[QueryTarget] = x
  BY <1>1 DEF Without, Restrict
<1>6. ASSUME client.open, client.listening
      PROVE  Watched(h, server'.watching) /\ Learns(h, v, a, keys, x.asOf)
  <2>1. Watched(h, server.watching) /\ Learns(h, w, a, keys, x.asOf)
    BY <1>0, <1>6 DEF Informed, Knows
  <2>2. Watched(h, server'.watching)
    BY <1>5, <2>1 DEF Watched
  <2> QED BY <1>0, <1>2, <1>3, <2>1, <2>2, LearnsMore
<1>7. ASSUME client.open, client.listening
      PROVE  server'.watching[QueryTarget] = x
  <2>1. Watched(h, server.watching)
    BY <1>0, <1>7 DEF Informed, Knows
  <2> QED BY <1>5, <2>1 DEF Watched
<1> QED BY <1>0, <1>1, <1>4, <1>6, <1>7, ServerInforms

\* A commit changes nothing of the versions before it.
LEMMA CommitInforms ==
  ASSUME NEW h, NEW g, Len(h) \in Nat, Len(g) \in Nat, Len(h) <= Len(g),
         \A v \in 1 .. Len(h) : g[v] = h[v], NEW s, Good(s), Informed(h, s)
  PROVE  Informed(g, s)
<1> DEFINE w == s.server.wire
           a == s.client.agg
           keys == s.client.view.synced
           asOf == s.server.watching[QueryTarget].asOf
           token == s.client.targets[QueryTarget]
           n == Len(h)
<1>0. /\ s \in Steps /\ s.disk \in Disks /\ s.client.token \in Versions
      /\ s.server.watching \in Partial(TargetIds, Watches)
      /\ s.client.targets \in Partial(TargetIds, Versions) /\ TargetsMatch(s.client)
  BY StepTypes DEF Good, Sound, Whole
<1>1. \A v \in Nat : v <= n => Told(g, v) = Told(h, v)
  BY DEF Told
<1>2. WireFits(g, w)
  BY DEF Informed, WireFits, MessageFits
<1>3. Knows(g, s)
  <2>1. SUFFICES ASSUME s.client.open, s.client.listening
                 PROVE  Watched(g, s.server.watching) /\ Learns(g, w, a, keys, asOf)
    BY DEF Knows
  <2>2. Watched(h, s.server.watching) /\ Learns(h, w, a, keys, asOf)
    BY <2>1 DEF Informed, Knows
  <2>3. asOf \in Nat /\ asOf <= n
    <3>1. s.server.watching[QueryTarget] \in Watches /\ asOf <= n
      BY <1>0, <2>2, PartialIs DEF Watched
    <3> QED BY <3>1 DEF Watches, Versions
  <2> HIDE DEF w, a, keys
  <2>4. Watched(g, s.server.watching)
    BY <2>2, <2>3 DEF Watched
  <2> HIDE DEF asOf, n
  <2>5. ServerTrue(h, w, a, keys, asOf) => ServerTrue(g, w, a, keys, asOf)
    BY <1>1, <2>3 DEF ServerTrue
  <2>6. SnapshotsTrue(h, w, a, keys) => SnapshotsTrue(g, w, a, keys)
    <3>1. \A i \in Heard(w) : w[i].what = "snapshot" => w[i].version \in Nat /\ w[i].version <= n
      BY DEF Informed, WireFits, MessageFits, Heard, w, n
    <3> QED BY <1>1, <3>1 DEF SnapshotsTrue
  <2> QED BY <2>2, <2>4, <2>5, <2>6 DEF Learns
<1>4. /\ s.disk.token \in Nat /\ s.disk.limboFree \in Nat /\ s.disk.last \in Nat
      /\ s.client.token \in Nat /\ \A d \in Docs : s.disk.cache[d].read \in Nat
  BY <1>0 DEF Disks, Entries, Versions
<1>5. /\ s.disk.limboFree <= s.disk.token /\ s.disk.token <= s.disk.last /\ s.disk.last <= n
      /\ Told(h, s.disk.token) \subseteq s.disk.keys
  BY DEF Informed, Covered, DiskMarks
<1>6. DiskMarks(g, s.disk)
  <2> HIDE DEF n
  <2>1. s.disk.token <= n
    BY <1>4, <1>5 DEF n
  <2>2. s.disk.last <= Len(g)
    BY <1>4, <1>5 DEF n
  <2> QED BY <1>1, <1>4, <1>5, <2>1, <2>2 DEF DiskMarks
<1>7. ClientMarks(g, s.client, s.disk.last)
  <2>1. SUFFICES ASSUME s.client.listening PROVE ClientMarks(g, s.client, s.disk.last)
    BY DEF ClientMarks
  <2>2. /\ s.client.limboFree <= s.client.token /\ s.client.token <= s.disk.last
        /\ token <= s.disk.last /\ Told(h, s.client.token) \subseteq keys
        /\ Told(h, token) \subseteq keys
    BY <2>1 DEF Informed, Covered, ClientMarks
  <2>3. token \in Nat
    <3>1. token \in Versions
      BY <1>0, <2>1, PartialIs DEF TargetsMatch
    <3> QED BY <3>1 DEF Versions
  <2> HIDE DEF token
  <2>4. s.client.token <= n /\ token <= n
    BY <1>4, <1>5, <2>2, <2>3
  <2> HIDE DEF n
  <2>5. Told(g, s.client.token) \subseteq keys /\ Told(g, token) \subseteq keys
    BY <1>1, <1>4, <2>2, <2>3, <2>4
  <2> QED BY <2>2, <2>5 DEF ClientMarks, token
<1>8. Complete(g, s)
  <2> SUFFICES ASSUME s.client.listening, NEW d \in Matching(s.disk) \ s.client.view.docs
               PROVE  \E v \in (s.disk.cache[d].read .. s.disk.last) \ {0} : g[v][d].value # "in"
    BY DEF Complete
  <2>1. PICK v \in (s.disk.cache[d].read .. s.disk.last) \ {0} : h[v][d].value # "in"
    BY DEF Informed, Covered, Complete
  <2>2. s.disk.cache[d].read \in Nat
    BY <1>4 DEF Matching
  <2>3. v \in 1 .. n
    BY <1>4, <1>5, <2>1, <2>2
  <2> QED BY <2>1, <2>3
<1> QED BY <1>2, <1>3, <1>6, <1>7, <1>8 DEF Informed, Covered

LEMMA CommitKeeps ==
  ASSUME db \in Databases, Len(db) \in 1 .. MaxVersion, DatabaseChanges
  PROVE  /\ Len(db) \in Nat /\ Len(db') \in Nat /\ Len(db) <= Len(db')
         /\ \A v \in 1 .. Len(db) : db'[v] = db[v]
<1> DEFINE Rows == [Docs -> [value : Values, since : Versions]]
           row == db'[Len(db) + 1]
<1>1. db' \in Databases
  BY DatabaseType
<1>2. \E x : db' = Append(db, x)
  BY DEF DatabaseChanges
<1>3. db \in Seq(Rows) /\ db' \in Seq(Rows) /\ Len(db) \in Nat
  BY <1>1 DEF Databases
<1> HIDE DEF Rows
<1>4. Len(db') = Len(db) + 1 /\ \A v \in 1 .. Len(db) : db'[v] = db[v]
  BY <1>2, <1>3
<1> QED BY <1>3, <1>4

-----------------------------------------------------------------------------
(* Nothing is missed.                                                      *)

LEMMA InitInformed == Init => Informed(db, State)
<1> SUFFICES ASSUME Init PROVE Informed(db, State)
  OBVIOUS
<1>1. State = [client |-> NewClient, disk |-> disk, server |-> NewServer]
  BY DEF Init, State
<1>2. disk.limboFree = 0 /\ disk.token = 0 /\ disk.last = 0
  BY DEF Init
<1>3. Len(db) \in 1 .. MaxVersion
  BY InitGood DEF IInv
<1>4. Told(db, disk.token) = {}
  BY <1>2 DEF Told
<1>5. DiskMarks(db, disk)
  BY <1>2, <1>3, <1>4 DEF DiskMarks
<1> QED BY <1>1, <1>5, LaunchInforms

\* The client keeps to what it has been told, and the server to what it has said.
LEMMA StepInformed ==
  ASSUME ~IsFiniteSet(LookupIds), IInv, Informed(db, State), Next
  PROVE  Informed(db', State')
<1> DEFINE After == [client |-> client', disk |-> disk', server |-> server']
<1>0. /\ Good(State) /\ State \in Steps /\ disk \in Disks
      /\ db \in Databases /\ Len(db) \in 1 .. MaxVersion /\ Len(db) \in Nat
      /\ State.client = client /\ State.disk = disk /\ State.server = server
  BY StepTypes, StateFacts DEF IInv, Good, Sound, Whole
<1>1. State' = After /\ \A s : Good(s) /\ Do(s) => s = After
  BY StateFacts DEF State, Good, Sound, Whole
<1> HIDE DEF State
<1>2. CASE Listen
  <2> DEFINE view == [docs |-> ExecuteQuery(disk), synced |-> disk.keys, current |-> FALSE,
                      limbo |-> {}, state |-> "local"]
             s == RemoteListen([State EXCEPT !.client.listening = TRUE, !.client.view = view,
                                             !.client.token = disk.token,
                                             !.client.limboFree = disk.limboFree],
                               QueryTarget, disk.token)
  <2>1. view \in Views
    <3>1. ExecuteQuery(disk) \in SUBSET Docs /\ disk.keys \in SUBSET Docs /\ FALSE \in BOOLEAN
      BY <1>0 DEF ExecuteQuery, Matching, Disks
    <3>2. \A b \in BOOLEAN : [docs |-> ExecuteQuery(disk), synced |-> disk.keys, current |-> b,
                              limbo |-> {}, state |-> "local"] \in Views
      BY <3>1 DEF Views
    <3> QED BY <3>1, <3>2, Zenon
  <2>2. Local(view, State.disk) /\ view.docs = ExecuteQuery(State.disk)
    <3>1. \A d \in ExecuteQuery(disk) : disk.cache[d].value = "in"
      BY DEF ExecuteQuery, Matching
    <3> QED BY <1>0, <2>1, <3>1 DEF Local
  <2>3. Do(s) /\ ~client.listening /\ db' = db
    BY <1>2 DEF Listen
  <2> HIDE DEF view
  <2>4. Good(s) /\ Begun(s, State, view)
    BY <1>0, <2>2, <2>3, BeginsListening
  <2> HIDE DEF s
  <2>5. Informed(db, s)
    BY <1>0, <2>2, <2>4, ListenInforms
  <2> QED BY <1>1, <2>3, <2>4, <2>5
<1>3. CASE StopListening
  <2> DEFINE released == [State EXCEPT !.disk.token = client.token,
                                       !.disk.limboFree = client.limboFree]
             stopped == [RemoteStopListening(released, QueryTarget) EXCEPT
                           !.client.listening = FALSE, !.client.view = NoView,
                           !.client.token = 0, !.client.limboFree = 0]
             s == RemoveLimboTargets(stopped, client.view.limbo)
  <2>1. Do(s) /\ client.listening /\ db' = db
    BY <1>3 DEF StopListening
  <2>2. Good(s) /\ Ended(s, State)
    BY <1>0, <2>1, EndsListening
  <2> HIDE DEF s
  <2>3. Informed(db, s)
    BY <1>0, <2>1, <2>2, StopInforms
  <2> QED BY <1>1, <2>1, <2>2, <2>3
<1>4. CASE Opens
  <2> DEFINE s == SendWatchRequests([State EXCEPT !.client.open = TRUE,
                                                  !.client.agg = NewAggregator],
                                    client.targets)
  <2>1. Do(s) /\ ~client.open /\ db' = db
    BY <1>4 DEF Opens
  <2>2. /\ Good(s) /\ Connecting(s, State) /\ s.client.open
        /\ Appended(s.server.wire, State.server.wire, TargetIds)
        /\ QueryTarget \in DOMAIN State.client.targets =>
             WatchedAgain(s, State.client.targets[QueryTarget])
    BY <1>0, <2>1, StreamOpens
  <2> HIDE DEF s
  <2>3. WireFits(db, s.server.wire)
    BY <2>2, AppendedFits DEF Informed
  <2>4. Informed(db, s)
    BY <1>0, <2>2, <2>3, ConnectionInforms
  <2> QED BY <1>1, <2>1, <2>2, <2>4
<1>5. ASSUME Do(Closed), db' = db PROVE Informed(db', State')
  <2>1. /\ Good(Closed) /\ Connecting(Closed, State) /\ ~Closed.client.open
        /\ Closed.server.wire = <<>>
    BY <1>0, StreamCloses DEF Closed
  <2>2. WireFits(db, Closed.server.wire)
    BY <2>1 DEF WireFits
  <2> HIDE DEF Closed
  <2>3. Informed(db, Closed)
    BY <1>0, <2>1, <2>2, ConnectionInforms
  <2> QED BY <1>1, <1>5, <2>1, <2>3
<1>6. CASE IdleTimerFires
  BY <1>5, <1>6 DEF IdleTimerFires
<1>7. CASE Breaks
  BY <1>5, <1>7 DEF Breaks
<1>8. CASE GoesOffline
  <2> DEFINE s == [State EXCEPT !.client.view.current = FALSE, !.client.view.state = "local"]
  <2>1. Do(s) /\ client.listening /\ db' = db
    BY <1>8 DEF GoesOffline, Do, State
  <2>2. /\ Good(s) /\ Steady(s, State) /\ s.disk = State.disk
        /\ s.client.view.docs = State.client.view.docs
        /\ s.client.view.synced = State.client.view.synced
    BY <1>0, <2>1, ViewGoesLocal
  <2> HIDE DEF s
  <2>3. Informed(db, s)
    BY <1>0, <2>2, OfflineInforms
  <2> QED BY <1>1, <2>1, <2>2, <2>3
<1>9. CASE Crash
  <2>1. After = [client |-> NewClient, disk |-> disk, server |-> NewServer] /\ db' = db
    BY <1>9 DEF Crash
  <2>2. DiskMarks(db, disk)
    BY <1>0 DEF Informed, Covered
  <2> HIDE DEF After
  <2> QED BY <1>1, <2>1, <2>2, LaunchInforms
<1>10. CASE OnWatchStreamChange
  <2>1. PICK aged : Do(Handle([State EXCEPT !.server.wire = Tail(@)], Head(server.wire), aged))
    BY <1>10 DEF OnWatchStreamChange
  <2> DEFINE s == Handle([State EXCEPT !.server.wire = Tail(@)], Head(server.wire), aged)
  <2>2. client.open /\ server.wire # <<>> /\ db' = db
    BY <1>10 DEF OnWatchStreamChange
  <2>3. Good(s)
    BY <1>0, <2>2, Handles
  <2>4. Informed(db, s)
    BY <1>0, <2>2, HandlesInform
  <2>5. Do(s)
    BY <2>1
  <2> HIDE DEF s
  <2> QED BY <1>1, <2>2, <2>3, <2>4, <2>5
<1>11. CASE DatabaseChanges
  <2>1. State' = State
    BY <1>11 DEF DatabaseChanges, State
  <2> QED BY <1>0, <1>11, <2>1, CommitKeeps, CommitInforms
<1>12. CASE SomethingSent
  <2>1. PICK omits \in BOOLEAN, forgets \in SUBSET Docs, might \in SUBSET Confusable :
          ServerSends(omits, forgets, might)
    BY <1>12 DEF SomethingSent
  <2>2. might \in SUBSET Docs
    BY BoundAssumption
  <2>3. client' = client /\ disk' = disk /\ db' = db
    BY <2>1 DEF ServerSends
  <2>4. Informed(db, [client |-> client, disk |-> disk, server |-> server'])
    BY <1>0, <2>1, <2>2, SendInforms
  <2> QED BY <1>1, <2>3, <2>4
<1>13. CASE ServerResets
  <2>1. client' = client /\ disk' = disk /\ db' = db
    BY <1>13 DEF ServerResets
  <2>2. Informed(db, [client |-> client, disk |-> disk, server |-> server'])
    BY <1>0, <1>13, ResetInforms
  <2> QED BY <1>1, <2>1, <2>2
<1>14. ASSUME NEW t \in LookupIds, ServerRefuses(t) PROVE Informed(db', State')
  <2>1. client' = client /\ disk' = disk /\ db' = db
    BY <1>14 DEF ServerRefuses
  <2>2. Informed(db, [client |-> client, disk |-> disk, server |-> server'])
    BY <1>0, <1>14, RefuseInforms
  <2> QED BY <1>1, <2>1, <2>2
<1> HIDE DEF After
<1> QED BY <1>2, <1>3, <1>4, <1>6, <1>7, <1>8, <1>9, <1>10, <1>11, <1>12, <1>13, <1>14 DEF Next

\* A document that a scan of the cache would find and the view does not show has
\* left the result since it was read: neither the mark of the last snapshot without
\* limbo, nor a listen that is resumed, cut off, reset or refused, makes the view
\* miss what the server has told.
THEOREM NothingIsMissed == ~IsFiniteSet(LookupIds) => (Spec => []NothingMissed)
<1> SUFFICES ASSUME ~IsFiniteSet(LookupIds) PROVE Spec => []NothingMissed
  OBVIOUS
<1> DEFINE Inv == IInv /\ Informed(db, State)
<1>1. Init => Inv
  BY InitGood, InitInformed
<1>2. Inv /\ [Next]_vars => Inv'
  <2> SUFFICES ASSUME Inv, [Next]_vars PROVE Inv'
    OBVIOUS
  <2>1. IInv'
    BY Inductive
  <2>2. CASE UNCHANGED vars
    <3>1. db' = db /\ State' = State
      BY <2>2 DEF vars, State
    <3>2. Informed(db', State')
      BY <3>1
    <3> QED BY <2>1, <3>2
  <2>3. CASE Next
    BY <2>1, <2>3, StepInformed
  <2> QED BY <2>2, <2>3
<1>3. Inv => NothingMissed
  <2> SUFFICES ASSUME Inv PROVE NothingMissed
    OBVIOUS
  <2>1. Complete(db, State) /\ State.client = client /\ State.disk = disk
    BY StateFacts DEF Informed, Covered
  <2> QED BY <2>1 DEF Complete, NothingMissed
<1> HIDE DEF Inv
<1> QED BY <1>1, <1>2, <1>3, PTL DEF Spec
=============================================================================
