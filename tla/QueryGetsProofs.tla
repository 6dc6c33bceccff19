-------------------------- MODULE QueryGetsProofs --------------------------
(***************************************************************************)
(* Proofs about QueryGets, for any queries and any finite number of calls. *)
(***************************************************************************)
EXTENDS QueryGets, SequenceTheorems, FiniteSetTheorems, WellFoundedInduction, TLAPS

TaskRecords == [what : {"add", "remove"}, get : Gets]
EventRecords == [get : Gets, result : {"server", "cache", "error"}]

EventOf(es, g) == \E i \in DOMAIN es : es[i].get = g
AddOf(ts, g) == \E i \in DOMAIN ts : ts[i] = [what |-> "add", get |-> g]
IsOneToOne(s) == \A i, j \in DOMAIN s : s[i] = s[j] => i = j

\* t has elements of s in the order of s.
KeepsOrder(t, s) ==
  \A j \in DOMAIN t : \A i \in 1 .. j - 1 :
    \E n \in DOMAIN s : \E m \in 1 .. n - 1 : s[m] = t[i] /\ s[n] = t[j]

\* t has the elements of s other than e, in the order of s.
OmitsOnly(t, s, e) ==
  \A j \in DOMAIN s : \A i \in 1 .. j - 1 :
    s[i] # e /\ s[j] # e =>
      \E n \in DOMAIN t : \E m \in 1 .. n - 1 : t[m] = s[i] /\ t[n] = s[j]

-----------------------------------------------------------------------------
(* The inductive invariant of the life of a call, of a client c, tasks ts, *)
(* events es, queries qu, muted calls mu and unanswered calls ca.          *)

\* A listener listens once, to the query of its call, and goes on listening
\* without an answer or muted.
ListenersFit(c, qu, mu, ca) ==
  /\ \A q \in Queries : IsOneToOne(c.listeners[q])
  /\ \A q \in Queries : \A g \in ToSet(c.listeners[q]) :
       qu[g] = q /\ (g \in mu \/ g \in ToSet(ca))
  /\ c.raised \subseteq Listeners(c, Queries)

\* A call is without an answer once, and not muted.  It waits for its task, or
\* listens, or its event is on the way, which is so if its listener has raised one.
CallsFit(c, ts, es, qu, mu, ca) ==
  /\ IsOneToOne(ca)
  /\ ToSet(ca) \cap mu = {}
  /\ \A g \in ToSet(ca) :
       /\ qu[g] \in Queries
       /\ AddOf(ts, g) \/ g \in Listeners(c, Queries) \/ EventOf(es, g)
       /\ g \in c.raised => EventOf(es, g)

\* A call has one task at a time.  One that is still to be added has nothing
\* else, one that is to be removed has its answer.
TasksFit(c, ts, es, qu, mu, ca) ==
  /\ \A i, j \in DOMAIN ts : ts[i].get = ts[j].get => i = j
  /\ \A i \in DOMAIN ts :
       LET g == ts[i].get
       IN  /\ qu[g] \in Queries
           /\ IF ts[i].what = "add"
                THEN /\ g \in ToSet(ca) /\ ~EventOf(es, g)
                     /\ g \notin Listeners(c, Queries)
                ELSE g \in mu

\* An event is for a call that waits for it, unless it is muted, and an error is
\* the last one, of a listener that is gone.
EventsFit(c, es, mu, ca) ==
  \A i \in DOMAIN es :
    /\ es[i].get \in mu \/ es[i].get \in ToSet(ca)
    /\ es[i].result = "error" =>
         /\ es[i].get \notin Listeners(c, Queries)
         /\ \A j \in DOMAIN es : j > i => es[j].get # es[i].get

\* Two calls for a query keep their order in the tasks, among the listeners and
\* in the events.
OrderKept(c, ts, es, qu, ca) ==
  \A n \in DOMAIN ca : \A m \in 1 .. n - 1 :
    LET g == ca[m]
        h == ca[n]
    IN  qu[g] = qu[h] =>
          /\ \A j \in DOMAIN ts : ts[j] = [what |-> "add", get |-> g] =>
               \E k \in DOMAIN ts : k > j /\ ts[k] = [what |-> "add", get |-> h]
          /\ h \in Listeners(c, Queries) => Before(c, g, h) \/ EventOf(es, g)
          /\ \A j \in DOMAIN es : es[j].get = h =>
               \E k \in DOMAIN es : k < j /\ es[k].get = g

Life(c, ts, es, qu, mu, ca) ==
  /\ ListenersFit(c, qu, mu, ca)
  /\ CallsFit(c, ts, es, qu, mu, ca)
  /\ TasksFit(c, ts, es, qu, mu, ca)
  /\ EventsFit(c, es, mu, ca)
  /\ OrderKept(c, ts, es, qu, ca)

-----------------------------------------------------------------------------
(* The inductive invariant of the client.                                  *)

\* Who could know an answer has been told it: the listeners of a synced view,
\* and all of them while offline.
Told(c, q) ==
  c.snapshot[q] = "synced" \/ c.online = "Offline" => ToSet(c.listeners[q]) \subseteq c.raised

AllTold(c) == \A q \in Queries : Told(c, q)

\* The targets are those of the queries with listeners.
Targeted(c, targets) == \A q \in Queries : q \in targets <=> c.listeners[q] # <<>>

Timed(c) ==
  /\ c.timer => c.online = "Unknown"
  /\ c.online = "Online" => c.failures = 0

Sound(c) ==
  /\ CallbacksFit(c.stream)
  /\ c.stream.idle => c.targets = {}
  /\ Timed(c)
  /\ Targeted(c, c.targets)
  /\ c.sent \subseteq c.targets

IInv ==
  /\ TypeOK
  /\ Sound(client)
  /\ AllTold(client)
  /\ Life(client, tasks, events, query, muted, calls)
  /\ ~again

-----------------------------------------------------------------------------
(* Sequences.                                                              *)

LEMMA LeastNumber ==
  ASSUME NEW T \in SUBSET Nat, T # {}
  PROVE  \E n \in T : \A m \in T : n <= m
<1>1. PICK n \in T : \A m \in T : ~ (<<m, n>> \in OpToRel(<, Nat))
  BY WFMin, NatLessThanWellFounded, Zenon
<1>2. \A m \in T : ~ (m < n)
  BY <1>1, Zenon DEF OpToRel
<1> QED BY <1>2

\* What RemoveFirst leaves of a sequence without repetition.
LEMMA RemoveFirstFacts ==
  ASSUME NEW S, NEW s \in Seq(S), NEW e, IsOneToOne(s)
  PROVE  LET t == RemoveFirst(s, e)
         IN  /\ t \in Seq(S) /\ IsOneToOne(t)
             /\ ToSet(t) = ToSet(s) \ {e}
             /\ KeepsOrder(t, s)
             /\ OmitsOnly(t, s, e)
<1> DEFINE t == RemoveFirst(s, e)
<1>1. CASE ~ \E i \in 1 .. Len(s) : s[i] = e
  <2>1. RemoveFirst(s, e) = s
    BY <1>1 DEF RemoveFirst
  <2>2. DOMAIN s = 1 .. Len(s) /\ Len(s) \in Nat
    OBVIOUS
  <2>3. ToSet(s) \ {e} = ToSet(s)
    BY <1>1, <2>2 DEF ToSet
  <2>4. KeepsOrder(s, s)
    BY DEF KeepsOrder
  <2>5. OmitsOnly(s, s, e)
    BY DEF OmitsOnly
  <2> QED BY <2>1, <2>3, <2>4, <2>5
<1>2. CASE \E i \in 1 .. Len(s) : s[i] = e
  <2> DEFINE I == {i \in 1 .. Len(s) : s[i] = e}
             k == Min(I)
  <2>1. I \in SUBSET Nat /\ I # {}
    BY <1>2
  <2>2. k \in I
    BY <2>1, LeastNumber DEF Min
  <2>3. k \in 1 .. Len(s) /\ s[k] = e
    BY <2>2
  <2>4. t = SubSeq(s, 1, k - 1) \o SubSeq(s, k + 1, Len(s))
    BY <1>2 DEF RemoveFirst, RemoveAt, SelectInSeq
  <2> HIDE DEF k, t
  <2> DEFINE u == SubSeq(s, 1, k - 1)
             v == SubSeq(s, k + 1, Len(s))
  <2>4a. u \in Seq(S) /\ Len(u) = k - 1 /\ \A i \in 1 .. k - 1 : u[i] = s[i]
    BY <2>3
  <2>4b. v \in Seq(S) /\ Len(v) = Len(s) - k /\ \A i \in 1 .. Len(s) - k : v[i] = s[i + k]
    <3>1. k + 1 \in 1 .. Len(s) + 1 /\ Len(s) \in k .. Len(s)
      BY <2>3
    <3> QED BY <3>1, SubSeqProperties, <2>3
  <2>4c. t = u \o v
    BY <2>4
  <2> HIDE DEF u, v
  <2>5. t \in Seq(S) /\ Len(t) = Len(s) - 1
    <3>1. t \in Seq(S) /\ Len(t) = Len(u) + Len(v)
      BY <2>4a, <2>4b, <2>4c, ConcatProperties
    <3> QED BY <3>1, <2>3, <2>4a, <2>4b
  <2>6. \A i \in 1 .. Len(t) : t[i] = IF i < k THEN s[i] ELSE s[i + 1]
    <3> SUFFICES ASSUME NEW i \in 1 .. Len(t)
                 PROVE  t[i] = IF i < k THEN s[i] ELSE s[i + 1]
      OBVIOUS
    <3>1. CASE i < k
      BY <3>1, <2>3, <2>4a, <2>4b, <2>4c, <2>5
    <3>2. CASE ~(i < k)
      <4>1. t[i] = v[i - (k - 1)] /\ i - (k - 1) \in 1 .. Len(s) - k
        BY <3>2, <2>3, <2>4a, <2>4b, <2>4c, <2>5
      <4>2. i - (k - 1) + k = i + 1
        BY <2>3, <2>5
      <4> QED BY <3>2, <4>1, <4>2, <2>4b
    <3> QED BY <3>1, <3>2
  <2>7. \A i \in DOMAIN s : s[i] = e <=> i = k
    BY <2>3 DEF IsOneToOne
  <2>8. DOMAIN t = 1 .. Len(s) - 1 /\ DOMAIN s = 1 .. Len(s) /\ Len(s) \in Nat
    BY <2>5
  <2> DEFINE in(i) == IF i < k THEN i ELSE i + 1
             out(i) == IF i < k THEN i ELSE i - 1
  <2>9. \A i \in DOMAIN t : in(i) \in DOMAIN s /\ in(i) # k /\ t[i] = s[in(i)]
    BY <2>3, <2>5, <2>6, <2>8
  <2>10. \A i \in DOMAIN s : i # k => out(i) \in DOMAIN t /\ t[out(i)] = s[i]
    BY <2>3, <2>5, <2>6, <2>8
  <2>11. IsOneToOne(t)
    <3> SUFFICES ASSUME NEW i \in DOMAIN t, NEW j \in DOMAIN t, t[i] = t[j]
                 PROVE  i = j
      BY DEF IsOneToOne
    <3>1. in(i) = in(j)
      BY <2>9 DEF IsOneToOne
    <3> QED BY <3>1, <2>3, <2>8
  <2>12. ToSet(t) = ToSet(s) \ {e}
    BY <2>7, <2>9, <2>10 DEF ToSet
  <2>13. KeepsOrder(t, s)
    <3> SUFFICES ASSUME NEW j \in DOMAIN t, NEW i \in 1 .. j - 1
                 PROVE  \E n \in DOMAIN s : \E m \in 1 .. n - 1 : s[m] = t[i] /\ s[n] = t[j]
      BY DEF KeepsOrder
    <3>1. i \in DOMAIN t /\ in(i) \in 1 .. in(j) - 1
      BY <2>3, <2>8
    <3> QED BY <3>1, <2>9
  <2>14. OmitsOnly(t, s, e)
    <3> SUFFICES ASSUME NEW j \in DOMAIN s, NEW i \in 1 .. j - 1, s[i] # e, s[j] # e
                 PROVE  \E n \in DOMAIN t : \E m \in 1 .. n - 1 : t[m] = s[i] /\ t[n] = s[j]
      BY DEF OmitsOnly
    <3>1. i \in DOMAIN s /\ i # k /\ j # k
      BY <2>3, <2>8
    <3>2. out(i) \in 1 .. out(j) - 1
      BY <3>1, <2>3, <2>8
    <3>3. /\ out(j) \in DOMAIN t /\ t[out(j)] = s[j]
          /\ t[out(i)] = s[i]
      BY <3>1, <2>10
    <3> HIDE DEF out
    <3> QED BY <3>2, <3>3
  <2> QED BY <2>5, <2>11, <2>12, <2>13, <2>14 DEF t
<1> QED BY <1>1, <1>2

-----------------------------------------------------------------------------
(* The order of events.                                                    *)

\* Listeners, each of one query and there once.
WellListed(c) ==
  /\ c.listeners \in [Queries -> Seq(Gets)]
  /\ \A q \in Queries : IsOneToOne(c.listeners[q])
  /\ \A p, q \in Queries : \A g \in ToSet(c.listeners[p]) : g \in ToSet(c.listeners[q]) => p = q

Ordered(c, s) == \A j \in DOMAIN s : \A i \in 1 .. j - 1 : ~Before(c, s[j], s[i])

\* Among some listeners there is one that none of them comes after.
LEMMA SomeLast ==
  ASSUME NEW c, WellListed(c), NEW T \in SUBSET Listeners(c, Queries), T # {}
  PROVE  \E g \in T : \A h \in T : ~Before(c, g, h)
<1>1. PICK q \in Queries : \E g \in T : g \in ToSet(c.listeners[q])
  BY DEF Listeners
<1> DEFINE s == c.listeners[q]
           D == {Len(s) - i : i \in {j \in DOMAIN s : s[j] \in T}}
<1>2. s \in Seq(Gets)
  BY DEF WellListed
<1>3. D \in SUBSET Nat /\ D # {}
  <2>1. \A i \in DOMAIN s : Len(s) - i \in Nat
    BY <1>2
  <2>2. \E i \in DOMAIN s : s[i] \in T
    BY <1>1 DEF ToSet
  <2> QED BY <2>1, <2>2
<1>4. PICK n \in D : \A m \in D : n <= m
  BY <1>3, LeastNumber
<1>5. PICK i \in DOMAIN s : s[i] \in T /\ n = Len(s) - i
  BY <1>4
<1>6. \A j \in DOMAIN s : s[j] \in T => j <= i
  <2>1. \A j \in DOMAIN s : s[j] \in T => Len(s) - i <= Len(s) - j
    BY <1>4, <1>5
  <2>2. DOMAIN s = 1 .. Len(s) /\ Len(s) \in Nat
    BY <1>2
  <2> HIDE DEF s
  <2> QED BY <2>1, <2>2
<1>7. ASSUME NEW h \in T, Before(c, s[i], h) PROVE FALSE
  <2>1. PICK p \in Queries : \E k \in DOMAIN c.listeners[p] : \E j \in 1 .. k - 1 :
          c.listeners[p][j] = s[i] /\ c.listeners[p][k] = h
    BY <1>7 DEF Before
  <2> PICK k \in DOMAIN c.listeners[p] : \E j \in 1 .. k - 1 :
         c.listeners[p][j] = s[i] /\ c.listeners[p][k] = h
    BY <2>1
  <2>1a. PICK j \in 1 .. k - 1 : c.listeners[p][j] = s[i] /\ c.listeners[p][k] = h
    OBVIOUS
  <2>2. c.listeners[p] \in Seq(Gets)
    BY DEF WellListed
  <2>3. j \in DOMAIN c.listeners[p] /\ j < k
    BY <2>1a, <2>2
  <2>4. p = q
    <3>1. s[i] \in ToSet(c.listeners[q]) /\ s[i] \in ToSet(c.listeners[p])
      BY <2>1a, <2>3 DEF ToSet
    <3> QED BY <3>1 DEF WellListed
  <2>5. j = i
    BY <2>1a, <2>3, <2>4, <1>5 DEF WellListed, IsOneToOne
  <2> QED BY <2>1a, <2>3, <2>4, <2>5, <1>2, <1>6
<1> QED BY <1>5, <1>7

\* So any of them can be put in order.
LEMMA CanBeOrdered ==
  ASSUME NEW c, WellListed(c), NEW gets \in SUBSET Listeners(c, Queries)
  PROVE  \E s \in SetToSeqs(gets) : Ordered(c, s)
<1> DEFINE Good(T) == \E s \in SetToSeqs(T) : Ordered(c, s)
           Bad == {T \in SUBSET Listeners(c, Queries) : ~Good(T)}
<1>1. IsFiniteSet(Listeners(c, Queries))
  <2>1. Listeners(c, Queries) \subseteq Gets
    BY DEF Listeners, ToSet, WellListed
  <2> QED BY <2>1, GetsAssumption, FS_Subset
<1>2. SUFFICES ASSUME Bad # {} PROVE FALSE
  BY Zenon
<1> DEFINE L == Listeners(c, Queries)
<1>3. IsWellFoundedOn(StrictSubsetOrdering(L), SUBSET L)
  BY <1>1, FS_StrictSubsetOrderingWellFounded, FS_FiniteSubsetsOfFinite, Zenon
<1>4. PICK T \in Bad : \A U \in Bad : ~ (<<U, T>> \in StrictSubsetOrdering(L))
  <2>1. Bad \subseteq SUBSET L
    BY Zenon
  <2> HIDE DEF Bad
  <2> QED BY <1>2, <1>3, <2>1, WFMin, Zenon
<1>5. T \in SUBSET L /\ ~Good(T)
  BY <1>4, Zenon
<1>6. \A U \in SUBSET T : U # T => Good(U)
  BY <1>4, <1>5 DEF StrictSubsetOrdering
<1>7. T # {}
  <2>1. <<>> \in SetToSeqs({})
    BY FS_EmptySet DEF SetToSeqs
  <2>2. Ordered(c, <<>>)
    BY DEF Ordered
  <2> QED BY <2>1, <2>2, <1>5
<1>8. PICK g \in T : \A h \in T : ~Before(c, g, h)
  BY <1>5, <1>7, SomeLast
<1>9. PICK s \in SetToSeqs(T \ {g}) : Ordered(c, s)
  BY <1>6
<1>10. IsFiniteSet(T)
  BY <1>1, <1>5, FS_Subset
<1> DEFINE n == Cardinality(T \ {g})
           t == [i \in 1 .. n + 1 |-> IF i = n + 1 THEN g ELSE s[i]]
<1>11. n \in Nat /\ Cardinality(T) = n + 1
  <2>1. IsFiniteSet(T \ {g}) /\ n = Cardinality(T) - 1
    BY <1>10, FS_RemoveElement
  <2>2. n \in Nat /\ Cardinality(T) \in Nat
    BY <2>1, <1>10, FS_CardinalityType
  <2> QED BY <2>1, <2>2
<1>12. s \in [1 .. n -> T \ {g}] /\ \A i, j \in 1 .. n : i # j => s[i] # s[j]
  BY DEF SetToSeqs
<1> HIDE DEF n, Good
<1>13. t \in [1 .. n + 1 -> T] /\ \A i, j \in 1 .. n + 1 : i # j => t[i] # t[j]
  BY <1>11, <1>12
<1>14. t \in SetToSeqs(T)
  BY <1>11, <1>13 DEF SetToSeqs
<1>15. Ordered(c, t)
  <2> SUFFICES ASSUME NEW j \in 1 .. n + 1, NEW i \in 1 .. j - 1
               PROVE  ~Before(c, t[j], t[i])
    BY DEF Ordered
  <2>1. CASE j = n + 1
    BY <2>1, <1>8, <1>11, <1>13
  <2>2. CASE j # n + 1
    <3>1. j \in DOMAIN s /\ t[j] = s[j] /\ t[i] = s[i]
      BY <2>2, <1>11, <1>12
    <3> QED BY <3>1, <1>9 DEF Ordered
  <2> QED BY <2>1, <2>2
<1> QED BY <1>5, <1>14, <1>15 DEF Good

\* What InOrder returns.
LEMMA InOrderFacts ==
  ASSUME NEW c, WellListed(c), NEW gets \in SUBSET Listeners(c, Queries)
  PROVE  LET s == InOrder(c, gets)
         IN  /\ s \in Seq(gets) /\ IsOneToOne(s)
             /\ ToSet(s) = gets
             /\ \A j \in DOMAIN s : \A i \in 1 .. j - 1 : ~Before(c, s[j], s[i])
<1> DEFINE s == InOrder(c, gets)
           n == Cardinality(gets)
<1>1. s \in SetToSeqs(gets) /\ Ordered(c, s)
  BY CanBeOrdered DEF InOrder, Ordered
<1>2. IsFiniteSet(gets)
  <2>1. Listeners(c, Queries) \subseteq Gets
    BY DEF Listeners, ToSet, WellListed
  <2> QED BY <2>1, GetsAssumption, FS_Subset
<1>3. n \in Nat
  BY <1>2, FS_CardinalityType
<1> HIDE DEF s
<1>4. s \in [1 .. n -> gets] /\ \A i, j \in 1 .. n : i # j => s[i] # s[j]
  BY <1>1 DEF SetToSeqs
<1>5. \A g \in gets : \E i \in 1 .. n : s[i] = g
  <2>1. s \in Injection(1 .. n, gets)
    BY <1>4 DEF Injection, IsInjective
  <2>2. IsFiniteSet(1 .. n) /\ Cardinality(1 .. n) = n
    BY <1>3, FS_Interval
  <2>3. s \in Surjection(1 .. n, gets)
    BY <2>1, <2>2, <1>2, FS_Injection, Zenon
  <2> QED BY <2>3 DEF Surjection
<1>6. s \in Seq(gets) /\ DOMAIN s = 1 .. n
  <2> HIDE DEF n
  <2>1. DOMAIN s = 1 .. n
    BY <1>4
  <2>2. s = [i \in 1 .. n |-> s[i]] /\ \A i \in 1 .. n : s[i] \in gets
    BY <1>4
  <2>3. [i \in 1 .. n |-> s[i]] \in Seq(gets)
    BY <2>2, <1>3
  <2> QED BY <2>1, <2>2, <2>3, Zenon
<1> QED BY <1>1, <1>4, <1>5, <1>6 DEF s, ToSet, IsOneToOne, Ordered

-----------------------------------------------------------------------------
(* What a step of the client has raised.                                   *)

Steps == [client : Clients, raised : Seq(EventRecords)]

\* s is a step from c that has told some of the listeners of c, none before
\* the ones that came earlier, unless those had been told by then.
Raised(c, s) ==
  /\ s \in Steps
  /\ s.client.listeners = c.listeners
  /\ s.client.raised = c.raised \cup {s.raised[k].get : k \in DOMAIN s.raised}
  /\ \A k \in DOMAIN s.raised :
       s.raised[k].get \in Listeners(c, Queries) /\ s.raised[k].result # "error"
  /\ \A k \in DOMAIN s.raised : \A g \in Gets :
       Before(c, g, s.raised[k].get) =>
         g \in c.raised \/ \E l \in DOMAIN s.raised : l < k /\ s.raised[l].get = g

NoCache(es) == \A k \in DOMAIN es : es[k].result # "cache"

LEMMA StepRaises ==
  ASSUME NEW c \in Clients
  PROVE  Raised(c, Step(c))
  BY DEF Raised, Step, Steps

LEMMA BeforeListens ==
  ASSUME NEW c, WellListed(c), NEW g, NEW h, Before(c, g, h)
  PROVE  \E q \in Queries : g \in ToSet(c.listeners[q]) /\ h \in ToSet(c.listeners[q])
<1>1. PICK q \in Queries : \E j \in DOMAIN c.listeners[q] : \E i \in 1 .. j - 1 :
        c.listeners[q][i] = g /\ c.listeners[q][j] = h
  BY DEF Before
<1>2. c.listeners[q] \in Seq(Gets)
  BY DEF WellListed
<1>3. PICK j \in DOMAIN c.listeners[q] : \E i \in 1 .. j - 1 :
        c.listeners[q][i] = g /\ c.listeners[q][j] = h
  BY <1>1
<1>4. PICK i \in 1 .. j - 1 : c.listeners[q][i] = g /\ c.listeners[q][j] = h
  BY <1>3
<1>5. i \in DOMAIN c.listeners[q]
  BY <1>2
<1> QED BY <1>4, <1>5 DEF ToSet

\* To tell some listeners goes on that way if none is left out that came earlier
\* than one of them.
LEMMA NotifyRaises ==
  ASSUME NEW c, NEW s, NEW result \in {"server", "cache"},
         WellListed(c), Raised(c, s),
         NEW gets \in SUBSET Listeners(c, Queries),
         \A h \in gets : \A g \in Gets :
           Before(c, g, h) => g \in s.client.raised \/ g \in gets
  PROVE  LET t == Notify(s, gets, result)
         IN  /\ Raised(c, t)
             /\ t.client = [s.client EXCEPT !.raised = @ \cup gets]
             /\ result = "server" /\ NoCache(s.raised) => NoCache(t.raised)
<1> DEFINE t == Notify(s, gets, result)
           u == InOrder(s.client, gets)
           es == Events(u, result)
<1>1. s \in Steps /\ s.client \in Clients /\ s.raised \in Seq(EventRecords)
  BY DEF Raised, Steps
<1>2. CASE gets = {}
  <2>1. t = s
    BY <1>2 DEF Notify
  <2>2. s.client = [s.client EXCEPT !.raised = @ \cup gets]
    BY <1>1, <1>2 DEF Clients
  <2> QED BY <2>1, <2>2
<1>3. CASE gets # {}
  <2>1. t = [client |-> [s.client EXCEPT !.raised = @ \cup gets], raised |-> s.raised \o es]
    BY <1>3 DEF Notify
  <2>2. s.client.listeners = c.listeners
    BY DEF Raised
  <2>3. WellListed(s.client) /\ Listeners(s.client, Queries) = Listeners(c, Queries)
    BY <2>2 DEF WellListed, Listeners
  <2>4. \A g, h : Before(s.client, g, h) <=> Before(c, g, h)
    BY <2>2 DEF Before
  <2>5. gets \subseteq Gets
    BY DEF Listeners, ToSet, WellListed
  <2>6. /\ u \in Seq(gets) /\ ToSet(u) = gets
        /\ \A j \in DOMAIN u : \A i \in 1 .. j - 1 : ~Before(c, u[j], u[i])
    BY <2>3, <2>4, InOrderFacts
  <2>7. /\ es \in Seq(EventRecords) /\ Len(es) = Len(u)
        /\ \A k \in 1 .. Len(u) : es[k].get = u[k] /\ es[k].result = result
    <3> HIDE DEF u
    <3>1. \A k \in 1 .. Len(u) : [get |-> u[k], result |-> result] \in EventRecords
      BY <2>5, <2>6 DEF EventRecords
    <3> QED BY <3>1, <2>6 DEF Events
  <2> HIDE DEF t, u, es
  <2> DEFINE n == Len(s.raised)
             m == Len(u)
  <2>8. /\ t.client = [s.client EXCEPT !.raised = @ \cup gets] /\ t.raised = s.raised \o es
        /\ t = [client |-> t.client, raised |-> t.raised]
    BY <2>1
  <2>9. /\ n \in Nat /\ m \in Nat
        /\ t.raised \in Seq(EventRecords)
        /\ DOMAIN t.raised = 1 .. n + m /\ DOMAIN s.raised = 1 .. n /\ DOMAIN u = 1 .. m
        /\ \A k \in 1 .. n : t.raised[k] = s.raised[k]
        /\ \A k \in 1 .. m : t.raised[n + k] = es[k]
    <3>1. n \in Nat /\ m \in Nat /\ DOMAIN s.raised = 1 .. n /\ DOMAIN u = 1 .. m /\ Len(es) = m
      BY <1>1, <2>6, <2>7
    <3>2. /\ t.raised \in Seq(EventRecords) /\ Len(t.raised) = n + m
          /\ \A k \in 1 .. n + m :
               t.raised[k] = IF k <= n THEN s.raised[k] ELSE es[k - n]
      <4> DEFINE w == s.raised \o es
      <4>1. /\ w \in Seq(EventRecords) /\ Len(w) = Len(s.raised) + Len(es)
            /\ \A k \in 1 .. Len(s.raised) + Len(es) :
                 w[k] = IF k <= Len(s.raised) THEN s.raised[k] ELSE es[k - Len(s.raised)]
        <5>1. es \in Seq(EventRecords)
          BY <2>7
        <5> QED BY <5>1, <1>1, ConcatProperties, Zenon
      <4>2. t.raised = w
        BY <2>8
      <4> HIDE DEF w
      <4> QED BY <4>1, <4>2, <3>1
    <3> HIDE DEF n, m
    <3>3. \A k \in 1 .. m : n + k \in 1 .. n + m /\ ~(n + k <= n) /\ n + k - n = k
      BY <3>1
    <3>4. \A k \in 1 .. n : k \in 1 .. n + m /\ k <= n
      BY <3>1
    <3> QED BY <3>1, <3>2, <3>3, <3>4
  <2> HIDE DEF n, m
  <2>10. \A k \in DOMAIN t.raised : k \in 1 .. n \/ (k - n \in 1 .. m /\ k = n + (k - n))
    BY <2>9
  <2>11. t.client \in Clients /\ t.client.raised = s.client.raised \cup gets
         /\ t.client.listeners = c.listeners
    BY <1>1, <2>2, <2>5, <2>8 DEF Clients
  <2>12. {t.raised[k].get : k \in DOMAIN t.raised}
           = {s.raised[k].get : k \in DOMAIN s.raised} \cup gets
    <3>1. \A k \in 1 .. m : t.raised[n + k].get = u[k] /\ n + k \in DOMAIN t.raised
      <4>1. \A k \in 1 .. m : n + k \in 1 .. n + m
        BY <2>9
      <4> QED BY <4>1, <2>7, <2>9 DEF m
    <3>2. gets = {u[k] : k \in 1 .. m}
      BY <2>6, <2>9 DEF ToSet
    <3>3. \A k \in 1 .. n : k \in DOMAIN t.raised
      BY <2>9
    <3> DEFINE A == {t.raised[k].get : k \in DOMAIN t.raised}
               B == {s.raised[k].get : k \in DOMAIN s.raised}
    <3>4. ASSUME NEW x \in A PROVE x \in B \cup gets
      BY <3>1, <3>2, <2>9, <2>10
    <3>5. gets \subseteq A
      BY <3>1, <3>2
    <3>6. B \subseteq A
      BY <3>3, <2>9
    <3> QED BY <3>4, <3>5, <3>6
  <2>13. \A k \in DOMAIN t.raised :
           t.raised[k].get \in Listeners(c, Queries) /\ t.raised[k].result # "error"
    <3>1. \A k \in 1 .. m : t.raised[n + k].get = u[k] /\ t.raised[n + k].result = result
      BY <2>7, <2>9 DEF m
    <3>2. \A k \in 1 .. m : u[k] \in gets
      BY <2>6, <2>9 DEF ToSet
    <3>3. \A k \in 1 .. n :
            s.raised[k].get \in Listeners(c, Queries) /\ s.raised[k].result # "error"
      BY <2>9 DEF Raised
    <3> QED BY <3>1, <3>2, <3>3, <2>9, <2>10
  <2>14. ASSUME NEW k \in DOMAIN t.raised, NEW g \in Gets, Before(c, g, t.raised[k].get)
         PROVE  g \in c.raised \/ \E l \in DOMAIN t.raised : l < k /\ t.raised[l].get = g
    <3>1. CASE k \in 1 .. n
      <4>1. g \in c.raised \/ \E l \in DOMAIN s.raised : l < k /\ s.raised[l].get = g
        BY <2>9, <2>14, <3>1 DEF Raised
      <4> QED BY <4>1, <2>9
    <3>2. CASE k \notin 1 .. n
      <4>1. k - n \in 1 .. m /\ t.raised[k].get = u[k - n]
        BY <3>2, <2>7, <2>9, <2>10 DEF m
      <4>2. u[k - n] \in gets
        BY <4>1, <2>6, <2>9 DEF ToSet
      <4>3. CASE g \in gets
        <5>1. PICK j \in 1 .. m : u[j] = g
          BY <4>3, <2>6, <2>9 DEF ToSet
        <5>2. j < k - n
          <6>1. ~ (k - n \in 1 .. j - 1)
            BY <2>6, <2>9, <2>14, <4>1, <5>1
          <6>2. j # k - n
            <7>1. ASSUME Before(c, g, g) PROVE FALSE
              <8>1. PICK q \in Queries : \E b \in DOMAIN c.listeners[q] : \E a \in 1 .. b - 1 :
                      c.listeners[q][a] = g /\ c.listeners[q][b] = g
                BY <7>1 DEF Before
              <8>2. c.listeners[q] \in Seq(Gets) /\ IsOneToOne(c.listeners[q])
                BY DEF WellListed
              <8> QED BY <8>1, <8>2 DEF IsOneToOne
            <7> QED BY <7>1, <2>14, <4>1, <5>1
          <6> QED BY <6>1, <6>2, <4>1, <2>9
        <5>3. n + j \in 1 .. n + m /\ n + j < k
          BY <5>1, <5>2, <4>1, <2>9
        <5>4. n + j \in DOMAIN t.raised /\ t.raised[n + j].get = g
          BY <5>1, <5>3, <2>7, <2>9 DEF m
        <5> QED BY <5>3, <5>4
      <4>4. CASE g \notin gets
        <5>1. g \in s.client.raised
          BY <4>1, <4>2, <4>4, <2>14
        <5>2. g \in c.raised \/ \E l \in DOMAIN s.raised : s.raised[l].get = g
          BY <5>1 DEF Raised
        <5>3. \A l \in DOMAIN s.raised : l < k /\ l \in DOMAIN t.raised /\ t.raised[l] = s.raised[l]
          BY <2>9, <3>2
        <5> QED BY <5>2, <5>3
      <4> QED BY <4>3, <4>4
    <3> QED BY <3>1, <3>2
  <2>15. result = "server" /\ NoCache(s.raised) => NoCache(t.raised)
    <3>1. \A k \in 1 .. m : t.raised[n + k].result = result
      BY <2>7, <2>9 DEF m
    <3> QED BY <3>1, <2>9, <2>10 DEF NoCache
  <2>16. t \in Steps
    BY <2>8, <2>9, <2>11 DEF Steps
  <2>17. t.client.raised = c.raised \cup {t.raised[k].get : k \in DOMAIN t.raised}
    BY <2>11, <2>12 DEF Raised
  <2>18. Raised(c, t)
    BY <2>11, <2>13, <2>14, <2>16, <2>17 DEF Raised
  <2> QED BY <2>8, <2>15, <2>18 DEF t
<1> QED BY <1>2, <1>3

LEMMA QuietStep ==
  ASSUME NEW c, NEW s, Raised(c, s), NEW t \in Steps, t.raised = s.raised,
         t.client.listeners = s.client.listeners, t.client.raised = s.client.raised
  PROVE  Raised(c, t)
  BY DEF Raised

\* What telling listeners does not change.
SameButTold(c, d) ==
  /\ c.online = d.online /\ c.failures = d.failures /\ c.timer = d.timer
  /\ c.stream = d.stream /\ c.targets = d.targets /\ c.sent = d.sent
  /\ c.written = d.written /\ c.listeners = d.listeners

\* All listeners of q wait for more than a snapshot in this sync state.
Waiting(c, q, sync) == \A g \in ToSet(c.listeners[q]) : ~Raises(c, g, sync)

LEMMA ViewSnapshotRaises ==
  ASSUME NEW c, NEW s, NEW q \in Queries, NEW sync \in {"local", "synced"},
         WellListed(c), Raised(c, s),
         \/ sync = "synced"
         \/ \A g \in Gets : \A h \in ToSet(c.listeners[q]) : ~Before(c, g, h),
         \A p \in Queries \ {q} : Told(s.client, p),
         NEW t, t = OnViewSnapshot(s, q, sync)
  PROVE  /\ Raised(c, t) /\ AllTold(t.client)
         /\ SameButTold(t.client, s.client)
         /\ sync = "synced" /\ NoCache(s.raised) => NoCache(t.raised)
<1> DEFINE v == [s EXCEPT !.client.snapshot[q] = sync]
           gets == {g \in ToSet(s.client.listeners[q]) : Raises(s.client, g, sync)}
           result == IF sync = "synced" THEN "server" ELSE "cache"
<1>1. s \in Steps /\ s.client \in Clients /\ s.client.listeners = c.listeners
  BY DEF Raised, Steps
<1>2. /\ v \in Steps /\ v.raised = s.raised
      /\ v.client = [s.client EXCEPT !.snapshot = [@ EXCEPT ![q] = sync]]
  BY <1>1 DEF Steps, Clients
<1>3. /\ v.client.listeners = s.client.listeners /\ v.client.raised = s.client.raised
      /\ v.client.online = s.client.online
      /\ v.client.snapshot = [s.client.snapshot EXCEPT ![q] = sync]
  <2> DEFINE f == [s.client.snapshot EXCEPT ![q] = sync]
  <2>1. v.client = [s.client EXCEPT !.snapshot = f]
    BY <1>2
  <2> HIDE DEF f, v
  <2>2. v.client.listeners = s.client.listeners /\ v.client.raised = s.client.raised
        /\ v.client.online = s.client.online /\ v.client.snapshot = f
    BY <2>1, <1>1 DEF Clients
  <2> QED BY <2>2 DEF f
<1>4. Raised(c, v)
  BY <1>2, <1>3, QuietStep
<1>5. gets \in SUBSET Listeners(c, Queries)
  BY <1>1 DEF Listeners
<1>6. ASSUME NEW h \in gets, NEW g \in Gets, Before(c, g, h) PROVE g \in gets
  <2>1. sync = "synced"
    BY <1>1, <1>6
  <2>2. PICK p \in Queries : g \in ToSet(c.listeners[p]) /\ h \in ToSet(c.listeners[p])
    BY <1>6, BeforeListens
  <2>3. p = q
    BY <2>2, <1>1, <1>6 DEF WellListed
  <2> QED BY <2>1, <2>2, <2>3, <1>1 DEF Raises
<1>7. t = Notify(v, gets, result) /\ result \in {"server", "cache"}
  BY DEF OnViewSnapshot
<1> HIDE DEF v, gets, result
<1>8. /\ Raised(c, t)
      /\ t.client = [v.client EXCEPT !.raised = @ \cup gets]
      /\ result = "server" /\ NoCache(v.raised) => NoCache(t.raised)
  BY <1>4, <1>5, <1>6, <1>7, NotifyRaises
<1>9. /\ t.client.raised = s.client.raised \cup gets
      /\ t.client.listeners = c.listeners /\ t.client.online = s.client.online
      /\ t.client.snapshot = [s.client.snapshot EXCEPT ![q] = sync]
      /\ SameButTold(t.client, s.client)
  BY <1>1, <1>2, <1>3, <1>8 DEF Clients, SameButTold
<1>10. AllTold(t.client)
  <2> SUFFICES ASSUME NEW p \in Queries PROVE Told(t.client, p)
    BY DEF AllTold
  <2>1. CASE p = q
    BY <2>1, <1>1, <1>9 DEF Told, gets, Raises, Clients
  <2>2. CASE p # q
    BY <2>2, <1>1, <1>9 DEF Told, Clients
  <2> QED BY <2>1, <2>2
<1>11. sync = "synced" /\ NoCache(s.raised) => NoCache(t.raised)
  BY <1>2, <1>8 DEF result
<1> QED BY <1>8, <1>9, <1>10, <1>11

LEMMA NobodyTold ==
  ASSUME NEW s \in Steps, NEW q \in Queries, NEW sync \in {"local", "synced"},
         Waiting(s.client, q, sync)
  PROVE  OnViewSnapshot(s, q, sync).raised = s.raised
<1> DEFINE v == [s EXCEPT !.client.snapshot[q] = sync]
           gets == {g \in ToSet(s.client.listeners[q]) : Raises(s.client, g, sync)}
           result == IF sync = "synced" THEN "server" ELSE "cache"
<1>1. v.raised = s.raised
  BY DEF Steps
<1>2. gets = {}
  BY DEF Waiting
<1>3. OnViewSnapshot(s, q, sync) = Notify(v, gets, result)
  BY DEF OnViewSnapshot
<1> HIDE DEF v, gets, result
<1> QED BY <1>1, <1>2, <1>3 DEF Notify

\* A new online state is told to the listeners when it is the end of waiting.
LEMMA BroadcastRaises ==
  ASSUME NEW c, NEW s, NEW state \in {"Unknown", "Online", "Offline"},
         WellListed(c), c.raised \subseteq Listeners(c, Queries),
         Raised(c, s), AllTold(s.client)
  PROVE  LET t == SetAndBroadcast(s, state)
         IN  /\ Raised(c, t) /\ AllTold(t.client)
             /\ t.client = [s.client EXCEPT !.online = state,
                                            !.snapshot = t.client.snapshot,
                                            !.raised = t.client.raised]
             /\ state # "Offline" => t = [s EXCEPT !.client.online = state]
<1> DEFINE t == SetAndBroadcast(s, state)
           told == [s EXCEPT !.client.online = state]
<1>1. /\ s \in Steps /\ s.client \in Clients /\ s.client.listeners = c.listeners
      /\ s = [client |-> s.client, raised |-> s.raised]
  BY DEF Raised, Steps
<1>2. CASE state = s.client.online
  <2>1. t = s /\ told = s /\ s.client = [s.client EXCEPT !.online = state,
                                            !.snapshot = s.client.snapshot,
                                            !.raised = s.client.raised]
    BY <1>1, <1>2 DEF SetAndBroadcast, Clients
  <2> QED BY <2>1
<1>3. CASE state # s.client.online /\ state # "Offline"
  <2>1. t = told
    BY <1>3 DEF SetAndBroadcast
  <2>2. /\ told \in Steps /\ told.raised = s.raised
        /\ told.client = [s.client EXCEPT !.online = state]
    BY <1>1 DEF Steps, Clients
  <2>3. /\ told.client.listeners = s.client.listeners /\ told.client.raised = s.client.raised
        /\ told.client.snapshot = s.client.snapshot /\ told.client.online = state
    BY <1>1, <2>2 DEF Clients
  <2>4. Raised(c, told)
    BY <2>2, <2>3, QuietStep
  <2>5. AllTold(told.client)
    BY <1>3, <2>3 DEF AllTold, Told
  <2>6. told.client = [s.client EXCEPT !.online = state,
                                       !.snapshot = told.client.snapshot,
                                       !.raised = told.client.raised]
    BY <1>1, <2>2 DEF Clients
  <2> QED BY <1>3, <2>1, <2>4, <2>5, <2>6
<1>4. CASE state # s.client.online /\ state = "Offline"
  <2> DEFINE synced == {q \in Queries : s.client.snapshot[q] = "synced"}
             v == [s EXCEPT !.client.snapshot =
                     [q \in Queries |-> IF q \in synced THEN "local" ELSE @[q]]]
             gets == {g \in Listeners(s.client, synced) : Raises(s.client, g, "local")}
             views == ViewsGoOffline(s)
             w == [views EXCEPT !.client.online = state]
             rest == Listeners(w.client, Queries) \ w.client.raised
  <2>1. t = ListenersGoOffline(w)
    BY <1>4 DEF SetAndBroadcast
  <2>2. /\ v \in Steps /\ v.raised = s.raised
        /\ v.client = [s.client EXCEPT !.snapshot =
                         [q \in Queries |-> IF q \in synced THEN "local" ELSE @[q]]]
    BY <1>1 DEF Steps, Clients
  <2>3. v.client.listeners = s.client.listeners /\ v.client.raised = s.client.raised
    BY <1>1, <2>2 DEF Clients
  <2>4. Raised(c, v)
    BY <2>2, <2>3, QuietStep
  <2>5. views = Notify(v, gets, "cache")
    BY DEF ViewsGoOffline
  <2>6. gets \in SUBSET Listeners(c, Queries)
    BY <1>1 DEF Listeners
  <2>7. ASSUME NEW h \in gets, NEW g \in Gets, Before(c, g, h) PROVE g \in v.client.raised
    <3>1. PICK p \in Queries : g \in ToSet(c.listeners[p]) /\ h \in ToSet(c.listeners[p])
      BY <2>7, BeforeListens
    <3>2. PICK q \in synced : h \in ToSet(c.listeners[q])
      BY <2>7, <1>1 DEF Listeners
    <3>3. p = q
      BY <3>1, <3>2 DEF WellListed
    <3>4. g \in s.client.raised
      BY <3>1, <3>2, <3>3, <1>1 DEF AllTold, Told
    <3> QED BY <3>4, <2>3
  <2> HIDE DEF v, gets, views
  <2>8. Raised(c, views) /\ views.client = [v.client EXCEPT !.raised = @ \cup gets]
    BY <2>4, <2>5, <2>6, <2>7, NotifyRaises
  <2>9. /\ views \in Steps /\ views.client \in Clients
        /\ views = [client |-> views.client, raised |-> views.raised]
    BY <2>8 DEF Raised, Steps
  <2>10. /\ w \in Steps /\ w.raised = views.raised
         /\ w.client = [views.client EXCEPT !.online = state]
         /\ w.client.listeners = views.client.listeners /\ w.client.raised = views.client.raised
    BY <2>9 DEF Steps, Clients
  <2>11. Raised(c, w)
    BY <2>8, <2>10, QuietStep
  <2>12. w.client.listeners = c.listeners /\ w.client \in Clients
    BY <2>11 DEF Raised, Steps
  <2>13. rest \in SUBSET Listeners(c, Queries)
    BY <2>12 DEF Listeners
  <2>14. ASSUME NEW h \in rest, NEW g \in Gets, Before(c, g, h)
         PROVE  g \in w.client.raised \/ g \in rest
    BY <2>14, <2>12, BeforeListens DEF Listeners
  <2>15. t = Notify(w, rest, "cache")
    BY <2>1 DEF ListenersGoOffline
  <2> HIDE DEF w, rest, t
  <2>16. Raised(c, t) /\ t.client = [w.client EXCEPT !.raised = @ \cup rest]
    BY <2>11, <2>13, <2>14, <2>15, NotifyRaises
  <2>17. t.client.raised = w.client.raised \cup rest /\ t.client.listeners = c.listeners
    BY <2>12, <2>16 DEF Clients
  <2>18. AllTold(t.client)
    BY <2>12, <2>17 DEF AllTold, Told, rest, Listeners
  <2>19. t.client = [s.client EXCEPT !.online = state,
                                     !.snapshot = t.client.snapshot,
                                     !.raised = t.client.raised]
    <3>1. /\ v.client.failures = s.client.failures /\ v.client.timer = s.client.timer
          /\ v.client.stream = s.client.stream /\ v.client.targets = s.client.targets
          /\ v.client.sent = s.client.sent /\ v.client.written = s.client.written
          /\ v.client.listeners = s.client.listeners
      BY <1>1, <2>2 DEF Clients
    <3>2. v.client \in Clients
      BY <2>2 DEF Steps
    <3>3. /\ t.client.failures = v.client.failures /\ t.client.timer = v.client.timer
          /\ t.client.stream = v.client.stream /\ t.client.targets = v.client.targets
          /\ t.client.sent = v.client.sent /\ t.client.written = v.client.written
          /\ t.client.listeners = v.client.listeners /\ t.client.online = state
      <4>1. w.client = [v.client EXCEPT !.raised = @ \cup gets, !.online = state]
        BY <3>2, <2>8, <2>10 DEF Clients
      <4> QED BY <3>2, <4>1, <2>16 DEF Clients
    <3>4. t.client \in Clients
      BY <2>16 DEF Raised, Steps
    <3> DEFINE a == t.client
               b == [s.client EXCEPT !.online = state, !.snapshot = a.snapshot,
                                     !.raised = a.raised]
    <3>5. /\ a.failures = s.client.failures /\ a.timer = s.client.timer
          /\ a.stream = s.client.stream /\ a.targets = s.client.targets
          /\ a.sent = s.client.sent /\ a.written = s.client.written
          /\ a.listeners = s.client.listeners /\ a.online = state
      BY <3>1, <3>3
    <3> HIDE DEF a
    <3>6. a = b
      BY <1>1, <3>4, <3>5 DEF Clients, a
    <3> QED BY <3>6 DEF a
  <2> QED BY <1>4, <2>16, <2>18, <2>19 DEF t
<1> QED BY <1>2, <1>3, <1>4

-----------------------------------------------------------------------------
(* The operations of the client.                                           *)

\* A client as the steps below find it, and a step from it.
Listed(c) == c \in Clients /\ WellListed(c) /\ c.raised \subseteq Listeners(c, Queries)

Valid(c, s) == Raised(c, s) /\ AllTold(s.client)

\* What the tracker changes, and what is left to it.
SameButOnline(c, d) ==
  /\ c.stream = d.stream /\ c.targets = d.targets /\ c.sent = d.sent
  /\ c.written = d.written /\ c.listeners = d.listeners

\* Two clients that differ in no field that listeners depend on are told alike.
LEMMA QuietValid ==
  ASSUME NEW c, NEW s, Valid(c, s), NEW d \in Clients,
         d.listeners = s.client.listeners, d.raised = s.client.raised,
         d.snapshot = s.client.snapshot,
         d.online = "Offline" => s.client.online = "Offline"
  PROVE  Valid(c, [client |-> d, raised |-> s.raised])
<1> DEFINE t == [client |-> d, raised |-> s.raised]
<1>1. t \in Steps /\ t.raised = s.raised /\ t.client = d
  BY DEF Valid, Raised, Steps
<1> HIDE DEF t
<1>2. Raised(c, t)
  BY <1>1, QuietStep DEF Valid
<1>3. AllTold(t.client)
  BY <1>1 DEF Valid, AllTold, Told
<1> QED BY <1>2, <1>3 DEF Valid, t

LEMMA StepForm ==
  ASSUME NEW s \in Steps
  PROVE  s = [client |-> s.client, raised |-> s.raised] /\ s.client \in Clients
  BY DEF Steps

\* The count of failures and the timer are set together.
LEMMA Recounted ==
  ASSUME NEW s \in Steps, NEW n \in {0, MaxWatchStreamFailures}
  PROVE  LET d == [s.client EXCEPT !.failures = n, !.timer = FALSE]
         IN  /\ [s EXCEPT !.client.failures = n, !.client.timer = FALSE]
                  = [client |-> d, raised |-> s.raised]
             /\ d \in Clients /\ SameButOnline(d, s.client)
             /\ d.raised = s.client.raised /\ d.snapshot = s.client.snapshot
             /\ d.online = s.client.online /\ d.timer = FALSE
<1> DEFINE d == [s.client EXCEPT !.failures = n, !.timer = FALSE]
           e == [s.client EXCEPT !.failures = n]
           v == [s EXCEPT !.client.failures = n]
<1>1. s.client \in Clients /\ s = [client |-> s.client, raised |-> s.raised]
  BY StepForm
<1>2. v = [client |-> e, raised |-> s.raised]
  BY <1>1
<1>3. n \in 0 .. MaxWatchStreamFailures
  BY DEF MaxWatchStreamFailures
<1>4. e \in Clients /\ d = [e EXCEPT !.timer = FALSE]
  BY <1>1, <1>3 DEF Clients
<1>5. [v EXCEPT !.client.timer = FALSE] = [client |-> d, raised |-> s.raised]
  <2> HIDE DEF e, v, d
  <2>1. v.client = e /\ v.raised = s.raised /\ v = [client |-> v.client, raised |-> v.raised]
    BY <1>2
  <2>2. ASSUME NEW b
        PROVE  [v EXCEPT !.client.timer = b]
                 = [client |-> [v.client EXCEPT !.timer = b], raised |-> v.raised]
    BY <2>1
  <2> QED BY <2>1, <2>2, <1>4, Zenon
<1>6. /\ d \in Clients /\ SameButOnline(d, s.client)
      /\ d.raised = s.client.raised /\ d.snapshot = s.client.snapshot
      /\ d.online = s.client.online /\ d.timer = FALSE
  BY <1>1, <1>3 DEF Clients, SameButOnline
<1> QED BY <1>5, <1>6

LEMMA UpdateStateFacts ==
  ASSUME NEW c, NEW s, Listed(c), Valid(c, s), NEW state \in {"Unknown", "Online"}
  PROVE  LET t == UpdateState(s, state)
         IN  /\ Valid(c, t) /\ t.raised = s.raised
             /\ t.client = [s.client EXCEPT !.failures = 0, !.timer = FALSE, !.online = state]
<1> DEFINE v == [s EXCEPT !.client.failures = 0, !.client.timer = FALSE]
           d == [s.client EXCEPT !.failures = 0, !.timer = FALSE]
           t == UpdateState(s, state)
<1>1. s \in Steps /\ s.client \in Clients /\ s = [client |-> s.client, raised |-> s.raised]
  BY StepForm DEF Valid, Raised
<1>2. v = [client |-> d, raised |-> s.raised]
  BY <1>1, Recounted
<1>3. /\ d \in Clients /\ d.listeners = s.client.listeners /\ d.raised = s.client.raised
      /\ d.snapshot = s.client.snapshot /\ d.online = s.client.online
  BY <1>1, Recounted DEF SameButOnline
<1> HIDE DEF d, v
<1>4. Valid(c, v)
  BY <1>2, <1>3, QuietValid
<1>5. t = SetAndBroadcast(v, state)
  BY DEF UpdateState, v
<1>6. Valid(c, t) /\ t = [v EXCEPT !.client.online = state]
  <2>1. state # "Offline" /\ state \in {"Unknown", "Online", "Offline"}
    OBVIOUS
  <2> HIDE DEF t
  <2> QED BY <1>4, <1>5, <2>1, BroadcastRaises DEF Valid, Listed
<1> HIDE DEF t
<1>7. t.client = [d EXCEPT !.online = state] /\ t.raised = s.raised
  BY <1>2, <1>6
<1> QED BY <1>6, <1>7 DEF d, t

LEMMA WatchStreamStartFacts ==
  ASSUME NEW c, NEW s, Listed(c), Valid(c, s)
  PROVE  LET t == HandleWatchStreamStart(s)
         IN  /\ Valid(c, t) /\ t.raised = s.raised
             /\ SameButOnline(t.client, s.client)
             /\ t.client.failures = s.client.failures
             /\ Timed(s.client) => Timed(t.client)
             /\ s.client.online # "Online" => t.client.online # "Online"
<1> DEFINE v == SetAndBroadcast(s, "Unknown")
           t == HandleWatchStreamStart(s)
<1>1. s \in Steps /\ s.client \in Clients /\ s = [client |-> s.client, raised |-> s.raised]
  BY StepForm DEF Valid, Raised
<1>2. CASE s.client.failures # 0
  BY <1>2 DEF HandleWatchStreamStart, SameButOnline
<1>3. CASE s.client.failures = 0
  <2>1. Valid(c, v) /\ v = [s EXCEPT !.client.online = "Unknown"]
    BY BroadcastRaises DEF Valid, Listed
  <2>2. t = [v EXCEPT !.client.timer = TRUE]
    BY <1>3 DEF HandleWatchStreamStart
  <2> DEFINE d == [s.client EXCEPT !.online = "Unknown", !.timer = TRUE]
  <2> HIDE DEF v, t
  <2>3. t = [client |-> d, raised |-> s.raised]
    BY <1>1, <2>1, <2>2
  <2>4. v.client = [s.client EXCEPT !.online = "Unknown"] /\ v.raised = s.raised
    BY <1>1, <2>1
  <2>5. /\ d \in Clients /\ d.listeners = v.client.listeners /\ d.raised = v.client.raised
        /\ d.snapshot = v.client.snapshot /\ d.online = "Unknown" /\ d.timer
        /\ d.failures = s.client.failures /\ SameButOnline(d, s.client)
    BY <1>1, <2>4 DEF Clients, SameButOnline
  <2> HIDE DEF d
  <2>6. Valid(c, t)
    BY <2>1, <2>3, <2>4, <2>5, QuietValid
  <2> QED BY <2>3, <2>5, <2>6 DEF t, Timed
<1> QED BY <1>2, <1>3

LEMMA WatchStreamFailureFacts ==
  ASSUME NEW c, NEW s, Listed(c), Valid(c, s), Timed(s.client)
  PROVE  LET t == HandleWatchStreamFailure(s)
         IN  /\ Valid(c, t) /\ SameButOnline(t.client, s.client)
             /\ Timed(t.client) /\ t.client.online # "Online"
<1> DEFINE t == HandleWatchStreamFailure(s)
<1>1. s \in Steps /\ s.client \in Clients /\ s = [client |-> s.client, raised |-> s.raised]
  BY StepForm DEF Valid, Raised
<1>2. CASE s.client.online = "Online"
  <2>1. t = SetAndBroadcast(s, "Unknown")
    BY <1>2 DEF HandleWatchStreamFailure
  <2>2. Valid(c, t) /\ t = [s EXCEPT !.client.online = "Unknown"]
    <3> HIDE DEF t
    <3> QED BY <2>1, BroadcastRaises DEF Valid, Listed
  <2> HIDE DEF t
  <2>3. t.client = [s.client EXCEPT !.online = "Unknown"]
    BY <1>1, <2>2
  <2>4. SameButOnline(t.client, s.client) /\ t.client.online = "Unknown"
    BY <1>1, <2>3 DEF Clients, SameButOnline
  <2> QED BY <2>2, <2>4 DEF Timed, t
<1>3. CASE s.client.online # "Online"
  <2> DEFINE d == [s.client EXCEPT !.failures = MaxWatchStreamFailures, !.timer = FALSE]
             v == [client |-> d, raised |-> s.raised]
  <2>1. t = SetAndBroadcast(v, "Offline")
    <3>1. v = [s EXCEPT !.client.failures = MaxWatchStreamFailures, !.client.timer = FALSE]
      BY <1>1, Recounted
    <3> QED BY <3>1, <1>3 DEF HandleWatchStreamFailure
  <2>2. /\ d \in Clients /\ d.listeners = s.client.listeners /\ d.raised = s.client.raised
        /\ d.snapshot = s.client.snapshot /\ d.online = s.client.online
        /\ d.timer = FALSE /\ SameButOnline(d, s.client)
    BY <1>1, Recounted DEF SameButOnline
  <2>3. v.client = d
    OBVIOUS
  <2> HIDE DEF d
  <2>4. Valid(c, v)
    BY <2>2, QuietValid
  <2> HIDE DEF v, t
  <2>5. Valid(c, t) /\ t.client = [d EXCEPT !.online = "Offline",
                                            !.snapshot = t.client.snapshot,
                                            !.raised = t.client.raised]
    BY <2>1, <2>3, <2>4, BroadcastRaises DEF Valid, Listed
  <2>6. SameButOnline(t.client, d) /\ t.client.online = "Offline" /\ t.client.timer = d.timer
    BY <2>2, <2>5 DEF Clients, SameButOnline
  <2> QED BY <2>2, <2>5, <2>6 DEF t, Timed, SameButOnline
<1> QED BY <1>2, <1>3

\* What the operations of a stream leave.
LEMMA StreamFacts ==
  ASSUME NEW st \in Streams, CallbacksFit(st)
  PROVE  /\ ~IsStarted(st) =>
              Start(st) \in Streams /\ CallbacksFit(Start(st)) /\ ~Start(st).idle
         /\ \A graceful \in BOOLEAN :
              LET closed == Close(st, graceful)
              IN  /\ closed \in Streams /\ CallbacksFit(closed)
                  /\ ~IsStarted(closed) /\ ~closed.idle
         /\ ~IsStarted(st) => InhibitBackoff(st) \in Streams /\ CallbacksFit(InhibitBackoff(st))
                              /\ ~IsStarted(InhibitBackoff(st)) /\ ~InhibitBackoff(st).idle
         /\ Write(st) \in Streams /\ CallbacksFit(Write(st)) /\ ~Write(st).idle
         /\ IsOpen(st) => MarkIdle(st) \in Streams /\ CallbacksFit(MarkIdle(st))
         /\ st.backoff => BackoffElapses(st) \in Streams /\ CallbacksFit(BackoffElapses(st))
                          /\ ~BackoffElapses(st).idle
         /\ ~IsOpen(st) => ~st.idle
<1>1. ~IsStarted(st) =>
        Start(st) \in Streams /\ CallbacksFit(Start(st)) /\ ~Start(st).idle
  BY DEF Streams, CallbacksFit, IsStarted, IsOpen, Start, BackoffAndTryRestarting,
         RequestCredentials
<1>2. ASSUME NEW graceful \in BOOLEAN
      PROVE  LET closed == Close(st, graceful)
             IN  /\ closed \in Streams /\ CallbacksFit(closed)
                 /\ ~IsStarted(closed) /\ ~closed.idle
  BY DEF Streams, CallbacksFit, IsStarted, IsOpen, Close
<1>3. ~IsStarted(st) => InhibitBackoff(st) \in Streams /\ CallbacksFit(InhibitBackoff(st))
                        /\ ~IsStarted(InhibitBackoff(st)) /\ ~InhibitBackoff(st).idle
  BY DEF Streams, CallbacksFit, IsStarted, IsOpen, InhibitBackoff
<1>4. Write(st) \in Streams /\ CallbacksFit(Write(st)) /\ ~Write(st).idle
  BY DEF Streams, CallbacksFit, IsOpen, Write, CancelIdleCheck
<1>5. IsOpen(st) => MarkIdle(st) \in Streams /\ CallbacksFit(MarkIdle(st))
  BY DEF Streams, CallbacksFit, IsOpen, MarkIdle
<1>6. st.backoff => BackoffElapses(st) \in Streams /\ CallbacksFit(BackoffElapses(st))
                    /\ ~BackoffElapses(st).idle
  BY DEF Streams, CallbacksFit, IsOpen, BackoffElapses, Start, RequestCredentials
<1>7. ~IsOpen(st) => ~st.idle
  BY DEF CallbacksFit
<1> QED BY <1>1, <1>2, <1>3, <1>4, <1>5, <1>6, <1>7

LEMMA CredentialsFacts ==
  ASSUME NEW st \in Streams, CallbacksFit(st), NEW when \in st.asked
  PROVE  LET got == CredentialsArrive(st, when)
         IN  /\ got \in Streams /\ CallbacksFit(got)
             /\ got.idle => st.idle
             /\ when = "now" => ~got.idle
  BY DEF Streams, CallbacksFit, IsOpen, CredentialsArrive

\* A field of the client in a step.
LEMMA StreamOfStep ==
  ASSUME NEW s \in Steps, NEW st \in Streams
  PROVE  LET d == [s.client EXCEPT !.stream = st]
         IN  /\ [s EXCEPT !.client.stream = st] = [client |-> d, raised |-> s.raised]
             /\ d \in Clients /\ d.stream = st
             /\ d.listeners = s.client.listeners /\ d.raised = s.client.raised
             /\ d.snapshot = s.client.snapshot /\ d.online = s.client.online
             /\ d.targets = s.client.targets /\ d.sent = s.client.sent
             /\ d.failures = s.client.failures /\ d.timer = s.client.timer
             /\ d.written = s.client.written
<1>1. s.client \in Clients /\ s = [client |-> s.client, raised |-> s.raised]
  BY StepForm
<1>2. [s EXCEPT !.client.stream = st]
        = [client |-> [s.client EXCEPT !.stream = st], raised |-> s.raised]
  BY <1>1
<1> QED BY <1>1, <1>2 DEF Clients

LEMMA StartWatchStreamFacts ==
  ASSUME NEW c, NEW s, Listed(c), Valid(c, s), Timed(s.client),
         CallbacksFit(s.client.stream), ~IsStarted(s.client.stream)
  PROVE  LET t == StartWatchStream(s)
         IN  /\ Valid(c, t) /\ Timed(t.client) /\ t.raised = s.raised
             /\ CallbacksFit(t.client.stream) /\ ~t.client.stream.idle
             /\ t.client.targets = s.client.targets /\ t.client.sent = s.client.sent
             /\ t.client.listeners = s.client.listeners
             /\ s.client.online # "Online" => t.client.online # "Online"
<1> DEFINE st == Start(s.client.stream)
           d == [s.client EXCEPT !.stream = st]
           v == [client |-> d, raised |-> s.raised]
           t == StartWatchStream(s)
<1>1. s \in Steps /\ s.client.stream \in Streams
  BY DEF Valid, Raised, Steps, Clients
<1>2. st \in Streams /\ CallbacksFit(st) /\ ~st.idle
  BY <1>1, StreamFacts
<1>3. [s EXCEPT !.client.stream = Start(@)] = [s EXCEPT !.client.stream = st]
  OBVIOUS
<1> HIDE DEF st
<1>4. /\ [s EXCEPT !.client.stream = st] = v
      /\ d \in Clients /\ d.stream = st
      /\ d.listeners = s.client.listeners /\ d.raised = s.client.raised
      /\ d.snapshot = s.client.snapshot /\ d.online = s.client.online
      /\ d.targets = s.client.targets /\ d.sent = s.client.sent
      /\ d.failures = s.client.failures /\ d.timer = s.client.timer
  BY <1>1, <1>2, StreamOfStep
<1>5. t = HandleWatchStreamStart(v)
  BY <1>3, <1>4 DEF StartWatchStream
<1>6. v.client = d /\ v.raised = s.raised
  OBVIOUS
<1> HIDE DEF d
<1>7. Valid(c, v)
  BY <1>4, QuietValid
<1> HIDE DEF v
<1>8. Timed(v.client)
  BY <1>4, <1>6 DEF Timed
<1>9. /\ Valid(c, t) /\ t.raised = v.raised /\ SameButOnline(t.client, v.client)
      /\ Timed(t.client)
      /\ v.client.online # "Online" => t.client.online # "Online"
  BY <1>5, <1>7, <1>8, WatchStreamStartFacts
<1> HIDE DEF t
<1> QED BY <1>2, <1>4, <1>6, <1>9 DEF SameButOnline, t

LEMMA SendWatchRequestsFacts ==
  ASSUME NEW c, NEW s, Valid(c, s), NEW queries \in SUBSET Queries,
         CallbacksFit(s.client.stream), s.client.stream.idle => queries # {}
  PROVE  LET t == SendWatchRequests(s, queries)
         IN  /\ Valid(c, t) /\ t.raised = s.raised
             /\ CallbacksFit(t.client.stream) /\ ~t.client.stream.idle
             /\ t.client.sent = s.client.sent \cup queries
             /\ t.client.targets = s.client.targets
             /\ t.client.listeners = s.client.listeners
             /\ t.client.online = s.client.online /\ t.client.failures = s.client.failures
             /\ t.client.timer = s.client.timer
<1>1. /\ s \in Steps /\ s.client \in Clients /\ s.client.stream \in Streams
      /\ s = [client |-> s.client, raised |-> s.raised]
  BY StepForm DEF Valid, Raised, Clients
<1>2. CASE queries = {}
  BY <1>2 DEF SendWatchRequests
<1>3. CASE queries # {}
  <2> DEFINE st == Write(s.client.stream)
             sent == s.client.sent \cup queries
             d == [s.client EXCEPT !.stream = st, !.sent = sent, !.written = TRUE]
             t == SendWatchRequests(s, queries)
  <2>1. st \in Streams /\ CallbacksFit(st) /\ ~st.idle
    BY <1>1, StreamFacts
  <2>2. sent \in SUBSET Queries
    BY <1>1 DEF Clients
  <2>3. t = [client |-> d, raised |-> s.raised]
    <3>1. t = [s EXCEPT !.client.stream = st, !.client.sent = sent, !.client.written = TRUE]
      BY <1>1, <1>3 DEF SendWatchRequests
    <3> HIDE DEF st, sent, t
    <3> QED BY <1>1, <3>1
  <2>4. /\ d \in Clients /\ d.stream = st /\ d.sent = sent
        /\ d.listeners = s.client.listeners /\ d.raised = s.client.raised
        /\ d.snapshot = s.client.snapshot /\ d.online = s.client.online
        /\ d.targets = s.client.targets
        /\ d.failures = s.client.failures /\ d.timer = s.client.timer
    <3> HIDE DEF st, sent
    <3> QED BY <1>1, <2>1, <2>2 DEF Clients
  <2> HIDE DEF d, st
  <2>5. Valid(c, [client |-> d, raised |-> s.raised])
    BY <2>4, QuietValid
  <2> QED BY <2>1, <2>3, <2>4, <2>5
<1> QED BY <1>2, <1>3

LEMMA RemoteListenFacts ==
  ASSUME NEW c, NEW s, NEW q \in Queries, Listed(c), Valid(c, s), Timed(s.client),
         CallbacksFit(s.client.stream), s.client.sent \subseteq s.client.targets,
         Targeted(s.client, s.client.targets \cup {q})
  PROVE  LET t == RemoteListen(s, q)
         IN  /\ Valid(c, t) /\ Sound(t.client) /\ t.raised = s.raised
             /\ s.client.online # "Online" => t.client.online # "Online"
<1> DEFINE targets == s.client.targets \cup {q}
           d == [s.client EXCEPT !.targets = targets]
           v == [client |-> d, raised |-> s.raised]
           t == RemoteListen(s, q)
<1>1. /\ s \in Steps /\ s.client \in Clients /\ s.client.stream \in Streams
      /\ s = [client |-> s.client, raised |-> s.raised]
  BY StepForm DEF Valid, Raised, Clients
<1>2. [s EXCEPT !.client.targets = @ \cup {q}] = v
  BY <1>1
<1>3. targets \in SUBSET Queries /\ targets # {}
  BY <1>1 DEF Clients
<1>4. /\ d \in Clients /\ d.stream = s.client.stream /\ d.targets = targets
      /\ d.listeners = s.client.listeners /\ d.raised = s.client.raised
      /\ d.snapshot = s.client.snapshot /\ d.online = s.client.online
      /\ d.sent = s.client.sent
      /\ d.failures = s.client.failures /\ d.timer = s.client.timer
  <2> HIDE DEF targets
  <2> QED BY <1>1, <1>3 DEF Clients
<1>5. v.client = d /\ v.raised = s.raised
  OBVIOUS
<1>6. t = IF ShouldStartWatchStream(v.client) THEN StartWatchStream(v)
          ELSE IF IsOpen(v.client.stream) THEN SendWatchRequests(v, {q})
          ELSE v
  BY <1>2 DEF RemoteListen
<1> HIDE DEF d, v, t
<1>7. Valid(c, v)
  BY <1>4, QuietValid DEF v
<1>8. Timed(v.client) /\ CallbacksFit(v.client.stream) /\ Targeted(v.client, v.client.targets)
      /\ v.client.sent \subseteq v.client.targets
  BY <1>4, <1>5 DEF Timed, Targeted
<1>9. CASE ShouldStartWatchStream(v.client)
  <2>1. /\ Valid(c, t) /\ Timed(t.client) /\ t.raised = v.raised
        /\ CallbacksFit(t.client.stream) /\ ~t.client.stream.idle
        /\ t.client.targets = v.client.targets /\ t.client.sent = v.client.sent
        /\ t.client.listeners = v.client.listeners
        /\ v.client.online # "Online" => t.client.online # "Online"
    BY <1>6, <1>7, <1>8, <1>9, StartWatchStreamFacts DEF ShouldStartWatchStream
  <2> QED BY <2>1, <1>4, <1>5, <1>8 DEF Sound, Targeted, t
<1>10. CASE ~ShouldStartWatchStream(v.client) /\ IsOpen(v.client.stream)
  <2>1. /\ Valid(c, t) /\ t.raised = v.raised
        /\ CallbacksFit(t.client.stream) /\ ~t.client.stream.idle
        /\ t.client.sent = v.client.sent \cup {q}
        /\ t.client.targets = v.client.targets
        /\ t.client.listeners = v.client.listeners
        /\ t.client.online = v.client.online /\ t.client.failures = v.client.failures
        /\ t.client.timer = v.client.timer
    BY <1>6, <1>7, <1>8, <1>10, SendWatchRequestsFacts
  <2> QED BY <2>1, <1>4, <1>5, <1>8 DEF Sound, Targeted, Timed, t
<1>11. CASE ~ShouldStartWatchStream(v.client) /\ ~IsOpen(v.client.stream)
  <2>1. t = v
    BY <1>6, <1>11
  <2>2. ~v.client.stream.idle
    BY <1>1, <1>4, <1>5, <1>11 DEF CallbacksFit
  <2> QED BY <2>1, <2>2, <1>4, <1>5, <1>7, <1>8 DEF Sound, t
<1> QED BY <1>9, <1>10, <1>11

LEMMA RemoteStopListeningFacts ==
  ASSUME NEW c, NEW s, NEW q \in Queries, Listed(c), Valid(c, s), Timed(s.client),
         CallbacksFit(s.client.stream), ~s.client.stream.idle,
         s.client.sent \subseteq s.client.targets,
         Targeted(s.client, s.client.targets \ {q})
  PROVE  LET t == RemoteStopListening(s, q)
         IN  /\ Valid(c, t) /\ Sound(t.client) /\ t.raised = s.raised
             /\ s.client.online # "Online" => t.client.online # "Online"
<1> DEFINE open == IsOpen(s.client.stream)
           targets == s.client.targets \ {q}
           sent == s.client.sent \ {q}
           st == IF open THEN Write(s.client.stream) ELSE s.client.stream
           d == [s.client EXCEPT !.targets = targets, !.sent = sent, !.stream = st]
           v == [client |-> d, raised |-> s.raised]
           t == RemoteStopListening(s, q)
<1>1. /\ s \in Steps /\ s.client \in Clients /\ s.client.stream \in Streams
      /\ s = [client |-> s.client, raised |-> s.raised]
  BY StepForm DEF Valid, Raised, Clients
<1>2. [s EXCEPT !.client.targets = @ \ {q}, !.client.sent = @ \ {q},
                !.client.stream = IF open THEN Write(@) ELSE @] = v
  <2> DEFINE w == [s EXCEPT !.client.targets = @ \ {q}, !.client.sent = @ \ {q},
                            !.client.stream = IF open THEN Write(@) ELSE @]
  <2>1. w = [s EXCEPT !.client.targets = targets, !.client.sent = sent, !.client.stream = st]
    BY <1>1
  <2> HIDE DEF w, targets, sent, st
  <2>2. w = v
    BY <1>1, <2>1
  <2> QED BY <2>2 DEF w
<1>3. targets \in SUBSET Queries /\ sent \in SUBSET Queries /\ sent \subseteq targets
  BY <1>1 DEF Clients
<1>4. /\ st \in Streams /\ CallbacksFit(st) /\ ~st.idle
      /\ IsOpen(st) <=> open
  <2>1. Write(s.client.stream).state = s.client.stream.state
    BY <1>1 DEF Write, CancelIdleCheck, Streams
  <2> QED BY <2>1, <1>1, StreamFacts DEF IsOpen
<1>5. /\ d \in Clients /\ d.stream = st /\ d.targets = targets
      /\ d.listeners = s.client.listeners /\ d.raised = s.client.raised
      /\ d.snapshot = s.client.snapshot /\ d.online = s.client.online
      /\ d.sent = sent
      /\ d.failures = s.client.failures /\ d.timer = s.client.timer
  <2> HIDE DEF targets, sent, st
  <2> QED BY <1>1, <1>3, <1>4 DEF Clients
<1>6. v.client = d /\ v.raised = s.raised
  OBVIOUS
<1>7. t = IF v.client.targets # {} THEN v
          ELSE IF open THEN [v EXCEPT !.client.stream = MarkIdle(@)]
          ELSE UpdateState(v, "Unknown")
  <2> DEFINE w == [s EXCEPT !.client.targets = @ \ {q}, !.client.sent = @ \ {q},
                            !.client.stream = IF open THEN Write(@) ELSE @]
  <2>1. t = IF w.client.targets # {} THEN w
            ELSE IF open THEN [w EXCEPT !.client.stream = MarkIdle(@)]
            ELSE UpdateState(w, "Unknown")
    BY Zenon DEF RemoteStopListening
  <2>2. w = v
    BY <1>2
  <2> HIDE DEF w, v, t, open
  <2> QED BY <2>1, <2>2
<1> HIDE DEF d, v, t, st
<1>8. Valid(c, v)
  BY <1>5, QuietValid DEF v
<1>9. /\ Timed(v.client) /\ CallbacksFit(v.client.stream) /\ ~v.client.stream.idle
      /\ Targeted(v.client, v.client.targets) /\ v.client.sent \subseteq v.client.targets
  BY <1>3, <1>4, <1>5, <1>6 DEF Timed, Targeted
<1>10. CASE v.client.targets # {}
  <2>1. t = v
    BY <1>7, <1>10
  <2> QED BY <2>1, <1>5, <1>6, <1>8, <1>9 DEF Sound, t
<1>11. CASE v.client.targets = {} /\ open
  <2> DEFINE idle == MarkIdle(v.client.stream)
             e == [v.client EXCEPT !.stream = idle]
  <2>1. v \in Steps /\ idle \in Streams /\ CallbacksFit(idle)
    BY <1>4, <1>5, <1>6, <1>8, <1>11, StreamFacts DEF Valid, Raised
  <2>2. t = [v EXCEPT !.client.stream = idle]
    BY <1>7, <1>11
  <2> HIDE DEF idle
  <2>3. /\ t = [client |-> e, raised |-> v.raised]
        /\ e \in Clients /\ e.stream = idle
        /\ e.listeners = v.client.listeners /\ e.raised = v.client.raised
        /\ e.snapshot = v.client.snapshot /\ e.online = v.client.online
        /\ e.targets = v.client.targets /\ e.sent = v.client.sent
        /\ e.failures = v.client.failures /\ e.timer = v.client.timer
    BY <2>1, <2>2, StreamOfStep
  <2> HIDE DEF e
  <2>4. Valid(c, t)
    BY <2>3, <1>8, QuietValid
  <2> QED BY <2>1, <2>3, <2>4, <1>5, <1>6, <1>9, <1>11 DEF Sound, Timed, Targeted, t
<1>12. CASE v.client.targets = {} /\ ~open
  <2>1. t = UpdateState(v, "Unknown")
    BY <1>7, <1>12
  <2>2. /\ Valid(c, t) /\ t.raised = v.raised
        /\ t.client = [v.client EXCEPT !.failures = 0, !.timer = FALSE, !.online = "Unknown"]
    BY <2>1, <1>8, UpdateStateFacts
  <2> HIDE DEF t
  <2>3. /\ SameButOnline(t.client, v.client) /\ t.client.online = "Unknown"
        /\ t.client.timer = FALSE
    BY <2>2, <1>5, <1>6 DEF Clients, SameButOnline
  <2> QED BY <2>2, <2>3, <1>6, <1>9, <1>12 DEF Sound, Timed, Targeted, SameButOnline, t
<1> QED BY <1>10, <1>11, <1>12

\* The stream has been closed.
LEMMA OnWatchStreamCloseFacts ==
  ASSUME NEW c, NEW s, Listed(c), Valid(c, s), Timed(s.client),
         CallbacksFit(s.client.stream), ~IsStarted(s.client.stream), ~s.client.stream.idle,
         Targeted(s.client, s.client.targets)
  PROVE  LET t == OnWatchStreamClose(s)
         IN  Valid(c, t) /\ Sound(t.client) /\ t.client.online # "Online"
<1> DEFINE d == [s.client EXCEPT !.sent = {}, !.written = FALSE]
           v == [client |-> d, raised |-> s.raised]
           t == OnWatchStreamClose(s)
<1>1. /\ s \in Steps /\ s.client \in Clients /\ s.client.stream \in Streams
      /\ s = [client |-> s.client, raised |-> s.raised]
  BY StepForm DEF Valid, Raised, Clients
<1>2. [s EXCEPT !.client.sent = {}, !.client.written = FALSE] = v
  <2> DEFINE w == [s EXCEPT !.client.sent = {}, !.client.written = FALSE]
  <2>1. PICK no : no = FALSE
    OBVIOUS
  <2>2. w = [s EXCEPT !.client.sent = {}, !.client.written = no]
    BY <2>1
  <2> HIDE DEF w
  <2>3. w = [client |-> [s.client EXCEPT !.sent = {}, !.written = no], raised |-> s.raised]
    BY <1>1, <2>2
  <2> QED BY <2>1, <2>3 DEF w
<1>3. /\ d \in Clients /\ d.stream = s.client.stream /\ d.targets = s.client.targets
      /\ d.listeners = s.client.listeners /\ d.raised = s.client.raised
      /\ d.snapshot = s.client.snapshot /\ d.online = s.client.online
      /\ d.sent = {}
      /\ d.failures = s.client.failures /\ d.timer = s.client.timer
  BY <1>1 DEF Clients
<1>4. v.client = d /\ v.raised = s.raised
  OBVIOUS
<1>5. t = IF ShouldStartWatchStream(v.client)
            THEN StartWatchStream(HandleWatchStreamFailure(v))
            ELSE UpdateState(v, "Unknown")
  BY <1>2 DEF OnWatchStreamClose
<1> HIDE DEF d, v, t
<1>6. Valid(c, v)
  BY <1>3, QuietValid DEF v
<1>7. /\ Timed(v.client) /\ CallbacksFit(v.client.stream) /\ ~v.client.stream.idle
      /\ ~IsStarted(v.client.stream)
      /\ Targeted(v.client, v.client.targets) /\ v.client.sent = {}
  BY <1>3, <1>4 DEF Timed, Targeted
<1>8. CASE ShouldStartWatchStream(v.client)
  <2> DEFINE w == HandleWatchStreamFailure(v)
  <2>1. /\ Valid(c, w) /\ SameButOnline(w.client, v.client)
        /\ Timed(w.client) /\ w.client.online # "Online"
    BY <1>6, <1>7, WatchStreamFailureFacts
  <2>2. t = StartWatchStream(w)
    BY <1>5, <1>8
  <2> HIDE DEF w
  <2>3. CallbacksFit(w.client.stream) /\ ~IsStarted(w.client.stream)
    BY <2>1, <1>7 DEF SameButOnline
  <2>4. /\ Valid(c, t) /\ Timed(t.client)
        /\ CallbacksFit(t.client.stream) /\ ~t.client.stream.idle
        /\ t.client.targets = w.client.targets /\ t.client.sent = w.client.sent
        /\ t.client.listeners = w.client.listeners
        /\ t.client.online # "Online"
    BY <2>1, <2>2, <2>3, StartWatchStreamFacts
  <2> QED BY <2>1, <2>4, <1>7 DEF Sound, Targeted, SameButOnline, t
<1>9. CASE ~ShouldStartWatchStream(v.client)
  <2>1. t = UpdateState(v, "Unknown")
    BY <1>5, <1>9
  <2>2. /\ Valid(c, t)
        /\ t.client = [v.client EXCEPT !.failures = 0, !.timer = FALSE, !.online = "Unknown"]
    BY <2>1, <1>6, UpdateStateFacts
  <2> HIDE DEF t
  <2>3. /\ SameButOnline(t.client, v.client) /\ t.client.online = "Unknown"
        /\ t.client.timer = FALSE
    BY <2>2, <1>3, <1>4 DEF Clients, SameButOnline
  <2> QED BY <2>2, <2>3, <1>7 DEF Sound, Timed, Targeted, SameButOnline, t
<1> QED BY <1>8, <1>9

-----------------------------------------------------------------------------
(* The life of a call.                                                     *)

LEMMA TailFacts ==
  ASSUME NEW S, NEW s \in Seq(S), s # <<>>
  PROVE  /\ Tail(s) \in Seq(S) /\ Head(s) = s[1] /\ 1 \in DOMAIN s
         /\ Len(s) \in Nat /\ DOMAIN s = 1 .. Len(s) /\ DOMAIN Tail(s) = 1 .. Len(s) - 1
         /\ \A i \in DOMAIN Tail(s) : i + 1 \in DOMAIN s /\ Tail(s)[i] = s[i + 1]
         /\ \A i \in DOMAIN s : i # 1 => i - 1 \in DOMAIN Tail(s) /\ Tail(s)[i - 1] = s[i]
         /\ \A i \in DOMAIN s : \A j \in DOMAIN s : i < j => j # 1
<1>1. /\ Tail(s) \in Seq(S) /\ Len(s) \in Nat \ {0} /\ Head(s) = s[1]
      /\ Len(Tail(s)) = Len(s) - 1
      /\ \A i \in 1 .. Len(s) - 1 : Tail(s)[i] = s[i + 1]
  BY HeadTailProperties, EmptySeq
<1>2. DOMAIN s = 1 .. Len(s) /\ DOMAIN Tail(s) = 1 .. Len(s) - 1
  BY <1>1
<1>3. \A i \in DOMAIN s : i # 1 => i - 1 \in 1 .. Len(s) - 1 /\ i - 1 + 1 = i
  BY <1>1, <1>2
<1>4. /\ \A i \in DOMAIN Tail(s) : i + 1 \in DOMAIN s
      /\ 1 \in DOMAIN s
      /\ \A i \in DOMAIN s : \A j \in DOMAIN s : i < j => j # 1
  BY <1>1, <1>2
<1>5. \A i \in DOMAIN s : i # 1 => Tail(s)[i - 1] = s[i]
  BY <1>1, <1>3
<1> QED BY <1>1, <1>2, <1>3, <1>4, <1>5

LEMMA AppendFacts ==
  ASSUME NEW S, NEW s \in Seq(S), NEW x \in S
  PROVE  LET t == Append(s, x)
         IN  /\ t \in Seq(S) /\ Len(s) \in Nat /\ DOMAIN s = 1 .. Len(s)
             /\ DOMAIN t = 1 .. Len(s) + 1
             /\ \A i \in DOMAIN s : i \in DOMAIN t /\ t[i] = s[i] /\ i < Len(s) + 1
             /\ Len(s) + 1 \in DOMAIN t /\ t[Len(s) + 1] = x
             /\ \A i \in DOMAIN t : i \in DOMAIN s \/ i = Len(s) + 1
             /\ ToSet(t) = ToSet(s) \cup {x}
<1> DEFINE t == Append(s, x)
           n == Len(s)
<1>1. t \in Seq(S) /\ n \in Nat /\ DOMAIN s = 1 .. n /\ DOMAIN t = 1 .. n + 1
  OBVIOUS
<1>2. t[n + 1] = x /\ \A i \in 1 .. n : t[i] = s[i]
  OBVIOUS
<1> HIDE DEF t, n
<1>3. /\ \A i \in DOMAIN s : i \in DOMAIN t /\ t[i] = s[i] /\ i < n + 1
      /\ n + 1 \in DOMAIN t
      /\ \A i \in DOMAIN t : i \in DOMAIN s \/ i = n + 1
  BY <1>1, <1>2
<1>4. ToSet(t) = ToSet(s) \cup {x}
  <2>1. ToSet(t) \subseteq ToSet(s) \cup {x}
    BY <1>2, <1>3 DEF ToSet
  <2>2. ToSet(s) \subseteq ToSet(t) /\ x \in ToSet(t)
    BY <1>2, <1>3 DEF ToSet
  <2> QED BY <2>1, <2>2
<1> QED BY <1>1, <1>2, <1>3, <1>4 DEF t, n

LEMMA ConcatFacts ==
  ASSUME NEW S, NEW s \in Seq(S), NEW r \in Seq(S)
  PROVE  LET t == s \o r
         IN  /\ t \in Seq(S)
             /\ \A i \in DOMAIN s : i \in DOMAIN t /\ t[i] = s[i] /\ i \in Nat
             /\ \A i \in DOMAIN r :
                  Len(s) + i \in DOMAIN t /\ t[Len(s) + i] = r[i] /\ i \in Nat
             /\ \A i \in DOMAIN s : \A j \in DOMAIN r : i < Len(s) + j
             /\ \A i, j \in DOMAIN r : i < j <=> Len(s) + i < Len(s) + j
             /\ \A i \in DOMAIN t : i \in DOMAIN s \/ \E j \in DOMAIN r : i = Len(s) + j
<1> DEFINE t == s \o r
           n == Len(s)
           m == Len(r)
<1>1. n \in Nat /\ m \in Nat /\ DOMAIN s = 1 .. n /\ DOMAIN r = 1 .. m
  OBVIOUS
<1>2. /\ t \in Seq(S) /\ Len(t) = n + m
      /\ \A i \in 1 .. n + m : t[i] = IF i <= n THEN s[i] ELSE r[i - n]
  BY ConcatProperties, Zenon
<1>3. DOMAIN t = 1 .. n + m
  <2> HIDE DEF t, n, m
  <2> QED BY <1>2
<1> HIDE DEF t, n, m
<1>4. /\ \A i \in 1 .. n : i \in 1 .. n + m /\ i <= n
      /\ \A i \in 1 .. m : n + i \in 1 .. n + m /\ ~(n + i <= n) /\ n + i - n = i
      /\ \A i \in 1 .. n + m : i \in 1 .. n \/ (i - n \in 1 .. m /\ i = n + (i - n))
      /\ \A i \in 1 .. n : \A j \in 1 .. m : i < n + j
      /\ \A i, j \in 1 .. m : i < j <=> n + i < n + j
  BY <1>1
<1>5. \A i \in 1 .. m : t[n + i] = r[i]
  BY <1>2, <1>4
<1>6. \A i \in 1 .. n + m : i \in 1 .. n \/ \E j \in 1 .. m : i = n + j
  BY <1>4
<1>7. \A i \in 1 .. n : t[i] = s[i]
  BY <1>2, <1>4
<1>8. /\ \A i \in DOMAIN s : i \in DOMAIN t /\ t[i] = s[i] /\ i \in Nat
      /\ \A i \in DOMAIN r : n + i \in DOMAIN t /\ t[n + i] = r[i] /\ i \in Nat
  <2>1. \A i \in 1 .. n : i \in Nat
    BY <1>1
  <2>2. \A i \in 1 .. m : i \in Nat
    BY <1>1
  <2> QED BY <1>1, <1>3, <1>4, <1>5, <1>7, <2>1, <2>2, Zenon
<1>9. /\ \A i \in DOMAIN s : \A j \in DOMAIN r : i < n + j
      /\ \A i, j \in DOMAIN r : i < j <=> n + i < n + j
      /\ \A i \in DOMAIN t : i \in DOMAIN s \/ \E j \in DOMAIN r : i = n + j
  BY <1>1, <1>3, <1>4, <1>6, Zenon
<1> QED BY <1>2, <1>8, <1>9, Zenon DEF t, n

\* What the client raises is for listeners.
LEMMA Announced ==
  ASSUME NEW c \in Clients, NEW s, NEW ts, NEW es \in Seq(EventRecords),
         NEW qu, NEW mu, NEW ca \in Seq(Gets),
         Life(c, ts, es, qu, mu, ca), Raised(c, s)
  PROVE  Life(s.client, ts, es \o s.raised, qu, mu, ca)
<1> DEFINE d == s.client
           r == s.raised
           fs == es \o r
<1>1. /\ d.listeners = c.listeners /\ d.raised = c.raised \cup {r[k].get : k \in DOMAIN r}
      /\ r \in Seq(EventRecords)
      /\ \A k \in DOMAIN r : r[k].get \in Listeners(c, Queries) /\ r[k].result # "error"
      /\ \A k \in DOMAIN r : \A g \in Gets :
           Before(c, g, r[k].get) =>
             g \in c.raised \/ \E l \in DOMAIN r : l < k /\ r[l].get = g
  BY DEF Raised, Steps
<1>2. /\ Listeners(d, Queries) = Listeners(c, Queries)
      /\ \A g, h : Before(d, g, h) <=> Before(c, g, h)
  BY <1>1 DEF Listeners, Before
<1> HIDE DEF d, r
<1>3. /\ fs \in Seq(EventRecords)
      /\ \A i \in DOMAIN es : i \in DOMAIN fs /\ fs[i] = es[i] /\ i \in Nat
      /\ \A i \in DOMAIN r : Len(es) + i \in DOMAIN fs /\ fs[Len(es) + i] = r[i] /\ i \in Nat
      /\ \A i \in DOMAIN es : \A j \in DOMAIN r : i < Len(es) + j
      /\ \A i, j \in DOMAIN r : i < j <=> Len(es) + i < Len(es) + j
      /\ \A i \in DOMAIN fs : i \in DOMAIN es \/ \E j \in DOMAIN r : i = Len(es) + j
  <2>1. r \in Seq(EventRecords) /\ es \in Seq(EventRecords)
    BY <1>1
  <2>2. fs = es \o r
    OBVIOUS
  <2> HIDE DEF fs
  <2> QED BY <2>1, <2>2, ConcatFacts
<1> HIDE DEF fs
<1>4. \A g : EventOf(fs, g) <=> EventOf(es, g) \/ \E k \in DOMAIN r : r[k].get = g
  BY <1>3 DEF EventOf
<1>5. ListenersFit(d, qu, mu, ca)
  <2>1. d.raised \subseteq Listeners(d, Queries)
    BY <1>1, <1>2 DEF Life, ListenersFit
  <2> QED BY <2>1, <1>1 DEF Life, ListenersFit
<1>6. CallsFit(d, ts, fs, qu, mu, ca)
  BY <1>1, <1>2, <1>4 DEF Life, CallsFit
<1>7. TasksFit(d, ts, fs, qu, mu, ca)
  BY <1>1, <1>2, <1>4 DEF Life, TasksFit
<1>8. EventsFit(d, fs, mu, ca)
  <2> SUFFICES ASSUME NEW i \in DOMAIN fs
               PROVE  /\ fs[i].get \in mu \/ fs[i].get \in ToSet(ca)
                      /\ fs[i].result = "error" =>
                           /\ fs[i].get \notin Listeners(d, Queries)
                           /\ \A j \in DOMAIN fs : j > i => fs[j].get # fs[i].get
    BY DEF EventsFit
  <2>1. CASE i \in DOMAIN es
    <3>1. fs[i] = es[i]
      BY <2>1, <1>3
    <3>2. ASSUME es[i].result = "error", NEW j \in DOMAIN fs, j > i
          PROVE  fs[j].get # fs[i].get
      <4>1. CASE j \in DOMAIN es
        BY <2>1, <3>1, <3>2, <4>1, <1>3 DEF Life, EventsFit
      <4>2. CASE j \notin DOMAIN es
        <5>1. fs[j].get \in Listeners(c, Queries)
          BY <4>2, <1>1, <1>3
        <5> QED BY <5>1, <2>1, <3>1, <3>2 DEF Life, EventsFit
      <4> QED BY <4>1, <4>2
    <3> QED BY <2>1, <3>1, <3>2, <1>2 DEF Life, EventsFit
  <2>2. CASE i \notin DOMAIN es
    <3>1. fs[i].get \in Listeners(c, Queries) /\ fs[i].result # "error"
      BY <2>2, <1>1, <1>3
    <3>2. fs[i].get \in mu \/ fs[i].get \in ToSet(ca)
      BY <3>1 DEF Listeners, Life, ListenersFit
    <3> QED BY <3>1, <3>2
  <2> QED BY <2>1, <2>2
<1>9. OrderKept(d, ts, fs, qu, ca)
  <2> SUFFICES ASSUME NEW n \in DOMAIN ca, NEW m \in 1 .. n - 1, qu[ca[m]] = qu[ca[n]]
               PROVE  /\ \A j \in DOMAIN ts : ts[j] = [what |-> "add", get |-> ca[m]] =>
                           \E k \in DOMAIN ts : k > j /\ ts[k] = [what |-> "add", get |-> ca[n]]
                      /\ ca[n] \in Listeners(d, Queries) =>
                           Before(d, ca[m], ca[n]) \/ EventOf(fs, ca[m])
                      /\ \A j \in DOMAIN fs : fs[j].get = ca[n] =>
                           \E k \in DOMAIN fs : k < j /\ fs[k].get = ca[m]
    BY DEF OrderKept
  <2>1. /\ \A j \in DOMAIN ts : ts[j] = [what |-> "add", get |-> ca[m]] =>
             \E k \in DOMAIN ts : k > j /\ ts[k] = [what |-> "add", get |-> ca[n]]
        /\ ca[n] \in Listeners(c, Queries) => Before(c, ca[m], ca[n]) \/ EventOf(es, ca[m])
        /\ \A j \in DOMAIN es : es[j].get = ca[n] =>
             \E k \in DOMAIN es : k < j /\ es[k].get = ca[m]
    BY DEF Life, OrderKept
  <2>2. m \in DOMAIN ca /\ ca[m] \in Gets
    OBVIOUS
  <2>3. ca[m] \in c.raised => EventOf(es, ca[m])
    BY <2>2 DEF Life, CallsFit, ToSet
  <2>4. ASSUME NEW j \in DOMAIN fs, fs[j].get = ca[n]
        PROVE  \E k \in DOMAIN fs : k < j /\ fs[k].get = ca[m]
    <3>1. CASE j \in DOMAIN es
      BY <3>1, <2>1, <2>4, <1>3
    <3>2. CASE j \notin DOMAIN es
      <4>1. PICK k \in DOMAIN r : j = Len(es) + k
        BY <3>2, <1>3
      <4>2. r[k].get = ca[n]
        BY <4>1, <2>4, <1>3
      <4>3. CASE EventOf(es, ca[m])
        <5>1. PICK i \in DOMAIN es : es[i].get = ca[m]
          BY <4>3 DEF EventOf
        <5> QED BY <5>1, <4>1, <1>3
      <4>4. CASE ~EventOf(es, ca[m])
        <5>1. Before(c, ca[m], ca[n])
          BY <4>2, <4>4, <2>1, <1>1
        <5>2. PICK l \in DOMAIN r : l < k /\ r[l].get = ca[m]
          BY <5>1, <4>2, <4>4, <2>2, <2>3, <1>1
        <5>3. Len(es) + l \in DOMAIN fs /\ fs[Len(es) + l].get = ca[m] /\ Len(es) + l < j
          BY <5>2, <4>1, <1>3
        <5> QED BY <5>3
      <4> QED BY <4>3, <4>4
    <3> QED BY <3>1, <3>2
  <2> QED BY <2>1, <2>4, <1>2, <1>4
<1> QED BY <1>5, <1>6, <1>7, <1>8, <1>9 DEF Life, d, r, fs

\* The app asks again, with a call that is not in use.
LEMMA Asked ==
  ASSUME NEW c \in Clients, NEW ts \in Seq(TaskRecords), NEW es \in Seq(EventRecords),
         NEW qu \in [Gets -> Queries \cup {NoQuery}], NEW mu, NEW ca \in Seq(Gets),
         Life(c, ts, es, qu, mu, ca),
         NEW g \in Gets, NEW q \in Queries,
         \A i \in DOMAIN ts : ts[i].get # g,
         ~EventOf(es, g), g \notin Listeners(c, Queries), g \notin ToSet(ca)
  PROVE  Life(c, Append(ts, [what |-> "add", get |-> g]), es, [qu EXCEPT ![g] = q],
              mu \ {g}, Append(ca, g))
<1> DEFINE add == [what |-> "add", get |-> g]
           us == Append(ts, add)
           qv == [qu EXCEPT ![g] = q]
           nu == mu \ {g}
           cb == Append(ca, g)
<1>1. add \in TaskRecords /\ add.get = g /\ add.what = "add"
  BY DEF TaskRecords
<1>2. /\ us \in Seq(TaskRecords) /\ DOMAIN us = 1 .. Len(ts) + 1
      /\ Len(ts) \in Nat /\ DOMAIN ts = 1 .. Len(ts)
      /\ \A i \in DOMAIN ts : i \in DOMAIN us /\ us[i] = ts[i] /\ i < Len(ts) + 1
      /\ Len(ts) + 1 \in DOMAIN us /\ us[Len(ts) + 1] = add
      /\ \A i \in DOMAIN us : i \in DOMAIN ts \/ i = Len(ts) + 1
  BY <1>1, AppendFacts
<1>3. /\ cb \in Seq(Gets) /\ DOMAIN cb = 1 .. Len(ca) + 1
      /\ Len(ca) \in Nat /\ DOMAIN ca = 1 .. Len(ca)
      /\ \A i \in DOMAIN ca : i \in DOMAIN cb /\ cb[i] = ca[i] /\ i < Len(ca) + 1
      /\ Len(ca) + 1 \in DOMAIN cb /\ cb[Len(ca) + 1] = g
      /\ \A i \in DOMAIN cb : i \in DOMAIN ca \/ i = Len(ca) + 1
      /\ ToSet(cb) = ToSet(ca) \cup {g}
  BY AppendFacts
<1>4. qv[g] = q /\ \A h \in Gets \ {g} : qv[h] = qu[h]
  OBVIOUS
<1>5. \A i \in DOMAIN ts : ts[i] \in TaskRecords /\ ts[i].get \in Gets \ {g}
  <2>1. \A i \in DOMAIN ts : ts[i] \in TaskRecords
    OBVIOUS
  <2> QED BY <2>1 DEF TaskRecords
<1>6. \A p \in Queries : \A h \in ToSet(c.listeners[p]) : h \in Gets \ {g}
  BY DEF Clients, Listeners, ToSet
<1>7. \A i \in DOMAIN ca : ca[i] \in Gets \ {g}
  BY DEF ToSet
<1>8. \A i \in DOMAIN es : es[i].get # g
  BY DEF EventOf
<1> HIDE DEF add, us, qv, cb
<1>9. ListenersFit(c, qv, nu, cb)
  BY <1>3, <1>4, <1>6 DEF Life, ListenersFit
<1>10. CallsFit(c, us, es, qv, nu, cb)
  <2>1. IsOneToOne(cb)
    BY <1>3, <1>7 DEF Life, CallsFit, IsOneToOne
  <2>2. ToSet(cb) \cap nu = {}
    BY <1>3 DEF Life, CallsFit
  <2>3. ASSUME NEW h \in ToSet(ca)
        PROVE  /\ qv[h] \in Queries
               /\ AddOf(us, h) \/ h \in Listeners(c, Queries) \/ EventOf(es, h)
               /\ h \in c.raised => EventOf(es, h)
    <3>1. h \in Gets \ {g}
      BY <1>7 DEF ToSet
    <3>2. AddOf(ts, h) => AddOf(us, h)
      BY <1>2 DEF AddOf
    <3> QED BY <3>1, <3>2, <1>4 DEF Life, CallsFit
  <2>4. AddOf(us, g) /\ g \notin c.raised
    BY <1>2 DEF AddOf, Life, ListenersFit, add
  <2> QED BY <2>1, <2>2, <2>3, <2>4, <1>3, <1>4 DEF CallsFit
<1>11. TasksFit(c, us, es, qv, nu, cb)
  <2>1. \A i, j \in DOMAIN us : us[i].get = us[j].get => i = j
    BY <1>1, <1>2, <1>5 DEF Life, TasksFit
  <2>2. ASSUME NEW i \in DOMAIN us
        PROVE  /\ qv[us[i].get] \in Queries
               /\ IF us[i].what = "add"
                    THEN /\ us[i].get \in ToSet(cb) /\ ~EventOf(es, us[i].get)
                         /\ us[i].get \notin Listeners(c, Queries)
                    ELSE us[i].get \in nu
    <3>1. CASE i \in DOMAIN ts
      BY <3>1, <1>2, <1>3, <1>4, <1>5 DEF Life, TasksFit
    <3>2. CASE i = Len(ts) + 1
      BY <3>2, <1>1, <1>2, <1>3, <1>4
    <3> QED BY <3>1, <3>2, <1>2
  <2> QED BY <2>1, <2>2 DEF TasksFit
<1>12. EventsFit(c, es, nu, cb)
  BY <1>3, <1>8 DEF Life, EventsFit
<1>13. OrderKept(c, us, es, qv, cb)
  <2> SUFFICES ASSUME NEW n \in DOMAIN cb, NEW m \in 1 .. n - 1, qv[cb[m]] = qv[cb[n]]
               PROVE  /\ \A j \in DOMAIN us : us[j] = [what |-> "add", get |-> cb[m]] =>
                           \E k \in DOMAIN us : k > j /\ us[k] = [what |-> "add", get |-> cb[n]]
                      /\ cb[n] \in Listeners(c, Queries) =>
                           Before(c, cb[m], cb[n]) \/ EventOf(es, cb[m])
                      /\ \A j \in DOMAIN es : es[j].get = cb[n] =>
                           \E k \in DOMAIN es : k < j /\ es[k].get = cb[m]
    BY DEF OrderKept
  <2>1. m \in DOMAIN ca /\ cb[m] = ca[m]
    BY <1>3
  <2>2. \A j \in DOMAIN us : us[j] = [what |-> "add", get |-> cb[m]] =>
          j \in DOMAIN ts /\ us[j] = ts[j]
    BY <1>1, <1>2, <1>7, <2>1
  <2>3. CASE n \in DOMAIN ca
    <3>1. cb[n] = ca[n] /\ qu[ca[m]] = qu[ca[n]]
      BY <1>3, <1>4, <1>7, <2>1, <2>3
    <3>2. /\ \A j \in DOMAIN ts : ts[j] = [what |-> "add", get |-> ca[m]] =>
               \E k \in DOMAIN ts : k > j /\ ts[k] = [what |-> "add", get |-> ca[n]]
          /\ ca[n] \in Listeners(c, Queries) => Before(c, ca[m], ca[n]) \/ EventOf(es, ca[m])
          /\ \A j \in DOMAIN es : es[j].get = ca[n] =>
               \E k \in DOMAIN es : k < j /\ es[k].get = ca[m]
      BY <2>3, <3>1 DEF Life, OrderKept
    <3> QED BY <3>1, <3>2, <2>1, <2>2, <1>2
  <2>4. CASE n = Len(ca) + 1
    <3>1. cb[n] = g
      BY <2>4, <1>3
    <3>2. \A j \in DOMAIN ts : Len(ts) + 1 > j
      BY <1>2
    <3> QED BY <3>1, <3>2, <2>2, <1>2, <1>8 DEF add
  <2> QED BY <2>3, <2>4, <1>3
<1> QED BY <1>9, <1>10, <1>11, <1>12, <1>13 DEF Life, add, us, qv, cb

\* d has one more listener than c.
Extended(c, d, q, g) ==
  /\ d.listeners[q] = Append(c.listeners[q], g)
  /\ \A p \in Queries \ {q} : d.listeners[p] = c.listeners[p]

\* The listener of a call is added.
LEMMA Added ==
  ASSUME NEW c \in Clients, NEW ts \in Seq(TaskRecords), NEW es \in Seq(EventRecords),
         NEW qu, NEW mu, NEW ca \in Seq(Gets), WellListed(c),
         Life(c, ts, es, qu, mu, ca),
         ts # <<>>, Head(ts).what = "add",
         NEW d \in Clients, d.raised = c.raised,
         Extended(c, d, qu[Head(ts).get], Head(ts).get)
  PROVE  Life(d, Tail(ts), es, qu, mu, ca) /\ WellListed(d)
<1> DEFINE g == Head(ts).get
           q == qu[g]
           us == Tail(ts)
           L == c.listeners[q]
           M == Append(L, g)
<1>1. /\ us \in Seq(TaskRecords) /\ Head(ts) = ts[1] /\ 1 \in DOMAIN ts
      /\ Len(ts) \in Nat /\ DOMAIN ts = 1 .. Len(ts) /\ DOMAIN us = 1 .. Len(ts) - 1
      /\ \A i \in DOMAIN us : i + 1 \in DOMAIN ts /\ us[i] = ts[i + 1]
      /\ \A i \in DOMAIN ts : i # 1 => i - 1 \in DOMAIN us /\ us[i - 1] = ts[i]
      /\ \A i \in DOMAIN ts : \A j \in DOMAIN ts : i < j => j # 1
  BY TailFacts
<1>2. ts[1] = [what |-> "add", get |-> g] /\ g \in Gets
  <2>1. ts[1] \in TaskRecords
    BY <1>1
  <2> QED BY <1>1, <2>1 DEF TaskRecords
<1> HIDE DEF g, us
<1>3. /\ q \in Queries /\ g \in ToSet(ca) /\ ~EventOf(es, g)
      /\ g \notin Listeners(c, Queries)
  <2>1. ts[1].get = g /\ ts[1].what = "add"
    BY <1>2
  <2>2. TasksFit(c, ts, es, qu, mu, ca)
    BY DEF Life
  <2> QED BY <2>1, <2>2, <1>1 DEF TasksFit
<1>4. \A i \in DOMAIN us : us[i].get # g
  BY <1>1, <1>2 DEF Life, TasksFit
<1>5. L \in Seq(Gets)
  BY <1>3 DEF Clients
<1>6. /\ M \in Seq(Gets) /\ Len(L) \in Nat /\ DOMAIN L = 1 .. Len(L)
      /\ DOMAIN M = 1 .. Len(L) + 1
      /\ \A i \in DOMAIN L : i \in DOMAIN M /\ M[i] = L[i] /\ i < Len(L) + 1
      /\ Len(L) + 1 \in DOMAIN M /\ M[Len(L) + 1] = g
      /\ \A i \in DOMAIN M : i \in DOMAIN L \/ i = Len(L) + 1
      /\ ToSet(M) = ToSet(L) \cup {g}
  BY <1>2, <1>5, AppendFacts
<1>8. /\ d.listeners[q] = M /\ \A p \in Queries \ {q} : d.listeners[p] = c.listeners[p]
      /\ d.listeners \in [Queries -> Seq(Gets)]
  <2>1. Extended(c, d, q, g)
    BY DEF g
  <2> HIDE DEF q
  <2> QED BY <2>1, <1>3 DEF Extended, Clients
<1> HIDE DEF q, M
<1>9. \A p \in Queries : g \notin ToSet(c.listeners[p])
  BY <1>3 DEF Listeners
<1>10. IsOneToOne(M)
  <2>1. \A i \in DOMAIN L : L[i] # g
    BY <1>3, <1>9 DEF ToSet
  <2>2. IsOneToOne(L)
    BY <1>3 DEF WellListed
  <2> QED BY <2>1, <2>2, <1>6 DEF IsOneToOne
<1>11. Listeners(d, Queries) = Listeners(c, Queries) \cup {g}
  <2>1. /\ ToSet(d.listeners[q]) = ToSet(c.listeners[q]) \cup {g}
        /\ \A p \in Queries \ {q} : ToSet(d.listeners[p]) = ToSet(c.listeners[p])
    BY <1>6, <1>8
  <2>2. \A h : h \in Listeners(d, Queries) <=> \E p \in Queries : h \in ToSet(d.listeners[p])
    BY DEF Listeners
  <2>3. \A h : h \in Listeners(c, Queries) <=> \E p \in Queries : h \in ToSet(c.listeners[p])
    BY DEF Listeners
  <2> HIDE DEF L
  <2> QED BY <2>1, <2>2, <2>3, <1>3
<1>12. WellListed(d)
  <2>1. \A p \in Queries : IsOneToOne(d.listeners[p])
    BY <1>8, <1>10 DEF WellListed
  <2>2. /\ ToSet(d.listeners[q]) = ToSet(c.listeners[q]) \cup {g}
        /\ \A p \in Queries \ {q} : ToSet(d.listeners[p]) = ToSet(c.listeners[p])
    BY <1>6, <1>8
  <2>3. \A p, r \in Queries : \A h \in ToSet(d.listeners[p]) :
          h \in ToSet(d.listeners[r]) => p = r
    <3> SUFFICES ASSUME NEW p \in Queries, NEW r \in Queries, NEW h \in ToSet(d.listeners[p]),
                        h \in ToSet(d.listeners[r])
                 PROVE  p = r
      OBVIOUS
    <3>1. CASE h = g
      <4>1. p = q /\ r = q
        BY <3>1, <2>2, <1>9
      <4> QED BY <4>1
    <3>2. CASE h # g
      <4>1. h \in ToSet(c.listeners[p]) /\ h \in ToSet(c.listeners[r])
        <5>1. ASSUME NEW x \in Queries, h \in ToSet(d.listeners[x]) PROVE h \in ToSet(c.listeners[x])
          <6>1. CASE x = q
            BY <6>1, <5>1, <3>2, <2>2
          <6>2. CASE x # q
            BY <6>2, <5>1, <2>2
          <6> QED BY <6>1, <6>2
        <5> QED BY <5>1
      <4> QED BY <4>1 DEF WellListed
    <3> QED BY <3>1, <3>2
  <2> QED BY <2>1, <2>3, <1>8 DEF WellListed
<1>13. ListenersFit(d, qu, mu, ca)
  <2>1. \A p \in Queries : IsOneToOne(d.listeners[p])
    BY <1>8, <1>10 DEF WellListed
  <2>2. ASSUME NEW p \in Queries, NEW h \in ToSet(d.listeners[p])
        PROVE  qu[h] = p /\ (h \in mu \/ h \in ToSet(ca))
    <3>1. CASE h = g
      <4>1. p = q
        BY <2>2, <3>1, <1>8, <1>9
      <4> QED BY <3>1, <4>1, <1>3 DEF q
    <3>2. CASE h # g
      <4>1. h \in ToSet(c.listeners[p])
        BY <2>2, <3>2, <1>6, <1>8
      <4> QED BY <4>1 DEF Life, ListenersFit
    <3> QED BY <3>1, <3>2
  <2>3. d.raised \subseteq Listeners(d, Queries)
    BY <1>11 DEF Life, ListenersFit
  <2> QED BY <2>1, <2>2, <2>3 DEF ListenersFit
<1>14. CallsFit(d, us, es, qu, mu, ca)
  <2>1. ASSUME NEW h \in ToSet(ca), AddOf(ts, h), h # g PROVE AddOf(us, h)
    <3>1. PICK i \in DOMAIN ts : ts[i] = [what |-> "add", get |-> h]
      BY <2>1 DEF AddOf
    <3>2. i # 1
      BY <3>1, <2>1, <1>2
    <3>3. i - 1 \in DOMAIN us /\ us[i - 1] = [what |-> "add", get |-> h]
      BY <3>1, <3>2, <1>1
    <3> QED BY <3>3 DEF AddOf
  <2> QED BY <2>1, <1>11 DEF Life, CallsFit
<1>15. TasksFit(d, us, es, qu, mu, ca)
  <2>1. \A i, j \in DOMAIN us : us[i].get = us[j].get => i = j
    BY <1>1 DEF Life, TasksFit
  <2> QED BY <2>1, <1>1, <1>4, <1>11 DEF Life, TasksFit
<1>16. EventsFit(d, es, mu, ca)
  BY <1>3, <1>11 DEF Life, EventsFit, EventOf
<1>17. OrderKept(d, us, es, qu, ca)
  <2> SUFFICES ASSUME NEW n \in DOMAIN ca, NEW m \in 1 .. n - 1, qu[ca[m]] = qu[ca[n]]
               PROVE  /\ \A j \in DOMAIN us : us[j] = [what |-> "add", get |-> ca[m]] =>
                           \E k \in DOMAIN us : k > j /\ us[k] = [what |-> "add", get |-> ca[n]]
                      /\ ca[n] \in Listeners(d, Queries) =>
                           Before(d, ca[m], ca[n]) \/ EventOf(es, ca[m])
                      /\ \A j \in DOMAIN es : es[j].get = ca[n] =>
                           \E k \in DOMAIN es : k < j /\ es[k].get = ca[m]
    BY DEF OrderKept
  <2>1. /\ \A j \in DOMAIN ts : ts[j] = [what |-> "add", get |-> ca[m]] =>
             \E k \in DOMAIN ts : k > j /\ ts[k] = [what |-> "add", get |-> ca[n]]
        /\ ca[n] \in Listeners(c, Queries) => Before(c, ca[m], ca[n]) \/ EventOf(es, ca[m])
        /\ \A j \in DOMAIN es : es[j].get = ca[n] =>
             \E k \in DOMAIN es : k < j /\ es[k].get = ca[m]
    BY DEF Life, OrderKept
  <2>2. m \in DOMAIN ca /\ ca[m] \in ToSet(ca) /\ ca[m] # ca[n]
    BY DEF ToSet, Life, CallsFit, IsOneToOne
  <2>3. ASSUME NEW j \in DOMAIN us, us[j] = [what |-> "add", get |-> ca[m]]
        PROVE  \E k \in DOMAIN us : k > j /\ us[k] = [what |-> "add", get |-> ca[n]]
    <3>1. PICK k \in DOMAIN ts : k > j + 1 /\ ts[k] = [what |-> "add", get |-> ca[n]]
      BY <2>1, <2>3, <1>1
    <3>2. k # 1 /\ k - 1 > j
      BY <3>1, <1>1
    <3>3. k - 1 \in DOMAIN us /\ us[k - 1] = ts[k]
      BY <3>2, <1>1
    <3> QED BY <3>1, <3>2, <3>3
  <2>4. ASSUME NEW a, NEW b, Before(c, a, b) PROVE Before(d, a, b)
    <3>1. PICK p \in Queries : \E j \in DOMAIN c.listeners[p] : \E i \in 1 .. j - 1 :
            c.listeners[p][i] = a /\ c.listeners[p][j] = b
      BY <2>4 DEF Before
    <3>2. \A i \in DOMAIN c.listeners[p] :
            i \in DOMAIN d.listeners[p] /\ d.listeners[p][i] = c.listeners[p][i]
      BY <1>6, <1>8
    <3>3. \A j \in DOMAIN c.listeners[p] : \A i \in 1 .. j - 1 : i \in DOMAIN c.listeners[p]
      BY DEF WellListed
    <3>4. PICK j \in DOMAIN c.listeners[p] : \E i \in 1 .. j - 1 :
            c.listeners[p][i] = a /\ c.listeners[p][j] = b
      BY <3>1
    <3>5. PICK i \in 1 .. j - 1 : c.listeners[p][i] = a /\ c.listeners[p][j] = b
      BY <3>4
    <3>6. j \in DOMAIN d.listeners[p] /\ d.listeners[p][i] = a /\ d.listeners[p][j] = b
      BY <3>2, <3>3, <3>5
    <3> QED BY <3>6 DEF Before
  <2>5. ASSUME ca[n] = g, ~EventOf(es, ca[m]) PROVE Before(d, ca[m], g)
    <3>1. ~AddOf(ts, ca[m])
      BY <2>1, <2>5, <1>1, <1>2 DEF AddOf, Life, TasksFit
    <3>2. ca[m] \in Listeners(c, Queries)
      BY <3>1, <2>2, <2>5 DEF Life, CallsFit
    <3>3. ca[m] \in ToSet(L)
      <4>1. PICK p \in Queries : ca[m] \in ToSet(c.listeners[p])
        BY <3>2 DEF Listeners
      <4>2. qu[ca[m]] = p
        BY <4>1 DEF Life, ListenersFit
      <4> QED BY <4>1, <4>2, <2>5 DEF q
    <3>4. PICK i \in DOMAIN L : L[i] = ca[m]
      BY <3>3 DEF ToSet
    <3>5. i \in 1 .. (Len(L) + 1) - 1
      BY <3>4, <1>6
    <3>6. d.listeners[q][i] = ca[m] /\ d.listeners[q][Len(L) + 1] = g
          /\ Len(L) + 1 \in DOMAIN d.listeners[q]
      BY <3>4, <1>6, <1>8
    <3> QED BY <3>5, <3>6, <1>3 DEF Before
  <2>6. ca[n] \in Listeners(d, Queries) => Before(d, ca[m], ca[n]) \/ EventOf(es, ca[m])
    BY <2>1, <2>4, <2>5, <1>11
  <2> QED BY <2>1, <2>3, <2>6
<1> QED BY <1>12, <1>13, <1>14, <1>15, <1>16, <1>17 DEF Life, us

\* The listener of a call with an answer is taken away.
LEMMA Removed ==
  ASSUME NEW c \in Clients, NEW ts \in Seq(TaskRecords), NEW es \in Seq(EventRecords),
         NEW qu \in [Gets -> Queries \cup {NoQuery}], NEW mu, NEW ca \in Seq(Gets),
         WellListed(c), Life(c, ts, es, qu, mu, ca),
         ts # <<>>, Head(ts).what = "remove",
         NEW d \in Clients, d.raised = c.raised \ {Head(ts).get},
         d.listeners = [c.listeners EXCEPT ![qu[Head(ts).get]] = RemoveFirst(@, Head(ts).get)]
  PROVE  Life(d, Tail(ts), es, [qu EXCEPT ![Head(ts).get] = NoQuery], mu, ca)
<1> DEFINE g == Head(ts).get
           q == qu[g]
           us == Tail(ts)
           L == c.listeners[q]
           M == RemoveFirst(L, g)
           qv == [qu EXCEPT ![g] = NoQuery]
<1>1. /\ us \in Seq(TaskRecords) /\ Head(ts) = ts[1] /\ 1 \in DOMAIN ts
      /\ Len(ts) \in Nat /\ DOMAIN ts = 1 .. Len(ts) /\ DOMAIN us = 1 .. Len(ts) - 1
      /\ \A i \in DOMAIN us : i + 1 \in DOMAIN ts /\ us[i] = ts[i + 1]
      /\ \A i \in DOMAIN ts : i # 1 => i - 1 \in DOMAIN us /\ us[i - 1] = ts[i]
      /\ \A i \in DOMAIN ts : \A j \in DOMAIN ts : i < j => j # 1
  BY TailFacts
<1>2. ts[1].what = "remove" /\ ts[1].get = g /\ g \in Gets
  <2>1. ts[1] \in TaskRecords
    BY <1>1
  <2> QED BY <1>1, <2>1 DEF TaskRecords
<1> HIDE DEF g, us
<1>3. q \in Queries /\ g \in mu /\ g \notin ToSet(ca)
  <2>1. TasksFit(c, ts, es, qu, mu, ca) /\ CallsFit(c, ts, es, qu, mu, ca)
    BY DEF Life
  <2>2. q \in Queries /\ g \in mu
    BY <2>1, <1>1, <1>2 DEF TasksFit
  <2> QED BY <2>1, <2>2 DEF CallsFit
<1>4. \A i \in DOMAIN us : us[i].get # g
  <2>1. \A i, j \in DOMAIN ts : ts[i].get = ts[j].get => i = j
    BY DEF Life, TasksFit
  <2>2. ASSUME NEW i \in DOMAIN us, us[i].get = g PROVE FALSE
    <3>1. i + 1 \in DOMAIN ts /\ ts[i + 1].get = g /\ i + 1 # 1
      BY <2>2, <1>1
    <3> QED BY <3>1, <2>1, <1>1, <1>2
  <2> QED BY <2>2
<1>5. \A h \in Gets \ {g} : qv[h] = qu[h]
  OBVIOUS
<1>6. L \in Seq(Gets) /\ IsOneToOne(L)
  BY <1>3 DEF Clients, WellListed
<1>7. /\ M \in Seq(Gets) /\ IsOneToOne(M) /\ ToSet(M) = ToSet(L) \ {g}
      /\ OmitsOnly(M, L, g)
  <2>1. M = RemoveFirst(L, g)
    OBVIOUS
  <2> HIDE DEF L, M
  <2> QED BY <2>1, <1>6, RemoveFirstFacts
<1>8. /\ d.listeners[q] = M /\ \A p \in Queries \ {q} : d.listeners[p] = c.listeners[p]
      /\ c.listeners[q] = L
  <2>1. d.listeners = [c.listeners EXCEPT ![q] = M]
    BY DEF g
  <2> QED BY <2>1, <1>3 DEF Clients
<1> HIDE DEF q, M, L, qv
<1>9. \A p \in Queries : g \in ToSet(c.listeners[p]) => p = q
  BY DEF Life, ListenersFit, q
<1>10. \A p \in Queries : ToSet(d.listeners[p]) = ToSet(c.listeners[p]) \ {g}
  <2> SUFFICES ASSUME NEW p \in Queries PROVE ToSet(d.listeners[p]) = ToSet(c.listeners[p]) \ {g}
    OBVIOUS
  <2>1. CASE p = q
    BY <2>1, <1>7, <1>8
  <2>2. CASE p # q
    <3>1. d.listeners[p] = c.listeners[p] /\ g \notin ToSet(c.listeners[p])
      BY <2>2, <1>8, <1>9
    <3> QED BY <3>1
  <2> QED BY <2>1, <2>2
<1>11. \A h : h \in Listeners(d, Queries) <=> h \in Listeners(c, Queries) /\ h # g
  <2>1. \A h : h \in Listeners(d, Queries) <=> \E p \in Queries : h \in ToSet(d.listeners[p])
    BY DEF Listeners
  <2>2. \A h : h \in Listeners(c, Queries) <=> \E p \in Queries : h \in ToSet(c.listeners[p])
    BY DEF Listeners
  <2>3. \A h : \A p \in Queries :
          h \in ToSet(d.listeners[p]) <=> h \in ToSet(c.listeners[p]) /\ h # g
    BY <1>10
  <2> QED BY <2>1, <2>2, <2>3, Zenon
<1>12. \A p \in Queries : \A h \in ToSet(c.listeners[p]) : h \in Gets
  BY DEF Clients, ToSet
<1>13. \A h \in ToSet(ca) : h \in Gets \ {g}
  BY <1>3 DEF ToSet
<1>14. ListenersFit(d, qv, mu, ca)
  <2>1. ASSUME NEW p \in Queries PROVE IsOneToOne(d.listeners[p])
    <3>1. CASE p = q
      BY <3>1, <1>7, <1>8
    <3>2. CASE p # q
      BY <3>2, <1>8 DEF WellListed
    <3> QED BY <3>1, <3>2
  <2>2. ASSUME NEW p \in Queries, NEW h \in ToSet(d.listeners[p])
        PROVE  qv[h] = p /\ (h \in mu \/ h \in ToSet(ca))
    <3>1. h \in ToSet(c.listeners[p]) /\ h # g
      BY <2>2, <1>10
    <3> QED BY <3>1, <1>5, <1>12 DEF Life, ListenersFit
  <2>3. d.raised \subseteq Listeners(d, Queries)
    BY <1>11 DEF Life, ListenersFit, g
  <2> QED BY <2>1, <2>2, <2>3 DEF ListenersFit
<1>15. CallsFit(d, us, es, qv, mu, ca)
  <2>1. ASSUME NEW h \in ToSet(ca), AddOf(ts, h) PROVE AddOf(us, h)
    BY <2>1, <1>1, <1>2 DEF AddOf
  <2>2. CallsFit(c, ts, es, qu, mu, ca)
    BY DEF Life
  <2>3. ASSUME NEW h \in ToSet(ca)
        PROVE  /\ qv[h] \in Queries
               /\ AddOf(us, h) \/ h \in Listeners(d, Queries) \/ EventOf(es, h)
               /\ h \in d.raised => EventOf(es, h)
    BY <2>1, <2>2, <1>5, <1>11, <1>13 DEF CallsFit
  <2> QED BY <2>2, <2>3 DEF CallsFit
<1>16. TasksFit(d, us, es, qv, mu, ca)
  <2>1. TasksFit(c, ts, es, qu, mu, ca)
    BY DEF Life
  <2>2. \A i, j \in DOMAIN us : us[i].get = us[j].get => i = j
    BY <2>1, <1>1 DEF TasksFit
  <2>3. ASSUME NEW i \in DOMAIN us
        PROVE  /\ qv[us[i].get] \in Queries
               /\ IF us[i].what = "add"
                    THEN /\ us[i].get \in ToSet(ca) /\ ~EventOf(es, us[i].get)
                         /\ us[i].get \notin Listeners(d, Queries)
                    ELSE us[i].get \in mu
    <3>1. us[i].get \in Gets /\ us[i].get # g
      <4>1. us[i] \in TaskRecords
        BY <1>1
      <4> QED BY <4>1, <1>4 DEF TaskRecords
    <3>2. i + 1 \in DOMAIN ts /\ ts[i + 1] = us[i]
      BY <1>1
    <3> QED BY <3>1, <3>2, <2>1, <1>5, <1>11 DEF TasksFit
  <2> QED BY <2>2, <2>3 DEF TasksFit
<1>17. EventsFit(d, es, mu, ca)
  BY <1>11 DEF Life, EventsFit
<1>18. OrderKept(d, us, es, qv, ca)
  <2> SUFFICES ASSUME NEW n \in DOMAIN ca, NEW m \in 1 .. n - 1, qv[ca[m]] = qv[ca[n]]
               PROVE  /\ \A j \in DOMAIN us : us[j] = [what |-> "add", get |-> ca[m]] =>
                           \E k \in DOMAIN us : k > j /\ us[k] = [what |-> "add", get |-> ca[n]]
                      /\ ca[n] \in Listeners(d, Queries) =>
                           Before(d, ca[m], ca[n]) \/ EventOf(es, ca[m])
                      /\ \A j \in DOMAIN es : es[j].get = ca[n] =>
                           \E k \in DOMAIN es : k < j /\ es[k].get = ca[m]
    BY DEF OrderKept
  <2>1. m \in DOMAIN ca /\ ca[m] \in Gets \ {g} /\ ca[n] \in Gets \ {g}
    BY <1>13 DEF ToSet
  <2>2. /\ \A j \in DOMAIN ts : ts[j] = [what |-> "add", get |-> ca[m]] =>
             \E k \in DOMAIN ts : k > j /\ ts[k] = [what |-> "add", get |-> ca[n]]
        /\ ca[n] \in Listeners(c, Queries) => Before(c, ca[m], ca[n]) \/ EventOf(es, ca[m])
        /\ \A j \in DOMAIN es : es[j].get = ca[n] =>
             \E k \in DOMAIN es : k < j /\ es[k].get = ca[m]
    <3>1. qu[ca[m]] = qu[ca[n]]
      BY <1>5, <2>1
    <3> QED BY <3>1 DEF Life, OrderKept
  <2>3. ASSUME NEW j \in DOMAIN us, us[j] = [what |-> "add", get |-> ca[m]]
        PROVE  \E k \in DOMAIN us : k > j /\ us[k] = [what |-> "add", get |-> ca[n]]
    <3>1. PICK k \in DOMAIN ts : k > j + 1 /\ ts[k] = [what |-> "add", get |-> ca[n]]
      BY <2>2, <2>3, <1>1
    <3>2. k # 1 /\ k - 1 > j
      BY <3>1, <1>1
    <3>3. k - 1 \in DOMAIN us /\ us[k - 1] = ts[k]
      BY <3>2, <1>1
    <3> QED BY <3>1, <3>2, <3>3
  <2>4. ASSUME Before(c, ca[m], ca[n]) PROVE Before(d, ca[m], ca[n])
    <3>1. PICK p \in Queries : \E j \in DOMAIN c.listeners[p] : \E i \in 1 .. j - 1 :
            c.listeners[p][i] = ca[m] /\ c.listeners[p][j] = ca[n]
      BY <2>4 DEF Before
    <3>2. CASE p = q
      <4>1. \E j \in DOMAIN M : \E i \in 1 .. j - 1 : M[i] = ca[m] /\ M[j] = ca[n]
        BY <3>1, <3>2, <2>1, <1>7, <1>8 DEF OmitsOnly
      <4> QED BY <4>1, <1>3, <1>8 DEF Before
    <3>3. CASE p # q
      BY <3>1, <3>3, <1>8 DEF Before
    <3> QED BY <3>2, <3>3
  <2> QED BY <2>2, <2>3, <2>4, <1>11
<1> QED BY <1>14, <1>15, <1>16, <1>17, <1>18 DEF Life, g, us, qv

\* The main queue gets to an event: the answers that are left keep their order.
LEMMA OrderDelivered ==
  ASSUME NEW c, NEW ts, NEW es \in Seq(EventRecords), es # <<>>, NEW qu, NEW qv,
         NEW ca, NEW cb \in Seq(Gets), OrderKept(c, ts, es, qu, ca),
         KeepsOrder(cb, ca),
         \A n \in DOMAIN cb : cb[n] # Head(es).get /\ qv[cb[n]] = qu[cb[n]]
  PROVE  OrderKept(c, ts, Tail(es), qv, cb)
<1> DEFINE fs == Tail(es)
<1>1. /\ Head(es) = es[1] /\ 1 \in DOMAIN es
      /\ Len(es) \in Nat /\ DOMAIN es = 1 .. Len(es) /\ DOMAIN fs = 1 .. Len(es) - 1
      /\ \A i \in DOMAIN fs : i + 1 \in DOMAIN es /\ fs[i] = es[i + 1]
      /\ \A i \in DOMAIN es : i # 1 => i - 1 \in DOMAIN fs /\ fs[i - 1] = es[i]
  BY TailFacts
<1> HIDE DEF fs
<1> SUFFICES ASSUME NEW n \in DOMAIN cb, NEW m \in 1 .. n - 1, qv[cb[m]] = qv[cb[n]]
             PROVE  /\ \A j \in DOMAIN ts : ts[j] = [what |-> "add", get |-> cb[m]] =>
                         \E k \in DOMAIN ts : k > j /\ ts[k] = [what |-> "add", get |-> cb[n]]
                    /\ cb[n] \in Listeners(c, Queries) =>
                         Before(c, cb[m], cb[n]) \/ EventOf(fs, cb[m])
                    /\ \A j \in DOMAIN fs : fs[j].get = cb[n] =>
                         \E k \in DOMAIN fs : k < j /\ fs[k].get = cb[m]
  BY DEF OrderKept, fs
<1>2. m \in DOMAIN cb
  OBVIOUS
<1>3. qu[cb[m]] = qu[cb[n]] /\ cb[m] # es[1].get
  BY <1>1, <1>2
<1>4. PICK l \in DOMAIN ca : \E k \in 1 .. l - 1 : ca[k] = cb[m] /\ ca[l] = cb[n]
  BY DEF KeepsOrder
<1>5. PICK k \in 1 .. l - 1 : ca[k] = cb[m] /\ ca[l] = cb[n]
  BY <1>4
<1>6. /\ \A j \in DOMAIN ts : ts[j] = [what |-> "add", get |-> cb[m]] =>
           \E i \in DOMAIN ts : i > j /\ ts[i] = [what |-> "add", get |-> cb[n]]
      /\ cb[n] \in Listeners(c, Queries) => Before(c, cb[m], cb[n]) \/ EventOf(es, cb[m])
      /\ \A j \in DOMAIN es : es[j].get = cb[n] =>
           \E i \in DOMAIN es : i < j /\ es[i].get = cb[m]
  <2>1. qu[ca[k]] = qu[ca[l]]
    BY <1>3, <1>5
  <2> QED BY <2>1, <1>5 DEF OrderKept
<1>7. ASSUME EventOf(es, cb[m]) PROVE EventOf(fs, cb[m])
  <2>1. PICK i \in DOMAIN es : es[i].get = cb[m]
    BY <1>7 DEF EventOf
  <2>2. i - 1 \in DOMAIN fs /\ fs[i - 1].get = cb[m]
    BY <2>1, <1>1, <1>3
  <2> QED BY <2>2 DEF EventOf
<1>8. ASSUME NEW j \in DOMAIN fs, fs[j].get = cb[n]
      PROVE  \E i \in DOMAIN fs : i < j /\ fs[i].get = cb[m]
  <2>1. j + 1 \in DOMAIN es /\ es[j + 1].get = cb[n]
    BY <1>1, <1>8
  <2>2. PICK i \in DOMAIN es : i < j + 1 /\ es[i].get = cb[m]
    BY <2>1, <1>6
  <2>3. i # 1
    BY <2>2, <1>3
  <2>4. i - 1 \in DOMAIN fs /\ fs[i - 1].get = cb[m] /\ i - 1 < j
    BY <2>2, <2>3, <1>1
  <2> QED BY <2>4
<1> QED BY <1>6, <1>7, <1>8

\* An event that its listener ignores.
LEMMA Ignored ==
  ASSUME NEW c, NEW ts, NEW es \in Seq(EventRecords), es # <<>>, NEW qu, NEW mu,
         NEW ca \in Seq(Gets), Life(c, ts, es, qu, mu, ca), Head(es).get \in mu
  PROVE  Life(c, ts, Tail(es), qu, mu, ca)
<1> DEFINE fs == Tail(es)
<1>1. /\ Head(es) = es[1] /\ 1 \in DOMAIN es
      /\ Len(es) \in Nat /\ DOMAIN es = 1 .. Len(es) /\ DOMAIN fs = 1 .. Len(es) - 1
      /\ \A i \in DOMAIN fs : i + 1 \in DOMAIN es /\ fs[i] = es[i + 1]
      /\ \A i \in DOMAIN es : i # 1 => i - 1 \in DOMAIN fs /\ fs[i - 1] = es[i]
  BY TailFacts
<1> HIDE DEF fs
<1>2. /\ CallsFit(c, ts, es, qu, mu, ca) /\ TasksFit(c, ts, es, qu, mu, ca)
      /\ EventsFit(c, es, mu, ca) /\ OrderKept(c, ts, es, qu, ca)
  BY DEF Life
<1>3. \A h : EventOf(fs, h) => EventOf(es, h)
  BY <1>1 DEF EventOf
<1>4. \A h \in ToSet(ca) : h # es[1].get
  BY <1>1, <1>2 DEF CallsFit
<1>5. \A h \in ToSet(ca) : EventOf(es, h) => EventOf(fs, h)
  BY <1>1, <1>4 DEF EventOf
<1>6. CallsFit(c, ts, fs, qu, mu, ca)
  BY <1>2, <1>5 DEF CallsFit
<1>7. TasksFit(c, ts, fs, qu, mu, ca)
  BY <1>2, <1>3 DEF TasksFit
<1>8. EventsFit(c, fs, mu, ca)
  <2>1. \A i, j \in DOMAIN fs : j > i => j + 1 > i + 1
    BY <1>1
  <2> QED BY <2>1, <1>1, <1>2 DEF EventsFit
<1>9. OrderKept(c, ts, fs, qu, ca)
  <2>1. \A n \in DOMAIN ca : ca[n] # Head(es).get /\ qu[ca[n]] = qu[ca[n]]
    BY <1>1, <1>4 DEF ToSet
  <2>2. KeepsOrder(ca, ca)
    BY DEF KeepsOrder
  <2> QED BY <2>1, <2>2, <1>2, OrderDelivered DEF fs
<1> QED BY <1>6, <1>7, <1>8, <1>9 DEF Life, fs

\* An event that answers a call and has its listener taken away.
LEMMA Answered ==
  ASSUME NEW c, NEW ts \in Seq(TaskRecords), NEW es \in Seq(EventRecords), es # <<>>,
         NEW qu, NEW mu, NEW ca \in Seq(Gets), Life(c, ts, es, qu, mu, ca),
         Head(es).get \notin mu, Head(es).result # "error"
  PROVE  /\ Head(es).get \in ToSet(ca)
         /\ Life(c, Append(ts, [what |-> "remove", get |-> Head(es).get]), Tail(es), qu,
                 mu \cup {Head(es).get}, RemoveFirst(ca, Head(es).get))
<1> DEFINE g == Head(es).get
           remove == [what |-> "remove", get |-> g]
           us == Append(ts, remove)
           fs == Tail(es)
           nu == mu \cup {g}
           cb == RemoveFirst(ca, g)
<1>1. /\ Head(es) = es[1] /\ 1 \in DOMAIN es
      /\ Len(es) \in Nat /\ DOMAIN es = 1 .. Len(es) /\ DOMAIN fs = 1 .. Len(es) - 1
      /\ \A i \in DOMAIN fs : i + 1 \in DOMAIN es /\ fs[i] = es[i + 1]
      /\ \A i \in DOMAIN es : i # 1 => i - 1 \in DOMAIN fs /\ fs[i - 1] = es[i]
  BY TailFacts
<1>2. g \in Gets /\ es[1].get = g
  <2>1. es[1] \in EventRecords
    BY <1>1
  <2> QED BY <1>1, <2>1 DEF EventRecords
<1> HIDE DEF g, fs
<1>3. remove \in TaskRecords /\ remove.get = g /\ remove.what = "remove"
  BY <1>2 DEF TaskRecords
<1>4. /\ us \in Seq(TaskRecords) /\ DOMAIN us = 1 .. Len(ts) + 1
      /\ Len(ts) \in Nat /\ DOMAIN ts = 1 .. Len(ts)
      /\ \A i \in DOMAIN ts : i \in DOMAIN us /\ us[i] = ts[i] /\ i < Len(ts) + 1
      /\ Len(ts) + 1 \in DOMAIN us /\ us[Len(ts) + 1] = remove
      /\ \A i \in DOMAIN us : i \in DOMAIN ts \/ i = Len(ts) + 1
  BY <1>3, AppendFacts
<1> HIDE DEF remove, us
<1>5. /\ ListenersFit(c, qu, mu, ca)
      /\ CallsFit(c, ts, es, qu, mu, ca) /\ TasksFit(c, ts, es, qu, mu, ca)
      /\ EventsFit(c, es, mu, ca) /\ OrderKept(c, ts, es, qu, ca)
  BY DEF Life
<1>6. g \in ToSet(ca) /\ g \notin mu /\ EventOf(es, g)
  BY <1>1, <1>2, <1>5 DEF EventsFit, EventOf, g
<1>7. /\ cb \in Seq(Gets) /\ IsOneToOne(cb) /\ ToSet(cb) = ToSet(ca) \ {g}
      /\ KeepsOrder(cb, ca)
  <2>1. cb = RemoveFirst(ca, g) /\ IsOneToOne(ca)
    BY <1>5 DEF CallsFit
  <2>2. ca \in Seq(Gets)
    OBVIOUS
  <2> HIDE DEF cb
  <2> QED BY <2>1, <2>2, RemoveFirstFacts
<1> HIDE DEF cb
<1>8. \A i \in DOMAIN ts : ts[i].get # g
  BY <1>5, <1>6 DEF TasksFit
<1>9. \A h : EventOf(fs, h) => EventOf(es, h)
  BY <1>1 DEF EventOf
<1>10. \A h \in ToSet(cb) : EventOf(es, h) => EventOf(fs, h)
  BY <1>1, <1>2, <1>7 DEF EventOf
<1>11. ListenersFit(c, qu, nu, cb)
  BY <1>5, <1>7 DEF ListenersFit
<1>12. CallsFit(c, us, fs, qu, nu, cb)
  <2>1. \A h : AddOf(ts, h) => AddOf(us, h)
    BY <1>4 DEF AddOf
  <2>2. ToSet(cb) \cap nu = {}
    BY <1>5, <1>7 DEF CallsFit
  <2> QED BY <2>1, <2>2, <1>5, <1>7, <1>10 DEF CallsFit
<1>13. TasksFit(c, us, fs, qu, nu, cb)
  <2>1. \A i, j \in DOMAIN us : us[i].get = us[j].get => i = j
    BY <1>3, <1>4, <1>5, <1>8 DEF TasksFit
  <2>2. ASSUME NEW i \in DOMAIN us
        PROVE  /\ qu[us[i].get] \in Queries
               /\ IF us[i].what = "add"
                    THEN /\ us[i].get \in ToSet(cb) /\ ~EventOf(fs, us[i].get)
                         /\ us[i].get \notin Listeners(c, Queries)
                    ELSE us[i].get \in nu
    <3>1. CASE i \in DOMAIN ts
      BY <3>1, <1>4, <1>5, <1>7, <1>8, <1>9 DEF TasksFit
    <3>2. CASE i = Len(ts) + 1
      BY <3>2, <1>3, <1>4, <1>5, <1>6 DEF CallsFit
    <3> QED BY <3>1, <3>2, <1>4
  <2> QED BY <2>1, <2>2 DEF TasksFit
<1>14. EventsFit(c, fs, nu, cb)
  <2>1. \A i, j \in DOMAIN fs : j > i => j + 1 > i + 1
    BY <1>1
  <2> QED BY <2>1, <1>1, <1>5, <1>7 DEF EventsFit
<1>15. OrderKept(c, us, fs, qu, cb)
  <2>1. \A n \in DOMAIN cb : cb[n] # Head(es).get /\ qu[cb[n]] = qu[cb[n]]
    <3>1. \A n \in DOMAIN cb : cb[n] \in ToSet(cb)
      BY DEF ToSet
    <3> QED BY <3>1, <1>7 DEF g
  <2>2. OrderKept(c, ts, fs, qu, cb)
    BY <2>1, <1>5, <1>7, OrderDelivered DEF fs
  <2>3. \A h : \A i \in DOMAIN us : us[i] = [what |-> "add", get |-> h] =>
          i \in DOMAIN ts /\ ts[i] = [what |-> "add", get |-> h]
    BY <1>3, <1>4
  <2>4. \A h : \A i \in DOMAIN ts : ts[i] = [what |-> "add", get |-> h] =>
          i \in DOMAIN us /\ us[i] = [what |-> "add", get |-> h]
    BY <1>4
  <2> SUFFICES ASSUME NEW n \in DOMAIN cb, NEW m \in 1 .. n - 1, qu[cb[m]] = qu[cb[n]]
               PROVE  /\ \A j \in DOMAIN us : us[j] = [what |-> "add", get |-> cb[m]] =>
                           \E k \in DOMAIN us : k > j /\ us[k] = [what |-> "add", get |-> cb[n]]
                      /\ cb[n] \in Listeners(c, Queries) =>
                           Before(c, cb[m], cb[n]) \/ EventOf(fs, cb[m])
                      /\ \A j \in DOMAIN fs : fs[j].get = cb[n] =>
                           \E k \in DOMAIN fs : k < j /\ fs[k].get = cb[m]
    BY DEF OrderKept
  <2>5. /\ \A j \in DOMAIN ts : ts[j] = [what |-> "add", get |-> cb[m]] =>
             \E k \in DOMAIN ts : k > j /\ ts[k] = [what |-> "add", get |-> cb[n]]
        /\ cb[n] \in Listeners(c, Queries) => Before(c, cb[m], cb[n]) \/ EventOf(fs, cb[m])
        /\ \A j \in DOMAIN fs : fs[j].get = cb[n] =>
             \E k \in DOMAIN fs : k < j /\ fs[k].get = cb[m]
    BY <2>2 DEF OrderKept
  <2> QED BY <2>3, <2>4, <2>5
<1> QED BY <1>6, <1>11, <1>12, <1>13, <1>14, <1>15 DEF Life, g, remove, us, fs, cb

\* An event that answers a call with an error.
LEMMA Failed ==
  ASSUME NEW c \in Clients, NEW ts \in Seq(TaskRecords), NEW es \in Seq(EventRecords), es # <<>>,
         NEW qu \in [Gets -> Queries \cup {NoQuery}], NEW mu, NEW ca \in Seq(Gets),
         Life(c, ts, es, qu, mu, ca), Head(es).get \notin mu, Head(es).result = "error"
  PROVE  /\ Head(es).get \in ToSet(ca)
         /\ Life(c, ts, Tail(es), [qu EXCEPT ![Head(es).get] = NoQuery], mu,
                 RemoveFirst(ca, Head(es).get))
<1> DEFINE g == Head(es).get
           fs == Tail(es)
           qv == [qu EXCEPT ![g] = NoQuery]
           cb == RemoveFirst(ca, g)
<1>1. /\ Head(es) = es[1] /\ 1 \in DOMAIN es /\ fs \in Seq(EventRecords)
      /\ Len(es) \in Nat /\ DOMAIN es = 1 .. Len(es) /\ DOMAIN fs = 1 .. Len(es) - 1
      /\ \A i \in DOMAIN fs : i + 1 \in DOMAIN es /\ fs[i] = es[i + 1]
      /\ \A i \in DOMAIN es : i # 1 => i - 1 \in DOMAIN fs /\ fs[i - 1] = es[i]
  BY TailFacts
<1>2. g \in Gets /\ es[1].get = g /\ es[1].result = "error"
  <2>1. es[1] \in EventRecords
    BY <1>1
  <2> QED BY <1>1, <2>1 DEF EventRecords
<1> HIDE DEF g, fs
<1>3. \A h \in Gets \ {g} : qv[h] = qu[h]
  OBVIOUS
<1> HIDE DEF qv
<1>4. /\ ListenersFit(c, qu, mu, ca)
      /\ CallsFit(c, ts, es, qu, mu, ca) /\ TasksFit(c, ts, es, qu, mu, ca)
      /\ EventsFit(c, es, mu, ca) /\ OrderKept(c, ts, es, qu, ca)
  BY DEF Life
<1>5. g \in ToSet(ca) /\ g \notin mu /\ EventOf(es, g) /\ g \notin Listeners(c, Queries)
  BY <1>1, <1>2, <1>4 DEF EventsFit, EventOf, g
<1>6. /\ cb \in Seq(Gets) /\ IsOneToOne(cb) /\ ToSet(cb) = ToSet(ca) \ {g}
      /\ KeepsOrder(cb, ca)
  <2>1. cb = RemoveFirst(ca, g) /\ IsOneToOne(ca)
    BY <1>4 DEF CallsFit
  <2>2. ca \in Seq(Gets)
    OBVIOUS
  <2> HIDE DEF cb
  <2> QED BY <2>1, <2>2, RemoveFirstFacts
<1> HIDE DEF cb
<1>7. \A i \in DOMAIN ts : ts[i].get \in Gets \ {g}
  <2>1. \A i \in DOMAIN ts : ts[i] \in TaskRecords
    OBVIOUS
  <2>2. \A i \in DOMAIN ts : ts[i].get # g
    BY <1>4, <1>5 DEF TasksFit
  <2> QED BY <2>1, <2>2 DEF TaskRecords
<1>8. \A i \in DOMAIN fs : fs[i].get # g
  <2>1. \A j \in DOMAIN es : j > 1 => es[j].get # g
    BY <1>1, <1>2, <1>4 DEF EventsFit
  <2>2. \A i \in DOMAIN fs : i + 1 \in DOMAIN es /\ i + 1 > 1
    BY <1>1
  <2> QED BY <2>1, <2>2, <1>1
<1>9. \A h : EventOf(fs, h) => EventOf(es, h)
  BY <1>1 DEF EventOf
<1>10. \A h \in ToSet(cb) : h \in Gets \ {g} /\ (EventOf(es, h) => EventOf(fs, h))
  <2>1. \A h \in ToSet(cb) : h \in Gets \ {g}
    <3>1. \A h \in ToSet(ca) : h \in Gets
      BY DEF ToSet
    <3> QED BY <3>1, <1>6
  <2> QED BY <2>1, <1>1, <1>2 DEF EventOf
<1>11. ListenersFit(c, qv, mu, cb)
  <2>1. ASSUME NEW p \in Queries, NEW h \in ToSet(c.listeners[p])
        PROVE  h \in Gets \ {g}
    BY <1>5 DEF Clients, Listeners, ToSet
  <2> QED BY <2>1, <1>3, <1>4, <1>6 DEF ListenersFit
<1>12. CallsFit(c, ts, fs, qv, mu, cb)
  BY <1>3, <1>4, <1>6, <1>10 DEF CallsFit
<1>13. TasksFit(c, ts, fs, qv, mu, cb)
  BY <1>3, <1>4, <1>6, <1>7, <1>9 DEF TasksFit
<1>14. EventsFit(c, fs, mu, cb)
  <2>1. \A i, j \in DOMAIN fs : j > i => j + 1 > i + 1
    BY <1>1
  <2> QED BY <2>1, <1>1, <1>4, <1>6, <1>8 DEF EventsFit
<1>15. OrderKept(c, ts, fs, qv, cb)
  <2>1. \A n \in DOMAIN cb : cb[n] # Head(es).get /\ qv[cb[n]] = qu[cb[n]]
    BY <1>1, <1>2, <1>3, <1>10 DEF ToSet
  <2> QED BY <2>1, <1>4, <1>6, OrderDelivered DEF fs
<1> QED BY <1>5, <1>11, <1>12, <1>13, <1>14, <1>15 DEF Life, g, fs, qv, cb

\* The listeners of a query that was rejected are told, and gone.
LEMMA Rejected ==
  ASSUME NEW c \in Clients, NEW ts, NEW es \in Seq(EventRecords),
         NEW qu, NEW mu, NEW ca \in Seq(Gets),
         WellListed(c), Life(c, ts, es, qu, mu, ca), NEW q \in Queries,
         NEW d \in Clients, d.listeners = [c.listeners EXCEPT ![q] = <<>>],
         d.raised = c.raised \ ToSet(c.listeners[q])
  PROVE  /\ es \o Events(c.listeners[q], "error") \in Seq(EventRecords)
         /\ Life(d, ts, es \o Events(c.listeners[q], "error"), qu, mu, ca)
<1> DEFINE L == c.listeners[q]
           r == Events(L, "error")
           fs == es \o r
<1>1. L \in Seq(Gets) /\ IsOneToOne(L)
  BY DEF WellListed
<1>2. /\ r \in Seq(EventRecords) /\ DOMAIN r = DOMAIN L
      /\ \A k \in DOMAIN L : r[k].get = L[k] /\ r[k].result = "error"
  <2> HIDE DEF L
  <2>1. \A k \in DOMAIN L : [get |-> L[k], result |-> "error"] \in EventRecords
    BY <1>1 DEF EventRecords
  <2> QED BY <2>1, <1>1 DEF Events
<1>3. /\ d.listeners[q] = <<>> /\ \A p \in Queries \ {q} : d.listeners[p] = c.listeners[p]
      /\ c.listeners[q] = L
  BY DEF Clients
<1> HIDE DEF L, r
<1>4. /\ fs \in Seq(EventRecords)
      /\ \A i \in DOMAIN es : i \in DOMAIN fs /\ fs[i] = es[i] /\ i \in Nat
      /\ \A i \in DOMAIN r : Len(es) + i \in DOMAIN fs /\ fs[Len(es) + i] = r[i] /\ i \in Nat
      /\ \A i \in DOMAIN es : \A j \in DOMAIN r : i < Len(es) + j
      /\ \A i, j \in DOMAIN r : i < j <=> Len(es) + i < Len(es) + j
      /\ \A i \in DOMAIN fs : i \in DOMAIN es \/ \E j \in DOMAIN r : i = Len(es) + j
  <2>1. fs = es \o r
    OBVIOUS
  <2> HIDE DEF fs
  <2>2. r \in Seq(EventRecords) /\ es \in Seq(EventRecords)
    BY <1>2
  <2> QED BY <2>1, <2>2, ConcatFacts
<1> HIDE DEF fs
<1>5. \A i \in DOMAIN L : L[i] \in ToSet(L)
  BY DEF ToSet
<1>6. \A h : EventOf(fs, h) <=> EventOf(es, h) \/ h \in ToSet(L)
  <2>1. \A h \in ToSet(L) : \E k \in DOMAIN L : L[k] = h
    BY DEF ToSet
  <2>2. ASSUME NEW h, EventOf(fs, h) PROVE EventOf(es, h) \/ h \in ToSet(L)
    <3>1. PICK i \in DOMAIN fs : fs[i].get = h
      BY <2>2 DEF EventOf
    <3>2. CASE i \in DOMAIN es
      BY <3>1, <3>2, <1>4 DEF EventOf
    <3>3. CASE i \notin DOMAIN es
      <4>1. PICK k \in DOMAIN r : i = Len(es) + k
        BY <3>3, <1>4
      <4> QED BY <3>1, <4>1, <1>2, <1>4, <1>5
    <3> QED BY <3>2, <3>3
  <2>3. ASSUME NEW h, EventOf(es, h) PROVE EventOf(fs, h)
    BY <2>3, <1>4 DEF EventOf
  <2>4. ASSUME NEW h \in ToSet(L) PROVE EventOf(fs, h)
    <3>1. PICK k \in DOMAIN L : L[k] = h
      BY <2>1
    <3>2. Len(es) + k \in DOMAIN fs /\ fs[Len(es) + k].get = h
      BY <3>1, <1>2, <1>4
    <3> QED BY <3>2 DEF EventOf
  <2> QED BY <2>2, <2>3, <2>4
<1>7. \A p \in Queries \ {q} : \A h \in ToSet(c.listeners[p]) : h \notin ToSet(L)
  BY <1>3 DEF WellListed
<1>8. \A h : h \in Listeners(d, Queries) <=> h \in Listeners(c, Queries) /\ h \notin ToSet(L)
  <2>1. \A h : h \in Listeners(d, Queries) <=> \E p \in Queries : h \in ToSet(d.listeners[p])
    BY DEF Listeners
  <2>2. \A h : h \in Listeners(c, Queries) <=> \E p \in Queries : h \in ToSet(c.listeners[p])
    BY DEF Listeners
  <2>3. \A h : h \notin ToSet(d.listeners[q])
    BY <1>3 DEF ToSet
  <2> QED BY <2>1, <2>2, <2>3, <1>3, <1>7
<1>9. /\ ListenersFit(c, qu, mu, ca)
      /\ CallsFit(c, ts, es, qu, mu, ca) /\ TasksFit(c, ts, es, qu, mu, ca)
      /\ EventsFit(c, es, mu, ca) /\ OrderKept(c, ts, es, qu, ca)
  BY DEF Life
<1>10. \A h \in ToSet(L) : h \in Listeners(c, Queries)
  BY <1>3 DEF Listeners
<1>11. ListenersFit(d, qu, mu, ca)
  <2>1. \A p \in Queries : IsOneToOne(d.listeners[p])
    BY <1>3, <1>9 DEF ListenersFit, IsOneToOne
  <2>2. ASSUME NEW p \in Queries, NEW h \in ToSet(d.listeners[p])
        PROVE  h \in ToSet(c.listeners[p])
    BY <2>2, <1>3 DEF ToSet
  <2>3. d.raised \subseteq Listeners(d, Queries)
    BY <1>3, <1>8, <1>9 DEF ListenersFit
  <2> QED BY <2>1, <2>2, <2>3, <1>9 DEF ListenersFit
<1>12. CallsFit(d, ts, fs, qu, mu, ca)
  BY <1>6, <1>8, <1>9 DEF CallsFit
<1>13. TasksFit(d, ts, fs, qu, mu, ca)
  BY <1>6, <1>8, <1>9, <1>10 DEF TasksFit
<1>14. EventsFit(d, fs, mu, ca)
  <2> SUFFICES ASSUME NEW i \in DOMAIN fs
               PROVE  /\ fs[i].get \in mu \/ fs[i].get \in ToSet(ca)
                      /\ fs[i].result = "error" =>
                           /\ fs[i].get \notin Listeners(d, Queries)
                           /\ \A j \in DOMAIN fs : j > i => fs[j].get # fs[i].get
    BY DEF EventsFit
  <2>1. CASE i \in DOMAIN es
    <3>1. fs[i] = es[i]
      BY <2>1, <1>4
    <3>2. ASSUME es[i].result = "error", NEW j \in DOMAIN fs, j > i
          PROVE  fs[j].get # fs[i].get
      <4>1. CASE j \in DOMAIN es
        BY <2>1, <3>1, <3>2, <4>1, <1>4, <1>9 DEF EventsFit
      <4>2. CASE j \notin DOMAIN es
        <5>1. fs[j].get \in Listeners(c, Queries)
          BY <4>2, <1>2, <1>4, <1>5, <1>10
        <5> QED BY <5>1, <2>1, <3>1, <3>2, <1>9 DEF EventsFit
      <4> QED BY <4>1, <4>2
    <3> QED BY <2>1, <3>1, <3>2, <1>8, <1>9 DEF EventsFit
  <2>2. CASE i \notin DOMAIN es
    <3>1. PICK k \in DOMAIN r : i = Len(es) + k
      BY <2>2, <1>4
    <3>2. fs[i].get = L[k] /\ L[k] \in ToSet(L)
      BY <3>1, <1>2, <1>4, <1>5
    <3>3. fs[i].get \in mu \/ fs[i].get \in ToSet(ca)
      BY <3>2, <1>3, <1>9 DEF ListenersFit
    <3>4. fs[i].get \notin Listeners(d, Queries)
      BY <3>2, <1>8
    <3>5. ASSUME NEW j \in DOMAIN fs, j > i PROVE fs[j].get # fs[i].get
      <4>1. j \notin DOMAIN es
        <5>1. j \in DOMAIN es => j < i
          BY <3>1, <1>4
        <5>2. i \in Nat /\ j \in Nat
          BY <1>4
        <5> QED BY <5>1, <5>2, <3>5
      <4>2. PICK l \in DOMAIN r : j = Len(es) + l
        BY <4>1, <1>4
      <4>3. fs[j].get = L[l] /\ k # l
        BY <4>2, <3>1, <3>5, <1>2, <1>4
      <4> QED BY <4>3, <3>2, <1>1, <1>2 DEF IsOneToOne
    <3> QED BY <3>3, <3>4, <3>5
  <2> QED BY <2>1, <2>2
<1>15. OrderKept(d, ts, fs, qu, ca)
  <2> SUFFICES ASSUME NEW n \in DOMAIN ca, NEW m \in 1 .. n - 1, qu[ca[m]] = qu[ca[n]]
               PROVE  /\ \A j \in DOMAIN ts : ts[j] = [what |-> "add", get |-> ca[m]] =>
                           \E k \in DOMAIN ts : k > j /\ ts[k] = [what |-> "add", get |-> ca[n]]
                      /\ ca[n] \in Listeners(d, Queries) =>
                           Before(d, ca[m], ca[n]) \/ EventOf(fs, ca[m])
                      /\ \A j \in DOMAIN fs : fs[j].get = ca[n] =>
                           \E k \in DOMAIN fs : k < j /\ fs[k].get = ca[m]
    BY DEF OrderKept
  <2>1. /\ \A j \in DOMAIN ts : ts[j] = [what |-> "add", get |-> ca[m]] =>
             \E k \in DOMAIN ts : k > j /\ ts[k] = [what |-> "add", get |-> ca[n]]
        /\ ca[n] \in Listeners(c, Queries) => Before(c, ca[m], ca[n]) \/ EventOf(es, ca[m])
        /\ \A j \in DOMAIN es : es[j].get = ca[n] =>
             \E k \in DOMAIN es : k < j /\ es[k].get = ca[m]
    BY <1>9 DEF OrderKept
  <2>2. ASSUME Before(c, ca[m], ca[n])
        PROVE  \/ Before(d, ca[m], ca[n]) /\ ca[n] \notin ToSet(L)
               \/ \E j \in DOMAIN L : \E i \in 1 .. j - 1 : L[i] = ca[m] /\ L[j] = ca[n]
    <3>1. PICK p \in Queries : \E j \in DOMAIN c.listeners[p] : \E i \in 1 .. j - 1 :
            c.listeners[p][i] = ca[m] /\ c.listeners[p][j] = ca[n]
      BY <2>2 DEF Before
    <3>2. CASE p = q
      BY <3>1, <3>2, <1>3
    <3>3. CASE p # q
      <4>1. Before(d, ca[m], ca[n])
        BY <3>1, <3>3, <1>3 DEF Before
      <4>2. ca[n] \in ToSet(c.listeners[p])
        BY <3>1 DEF ToSet
      <4> QED BY <4>1, <4>2, <3>3, <1>7
    <3> QED BY <3>2, <3>3
  <2>3. ASSUME NEW j \in DOMAIN L, L[j] = ca[n], ~EventOf(es, ca[m])
        PROVE  \E i \in 1 .. j - 1 : L[i] = ca[m]
    <3>1. Before(c, ca[m], ca[n])
      BY <2>1, <2>3, <1>5, <1>10
    <3>2. PICK l \in DOMAIN L : \E i \in 1 .. l - 1 : L[i] = ca[m] /\ L[l] = ca[n]
      BY <3>1, <2>2, <2>3, <1>5
    <3>3. l = j
      BY <3>2, <2>3, <1>1 DEF IsOneToOne
    <3> QED BY <3>2, <3>3
  <2>4. ASSUME NEW j \in DOMAIN fs, fs[j].get = ca[n]
        PROVE  \E k \in DOMAIN fs : k < j /\ fs[k].get = ca[m]
    <3>1. CASE j \in DOMAIN es
      <4>1. PICK k \in DOMAIN es : k < j /\ es[k].get = ca[m]
        BY <3>1, <2>1, <2>4, <1>4
      <4> QED BY <4>1, <1>4
    <3>2. CASE j \notin DOMAIN es
      <4>1. PICK k \in DOMAIN r : j = Len(es) + k
        BY <3>2, <1>4
      <4>2. L[k] = ca[n]
        BY <4>1, <2>4, <1>2, <1>4
      <4>3. CASE EventOf(es, ca[m])
        <5>1. PICK i \in DOMAIN es : es[i].get = ca[m]
          BY <4>3 DEF EventOf
        <5> QED BY <5>1, <4>1, <1>4
      <4>4. CASE ~EventOf(es, ca[m])
        <5>1. PICK l \in 1 .. k - 1 : L[l] = ca[m]
          BY <4>1, <4>2, <4>4, <2>3, <1>2
        <5>2. l \in DOMAIN r /\ l < k
          BY <5>1, <1>1, <1>2
        <5>3. Len(es) + l \in DOMAIN fs /\ fs[Len(es) + l].get = ca[m] /\ Len(es) + l < j
          BY <5>1, <5>2, <4>1, <1>2, <1>4
        <5> QED BY <5>3
      <4> QED BY <4>3, <4>4
    <3> QED BY <3>1, <3>2
  <2>5. ASSUME ca[n] \in Listeners(d, Queries)
        PROVE  Before(d, ca[m], ca[n]) \/ EventOf(fs, ca[m])
    <3>1. ca[n] \in Listeners(c, Queries) /\ ca[n] \notin ToSet(L)
      BY <2>5, <1>8
    <3> QED BY <3>1, <2>1, <2>2, <1>5, <1>6
  <2> QED BY <2>1, <2>4, <2>5
<1> QED BY <1>4, <1>11, <1>12, <1>13, <1>14, <1>15 DEF Life, L, r, fs

-----------------------------------------------------------------------------
(* Every action keeps the invariant, and raises nothing from the cache while *)
(* the server is heard.                                                    *)

Uncached ==
  client.online = "Online" /\ client'.online = "Online"
    => \A i \in DOMAIN events' : i > Len(events) => events'[i].result # "cache"

\* What the listeners of queries that calls ask for are like.
LEMMA ListedClient ==
  ASSUME NEW c \in Clients, NEW qu, NEW mu, NEW ca, ListenersFit(c, qu, mu, ca)
  PROVE  Listed(c) /\ WellListed(c)
<1>1. c.listeners \in [Queries -> Seq(Gets)]
  BY DEF Clients
<1>2. \A p, q \in Queries : \A g \in ToSet(c.listeners[p]) : g \in ToSet(c.listeners[q]) => p = q
  BY DEF ListenersFit
<1> QED BY <1>1, <1>2 DEF WellListed, Listed, ListenersFit

LEMMA Typed ==
  ASSUME IInv
  PROVE  /\ client \in Clients /\ client.stream \in Streams
         /\ tasks \in Seq(TaskRecords) /\ events \in Seq(EventRecords)
         /\ query \in [Gets -> Queries \cup {NoQuery}] /\ muted \in SUBSET Gets
         /\ calls \in Seq(Gets)
         /\ Listed(client) /\ WellListed(client)
         /\ Life(client, tasks, events, query, muted, calls)
         /\ Sound(client) /\ AllTold(client) /\ Valid(client, Step(client))
<1>1. /\ client \in Clients /\ tasks \in Seq(TaskRecords) /\ events \in Seq(EventRecords)
      /\ query \in [Gets -> Queries \cup {NoQuery}] /\ muted \in SUBSET Gets
      /\ calls \in Seq(Gets)
  BY DEF IInv, TypeOK, TaskRecords, EventRecords
<1>2. client.stream \in Streams
  BY <1>1 DEF Clients
<1>3. Listed(client) /\ WellListed(client)
  BY <1>1, ListedClient DEF IInv, Life
<1>4. Step(client).client = client
  BY DEF Step
<1>5. Valid(client, Step(client))
  BY <1>1, <1>4, StepRaises DEF Valid, IInv
<1> QED BY <1>1, <1>2, <1>3, <1>5 DEF IInv

\* A step s of the client, from c, after what the queues have changed.
LEMMA StepKept ==
  ASSUME NEW c \in Clients, NEW s, Run(s), Valid(c, s), Sound(s.client),
         events \in Seq(EventRecords), tasks' \in Seq(TaskRecords),
         query' \in [Gets -> Queries \cup {NoQuery}], muted' \in SUBSET Gets,
         calls' \in Seq(Gets), ~again', again' \in BOOLEAN,
         Life(c, tasks', events, query', muted', calls'),
         client.online = "Online" /\ s.client.online = "Online" => NoCache(s.raised)
  PROVE  IInv' /\ Uncached
<1>1. client' = s.client /\ events' = events \o s.raised
  BY DEF Run
<1>2. s.client \in Clients /\ s.raised \in Seq(EventRecords) /\ Raised(c, s) /\ AllTold(s.client)
  BY DEF Valid, Raised, Steps
<1>3. Life(s.client, tasks', events \o s.raised, query', muted', calls')
  BY <1>2, Announced
<1> DEFINE es == events
           r == s.raised
           fs == es \o r
<1>4. es \in Seq(EventRecords) /\ r \in Seq(EventRecords) /\ events' = fs
  BY <1>1, <1>2
<1>5. fs = es \o r
  OBVIOUS
<1> HIDE DEF fs, r, es
<1>6. /\ fs \in Seq(EventRecords)
      /\ \A i \in DOMAIN es : i \in Nat /\ i \in 1 .. Len(es)
      /\ \A i \in DOMAIN r : fs[Len(es) + i] = r[i]
      /\ \A i \in DOMAIN fs : i \in DOMAIN es \/ \E j \in DOMAIN r : i = Len(es) + j
  <2>1. DOMAIN es = 1 .. Len(es) /\ Len(es) \in Nat
    BY <1>4
  <2>2. es \in Seq(EventRecords) /\ r \in Seq(EventRecords)
    BY <1>4
  <2>3. /\ fs \in Seq(EventRecords)
        /\ \A i \in DOMAIN es : i \in DOMAIN fs /\ fs[i] = es[i] /\ i \in Nat
        /\ \A i \in DOMAIN r :
             Len(es) + i \in DOMAIN fs /\ fs[Len(es) + i] = r[i] /\ i \in Nat
        /\ \A i \in DOMAIN es : \A j \in DOMAIN r : i < Len(es) + j
        /\ \A i, j \in DOMAIN r : i < j <=> Len(es) + i < Len(es) + j
        /\ \A i \in DOMAIN fs : i \in DOMAIN es \/ \E j \in DOMAIN r : i = Len(es) + j
    BY <2>2, <1>5, ConcatFacts, SMTT(30)
  <2> QED BY <2>1, <2>3
<1>7. TypeOK'
  BY <1>1, <1>2, <1>4, <1>6 DEF TypeOK, TaskRecords, EventRecords
<1>8. IInv'
  BY <1>1, <1>2, <1>3, <1>7 DEF IInv
<1>9. Uncached
  <2> SUFFICES ASSUME NoCache(r), NEW i \in DOMAIN fs, i > Len(es)
               PROVE  fs[i].result # "cache"
    BY <1>1, <1>4 DEF Uncached, r, es
  <2>1. i \notin DOMAIN es
    <3>1. \A j \in 1 .. Len(es) : ~(j > Len(es))
      BY <1>4
    <3> QED BY <3>1, <1>6
  <2> QED BY <2>1, <1>6 DEF NoCache
<1> QED BY <1>8, <1>9

\* A step that leaves the queues and the calls of the app alone.
LEMMA ClientKept ==
  ASSUME IInv, NEW s, Client(s), Valid(client, s), Sound(s.client),
         client.online = "Online" /\ s.client.online = "Online" => NoCache(s.raised)
  PROVE  IInv' /\ Uncached
<1>1. Run(s) /\ UNCHANGED <<tasks, query, muted, calls, again>>
  BY DEF Client
<1>2. ~again /\ again \in BOOLEAN
  BY DEF IInv, TypeOK
<1> QED BY <1>1, <1>2, Typed, StepKept

\* The first listener of a query: a new view, filled from the cache, and a target.
LEMMA FirstAdded ==
  ASSUME NEW d \in Clients, NEW q \in Queries, NEW g \in Gets, Listed(d),
         d.listeners[q] = <<g>>, g \notin d.raised, q \notin d.targets,
         \A p \in Queries \ {q} : Told(d, p) /\ (p \in d.targets <=> d.listeners[p] # <<>>),
         CallbacksFit(d.stream), Timed(d), d.sent \subseteq d.targets
  PROVE  LET s == RemoteListen(OnViewSnapshot(Step(d), q, "local"), q)
         IN  /\ Valid(d, s) /\ Sound(s.client)
             /\ d.online = "Online" => s.raised = <<>>
<1> DEFINE v == OnViewSnapshot(Step(d), q, "local")
           s == RemoteListen(v, q)
<1>1. Step(d).client = d /\ Step(d).raised = <<>> /\ Raised(d, Step(d))
  BY StepRaises DEF Step
<1>2. ASSUME NEW f \in Gets, NEW h \in ToSet(d.listeners[q]), Before(d, f, h) PROVE FALSE
  <2>1. PICK p \in Queries : \E j \in DOMAIN d.listeners[p] : \E i \in 1 .. j - 1 :
          d.listeners[p][i] = f /\ d.listeners[p][j] = h
    BY <1>2 DEF Before
  <2>2. h \in ToSet(d.listeners[p])
    BY <2>1 DEF ToSet
  <2>3. p = q
    BY <2>2, <1>2 DEF Listed, WellListed
  <2>4. DOMAIN d.listeners[q] = 1 .. 1
    OBVIOUS
  <2> QED BY <2>1, <2>3, <2>4
<1>3. /\ Raised(d, v) /\ AllTold(v.client)
      /\ SameButTold(v.client, d)
      /\ Waiting(d, q, "local") => v.raised = <<>>
  <2>1. \A p \in Queries \ {q} : Told(Step(d).client, p)
    BY <1>1
  <2>2. \A f \in Gets : \A h \in ToSet(d.listeners[q]) : ~Before(d, f, h)
    BY <1>2
  <2>3. PICK sync \in {"local", "synced"} : sync = "local"
    OBVIOUS
  <2> DEFINE a == Step(d)
  <2>4. v = OnViewSnapshot(a, q, sync) /\ a = Step(d)
    BY <2>3
  <2>4a. Raised(d, a) /\ \A p \in Queries \ {q} : Told(a.client, p)
    BY <1>1, <2>1
  <2> HIDE DEF v, a
  <2>5. WellListed(d)
    BY DEF Listed
  <2>6. /\ Raised(d, v) /\ AllTold(v.client)
        /\ SameButTold(v.client, a.client)
    BY <2>2, <2>4, <2>4a, <2>5, ViewSnapshotRaises
  <2>7. ASSUME Waiting(a.client, q, sync) PROVE v.raised = a.raised
    <3>1. a \in Steps
      BY <2>4a DEF Raised
    <3> QED BY <2>4, <2>7, <3>1, NobodyTold
  <2> QED BY <1>1, <2>3, <2>4, <2>6, <2>7
<1>4. ToSet(d.listeners[q]) = {g}
  BY DEF ToSet
<1>5. d.online = "Online" => v.raised = <<>>
  BY <1>3, <1>4 DEF Raises, Waiting
<1> HIDE DEF v
<1>6. /\ v.client.stream = d.stream /\ v.client.targets = d.targets
      /\ v.client.sent = d.sent /\ v.client.listeners = d.listeners
      /\ v.client.online = d.online /\ v.client.failures = d.failures
      /\ v.client.timer = d.timer
  BY <1>3 DEF SameButTold
<1>7. Targeted(v.client, v.client.targets \cup {q})
  <2> SUFFICES ASSUME NEW p \in Queries
               PROVE  p \in d.targets \cup {q} <=> d.listeners[p] # <<>>
    BY <1>6 DEF Targeted
  <2>1. CASE p = q
    BY <2>1
  <2>2. CASE p # q
    BY <2>2
  <2> QED BY <2>1, <2>2
<1>8. Timed(v.client) /\ Valid(d, v)
  BY <1>3, <1>6 DEF Timed, Valid
<1>9. Valid(d, s) /\ Sound(s.client) /\ s.raised = v.raised
  <2>1. s = RemoteListen(v, q)
    OBVIOUS
  <2> HIDE DEF s
  <2> QED BY <2>1, <1>6, <1>7, <1>8, RemoteListenFacts
<1> QED BY <1>5, <1>9 DEF v

\* Another listener of a query, that can be told at once.
LEMMA NextTold ==
  ASSUME NEW c \in Clients, NEW d \in Clients, NEW q \in Queries, NEW g \in Gets,
         NEW result \in {"server", "cache"},
         Listed(d), g \notin d.raised, AllTold(c), Told(c, q),
         ToSet(c.listeners[q]) \subseteq c.raised, c.raised = d.raised,
         c.snapshot = d.snapshot, c.online = d.online,
         ToSet(d.listeners[q]) = ToSet(c.listeners[q]) \cup {g},
         \A p \in Queries \ {q} : d.listeners[p] = c.listeners[p]
  PROVE  LET s == [client |-> [d EXCEPT !.raised = @ \cup {g}], raised |-> Events(<<g>>, result)]
         IN  /\ Valid(d, s)
             /\ result # "cache" => NoCache(s.raised)
<1> DEFINE e == [d EXCEPT !.raised = @ \cup {g}]
           r == Events(<<g>>, result)
           s == [client |-> e, raised |-> r]
<1>1. /\ e \in Clients /\ e.raised = d.raised \cup {g} /\ e.listeners = d.listeners
      /\ e.snapshot = d.snapshot /\ e.online = d.online
  BY DEF Clients
<1>2. r \in Seq(EventRecords) /\ DOMAIN r = {1} /\ r[1] = [get |-> g, result |-> result]
  <2>1. r = [i \in {1} |-> [get |-> g, result |-> result]]
    BY DEF Events
  <2>2. r = <<[get |-> g, result |-> result]>>
    BY <2>1
  <2>3. [get |-> g, result |-> result] \in EventRecords
    BY DEF EventRecords
  <2> HIDE DEF r
  <2>4. DOMAIN r = {1} /\ r[1] = [get |-> g, result |-> result]
    BY <2>1
  <2>5. r \in Seq(EventRecords)
    BY <2>2, <2>3
  <2> QED BY <2>4, <2>5
<1> HIDE DEF e, r
<1>3. r[1].get = g /\ r[1].result = result
  BY <1>2
<1>4. s \in Steps /\ s.client = e /\ s.raised = r
  BY <1>1, <1>2 DEF Steps
<1> HIDE DEF s
<1>5. g \in ToSet(d.listeners[q]) /\ g \in Listeners(d, Queries)
  BY DEF Listeners
<1>6. ASSUME NEW f \in Gets, Before(d, f, g) PROVE f \in d.raised
  <2>1. PICK p \in Queries : f \in ToSet(d.listeners[p]) /\ g \in ToSet(d.listeners[p])
    BY <1>6, BeforeListens DEF Listed
  <2>2. p = q
    BY <2>1, <1>5 DEF Listed, WellListed
  <2>3. f # g
    <3>1. PICK b \in Queries : \E j \in DOMAIN d.listeners[b] : \E i \in 1 .. j - 1 :
            d.listeners[b][i] = f /\ d.listeners[b][j] = g
      BY <1>6 DEF Before
    <3>2. d.listeners[b] \in Seq(Gets) /\ IsOneToOne(d.listeners[b])
      BY DEF Listed, WellListed
    <3> QED BY <3>1, <3>2 DEF IsOneToOne
  <2> QED BY <2>1, <2>2, <2>3
<1>7. Raised(d, s)
  BY <1>1, <1>2, <1>3, <1>4, <1>5, <1>6 DEF Raised
<1>8. AllTold(s.client)
  <2> SUFFICES ASSUME NEW p \in Queries PROVE Told(e, p)
    BY <1>4 DEF AllTold
  <2>1. CASE p = q
    BY <2>1, <1>1 DEF Told
  <2>2. CASE p # q
    BY <2>2, <1>1 DEF AllTold, Told
  <2> QED BY <2>1, <2>2
<1>9. result # "cache" => NoCache(s.raised)
  BY <1>2, <1>3, <1>4 DEF NoCache
<1> QED BY <1>7, <1>8, <1>9 DEF Valid, s, e, r

\* The worker queue adds a listener.
LEMMA RunAdd ==
  ASSUME IInv, RunTask, Head(tasks).what = "add"
  PROVE  IInv' /\ Uncached
<1> DEFINE g == Head(tasks).get
           q == query[g]
           added == [client EXCEPT !.listeners[q] = Append(@, g)]
           L == client.listeners[q]
<1>1. /\ tasks # <<>> /\ tasks' = Tail(tasks) /\ AddQueryListener(g)
      /\ UNCHANGED <<query, muted, calls, again>>
  BY DEF RunTask
<1>2. tasks' \in Seq(TaskRecords) /\ Head(tasks) = tasks[1] /\ 1 \in DOMAIN tasks
  BY <1>1, Typed, TailFacts
<1>3. g \in Gets
  <2>1. tasks[1] \in TaskRecords
    BY <1>2, Typed
  <2> QED BY <2>1, <1>2 DEF TaskRecords
<1>4. q \in Queries /\ g \notin Listeners(client, Queries)
  BY <1>2, Typed DEF Life, TasksFit
<1>5. g \notin client.raised
  BY <1>4, Typed DEF Life, ListenersFit
<1> HIDE DEF g
<1>6. L \in Seq(Gets)
  BY <1>4, Typed DEF Clients
<1>7. /\ added \in Clients /\ added.listeners = [client.listeners EXCEPT ![q] = Append(@, g)]
      /\ added = [client EXCEPT !.listeners = added.listeners]
  <2> DEFINE ls == [client.listeners EXCEPT ![q] = Append(@, g)]
  <2>1. ls \in [Queries -> Seq(Gets)]
    BY <1>3, <1>4, <1>6, Typed DEF Clients
  <2>2. added = [client EXCEPT !.listeners = ls]
    BY Typed DEF Clients
  <2> HIDE DEF ls, added
  <2>3. added \in Clients /\ added.listeners = ls
    BY <2>1, <2>2, Typed DEF Clients
  <2> QED BY <2>2, <2>3 DEF ls
<1>8. /\ added.raised = client.raised /\ added.snapshot = client.snapshot
      /\ added.stream = client.stream /\ added.targets = client.targets
      /\ added.sent = client.sent /\ added.online = client.online
      /\ added.failures = client.failures /\ added.timer = client.timer
  <2> HIDE DEF added
  <2> QED BY <1>7, Typed DEF Clients
<1>9. /\ added.listeners[q] = Append(L, g)
      /\ \A p \in Queries \ {q} : added.listeners[p] = client.listeners[p]
  <2> HIDE DEF added
  <2> QED BY <1>4, <1>7, Typed DEF Clients
<1> HIDE DEF added
<1>10. Life(added, tasks', events, query', muted', calls') /\ WellListed(added)
  <2>1. Extended(client, added, query[Head(tasks).get], Head(tasks).get)
    <3>1. Extended(client, added, q, g)
      BY <1>9 DEF Extended
    <3> QED BY <3>1 DEF g
  <2>2. Life(added, Tail(tasks), events, query, muted, calls) /\ WellListed(added)
    BY <2>1, <1>1, <1>7, <1>8, Typed, Added
  <2> QED BY <2>2, <1>1
<1>11. Listed(added)
  BY <1>7, <1>10, ListedClient DEF Life
<1>12. ToSet(added.listeners[q]) = ToSet(L) \cup {g} /\ added.listeners[q] # <<>>
  BY <1>3, <1>6, <1>9, AppendFacts
<1>13. /\ CallbacksFit(added.stream) /\ Timed(added) /\ added.sent \subseteq added.targets
       /\ \A p \in Queries \ {q} : p \in added.targets <=> added.listeners[p] # <<>>
       /\ \A p \in Queries \ {q} : Told(added, p)
       /\ q \in added.targets <=> L # <<>>
       /\ added.stream.idle => added.targets = {}
  BY <1>4, <1>8, <1>9, Typed DEF Sound, Timed, Targeted, AllTold, Told
<1>14. ~again' /\ again' \in BOOLEAN /\ query' \in [Gets -> Queries \cup {NoQuery}]
       /\ muted' \in SUBSET Gets /\ calls' \in Seq(Gets) /\ events \in Seq(EventRecords)
  BY <1>1, Typed DEF IInv, TypeOK
<1>15. ASSUME NEW s, Run(s), Valid(added, s), Sound(s.client),
              client.online = "Online" /\ s.client.online = "Online" => NoCache(s.raised)
       PROVE  IInv' /\ Uncached
  BY <1>2, <1>7, <1>10, <1>14, <1>15, StepKept
<1>16. CASE L = <<>>
  <2> DEFINE s == RemoteListen(OnViewSnapshot(Step(added), q, "local"), q)
  <2>1. Run(s)
    BY <1>1, <1>16 DEF AddQueryListener, added
  <2>2. added.listeners[q] = <<g>>
    BY <1>3, <1>9, <1>16
  <2>3. /\ Valid(added, s) /\ Sound(s.client)
        /\ added.online = "Online" => s.raised = <<>>
    BY <1>3, <1>4, <1>5, <1>7, <1>8, <1>11, <1>13, <1>16, <2>2, FirstAdded
  <2> HIDE DEF s
  <2>4. client.online = "Online" => NoCache(s.raised)
    BY <2>3, <1>8 DEF NoCache
  <2> QED BY <2>1, <2>3, <2>4, <1>15
<1>17. Targeted(added, added.targets) /\ Sound(added) <=> L # <<>>
  BY <1>4, <1>12, <1>13 DEF Sound, Targeted
<1>18. CASE L # <<>> /\ Raises(client, g, client.snapshot[q])
  <2> DEFINE result == IF client.snapshot[q] = "synced" THEN "server" ELSE "cache"
             s == [client |-> [added EXCEPT !.raised = @ \cup {g}],
                   raised |-> Events(<<g>>, result)]
  <2>1. Run(s)
    BY <1>1, <1>18 DEF AddQueryListener, added
  <2>2. client.snapshot[q] = "synced" \/ client.online = "Offline"
    BY <1>5, <1>18 DEF Raises
  <2>3. Told(client, q) /\ ToSet(L) \subseteq client.raised
    BY <2>2, <1>4, Typed DEF AllTold, Told
  <2>4. result \in {"server", "cache"} /\ (client.online = "Online" => result # "cache")
    BY <2>2
  <2> HIDE DEF result
  <2>5. Valid(added, s) /\ (result # "cache" => NoCache(s.raised))
    BY <2>3, <2>4, <1>3, <1>4, <1>5, <1>7, <1>8, <1>9, <1>11, <1>12, Typed, NextTold
  <2>6. Sound(s.client)
    <3> DEFINE e == [added EXCEPT !.raised = @ \cup {g}]
    <3>1. /\ e.stream = added.stream /\ e.targets = added.targets
          /\ e.sent = added.sent /\ e.online = added.online /\ e.listeners = added.listeners
          /\ e.failures = added.failures /\ e.timer = added.timer
      BY <1>7 DEF Clients
    <3>2. s.client = e
      OBVIOUS
    <3> HIDE DEF e, s
    <3> QED BY <3>1, <3>2, <1>17, <1>18 DEF Sound, Timed, Targeted
  <2> HIDE DEF s
  <2> QED BY <2>1, <2>4, <2>5, <2>6, <1>15
<1>19. CASE L # <<>> /\ ~Raises(client, g, client.snapshot[q])
  <2>1. Run(Step(added))
    BY <1>1, <1>19 DEF AddQueryListener, added
  <2>2. Step(added).client = added /\ NoCache(Step(added).raised)
    BY DEF Step, NoCache
  <2>3. client.snapshot[q] # "synced" /\ client.online # "Offline"
    BY <1>19 DEF Raises
  <2>4. AllTold(added)
    BY <2>3, <1>8, <1>13 DEF AllTold, Told
  <2>5. Valid(added, Step(added))
    BY <2>2, <2>4, <1>7, StepRaises DEF Valid
  <2> QED BY <2>1, <2>2, <2>5, <1>15, <1>17, <1>19
<1> QED BY <1>16, <1>18, <1>19

\* The worker queue takes a listener away.
LEMMA RunRemove ==
  ASSUME IInv, RunTask, Head(tasks).what # "add"
  PROVE  IInv' /\ Uncached
<1> DEFINE g == Head(tasks).get
           q == query[g]
           L == client.listeners[q]
           left == RemoveFirst(L, g)
           removed == [client EXCEPT !.listeners[q] = left, !.raised = @ \ {g}]
<1>1. /\ tasks # <<>> /\ tasks' = Tail(tasks) /\ RemoveQueryListener(g)
      /\ query' = [query EXCEPT ![g] = NoQuery]
      /\ UNCHANGED <<muted, calls, again>>
  BY DEF RunTask
<1>2. tasks' \in Seq(TaskRecords) /\ Head(tasks) = tasks[1] /\ 1 \in DOMAIN tasks
  BY <1>1, Typed, TailFacts
<1>3. g \in Gets /\ Head(tasks).what = "remove"
  <2>1. tasks[1] \in TaskRecords
    BY <1>2, Typed
  <2> QED BY <2>1, <1>2 DEF TaskRecords
<1>4. q \in Queries
  BY <1>2, Typed DEF Life, TasksFit
<1> HIDE DEF g
<1>5. L \in Seq(Gets) /\ IsOneToOne(L)
  BY <1>4, Typed DEF Clients, WellListed
<1>6. left \in Seq(Gets) /\ ToSet(left) = ToSet(L) \ {g}
  <2>1. left = RemoveFirst(L, g)
    OBVIOUS
  <2> HIDE DEF left, L
  <2> QED BY <2>1, <1>5, RemoveFirstFacts
<1>7. L = <<>> => left = <<>>
  <2>1. ASSUME L = <<>>, left # <<>> PROVE FALSE
    <3>1. ToSet(left) = {}
      BY <2>1, <1>6 DEF ToSet
    <3>2. 1 \in DOMAIN left
      BY <2>1, <1>6, TailFacts
    <3> QED BY <3>1, <3>2 DEF ToSet
  <2> QED BY <2>1
<1>8. /\ removed \in Clients
      /\ removed.listeners = [client.listeners EXCEPT ![q] = RemoveFirst(@, g)]
      /\ removed.raised = client.raised \ {g} /\ removed.snapshot = client.snapshot
      /\ removed.stream = client.stream /\ removed.targets = client.targets
      /\ removed.sent = client.sent /\ removed.online = client.online
      /\ removed.failures = client.failures /\ removed.timer = client.timer
  <2> DEFINE ls == [client.listeners EXCEPT ![q] = left]
             ra == client.raised \ {g}
  <2>1. removed = [client EXCEPT !.listeners = ls, !.raised = ra]
    BY Typed DEF Clients
  <2>2. ls \in [Queries -> Seq(Gets)] /\ ra \in SUBSET Gets
    BY <1>6, Typed DEF Clients
  <2>3. ls = [client.listeners EXCEPT ![q] = RemoveFirst(@, g)]
    BY Typed DEF Clients
  <2> HIDE DEF ls, ra, removed
  <2>4. /\ removed \in Clients /\ removed.listeners = ls /\ removed.raised = ra
        /\ removed.snapshot = client.snapshot
        /\ removed.stream = client.stream /\ removed.targets = client.targets
        /\ removed.sent = client.sent /\ removed.online = client.online
        /\ removed.failures = client.failures /\ removed.timer = client.timer
    BY <2>1, <2>2, Typed DEF Clients
  <2> QED BY <2>3, <2>4 DEF ra
<1> HIDE DEF removed, left
<1>9. /\ removed.listeners[q] = left
      /\ \A p \in Queries \ {q} : removed.listeners[p] = client.listeners[p]
  BY <1>4, <1>8, Typed DEF Clients, left
<1>10. \A p \in Queries \ {q} : g \notin ToSet(client.listeners[p])
  BY Typed DEF Life, ListenersFit
<1>11. AllTold(removed)
  <2> SUFFICES ASSUME NEW p \in Queries PROVE Told(removed, p)
    BY DEF AllTold
  <2>1. Told(client, p)
    BY Typed DEF AllTold
  <2>2. CASE p = q
    BY <2>1, <2>2, <1>6, <1>8, <1>9 DEF Told
  <2>3. CASE p # q
    BY <2>1, <2>3, <1>8, <1>9, <1>10 DEF Told
  <2> QED BY <2>2, <2>3
<1>12. ~again' /\ again' \in BOOLEAN
       /\ query' \in [Gets -> Queries \cup {NoQuery}]
       /\ muted' \in SUBSET Gets /\ calls' \in Seq(Gets) /\ events \in Seq(EventRecords)
  BY <1>1, Typed DEF IInv, TypeOK
<1>13. ASSUME NEW d \in Clients, d.listeners = removed.listeners, d.raised = removed.raised
       PROVE  Life(d, tasks', events, query', muted', calls') /\ Listed(d)
  <2>1. Life(d, tasks', events, query', muted', calls')
    BY <1>1, <1>3, <1>8, <1>13, Typed, Removed DEF g
  <2> QED BY <2>1, ListedClient DEF Life
<1>14. CASE L # <<>> /\ left = <<>>
  <2> DEFINE d == [removed EXCEPT !.snapshot[q] = "none"]
             s == RemoteStopListening(Step(d), q)
  <2>1. Run(s)
    BY <1>1, <1>14 DEF RemoveQueryListener, removed, left
  <2>2. /\ d \in Clients /\ d.listeners = removed.listeners /\ d.raised = removed.raised
        /\ d.stream = client.stream /\ d.targets = client.targets
        /\ d.sent = client.sent /\ d.online = client.online
        /\ d.failures = client.failures /\ d.timer = client.timer
        /\ \A p \in Queries \ {q} : d.snapshot[p] = removed.snapshot[p]
    <3> DEFINE sn == [removed.snapshot EXCEPT ![q] = "none"]
    <3>1. d = [removed EXCEPT !.snapshot = sn] /\ sn \in [Queries -> {"none", "local", "synced"}]
      BY <1>8 DEF Clients
    <3>2. \A p \in Queries \ {q} : sn[p] = removed.snapshot[p]
      BY <1>8 DEF Clients
    <3> HIDE DEF d, sn
    <3> QED BY <3>1, <3>2, <1>8 DEF Clients
  <2> HIDE DEF d
  <2>3. Step(d).client = d /\ Step(d).raised = <<>>
    BY DEF Step
  <2>4. AllTold(d)
    <3> SUFFICES ASSUME NEW p \in Queries PROVE Told(d, p)
      BY DEF AllTold
    <3>1. CASE p = q
      <4>1. ToSet(d.listeners[p]) = {}
        BY <3>1, <2>2, <1>9, <1>14 DEF ToSet
      <4> QED BY <4>1 DEF Told
    <3>2. CASE p # q
      BY <3>2, <2>2, <1>8, <1>11 DEF AllTold, Told
    <3> QED BY <3>1, <3>2
  <2>5. Valid(d, Step(d))
    BY <2>2, <2>3, <2>4, StepRaises DEF Valid
  <2>6. /\ Timed(d) /\ CallbacksFit(d.stream) /\ ~d.stream.idle /\ d.sent \subseteq d.targets
        /\ Targeted(d, d.targets \ {q})
    <3>1. q \in client.targets
      BY <1>4, <1>14, Typed DEF Sound, Targeted
    <3> QED BY <3>1, <2>2, <1>9, <1>14, Typed DEF Sound, Timed, Targeted
  <2>7. Listed(d) /\ Life(d, tasks', events, query', muted', calls')
    BY <2>2, <1>13
  <2>8. Valid(d, s) /\ Sound(s.client) /\ s.raised = <<>>
    <3>1. s = RemoteStopListening(Step(d), q)
      OBVIOUS
    <3> HIDE DEF s
    <3> QED BY <3>1, <2>3, <2>5, <2>6, <2>7, <1>4, RemoteStopListeningFacts
  <2> HIDE DEF s
  <2>9. NoCache(s.raised)
    BY <2>8 DEF NoCache
  <2> QED BY <2>1, <2>2, <2>7, <2>8, <2>9, <1>2, <1>12, StepKept
<1>15. CASE ~(L # <<>> /\ left = <<>>)
  <2>1. Run(Step(removed))
    BY <1>1, <1>15 DEF RemoveQueryListener, removed, left
  <2>2. Step(removed).client = removed /\ NoCache(Step(removed).raised)
    BY DEF Step, NoCache
  <2>3. Valid(removed, Step(removed))
    BY <2>2, <1>8, <1>11, StepRaises DEF Valid
  <2>4. Sound(removed)
    <3>1. \A p \in Queries : removed.listeners[p] = <<>> <=> client.listeners[p] = <<>>
      BY <1>7, <1>9, <1>15
    <3> QED BY <3>1, <1>8, Typed DEF Sound, Timed, Targeted
  <2>5. Life(removed, tasks', events, query', muted', calls')
    BY <1>8, <1>13
  <2> QED BY <2>1, <2>2, <2>3, <2>4, <2>5, <1>2, <1>8, <1>12, StepKept
<1> QED BY <1>14, <1>15

\* The main queue: an answer is nobody's second one, and overtakes none.
LEMMA DeliverKept ==
  ASSUME IInv, Deliver
  PROVE  /\ IInv' /\ Uncached
         /\ \A j \in DOMAIN calls : \A i \in 1 .. j - 1 :
              query[calls[i]] = query[calls[j]] /\ calls[i] \in ToSet(calls')
                => calls[j] \in ToSet(calls')
<1> DEFINE g == Head(events).get
<1>1. events # <<>> /\ events' = Tail(events) /\ client' = client
  BY DEF Deliver
<1>2. /\ events' \in Seq(EventRecords) /\ Head(events) = events[1] /\ 1 \in DOMAIN events
      /\ Len(events) \in Nat /\ DOMAIN events = 1 .. Len(events)
      /\ DOMAIN Tail(events) = 1 .. Len(events) - 1
  BY <1>1, Typed, TailFacts
<1>3. Uncached
  <2>1. \A i \in DOMAIN events' : ~(i > Len(events))
    BY <1>1, <1>2
  <2> QED BY <2>1 DEF Uncached
<1>4. g \in Gets
  <2>1. events[1] \in EventRecords
    BY <1>2, Typed
  <2> QED BY <2>1, <1>2 DEF EventRecords
<1>5. ASSUME tasks' \in Seq(TaskRecords), query' \in [Gets -> Queries \cup {NoQuery}],
             muted' \in SUBSET Gets, calls' \in Seq(Gets), again' = FALSE,
             Life(client, tasks', Tail(events), query', muted', calls')
      PROVE  IInv'
  <2>1. TypeOK'
    BY <1>1, <1>2, <1>5, Typed DEF TypeOK, TaskRecords, EventRecords
  <2> QED BY <2>1, <1>1, <1>5, Typed DEF IInv
<1>6. again = FALSE
  BY DEF IInv, TypeOK
<1>7. CASE g \in muted /\ UNCHANGED <<tasks, query, muted, calls, again>>
  <2>1. Life(client, tasks, Tail(events), query, muted, calls)
    BY <1>1, <1>7, Typed, Ignored
  <2>2. IInv'
    BY <2>1, <1>5, <1>6, <1>7, Typed
  <2>3. \A j \in DOMAIN calls : calls[j] \in ToSet(calls')
    BY <1>7 DEF ToSet
  <2> QED BY <2>2, <2>3, <1>3
<1>8. CASE /\ g \notin muted
           /\ Complete(g)
           /\ IF Head(events).result = "error"
                THEN query' = [query EXCEPT ![g] = NoQuery] /\ UNCHANGED <<tasks, muted>>
                ELSE RegistrationRemove(g)
  <2>1. calls' = RemoveFirst(calls, g) /\ again' = (again \/ g \notin ToSet(calls))
    BY <1>8 DEF Complete
  <2>2. IsOneToOne(calls)
    BY Typed DEF Life, CallsFit
  <2>3. calls' \in Seq(Gets) /\ ToSet(calls') = ToSet(calls) \ {g}
    <3> DEFINE left == RemoveFirst(calls, g)
    <3>1. left = RemoveFirst(calls, g) /\ calls \in Seq(Gets)
      BY Typed
    <3> HIDE DEF left
    <3>2. left \in Seq(Gets) /\ ToSet(left) = ToSet(calls) \ {g}
      BY <3>1, <2>2, RemoveFirstFacts
    <3> QED BY <3>2, <2>1 DEF left
  <2>4. ASSUME Head(events).result = "error" PROVE IInv'
    <3>1. query' = [query EXCEPT ![g] = NoQuery] /\ tasks' = tasks /\ muted' = muted
      BY <1>8, <2>4
    <3>2. /\ g \in ToSet(calls)
          /\ Life(client, tasks, Tail(events), [query EXCEPT ![g] = NoQuery], muted,
                  RemoveFirst(calls, g))
      BY <1>1, <1>8, <2>4, Typed, Failed
    <3>3. again' = FALSE
      BY <2>1, <3>2, <1>6
    <3>4. query' \in [Gets -> Queries \cup {NoQuery}]
      BY <3>1, Typed
    <3>5. Life(client, tasks', Tail(events), query', muted', calls')
      BY <3>1, <3>2, <2>1
    <3>6. tasks' \in Seq(TaskRecords) /\ muted' \in SUBSET Gets
      BY <3>1, Typed
    <3> HIDE DEF g
    <3>7. IInv'
      BY <3>3, <3>4, <3>5, <3>6, <2>3, <1>5
    <3> QED BY <3>7
  <2>5. ASSUME Head(events).result # "error" PROVE IInv'
    <3>1. /\ muted' = muted \cup {g} /\ query' = query
          /\ tasks' = Append(tasks, [what |-> "remove", get |-> g])
      BY <1>8, <2>5 DEF RegistrationRemove
    <3>2. /\ g \in ToSet(calls)
          /\ Life(client, Append(tasks, [what |-> "remove", get |-> g]), Tail(events), query,
                  muted \cup {g}, RemoveFirst(calls, g))
      BY <1>1, <1>8, <2>5, Typed, Answered
    <3>3. again' = FALSE
      BY <2>1, <3>2, <1>6
    <3>4. tasks' \in Seq(TaskRecords)
      <4>1. [what |-> "remove", get |-> g] \in TaskRecords
        BY <1>4 DEF TaskRecords
      <4> QED BY <4>1, <3>1, Typed
    <3>5. Life(client, tasks', Tail(events), query', muted', calls')
      BY <3>1, <3>2, <2>1
    <3>6. query' \in [Gets -> Queries \cup {NoQuery}] /\ muted' \in SUBSET Gets
      BY <3>1, <1>4, Typed
    <3> HIDE DEF g
    <3>7. IInv'
      BY <3>3, <3>4, <3>5, <3>6, <2>3, <1>5
    <3> QED BY <3>7
  <2>6. ASSUME NEW j \in DOMAIN calls, NEW i \in 1 .. j - 1, query[calls[i]] = query[calls[j]],
               calls[j] \notin ToSet(calls')
        PROVE  FALSE
    <3>1. calls[j] = g
      BY <2>3, <2>6 DEF ToSet
    <3>2. \E k \in DOMAIN events : k < 1 /\ events[k].get = calls[i]
      BY <3>1, <2>6, <1>2, Typed DEF Life, OrderKept
    <3> QED BY <3>2, <1>2
  <2> QED BY <2>4, <2>5, <2>6, <1>3
<1> QED BY <1>7, <1>8 DEF Deliver

\* The app calls getDocuments.
LEMMA GetDocumentsKept ==
  ASSUME IInv, NEW g \in Gets, NEW q \in Queries, GetDocuments(g, q)
  PROVE  IInv' /\ Uncached
<1> DEFINE add == [what |-> "add", get |-> g]
<1>1. /\ Clear(g) /\ query' = [query EXCEPT ![g] = q] /\ muted' = muted \ {g}
      /\ calls' = Append(calls, g) /\ tasks' = Append(tasks, add)
      /\ UNCHANGED <<client, events, again>>
  BY DEF GetDocuments
<1>2. /\ \A i \in DOMAIN tasks : tasks[i].get # g
      /\ ~EventOf(events, g) /\ g \notin Listeners(client, Queries) /\ g \notin ToSet(calls)
  BY <1>1 DEF Clear, EventOf, Listeners
<1>3. Life(client, Append(tasks, add), events, [query EXCEPT ![g] = q], muted \ {g},
           Append(calls, g))
  BY <1>2, Typed, Asked
<1>4. tasks' \in Seq(TaskRecords)
  <2>1. add \in TaskRecords
    BY DEF TaskRecords
  <2> QED BY <2>1, <1>1, Typed
<1>5. /\ query' \in [Gets -> Queries \cup {NoQuery}] /\ muted' \in SUBSET Gets
      /\ calls' \in Seq(Gets)
  BY <1>1, Typed
<1>6. TypeOK'
  BY <1>1, <1>4, <1>5, Typed DEF TypeOK, TaskRecords, IInv
<1>7. IInv'
  BY <1>1, <1>3, <1>6 DEF IInv
<1>8. Uncached
  <2>1. \A i \in DOMAIN events : ~(i > Len(events))
    BY Typed
  <2> QED BY <2>1, <1>1 DEF Uncached
<1> QED BY <1>7, <1>8

\* A client that differs from the one there is in its stream and what runs on it.
LEMMA Restreamed ==
  ASSUME IInv, NEW d \in Clients, d.targets = client.targets, d.online = client.online,
         d.listeners = client.listeners, d.raised = client.raised,
         d.snapshot = client.snapshot, d.failures = client.failures, d.timer = client.timer
  PROVE  /\ Valid(client, Step(d)) /\ Step(d).client = d /\ Step(d).raised = <<>>
         /\ Timed(d) /\ Targeted(d, d.targets)
<1>1. Step(d).client = d /\ Step(d).raised = <<>> /\ Step(client).raised = <<>>
      /\ Step(client).client = client /\ Step(d) = [client |-> d, raised |-> <<>>]
  BY DEF Step
<1>2. Valid(client, Step(d))
  BY <1>1, Typed, QuietValid
<1>3. Timed(d) /\ Targeted(d, d.targets)
  BY Typed DEF Sound, Timed, Targeted
<1> QED BY <1>1, <1>2, <1>3

\* As above, with another stream alone.
LEMMA StreamChanged ==
  ASSUME IInv, NEW st \in Streams
  PROVE  LET d == [client EXCEPT !.stream = st]
         IN  /\ d \in Clients /\ Valid(client, Step(d)) /\ Step(d).client = d
             /\ Step(d).raised = <<>>
             /\ d.stream = st /\ d.sent = client.sent /\ d.targets = client.targets
             /\ d.listeners = client.listeners /\ d.online = client.online
             /\ Timed(d) /\ Targeted(d, d.targets)
<1> DEFINE d == [client EXCEPT !.stream = st]
<1>1. /\ d \in Clients /\ d.stream = st /\ d.sent = client.sent /\ d.targets = client.targets
      /\ d.listeners = client.listeners /\ d.online = client.online
      /\ d.raised = client.raised /\ d.snapshot = client.snapshot
      /\ d.failures = client.failures /\ d.timer = client.timer
  BY Typed DEF Clients
<1> HIDE DEF d
<1>2. /\ Valid(client, Step(d)) /\ Step(d).client = d /\ Step(d).raised = <<>>
      /\ Timed(d) /\ Targeted(d, d.targets)
  BY <1>1, Restreamed
<1> QED BY <1>1, <1>2 DEF d

LEMMA OnlineTimerKept ==
  ASSUME IInv, OnlineStateTimerFires
  PROVE  IInv' /\ Uncached
<1> DEFINE d == [client EXCEPT !.timer = FALSE]
           s == SetAndBroadcast(Step(d), "Offline")
<1>1. Client(s)
  BY DEF OnlineStateTimerFires
<1>2. /\ d \in Clients /\ d.timer = FALSE /\ d.snapshot = client.snapshot
      /\ d.listeners = client.listeners /\ d.raised = client.raised
      /\ d.online = client.online /\ SameButOnline(d, client)
  BY Typed DEF Clients, SameButOnline
<1> HIDE DEF d
<1>3. Step(d).client = d /\ Step(d) = [client |-> d, raised |-> <<>>]
      /\ Step(client).raised = <<>> /\ Step(client).client = client
  BY DEF Step
<1>4. Valid(client, Step(d))
  BY <1>2, <1>3, Typed, QuietValid
<1>5. s = SetAndBroadcast(Step(d), "Offline")
  OBVIOUS
<1> HIDE DEF s
<1>6. /\ Valid(client, s)
      /\ s.client = [d EXCEPT !.online = "Offline", !.snapshot = s.client.snapshot,
                              !.raised = s.client.raised]
  BY <1>3, <1>4, <1>5, Typed, BroadcastRaises DEF Valid, Listed
<1>7. SameButOnline(s.client, d) /\ s.client.online = "Offline" /\ s.client.timer = FALSE
  BY <1>2, <1>6 DEF Clients, SameButOnline
<1>8. Sound(s.client)
  BY <1>2, <1>7, Typed DEF Sound, Timed, Targeted, SameButOnline
<1> QED BY <1>1, <1>6, <1>7, <1>8, ClientKept

LEMMA BackoffTimerKept ==
  ASSUME IInv, BackoffTimerFires
  PROVE  IInv' /\ Uncached
<1> DEFINE st == BackoffElapses(client.stream)
           d == [client EXCEPT !.stream = st]
<1>1. client.stream.backoff /\ Client(Step(d))
  BY DEF BackoffTimerFires
<1>2. st \in Streams /\ CallbacksFit(st) /\ ~st.idle
  BY <1>1, Typed, StreamFacts DEF Sound
<1> HIDE DEF st
<1>3. /\ Valid(client, Step(d)) /\ Step(d).client = d /\ Step(d).raised = <<>>
      /\ d.stream = st /\ d.sent = client.sent /\ d.targets = client.targets
      /\ Timed(d) /\ Targeted(d, d.targets)
  BY <1>2, StreamChanged
<1> HIDE DEF d
<1>4. Sound(Step(d).client) /\ NoCache(Step(d).raised)
  BY <1>2, <1>3, Typed DEF Sound, NoCache
<1> QED BY <1>1, <1>3, <1>4, ClientKept

LEMMA CredentialsKept ==
  ASSUME IInv, NEW when, CredentialsAnswered(when)
  PROVE  IInv' /\ Uncached
<1> DEFINE st == CredentialsArrive(client.stream, when)
           d == [client EXCEPT !.stream = st]
           s == IF when = "now" THEN SendWatchRequests(Step(d), client.targets) ELSE Step(d)
<1>1. when \in client.stream.asked /\ Client(s)
  BY DEF CredentialsAnswered
<1>2. st \in Streams /\ CallbacksFit(st) /\ (st.idle => client.stream.idle)
      /\ (when = "now" => ~st.idle)
  BY <1>1, Typed, CredentialsFacts DEF Sound
<1> HIDE DEF st
<1>3. /\ d \in Clients /\ Valid(client, Step(d)) /\ Step(d).client = d /\ Step(d).raised = <<>>
      /\ d.stream = st /\ d.sent = client.sent /\ d.targets = client.targets
      /\ d.listeners = client.listeners /\ Timed(d) /\ Targeted(d, d.targets)
  BY <1>2, StreamChanged
<1> HIDE DEF d
<1>4. CASE when = "now"
  <2>1. s = SendWatchRequests(Step(d), client.targets) /\ client.targets \in SUBSET Queries
    BY <1>4, Typed DEF Clients
  <2> HIDE DEF s
  <2>2. /\ Valid(client, s) /\ s.raised = <<>>
        /\ CallbacksFit(s.client.stream) /\ ~s.client.stream.idle
        /\ s.client.sent = d.sent \cup client.targets
        /\ s.client.targets = d.targets /\ s.client.listeners = d.listeners
        /\ s.client.online = d.online /\ s.client.failures = d.failures
        /\ s.client.timer = d.timer
    BY <2>1, <1>2, <1>3, <1>4, SendWatchRequestsFacts
  <2>3. Sound(s.client) /\ NoCache(s.raised)
    BY <2>2, <1>3, Typed DEF Sound, Timed, Targeted, NoCache
  <2> QED BY <2>2, <2>3, <1>1, ClientKept DEF s
<1>5. CASE when # "now"
  <2>1. s = Step(d)
    BY <1>5
  <2> HIDE DEF s
  <2>2. Sound(s.client) /\ NoCache(s.raised)
    BY <2>1, <1>2, <1>3, Typed DEF Sound, NoCache
  <2> QED BY <2>1, <2>2, <1>1, <1>3, ClientKept DEF s
<1> QED BY <1>4, <1>5

\* The stream has been closed, by its idle timer or a failure.
LEMMA ClosedKept ==
  ASSUME IInv, NEW graceful \in BOOLEAN,
         Client(OnWatchStreamClose(Step([client EXCEPT !.stream = Close(@, graceful)])))
  PROVE  IInv' /\ Uncached
<1> DEFINE st == Close(client.stream, graceful)
           d == [client EXCEPT !.stream = st]
           s == OnWatchStreamClose(Step(d))
<1>1. Client(s)
  BY Typed DEF Clients
<1>2. st \in Streams /\ CallbacksFit(st) /\ ~IsStarted(st) /\ ~st.idle
  BY Typed, StreamFacts DEF Sound
<1> HIDE DEF st
<1>3. /\ Valid(client, Step(d)) /\ Step(d).client = d
      /\ d.stream = st /\ Timed(d) /\ Targeted(d, d.targets)
  BY <1>2, StreamChanged
<1> HIDE DEF d
<1>4. s = OnWatchStreamClose(Step(d))
  OBVIOUS
<1> HIDE DEF s
<1>5. Valid(client, s) /\ Sound(s.client) /\ s.client.online # "Online"
  BY <1>2, <1>3, <1>4, Typed, OnWatchStreamCloseFacts
<1> QED BY <1>1, <1>5, ClientKept

LEMMA IdleTimerKept ==
  ASSUME IInv, IdleTimerFires
  PROVE  IInv' /\ Uncached
<1>1. Client(OnWatchStreamClose(Step([client EXCEPT !.stream = Close(@, TRUE)])))
  BY DEF IdleTimerFires
<1>2. TRUE \in BOOLEAN
  OBVIOUS
<1> QED BY <1>1, <1>2, ClosedKept

LEMMA StreamFailureKept ==
  ASSUME IInv, StreamFails
  PROVE  IInv' /\ Uncached
<1>1. Client(OnWatchStreamClose(Step([client EXCEPT !.stream = Close(@, FALSE)])))
  BY DEF StreamFails, World
<1>2. FALSE \in BOOLEAN
  OBVIOUS
<1> QED BY <1>1, <1>2, ClosedKept

\* The client has heard from the server.
LEMMA Heard ==
  ASSUME IInv, NEW t, t = UpdateState(Step(client), "Online")
  PROVE  /\ Valid(client, t) /\ t.raised = <<>> /\ Sound(t.client)
         /\ t.client \in Clients /\ t.client.online = "Online"
         /\ SameButOnline(t.client, client) /\ t.client.raised = client.raised
         /\ t.client.snapshot = client.snapshot
         /\ t.client.failures = 0 /\ t.client.timer = FALSE
<1>1. /\ Valid(client, t) /\ t.raised = Step(client).raised
      /\ t.client = [Step(client).client EXCEPT !.failures = 0, !.timer = FALSE,
                                                !.online = "Online"]
  BY Typed, UpdateStateFacts
<1>2. Step(client).client = client /\ Step(client).raised = <<>>
  BY DEF Step
<1>3. t.client = [client EXCEPT !.failures = 0, !.timer = FALSE, !.online = "Online"]
  BY <1>1, <1>2
<1>4. /\ SameButOnline(t.client, client) /\ t.client.raised = client.raised
      /\ t.client.snapshot = client.snapshot
      /\ t.client.failures = 0 /\ t.client.timer = FALSE /\ t.client.online = "Online"
  BY <1>3, Typed DEF Clients, SameButOnline
<1>5. t.client \in Clients
  BY <1>1 DEF Valid, Raised, Steps
<1>6. Sound(t.client)
  BY <1>4, Typed DEF Sound, Timed, Targeted, SameButOnline
<1> QED BY <1>1, <1>2, <1>4, <1>5, <1>6

LEMMA WatchResponseKept ==
  ASSUME IInv, WatchResponds
  PROVE  IInv' /\ Uncached
<1> DEFINE s == UpdateState(Step(client), "Online")
<1>1. Client(s)
  BY DEF WatchResponds, World
<1>2. s = UpdateState(Step(client), "Online")
  OBVIOUS
<1> HIDE DEF s
<1>3. Valid(client, s) /\ Sound(s.client) /\ s.raised = <<>>
  BY <1>2, Heard
<1>4. NoCache(s.raised)
  BY <1>3 DEF NoCache
<1> QED BY <1>1, <1>3, <1>4, ClientKept

LEMMA TargetSyncedKept ==
  ASSUME IInv, NEW q \in Queries, TargetSynced(q)
  PROVE  IInv' /\ Uncached
<1> DEFINE u == UpdateState(Step(client), "Online")
           s == OnViewSnapshot(u, q, "synced")
<1>1. Client(s)
  BY DEF TargetSynced, World
<1>2. u = UpdateState(Step(client), "Online")
  OBVIOUS
<1> HIDE DEF u
<1>3. Valid(client, u) /\ Sound(u.client) /\ u.raised = <<>>
  BY <1>2, Heard
<1>4. NoCache(u.raised) /\ \A p \in Queries \ {q} : Told(u.client, p)
  BY <1>3 DEF NoCache, Valid, AllTold
<1>5. s = OnViewSnapshot(u, q, "synced")
  OBVIOUS
<1> HIDE DEF s
<1>6. /\ Raised(client, s) /\ AllTold(s.client) /\ SameButTold(s.client, u.client)
      /\ NoCache(s.raised)
  BY <1>3, <1>4, <1>5, Typed, ViewSnapshotRaises DEF Valid
<1>7. Sound(s.client)
  BY <1>3, <1>6 DEF Sound, Timed, Targeted, SameButTold
<1> QED BY <1>1, <1>6, <1>7, ClientKept DEF Valid

\* The listeners of q are told the error, and gone with their target.
LEMMA TargetRejectedKept ==
  ASSUME IInv, NEW q \in Queries, TargetRejected(q)
  PROVE  IInv' /\ Uncached
<1> DEFINE u == UpdateState(Step(client), "Online")
           c == u.client
           ls == [c.listeners EXCEPT ![q] = <<>>]
           sn == [c.snapshot EXCEPT ![q] = "none"]
           r == Events(client.listeners[q], "error")
           fs == events \o r
<1>1. u = UpdateState(Step(client), "Online")
  OBVIOUS
<1>2. /\ client' = [c EXCEPT !.targets = @ \ {q}, !.sent = @ \ {q}, !.listeners[q] = <<>>,
                             !.snapshot[q] = "none",
                             !.raised = @ \ ToSet(client.listeners[q])]
      /\ events' = events \o (u.raised \o r)
      /\ UNCHANGED <<tasks, query, muted, calls, again>>
  BY DEF TargetRejected, World, Client, Run
<1> HIDE DEF u
<1>3. /\ Valid(client, u) /\ u.raised = <<>> /\ Sound(c) /\ c \in Clients
      /\ c.online = "Online" /\ SameButOnline(c, client) /\ c.raised = client.raised
      /\ c.snapshot = client.snapshot /\ c.failures = 0 /\ c.timer = FALSE
  BY <1>1, Heard
<1> HIDE DEF c
<1>4. /\ ls \in [Queries -> Seq(Gets)] /\ sn \in [Queries -> {"none", "local", "synced"}]
      /\ ls[q] = <<>> /\ sn[q] = "none"
      /\ \A p \in Queries \ {q} : ls[p] = client.listeners[p] /\ sn[p] = client.snapshot[p]
      /\ ls = [client.listeners EXCEPT ![q] = <<>>]
  BY <1>3 DEF Clients, SameButOnline
<1>5. client' = [c EXCEPT !.targets = @ \ {q}, !.sent = @ \ {q}, !.listeners = ls,
                          !.snapshot = sn, !.raised = @ \ ToSet(client.listeners[q])]
  BY <1>2, <1>3 DEF Clients
<1> HIDE DEF ls, sn
<1>6. /\ client' \in Clients /\ client'.listeners = ls /\ client'.snapshot = sn
      /\ client'.raised = client.raised \ ToSet(client.listeners[q])
      /\ client'.targets = client.targets \ {q} /\ client'.sent = client.sent \ {q}
      /\ client'.stream = client.stream /\ client'.online = "Online"
      /\ client'.failures = 0 /\ client'.timer = FALSE
  BY <1>3, <1>4, <1>5 DEF Clients, SameButOnline
<1>7. fs \in Seq(EventRecords) /\ Life(client', tasks, fs, query, muted, calls)
  BY <1>4, <1>6, Typed, Rejected
<1>8. /\ r \in Seq(EventRecords) /\ \A k \in DOMAIN r : r[k].result = "error"
  <2> DEFINE L == client.listeners[q]
  <2>1. L \in Seq(Gets) /\ r = Events(L, "error")
    BY Typed DEF Clients
  <2> HIDE DEF L, r
  <2>2. \A k \in DOMAIN L : [get |-> L[k], result |-> "error"] \in EventRecords
    BY <2>1 DEF EventRecords
  <2> QED BY <2>1, <2>2 DEF Events
<1> HIDE DEF r
<1>9. events' = fs
  BY <1>2, <1>3, <1>8
<1>10. \A i \in DOMAIN fs : i > Len(events) => fs[i].result # "cache"
  <2>1. \A i \in DOMAIN events : ~(i > Len(events))
    BY Typed
  <2>2. /\ \A i \in DOMAIN r : fs[Len(events) + i] = r[i]
        /\ \A i \in DOMAIN fs : i \in DOMAIN events \/ \E j \in DOMAIN r : i = Len(events) + j
    BY <1>8, Typed, ConcatFacts
  <2> HIDE DEF fs
  <2> QED BY <2>1, <2>2, <1>8
<1> HIDE DEF fs
<1>11. Uncached
  BY <1>9, <1>10 DEF Uncached
<1>12. AllTold(client')
  <2> SUFFICES ASSUME NEW p \in Queries PROVE Told(client', p)
    BY DEF AllTold
  <2>1. CASE p = q
    BY <2>1, <1>4, <1>6 DEF Told
  <2>2. CASE p # q
    <3>1. client.snapshot[p] = "synced" => ToSet(client.listeners[p]) \subseteq client.raised
      BY Typed DEF AllTold, Told
    <3>2. ToSet(client.listeners[p]) \cap ToSet(client.listeners[q]) = {}
      BY <2>2, Typed DEF WellListed
    <3> QED BY <2>2, <3>1, <3>2, <1>4, <1>6 DEF Told
  <2> QED BY <2>1, <2>2
<1>13. Sound(client')
  <2>1. Targeted(client', client'.targets)
    BY <1>4, <1>6, Typed DEF Sound, Targeted
  <2> QED BY <2>1, <1>6, Typed DEF Sound, Timed
<1>14. TypeOK'
  BY <1>2, <1>6, <1>7, <1>9, Typed DEF IInv, TypeOK, TaskRecords, EventRecords
<1>15. IInv'
  BY <1>2, <1>7, <1>9, <1>12, <1>13, <1>14 DEF IInv
<1> QED BY <1>11, <1>15

LEMMA RestartKept ==
  ASSUME IInv, RestartNetwork
  PROVE  IInv' /\ Uncached
<1> DEFINE st == InhibitBackoff(Close(client.stream, TRUE))
           d == [client EXCEPT !.stream = st, !.sent = {}, !.written = FALSE]
           u == UpdateState(Step(d), "Unknown")
           s == IF ShouldStartWatchStream(u.client) THEN StartWatchStream(u) ELSE u
<1>1. Client(s)
  BY DEF RestartNetwork, World
<1>2. st \in Streams /\ CallbacksFit(st) /\ ~IsStarted(st) /\ ~st.idle
  <2> DEFINE closed == Close(client.stream, TRUE)
  <2>1. closed \in Streams /\ CallbacksFit(closed) /\ ~IsStarted(closed)
    BY Typed, StreamFacts DEF Sound
  <2> HIDE DEF closed
  <2>2. /\ InhibitBackoff(closed) \in Streams /\ CallbacksFit(InhibitBackoff(closed))
        /\ ~IsStarted(InhibitBackoff(closed)) /\ ~InhibitBackoff(closed).idle
    BY <2>1, StreamFacts
  <2> QED BY <2>2 DEF closed
<1> HIDE DEF st
<1>3. /\ d \in Clients /\ d.stream = st /\ d.sent = {} /\ d.targets = client.targets
      /\ d.listeners = client.listeners /\ d.online = client.online
      /\ d.raised = client.raised /\ d.snapshot = client.snapshot
      /\ d.failures = client.failures /\ d.timer = client.timer
  <2> DEFINE e(no) == [client EXCEPT !.stream = st, !.sent = {}, !.written = no]
  <2>1. ASSUME NEW no \in BOOLEAN
        PROVE  /\ e(no) \in Clients /\ e(no).stream = st /\ e(no).sent = {}
               /\ e(no).targets = client.targets
               /\ e(no).listeners = client.listeners /\ e(no).online = client.online
               /\ e(no).raised = client.raised /\ e(no).snapshot = client.snapshot
               /\ e(no).failures = client.failures /\ e(no).timer = client.timer
    BY <1>2, Typed DEF Clients
  <2>2. d = e(FALSE) /\ FALSE \in BOOLEAN
    BY Zenon
  <2> HIDE DEF d, e
  <2> QED BY <2>1, <2>2, Zenon
<1> HIDE DEF d
<1>4. /\ Valid(client, Step(d)) /\ Step(d).client = d /\ Step(d).raised = <<>>
      /\ Targeted(d, d.targets) /\ u = UpdateState(Step(d), "Unknown")
  BY <1>3, Restreamed
<1> HIDE DEF u
<1>5. /\ Valid(client, u) /\ u.raised = <<>>
      /\ u.client = [d EXCEPT !.failures = 0, !.timer = FALSE, !.online = "Unknown"]
  <2>1. /\ Valid(client, u) /\ u.raised = Step(d).raised
        /\ u.client = [Step(d).client EXCEPT !.failures = 0, !.timer = FALSE,
                                             !.online = "Unknown"]
    BY <1>4, Typed, UpdateStateFacts
  <2> QED BY <2>1, <1>4
<1>6. /\ u.client.stream = st /\ u.client.sent = {} /\ u.client.targets = client.targets
      /\ u.client.listeners = client.listeners /\ Timed(u.client)
      /\ Targeted(u.client, u.client.targets) /\ u.client.online = "Unknown"
  BY <1>3, <1>4, <1>5 DEF Clients, Timed, Targeted
<1>7. CASE ShouldStartWatchStream(u.client)
  <2>1. s = StartWatchStream(u)
    BY <1>7
  <2> HIDE DEF s
  <2>2. /\ Valid(client, s) /\ Timed(s.client) /\ s.raised = u.raised
        /\ CallbacksFit(s.client.stream) /\ ~s.client.stream.idle
        /\ s.client.targets = u.client.targets /\ s.client.sent = u.client.sent
        /\ s.client.listeners = u.client.listeners
    BY <2>1, <1>2, <1>5, <1>6, Typed, StartWatchStreamFacts
  <2>3. Sound(s.client) /\ NoCache(s.raised)
    BY <2>2, <1>5, <1>6 DEF Sound, Targeted, NoCache
  <2> QED BY <2>2, <2>3, <1>1, ClientKept DEF s
<1>8. CASE ~ShouldStartWatchStream(u.client)
  <2>1. s = u
    BY <1>8
  <2>2. Sound(u.client) /\ NoCache(u.raised)
    BY <1>2, <1>5, <1>6 DEF Sound, NoCache
  <2> QED BY <2>1, <2>2, <1>1, <1>5, ClientKept
<1> QED BY <1>7, <1>8

-----------------------------------------------------------------------------
(* The theorems.                                                           *)

LEMMA InitHolds == Init => IInv
<1> SUFFICES ASSUME Init PROVE IInv
  OBVIOUS
<1>1. /\ client.listeners = [q \in Queries |-> <<>>]
      /\ client.snapshot = [q \in Queries |-> "none"]
      /\ client.raised = {} /\ client.targets = {} /\ client.sent = {}
      /\ client.online = "Unknown" /\ client.failures = 0 /\ client.timer = FALSE
      /\ client.stream = NewStream
      /\ tasks = <<>> /\ events = <<>> /\ muted = {} /\ calls = <<>> /\ again = FALSE
      /\ query = [g \in Gets |-> NoQuery]
  BY DEF Init
<1>2. NewStream \in Streams /\ CallbacksFit(NewStream) /\ ~NewStream.idle
  BY DEF NewStream, Streams, CallbacksFit, IsOpen
<1>3. client \in Clients
  <2> DEFINE ls == [q \in Queries |-> <<>>]
             sn == [q \in Queries |-> "none"]
             st == NewStream
  <2>1. ls \in [Queries -> Seq(Gets)] /\ sn \in [Queries -> {"none", "local", "synced"}]
        /\ st \in Streams
    BY <1>2
  <2>2. 0 \in 0 .. MaxWatchStreamFailures
    BY DEF MaxWatchStreamFailures
  <2>3. \A no \in BOOLEAN :
          [online |-> "Unknown", failures |-> 0, timer |-> no, stream |-> st, targets |-> {},
           sent |-> {}, written |-> no, listeners |-> ls, snapshot |-> sn, raised |-> {}]
            \in Clients
    <3> HIDE DEF ls, sn, st
    <3> QED BY <2>1, <2>2 DEF Clients
  <2>4. client = [online |-> "Unknown", failures |-> 0, timer |-> FALSE, stream |-> st,
                  targets |-> {}, sent |-> {}, written |-> FALSE, listeners |-> ls,
                  snapshot |-> sn, raised |-> {}]
    BY DEF Init
  <2> HIDE DEF ls, sn, st
  <2> QED BY <2>3, <2>4, Zenon
<1>4. TypeOK
  <2>1. again \in BOOLEAN
    BY <1>1
  <2>2. /\ tasks \in Seq(TaskRecords) /\ events \in Seq(EventRecords) /\ calls \in Seq(Gets)
        /\ query \in [Gets -> Queries \cup {NoQuery}] /\ muted \subseteq Gets
    BY <1>1
  <2> QED BY <2>1, <2>2, <1>3 DEF TypeOK, TaskRecords, EventRecords
<1>5. Sound(client) /\ AllTold(client)
  <2>1. \A q \in Queries : client.listeners[q] = <<>> /\ client.snapshot[q] = "none"
    BY <1>1
  <2>2. AllTold(client)
    BY <2>1, <1>1 DEF AllTold, Told
  <2>3. Targeted(client, client.targets) /\ Timed(client)
    BY <2>1, <1>1 DEF Targeted, Timed
  <2> QED BY <2>2, <2>3, <1>1, <1>2 DEF Sound
<1>6. Life(client, tasks, events, query, muted, calls)
  <2>1. \A q \in Queries : client.listeners[q] = <<>>
    BY <1>1
  <2>2. ToSet(<<>>) = {}
    BY DEF ToSet
  <2>3. ListenersFit(client, query, muted, calls)
    BY <2>1, <2>2, <1>1 DEF ListenersFit, IsOneToOne
  <2>4. CallsFit(client, tasks, events, query, muted, calls)
    BY <2>2, <1>1 DEF CallsFit, IsOneToOne
  <2>5. TasksFit(client, tasks, events, query, muted, calls)
    BY <1>1 DEF TasksFit
  <2>6. EventsFit(client, events, muted, calls)
    BY <1>1 DEF EventsFit
  <2>7. OrderKept(client, tasks, events, query, calls)
    BY <1>1 DEF OrderKept
  <2> QED BY <2>3, <2>4, <2>5, <2>6, <2>7 DEF Life
<1> QED BY <1>1, <1>4, <1>5, <1>6 DEF IInv

\* Whatever step is taken.
LEMMA StepHolds ==
  ASSUME IInv, [Next]_vars
  PROVE  IInv' /\ (Uncached \/ UNCHANGED vars)
<1>1. ASSUME NEW g \in Gets, NEW q \in Queries, GetDocuments(g, q) PROVE IInv' /\ Uncached
  BY <1>1, GetDocumentsKept
<1>2. CASE RunTask
  BY <1>2, RunAdd, RunRemove
<1>3. CASE Deliver
  BY <1>3, DeliverKept
<1>4. CASE OnlineStateTimerFires
  BY <1>4, OnlineTimerKept
<1>5. CASE BackoffTimerFires
  BY <1>5, BackoffTimerKept
<1>6. ASSUME NEW when, CredentialsAnswered(when) PROVE IInv' /\ Uncached
  BY <1>6, CredentialsKept
<1>7. CASE IdleTimerFires
  BY <1>7, IdleTimerKept
<1>8. CASE WatchResponds
  BY <1>8, WatchResponseKept
<1>9. ASSUME NEW q \in Queries, TargetSynced(q) PROVE IInv' /\ Uncached
  BY <1>9, TargetSyncedKept
<1>10. ASSUME NEW q \in Queries, TargetRejected(q) PROVE IInv' /\ Uncached
  BY <1>10, TargetRejectedKept
<1>11. CASE StreamFails
  BY <1>11, StreamFailureKept
<1>12. CASE RestartNetwork
  BY <1>12, RestartKept
<1>13. CASE UNCHANGED vars
  <2>1. IInv'
    BY <1>13 DEF vars, IInv, TypeOK
  <2> QED BY <2>1, <1>13
<1> QED BY <1>1, <1>2, <1>3, <1>4, <1>5, <1>6, <1>7, <1>8, <1>9, <1>10, <1>11, <1>12, <1>13
    DEF Next

LEMMA Invariance == Spec => []IInv
<1>1. IInv /\ [Next]_vars => IInv'
  BY StepHolds
<1> QED BY <1>1, InitHolds, PTL DEF Spec

\* The state of the client, of its queues and of the calls stays well formed.
THEOREM TypeCorrect == Spec => []TypeOK
<1>1. IInv => TypeOK
  BY DEF IInv
<1> QED BY <1>1, Invariance, PTL

\* The assertions of the stream, of the tracker and of the event manager are out
\* of reach, whatever the queries, the calls and the failures of the network.
THEOREM AssertionsAreSafe == Spec => []AssertionsHold
<1>1. IInv => AssertionsHold
  BY DEF IInv, Sound, Timed, Targeted, AssertionsHold
<1> QED BY <1>1, Invariance, PTL

\* A call of getDocuments is answered once, although its listener may raise more
\* than one event before the worker queue gets to take it away.
THEOREM AnswersComeOnce == Spec => []CompletedOnce
<1>1. IInv => CompletedOnce
  BY DEF IInv, CompletedOnce
<1> QED BY <1>1, Invariance, PTL

\* The oldest of the calls for a query is answered before the later ones.
THEOREM AnswersComeInOrder == Spec => AnsweredInOrder
<1> DEFINE A == \A j \in DOMAIN calls : \A i \in 1 .. j - 1 :
                  query[calls[i]] = query[calls[j]] /\ calls[i] \in ToSet(calls')
                    => calls[j] \in ToSet(calls')
<1>1. ASSUME IInv, [Next]_vars PROVE A \/ UNCHANGED vars
  <2>1. CASE Deliver
    BY <1>1, <2>1, DeliverKept
  <2>2. ASSUME NEW g \in Gets, NEW q \in Queries, GetDocuments(g, q) PROVE A
    <3>1. calls' = Append(calls, g) /\ calls \in Seq(Gets)
      BY <1>1, <2>2, Typed DEF GetDocuments
    <3>2. \A j \in DOMAIN calls : calls[j] \in ToSet(calls')
      <4>1. ToSet(calls') = ToSet(calls) \cup {g}
        BY <3>1, AppendFacts
      <4> QED BY <4>1 DEF ToSet
    <3> QED BY <3>2
  <2>3. CASE calls' = calls
    BY <2>3 DEF ToSet
  <2>4. Deliver \/ (\E g \in Gets, q \in Queries : GetDocuments(g, q)) \/ calls' = calls
        \/ UNCHANGED vars
    BY <1>1 DEF Next, RunTask, OnlineStateTimerFires, BackoffTimerFires, CredentialsAnswered,
         IdleTimerFires, WatchResponds, TargetSynced, TargetRejected, StreamFails,
         RestartNetwork, World, Client
  <2> QED BY <2>1, <2>2, <2>3, <2>4
<1>2. IInv /\ [Next]_vars => [A]_vars
  BY <1>1
<1> QED BY <1>2, Invariance, PTL DEF Spec, AnsweredInOrder

\* As long as the server is heard nobody is put off with the cache: what a
\* listener has raised by then came from the server, or before it was heard.
THEOREM ServerAnswersWhileHeard == Spec => NoCacheWhileOnline
<1>1. IInv /\ [Next]_vars => [Uncached]_vars
  BY StepHolds
<1> QED BY <1>1, Invariance, PTL DEF Spec, NoCacheWhileOnline, Uncached

=============================================================================
