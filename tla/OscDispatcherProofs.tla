------------------------ MODULE OscDispatcherProofs ------------------------
(***************************************************************************)
(* The dispatcher's threads, for any packets, handlers, addresses and      *)
(* clock: messages are handled in their time and order, whole or not at    *)
(* all; and of what this program sends no string is shortened or misread.  *)
(***************************************************************************)
EXTENDS OscDispatcher, SequenceLemmas

LEMMA EmptyList == ASSUME NEW T PROVE << >> \in Seq(T) /\ DOMAIN << >> = {}
  BY EmptySeq, LenProperties

----------------------------------------------------------------------------
(* Sorting *)

\* How many messages are to be handled before each.
Rank(ms) == [i \in DOMAIN ms |-> Cardinality(Before(ms, i))]

\* No two messages have the same rank, and every rank is some message's.
LEMMA Ranks ==
    ASSUME NEW ms, NEW n \in Nat, DOMAIN ms = 1..n, \A i \in 1..n : ms[i].due \in Int
    PROVE  /\ Rank(ms) \in [1..n -> 0..n - 1]
           /\ \A i, j \in 1..n : i \in Before(ms, j) => Rank(ms)[i] < Rank(ms)[j]
           /\ \A i, j \in 1..n : i # j => i \in Before(ms, j) \/ j \in Before(ms, i)
           /\ \A k \in 0..n - 1 : \E i \in 1..n : Rank(ms)[i] = k
  <1>0. IsFiniteSet(1..n) /\ Cardinality(1..n) = n
    BY FS_Interval
  <1>1. ASSUME NEW i \in 1..n
        PROVE  /\ Before(ms, i) \subseteq 1..n /\ i \notin Before(ms, i)
               /\ IsFiniteSet(Before(ms, i)) /\ Cardinality(Before(ms, i)) \in 0..n - 1
    <2>1. Before(ms, i) \subseteq (1..n) \ {i}
      BY DEF Before
    <2>2. IsFiniteSet((1..n) \ {i}) /\ Cardinality((1..n) \ {i}) = n - 1
      BY <1>0, FS_RemoveElement
    <2>3. IsFiniteSet(Before(ms, i)) /\ Cardinality(Before(ms, i)) <= n - 1
      BY <2>1, <2>2, FS_Subset
    <2>4. QED
      BY <2>1, <2>3, FS_CardinalityType
  <1>2. ASSUME NEW i \in 1..n, NEW j \in 1..n, i \in Before(ms, j)
        PROVE  Cardinality(Before(ms, i)) < Cardinality(Before(ms, j))
    <2>1. Before(ms, i) \subseteq Before(ms, j)
      BY <1>2 DEF Before
    <2>2. Before(ms, i) # Before(ms, j)
      BY <1>1, <1>2
    <2>3. QED
      BY <1>1, <2>1, <2>2, FS_Subset
  <1>3. ASSUME NEW i \in 1..n, NEW j \in 1..n, i # j
        PROVE  i \in Before(ms, j) \/ j \in Before(ms, i)
    BY <1>3 DEF Before
  <1> DEFINE rank == Rank(ms)
  <1>4. /\ rank \in [1..n -> 0..n - 1]
        /\ \A i, j \in 1..n : i \in Before(ms, j) => rank[i] < rank[j]
    BY <1>1, <1>2 DEF Rank
  <1> HIDE DEF rank
  <1>5. ASSUME NEW k \in 0..n - 1, \A i \in 1..n : rank[i] # k PROVE FALSE
    <2> DEFINE T == (0..n - 1) \ {k}
    <2>1. IsFiniteSet(0..n - 1) /\ Cardinality(0..n - 1) = n
      BY FS_Interval
    <2>2. IsFiniteSet(T) /\ Cardinality(T) = n - 1
      BY <2>1, FS_RemoveElement
    <2>3. rank \in [1..n -> T]
      BY <1>4, <1>5
    <2>4. \A i, j \in 1..n : i # j => rank[i] # rank[j]
      BY <1>3, <1>4
    <2>5. rank \in Injection(1..n, T)
      BY <2>3, <2>4 DEF Injection, IsInjective
    <2>6. n <= n - 1
      BY <1>0, <2>2, <2>5, FS_Injection
    <2>7. QED
      BY <2>6
  <1>6. QED
    BY <1>3, <1>4, <1>5 DEF rank

\* sorted() loses nothing, adds nothing, and puts what is due first first.
LEMMA Sorted ==
    ASSUME NEW T, NEW ms \in Seq(T), \A i \in DOMAIN ms : ms[i].due \in Int
    PROVE  /\ InOrder(ms) \in Seq(T)
           /\ \A k \in DOMAIN InOrder(ms) : \E i \in DOMAIN ms : InOrder(ms)[k] = ms[i]
           /\ \A i \in DOMAIN ms : \E k \in DOMAIN InOrder(ms) : InOrder(ms)[k] = ms[i]
           /\ \A k, l \in DOMAIN InOrder(ms) : k < l => InOrder(ms)[k].due <= InOrder(ms)[l].due
           /\ (\A i, j \in DOMAIN ms : ms[i].msg = ms[j].msg => i = j)
              => \A k, l \in DOMAIN InOrder(ms) : InOrder(ms)[k].msg = InOrder(ms)[l].msg => k = l
  <1>1. PICK n \in Nat :
            n = Len(ms) /\ DOMAIN ms = 1..n /\ \A i \in 1..n : ms[i] \in T /\ ms[i].due \in Int
    BY LenProperties, ElementOfSeq
  <1> DEFINE rank == Rank(ms)
  <1>2. \A k \in 0..n - 1 : \E i \in 1..n : rank[i] = k
    BY <1>1, Ranks
  <1>3. rank \in [1..n -> 0..n - 1]
    BY <1>1, Ranks
  <1>4. \A i, j \in 1..n : i \in Before(ms, j) => rank[i] < rank[j]
    BY <1>1, Ranks
  <1>5. \A i, j \in 1..n : i # j => i \in Before(ms, j) \/ j \in Before(ms, i)
    BY <1>1, Ranks
  <1> DEFINE at == [k \in DOMAIN ms |-> CHOOSE i \in DOMAIN ms : Cardinality(Before(ms, i)) = k - 1]
  <1>6. InOrder(ms) = [k \in DOMAIN ms |-> ms[at[k]]]
    BY DEF InOrder
  <1>7. \A k \in 1..n : at[k] \in 1..n /\ rank[at[k]] = k - 1
    <2> SUFFICES ASSUME NEW k \in 1..n PROVE at[k] \in 1..n /\ rank[at[k]] = k - 1
      OBVIOUS
    <2>1. DOMAIN ms = 1..n /\ \A i \in 1..n : rank[i] = Cardinality(Before(ms, i))
      BY <1>1 DEF Rank
    <2> HIDE DEF rank
    <2>2. k - 1 \in 0..n - 1
      BY <1>1
    <2>3. PICK i \in 1..n : rank[i] = k - 1
      BY <1>2, <2>2
    <2>4. i \in DOMAIN ms /\ Cardinality(Before(ms, i)) = k - 1
      BY <2>1, <2>3
    <2>5. at[k] \in DOMAIN ms /\ Cardinality(Before(ms, at[k])) = k - 1
      BY <2>1, <2>4
    <2>6. QED
      BY <2>1, <2>5
  <1> HIDE DEF rank
  <1> HIDE DEF at
  <1>8. DOMAIN InOrder(ms) = 1..n /\ \A k \in 1..n : InOrder(ms)[k] = ms[at[k]]
    BY <1>1, <1>6
  <1>9. InOrder(ms) \in Seq(T)
    BY <1>1, <1>6, <1>7, SeqDef
  <1>10. ASSUME NEW i \in 1..n PROVE \E k \in 1..n : InOrder(ms)[k] = ms[i]
    <2>1. rank[i] + 1 \in 1..n /\ rank[i] + 1 - 1 = rank[i]
      BY <1>1, <1>3
    <2>2. PICK k \in 1..n : k = rank[i] + 1
      BY <2>1
    <2>3. at[k] \in 1..n /\ rank[at[k]] = k - 1
      BY <1>7
    <2>4. PICK j \in 1..n : j = at[k]
      BY <2>3
    <2>5. rank[j] = rank[i] /\ rank[i] \in Int
      BY <1>3, <2>1, <2>2, <2>3, <2>4
    <2>6. ~(i \in Before(ms, j)) /\ ~(j \in Before(ms, i))
      BY <1>4, <2>5
    <2>7. i = j
      BY <1>5, <2>6
    <2>8. QED
      BY <1>8, <2>4, <2>7
  <1>11. ASSUME NEW k \in 1..n, NEW l \in 1..n, k < l
        PROVE  InOrder(ms)[k].due <= InOrder(ms)[l].due
    <2>1. at[k] \in 1..n /\ at[l] \in 1..n /\ rank[at[k]] < rank[at[l]]
      BY <1>7, <1>11
    <2>2. at[l] \notin Before(ms, at[k])
      BY <1>3, <1>4, <2>1
    <2>3. ms[at[k]].due \in Int /\ ms[at[l]].due \in Int
      BY <1>1, <2>1
    <2>4. ms[at[k]].due <= ms[at[l]].due
      BY <1>1, <2>1, <2>2, <2>3 DEF Before
    <2>5. QED
      BY <1>8, <2>4
  <1>12. ASSUME \A i, j \in 1..n : ms[i].msg = ms[j].msg => i = j,
                NEW k \in 1..n, NEW l \in 1..n, InOrder(ms)[k].msg = InOrder(ms)[l].msg
         PROVE  k = l
    <2>1. at[k] \in 1..n /\ at[l] \in 1..n /\ rank[at[k]] = k - 1 /\ rank[at[l]] = l - 1
      BY <1>7
    <2>2. at[k] = at[l]
      BY <1>8, <1>12, <2>1
    <2>3. k - 1 = l - 1
      BY <2>1, <2>2
    <2>4. QED
      BY <2>3
  <1>13. \A k \in 1..n : \E i \in 1..n : InOrder(ms)[k] = ms[i]
    BY <1>7, <1>8
  <1>14. (\A i, j \in 1..n : ms[i].msg = ms[j].msg => i = j)
         => \A k, l \in 1..n : InOrder(ms)[k].msg = InOrder(ms)[l].msg => k = l
    BY <1>12
  <1>15. DOMAIN ms = 1..n /\ DOMAIN InOrder(ms) = 1..n
    BY <1>1, <1>8
  <1>16. \A i \in 1..n : \E k \in 1..n : InOrder(ms)[k] = ms[i]
    BY <1>10
  <1>17. \A k, l \in 1..n : k < l => InOrder(ms)[k].due <= InOrder(ms)[l].due
    BY <1>11
  <1>18. QED
    BY <1>9, <1>13, <1>14, <1>15, <1>16, <1>17

----------------------------------------------------------------------------
(* The address table *)

\* The lists of a list are joined one by one.
LEMMA Joined ==
    ASSUME NEW T, NEW ss \in Seq(Seq(T))
    PROVE  \E flat :
               /\ FlattenSeq(ss) = IF Len(ss) = 0 THEN << >> ELSE flat[Len(ss)]
               /\ \A i \in 1..Len(ss) :
                      /\ flat[i] = IF i = 1 THEN ss[i] ELSE flat[i - 1] \o ss[i]
                      /\ flat[i] \in Seq(T)
  <1> DEFINE n == Len(ss)
             Joins(f, m) == f = [i \in 1..m |-> IF i = 1 THEN ss[i] ELSE f[i - 1] \o ss[i]]
  <1>1. n \in Nat /\ \A i \in 1..n : ss[i] \in Seq(T)
    BY LenProperties, ElementOfSeq
  <1> HIDE DEF n
  <1> DEFINE Stepwise(f, m) ==
                 \A i \in 1..m : f[i] = IF i = 1 THEN ss[i] ELSE f[i - 1] \o ss[i]
  <1>2. ASSUME NEW f, NEW m, Joins(f, m) PROVE Stepwise(f, m)
    BY <1>2
  <1>3. \E f : Joins(f, 0)
    <2>1. Joins([i \in 1..0 |-> ss[i]], 0)
      OBVIOUS
    <2> HIDE DEF Joins
    <2>2. QED
      BY <2>1
  <1>4. ASSUME NEW m \in 1..n, NEW f, Joins(f, m - 1) PROVE \E g : Joins(g, m)
    <2> DEFINE g == [i \in 1..m |-> IF i = 1 THEN ss[i] ELSE f[i - 1] \o ss[i]]
    <2>1. Stepwise(f, m - 1)
      BY <1>2, <1>4
    <2>2. \A i \in 1..m - 1 : i \in 1..m /\ g[i] = f[i]
      BY <1>1, <2>1
    <2>3. \A i \in 1..m : i # 1 => i - 1 \in 1..m - 1
      BY <1>1
    <2>4. \A i \in 1..m : i # 1 => g[i - 1] = f[i - 1]
      BY <2>2, <2>3
    <2> DEFINE h == [i \in 1..m |-> IF i = 1 THEN ss[i] ELSE g[i - 1] \o ss[i]]
    <2>5. g = h
      BY <2>4
    <2>6. Joins(g, m)
      BY <2>5
    <2> HIDE DEF Joins, g
    <2>7. QED
      BY <2>6
  <1> HIDE DEF Joins, Stepwise
  <1>5. \A m \in Nat : m <= n => \E f : Joins(f, m)
    <2> DEFINE bad == {m \in Nat : m <= n /\ ~\E f : Joins(f, m)}
    <2>1. SUFFICES ASSUME bad # {} PROVE FALSE
      OBVIOUS
    <2>2. PICK m \in bad : \A y \in bad : m <= y
      BY <2>1, FirstPosition
    <2>3. m \in Nat /\ m <= n /\ m # 0
      BY <1>3, <2>2
    <2>4. m \in 1..n /\ m - 1 \in Nat /\ m - 1 <= n /\ m - 1 \notin bad
      BY <1>1, <2>2, <2>3
    <2>5. PICK f : Joins(f, m - 1)
      BY <2>4
    <2>6. QED
      BY <1>4, <2>2, <2>4, <2>5
  <1> DEFINE flat == CHOOSE f : Joins(f, n)
  <1>6. Joins(flat, n)
    <2>1. n \in Nat /\ n <= n
      BY <1>1
    <2>2. \E f : Joins(f, n)
      BY <1>5, <2>1, Zenon
    <2>3. QED
      BY <2>2
  <1>7. FlattenSeq(ss) = IF n = 0 THEN ss ELSE flat[n]
    BY DEF FlattenSeq, n, Joins
  <1> HIDE DEF flat
  <1>8. \A i \in 1..n : flat[i] = IF i = 1 THEN ss[i] ELSE flat[i - 1] \o ss[i]
    BY <1>6, <1>2 DEF Stepwise
  <1>9. \A i \in 1..n : flat[i] \in Seq(T)
    <2> DEFINE bad == {i \in Nat : i \in 1..n /\ flat[i] \notin Seq(T)}
    <2> SUFFICES ASSUME bad # {} PROVE FALSE
      BY <1>1
    <2>1. PICK m \in bad : \A y \in bad : m <= y
      BY FirstPosition
    <2>2. m # 1
      BY <1>1, <1>8, <2>1
    <2>3. m - 1 \in 1..n /\ m - 1 \notin bad
      BY <1>1, <2>1, <2>2
    <2>4. flat[m - 1] \in Seq(T)
      BY <2>3
    <2>5. m \in 1..n /\ ss[m] \in Seq(T)
      BY <1>1
    <2>6. flat[m] = flat[m - 1] \o ss[m]
      BY <1>8, <2>2, <2>5
    <2>7. flat[m] \in Seq(T)
      BY <2>4, <2>5, <2>6, ConcatProperties
    <2>8. QED
      BY <2>1, <2>7
  <1>10. FlattenSeq(ss) = IF n = 0 THEN << >> ELSE flat[n]
    BY <1>7, EmptySeq DEF n
  <1>11. QED
    BY <1>8, <1>9, <1>10 DEF n

\* They make one list.
LEMMA Flattened ==
    ASSUME NEW T, NEW ss \in Seq(Seq(T))
    PROVE  FlattenSeq(ss) \in Seq(T)
  <1>1. PICK flat :
            /\ FlattenSeq(ss) = IF Len(ss) = 0 THEN << >> ELSE flat[Len(ss)]
            /\ \A i \in 1..Len(ss) : flat[i] \in Seq(T)
    BY Joined
  <1>2. Len(ss) \in Nat /\ << >> \in Seq(T)
    BY LenProperties, EmptySeq
  <1>3. QED
    BY <1>1, <1>2

\* list.remove.
LEMMA FirstRemoved ==
    ASSUME NEW T, NEW s \in Seq(T), NEW e
    PROVE  RemoveFirst(s, e) \in Seq(T)
  <1> DEFINE at == {i \in 1..Len(s) : s[i] = e}
  <1>1. CASE at = {}
    BY <1>1 DEF RemoveFirst
  <1>2. CASE at # {}
    <2>1. at \in SUBSET Nat
      BY LenProperties
    <2> HIDE DEF at
    <2>2. Min(at) \in at
      BY <1>2, <2>1, FirstPosition
    <2>3. RemoveFirst(s, e) = RemoveAt(s, Min(at))
      BY <1>2 DEF RemoveFirst, SelectInSeq, at
    <2>4. QED
      BY <2>2, <2>3, Removed DEF at
  <1>3. QED
    BY <1>1, <1>2

EntryOf == [address : Address, handlers : Seq(Handler)]

\* What a use of an address leaves in the table: every other entry as it was.
LEMMA EntryWritten ==
    ASSUME map \in Seq(EntryOf), IsInjective([k \in DOMAIN map |-> map[k].address]),
           NEW a \in Address, NEW hs \in Seq(Handler)
    PROVE  /\ WithEntry(a, hs) \in Seq(EntryOf)
           /\ IsInjective([k \in DOMAIN WithEntry(a, hs) |-> WithEntry(a, hs)[k].address])
  <1> DEFINE n == Len(map)
             p == Position(a)
             d == 1..n \cup {p}
             w == WithEntry(a, hs)
  <1>1. n \in Nat /\ DOMAIN map = 1..n /\ \A k \in 1..n : map[k] \in EntryOf
    BY LenProperties, ElementOfSeq
  <1>2. \A i, j \in 1..n : map[i].address = map[j].address => i = j
    BY <1>1 DEF IsInjective
  <1>3. \/ p \in 1..n /\ map[p].address = a
        \/ p = n + 1 /\ \A k \in 1..n : map[k].address # a
    BY <1>1 DEF Position
  <1> HIDE DEF n, p
  <1>4. w = [k \in d |-> IF k = p THEN [address |-> a, handlers |-> hs] ELSE map[k]]
    BY DEF WithEntry, n, p
  <1>5. d = 1..n \/ d = 1..n + 1
    BY <1>1, <1>3
  <1>6. p \in d /\ \A k \in d : k # p => k \in 1..n
    OBVIOUS
  <1> HIDE DEF d, w
  <1>7. DOMAIN w = d /\ w[p] = [address |-> a, handlers |-> hs]
        /\ \A k \in d : k # p => w[k] = map[k]
    BY <1>4, <1>6
  <1>8. [address |-> a, handlers |-> hs] \in EntryOf
    BY DEF EntryOf
  <1>9. \A k \in d : w[k] \in EntryOf
    BY <1>1, <1>6, <1>7, <1>8
  <1>10. w \in [d -> EntryOf]
    BY <1>4, <1>7, <1>9
  <1>11. w \in Seq(EntryOf)
    BY <1>1, <1>5, <1>10, SeqDef
  <1>12. \A i, j \in d : w[i].address = w[j].address => i = j
    <2> SUFFICES ASSUME NEW i \in d, NEW j \in d, w[i].address = w[j].address PROVE i = j
      OBVIOUS
    <2>1. ASSUME NEW k \in d, k # p PROVE w[k].address # w[p].address
      BY <1>2, <1>3, <1>6, <1>7, <2>1
    <2>2. QED
      BY <1>2, <1>6, <1>7, <2>1
  <1>13. QED
    BY <1>7, <1>11, <1>12 DEF IsInjective, w

\* The handlers of an address are callbacks, looked up or not.
LEMMA EntryRead ==
    ASSUME map \in Seq(EntryOf), NEW a
    PROVE  Entry(a) \in Seq(Handler)
  <1>1. CASE Position(a) \in DOMAIN map
    <2>1. map[Position(a)] \in EntryOf
      BY <1>1, ElementOfSeq, LenProperties
    <2>2. QED
      BY <1>1, <2>1 DEF Entry, EntryOf
  <1>2. CASE Position(a) \notin DOMAIN map
    BY <1>2, EmptySeq DEF Entry
  <1>3. QED
    BY <1>1, <1>2

\* Whatever address is received, what is found for it is a list of callbacks.
LEMMA HandlersFound ==
    ASSUME map \in Seq(EntryOf), default \in Handler \cup {NoHandler}, NEW received
    PROVE  HandlersFor(received) \in Seq(Handler)
  <1> DEFINE matched == {k \in DOMAIN map : Matches(map[k].address, received)}
             found == [k \in DOMAIN map |-> IF k \in matched THEN map[k].handlers ELSE << >>]
  <1>1. Len(map) \in Nat /\ DOMAIN map = 1..Len(map) /\ \A k \in DOMAIN map : map[k] \in EntryOf
    BY LenProperties, ElementOfSeq
  <1>2. \A k \in DOMAIN map : map[k].handlers \in Seq(Handler) /\ << >> \in Seq(Handler)
    BY <1>1, EmptySeq DEF EntryOf
  <1> HIDE DEF matched
  <1>3. found \in Seq(Seq(Handler))
    BY <1>1, <1>2, SeqDef
  <1>4. FlattenSeq(found) \in Seq(Handler)
    BY <1>3, Flattened
  <1> HIDE DEF found
  <1>5. HandlersFor(received) = IF matched # {} THEN FlattenSeq(found)
                                ELSE IF default # NoHandler THEN <<default>> ELSE << >>
    BY DEF HandlersFor, found, matched
  <1>6. << >> \in Seq(Handler)
    BY EmptySeq
  <1>7. default # NoHandler => <<default>> \in Seq(Handler)
    OBVIOUS
  <1>8. QED
    BY <1>4, <1>5, <1>6, <1>7

----------------------------------------------------------------------------
(* Type correctness *)

\* The table: no address twice.
TableInv ==
    /\ map \in Seq(EntryOf)
    /\ IsInjective([k \in DOMAIN map |-> map[k].address])
    /\ default \in Handler \cup {NoHandler}
    /\ serving \in BOOLEAN
    /\ clock \in 1..MaxTime

\* What a thread is doing.
ThreadState(r) ==
    /\ DOMAIN r = {"pc", "msgs", "todo"}
    /\ r.pc \in {"idle", "parse", "next", "sleep", "call"}
    /\ r.todo \in Seq(Handler)

ThreadInv == DOMAIN thread = Thread /\ \A t \in Thread : ThreadState(thread[t])

TypeInv == TableInv /\ ThreadInv

LEMMA TypeInvOfInit == Init => TypeInv
  <1> SUFFICES ASSUME Init PROVE TypeInv
    OBVIOUS
  <1>1. << >> \in Seq(EntryOf) /\ << >> \in Seq(Handler) /\ DOMAIN << >> = {}
    BY EmptyList
  <1>2. IsInjective([k \in DOMAIN map |-> map[k].address])
    BY <1>1 DEF Init, IsInjective
  <1>3. 1 \in 1..MaxTime
    BY TimeAssumption
  <1>4. TableInv
    BY <1>1, <1>2, <1>3 DEF Init, TableInv
  <1>5. ThreadState(Idle)
    BY <1>1 DEF ThreadState, Idle
  <1>6. ThreadInv
    BY <1>5 DEF Init, ThreadInv
  <1>7. QED
    BY <1>4, <1>6 DEF TypeInv

LEMMA ThreadBecomes ==
    ASSUME ThreadInv, NEW t \in Thread, NEW r, ThreadState(r), Becomes(t, r)
    PROVE  ThreadInv'
  <1>1. DOMAIN thread' = Thread /\ \A u \in Thread : thread'[u] = IF u = t THEN r ELSE thread[u]
    BY DEF ThreadInv, Becomes
  <1>2. ASSUME NEW u \in Thread PROVE ThreadState(thread'[u])
    BY <1>1 DEF ThreadInv
  <1>3. QED
    BY <1>1, <1>2 DEF ThreadInv, ThreadState

LEMMA TypeInvInductive == TypeInv /\ [Next]_vars => TypeInv'
  <1> SUFFICES ASSUME TypeInv, [Next]_vars PROVE TypeInv'
    OBVIOUS
  <1> USE DEF TypeInv
  <1>i. << >> \in Seq(Handler)
    BY EmptySeq
  <1>1. ASSUME NEW a \in Address, NEW h \in Handler, Map(a, h) PROVE TypeInv'
    <2>1. Append(Entry(a), h) \in Seq(Handler)
      BY EntryRead, AppendProperties DEF TableInv
    <2>2. /\ map' \in Seq(EntryOf)
          /\ IsInjective([k \in DOMAIN map' |-> map'[k].address])
      BY <1>1, <2>1, EntryWritten DEF Map, TableInv
    <2>3. QED
      BY <1>1, <2>2 DEF Map, TableInv, ThreadInv, ThreadState
  <1>2. ASSUME NEW a \in Address, NEW h \in Handler, Unmap(a, h) PROVE TypeInv'
    <2>1. RemoveFirst(Entry(a), h) \in Seq(Handler)
      BY EntryRead, FirstRemoved DEF TableInv
    <2>2. /\ map' \in Seq(EntryOf)
          /\ IsInjective([k \in DOMAIN map' |-> map'[k].address])
      BY <1>2, <2>1, EntryWritten DEF Unmap, TableInv
    <2>3. QED
      BY <1>2, <2>2 DEF Unmap, TableInv, ThreadInv, ThreadState
  <1>3. ASSUME NEW h \in Handler, SetDefaultHandler(h) PROVE TypeInv'
    BY <1>3 DEF SetDefaultHandler, TableInv, ThreadInv, ThreadState
  <1>4. ASSUME Serve PROVE TypeInv'
    BY <1>4 DEF Serve, TableInv, ThreadInv, ThreadState
  <1>5. ASSUME NEW t \in Thread, NEW p \in Packet, Receive(t, p) PROVE TypeInv'
    <2>1. ThreadState([Idle EXCEPT !.pc = "parse"])
      BY <1>i DEF ThreadState, Idle
    <2>2. ThreadInv'
      BY <1>5, <2>1, ThreadBecomes DEF Receive
    <2>3. QED
      BY <1>5, <2>2 DEF Receive, table, TableInv
  <1>6. ASSUME NEW t \in Thread, Parse(t) PROVE TypeInv'
    <2> DEFINE content == Content[packet[t]]
               ms == Messages(content, clock)
               r == IF content.ok THEN [Idle EXCEPT !.pc = "next", !.msgs = ms] ELSE Idle
    <2>1. Becomes(t, r) /\ UNCHANGED <<table, clock>>
      BY <1>6 DEF Parse
    <2> HIDE DEF content, ms
    <2>2. ThreadState(r)
      BY <1>i DEF ThreadState, Idle
    <2> HIDE DEF r
    <2>3. ThreadInv'
      BY <2>1, <2>2, ThreadBecomes
    <2>4. QED
      BY <2>1, <2>3 DEF table, TableInv
  <1>7. ASSUME NEW t \in Thread, Take(t) PROVE TypeInv'
    <2> DEFINE r == IF thread[t].msgs = << >> THEN Idle ELSE [thread[t] EXCEPT !.pc = "sleep"]
    <2>1. ThreadState(r)
      BY <1>i DEF ThreadState, Idle, ThreadInv
    <2>2. Becomes(t, r) /\ UNCHANGED <<table, clock>>
      BY <1>7 DEF Take
    <2> HIDE DEF r
    <2>3. ThreadInv'
      BY <2>1, <2>2, ThreadBecomes
    <2>4. QED
      BY <2>2, <2>3 DEF table, TableInv
  <1>8. ASSUME NEW t \in Thread, Wake(t) PROVE TypeInv'
    <2> DEFINE hs == HandlersFor(Head(thread[t].msgs).msg.address)
               r == [thread[t] EXCEPT !.pc = "call", !.todo = hs]
    <2>1. hs \in Seq(Handler)
      BY HandlersFound DEF TableInv
    <2>2. Becomes(t, r) /\ UNCHANGED <<table, clock>>
      BY <1>8 DEF Wake
    <2> HIDE DEF hs
    <2>3. ThreadState(r)
      BY <2>1 DEF ThreadState, ThreadInv
    <2> HIDE DEF r
    <2>4. ThreadInv'
      BY <2>2, <2>3, ThreadBecomes
    <2>5. QED
      BY <2>2, <2>4 DEF table, TableInv
  <1>9. ASSUME NEW t \in Thread, Call(t) PROVE TypeInv'
    <2> DEFINE r == [thread[t] EXCEPT !.todo = Tail(@)]
    <2>1. Becomes(t, r) /\ UNCHANGED <<table, clock>> /\ thread[t].todo # << >>
      BY <1>9 DEF Call
    <2>2. thread[t].todo \in Seq(Handler)
      BY DEF ThreadInv, ThreadState
    <2>3. Tail(thread[t].todo) \in Seq(Handler)
      BY <2>1, <2>2, HeadTailProperties
    <2>4. ThreadState(r)
      BY <2>3 DEF ThreadState, ThreadInv
    <2> HIDE DEF r
    <2>5. ThreadInv'
      BY <2>1, <2>4, ThreadBecomes
    <2>6. QED
      BY <2>1, <2>5 DEF table, TableInv
  <1>10. ASSUME NEW t \in Thread, CallsDone(t) PROVE TypeInv'
    <2> DEFINE r == [thread[t] EXCEPT !.pc = "next", !.msgs = Tail(@)]
    <2>1. Becomes(t, r) /\ UNCHANGED <<table, clock>>
      BY <1>10 DEF CallsDone
    <2>2. ThreadState(r)
      BY DEF ThreadState, ThreadInv
    <2> HIDE DEF r
    <2>3. ThreadInv'
      BY <2>1, <2>2, ThreadBecomes
    <2>4. QED
      BY <2>1, <2>3 DEF table, TableInv
  <1>11. ASSUME Tick PROVE TypeInv'
    <2>1. clock' \in 1..MaxTime
      BY <1>11, TimeAssumption DEF Tick, TableInv
    <2>2. QED
      BY <1>11, <2>1 DEF Tick, table, TableInv, ThreadInv, ThreadState
  <1>12. ASSUME UNCHANGED vars PROVE TypeInv'
    BY <1>12 DEF vars, TableInv, ThreadInv, ThreadState
  <1>13. QED
    BY <1>1, <1>2, <1>3, <1>4, <1>5, <1>6, <1>7, <1>8, <1>9, <1>10, <1>11, <1>12
       DEF Next, Handle

\* The dispatcher is type correct for any packets, mappings and threads: the
\* table keeps one entry per address whatever is mapped and unmapped, and a
\* thread only ever holds callbacks to call.
THEOREM DispatcherTypeOK == Spec => []TypeOK
  <1>1. TypeInv => TypeOK
    <2> SUFFICES ASSUME TypeInv PROVE TypeOK
      OBVIOUS
    <2>1. \A k \in DOMAIN map : map[k] \in EntryOf
      BY ElementOfSeq, LenProperties DEF TypeInv, TableInv
    <2>2. QED
      BY <2>1 DEF TypeInv, TypeOK, TableInv, ThreadInv, ThreadState, EntryOf
  <1>2. QED
    BY <1>1, TypeInvOfInit, TypeInvInductive, PTL DEF Spec

----------------------------------------------------------------------------
(* Time and order.  What the codec owes is the hypothesis ReadAsHeard.      *)

\* The time of a message of p that is handled by a thread that parsed p at s.
Time(p, s, m) == Later(TimeOf(p, m), s)

\* A thread in state r on packet p, parsed at s, with the calls cs made: it
\* has calls to make in order of time, none of them earlier than one made.
InTurn(r, p, s, cs, now) ==
    /\ r.msgs \in Seq([due : Int, msg : {m.msg : m \in Range(Heard(p))}])
    /\ s \in Int
    /\ \A k \in DOMAIN r.msgs : r.msgs[k].due = Time(p, s, r.msgs[k].msg)
    /\ \A k \in DOMAIN r.msgs : TimeOf(p, r.msgs[k].msg) \in Int
    /\ \A k, l \in DOMAIN r.msgs : k < l => r.msgs[k].due <= r.msgs[l].due
    /\ r.pc = "parse" => p \in Packet /\ cs = << >>
    /\ r.pc \in {"sleep", "call"} => r.msgs # << >>
    /\ r.pc = "call" => Head(r.msgs).due <= now
    /\ cs \in Seq([handler : Handler, msg : {m.msg : m \in Range(Heard(p))}, at : Int])
    /\ \A k \in DOMAIN cs : TimeOf(p, cs[k].msg) \in Int /\ Time(p, s, cs[k].msg) <= cs[k].at
    /\ \A k, l \in DOMAIN cs : k < l => Time(p, s, cs[k].msg) <= Time(p, s, cs[l].msg)
    /\ \A k \in DOMAIN cs, l \in DOMAIN r.msgs : Time(p, s, cs[k].msg) <= r.msgs[l].due

TurnInv ==
    /\ DOMAIN packet = Thread /\ DOMAIN parsed = Thread /\ DOMAIN calls = Thread
    /\ \A t \in Thread : InTurn(thread[t], packet[t], parsed[t], calls[t], clock)

\* The later of two numbers is one of them and not before either.
LEMMA LaterOf ==
    ASSUME NEW x \in Int, NEW y \in Int
    PROVE  Later(x, y) \in Int /\ x <= Later(x, y) /\ y <= Later(x, y)
  BY DEF Later

\* What is heard of a packet is a list of messages with their times, none
\* with the content of another.
LEMMA HeardOnce ==
    ASSUME NEW p \in Packet
    PROVE  /\ Heard(p) \in Seq(Range(Heard(p)))
           /\ \A k \in DOMAIN Heard(p) :
                  DOMAIN Heard(p)[k] = {"due", "msg"} /\ Heard(p)[k].due \in Int
           /\ \A j, k \in DOMAIN Heard(p) : Heard(p)[j].msg = Heard(p)[k].msg => j = k
  <1> DEFINE n == Len(p.says)
             D == {j \in DOMAIN p.says : p.says[j].at <= MaxPacket}
             h == Heard(p)
  <1>1. /\ n \in Nat /\ DOMAIN p.says = 1..n
        /\ \A k \in 1..n : /\ p.says[k].at \in 1..Len(p.dgram) /\ p.says[k].due \in Int
        /\ \A j, k \in 1..n : j < k => p.says[j].at < p.says[k].at
        /\ \A j, k \in 1..n : p.says[j].msg.address = p.says[k].msg.address => j = k
        /\ Len(p.dgram) \in Nat
    <2>1. p.says \in Seq(Range(p.says)) /\ p.dgram \in Datagram
      BY PacketAssumption
    <2>2. n \in Nat /\ DOMAIN p.says = 1..n /\ Len(p.dgram) \in Nat
      BY <2>1, LenProperties DEF Datagram
    <2>3. QED
      BY <2>2, PacketAssumption DEF IsInjective
  <1>2. /\ DOMAIN h = D
        /\ \A k \in D : /\ DOMAIN h[k] = {"due", "msg"} /\ h[k].due = p.says[k].due
                        /\ h[k].msg.address = p.says[k].msg.address
    BY DEF Heard
  <1>3. \E c \in Nat : D = 1..c
    <2>1. CASE D = {}
      <3>1. D = 1..0
        BY <2>1
      <3>2. QED
        BY <3>1
    <2>2. CASE D # {}
      <3> DEFINE c == Max(D)
      <3>1. D \in SUBSET (1..n)
        BY <1>1
      <3>2. c \in D /\ \A k \in D : k <= c
        BY <1>1, <2>2, <3>1, LastPosition
      <3>3. c \in 1..n /\ p.says[c].at <= MaxPacket
        BY <3>1, <3>2
      <3> HIDE DEF c
      <3>4. ASSUME NEW k \in 1..c PROVE k \in D
        <4>1. k \in 1..n /\ (k = c \/ k < c)
          BY <1>1, <3>3
        <4>2. p.says[k].at <= MaxPacket
          <5>1. p.says[k].at \in Int /\ p.says[c].at \in Int
            BY <1>1, <3>3, <4>1
          <5>2. k = c \/ p.says[k].at < p.says[c].at
            BY <1>1, <3>3, <4>1
          <5>3. QED
            BY <3>3, <5>1, <5>2, SizeAssumption
        <4>3. QED
          BY <1>1, <4>1, <4>2
      <3>5. D = 1..c /\ c \in Nat
        BY <1>1, <3>1, <3>2, <3>3, <3>4
      <3>6. QED
        BY <3>5
    <2>3. QED
      BY <2>1, <2>2
  <1>4. D \subseteq 1..n
    BY <1>1
  <1> HIDE DEF D, h
  <1>5. h \in Seq(Range(h))
    <2>1. PICK c \in Nat : DOMAIN h = 1..c
      BY <1>2, <1>3
    <2>2. \A k \in 1..c : h[k] \in Range(h)
      BY <2>1 DEF Range
    <2>3. h = [k \in 1..c |-> h[k]]
      BY <1>2, <2>1 DEF h, Heard
    <2>4. QED
      BY <2>1, <2>2, <2>3, SeqDef
  <1>6. \A j, k \in D : h[j].msg = h[k].msg => j = k
    BY <1>1, <1>2, <1>4
  <1>7. QED
    BY <1>1, <1>2, <1>4, <1>5, <1>6 DEF h

\* And so a message that is heard has its time.
LEMMA TimeTold ==
    ASSUME NEW p \in Packet, NEW m \in Range(Heard(p))
    PROVE  TimeOf(p, m.msg) = m.due /\ m.due \in Int /\ DOMAIN m = {"due", "msg"}
  <1>1. PICK k \in DOMAIN Heard(p) : m = Heard(p)[k]
    BY DEF Range
  <1>2. DOMAIN m = {"due", "msg"} /\ m.due \in Int
    BY <1>1, HeardOnce
  <1> DEFINE j == CHOOSE j \in DOMAIN Heard(p) : Heard(p)[j].msg = m.msg
  <1>3. j \in DOMAIN Heard(p) /\ Heard(p)[j].msg = Heard(p)[k].msg
    BY <1>1
  <1>4. j = k
    BY <1>1, <1>3, HeardOnce
  <1>5. TimeOf(p, m.msg) = Heard(p)[j].due
    BY DEF TimeOf
  <1> HIDE DEF j
  <1>6. QED
    BY <1>1, <1>2, <1>4, <1>5

\* A thread that has nothing of its packet yet, or could not parse it.
LEMMA NothingYet ==
    ASSUME NEW p, NEW s \in Int, NEW now, NEW r,
           r.msgs = << >>, r.pc = "idle" \/ (r.pc = "parse" /\ p \in Packet)
    PROVE  InTurn(r, p, s, << >>, now)
  <1>1. /\ << >> \in Seq([due : Int, msg : {m.msg : m \in Range(Heard(p))}])
        /\ << >> \in Seq([handler : Handler, msg : {m.msg : m \in Range(Heard(p))}, at : Int])
        /\ DOMAIN << >> = {}
    BY EmptyList
  <1>2. QED
    BY <1>1 DEF InTurn

\* A thread that has handled all of its packet.
LEMMA NothingLeft ==
    ASSUME NEW r, NEW p, NEW s, NEW cs, NEW now, InTurn(r, p, s, cs, now),
           NEW q, q.msgs = << >>, q.pc = "idle"
    PROVE  InTurn(q, p, s, cs, now)
  <1>1. /\ << >> \in Seq([due : Int, msg : {m.msg : m \in Range(Heard(p))}])
        /\ DOMAIN << >> = {}
    BY EmptyList
  <1>2. QED
    BY <1>1 DEF InTurn

\* Parsing sorts what was read, each message at its time or at once.
LEMMA ParsedInTurn ==
    ASSUME \A q \in Packet : ReadAsHeard(q), NEW p \in Packet, Content[p].ok, NEW now \in 1..MaxTime
    PROVE  InTurn([Idle EXCEPT !.pc = "next", !.msgs = Messages(Content[p], now)],
                  p, now, << >>, now)
  <1> DEFINE read == Content[p].msgs
             said == Range(Heard(p))
             T == [due : Int, msg : {m.msg : m \in said}]
             due == [k \in DOMAIN read |-> DueAt(read[k], now)]
             ms == InOrder(due)
             r == [Idle EXCEPT !.pc = "next", !.msgs = Messages(Content[p], now)]
  <1>0. now \in Int /\ now > 0
    BY TimeAssumption
  <1>1. read \in Seq(said)
    BY HeardOnce DEF ReadAsHeard
  <1>2. Len(read) \in Nat /\ DOMAIN read = 1..Len(read) /\ \A k \in DOMAIN read : read[k] \in said
    BY <1>1, LenProperties, ElementOfSeq
  <1>3. ASSUME NEW k \in DOMAIN read
        PROVE  /\ DueAt(read[k], now) \in T
               /\ DueAt(read[k], now).due = Time(p, now, DueAt(read[k], now).msg)
               /\ TimeOf(p, DueAt(read[k], now).msg) \in Int
    <2> DEFINE m == read[k]
               d == DueAt(m, now)
    <2>1. m \in said
      BY <1>2
    <2> HIDE DEF m
    <2>2. TimeOf(p, m.msg) = m.due /\ m.due \in Int /\ DOMAIN m = {"due", "msg"}
      BY <2>1, TimeTold
    <2>3. d = [due |-> d.due, msg |-> d.msg] /\ d.msg = m.msg
          /\ d.due = IF m.due = Immediately \/ m.due < now THEN now ELSE m.due
      BY <2>2 DEF DueAt
    <2>4. d.due = Later(m.due, now)
      BY <1>0, <2>2, <2>3 DEF Later, Immediately
    <2>5. d.due \in Int
      BY <1>0, <2>2, <2>4, LaterOf
    <2> HIDE DEF d
    <2>6. d \in T
      BY <2>1, <2>3, <2>5
    <2>7. d.due = Time(p, now, d.msg) /\ TimeOf(p, d.msg) \in Int
      BY <2>2, <2>3, <2>4 DEF Time
    <2>8. QED
      BY <2>6, <2>7 DEF d, m
  <1> HIDE DEF read, T
  <1>4. due \in Seq(T) /\ DOMAIN due = DOMAIN read
    BY <1>2, <1>3, SeqDef
  <1>5. \A k \in DOMAIN due :
            /\ due[k].due = Time(p, now, due[k].msg)
            /\ TimeOf(p, due[k].msg) \in Int
    BY <1>3, <1>4
  <1> HIDE DEF due
  <1>6. \A k \in DOMAIN due : due[k].due \in Int
    <2>1. \A k \in DOMAIN due : due[k] \in T
      BY <1>4, ElementOfSeq, LenProperties
    <2>2. QED
      BY <2>1 DEF T
  <1>7. /\ ms \in Seq(T)
        /\ \A k \in DOMAIN ms : \E i \in DOMAIN due : ms[k] = due[i]
        /\ \A k, l \in DOMAIN ms : k < l => ms[k].due <= ms[l].due
    BY <1>4, <1>6, Sorted
  <1>8. r.msgs = ms /\ r.pc = "next"
    BY DEF Messages, Idle, due, read
  <1> HIDE DEF ms, r
  <1>9. << >> \in Seq([handler : Handler, msg : {m.msg : m \in said}, at : Int])
        /\ DOMAIN << >> = {}
    BY EmptyList
  <1>10. \A k \in DOMAIN ms :
            ms[k].due = Time(p, now, ms[k].msg) /\ TimeOf(p, ms[k].msg) \in Int
    BY <1>5, <1>7
  <1>11. InTurn(r, p, now, << >>, now)
    BY <1>0, <1>7, <1>8, <1>9, <1>10 DEF InTurn, T
  <1>12. QED
    BY <1>11 DEF r

\* A thread that keeps its messages keeps its turn as time passes.
LEMMA StillInTurn ==
    ASSUME NEW r, NEW p, NEW s, NEW cs, NEW now \in Int, InTurn(r, p, s, cs, now),
           NEW q, q.msgs = r.msgs, NEW later \in Int, now <= later,
           \/ q.pc = r.pc
           \/ q.pc = "sleep" /\ r.msgs # << >>
           \/ q.pc = "call" /\ r.msgs # << >> /\ Head(r.msgs).due <= later
    PROVE  InTurn(q, p, s, cs, later)
  <1>1. CASE q.pc = r.pc /\ r.pc = "call"
    <2>1. r.msgs # << >> /\ Head(r.msgs).due <= now
      BY <1>1 DEF InTurn
    <2>2. Head(r.msgs) \in [due : Int, msg : {m.msg : m \in Range(Heard(p))}]
      BY <2>1, HeadTailProperties DEF InTurn
    <2>3. Head(r.msgs).due <= later
      BY <2>1, <2>2
    <2>4. QED
      BY <1>1, <2>3 DEF InTurn
  <1>2. CASE q.pc = r.pc /\ r.pc # "call"
    BY <1>2 DEF InTurn
  <1>3. CASE q.pc = "sleep" /\ r.msgs # << >>
    BY <1>3 DEF InTurn
  <1>4. CASE q.pc = "call" /\ r.msgs # << >> /\ Head(r.msgs).due <= later
    BY <1>4 DEF InTurn
  <1>5. QED
    BY <1>1, <1>2, <1>3, <1>4

\* The message at hand is due by now and comes after all that were handled.
LEMMA CalledNext ==
    ASSUME NEW r, NEW p, NEW s, NEW cs, NEW now \in Int, InTurn(r, p, s, cs, now),
           r.pc = "call", NEW h \in Handler, NEW q, q.msgs = r.msgs, q.pc = "call"
    PROVE  InTurn(q, p, s, Append(cs, [handler |-> h, msg |-> Head(r.msgs).msg, at |-> now]), now)
  <1> DEFINE M == {m.msg : m \in Range(Heard(p))}
             C == [handler : Handler, msg : M, at : Int]
             first == Head(r.msgs)
             c == [handler |-> h, msg |-> first.msg, at |-> now]
             ds == Append(cs, c)
             n == Len(cs)
  <1>1. /\ r.msgs \in Seq([due : Int, msg : M]) /\ r.msgs # << >> /\ first.due <= now
        /\ cs \in Seq(C) /\ s \in Int
    BY DEF InTurn
  <1>2. 1 \in DOMAIN r.msgs /\ first = r.msgs[1] /\ first \in [due : Int, msg : M]
    <2> DEFINE T == [due : Int, msg : M]
               ms == r.msgs
    <2>1. ms \in Seq(T) /\ ms # << >>
      BY <1>1
    <2> HIDE DEF T, ms
    <2>2. Len(ms) \in Nat \ {0} /\ DOMAIN ms = 1..Len(ms) /\ Head(ms) = ms[1]
      BY <2>1, LenProperties, EmptySeq
    <2>3. 1 \in DOMAIN ms /\ Head(ms) \in T
      BY <2>1, <2>2, ElementOfSeq
    <2>4. QED
      BY <2>2, <2>3 DEF T, ms
  <1>3. first.due = Time(p, s, first.msg) /\ TimeOf(p, first.msg) \in Int
    BY <1>2 DEF InTurn
  <1>4. \A l \in DOMAIN r.msgs : first.due <= r.msgs[l].due
    <2> SUFFICES ASSUME NEW l \in DOMAIN r.msgs PROVE first.due <= r.msgs[l].due
      OBVIOUS
    <2>1. l \in Nat /\ l >= 1
      BY <1>1, LenProperties
    <2>2. CASE l = 1
      BY <1>2, <2>2
    <2>3. CASE 1 < l
      BY <1>2, <2>3 DEF InTurn
    <2>4. QED
      BY <2>1, <2>2, <2>3
  <1>5. c \in C
    BY <1>2
  <1>6. c.msg = first.msg /\ c.at = now
    OBVIOUS
  <1> HIDE DEF c
  <1>7. /\ n \in Nat /\ DOMAIN cs = 1..n
        /\ ds \in Seq(C) /\ DOMAIN ds = 1..n + 1 /\ ds[n + 1] = c
        /\ \A k \in 1..n : ds[k] = cs[k]
    BY <1>1, <1>5, AppendProperties, LenProperties
  <1> HIDE DEF first, ds, n
  <1>8. \A k \in 1..n + 1 : TimeOf(p, ds[k].msg) \in Int /\ Time(p, s, ds[k].msg) <= ds[k].at
    <2> SUFFICES ASSUME NEW k \in 1..n + 1
                 PROVE  TimeOf(p, ds[k].msg) \in Int /\ Time(p, s, ds[k].msg) <= ds[k].at
      OBVIOUS
    <2>1. CASE k = n + 1
      BY <1>1, <1>3, <1>6, <1>7, <2>1 DEF first
    <2>2. CASE k # n + 1
      <3>1. k \in 1..n
        BY <1>7, <2>2
      <3>2. QED
        BY <1>7, <3>1 DEF InTurn
    <2>3. QED
      BY <2>1, <2>2
  <1>9. \A k \in 1..n + 1 : Time(p, s, ds[k].msg) <= first.due
    <2> SUFFICES ASSUME NEW k \in 1..n + 1 PROVE Time(p, s, ds[k].msg) <= first.due
      OBVIOUS
    <2>1. CASE k = n + 1
      BY <1>2, <1>3, <1>6, <1>7, <2>1
    <2>2. CASE k # n + 1
      <3>1. k \in 1..n
        BY <1>7, <2>2
      <3>2. QED
        BY <1>2, <1>7, <3>1 DEF InTurn
    <2>3. QED
      BY <2>1, <2>2
  <1>10. \A k, l \in 1..n + 1 : k < l => Time(p, s, ds[k].msg) <= Time(p, s, ds[l].msg)
    <2> SUFFICES ASSUME NEW k \in 1..n + 1, NEW l \in 1..n + 1, k < l
                 PROVE  Time(p, s, ds[k].msg) <= Time(p, s, ds[l].msg)
      OBVIOUS
    <2>1. CASE l = n + 1
      BY <1>3, <1>6, <1>7, <1>9, <2>1
    <2>2. CASE l # n + 1
      <3>1. k \in 1..n /\ l \in 1..n
        BY <1>7, <2>2
      <3>2. QED
        BY <1>7, <3>1 DEF InTurn
    <2>3. QED
      BY <2>1, <2>2
  <1>11. \A k \in 1..n + 1, l \in DOMAIN r.msgs : Time(p, s, ds[k].msg) <= r.msgs[l].due
    <2> SUFFICES ASSUME NEW k \in 1..n + 1, NEW l \in DOMAIN r.msgs
                 PROVE  Time(p, s, ds[k].msg) <= r.msgs[l].due
      OBVIOUS
    <2>1. TimeOf(p, ds[k].msg) \in Int /\ s \in Int
      BY <1>1, <1>8
    <2>2. Time(p, s, ds[k].msg) \in Int
      BY <2>1, LaterOf DEF Time
    <2>3. r.msgs[l].due \in Int
      <3>1. r.msgs[l] \in [due : Int, msg : M]
        BY <1>1, ElementOfSeq, LenProperties
      <3>2. QED
        BY <3>1
    <2>4. first.due \in Int
      BY <1>2
    <2>5. QED
      BY <1>4, <1>9, <2>2, <2>3, <2>4
  <1>12. InTurn(q, p, s, ds, now)
    BY <1>1, <1>7, <1>8, <1>10, <1>11 DEF InTurn, first
  <1>13. QED
    BY <1>12 DEF ds, c, first

\* What is left once the first message is handled.
LEMMA TurnPassed ==
    ASSUME NEW r, NEW p, NEW s, NEW cs, NEW now, InTurn(r, p, s, cs, now), r.msgs # << >>,
           NEW q, q.msgs = Tail(r.msgs), q.pc = "next"
    PROVE  InTurn(q, p, s, cs, now)
  <1> DEFINE M == [due : Int, msg : {m.msg : m \in Range(Heard(p))}]
             n == Len(r.msgs)
  <1>1. r.msgs \in Seq(M)
    BY DEF InTurn
  <1>2. n \in Nat \ {0} /\ DOMAIN r.msgs = 1..n
    BY <1>1, LenProperties, EmptySeq
  <1>3. Tail(r.msgs) \in Seq(M) /\ Len(Tail(r.msgs)) = n - 1
        /\ \A k \in 1..n - 1 : Tail(r.msgs)[k] = r.msgs[k + 1]
    BY <1>1, HeadTailProperties
  <1>4. DOMAIN Tail(r.msgs) = 1..n - 1
    BY <1>3, LenProperties
  <1> HIDE DEF n
  <1>5. \A k \in 1..n - 1 : k + 1 \in 1..n /\ q.msgs[k] = r.msgs[k + 1]
    BY <1>2, <1>3
  <1>6. DOMAIN q.msgs = 1..n - 1 /\ DOMAIN r.msgs = 1..n
    BY <1>2, <1>4
  <1>7. \A k \in DOMAIN q.msgs : /\ q.msgs[k].due = Time(p, s, q.msgs[k].msg)
                                 /\ TimeOf(p, q.msgs[k].msg) \in Int
    BY <1>5, <1>6 DEF InTurn
  <1>8. \A k, l \in DOMAIN q.msgs : k < l => q.msgs[k].due <= q.msgs[l].due
    <2> SUFFICES ASSUME NEW k \in 1..n - 1, NEW l \in 1..n - 1, k < l
                 PROVE  q.msgs[k].due <= q.msgs[l].due
      BY <1>6
    <2>1. k + 1 \in 1..n /\ l + 1 \in 1..n /\ k + 1 < l + 1
      BY <1>5
    <2>2. r.msgs[k + 1].due <= r.msgs[l + 1].due
      BY <1>6, <2>1 DEF InTurn
    <2>3. QED
      BY <1>5, <2>2
  <1>9. \A k \in DOMAIN cs, l \in DOMAIN q.msgs : Time(p, s, cs[k].msg) <= q.msgs[l].due
    BY <1>5, <1>6 DEF InTurn
  <1>10. QED
    BY <1>3, <1>7, <1>8, <1>9 DEF InTurn

LEMMA TurnInvOfInit == Init => TurnInv
  <1>1. Idle.msgs = << >> /\ Idle.pc = "idle"
    BY DEF Idle
  <1>2. InTurn(Idle, NoPacket, 0, << >>, 1)
    BY <1>1, NothingYet
  <1>3. QED
    BY <1>2 DEF Init, TurnInv

\* A step of t on its own packet.
LEMMA TurnKept ==
    ASSUME TypeInv, TurnInv, NEW t \in Thread, NEW r, Becomes(t, r), UNCHANGED <<clock, history>>,
           InTurn(r, packet[t], parsed[t], calls[t], clock)
    PROVE  TurnInv'
  <1>1. \A u \in Thread : thread'[u] = IF u = t THEN r ELSE thread[u]
    BY DEF Becomes, TypeInv, ThreadInv
  <1>2. packet' = packet /\ parsed' = parsed /\ calls' = calls /\ clock' = clock
    BY DEF history
  <1>3. \A u \in Thread : InTurn(thread'[u], packet'[u], parsed'[u], calls'[u], clock')
    BY <1>1, <1>2 DEF TurnInv
  <1>4. QED
    BY <1>2, <1>3 DEF TurnInv

LEMMA TurnInvInductive ==
    ASSUME \A p \in Packet : ReadAsHeard(p)
    PROVE  TypeInv /\ TurnInv /\ [Next]_vars => TurnInv'
  <1> SUFFICES ASSUME TypeInv, TurnInv, [Next]_vars PROVE TurnInv'
    OBVIOUS
  <1>i. /\ clock \in 1..MaxTime /\ clock \in Int
        /\ DOMAIN thread = Thread /\ DOMAIN packet = Thread
        /\ DOMAIN parsed = Thread /\ DOMAIN calls = Thread
        /\ \A t \in Thread : /\ DOMAIN thread[t] = {"pc", "msgs", "todo"}
                             /\ thread[t].todo \in Seq(Handler)
                             /\ InTurn(thread[t], packet[t], parsed[t], calls[t], clock)
    BY TimeAssumption DEF TypeInv, TableInv, ThreadInv, ThreadState, TurnInv
  <1>1. ASSUME UNCHANGED <<clock, thread, history>> PROVE TurnInv'
    BY <1>1 DEF history, TurnInv
  <1>2. ASSUME NEW t \in Thread, NEW p \in Packet, Receive(t, p) PROVE TurnInv'
    <2> DEFINE r == [Idle EXCEPT !.pc = "parse"]
    <2>1. r.msgs = << >> /\ r.pc = "parse"
      BY DEF Idle
    <2> HIDE DEF r
    <2>3. InTurn(r, p, 0, << >>, clock)
      BY <2>1, NothingYet
    <2>4. /\ clock' = clock
          /\ thread' = [thread EXCEPT ![t] = r] /\ packet' = [packet EXCEPT ![t] = p]
          /\ parsed' = [parsed EXCEPT ![t] = 0] /\ calls' = [calls EXCEPT ![t] = << >>]
      BY <1>2 DEF Receive, Becomes, r
    <2>5. \A u \in Thread : InTurn(thread'[u], packet'[u], parsed'[u], calls'[u], clock')
      BY <1>i, <2>3, <2>4
    <2>6. QED
      BY <1>i, <2>4, <2>5 DEF TurnInv
  <1>3. ASSUME NEW t \in Thread, Parse(t) PROVE TurnInv'
    <2> DEFINE p == packet[t]
               good == [Idle EXCEPT !.pc = "next", !.msgs = Messages(Content[p], clock)]
               r == IF Content[p].ok THEN good ELSE Idle
    <2>1. /\ thread[t].pc = "parse" /\ clock' = clock /\ packet' = packet /\ calls' = calls
          /\ thread' = [thread EXCEPT ![t] = r] /\ parsed' = [parsed EXCEPT ![t] = clock]
      BY <1>3 DEF Parse, Becomes
    <2>2. p \in Packet /\ calls[t] = << >>
      BY <1>i, <2>1 DEF InTurn
    <2> HIDE DEF p
    <2>3. ASSUME Content[p].ok PROVE InTurn(good, p, clock, << >>, clock)
      BY <1>i, <2>2, <2>3, ParsedInTurn
    <2>4. Idle.msgs = << >> /\ Idle.pc = "idle"
      BY DEF Idle
    <2>5. InTurn(r, p, clock, << >>, clock)
      <3> HIDE DEF good
      <3>1. CASE Content[p].ok
        BY <2>3, <3>1
      <3>2. CASE ~Content[p].ok
        <4>1. InTurn(Idle, p, clock, << >>, clock)
          BY <1>i, <2>4, NothingYet
        <4>2. QED
          BY <3>2, <4>1
      <3>3. QED
        BY <3>1, <3>2
    <2> HIDE DEF r
    <2>6. \A u \in Thread : InTurn(thread'[u], packet'[u], parsed'[u], calls'[u], clock')
      BY <1>i, <2>1, <2>2, <2>5 DEF p
    <2>7. QED
      BY <1>i, <2>1, <2>6 DEF TurnInv
  <1>4. ASSUME NEW t \in Thread, Take(t) PROVE TurnInv'
    <2> DEFINE r == IF thread[t].msgs = << >> THEN Idle ELSE [thread[t] EXCEPT !.pc = "sleep"]
    <2>1. Becomes(t, r) /\ UNCHANGED <<clock, history>>
      BY <1>4 DEF Take
    <2>2. CASE thread[t].msgs = << >>
      <3>1. r.msgs = << >> /\ r.pc = "idle"
        BY <2>2 DEF Idle
      <3> HIDE DEF r
      <3>2. InTurn(r, packet[t], parsed[t], calls[t], clock)
        BY <1>i, <3>1, NothingLeft
      <3>3. QED
        BY <2>1, <3>2, TurnKept
    <2>3. CASE thread[t].msgs # << >>
      <3>1. r.msgs = thread[t].msgs /\ r.pc = "sleep"
        BY <1>i, <2>3
      <3> HIDE DEF r
      <3>2. InTurn(r, packet[t], parsed[t], calls[t], clock)
        BY <1>i, <2>3, <3>1, StillInTurn
      <3>3. QED
        BY <2>1, <3>2, TurnKept
    <2>4. QED
      BY <2>2, <2>3
  <1>5. ASSUME NEW t \in Thread, Wake(t) PROVE TurnInv'
    <2> DEFINE hs == HandlersFor(Head(thread[t].msgs).msg.address)
               r == [thread[t] EXCEPT !.pc = "call", !.todo = hs]
    <2>1. /\ Becomes(t, r) /\ UNCHANGED <<clock, history>>
          /\ thread[t].pc = "sleep" /\ clock >= Head(thread[t].msgs).due
      BY <1>5 DEF Wake
    <2>2. r.msgs = thread[t].msgs /\ r.pc = "call" /\ thread[t].msgs # << >>
      BY <1>i, <2>1 DEF InTurn
    <2> HIDE DEF r
    <2>3. Head(thread[t].msgs).due <= clock
      BY <2>1
    <2>4. InTurn(r, packet[t], parsed[t], calls[t], clock)
      BY <1>i, <2>2, <2>3, StillInTurn
    <2>5. QED
      BY <2>1, <2>4, TurnKept
  <1>6. ASSUME NEW t \in Thread, Call(t) PROVE TurnInv'
    <2> DEFINE h == Head(thread[t].todo)
               c == [handler |-> h, msg |-> Head(thread[t].msgs).msg, at |-> clock]
               r == [thread[t] EXCEPT !.todo = Tail(@)]
    <2>1. /\ thread[t].pc = "call" /\ thread[t].todo # << >>
          /\ clock' = clock /\ packet' = packet /\ parsed' = parsed
          /\ thread' = [thread EXCEPT ![t] = r]
          /\ calls' = [calls EXCEPT ![t] = Append(calls[t], c)]
      BY <1>6 DEF Call, Becomes
    <2>2. h \in Handler
      BY <1>i, <2>1, HeadTailProperties
    <2>3. r.msgs = thread[t].msgs /\ r.pc = "call"
      BY <1>i, <2>1
    <2> HIDE DEF r, h
    <2>4. InTurn(r, packet[t], parsed[t], Append(calls[t], c), clock)
      BY <1>i, <2>1, <2>2, <2>3, CalledNext
    <2> HIDE DEF c
    <2>5. \A u \in Thread : InTurn(thread'[u], packet'[u], parsed'[u], calls'[u], clock')
      BY <1>i, <2>1, <2>4
    <2>6. QED
      BY <1>i, <2>1, <2>5 DEF TurnInv
  <1>7. ASSUME NEW t \in Thread, CallsDone(t) PROVE TurnInv'
    <2> DEFINE r == [thread[t] EXCEPT !.pc = "next", !.msgs = Tail(@)]
    <2>1. Becomes(t, r) /\ UNCHANGED <<clock, history>> /\ thread[t].pc = "call"
      BY <1>7 DEF CallsDone
    <2>2. r.msgs = Tail(thread[t].msgs) /\ r.pc = "next" /\ thread[t].msgs # << >>
      BY <1>i, <2>1 DEF InTurn
    <2> HIDE DEF r
    <2>3. InTurn(r, packet[t], parsed[t], calls[t], clock)
      BY <1>i, <2>2, TurnPassed
    <2>4. QED
      BY <2>1, <2>3, TurnKept
  <1>8. ASSUME Tick PROVE TurnInv'
    <2>1. clock' = clock + 1 /\ UNCHANGED <<thread, history>>
      BY <1>8 DEF Tick
    <2>2. clock' \in Int /\ clock <= clock'
      BY <1>i, <2>1
    <2>3. \A u \in Thread : InTurn(thread[u], packet[u], parsed[u], calls[u], clock')
      BY <1>i, <2>2, StillInTurn
    <2>4. QED
      BY <2>1, <2>3 DEF TurnInv, history
  <1>9. ASSUME NEW a \in Address, NEW h \in Handler,
               Map(a, h) \/ Unmap(a, h) \/ SetDefaultHandler(h) \/ Serve
        PROVE  UNCHANGED <<clock, thread, history>>
    BY <1>9 DEF Map, Unmap, SetDefaultHandler, Serve
  <1>10. ASSUME Serve \/ UNCHANGED vars \/ \E h \in Handler : SetDefaultHandler(h)
         PROVE  UNCHANGED <<clock, thread, history>>
    BY <1>10 DEF Serve, SetDefaultHandler, vars, history
  <1>11. QED
    BY <1>1, <1>2, <1>3, <1>4, <1>5, <1>6, <1>7, <1>8, <1>9, <1>10 DEF Next, Handle

LEMMA TurnInvariant ==
    ASSUME \A p \in Packet : ReadAsHeard(p)
    PROVE  Spec => [](TypeInv /\ TurnInv)
  <1>1. Init => TypeInv /\ TurnInv
    BY TypeInvOfInit, TurnInvOfInit
  <1>2. (TypeInv /\ TurnInv) /\ [Next]_vars => (TypeInv /\ TurnInv)'
    BY TypeInvInductive, TurnInvInductive
  <1>3. QED
    BY <1>1, <1>2, PTL DEF Spec

\* However a client nests and orders the messages of its packets, each thread
\* handles them in the order of their times, those already past first, for any
\* number of threads, whatever else runs and however time passes meanwhile.
THEOREM MessagesHandledInTurn ==
    ASSUME \A p \in Packet : ReadAsHeard(p)
    PROVE  Spec => []CalledInTurn
  <1>1. TypeInv /\ TurnInv => CalledInTurn
    BY DEF TurnInv, InTurn, CalledInTurn, Due, Time
  <1>2. QED
    BY <1>1, TurnInvariant, PTL

\* No handler is called before the time its message was sent for.
THEOREM NothingHandledEarly ==
    ASSUME \A p \in Packet : ReadAsHeard(p)
    PROVE  Spec => []NotBeforeDue
  <1>1. TypeInv /\ TurnInv => NotBeforeDue
    <2> SUFFICES ASSUME TypeInv, TurnInv, NEW t \in Thread, NEW k \in DOMAIN calls[t]
                 PROVE  calls[t][k].at >= Due(t, k)
      BY DEF NotBeforeDue
    <2>1. /\ Due(t, k) \in Int /\ parsed[t] \in Int
          /\ Time(packet[t], parsed[t], calls[t][k].msg) <= calls[t][k].at
          /\ calls[t] \in Seq([handler : Handler, msg : {m.msg : m \in Range(Heard(packet[t]))},
                               at : Int])
      BY DEF TurnInv, InTurn, Due
    <2>2. calls[t][k].at \in Int
      <3>1. calls[t][k] \in [handler : Handler, msg : {m.msg : m \in Range(Heard(packet[t]))},
                             at : Int]
        BY <2>1, ElementOfSeq, LenProperties
      <3>2. QED
        BY <3>1
    <2>3. /\ Later(Due(t, k), parsed[t]) \in Int
          /\ Due(t, k) <= Later(Due(t, k), parsed[t])
      BY <2>1, LaterOf
    <2>4. Later(Due(t, k), parsed[t]) <= calls[t][k].at
      BY <2>1 DEF Time, Due
    <2>5. QED
      BY <2>1, <2>2, <2>3, <2>4
  <1>2. QED
    BY <1>1, TurnInvariant, PTL

----------------------------------------------------------------------------
(* Counting *)

Places(s, h) == {k \in DOMAIN s : s[k] = h}
Occurs(s, h) == Cardinality(Places(s, h))

LEMMA PlacesFinite ==
    ASSUME NEW T, NEW s \in Seq(T), NEW h
    PROVE  IsFiniteSet(Places(s, h)) /\ Occurs(s, h) \in Nat
  <1>1. Len(s) \in Nat /\ DOMAIN s = 1..Len(s)
    BY LenProperties
  <1>2. IsFiniteSet(1..Len(s)) /\ Places(s, h) \in SUBSET (1..Len(s))
    BY <1>1, FS_Interval DEF Places
  <1>3. IsFiniteSet(Places(s, h))
    BY <1>2, FS_Subset
  <1>4. QED
    BY <1>3, FS_CardinalityType DEF Occurs

\* What occurs in two lists occurs as often in the two joined.
LEMMA OccursJoined ==
    ASSUME NEW T, NEW s \in Seq(T), NEW u \in Seq(T), NEW h
    PROVE  Occurs(s \o u, h) = Occurs(s, h) + Occurs(u, h)
  <1> DEFINE n == Len(s)
             m == Len(u)
             w == s \o u
             P == Places(s, h)
             Q == Places(u, h)
             R == {k \in n + 1..n + m : w[k] = h}
             f == [k \in Q |-> n + k]
  <1>1. /\ n \in Nat /\ m \in Nat /\ DOMAIN s = 1..n /\ DOMAIN u = 1..m
        /\ w \in Seq(T) /\ DOMAIN w = 1..n + m
        /\ \A k \in 1..n + m : w[k] = IF k <= n THEN s[k] ELSE u[k - n]
    BY ConcatProperties, LenProperties
  <1>2. IsFiniteSet(P) /\ IsFiniteSet(Q) /\ Cardinality(P) \in Nat /\ Cardinality(Q) \in Nat
    BY PlacesFinite DEF Occurs
  <1>3. \A k \in Q : k \in 1..m /\ u[k] = h
    BY <1>1 DEF Places
  <1>4. \A k \in 1..m : u[k] = h => k \in Q
    BY <1>1 DEF Places
  <1>5. \A k \in P : k \in 1..n /\ s[k] = h
    BY <1>1 DEF Places
  <1>6. \A k \in 1..n : s[k] = h => k \in P
    BY <1>1 DEF Places
  <1> HIDE DEF n, m, w
  <1>7. \A k \in 1..m : n + k \in n + 1..n + m /\ w[n + k] = u[k]
    BY <1>1
  <1> HIDE DEF P, Q
  <1>8. f \in [Q -> R]
    BY <1>3, <1>7
  <1>9. \A i, j \in Q : f[i] = f[j] => i = j
    BY <1>1, <1>3
  <1>10. \A c \in R : \E k \in Q : f[k] = c
    <2> SUFFICES ASSUME NEW c \in R PROVE \E k \in Q : f[k] = c
      OBVIOUS
    <2>1. c \in n + 1..n + m /\ w[c] = h
      OBVIOUS
    <2>2. c - n \in 1..m /\ n + (c - n) = c
      BY <1>1, <2>1
    <2>3. w[c] = u[c - n]
      BY <1>1, <2>1
    <2>4. c - n \in Q
      BY <1>4, <2>1, <2>2, <2>3
    <2>5. QED
      BY <2>2, <2>4
  <1>11. f \in Bijection(Q, R)
    BY <1>8, <1>9, <1>10 DEF Bijection, Injection, Surjection, IsInjective
  <1>12. IsFiniteSet(R) /\ Cardinality(R) = Cardinality(Q)
    BY <1>2, <1>11, FS_Bijection DEF ExistsBijection
  <1>13. P \cap R = {}
    BY <1>1, <1>5
  <1>14. Places(w, h) = P \cup R
    <2>1. ASSUME NEW k \in Places(w, h) PROVE k \in P \cup R
      <3>1. k \in 1..n + m /\ w[k] = h
        BY <1>1 DEF Places
      <3>2. CASE k <= n
        BY <1>1, <1>6, <3>1, <3>2
      <3>3. CASE ~(k <= n)
        BY <1>1, <3>1, <3>3
      <3>4. QED
        BY <3>2, <3>3
    <2>2. ASSUME NEW k \in P PROVE k \in Places(w, h)
      BY <1>1, <1>5 DEF Places
    <2>3. ASSUME NEW k \in R PROVE k \in Places(w, h)
      BY <1>1 DEF Places
    <2>4. QED
      BY <2>1, <2>2, <2>3
  <1>15. Cardinality(P \cup R) = Cardinality(P) + Cardinality(R) - Cardinality(P \cap R)
    BY <1>2, <1>12, FS_Union
  <1>16. Cardinality(P \cup R) = Cardinality(P) + Cardinality(Q)
    <2>1. Cardinality(P \cap R) = 0
      BY <1>13, FS_EmptySet
    <2>2. QED
      BY <1>2, <1>12, <1>15, <2>1
  <1>17. QED
    BY <1>14, <1>16 DEF Occurs, P, Q, w

LEMMA OccursNowhere == ASSUME NEW h PROVE Occurs(<< >>, h) = 0
  <1>1. Places(<< >>, h) = {}
    BY EmptyList DEF Places
  <1>2. QED
    BY <1>1, FS_EmptySet DEF Occurs

\* The first element of a list and the rest of it.
LEMMA OccursInRest ==
    ASSUME NEW T, NEW s \in Seq(T), s # << >>, NEW h
    PROVE  Occurs(Tail(s), h) = IF Head(s) = h THEN Occurs(s, h) - 1 ELSE Occurs(s, h)
  <1> DEFINE e == Head(s)
             u == Tail(s)
  <1>1. /\ e \in T /\ u \in Seq(T) /\ Len(u) = Len(s) - 1 /\ Len(s) \in Nat
        /\ DOMAIN s = 1..Len(s) /\ e = s[1]
        /\ \A i \in 1..Len(s) - 1 : u[i] = s[i + 1]
    BY HeadTailProperties, LenProperties, EmptySeq
  <1>2. Len(s) # 0
    BY EmptySeq, LenProperties
  <1> HIDE DEF e, u
  <1> DEFINE one == <<e>>
             w == one \o u
  <1>3. one \in Seq(T) /\ Len(one) = 1 /\ one[1] = e /\ DOMAIN one = {1}
    BY <1>1
  <1> HIDE DEF one
  <1>4. /\ w \in Seq(T) /\ Len(w) = Len(s) /\ DOMAIN w = 1..Len(s)
        /\ \A i \in 1..Len(s) : w[i] = IF i <= 1 THEN one[i] ELSE u[i - 1]
    <2>1. one \in Seq(T) /\ u \in Seq(T)
      BY <1>1, <1>3
    <2>2. /\ w \in Seq(T) /\ Len(w) = Len(one) + Len(u)
          /\ \A i \in 1..Len(one) + Len(u) :
                 w[i] = IF i <= Len(one) THEN one[i] ELSE u[i - Len(one)]
      BY <2>1, ConcatProperties
    <2>3. Len(one) = 1 /\ Len(one) + Len(u) = Len(s)
      BY <1>1, <1>3
    <2>4. DOMAIN w = 1..Len(w)
      BY <2>2, LenProperties
    <2>5. QED
      BY <2>2, <2>3, <2>4
  <1>5. \A i \in 1..Len(s) : w[i] = s[i]
    <2> SUFFICES ASSUME NEW i \in 1..Len(s) PROVE w[i] = s[i]
      OBVIOUS
    <2>1. CASE i = 1
      BY <1>1, <1>3, <1>4, <2>1
    <2>2. CASE i # 1
      <3>1. i - 1 \in 1..Len(s) - 1 /\ (i - 1) + 1 = i /\ ~(i <= 1)
        BY <1>1, <2>2
      <3>2. QED
        BY <1>1, <1>4, <3>1
    <2>3. QED
      BY <2>1, <2>2
  <1>6. Places(w, h) = Places(s, h)
    BY <1>1, <1>4, <1>5 DEF Places
  <1>7. Occurs(w, h) = Occurs(one, h) + Occurs(u, h)
    BY <1>1, <1>3, OccursJoined
  <1>8. Occurs(one, h) = IF e = h THEN 1 ELSE 0
    <2>1. Places(one, h) = IF e = h THEN {1} ELSE {}
      BY <1>3 DEF Places
    <2>2. QED
      BY <2>1, FS_Singleton, FS_EmptySet DEF Occurs
  <1>9. Occurs(u, h) \in Nat /\ Occurs(s, h) = Occurs(w, h)
    BY <1>1, <1>6, PlacesFinite DEF Occurs
  <1>10. QED
    BY <1>7, <1>8, <1>9 DEF e, u

\* Joined lists hold what each of them holds.
LEMMA OccursFlattened ==
    ASSUME NEW T, NEW ss \in Seq(Seq(T)), NEW h
    PROVE  Occurs(FlattenSeq(ss), h) =
               Cardinality({x \in UNION {{k} \X DOMAIN ss[k] : k \in DOMAIN ss} :
                                ss[x[1]][x[2]] = h})
  <1> DEFINE Among(i) == {x \in UNION {{k} \X DOMAIN ss[k] : k \in 1..i} : ss[x[1]][x[2]] = h}
             New(i) == {x \in {i} \X DOMAIN ss[i] : ss[x[1]][x[2]] = h}
  <1>1. PICK n \in Nat : n = Len(ss) /\ DOMAIN ss = 1..n /\ \A i \in 1..n : ss[i] \in Seq(T)
    BY LenProperties, ElementOfSeq
  <1>2. PICK flat :
            /\ FlattenSeq(ss) = IF n = 0 THEN << >> ELSE flat[n]
            /\ \A i \in 1..n : /\ flat[i] = IF i = 1 THEN ss[i] ELSE flat[i - 1] \o ss[i]
                               /\ flat[i] \in Seq(T)
    BY <1>1, Joined
  <1>3. ASSUME NEW i \in 1..n
        PROVE  /\ Among(i) = Among(i - 1) \cup New(i) /\ Among(i - 1) \cap New(i) = {}
               /\ IsFiniteSet(New(i)) /\ Cardinality(New(i)) = Occurs(ss[i], h)
    <2>1. 1..i = (1..i - 1) \cup {i} /\ i \notin 1..i - 1
      BY <1>1
    <2>2. Among(i) = Among(i - 1) \cup New(i)
      BY <2>1
    <2>3. Among(i - 1) \cap New(i) = {}
      BY <2>1
    <2> DEFINE P == Places(ss[i], h)
               f == [k \in P |-> <<i, k>>]
    <2>4. f \in Bijection(P, New(i))
      <3>1. f \in [P -> New(i)]
        BY DEF Places
      <3>2. \A j, k \in P : f[j] = f[k] => j = k
        OBVIOUS
      <3>3. \A x \in New(i) : \E k \in P : f[k] = x
        <4> SUFFICES ASSUME NEW x \in New(i) PROVE \E k \in P : f[k] = x
          OBVIOUS
        <4>1. x[2] \in P /\ x = <<i, x[2]>>
          BY DEF Places
        <4>2. QED
          BY <4>1
      <3>4. QED
        BY <3>1, <3>2, <3>3 DEF Bijection, Injection, Surjection, IsInjective
    <2>5. IsFiniteSet(P)
      BY <1>1, PlacesFinite
    <2>6. IsFiniteSet(New(i)) /\ Cardinality(New(i)) = Cardinality(P)
      BY <2>4, <2>5, FS_Bijection DEF ExistsBijection
    <2>7. QED
      BY <2>2, <2>3, <2>6 DEF Occurs
  <1>4. Among(0) = {}
    OBVIOUS
  <1>5. ASSUME NEW i \in 1..n, i # 1 PROVE flat[i] = flat[i - 1] \o ss[i] /\ i - 1 \in 1..n
    <2>1. i - 1 \in 1..n
      BY <1>1, <1>5
    <2>2. QED
      BY <1>2, <1>5, <2>1
  <1> HIDE DEF Among, New
  <1> DEFINE Right(i) == IsFiniteSet(Among(i)) /\ Cardinality(Among(i)) = Occurs(flat[i], h)
             bad == {i \in Nat : i \in 1..n /\ ~Right(i)}
  <1>6. ASSUME NEW i \in 1..n, i = 1 PROVE Right(i)
    <2>1. i - 1 = 0 /\ flat[i] = ss[i]
      BY <1>2, <1>6
    <2>2. Among(i) = New(i)
      BY <1>3, <1>4, <2>1
    <2>3. QED
      BY <1>3, <2>1, <2>2
  <1>7. ASSUME NEW i \in 1..n, i # 1, Right(i - 1) PROVE Right(i)
    <2>1. /\ IsFiniteSet(Among(i)) /\ Cardinality(Among(i)) =
                 Cardinality(Among(i - 1)) + Cardinality(New(i))
                 - Cardinality(Among(i - 1) \cap New(i))
      BY <1>3, <1>7, FS_Union
    <2>2. Cardinality(Among(i - 1) \cap New(i)) = 0
      BY <1>3, FS_EmptySet
    <2>3. flat[i - 1] \in Seq(T) /\ ss[i] \in Seq(T) /\ flat[i] = flat[i - 1] \o ss[i]
      BY <1>1, <1>2, <1>5, <1>7
    <2>4. Occurs(flat[i - 1] \o ss[i], h) = Occurs(flat[i - 1], h) + Occurs(ss[i], h)
      BY <2>3, OccursJoined
    <2>5. Occurs(flat[i - 1], h) \in Nat /\ Occurs(ss[i], h) \in Nat
      BY <2>3, PlacesFinite
    <2>6. QED
      BY <1>3, <1>7, <2>1, <2>2, <2>3, <2>4, <2>5
  <1>8. \A i \in Nat : i \in 1..n => Right(i)
    <2> HIDE DEF Right
    <2> SUFFICES ASSUME bad # {} PROVE FALSE
      BY Zenon
    <2>1. PICK m \in bad : \A y \in bad : m <= y
      BY FirstPosition
    <2>2. m \in 1..n /\ ~Right(m)
      BY <2>1
    <2>3. m # 1
      BY <1>6, <2>2
    <2>4. m - 1 \in 1..n /\ m - 1 \notin bad
      BY <1>1, <2>1, <2>2, <2>3
    <2>5. QED
      BY <1>7, <2>2, <2>3, <2>4
  <1>9. Cardinality(Among(n)) = Occurs(FlattenSeq(ss), h)
    <2>1. CASE n = 0
      BY <1>2, <1>4, <2>1, OccursNowhere, FS_EmptySet
    <2>2. CASE n # 0
      BY <1>1, <1>2, <1>8, <2>2
    <2>3. QED
      BY <2>1, <2>2
  <1>10. QED
    BY <1>1, <1>9 DEF Among

\* The dispatcher finds a callback as often as the table says it is to be called.
LEMMA TimesFound ==
    ASSUME TableInv, NEW h \in Handler, NEW received
    PROVE  Occurs(HandlersFor(received), h) = Times(h, received) /\ Times(h, received) \in Nat
  <1> DEFINE matched == {k \in DOMAIN map : Matches(map[k].address, received)}
             found == [k \in DOMAIN map |-> IF k \in matched THEN map[k].handlers ELSE << >>]
             those == {x \in UNION {{k} \X DOMAIN map[k].handlers : k \in matched} :
                           map[x[1]].handlers[x[2]] = h}
  <1>1. HandlersFor(received) \in Seq(Handler)
    BY HandlersFound DEF TableInv
  <1>2. Occurs(HandlersFor(received), h) \in Nat
    BY <1>1, PlacesFinite
  <1>3. CASE matched # {}
    <2>1. Len(map) \in Nat /\ DOMAIN map = 1..Len(map) /\ \A k \in DOMAIN map : map[k] \in EntryOf
      BY LenProperties, ElementOfSeq DEF TableInv
    <2>2. \A k \in DOMAIN map : map[k].handlers \in Seq(Handler) /\ << >> \in Seq(Handler)
      BY <2>1, EmptySeq DEF EntryOf
    <2>3. HandlersFor(received) = FlattenSeq(found) /\ Times(h, received) = Cardinality(those)
      BY <1>3 DEF HandlersFor, Times
    <2>4. matched \subseteq DOMAIN map
      OBVIOUS
    <2> HIDE DEF matched
    <2>5. found \in Seq(Seq(Handler))
      BY <2>1, <2>2, SeqDef
    <2> DEFINE all == {x \in UNION {{k} \X DOMAIN found[k] : k \in DOMAIN found} :
                           found[x[1]][x[2]] = h}
    <2>6. Occurs(FlattenSeq(found), h) = Cardinality(all)
      BY <2>5, OccursFlattened
    <2>7. \A k \in matched : found[k] = map[k].handlers /\ k \in DOMAIN found
      BY <2>4
    <2>8. \A k \in DOMAIN found : k \notin matched => DOMAIN found[k] = {}
      BY EmptyList
    <2>9. DOMAIN found = DOMAIN map
      OBVIOUS
    <2> HIDE DEF found
    <2>10. all = those
      BY <2>7, <2>8, <2>9
    <2>11. QED
      BY <1>2, <2>3, <2>6, <2>10
  <1>4. CASE matched = {}
    <2>1. /\ HandlersFor(received) = IF default # NoHandler THEN <<default>> ELSE << >>
          /\ Times(h, received) = IF default = h THEN 1 ELSE 0
      BY <1>4 DEF HandlersFor, Times
    <2>2. CASE default # NoHandler
      <3>1. Places(<<default>>, h) = IF default = h THEN {1} ELSE {}
        BY DEF Places
      <3>2. QED
        BY <2>1, <2>2, <3>1, FS_Singleton, FS_EmptySet DEF Occurs
    <2>3. CASE default = NoHandler
      BY <2>1, <2>3, OccursNowhere, HandlerAssumption
    <2>4. QED
      BY <2>2, <2>3
  <1>5. QED
    BY <1>3, <1>4

----------------------------------------------------------------------------
(* Whole or not at all *)

Said(p) == {m.msg : m \in Range(Heard(p))}

Calls(cs, h, m) == {k \in DOMAIN cs : cs[k].handler = h /\ cs[k].msg = m}

\* How often each handler is to be called for each message a client may send.
AllTimes == [x \in Handler \X UNION {Said(p) : p \in Packet} |-> Times(x[1], x[2].address)]

\* The calls for m to h that a thread in state r has made, of n[<<h, m>>].
Made(r, n, h, m) ==
    IF r.pc = "call" /\ Head(r.msgs).msg = m THEN n[<<h, m>>] - Occurs(r.todo, h)
    ELSE IF \E k \in DOMAIN r.msgs : r.msgs[k].msg = m THEN 0 ELSE n[<<h, m>>]

\* A thread in state r on packet p, with the calls cs made.
Accounted(r, p, cs, n) ==
    /\ cs \in Seq([handler : Handler, msg : Said(p), at : Int])
    /\ r.pc # "idle" => p \in Packet
    /\ r.pc = "parse" => cs = << >>
    /\ r.pc = "idle" /\ p # NoPacket =>
           /\ p \in Packet
           /\ \A h \in Handler, m \in Said(p) :
                  Cardinality(Calls(cs, h, m)) = IF Content[p].ok THEN n[<<h, m>>] ELSE 0
    /\ r.pc \in {"next", "sleep", "call"} =>
           /\ Content[p].ok
           /\ r.msgs \in Seq([due : Int, msg : Said(p)])
           /\ \A k, l \in DOMAIN r.msgs : r.msgs[k].msg = r.msgs[l].msg => k = l
           /\ \A h \in Handler, m \in Said(p) :
                  Cardinality(Calls(cs, h, m)) = Made(r, n, h, m)

AccountInv ==
    /\ DOMAIN packet = Thread /\ DOMAIN calls = Thread
    /\ \A t \in Thread :
           /\ Accounted(thread[t], packet[t], calls[t], AllTimes)
           /\ ~serving => thread[t].pc = "idle" /\ packet[t] = NoPacket

\* No calls were made.
LEMMA NoCalls == ASSUME NEW h, NEW m PROVE Cardinality(Calls(<< >>, h, m)) = 0
  <1>1. Calls(<< >>, h, m) = {}
    BY EmptyList DEF Calls
  <1>2. QED
    BY <1>1, FS_EmptySet

\* One call more.
LEMMA OneMoreCall ==
    ASSUME NEW T, NEW cs \in Seq(T), NEW c \in T, NEW h, NEW m
    PROVE  /\ Cardinality(Calls(cs, h, m)) \in Nat
           /\ Cardinality(Calls(Append(cs, c), h, m)) =
                  IF c.handler = h /\ c.msg = m THEN Cardinality(Calls(cs, h, m)) + 1
                  ELSE Cardinality(Calls(cs, h, m))
  <1> DEFINE n == Len(cs)
             ds == Append(cs, c)
             old == Calls(cs, h, m)
  <1>1. /\ n \in Nat /\ DOMAIN cs = 1..n
        /\ DOMAIN ds = 1..n + 1 /\ ds[n + 1] = c /\ \A k \in 1..n : ds[k] = cs[k]
    BY AppendProperties, LenProperties
  <1>2. IsFiniteSet(1..n) /\ old \in SUBSET (1..n)
    BY <1>1, FS_Interval DEF Calls
  <1>3. IsFiniteSet(old) /\ Cardinality(old) \in Nat /\ n + 1 \notin old
    BY <1>1, <1>2, FS_Subset, FS_CardinalityType
  <1> HIDE DEF n, ds
  <1>4. 1..n + 1 = 1..n \cup {n + 1}
    BY <1>1
  <1>5. Calls(ds, h, m) = IF c.handler = h /\ c.msg = m THEN old \cup {n + 1} ELSE old
    BY <1>1, <1>4 DEF Calls
  <1> HIDE DEF old
  <1>6. Cardinality(old \cup {n + 1}) = Cardinality(old) + 1
    BY <1>3, FS_AddElement
  <1>7. QED
    BY <1>3, <1>5, <1>6 DEF ds, old

\* What is parsed is all that was heard, and none of it handled yet.
LEMMA ParsedAccounted ==
    ASSUME \A q \in Packet : ReadAsHeard(q), NEW p \in Packet, Content[p].ok, NEW now \in 1..MaxTime,
           NEW n
    PROVE  Accounted([Idle EXCEPT !.pc = "next", !.msgs = Messages(Content[p], now)], p, << >>, n)
  <1> DEFINE r == [Idle EXCEPT !.pc = "next", !.msgs = Messages(Content[p], now)]
             due == [k \in DOMAIN Heard(p) |-> DueAt(Heard(p)[k], now)]
             ms == InOrder(due)
             T == [due : Int, msg : Said(p)]
  <1>1. r.pc = "next" /\ r.msgs = ms
    BY DEF Idle, Messages, ReadAsHeard
  <1>2. r.msgs \in Seq(T)
    BY ParsedInTurn DEF InTurn, Said
  <1>3. /\ Heard(p) \in Seq(Range(Heard(p)))
        /\ \A k \in DOMAIN Heard(p) :
               DOMAIN Heard(p)[k] = {"due", "msg"} /\ Heard(p)[k].due \in Int
        /\ \A i, j \in DOMAIN Heard(p) : Heard(p)[i].msg = Heard(p)[j].msg => i = j
    BY HeardOnce
  <1>4. now \in Int
    BY TimeAssumption
  <1>5. ASSUME NEW k \in DOMAIN Heard(p)
        PROVE  due[k] \in T /\ due[k].msg = Heard(p)[k].msg /\ due[k].due \in Int
    <2>1. due[k] = [due |-> due[k].due, msg |-> Heard(p)[k].msg] /\ due[k].due \in Int
      BY <1>3, <1>4 DEF DueAt
    <2>2. Heard(p)[k].msg \in Said(p)
      BY DEF Said, Range
    <2>3. QED
      BY <2>1, <2>2
  <1>6. /\ DOMAIN Heard(p) = 1..Len(Heard(p)) /\ Len(Heard(p)) \in Nat
        /\ DOMAIN due = DOMAIN Heard(p)
    BY <1>3, LenProperties
  <1> HIDE DEF due
  <1>7. due \in Seq(T)
    <2> DEFINE c == Len(Heard(p))
    <2>1. due \in [1..c -> T] /\ c \in Nat
      BY <1>5, <1>6 DEF due
    <2> HIDE DEF c, T
    <2>2. QED
      BY <2>1, SeqDef
  <1>8. \A i, j \in DOMAIN due : due[i].msg = due[j].msg => i = j
    BY <1>3, <1>5, <1>6
  <1>9. \A i \in DOMAIN due : due[i].due \in Int
    BY <1>5, <1>6
  <1>10. /\ \A i \in DOMAIN due : \E k \in DOMAIN ms : ms[k] = due[i]
         /\ \A k, l \in DOMAIN ms : ms[k].msg = ms[l].msg => k = l
    BY <1>7, <1>8, <1>9, Sorted
  <1> HIDE DEF ms, T
  <1>11. ASSUME NEW m \in Said(p) PROVE \E k \in DOMAIN ms : ms[k].msg = m
    <2>1. PICK i \in DOMAIN Heard(p) : m = Heard(p)[i].msg
      BY DEF Said, Range
    <2>2. i \in DOMAIN due /\ due[i].msg = m
      BY <1>5, <1>6, <2>1
    <2>3. QED
      BY <1>10, <2>2
  <1>12. << >> \in Seq([handler : Handler, msg : Said(p), at : Int])
    BY EmptyList
  <1> HIDE DEF r
  <1>13. Accounted(r, p, << >>, n)
    BY <1>1, <1>2, <1>10, <1>11, <1>12, NoCalls DEF Accounted, Made, T
  <1>14. QED
    BY <1>13 DEF r

\* The handlers of the message at hand are those it is to be taken to.
LEMMA WokenAccounted ==
    ASSUME NEW r, NEW p, NEW cs, NEW n, Accounted(r, p, cs, n), r.pc = "sleep", r.msgs # << >>,
           NEW q, q.pc = "call", q.msgs = r.msgs,
           \A h \in Handler : n[<<h, Head(r.msgs).msg>>] = Occurs(q.todo, h),
           \A h \in Handler : Occurs(q.todo, h) \in Nat
    PROVE  Accounted(q, p, cs, n)
  <1> DEFINE first == Head(r.msgs)
  <1>1. r.msgs \in Seq([due : Int, msg : Said(p)])
    BY DEF Accounted
  <1>2. 1 \in DOMAIN r.msgs /\ first = r.msgs[1]
    BY <1>1, LenProperties, EmptySeq
  <1>3. ASSUME NEW h \in Handler, NEW m \in Said(p) PROVE Made(q, n, h, m) = Made(r, n, h, m)
    <2>1. CASE first.msg = m
      <3>1. \E k \in DOMAIN r.msgs : r.msgs[k].msg = m
        BY <1>2, <2>1
      <3>2. Made(r, n, h, m) = 0
        BY <3>1 DEF Made
      <3>3. Made(q, n, h, m) = n[<<h, m>>] - Occurs(q.todo, h)
        BY <2>1 DEF Made
      <3>4. n[<<h, m>>] = Occurs(q.todo, h) /\ Occurs(q.todo, h) \in Nat
        BY <2>1
      <3>5. QED
        BY <3>2, <3>3, <3>4
    <2>2. CASE first.msg # m
      BY <2>2 DEF Made
    <2>3. QED
      BY <2>1, <2>2
  <1>4. QED
    BY <1>3 DEF Accounted

\* A call made is one fewer to make.
LEMMA CallAccounted ==
    ASSUME NEW r, NEW p, NEW cs, NEW n, Accounted(r, p, cs, n), r.pc = "call",
           r.msgs # << >>, r.todo \in Seq(Handler), r.todo # << >>, NEW now \in Int,
           \A h \in Handler, m \in Said(p) : n[<<h, m>>] \in Nat,
           NEW q, q.pc = "call", q.msgs = r.msgs, q.todo = Tail(r.todo)
    PROVE  Accounted(q, p, Append(cs, [handler |-> Head(r.todo), msg |-> Head(r.msgs).msg,
                                       at |-> now]), n)
  <1> DEFINE first == Head(r.msgs)
             c == [handler |-> Head(r.todo), msg |-> first.msg, at |-> now]
             ds == Append(cs, c)
             T == [due : Int, msg : Said(p)]
             R == [handler : Handler, msg : Said(p), at : Int]
  <1>1. r.msgs \in Seq(T) /\ cs \in Seq(R)
    BY DEF Accounted
  <1>2. Head(r.todo) \in Handler
    BY HeadTailProperties
  <1>3. first \in T
    BY <1>1, HeadTailProperties
  <1>4. c \in R /\ c.handler = Head(r.todo) /\ c.msg = first.msg
    BY <1>2, <1>3
  <1> HIDE DEF first, c, R
  <1>5. ds \in Seq(R)
    BY <1>1, <1>4, AppendProperties
  <1>6. ASSUME NEW h \in Handler, NEW m \in Said(p)
        PROVE  Cardinality(Calls(ds, h, m)) = Made(q, n, h, m)
    <2>1. /\ Cardinality(Calls(cs, h, m)) \in Nat
          /\ Cardinality(Calls(ds, h, m)) =
                 IF c.handler = h /\ c.msg = m THEN Cardinality(Calls(cs, h, m)) + 1
                 ELSE Cardinality(Calls(cs, h, m))
      <3>1. cs \in Seq(R) /\ c \in R
        BY <1>1, <1>4
      <3>2. \A x \in R :
                /\ Cardinality(Calls(cs, h, m)) \in Nat
                /\ Cardinality(Calls(Append(cs, x), h, m)) =
                       IF x.handler = h /\ x.msg = m THEN Cardinality(Calls(cs, h, m)) + 1
                       ELSE Cardinality(Calls(cs, h, m))
        BY <3>1, OneMoreCall
      <3>3. QED
        BY <3>1, <3>2, Zenon
    <2>2. Cardinality(Calls(cs, h, m)) = Made(r, n, h, m)
      BY DEF Accounted
    <2>3. CASE first.msg = m
      <3>1. /\ Made(r, n, h, m) = n[<<h, m>>] - Occurs(r.todo, h)
            /\ Made(q, n, h, m) = n[<<h, m>>] - Occurs(q.todo, h)
        BY <2>3 DEF Made, first
      <3>2. Occurs(q.todo, h) =
                IF Head(r.todo) = h THEN Occurs(r.todo, h) - 1 ELSE Occurs(r.todo, h)
        BY OccursInRest
      <3>3. Occurs(r.todo, h) \in Nat /\ n[<<h, m>>] \in Nat
        BY PlacesFinite
      <3>4. QED
        BY <1>4, <2>1, <2>2, <2>3, <3>1, <3>2, <3>3
    <2>4. CASE first.msg # m
      <3>1. Made(q, n, h, m) = Made(r, n, h, m)
        BY <2>4 DEF Made, first
      <3>2. QED
        BY <1>4, <2>1, <2>2, <2>4, <3>1
    <2>5. QED
      BY <2>3, <2>4
  <1> HIDE DEF ds
  <1>7. Accounted(q, p, ds, n)
    BY <1>5, <1>6 DEF Accounted, R
  <1>8. QED
    BY <1>7 DEF ds, c, first

\* When all calls for a message are made, the message is taken off the list.
LEMMA DoneAccounted ==
    ASSUME NEW r, NEW p, NEW cs, NEW n, Accounted(r, p, cs, n), r.pc = "call",
           r.msgs # << >>, r.todo = << >>,
           \A h \in Handler, m \in Said(p) : n[<<h, m>>] \in Nat,
           NEW q, q.pc = "next", q.msgs = Tail(r.msgs)
    PROVE  Accounted(q, p, cs, n)
  <1> DEFINE T == [due : Int, msg : Said(p)]
             ms == r.msgs
             rest == Tail(ms)
             len == Len(ms)
  <1>1. ms \in Seq(T) /\ ms # << >>
    BY DEF Accounted
  <1>2. \A k, l \in DOMAIN ms : ms[k].msg = ms[l].msg => k = l
    BY DEF Accounted
  <1> HIDE DEF T, ms
  <1>3. len \in Nat \ {0} /\ DOMAIN ms = 1..len /\ Head(ms) = ms[1]
    BY <1>1, LenProperties, EmptySeq
  <1>4. rest \in Seq(T) /\ Len(rest) = len - 1 /\ \A k \in 1..len - 1 : rest[k] = ms[k + 1]
    BY <1>1, HeadTailProperties
  <1>5. DOMAIN rest = 1..len - 1
    BY <1>4, LenProperties
  <1> HIDE DEF rest, len
  <1>6. \A k, l \in DOMAIN rest : rest[k].msg = rest[l].msg => k = l
    <2> SUFFICES ASSUME NEW k \in 1..len - 1, NEW l \in 1..len - 1, rest[k].msg = rest[l].msg
                 PROVE  k = l
      BY <1>5
    <2>1. k + 1 \in 1..len /\ l + 1 \in 1..len
      BY <1>3
    <2>2. ms[k + 1].msg = ms[l + 1].msg
      BY <1>4
    <2>3. k + 1 = l + 1
      BY <1>2, <1>3, <2>1, <2>2
    <2>4. QED
      BY <2>3
  <1>7. ASSUME NEW m
        PROVE  (\E k \in DOMAIN rest : rest[k].msg = m) <=>
                   Head(ms).msg # m /\ \E k \in DOMAIN ms : ms[k].msg = m
    <2>1. ASSUME NEW k \in 1..len - 1, rest[k].msg = m
          PROVE  Head(ms).msg # m /\ \E l \in DOMAIN ms : ms[l].msg = m
      <3>1. k + 1 \in 1..len /\ k + 1 # 1 /\ 1 \in 1..len
        BY <1>3
      <3>2. ms[k + 1].msg = m
        BY <1>4, <2>1
      <3>3. ms[1].msg # m
        BY <1>2, <1>3, <3>1, <3>2
      <3>4. QED
        BY <1>3, <3>1, <3>2, <3>3
    <2>2. ASSUME NEW l \in 1..len, ms[l].msg = m, Head(ms).msg # m
          PROVE  \E k \in 1..len - 1 : rest[k].msg = m
      <3>1. l # 1
        BY <1>3, <2>2
      <3>2. l - 1 \in 1..len - 1 /\ (l - 1) + 1 = l
        BY <1>3, <3>1
      <3>3. rest[l - 1].msg = m
        BY <1>4, <2>2, <3>2
      <3>4. QED
        BY <3>2, <3>3
    <2>3. QED
      BY <1>3, <1>5, <2>1, <2>2
  <1>8. q.msgs = rest
    BY DEF rest, ms
  <1>9. ASSUME NEW h \in Handler, NEW m \in Said(p) PROVE Made(q, n, h, m) = Made(r, n, h, m)
    <2>1. CASE Head(ms).msg = m
      <3>1. Made(r, n, h, m) = n[<<h, m>>] - 0
        BY <2>1, OccursNowhere DEF Made, ms
      <3>2. Made(q, n, h, m) = n[<<h, m>>]
        BY <1>7, <1>8, <2>1 DEF Made
      <3>3. n[<<h, m>>] \in Nat
        OBVIOUS
      <3>4. QED
        BY <3>1, <3>2, <3>3
    <2>2. CASE Head(ms).msg # m
      BY <1>7, <1>8, <2>2 DEF Made, ms
    <2>3. QED
      BY <2>1, <2>2
  <1>10. /\ q.msgs \in Seq([due : Int, msg : Said(p)])
         /\ \A k, l \in DOMAIN q.msgs : q.msgs[k].msg = q.msgs[l].msg => k = l
    BY <1>4, <1>6, <1>8 DEF T
  <1>11. /\ cs \in Seq([handler : Handler, msg : Said(p), at : Int])
         /\ p \in Packet /\ Content[p].ok
         /\ \A h \in Handler, m \in Said(p) : Cardinality(Calls(cs, h, m)) = Made(r, n, h, m)
    BY DEF Accounted
  <1>12. QED
    BY <1>9, <1>10, <1>11 DEF Accounted

\* When no message is left, all calls are made.
LEMMA OverAccounted ==
    ASSUME NEW r, NEW p \in Packet, NEW cs, NEW n, Accounted(r, p, cs, n), r.pc = "next",
           r.msgs = << >>
    PROVE  Accounted(Idle, p, cs, n)
  <1>1. Idle.pc = "idle"
    BY DEF Idle
  <1>2. ASSUME NEW h \in Handler, NEW m \in Said(p) PROVE Made(r, n, h, m) = n[<<h, m>>]
    BY EmptyList DEF Made
  <1>3. QED
    BY <1>1, <1>2 DEF Accounted

\* Whom a message is for, and how often, is settled once the server runs.
LEMMA TimesKept ==
    ASSUME UNCHANGED <<map, default>> PROVE AllTimes' = AllTimes
  <1>1. ASSUME NEW h, NEW received PROVE Times(h, received)' = Times(h, received)
    BY DEF Times
  <1>2. QED
    BY <1>1 DEF AllTimes

\* A step of one thread that leaves its packet and its calls alone.
LEMMA AccountKept ==
    ASSUME AccountInv, NEW t \in Thread, NEW r, serving, DOMAIN thread = Thread, Becomes(t, r),
           UNCHANGED <<table, packet, calls>>, Accounted(r, packet[t], calls[t], AllTimes)
    PROVE  AccountInv'
  <1>1. AllTimes' = AllTimes /\ serving'
    BY TimesKept DEF table
  <1>2. /\ thread' = [thread EXCEPT ![t] = r] /\ packet' = packet /\ calls' = calls
    BY DEF Becomes
  <1>3. \A u \in Thread : Accounted(thread'[u], packet'[u], calls'[u], AllTimes')
    BY <1>1, <1>2 DEF AccountInv
  <1>4. QED
    BY <1>1, <1>2, <1>3 DEF AccountInv

LEMMA AccountInvOfInit == Init => AccountInv
  <1>1. << >> \in Seq([handler : Handler, msg : Said(NoPacket), at : Int])
    BY EmptyList
  <1>2. Idle.pc = "idle"
    BY DEF Idle
  <1>3. Accounted(Idle, NoPacket, << >>, AllTimes)
    BY <1>1, <1>2 DEF Accounted
  <1>4. QED
    BY <1>2, <1>3 DEF Init, AccountInv

LEMMA AccountInvInductive ==
    ASSUME \A p \in Packet : ReadAsHeard(p)
    PROVE  TypeInv /\ TurnInv /\ AccountInv /\ [Next]_vars => AccountInv'
  <1> SUFFICES ASSUME TypeInv, TurnInv, AccountInv, [Next]_vars PROVE AccountInv'
    OBVIOUS
  <1>i. /\ clock \in 1..MaxTime /\ clock \in Int /\ TableInv /\ DOMAIN thread = Thread
        /\ \A t \in Thread : /\ DOMAIN thread[t] = {"pc", "msgs", "todo"}
                             /\ thread[t].todo \in Seq(Handler)
                             /\ thread[t].pc \in {"sleep", "call"} => thread[t].msgs # << >>
    <2>1. /\ clock \in 1..MaxTime /\ clock \in Int /\ TableInv /\ DOMAIN thread = Thread
          /\ \A t \in Thread : /\ DOMAIN thread[t] = {"pc", "msgs", "todo"}
                               /\ thread[t].todo \in Seq(Handler)
      BY TimeAssumption DEF TypeInv, TableInv, ThreadInv, ThreadState
    <2>2. ASSUME NEW t \in Thread PROVE thread[t].pc \in {"sleep", "call"} => thread[t].msgs # << >>
      <3>1. InTurn(thread[t], packet[t], parsed[t], calls[t], clock)
        BY DEF TurnInv
      <3>2. QED
        BY <3>1 DEF InTurn
    <2>3. QED
      BY <2>1, <2>2
  <1>a. /\ DOMAIN packet = Thread /\ DOMAIN calls = Thread
        /\ \A t \in Thread : /\ Accounted(thread[t], packet[t], calls[t], AllTimes)
                             /\ thread[t].pc # "idle" => serving /\ packet[t] \in Packet
    BY DEF AccountInv, Accounted
  <1>n. ASSUME NEW p \in Packet, NEW h \in Handler, NEW m \in Said(p)
        PROVE  /\ AllTimes[<<h, m>>] = Times(h, m.address)
               /\ AllTimes[<<h, m>>] = Occurs(HandlersFor(m.address), h)
               /\ AllTimes[<<h, m>>] \in Nat
    <2>1. <<h, m>> \in Handler \X UNION {Said(q) : q \in Packet}
      OBVIOUS
    <2>2. AllTimes[<<h, m>>] = Times(h, m.address)
      BY <2>1 DEF AllTimes
    <2>3. QED
      BY <1>i, <2>2, TimesFound
  <1>1. ASSUME ~serving, UNCHANGED <<thread, packet, calls>> PROVE AccountInv'
    <2>1. ASSUME NEW t \in Thread
          PROVE  /\ Accounted(thread[t], packet[t], calls[t], AllTimes')
                 /\ thread[t].pc = "idle" /\ packet[t] = NoPacket
      <3>1. /\ Accounted(thread[t], packet[t], calls[t], AllTimes)
            /\ thread[t].pc = "idle" /\ packet[t] = NoPacket
        BY <1>1 DEF AccountInv
      <3>2. QED
        BY <3>1 DEF Accounted
    <2>2. QED
      BY <1>1, <1>a, <2>1 DEF AccountInv
  <1>2. ASSUME UNCHANGED <<table, thread, packet, calls>> PROVE AccountInv'
    <2>1. AllTimes' = AllTimes /\ serving' = serving
      BY <1>2, TimesKept DEF table
    <2>2. QED
      BY <1>2, <2>1 DEF AccountInv
  <1>3. ASSUME NEW t \in Thread, NEW p \in Packet, Receive(t, p) PROVE AccountInv'
    <2> DEFINE r == [Idle EXCEPT !.pc = "parse"]
    <2>1. r.pc = "parse"
      BY DEF Idle
    <2> HIDE DEF r
    <2>2. << >> \in Seq([handler : Handler, msg : Said(p), at : Int])
      BY EmptyList
    <2>3. Accounted(r, p, << >>, AllTimes)
      BY <2>1, <2>2 DEF Accounted
    <2>4. /\ UNCHANGED <<map, default, serving>> /\ serving
          /\ thread' = [thread EXCEPT ![t] = r] /\ packet' = [packet EXCEPT ![t] = p]
          /\ calls' = [calls EXCEPT ![t] = << >>]
      BY <1>3 DEF Receive, Becomes, table, r
    <2>5. AllTimes' = AllTimes
      BY <2>4, TimesKept
    <2>6. \A u \in Thread : Accounted(thread'[u], packet'[u], calls'[u], AllTimes')
      BY <1>i, <1>a, <2>3, <2>4, <2>5
    <2>7. QED
      BY <1>a, <2>4, <2>6 DEF AccountInv
  <1>4. ASSUME NEW t \in Thread, Parse(t) PROVE AccountInv'
    <2> DEFINE p == packet[t]
               good == [Idle EXCEPT !.pc = "next", !.msgs = Messages(Content[p], clock)]
               r == IF Content[p].ok THEN good ELSE Idle
    <2>1. /\ thread[t].pc = "parse" /\ Becomes(t, r) /\ UNCHANGED <<table, packet, calls>>
      BY <1>4 DEF Parse
    <2>2. p \in Packet /\ serving /\ calls[t] = << >>
      BY <1>a, <2>1 DEF Accounted
    <2> HIDE DEF p
    <2>3. ASSUME Content[p].ok PROVE Accounted(good, p, << >>, AllTimes)
      BY <1>i, <2>2, <2>3, ParsedAccounted
    <2>4. ASSUME ~Content[p].ok PROVE Accounted(Idle, p, << >>, AllTimes)
      <3>1. << >> \in Seq([handler : Handler, msg : Said(p), at : Int])
        BY EmptyList
      <3>2. Idle.pc = "idle"
        BY DEF Idle
      <3>3. QED
        BY <2>2, <2>4, <3>1, <3>2, NoCalls DEF Accounted
    <2>5. Accounted(r, p, << >>, AllTimes)
      <3> HIDE DEF good
      <3>1. CASE Content[p].ok
        BY <2>3, <3>1
      <3>2. CASE ~Content[p].ok
        BY <2>4, <3>2
      <3>3. QED
        BY <3>1, <3>2
    <2> HIDE DEF r
    <2>6. Accounted(r, packet[t], calls[t], AllTimes)
      BY <2>2, <2>5 DEF p
    <2>7. QED
      BY <1>i, <2>1, <2>2, <2>6, AccountKept
  <1>5. ASSUME NEW t \in Thread, Take(t) PROVE AccountInv'
    <2> DEFINE r == IF thread[t].msgs = << >> THEN Idle ELSE [thread[t] EXCEPT !.pc = "sleep"]
               p == packet[t]
    <2>1. /\ Becomes(t, r) /\ UNCHANGED <<table, packet, calls>>
          /\ thread[t].pc = "next" /\ serving /\ p \in Packet
      BY <1>5, <1>a DEF Take, history
    <2>2. Accounted(thread[t], p, calls[t], AllTimes)
      BY <1>a
    <2>3. ASSUME NEW h \in Handler, NEW m \in Said(p) PROVE AllTimes[<<h, m>>] \in Nat
      BY <1>n, <2>1, <2>3
    <2> HIDE DEF p
    <2>4. Accounted(r, p, calls[t], AllTimes)
      <3>1. CASE thread[t].msgs = << >>
        BY <2>1, <2>2, <3>1, OverAccounted DEF Idle
      <3>2. CASE thread[t].msgs # << >>
        <4>1. r.pc = "sleep" /\ r.msgs = thread[t].msgs
          BY <1>i, <3>2
        <4> HIDE DEF r
        <4>2. QED
          BY <2>1, <2>2, <4>1 DEF Accounted, Made
      <3>3. QED
        BY <3>1, <3>2
    <2> HIDE DEF r
    <2>5. QED
      BY <1>i, <2>1, <2>4, AccountKept DEF p
  <1>6. ASSUME NEW t \in Thread, Wake(t) PROVE AccountInv'
    <2> DEFINE hs == HandlersFor(Head(thread[t].msgs).msg.address)
               r == [thread[t] EXCEPT !.pc = "call", !.todo = hs]
               p == packet[t]
    <2>1. /\ Becomes(t, r) /\ UNCHANGED <<table, packet, calls>>
          /\ thread[t].pc = "sleep" /\ serving /\ p \in Packet
      BY <1>6, <1>a DEF Wake, history
    <2>2. Accounted(thread[t], p, calls[t], AllTimes) /\ thread[t].msgs # << >>
      BY <1>i, <1>a, <2>1
    <2>3. r.pc = "call" /\ r.msgs = thread[t].msgs /\ r.todo = hs
      BY <1>i
    <2>4. Head(thread[t].msgs).msg \in Said(p)
      <3> DEFINE T == [due : Int, msg : Said(p)]
      <3>1. thread[t].msgs \in Seq(T)
        BY <2>1, <2>2 DEF Accounted
      <3> HIDE DEF T
      <3>2. Head(thread[t].msgs) \in T
        BY <2>2, <3>1, HeadTailProperties
      <3>3. QED
        BY <3>2 DEF T
    <2> HIDE DEF r, p
    <2>5. ASSUME NEW h \in Handler
          PROVE  /\ AllTimes[<<h, Head(thread[t].msgs).msg>>] = Occurs(r.todo, h)
                 /\ Occurs(r.todo, h) \in Nat
      BY <1>n, <2>1, <2>3, <2>4
    <2>6. Accounted(r, p, calls[t], AllTimes)
      BY <2>1, <2>2, <2>3, <2>5, WokenAccounted
    <2>7. QED
      BY <1>i, <2>1, <2>6, AccountKept DEF p
  <1>7. ASSUME NEW t \in Thread, Call(t) PROVE AccountInv'
    <2> DEFINE c == [handler |-> Head(thread[t].todo), msg |-> Head(thread[t].msgs).msg,
                     at |-> clock]
               r == [thread[t] EXCEPT !.todo = Tail(@)]
               p == packet[t]
    <2>1. /\ UNCHANGED <<map, default, serving>> /\ serving /\ packet' = packet /\ p \in Packet
          /\ thread' = [thread EXCEPT ![t] = r] /\ calls' = [calls EXCEPT ![t] = Append(calls[t], c)]
          /\ thread[t].pc = "call" /\ thread[t].todo # << >>
      BY <1>7, <1>a DEF Call, Becomes, table
    <2>2. Accounted(thread[t], p, calls[t], AllTimes) /\ thread[t].msgs # << >>
      BY <1>i, <1>a, <2>1
    <2>3. r.pc = "call" /\ r.msgs = thread[t].msgs /\ r.todo = Tail(thread[t].todo)
      BY <1>i, <2>1
    <2> HIDE DEF r, p
    <2>4. \A h \in Handler, m \in Said(p) : AllTimes[<<h, m>>] \in Nat
      BY <1>n, <2>1
    <2>5. Accounted(r, p, Append(calls[t], c), AllTimes)
      BY <1>i, <2>1, <2>2, <2>3, <2>4, CallAccounted
    <2>6. AllTimes' = AllTimes
      BY <2>1, TimesKept
    <2> HIDE DEF c
    <2>7. \A u \in Thread : Accounted(thread'[u], packet'[u], calls'[u], AllTimes')
      BY <1>i, <1>a, <2>1, <2>5, <2>6 DEF p
    <2>8. QED
      BY <1>a, <2>1, <2>7 DEF AccountInv
  <1>8. ASSUME NEW t \in Thread, CallsDone(t) PROVE AccountInv'
    <2> DEFINE r == [thread[t] EXCEPT !.pc = "next", !.msgs = Tail(@)]
               p == packet[t]
    <2>1. /\ Becomes(t, r) /\ UNCHANGED <<table, packet, calls>>
          /\ thread[t].pc = "call" /\ thread[t].todo = << >> /\ serving /\ p \in Packet
      BY <1>8, <1>a DEF CallsDone, history
    <2>2. Accounted(thread[t], p, calls[t], AllTimes) /\ thread[t].msgs # << >>
      BY <1>i, <1>a, <2>1
    <2>3. r.pc = "next" /\ r.msgs = Tail(thread[t].msgs)
      BY <1>i
    <2> HIDE DEF r, p
    <2>4. \A h \in Handler, m \in Said(p) : AllTimes[<<h, m>>] \in Nat
      BY <1>n, <2>1
    <2>5. Accounted(r, p, calls[t], AllTimes)
      BY <2>1, <2>2, <2>3, <2>4, DoneAccounted
    <2>6. QED
      BY <1>i, <2>1, <2>5, AccountKept DEF p
  <1>9. ASSUME NEW a \in Address, NEW h \in Handler,
               Map(a, h) \/ Unmap(a, h)
        PROVE  ~serving /\ UNCHANGED <<thread, packet, calls>>
    BY <1>9 DEF Map, Unmap, history
  <1>10. ASSUME Serve \/ \E h \in Handler : SetDefaultHandler(h)
         PROVE  ~serving /\ UNCHANGED <<thread, packet, calls>>
    BY <1>10 DEF Serve, SetDefaultHandler, history
  <1>11. ASSUME Tick \/ UNCHANGED vars PROVE UNCHANGED <<table, thread, packet, calls>>
    BY <1>11 DEF Tick, vars, table, history
  <1>12. QED
    BY <1>1, <1>2, <1>3, <1>4, <1>5, <1>6, <1>7, <1>8, <1>9, <1>10, <1>11 DEF Next, Handle

\* A packet that parses to what was heard of it is handled whole, every message
\* of it by every handler it is for as often as the table says and no other,
\* and one that does not parse not at all, for any table, any clients and any
\* number of threads.
THEOREM HandledWholeOrNot ==
    ASSUME \A p \in Packet : ReadAsHeard(p) /\ (Whole(p) => Content[p].ok)
    PROVE  Spec => []AllOrNothing
  <1>1. ASSUME AccountInv PROVE AllOrNothing
    <2> SUFFICES ASSUME NEW t \in Thread, Over(t)
                 PROVE  \E all \in IF Whole(packet[t]) THEN {TRUE} ELSE BOOLEAN :
                            \A h \in Handler, j \in DOMAIN Heard(packet[t]) :
                                Cardinality(Calls(calls[t], h, Heard(packet[t])[j].msg)) =
                                    IF all THEN Times(h, Heard(packet[t])[j].msg.address) ELSE 0
      BY DEF AllOrNothing, Calls
    <2> DEFINE p == packet[t]
               parses == Content[p].ok = TRUE
    <2>1. p \in Packet
      BY <1>1 DEF AccountInv, Accounted, Over
    <2>2. parses \in IF Whole(packet[t]) THEN {TRUE} ELSE BOOLEAN
      BY <2>1
    <2>3. ASSUME NEW h \in Handler, NEW j \in DOMAIN Heard(p)
          PROVE  Cardinality(Calls(calls[t], h, Heard(p)[j].msg)) =
                     IF parses THEN Times(h, Heard(p)[j].msg.address) ELSE 0
      <3> DEFINE m == Heard(p)[j].msg
      <3>1. m \in Said(p)
        BY DEF Said, Range
      <3>2. Cardinality(Calls(calls[t], h, m)) =
                IF Content[p].ok THEN AllTimes[<<h, m>>] ELSE 0
        BY <1>1, <3>1 DEF AccountInv, Accounted, Over
      <3>3. AllTimes[<<h, m>>] = Times(h, m.address)
        BY <2>1, <3>1 DEF AllTimes
      <3>4. QED
        BY <3>2, <3>3
    <2> HIDE DEF parses
    <2>4. QED
      BY <2>2, <2>3
  <1>2. Init => TypeInv /\ TurnInv /\ AccountInv
    BY TypeInvOfInit, TurnInvOfInit, AccountInvOfInit
  <1>3. (TypeInv /\ TurnInv /\ AccountInv) /\ [Next]_vars => (TypeInv /\ TurnInv /\ AccountInv)'
    BY TypeInvInductive, TurnInvInductive, AccountInvInductive
  <1>4. QED
    BY <1>1, <1>2, <1>3, PTL DEF Spec

----------------------------------------------------------------------------
(* Reading a string where it was written *)

\* Part of a list.
LEMMA Part ==
    ASSUME NEW T, NEW s \in Seq(T), NEW i \in Nat, i # 0, NEW n \in Nat, NEW j \in Int,
           j = i + n - 1, j <= Len(s)
    PROVE  /\ SubSeq(s, i, j) \in Seq(T) /\ Len(SubSeq(s, i, j)) = n
           /\ \A k \in 1..n : SubSeq(s, i, j)[k] = s[i + k - 1]
  <1>1. j - i + 1 = n /\ (IF i <= j THEN j - i + 1 ELSE 0) = n
    OBVIOUS
  <1>2. \A k \in i..j : s[k] \in T
    BY LenProperties, ElementOfSeq
  <1>3. SubSeq(s, i, j) \in Seq(T)
    BY <1>1, <1>2
  <1>4. Len(SubSeq(s, i, j)) = IF i <= j THEN j - i + 1 ELSE 0
    BY <1>1, <1>2
  <1>5. \A k \in 1..j - i + 1 : SubSeq(s, i, j)[k] = s[i + k - 1]
    BY <1>1, <1>2
  <1>6. Len(SubSeq(s, i, j)) = n
    BY <1>1, <1>4, Zenon
  <1>7. \A k \in 1..n : SubSeq(s, i, j)[k] = s[i + k - 1]
    BY <1>1, <1>5, Zenon
  <1>8. QED
    BY <1>3, <1>6, <1>7, Zenon

\* What was written at position i of d is read there, if d holds all of it.
LEMMA StringRead ==
    ASSUME NEW s \in Text, NEW d \in Datagram, NEW i \in Nat \ {0},
           \A k \in 1..Len(WriteString(s)) :
               i + k - 1 <= Len(d) => d[i + k - 1] = WriteString(s)[k]
    PROVE  GetString(d, i) = IF i + Len(WriteString(s)) - 1 <= Len(d)
                             THEN Got(s, i + Len(WriteString(s))) ELSE Bad
  <1> DEFINE n == Len(s)
             w == WriteString(s)
             zeros == Nul(4 - (n % 4))
             total == 4 * (n \div 4 + 1)
             ends == Ends(d, i)
  <1>1. n \in Nat /\ Len(d) \in Nat /\ DOMAIN s = 1..n /\ DOMAIN d = 1..Len(d)
    BY LenProperties DEF Text, Datagram
  <1>2. \A k \in 1..n : s[k] # 0
    BY <1>1, ElementOfSeq DEF Text
  <1>3. 4 - (n % 4) \in Nat /\ n + (4 - (n % 4)) = total /\ total \in Nat /\ n < total
    BY <1>1
  <1>4. /\ w = s \o zeros /\ zeros \in Seq(Nat) /\ Len(zeros) = 4 - (n % 4)
        /\ \A k \in 1..4 - (n % 4) : zeros[k] = 0
    <2>1. zeros = [k \in 1..4 - (n % 4) |-> 0]
      BY DEF Nul
    <2>2. w = s \o zeros
      BY DEF WriteString
    <2> HIDE DEF zeros
    <2>3. QED
      BY <1>3, <2>1, <2>2, LenProperties
  <1> HIDE DEF w, zeros
  <1>5. s \in Seq(Nat)
    BY <1>1, BaseAssumption, ElementOfSeq, SeqDef DEF Text, Byte
  <1>6. /\ Len(w) = total
        /\ \A k \in 1..total : w[k] = IF k <= n THEN s[k] ELSE zeros[k - n]
    <2> HIDE DEF n, total
    <2>1. /\ Len(s \o zeros) = Len(s) + Len(zeros)
          /\ \A k \in 1..Len(s) + Len(zeros) :
                 (s \o zeros)[k] = IF k <= Len(s) THEN s[k] ELSE zeros[k - Len(s)]
      BY <1>4, <1>5, ConcatProperties
    <2>2. Len(s) + Len(zeros) = total
      BY <1>3, <1>4 DEF n
    <2>3. QED
      BY <1>4, <2>1, <2>2 DEF n
  <1>7. \A k \in 1..n : w[k] = s[k]
    BY <1>1, <1>3, <1>6
  <1>8. w[n + 1] = 0
    BY <1>1, <1>3, <1>4, <1>6
  <1>9. \A k \in 1..Len(w) : i + k - 1 <= Len(d) => d[i + k - 1] = w[k]
    BY DEF w
  <1>10. ASSUME NEW j \in ends PROVE j \in Nat /\ i + n <= j
    <2>1. j \in i..Len(d) /\ d[j] = 0
      BY DEF Ends
    <2>2. ASSUME j < i + n PROVE FALSE
      <3>1. j - i + 1 \in 1..n /\ i + (j - i + 1) - 1 = j
        BY <1>1, <2>1, <2>2
      <3>2. j - i + 1 \in 1..total
        BY <1>1, <1>3, <3>1
      <3>3. d[j] = s[j - i + 1]
        BY <1>6, <1>7, <1>9, <2>1, <3>1, <3>2
      <3>4. QED
        BY <1>2, <2>1, <3>1, <3>3
    <2>3. QED
      BY <1>1, <2>1, <2>2
  <1> HIDE DEF n, total
  <1>11. CASE i + total - 1 <= Len(d)
    <2>1. i + n \in ends
      <3>1. n + 1 \in 1..Len(w) /\ i + (n + 1) - 1 <= Len(d) /\ i + (n + 1) - 1 = i + n
        BY <1>1, <1>3, <1>6, <1>11
      <3>2. d[i + n] = 0
        BY <1>8, <1>9, <3>1
      <3>3. QED
        BY <1>1, <3>1, <3>2 DEF Ends
    <2>2. Min(ends) = i + n
      <3> HIDE DEF ends
      <3>1. \A y \in ends : i + n <= y
        BY <1>10
      <3>2. \A x \in ends : (\A y \in ends : x <= y) => x = i + n
        BY <1>1, <1>10, <2>1
      <3>3. QED
        BY <2>1, <3>1, <3>2 DEF Min
    <2>3. SubSeq(d, i, i + n - 1) = s
      <3>1. PICK j \in Int : j = i + n - 1
        BY <1>1
      <3>2. d \in Seq(Byte) /\ n \in Nat /\ i \in Nat /\ i # 0 /\ j <= Len(d)
        BY <1>1, <1>3, <1>11, <3>1 DEF Datagram
      <3>3. /\ SubSeq(d, i, j) \in Seq(Byte) /\ Len(SubSeq(d, i, j)) = n
            /\ \A k \in 1..n : SubSeq(d, i, j)[k] = d[i + k - 1]
        BY <3>1, <3>2, Part, SMTT(30)
      <3> DEFINE t == SubSeq(d, i, j)
      <3> HIDE DEF t
      <3>4. ASSUME NEW k \in 1..n PROVE t[k] = s[k]
        <4>1. t[k] = d[i + k - 1]
          BY <3>3, Zenon DEF t
        <4>2. k \in 1..Len(w) /\ i + k - 1 <= Len(d)
          BY <1>1, <1>3, <1>6, <1>11
        <4>3. QED
          BY <1>7, <1>9, <4>1, <4>2
      <3>5. t \in Seq(Byte) /\ Len(t) = n
        BY <3>3, Zenon DEF t
      <3>6. s \in Seq(Byte) /\ Len(t) = Len(s)
        BY <1>1, <3>5, ElementOfSeq, SeqDef DEF Text, n
      <3>7. t = s
        BY <3>4, <3>5, <3>6, SeqEqual
      <3>8. QED
        BY <3>1, <3>7, Zenon DEF t
    <2>4. Min(ends) - i = n /\ ends # {}
      BY <1>1, <2>1, <2>2
    <2>5. GetString(d, i) = Got(s, i + total)
      <3> DEFINE m == Min(ends) - i
      <3>1. GetString(d, i) = IF ends = {} \/ i + 4 * (m \div 4 + 1) - 1 > Len(d) THEN Bad
                              ELSE Got(SubSeq(d, i, i + m - 1), i + 4 * (m \div 4 + 1))
        BY DEF GetString
      <3> HIDE DEF m, ends
      <3>2. m = n
        BY <2>4 DEF m
      <3>3. 4 * (m \div 4 + 1) = total
        BY <3>2 DEF total
      <3>4. GetString(d, i) = Got(SubSeq(d, i, i + n - 1), i + total)
        BY <1>1, <1>3, <1>11, <2>4, <3>1, <3>2, <3>3
      <3>5. QED
        BY <2>3, <3>4
    <2>6. QED
      BY <1>6, <1>11, <2>5 DEF w
  <1>12. CASE ~(i + total - 1 <= Len(d))
    <2>1. GetString(d, i) = Bad
      <3>1. CASE ends = {}
        BY <3>1 DEF GetString
      <3>2. CASE ends # {}
        <4> DEFINE e == Min(ends)
        <4>1. ends \subseteq Nat
          BY <1>10
        <4>2. \E x \in ends : \A y \in ends : x <= y
          BY <3>2, <4>1, FirstPosition
        <4>3. e \in ends
          BY <4>2 DEF Min
        <4> HIDE DEF e
        <4>4. e - i \in Nat /\ n <= e - i
          BY <1>1, <1>10, <4>3
        <4>5. total <= 4 * ((e - i) \div 4 + 1) /\ 4 * ((e - i) \div 4 + 1) \in Nat
          BY <1>1, <4>4 DEF total
        <4>6. i + 4 * ((e - i) \div 4 + 1) - 1 > Len(d)
          BY <1>1, <1>3, <1>12, <4>5
        <4>7. QED
          BY <4>6 DEF GetString, e
      <3>3. QED
        BY <3>1, <3>2
    <2>2. QED
      BY <1>6, <1>12, <2>1 DEF w
  <1>13. QED
    BY <1>11, <1>12

----------------------------------------------------------------------------
(* A message of one string, built and read *)

\* Lists of one and two.
LEMMA ShortLists ==
    ASSUME NEW T, NEW x \in T, NEW y \in T
    PROVE  <<x>> \in Seq(T) /\ <<x, y>> \in Seq(T) /\ <<x, y>> = Append(<<x>>, y)
  <1>1. << >> \in Seq(T) /\ <<x>> = Append(<< >>, x) /\ <<x, y>> = Append(<<x>>, y)
    OBVIOUS
  <1>2. Append(<< >>, x) \in Seq(T)
    BY <1>1, AppendProperties
  <1>3. Append(Append(<< >>, x), y) \in Seq(T)
    BY <1>2, AppendProperties
  <1>4. QED
    BY <1>1, <1>2, <1>3, Zenon

\* A list of one list, joined.
LEMMA FlattenedOne == ASSUME NEW x PROVE FlattenSeq(<<x>>) = x
  <1> DEFINE ss == <<x>>
             Joins(f) == f = [i \in 1..Len(ss) |-> IF i = 1 THEN ss[i] ELSE f[i - 1] \o ss[i]]
             one == [i \in 1..Len(ss) |-> x]
             flat == CHOOSE f : Joins(f)
  <1>1. Len(ss) = 1 /\ ss[1] = x /\ 1..1 = {1} /\ 1 \in 1..1
    OBVIOUS
  <1>2. FlattenSeq(ss) = flat[1]
    BY <1>1 DEF FlattenSeq
  <1> HIDE DEF ss
  <1>3. Joins(one)
    BY <1>1
  <1> HIDE DEF one
  <1>4. Joins(flat)
    BY <1>3, Zenon
  <1>5. \A f : Joins(f) => f[1] = x
    BY <1>1
  <1> HIDE DEF Joins, flat
  <1>6. flat[1] = x
    BY <1>4, <1>5
  <1>7. QED
    BY <1>2, <1>6 DEF ss

\* Reading the one parameter that the type tag c announces.
LEMMA OneParam ==
    ASSUME NEW d, NEW first, NEW c
    PROVE  FoldLeft(LAMBDA st, tag : ReadParam(d, st, tag), first, <<c>>) = ReadParam(d, first, c)
  <1> DEFINE Reading(f) == f = [s \in SUBSET {1} |-> IF s = {} THEN first
                                     ELSE ReadParam(d, f[s \ {Max(s)}], <<c>>[Max(s)])]
             it == CHOOSE f : Reading(f)
             f1 == [s \in SUBSET {1} |-> IF s = {} THEN first ELSE ReadParam(d, first, c)]
  <1>1. DOMAIN <<c>> = {1} /\ <<c>>[1] = c
    OBVIOUS
  <1>2. FoldLeft(LAMBDA st, tag : ReadParam(d, st, tag), first, <<c>>) = it[{1}]
    BY <1>1 DEF FoldLeft, MapThenFoldSet
  <1>3. Max({1}) = 1
    BY DEF Max
  <1>4. \A s \in SUBSET {1} : s = {} \/ s = {1}
    OBVIOUS
  <1>5. {1} \ {1} = {} /\ {} \in SUBSET {1} /\ {1} \in SUBSET {1} /\ {1} # {}
    OBVIOUS
  <1>6. Reading(f1)
    <2> DEFINE f2 == [s \in SUBSET {1} |-> IF s = {} THEN first
                                     ELSE ReadParam(d, f1[s \ {Max(s)}], <<c>>[Max(s)])]
    <2>1. f1[{}] = first
      BY <1>5
    <2>2. f2[{}] = first
      BY <1>5
    <2>3. f2[{1}] = ReadParam(d, f1[{1} \ {Max({1})}], <<c>>[Max({1})])
      BY <1>5
    <2>4. f2[{1}] = ReadParam(d, first, c)
      BY <1>1, <1>3, <1>5, <2>1, <2>3
    <2>5. f1[{1}] = ReadParam(d, first, c)
      BY <1>5
    <2>6. f1 = f2
      BY <1>4, <2>1, <2>2, <2>4, <2>5
    <2>7. QED
      BY <2>6
  <1> HIDE DEF f1
  <1>7. Reading(it)
    BY <1>6, Zenon
  <1>8. ASSUME NEW f, Reading(f) PROVE f[{1}] = ReadParam(d, first, c)
    <2>1. f[{}] = first
      BY <1>5, <1>8
    <2>2. f[{1}] = ReadParam(d, f[{1} \ {Max({1})}], <<c>>[Max({1})])
      BY <1>5, <1>8
    <2>3. QED
      BY <1>1, <1>3, <1>5, <2>1, <2>2
  <1> HIDE DEF Reading, it
  <1>9. QED
    BY <1>2, <1>7, <1>8

\* What is built of an address and one string.
Tags == <<Code[","], Code["s"]>>

LEMMA OneStringBuilt ==
    ASSUME NEW a, NEW t
    PROVE  BuildMessage(a, <<S(t)>>) = (WriteString(a) \o WriteString(Tags)) \o WriteString(t)
  <1> DEFINE v == S(t)
  <1>1. Is(v, "str") /\ v.str = t /\ ~Is(v, "blob") /\ ~Is(v, "int") /\ ~Is(v, "bool")
        /\ ~Is(v, "nil") /\ ~Is(v, "open") /\ ~Is(v, "close") /\ ~Is(v, "list")
    BY DEF S, Is
  <1>2. TypeTag(v) = Code["s"]
    BY <1>1 DEF TypeTag
  <1>3. /\ Code["s"] # Code["i"] /\ Code["s"] # Code["h"] /\ Code["s"] # Code["b"]
    BY CodeAssumption DEF IsInjective
  <1>4. Data(v) = WriteString(t)
    BY <1>1, <1>2, <1>3 DEF Data
  <1>5. Flat(v) = <<v>>
    BY <1>1 DEF Flat
  <1> HIDE DEF v
  <1>6. [k \in DOMAIN <<v>> |-> Flat(<<v>>[k])] = <<Flat(v)>>
    OBVIOUS
  <1>7. Args(<<v>>) = <<v>>
    BY <1>5, <1>6, FlattenedOne DEF Args
  <1>8. [k \in DOMAIN <<v>> |-> TypeTag(<<v>>[k])] = <<Code["s"]>>
    BY <1>2
  <1>9. [k \in DOMAIN <<v>> |-> Data(<<v>>[k])] = <<WriteString(t)>>
    BY <1>4
  <1>10. <<Code[","]>> \o <<Code["s"]>> = Tags
    <2> DEFINE x == Code[","]
               y == Code["s"]
    <2>1. x \in {x, y} /\ y \in {x, y}
      OBVIOUS
    <2> HIDE DEF x, y
    <2>2. <<x>> \in Seq({x, y}) /\ <<x, y>> = Append(<<x>>, y)
      BY <2>1, ShortLists
    <2>3. <<x>> \o <<y>> = Append(<<x>>, y)
      BY <2>1, <2>2, AppendIsConcat
    <2>4. QED
      BY <2>2, <2>3 DEF Tags, x, y
  <1>11. BuildMessage(a, <<v>>) =
             (WriteString(a) \o WriteString(<<Code[","]>> \o <<Code["s"]>>))
             \o FlattenSeq(<<WriteString(t)>>)
    BY <1>7, <1>8, <1>9 DEF BuildMessage
  <1>12. QED
    BY <1>10, <1>11, FlattenedOne DEF v

\* The bytes of an OSC string.
LEMMA StringWritten ==
    ASSUME NEW s \in Text
    PROVE  /\ WriteString(s) \in Datagram /\ Len(WriteString(s)) = 4 * (Len(s) \div 4 + 1)
           /\ Len(s) \in Nat /\ Len(WriteString(s)) \in Nat
           /\ s # << >> => WriteString(s)[1] = Head(s)
  <1> DEFINE n == Len(s)
             zeros == Nul(4 - (n % 4))
  <1>1. n \in Nat /\ DOMAIN s = 1..n /\ s \in Seq(Byte)
    BY LenProperties, ElementOfSeq, SeqDef DEF Text
  <1>2. 4 - (n % 4) \in Nat /\ n + (4 - (n % 4)) = 4 * (n \div 4 + 1)
    BY <1>1
  <1>3. zeros \in Seq(Byte) /\ Len(zeros) = 4 - (n % 4)
    <2>1. 0 \in Byte
      BY BaseAssumption DEF Byte
    <2>2. QED
      BY <1>2, <2>1 DEF Nul
  <1>4. WriteString(s) = s \o zeros
    BY DEF WriteString
  <1> HIDE DEF zeros
  <1>5. /\ s \o zeros \in Seq(Byte) /\ Len(s \o zeros) = Len(s) + Len(zeros)
        /\ \A k \in 1..Len(s) + Len(zeros) :
               (s \o zeros)[k] = IF k <= Len(s) THEN s[k] ELSE zeros[k - Len(s)]
    BY <1>1, <1>3, ConcatProperties
  <1>6. s # << >> => 1 <= Len(s) /\ Head(s) = s[1]
    BY <1>1, EmptySeq
  <1>7. QED
    BY <1>1, <1>2, <1>3, <1>4, <1>5, <1>6 DEF Datagram

\* Where the parts of a list of three are.
MadeOf(all, u, v, w) ==
    /\ Len(all) = Len(u) + Len(v) + Len(w)
    /\ \A k \in 1..Len(u) : all[k] = u[k]
    /\ \A k \in 1..Len(v) : all[Len(u) + k] = v[k]
    /\ \A k \in 1..Len(w) : all[Len(u) + Len(v) + k] = w[k]

LEMMA ThreeParts ==
    ASSUME NEW u \in Datagram, NEW v \in Datagram, NEW w \in Datagram
    PROVE  MadeOf((u \o v) \o w, u, v, w)
  <1> DEFINE all == (u \o v) \o w
  <1>1. Len(u) \in Nat /\ Len(v) \in Nat /\ Len(w) \in Nat
    BY LenProperties DEF Datagram
  <1> DEFINE uv == u \o v
  <1>2. /\ uv \in Datagram /\ Len(uv) = Len(u) + Len(v)
        /\ \A k \in 1..Len(u) + Len(v) : uv[k] = IF k <= Len(u) THEN u[k] ELSE v[k - Len(u)]
    BY ConcatProperties DEF Datagram
  <1> HIDE DEF uv
  <1>3. /\ all \in Datagram /\ Len(all) = Len(uv) + Len(w)
        /\ \A k \in 1..Len(uv) + Len(w) : all[k] = IF k <= Len(uv) THEN uv[k] ELSE w[k - Len(uv)]
    BY <1>2, ConcatProperties DEF Datagram, uv
  <1> HIDE DEF all
  <1>4. \A k \in 1..Len(u) : all[k] = u[k]
    BY <1>1, <1>2, <1>3
  <1>5. ASSUME NEW k \in 1..Len(v) PROVE all[Len(u) + k] = v[k]
    BY <1>1, <1>2, <1>3
  <1>6. ASSUME NEW k \in 1..Len(w) PROVE all[Len(u) + Len(v) + k] = w[k]
    BY <1>1, <1>2, <1>3
  <1>7. QED
    BY <1>1, <1>2, <1>3, <1>4, <1>5, <1>6 DEF all, MadeOf

\* The type tags of one string, and their bytes.
LEMMA TagsWritten == Tags \in Text /\ Len(Tags) = 2 /\ Len(WriteString(Tags)) = 4
  <1>1. "," \in DOMAIN Code /\ "s" \in DOMAIN Code
    BY CodeAssumption
  <1>2. Code[","] \in 1..Base - 1 /\ Code["s"] \in 1..Base - 1
    BY <1>1, CodeAssumption
  <1>3. Code[","] \in Byte \ {0} /\ Code["s"] \in Byte \ {0}
    <2>1. \A x \in 1..Base - 1 : x \in Byte \ {0}
      BY BaseAssumption DEF Byte
    <2>2. QED
      BY <1>2, <2>1, Zenon
  <1>4. Tags \in Seq(Byte \ {0})
    BY <1>3, ShortLists DEF Tags
  <1>5. Len(Tags) = 2
    BY DEF Tags
  <1>6. Tags \in Text /\ 4 * (2 \div 4 + 1) = 4
    BY <1>4 DEF Text
  <1>7. Len(WriteString(Tags)) = 4 * (Len(Tags) \div 4 + 1)
    BY <1>6, StringWritten
  <1>8. QED
    BY <1>5, <1>6, <1>7

\* The same, of a datagram that is the beginning of a longer one.
LEMMA PartRead ==
    ASSUME NEW s \in Text, NEW d \in Datagram, NEW full, NEW off \in Nat, NEW n \in Nat,
           n = Len(WriteString(s)), \A k \in 1..Len(d) : d[k] = full[k],
           \A k \in 1..n : full[off + k] = WriteString(s)[k]
    PROVE  GetString(d, off + 1) = IF off + n <= Len(d) THEN Got(s, off + n + 1) ELSE Bad
  <1> DEFINE w == WriteString(s)
             i == off + 1
  <1>1. Len(d) \in Nat /\ Len(w) = n
    BY LenProperties DEF Datagram
  <1>2. \A k \in 1..n : full[off + k] = w[k]
    OBVIOUS
  <1>3. i \in Nat \ {0} /\ i + n - 1 = off + n /\ i + n = off + n + 1
    OBVIOUS
  <1> HIDE DEF w
  <1>4. ASSUME NEW k \in 1..Len(w), i + k - 1 <= Len(d) PROVE d[i + k - 1] = w[k]
    <2>1. i + k - 1 = off + k /\ k \in 1..n /\ off + k \in 1..Len(d)
      BY <1>1, <1>4
    <2>2. QED
      BY <1>2, <2>1
  <1> HIDE DEF i
  <1>5. GetString(d, i) = IF i + Len(w) - 1 <= Len(d) THEN Got(s, i + Len(w)) ELSE Bad
    BY <1>3, <1>4, StringRead DEF w
  <1>6. GetString(d, i) = IF off + n <= Len(d) THEN Got(s, off + n + 1) ELSE Bad
    BY <1>1, <1>3, <1>5
  <1>7. QED
    BY <1>6 DEF i

\* An address and a string are parsed to what they were, or to the address
\* alone where nothing more is left, or not at all.
LEMMA OneStringParsed ==
    ASSUME NEW a \in Text, NEW t \in Text, NEW full, full = BuildMessage(a, <<S(t)>>),
           NEW d \in Datagram, Len(d) <= Len(full), \A k \in 1..Len(d) : d[k] = full[k]
    PROVE  ParseMessage(d) = IF Len(d) = Len(full) THEN Got([address |-> a, args |-> <<S(t)>>], 0)
                             ELSE IF Len(d) = Len(WriteString(a))
                             THEN Got([address |-> a, args |-> << >>], 0)
                             ELSE Bad
  <1> DEFINE la == Len(WriteString(a))
             lt == Len(WriteString(Tags))
             lv == Len(WriteString(t))
             len == Len(d)
             first == [ok |-> TRUE, next |-> la + 5, open |-> << << >> >>]
  <1>1. Tags \in Text /\ lt = 4
    BY TagsWritten
  <1>2. /\ Len(full) = la + lt + lv
        /\ \A k \in 1..la : full[k] = WriteString(a)[k]
        /\ \A k \in 1..lt : full[la + k] = WriteString(Tags)[k]
        /\ \A k \in 1..lv : full[la + lt + k] = WriteString(t)[k]
    <2>1. full = (WriteString(a) \o WriteString(Tags)) \o WriteString(t)
      BY OneStringBuilt
    <2>2. /\ WriteString(a) \in Datagram /\ WriteString(t) \in Datagram
          /\ WriteString(Tags) \in Datagram
      BY <1>1, StringWritten
    <2>3. MadeOf(full, WriteString(a), WriteString(Tags), WriteString(t))
      BY <2>1, <2>2, ThreeParts
    <2>4. QED
      BY <2>3 DEF MadeOf
  <1>3. la \in Nat /\ lv \in Nat /\ lv # 0 /\ len \in Nat
    <2>1. len \in Nat
      BY LenProperties DEF Datagram
    <2>2. la \in Nat
      BY StringWritten
    <2>3. lv = 4 * (Len(t) \div 4 + 1) /\ Len(t) \in Nat
      BY StringWritten
    <2>4. QED
      BY <2>1, <2>2, <2>3
  <1>4. len <= Len(full) /\ \A k \in 1..len : d[k] = full[k]
    OBVIOUS
  <1> DEFINE Holds(s, o, n) == \A k \in 1..n : full[o + k] = WriteString(s)[k]
             Reading(s, o, n) ==
                 GetString(d, o + 1) = IF o + n <= len THEN Got(s, o + n + 1) ELSE Bad
  <1>reads. ASSUME NEW s \in Text, NEW o \in Nat, NEW n \in Nat, n = Len(WriteString(s)),
               Holds(s, o, n)
        PROVE  Reading(s, o, n)
    BY <1>4, <1>reads, PartRead
  <1> HIDE DEF la, lt, lv, len, Holds, Reading
  <1>5. GetString(d, 1) = IF la <= len THEN Got(a, la + 1) ELSE Bad
    <2> DEFINE off == 0
    <2>1. off \in Nat /\ off + 1 = 1 /\ off + la = la /\ Holds(a, off, la)
      BY <1>2, <1>3 DEF Holds
    <2> HIDE DEF off
    <2>2. Reading(a, off, la)
      BY <1>3, <1>reads, <2>1 DEF la
    <2>3. QED
      BY <2>1, <2>2 DEF Reading
  <1>6. GetString(d, la + 1) = IF la + 4 <= len THEN Got(Tags, la + 5) ELSE Bad
    <2>1. Reading(Tags, la, lt)
      <3>1. lt \in Nat /\ Holds(Tags, la, lt)
        BY <1>1, <1>2 DEF Holds
      <3>2. QED
        BY <1>1, <1>3, <1>reads, <3>1 DEF lt
    <2>2. la + lt = la + 4 /\ la + lt + 1 = la + 5
      BY <1>1, <1>3
    <2>3. QED
      BY <2>1, <2>2 DEF Reading
  <1>7. GetString(d, la + 5) = IF len = Len(full) THEN Got(t, Len(full) + 1) ELSE Bad
    <2> DEFINE off == la + lt
    <2>1. off \in Nat /\ off + 1 = la + 5 /\ off + lv = Len(full)
      BY <1>1, <1>2, <1>3
    <2>2. Holds(t, off, lv)
      BY <1>2 DEF Holds
    <2> HIDE DEF off
    <2>3. Reading(t, off, lv)
      BY <1>3, <1>reads, <2>1, <2>2 DEF lv
    <2>4. len = Len(full) <=> Len(full) <= len
      BY <1>3, <1>4, <2>1
    <2>5. QED
      BY <2>1, <2>3, <2>4 DEF Reading
  <1>8. ReadParam(d, first, Code["s"]) = IF len = Len(full)
            THEN [ok |-> TRUE, next |-> Len(full) + 1, open |-> << <<S(t)>> >>] ELSE Bad
    <2>1. \A c \in {"i", "h", "b", "T", "F", "N", "[", "]"} : Code["s"] # Code[c]
      BY CodeAssumption DEF IsInjective
    <2>2. ReadParam(d, first, Code["s"]) =
              LET got == GetString(d, la + 5)
              IN IF got.ok THEN Put([first EXCEPT !.next = got.next], S(got.val)) ELSE Bad
      BY <2>1 DEF ReadParam, Reads
    <2>3. CASE len = Len(full)
      <3>1. GetString(d, la + 5).ok /\ GetString(d, la + 5).next = Len(full) + 1
            /\ GetString(d, la + 5).val = t
        BY <1>7, <2>3 DEF Got
      <3>2. Put([first EXCEPT !.next = Len(full) + 1], S(t)) =
                [ok |-> TRUE, next |-> Len(full) + 1, open |-> << <<S(t)>> >>]
        <4> DEFINE one == << << >> >>
                   s == S(t)
        <4>1. Front(one) = << >> /\ Last(one) = << >>
          BY DEF Front, Last
        <4>2. Append(<< >>, s) = <<s>> /\ Append(<< >>, <<s>>) = << <<s>> >>
          OBVIOUS
        <4>3. first.open = one
          OBVIOUS
        <4> HIDE DEF one, s
        <4>4. Put([first EXCEPT !.next = Len(full) + 1], s) =
                  [first EXCEPT !.next = Len(full) + 1,
                                !.open = Append(Front(one), Append(Last(one), s))]
          BY <4>3 DEF Put
        <4>5. QED
          BY <4>1, <4>2, <4>4 DEF s
      <3>3. QED
        BY <2>2, <2>3, <3>1, <3>2
    <2>4. CASE len # Len(full)
      <3>1. ~GetString(d, la + 5).ok
        BY <1>7, <2>4 DEF Bad
      <3>2. QED
        BY <2>2, <2>4, <3>1
    <2>5. QED
      BY <2>3, <2>4
  <1> DEFINE address == GetString(d, 1)
             tags == GetString(d, address.next)
             start == [ok |-> TRUE, next |-> tags.next, open |-> << << >> >>]
             end == FoldLeft(LAMBDA st, tag : ReadParam(d, st, tag), start, Tail(tags.val))
  <1>9. ParseMessage(d) =
            IF ~address.ok THEN Bad
            ELSE IF address.next > len THEN Got([address |-> address.val, args |-> << >>], 0)
            ELSE IF ~tags.ok \/ tags.val = << >> THEN Bad
            ELSE IF Head(tags.val) # Code[","] THEN Bad
            ELSE IF ~end.ok THEN Bad
            ELSE IF Len(end.open) # 1 THEN Bad
            ELSE Got([address |-> address.val, args |-> Head(end.open)], 0)
    BY DEF ParseMessage, len
  <1>10. CASE len < la
    <2>1. ~address.ok
      BY <1>3, <1>5, <1>10 DEF Bad
    <2>2. len # Len(full) /\ len # la
      BY <1>1, <1>2, <1>3, <1>10
    <2> HIDE DEF address, tags, end
    <2>3. QED
      BY <1>9, <2>1, <2>2 DEF len, la
  <1>11. CASE len = la
    <2>1. address.ok /\ address.next = la + 1 /\ address.val = a
      BY <1>3, <1>5, <1>11 DEF Got
    <2>2. address.next > len /\ len # Len(full)
      BY <1>1, <1>2, <1>3, <1>11, <2>1
    <2> HIDE DEF address, tags, end
    <2>3. QED
      BY <1>9, <1>11, <2>1, <2>2 DEF len, la
  <1>12. CASE la < len /\ len < la + 4
    <2>1. address.ok /\ address.next = la + 1
      BY <1>3, <1>5, <1>12 DEF Got
    <2>2. ~tags.ok
      <3> HIDE DEF address
      <3>1. tags = Bad
        BY <1>3, <1>6, <1>12, <2>1
      <3>2. QED
        BY <3>1 DEF Bad
    <2>3. len # Len(full) /\ len # la /\ ~(address.next > len)
      BY <1>1, <1>2, <1>3, <1>12, <2>1
    <2> HIDE DEF address, tags, end
    <2>4. QED
      BY <1>9, <2>1, <2>2, <2>3 DEF len, la
  <1>13. CASE la + 4 <= len
    <2>1. address.ok /\ address.next = la + 1 /\ address.val = a
      BY <1>3, <1>5, <1>13 DEF Got
    <2> HIDE DEF address
    <2>2. tags.ok /\ tags.next = la + 5 /\ tags.val = Tags
      BY <1>3, <1>6, <1>13, <2>1 DEF Got
    <2>3. Tags # << >> /\ Head(Tags) = Code[","] /\ Tail(Tags) = <<Code["s"]>>
      BY DEF Tags
    <2>4. end = ReadParam(d, first, Code["s"])
      <3> HIDE DEF tags
      <3>1. start = first /\ Tail(tags.val) = <<Code["s"]>>
        BY <2>2, <2>3
      <3>2. end = FoldLeft(LAMBDA st, tag : ReadParam(d, st, tag), first, <<Code["s"]>>)
        BY <3>1
      <3> HIDE DEF first
      <3>3. QED
        BY <3>2, OneParam
    <2>5. ~(address.next > len) /\ len # la
      BY <1>3, <1>13, <2>1
    <2>6. CASE len = Len(full)
      <3> HIDE DEF tags, end, first
      <3>1. end = [ok |-> TRUE, next |-> Len(full) + 1, open |-> << <<S(t)>> >>]
        BY <1>8, <2>4, <2>6
      <3>2. end.ok /\ end.open = << <<S(t)>> >>
        BY <3>1
      <3>3. Len(end.open) = 1 /\ Head(end.open) = <<S(t)>>
        BY <3>2
      <3>4. QED
        BY <1>9, <2>1, <2>2, <2>3, <2>5, <2>6, <3>2, <3>3 DEF len
    <2>7. CASE len # Len(full)
      <3> HIDE DEF tags, end, first
      <3>1. ~end.ok
        BY <1>8, <2>4, <2>7 DEF Bad
      <3>2. QED
        BY <1>9, <2>1, <2>2, <2>3, <2>5, <2>7, <3>1 DEF len, la
    <2>8. QED
      BY <2>6, <2>7
  <1>14. QED
    BY <1>3, <1>4, <1>10, <1>11, <1>12, <1>13

----------------------------------------------------------------------------
(* What this program sends.  With it the hypotheses above hold. *)

\* What a client of this program sends: an address and one string, of any
\* length, to be handled at once.
OneString(p) ==
    \E a, t \in Text :
        /\ a # << >> /\ Head(a) = Slash
        /\ p.dgram = BuildMessage(a, <<S(t)>>)
        /\ p.says = <<[at |-> 1, due |-> Immediately,
                       msg |-> [address |-> a, args |-> <<S(t)>>]]>>

\* Such a message begins with its address and goes on after it.
LEMMA OneStringBegins ==
    ASSUME NEW a \in Text, a # << >>, NEW t \in Text, NEW full, full = BuildMessage(a, <<S(t)>>)
    PROVE  full[1] = Head(a) /\ Len(WriteString(a)) < Len(full) /\ Len(WriteString(a)) \in Nat
  <1> DEFINE la == Len(WriteString(a))
             lv == Len(WriteString(t))
  <1>1. MadeOf(full, WriteString(a), WriteString(Tags), WriteString(t))
    <2>1. full = (WriteString(a) \o WriteString(Tags)) \o WriteString(t)
      BY OneStringBuilt
    <2>2. /\ WriteString(a) \in Datagram /\ WriteString(t) \in Datagram
          /\ WriteString(Tags) \in Datagram
      BY TagsWritten, StringWritten
    <2>3. QED
      BY <2>1, <2>2, ThreeParts
  <1>2. la \in Nat /\ la = 4 * (Len(a) \div 4 + 1) /\ Len(a) \in Nat /\ WriteString(a)[1] = Head(a)
    BY StringWritten
  <1>3. lv \in Nat
    BY StringWritten
  <1> HIDE DEF la, lv
  <1>4. 1 \in 1..la
    BY <1>2
  <1>5. full[1] = WriteString(a)[1] /\ Len(full) = la + 4 + lv
    BY <1>1, <1>4, TagsWritten DEF MadeOf, la, lv
  <1>6. QED
    BY <1>2, <1>3, <1>5 DEF la

\* The first MaxPacket bytes of a datagram.
LEMMA ReceivedPart ==
    ASSUME NEW p, p.dgram \in Datagram
    PROVE  /\ Received(p) \in Datagram /\ Len(p.dgram) \in Nat
           /\ Len(Received(p)) = IF Len(p.dgram) < MaxPacket THEN Len(p.dgram) ELSE MaxPacket
           /\ \A k \in 1..Len(Received(p)) : Received(p)[k] = p.dgram[k]
  <1> DEFINE s == p.dgram
             n == IF Len(s) < MaxPacket THEN Len(s) ELSE MaxPacket
  <1>1. s \in Seq(Byte) /\ Len(s) \in Nat
    BY LenProperties DEF Datagram
  <1>2. n \in Nat /\ n <= Len(s) /\ n \in Int /\ n = 1 + n - 1
    BY <1>1, SizeAssumption
  <1>3. Received(p) = SubSeq(s, 1, n)
    BY DEF Received
  <1> HIDE DEF s, n
  <1>4. /\ SubSeq(s, 1, n) \in Seq(Byte) /\ Len(SubSeq(s, 1, n)) = n
        /\ \A k \in 1..n : SubSeq(s, 1, n)[k] = s[1 + k - 1]
    BY <1>1, <1>2, Part, SMTT(30)
  <1>5. \A k \in 1..n : 1 + k - 1 = k
    BY <1>2
  <1>6. QED
    BY <1>1, <1>3, <1>4, <1>5 DEF Datagram, s, n

\* It is no bundle.
LEMMA NotABundle ==
    ASSUME NEW d \in Datagram, d # << >>, Head(d) = Slash
    PROVE  IsMessage(d) /\ ~IsBundle(d)
  <1>1. Code["#"] # Code["/"] /\ Code["#"] \in 1..Base - 1
    <2>1. {"#", "/"} \subseteq DOMAIN Code
      BY CodeAssumption
    <2>2. QED
      BY <2>1, CodeAssumption DEF IsInjective
  <1>2. Code["#"] \in Byte \ {0}
    BY <1>1, BaseAssumption DEF Byte
  <1>3. <<Code["#"]>> \in Text /\ <<Code["#"]>> # << >> /\ Head(<<Code["#"]>>) = Code["#"]
    BY <1>2, ShortLists DEF Text
  <1>4. /\ BundlePrefix \in Datagram /\ BundlePrefix[1] = Code["#"]
        /\ Len(BundlePrefix) = 4 * (Len(<<Code["#"]>>) \div 4 + 1)
    BY <1>3, StringWritten DEF BundlePrefix
  <1>5. Len(<<Code["#"]>>) = 1
    OBVIOUS
  <1>6. Len(BundlePrefix) = 4
    BY <1>4, <1>5
  <1>7. Len(d) \in Nat /\ Len(d) # 0 /\ d[1] = Code["/"]
    BY LenProperties, EmptySeq DEF Datagram, Slash
  <1>8. ASSUME IsPrefix(BundlePrefix, d) PROVE FALSE
    <2> DEFINE b == BundlePrefix
    <2>1. 4 <= Len(d) /\ SubSeq(b, 1, 4) = SubSeq(d, 1, 4)
      BY <1>6, <1>8 DEF IsPrefix
    <2> HIDE DEF b
    <2>2. b \in Seq(Byte) /\ d \in Seq(Byte) /\ Len(b) = 4
      BY <1>4, <1>6 DEF b, Datagram
    <2>3. \A k \in 1..4 : SubSeq(b, 1, 4)[k] = b[1 + k - 1]
      BY <2>2, Part, SMTT(30)
    <2>4. \A k \in 1..4 : SubSeq(d, 1, 4)[k] = d[1 + k - 1]
      BY <2>1, <2>2, Part, SMTT(30)
    <2>5. b[1] = d[1]
      BY <2>1, <2>3, <2>4
    <2>6. QED
      BY <1>1, <1>4, <1>7, <2>5 DEF b
  <1>9. QED
    BY <1>8 DEF IsMessage, IsBundle, Slash

\* A message of one string is read as it was built, unless it is cut; and as
\* what was heard of it, if it is cut and read.
LEMMA OneStringReadAsHeard ==
    ASSUME NEW p \in Packet, OneString(p)
    PROVE  ReadAsHeard(p) /\ (Whole(p) => Content[p].ok)
  <1>1. PICK a \in Text, t \in Text :
            /\ a # << >> /\ Head(a) = Slash
            /\ p.dgram = BuildMessage(a, <<S(t)>>)
            /\ p.says = <<[at |-> 1, due |-> Immediately,
                           msg |-> [address |-> a, args |-> <<S(t)>>]]>>
    BY DEF OneString
  <1> DEFINE full == p.dgram
             d == Received(p)
             la == Len(WriteString(a))
             m == [address |-> a, args |-> <<S(t)>>]
             bare == [address |-> a, args |-> << >>]
             Message(x) == Timed(<<[due |-> Immediately, msg |-> x]>>)
  <1>2. full[1] = Slash /\ la < Len(full) /\ la \in Nat
    BY <1>1, OneStringBegins
  <1>3. /\ d \in Datagram /\ Len(full) \in Nat
        /\ Len(d) = IF Len(full) < MaxPacket THEN Len(full) ELSE MaxPacket
        /\ \A k \in 1..Len(d) : d[k] = full[k]
    BY PacketAssumption, ReceivedPart
  <1>4. Content[p] = ReadPacket(d)
    BY DEF Content
  <1>5. Heard(p) = <<[due |-> Immediately, msg |-> IF la = MaxPacket THEN bare ELSE m]>>
    <2>1. 1 <= MaxPacket /\ (1 + la - 1 = MaxPacket <=> la = MaxPacket)
      BY <1>2, SizeAssumption
    <2> DEFINE w == [at |-> 1, due |-> Immediately, msg |-> m]
    <2>2. p.says = <<w>>
      BY <1>1
    <2>3. {j \in DOMAIN p.says : p.says[j].at <= MaxPacket} = {1}
      BY <2>1, <2>2
    <2>4. w.msg.address = a
      OBVIOUS
    <2>5. Heard(p) = [k \in {1} |-> [due |-> Immediately,
                                    msg |-> IF la = MaxPacket THEN bare ELSE m]]
      BY <2>1, <2>2, <2>3, <2>4 DEF Heard
    <2>6. QED
      BY <2>5
  <1> HIDE DEF d, la
  <1>6. /\ Len(d) <= Len(full) /\ 1 \in 1..Len(d)
        /\ Len(d) = Len(full) <=> Len(full) <= MaxPacket
        /\ Len(d) = Len(full) => la # MaxPacket
        /\ Len(d) # Len(full) /\ Len(d) = la => la = MaxPacket
    BY <1>2, <1>3, SizeAssumption
  <1>7. ParseMessage(d) = IF Len(d) = Len(full) THEN Got(m, 0)
                          ELSE IF Len(d) = la THEN Got(bare, 0) ELSE Bad
    BY <1>1, <1>3, <1>6, OneStringParsed DEF la
  <1>8. IsMessage(d) /\ ~IsBundle(d)
    <2>1. d # << >> /\ Head(d) = d[1]
      BY <1>3, <1>6 DEF Datagram
    <2>2. QED
      BY <1>2, <1>3, <1>6, <2>1, NotABundle
  <1> HIDE DEF full, m, bare
  <1>9. Content[p] = IF Len(d) = Len(full) THEN Message(m)
                     ELSE IF Len(d) = la THEN Message(bare) ELSE Bad
    <2>1. ASSUME NEW x, ParseMessage(d) = Got(x, 0) PROVE ReadPacket(d) = Message(x)
      BY <1>8, <2>1 DEF ReadPacket, Got
    <2>2. ASSUME ParseMessage(d) = Bad PROVE ReadPacket(d) = Bad
      BY <1>8, <2>2 DEF ReadPacket, Bad
    <2> HIDE DEF Message
    <2>3. CASE Len(d) = Len(full)
      BY <1>4, <1>7, <2>1, <2>3
    <2>4. CASE Len(d) # Len(full) /\ Len(d) = la
      BY <1>4, <1>7, <2>1, <2>4
    <2>5. CASE Len(d) # Len(full) /\ Len(d) # la
      BY <1>4, <1>7, <2>2, <2>5
    <2>6. QED
      BY <2>3, <2>4, <2>5
  <1>10. CASE Len(d) = Len(full)
    BY <1>5, <1>6, <1>9, <1>10 DEF Timed, ReadAsHeard
  <1>11. CASE Len(d) # Len(full) /\ Len(d) = la
    BY <1>5, <1>6, <1>9, <1>11 DEF Timed, ReadAsHeard, Whole, full
  <1>12. CASE Len(d) # Len(full) /\ Len(d) # la
    BY <1>6, <1>9, <1>12 DEF Bad, ReadAsHeard, Whole, full
  <1>13. QED
    BY <1>10, <1>11, <1>12

\* A thread has parsed nothing but what a client sent.
SentInv ==
    /\ DOMAIN packet = Thread /\ DOMAIN parsed = Thread
    /\ \A t \in Thread : parsed[t] # 0 => packet[t] \in Packet

LEMMA SentInvInductive == TypeInv /\ TurnInv /\ SentInv /\ [Next]_vars => SentInv'
  <1> SUFFICES ASSUME TypeInv, TurnInv, SentInv, [Next]_vars PROVE SentInv'
    OBVIOUS
  <1>1. ASSUME NEW t \in Thread, NEW p \in Packet, Receive(t, p) PROVE SentInv'
    BY <1>1 DEF Receive, SentInv
  <1>2. ASSUME NEW t \in Thread, Parse(t) PROVE SentInv'
    <2>1. packet[t] \in Packet
      BY <1>2 DEF Parse, TurnInv, InTurn
    <2>2. packet' = packet /\ parsed' = [parsed EXCEPT ![t] = clock]
      BY <1>2 DEF Parse
    <2>3. QED
      BY <2>1, <2>2 DEF SentInv
  <1>3. CASE UNCHANGED <<packet, parsed>>
    BY <1>3 DEF SentInv
  <1>4. ASSUME NEW t \in Thread, Take(t) \/ Wake(t) \/ Call(t) \/ CallsDone(t)
        PROVE  UNCHANGED <<packet, parsed>>
    BY <1>4 DEF Take, Wake, Call, CallsDone, history
  <1>5. ASSUME NEW a \in Address, NEW h \in Handler, Map(a, h) \/ Unmap(a, h)
        PROVE  UNCHANGED <<packet, parsed>>
    BY <1>5 DEF Map, Unmap, history
  <1>6. ASSUME NEW h \in Handler, SetDefaultHandler(h) PROVE UNCHANGED <<packet, parsed>>
    BY <1>6 DEF SetDefaultHandler, history
  <1>7. CASE Serve \/ Tick \/ UNCHANGED vars
    BY <1>7 DEF Serve, Tick, vars, history, SentInv
  <1>8. QED
    BY <1>1, <1>2, <1>3, <1>4, <1>5, <1>6, <1>7 DEF Next, Handle

\* The messages of this program, an address and a string of any length, reach
\* the handlers with that address and that string, or, where max_packet_size
\* cuts them, not at all or as the address alone; whatever the bytes.
THEOREM StringsNotMisread ==
    ASSUME \A p \in Packet : OneString(p)
    PROVE  Spec => []NothingMisread
  <1>1. \A p \in Packet : ReadAsHeard(p)
    BY OneStringReadAsHeard
  <1>2. ASSUME TurnInv, SentInv PROVE NothingMisread
    <2> SUFFICES ASSUME NEW t \in Thread
                 PROVE  /\ parsed[t] # 0 => ReadAsHeard(packet[t])
                        /\ \A k \in DOMAIN calls[t] :
                               \E j \in DOMAIN Heard(packet[t]) :
                                   Heard(packet[t])[j].msg = calls[t][k].msg
      BY DEF NothingMisread
    <2>1. parsed[t] # 0 => ReadAsHeard(packet[t])
      BY <1>1, <1>2 DEF SentInv
    <2>2. ASSUME NEW k \in DOMAIN calls[t]
          PROVE  \E j \in DOMAIN Heard(packet[t]) : Heard(packet[t])[j].msg = calls[t][k].msg
      <3> DEFINE said == {m.msg : m \in Range(Heard(packet[t]))}
                 cs == calls[t]
      <3>1. cs \in Seq([handler : Handler, msg : said, at : Int])
        BY <1>2 DEF TurnInv, InTurn
      <3> HIDE DEF said
      <3>2. cs[k] \in [handler : Handler, msg : said, at : Int]
        BY <3>1, ElementOfSeq, LenProperties
      <3>3. cs[k].msg \in said
        BY <3>2
      <3>4. QED
        BY <3>3 DEF said, Range
    <2>3. QED
      BY <2>1, <2>2
  <1>3. Init => TypeInv /\ TurnInv /\ SentInv
    BY TypeInvOfInit, TurnInvOfInit DEF Init, SentInv
  <1>4. (TypeInv /\ TurnInv /\ SentInv) /\ [Next]_vars => (TypeInv /\ TurnInv /\ SentInv)'
    BY <1>1, TypeInvInductive, TurnInvInductive, SentInvInductive
  <1>5. QED
    BY <1>2, <1>3, <1>4, PTL DEF Spec

\* And so this program's messages are handled in turn, none early, and whole
\* or not at all.
THEOREM StringsHandled ==
    ASSUME \A p \in Packet : OneString(p)
    PROVE  Spec => [](CalledInTurn /\ NotBeforeDue /\ AllOrNothing)
  <1>1. \A p \in Packet : ReadAsHeard(p) /\ (Whole(p) => Content[p].ok)
    BY OneStringReadAsHeard
  <1>2. \A p \in Packet : ReadAsHeard(p)
    BY <1>1
  <1>3. Spec => []CalledInTurn
    BY <1>2, MessagesHandledInTurn
  <1>4. Spec => []NotBeforeDue
    BY <1>2, NothingHandledEarly
  <1>5. Spec => []AllOrNothing
    BY <1>1, HandledWholeOrNot
  <1>6. QED
    BY <1>3, <1>4, <1>5, PTL
=============================================================================
