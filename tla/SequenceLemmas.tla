--------------------------- MODULE SequenceLemmas ---------------------------
(***************************************************************************)
(* What the proofs keep needing about lists of tracks: the first of a set  *)
(* of positions, an insertion, a removal, the rest of a walk.              *)
(***************************************************************************)
EXTENDS Integers, SequencesExt, FiniteSetTheorems, SequenceTheorems, WellFoundedInduction, TLAPS

\* A set of positions that is not empty has a first one.
LEMMA FirstPosition ==
    ASSUME NEW S \in SUBSET Nat, S # {}
    PROVE  Min(S) \in S /\ \A y \in S : Min(S) <= y
  <1>1. PICK x \in S : \A y \in S : ~(<<y, x>> \in OpToRel(<, Nat))
    BY NatLessThanWellFounded, WFMin
  <1>2. \A y \in S : <<y, x>> \in OpToRel(<, Nat) <=> y < x
    BY DEF OpToRel
  <1>3. \A y \in S : x <= y
    <2> SUFFICES ASSUME NEW y \in S PROVE x <= y
      OBVIOUS
    <2>1. ~(y < x)
      BY <1>1, <1>2
    <2>2. x \in Nat /\ y \in Nat
      OBVIOUS
    <2>3. QED
      BY <2>1, <2>2
  <1>4. QED
    BY <1>3 DEF Min

\* A set of positions in a list that is not empty has a last one.
LEMMA LastPosition ==
    ASSUME NEW n \in Nat, NEW S \in SUBSET (1..n), S # {}
    PROVE  Max(S) \in S /\ \A y \in S : y <= Max(S)
  <1> DEFINE B == {m \in Nat : n - m \in S}
  <1>1. PICK y \in S : TRUE
    OBVIOUS
  <1>2. n - y \in B
    BY <1>1
  <1>3. Min(B) \in B /\ \A m \in B : Min(B) <= m
    BY <1>2, FirstPosition
  <1>4. n - Min(B) \in S /\ Min(B) \in Nat
    BY <1>3
  <1>5. ASSUME NEW z \in S PROVE z <= n - Min(B)
    <2>1. n - z \in B
      OBVIOUS
    <2>2. QED
      BY <1>3, <1>4, <2>1
  <1>6. QED
    BY <1>4, <1>5 DEF Max

\* The insertion of a track that is not in the list (song.create_track).
LEMMA Inserted ==
    ASSUME NEW S, NEW s \in Seq(S), NEW i \in 1..Len(s) + 1, NEW e \in S
    PROVE  /\ InsertAt(s, i, e) \in Seq(S)
           /\ Len(InsertAt(s, i, e)) = Len(s) + 1
           /\ \A k \in 1..Len(s) + 1 :
                  InsertAt(s, i, e)[k] = IF k < i THEN s[k] ELSE IF k = i THEN e ELSE s[k - 1]
  <1> DEFINE before == SubSeq(s, 1, i - 1)
             after == SubSeq(s, i, Len(s))
  <1>1. Len(s) \in Nat /\ \A k \in 1..Len(s) : s[k] \in S
    BY LenProperties, ElementOfSeq
  <1>2. /\ before \in Seq(S) /\ Len(before) = i - 1
        /\ \A k \in 1..i - 1 : before[k] = s[k]
    BY <1>1, SubSeqProperties
  <1>3. /\ after \in Seq(S) /\ Len(after) = Len(s) - i + 1
        /\ \A k \in 1..Len(s) - i + 1 : after[k] = s[i + k - 1]
    BY <1>1, SubSeqProperties
  <1> HIDE DEF before, after
  <1>4. <<e>> \in Seq(S) /\ Len(<<e>>) = 1 /\ <<e>>[1] = e
    OBVIOUS
  <1>5. /\ before \o <<e>> \in Seq(S) /\ Len(before \o <<e>>) = i
        /\ \A k \in 1..i : (before \o <<e>>)[k] = IF k < i THEN s[k] ELSE e
    BY <1>1, <1>2, <1>4, ConcatProperties
  <1>6. /\ before \o <<e>> \o after \in Seq(S)
        /\ Len(before \o <<e>> \o after) = Len(s) + 1
        /\ \A k \in 1..Len(s) + 1 :
              (before \o <<e>> \o after)[k] =
                  IF k <= i THEN (before \o <<e>>)[k] ELSE after[k - i]
    BY <1>1, <1>3, <1>5, ConcatProperties
  <1>7. InsertAt(s, i, e) = before \o <<e>> \o after
    BY DEF InsertAt, before, after
  <1>8. ASSUME NEW k \in 1..Len(s) + 1
        PROVE  InsertAt(s, i, e)[k] = IF k < i THEN s[k] ELSE IF k = i THEN e ELSE s[k - 1]
    <2>1. CASE k <= i
      BY <1>1, <1>5, <1>6, <1>7, <2>1
    <2>2. CASE k > i
      BY <1>1, <1>3, <1>6, <1>7, <2>2
    <2>3. QED
      BY <1>1, <2>1, <2>2
  <1>9. QED
    BY <1>6, <1>7, <1>8

\* The removal of a track (song.delete_track).
LEMMA Removed ==
    ASSUME NEW S, NEW s \in Seq(S), NEW i \in 1..Len(s)
    PROVE  /\ RemoveAt(s, i) \in Seq(S)
           /\ Len(RemoveAt(s, i)) = Len(s) - 1
           /\ \A k \in 1..Len(s) - 1 :
                  RemoveAt(s, i)[k] = IF k < i THEN s[k] ELSE s[k + 1]
  <1> DEFINE before == SubSeq(s, 1, i - 1)
             after == SubSeq(s, i + 1, Len(s))
  <1>1. Len(s) \in Nat /\ \A k \in 1..Len(s) : s[k] \in S
    BY LenProperties, ElementOfSeq
  <1>2. /\ before \in Seq(S) /\ Len(before) = i - 1
        /\ \A k \in 1..i - 1 : before[k] = s[k]
    BY <1>1, SubSeqProperties
  <1>3. /\ after \in Seq(S) /\ Len(after) = Len(s) - i
        /\ \A k \in 1..Len(s) - i : after[k] = s[i + k]
    BY <1>1, SubSeqProperties
  <1> HIDE DEF before, after
  <1>4. RemoveAt(s, i) = before \o after
    BY DEF RemoveAt, before, after
  <1>5. /\ before \o after \in Seq(S) /\ Len(before \o after) = Len(s) - 1
        /\ \A k \in 1..Len(s) - 1 :
              (before \o after)[k] = IF k <= i - 1 THEN before[k] ELSE after[k - (i - 1)]
    <2>1. Len(before) + Len(after) = Len(s) - 1
      BY <1>1, <1>2, <1>3
    <2>2. /\ before \o after \in Seq(S) /\ Len(before \o after) = Len(before) + Len(after)
          /\ \A k \in 1..Len(before) + Len(after) :
                (before \o after)[k] = IF k <= Len(before) THEN before[k] ELSE after[k - Len(before)]
      BY <1>2, <1>3, ConcatProperties
    <2>3. QED
      BY <1>2, <2>1, <2>2
  <1>6. QED
    BY <1>1, <1>2, <1>3, <1>4, <1>5

\* A list of different tracks stays one, and gains the new one only.
LEMMA InsertedOnce ==
    ASSUME NEW S, NEW s \in Seq(S), NEW i \in 1..Len(s) + 1, NEW e \in S,
           IsInjective(s), e \notin Range(s)
    PROVE  /\ IsInjective(InsertAt(s, i, e))
           /\ Range(InsertAt(s, i, e)) = Range(s) \cup {e}
  <1> DEFINE r == InsertAt(s, i, e)
  <1>1. Len(s) \in Nat /\ DOMAIN s = 1..Len(s) /\ \A k \in DOMAIN s : s[k] \in Range(s)
    BY LenProperties DEF Range
  <1>2. /\ r \in Seq(S) /\ Len(r) = Len(s) + 1
        /\ \A k \in 1..Len(s) + 1 : r[k] = IF k < i THEN s[k] ELSE IF k = i THEN e ELSE s[k - 1]
    BY Inserted
  <1>3. DOMAIN r = 1..Len(s) + 1
    BY <1>2, LenProperties
  <1> HIDE DEF r
  <1>4. \A k \in DOMAIN r : k # i => LET n == IF k < i THEN k ELSE k - 1
                                     IN n \in DOMAIN s /\ r[k] = s[n]
    BY <1>1, <1>2, <1>3
  <1>5. IsInjective(r)
    <2> SUFFICES ASSUME NEW a \in DOMAIN r, NEW b \in DOMAIN r, r[a] = r[b] PROVE a = b
      BY DEF IsInjective
    <2>1. CASE a = i \/ b = i
      BY <1>1, <1>2, <1>3, <1>4, <2>1
    <2>2. CASE a # i /\ b # i
      <3> DEFINE m == IF a < i THEN a ELSE a - 1
                 n == IF b < i THEN b ELSE b - 1
      <3>1. m = n
        BY <1>4, <2>2 DEF IsInjective
      <3>2. QED
        BY <1>1, <1>3, <2>2, <3>1
    <2>3. QED
      BY <2>1, <2>2
  <1>6. Range(r) = Range(s) \cup {e}
    <2>1. Range(r) \subseteq Range(s) \cup {e}
      BY <1>1, <1>2, <1>3, <1>4 DEF Range
    <2>2. e \in Range(r)
      BY <1>1, <1>2, <1>3 DEF Range
    <2>3. ASSUME NEW k \in DOMAIN s PROVE s[k] \in Range(r)
      <3>1. CASE k < i
        <4>1. k \in DOMAIN r /\ r[k] = s[k]
          BY <1>1, <1>2, <1>3, <3>1
        <4>2. QED
          BY <4>1 DEF Range
      <3>2. CASE ~(k < i)
        <4>1. k + 1 \in DOMAIN r /\ r[k + 1] = s[k]
          BY <1>1, <1>2, <1>3, <3>2
        <4>2. QED
          BY <4>1 DEF Range
      <3>3. QED
        BY <3>1, <3>2
    <2>4. QED
      BY <2>1, <2>2, <2>3 DEF Range
  <1>7. QED
    BY <1>5, <1>6 DEF r

\* A list of different tracks stays one, and loses the removed one only.
LEMMA RemovedOnce ==
    ASSUME NEW S, NEW s \in Seq(S), NEW i \in DOMAIN s, IsInjective(s)
    PROVE  /\ IsInjective(RemoveAt(s, i))
           /\ Range(RemoveAt(s, i)) = Range(s) \ {s[i]}
  <1> DEFINE r == RemoveAt(s, i)
  <1>1. Len(s) \in Nat /\ DOMAIN s = 1..Len(s)
    BY LenProperties
  <1>2. /\ r \in Seq(S) /\ Len(r) = Len(s) - 1
        /\ \A k \in 1..Len(s) - 1 : r[k] = IF k < i THEN s[k] ELSE s[k + 1]
    BY <1>1, Removed
  <1>3. DOMAIN r = 1..Len(s) - 1
    BY <1>2, LenProperties
  <1> HIDE DEF r
  <1>4. \A k \in DOMAIN r : LET n == IF k < i THEN k ELSE k + 1
                            IN n \in DOMAIN s /\ n # i /\ r[k] = s[n]
    BY <1>1, <1>2, <1>3
  <1>5. IsInjective(r)
    <2> SUFFICES ASSUME NEW a \in DOMAIN r, NEW b \in DOMAIN r, r[a] = r[b] PROVE a = b
      BY DEF IsInjective
    <2> DEFINE m == IF a < i THEN a ELSE a + 1
               n == IF b < i THEN b ELSE b + 1
    <2>1. m = n
      BY <1>4 DEF IsInjective
    <2>2. QED
      BY <1>1, <1>3, <2>1
  <1>6. Range(r) = Range(s) \ {s[i]}
    <2>1. ASSUME NEW k \in DOMAIN r PROVE r[k] \in Range(s) \ {s[i]}
      BY <1>4 DEF Range, IsInjective
    <2>2. ASSUME NEW k \in DOMAIN s, s[k] # s[i] PROVE s[k] \in Range(r)
      <3>1. CASE k < i
        <4>1. k \in DOMAIN r /\ r[k] = s[k]
          BY <1>1, <1>2, <1>3, <3>1
        <4>2. QED
          BY <4>1 DEF Range
      <3>2. CASE k > i
        <4>1. k - 1 \in DOMAIN r /\ r[k - 1] = s[k]
          BY <1>1, <1>2, <1>3, <3>2
        <4>2. QED
          BY <4>1 DEF Range
      <3>3. QED
        BY <1>1, <2>2, <3>1, <3>2
    <2>3. QED
      BY <2>1, <2>2 DEF Range
  <1>7. QED
    BY <1>5, <1>6 DEF r

\* What is left of a walk over different tracks when the first is done.
LEMMA RestOfWalk ==
    ASSUME NEW S, NEW s \in Seq(S), s # << >>, IsInjective(s)
    PROVE  /\ Tail(s) \in Seq(S)
           /\ Head(s) \in Range(s)
           /\ IsInjective(Tail(s))
           /\ Range(Tail(s)) = Range(s) \ {Head(s)}
  <1>1. Len(s) \in Nat \ {0} /\ DOMAIN s = 1..Len(s) /\ Head(s) = s[1]
    BY LenProperties, EmptySeq
  <1>2. /\ Tail(s) \in Seq(S) /\ Len(Tail(s)) = Len(s) - 1
        /\ \A k \in 1..Len(s) - 1 : Tail(s)[k] = s[k + 1]
    BY HeadTailProperties
  <1>3. DOMAIN Tail(s) = 1..Len(s) - 1
    BY <1>2, LenProperties
  <1>4. \A k \in DOMAIN Tail(s) : k + 1 \in DOMAIN s /\ k + 1 # 1 /\ Tail(s)[k] = s[k + 1]
    BY <1>1, <1>2, <1>3
  <1>5. IsInjective(Tail(s))
    <2> SUFFICES ASSUME NEW a \in DOMAIN Tail(s), NEW b \in DOMAIN Tail(s), Tail(s)[a] = Tail(s)[b]
                 PROVE  a = b
      BY DEF IsInjective
    <2>1. a + 1 = b + 1
      BY <1>4 DEF IsInjective
    <2>2. QED
      BY <1>1, <1>3, <2>1
  <1>6. \A k \in DOMAIN Tail(s) : Tail(s)[k] \in Range(s) \ {Head(s)}
    <2> SUFFICES ASSUME NEW k \in DOMAIN Tail(s) PROVE Tail(s)[k] \in Range(s) \ {Head(s)}
      OBVIOUS
    <2>1. 1 \in DOMAIN s /\ k + 1 \in DOMAIN s /\ k + 1 # 1
      BY <1>1, <1>4
    <2>2. QED
      BY <1>1, <1>4, <2>1 DEF Range, IsInjective
  <1>7. ASSUME NEW k \in DOMAIN s, s[k] # Head(s) PROVE s[k] \in Range(Tail(s))
    <2>1. k - 1 \in DOMAIN Tail(s) /\ Tail(s)[k - 1] = s[k]
      BY <1>1, <1>2, <1>3, <1>7
    <2>2. QED
      BY <2>1 DEF Range
  <1>8. Head(s) \in Range(s)
    BY <1>1 DEF Range
  <1>9. QED
    BY <1>2, <1>5, <1>6, <1>7, <1>8 DEF Range

\* What a walk is left with, whatever it walks over.
LEMMA HeadAndRest ==
    ASSUME NEW S, NEW s \in Seq(S), s # << >>
    PROVE  Range(s) = {Head(s)} \cup Range(Tail(s))
  <1>1. Len(s) \in Nat \ {0} /\ DOMAIN s = 1..Len(s) /\ Head(s) = s[1]
    BY LenProperties, EmptySeq
  <1>2. /\ Tail(s) \in Seq(S) /\ Len(Tail(s)) = Len(s) - 1
        /\ \A k \in 1..Len(s) - 1 : Tail(s)[k] = s[k + 1]
    BY HeadTailProperties
  <1>3. DOMAIN Tail(s) = 1..Len(s) - 1
    BY <1>2, LenProperties
  <1>4. ASSUME NEW k \in DOMAIN s PROVE s[k] \in {Head(s)} \cup Range(Tail(s))
    <2>1. CASE k = 1
      BY <1>1, <2>1
    <2>2. CASE k # 1
      <3>1. k - 1 \in DOMAIN Tail(s) /\ Tail(s)[k - 1] = s[k]
        BY <1>1, <1>2, <1>3, <2>2
      <3>2. QED
        BY <3>1 DEF Range
    <2>3. QED
      BY <2>1, <2>2
  <1>5. ASSUME NEW k \in DOMAIN Tail(s) PROVE Tail(s)[k] \in Range(s)
    <2>1. k + 1 \in DOMAIN s /\ Tail(s)[k] = s[k + 1]
      BY <1>1, <1>2, <1>3
    <2>2. QED
      BY <2>1 DEF Range
  <1>6. 1 \in DOMAIN s
    BY <1>1
  <1>7. QED
    BY <1>1, <1>4, <1>5, <1>6 DEF Range

\* A list of different tracks is no longer than there are tracks.
LEMMA ListLength ==
    ASSUME NEW S, IsFiniteSet(S), NEW s \in Seq(S), IsInjective(s)
    PROVE  DOMAIN s \subseteq 1..Cardinality(S)
  <1>1. Len(s) \in Nat /\ DOMAIN s = 1..Len(s) /\ s \in [1..Len(s) -> S]
    BY LenProperties
  <1>2. s \in Injection(1..Len(s), S)
    BY <1>1 DEF Injection
  <1>3. Cardinality(1..Len(s)) <= Cardinality(S)
    BY <1>2, FS_Injection
  <1>4. Cardinality(1..Len(s)) = Len(s)
    BY <1>1, FS_Interval
  <1>5. Cardinality(S) \in Nat
    BY FS_CardinalityType
  <1>6. QED
    BY <1>1, <1>3, <1>4, <1>5
=============================================================================
