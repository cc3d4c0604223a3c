--------------------------- MODULE SequenceCounts ---------------------------
(***************************************************************************)
(* How many entries of a sequence are of a kind, and what the operations   *)
(* of a queue do to that number.  The queues of the models pass items on   *)
(* from one to the next; that none is lost or made is shown by counting.   *)
(* A kind is the set of the values that are of it.  At the end, which      *)
(* entry of a sequence is ahead of which.                                  *)
(***************************************************************************)
EXTENDS Integers, Sequences, FiniteSets, SequenceTheorems, FiniteSetTheorems,
        TLAPS

Hits(s, kind) == {i \in 1 .. Len(s) : s[i] \in kind}

Count(s, kind) == Cardinality(Hits(s, kind))

Indicator(fact) == IF fact THEN 1 ELSE 0

-----------------------------------------------------------------------------
LEMMA UpTo ==
    ASSUME NEW n \in Nat PROVE IsFiniteSet(1 .. n) /\ Cardinality(1 .. n) = n
BY FS_Interval

LEMMA DisjointUnion ==
    ASSUME NEW S, NEW T, IsFiniteSet(S), IsFiniteSet(T), S \intersect T = {}
    PROVE  /\ IsFiniteSet(S \union T)
           /\ Cardinality(S \union T) = Cardinality(S) + Cardinality(T)
<1>1. /\ IsFiniteSet(S \union T)
      /\ Cardinality(S \union T)
             = Cardinality(S) + Cardinality(T) - Cardinality(S \intersect T)
  BY FS_Union
<1>2. Cardinality(S) \in Nat /\ Cardinality(T) \in Nat
  BY FS_CardinalityType
<1>3. Cardinality(S \intersect T) = 0
  BY FS_EmptySet
<1> QED BY <1>1, <1>2, <1>3

(* The count is a number, and at most the length.                          *)
LEMMA CountType ==
    ASSUME NEW S, NEW s \in Seq(S), NEW kind
    PROVE  /\ IsFiniteSet(Hits(s, kind))
           /\ Count(s, kind) \in Nat /\ Count(s, kind) <= Len(s)
<1>1. Len(s) \in Nat
  OBVIOUS
<1>2. IsFiniteSet(1 .. Len(s)) /\ Cardinality(1 .. Len(s)) = Len(s)
  BY <1>1, UpTo
<1>3. Hits(s, kind) \subseteq 1 .. Len(s)
  BY DEF Hits
<1>4. /\ IsFiniteSet(Hits(s, kind))
      /\ Cardinality(Hits(s, kind)) <= Cardinality(1 .. Len(s))
  BY <1>2, <1>3, FS_Subset
<1> QED BY <1>2, <1>4, FS_CardinalityType DEF Count

(* Entries that correspond are counted alike.                              *)
LEMMA CountAlike ==
    ASSUME NEW s, NEW t, NEW kind, NEW other, Len(t) = Len(s),
           \A i \in 1 .. Len(s) : t[i] \in other <=> s[i] \in kind
    PROVE  Count(t, other) = Count(s, kind)
BY DEF Count, Hits

(* All entries, or none.                                                   *)
LEMMA CountAll ==
    ASSUME NEW S, NEW s \in Seq(S), NEW kind, S \subseteq kind
    PROVE  Count(s, kind) = Len(s)
<1>1. Len(s) \in Nat /\ \A i \in 1 .. Len(s) : s[i] \in S
  BY ElementOfSeq
<1>2. Hits(s, kind) = 1 .. Len(s)
  BY <1>1 DEF Hits
<1> QED BY <1>1, <1>2, UpTo DEF Count

LEMMA CountNone ==
    ASSUME NEW S, NEW s \in Seq(S), NEW kind, S \intersect kind = {}
    PROVE  Count(s, kind) = 0
<1>1. \A i \in 1 .. Len(s) : s[i] \in S
  BY ElementOfSeq
<1>2. Hits(s, kind) = {}
  BY <1>1 DEF Hits
<1> QED BY <1>2, FS_EmptySet DEF Count

LEMMA CountEmpty ==
    ASSUME NEW kind PROVE Count(<<>>, kind) = 0
<1>1. Hits(<<>>, kind) = {}
  BY DEF Hits
<1> QED BY <1>1, FS_EmptySet DEF Count

LEMMA CountOne ==
    ASSUME NEW x, NEW kind PROVE Count(<<x>>, kind) = Indicator(x \in kind)
<1>1. Len(<<x>>) = 1 /\ <<x>>[1] = x
  OBVIOUS
<1>2. CASE x \in kind
  <2>1. Hits(<<x>>, kind) = {1}
    BY <1>1, <1>2 DEF Hits
  <2> QED BY <1>2, <2>1, FS_Singleton DEF Count, Indicator
<1>3. CASE x \notin kind
  <2>1. Hits(<<x>>, kind) = {}
    BY <1>1, <1>3 DEF Hits
  <2> QED BY <1>3, <2>1, FS_EmptySet DEF Count, Indicator
<1> QED BY <1>2, <1>3

(* The numbers of a set, each greater by n.                                *)
LEMMA ShiftedSet ==
    ASSUME NEW H \in SUBSET Nat, IsFiniteSet(H), NEW n \in Nat
    PROVE  /\ IsFiniteSet({i + n : i \in H})
           /\ Cardinality({i + n : i \in H}) = Cardinality(H)
<1> DEFINE T == {i + n : i \in H}
           f == [i \in H |-> i + n]
<1>1. f \in Bijection(H, T)
  <2>1. f \in [H -> T] /\ \A t \in T : \E i \in H : f[i] = t
    OBVIOUS
  <2>2. \A i, j \in H : f[i] = f[j] => i = j
    OBVIOUS
  <2> HIDE DEF f, T
  <2> QED BY <2>1, <2>2 DEF Bijection, Injection, IsInjective, Surjection
<1> QED BY <1>1, FS_Bijection DEF ExistsBijection

(* Two sequences one after the other: the counts add up.                   *)
LEMMA CountConcat ==
    ASSUME NEW S, NEW s \in Seq(S), NEW t \in Seq(S), NEW kind
    PROVE  /\ s \o t \in Seq(S)
           /\ Count(s \o t, kind) = Count(s, kind) + Count(t, kind)
<1> DEFINE n == Len(s)
           H == Hits(s, kind)
           T == Hits(t, kind)
           shifted == {i + n : i \in T}
           u == s \o t
<1>1. /\ n \in Nat /\ Len(t) \in Nat /\ Len(u) = n + Len(t) /\ u \in Seq(S)
      /\ \A i \in 1 .. n + Len(t) : u[i] = IF i <= n THEN s[i] ELSE t[i - n]
  BY ConcatProperties
<1>2. IsFiniteSet(H) /\ IsFiniteSet(T) /\ T \in SUBSET Nat
  <2>1. T \in SUBSET Nat
    BY <1>1 DEF Hits
  <2> QED BY <2>1, CountType
<1>3. IsFiniteSet(shifted) /\ Cardinality(shifted) = Cardinality(T)
  BY <1>1, <1>2, ShiftedSet
<1> HIDE DEF u
<1>4. Hits(u, kind) = H \union shifted
  <2>1. ASSUME NEW i \in Hits(u, kind) PROVE i \in H \union shifted
    <3>1. i \in 1 .. n + Len(t) /\ u[i] \in kind
      BY <1>1 DEF Hits
    <3>2. CASE i <= n
      BY <1>1, <3>1, <3>2 DEF Hits
    <3>3. CASE ~(i <= n)
      <4>1. i - n \in 1 .. Len(t) /\ i = (i - n) + n /\ t[i - n] \in kind
        BY <1>1, <3>1, <3>3
      <4> QED BY <4>1 DEF Hits
    <3> QED BY <3>2, <3>3
  <2>2. ASSUME NEW i \in H PROVE i \in Hits(u, kind)
    BY <1>1 DEF Hits
  <2>3. ASSUME NEW j \in T PROVE j + n \in Hits(u, kind)
    <3>1. j \in 1 .. Len(t) /\ t[j] \in kind
      BY DEF Hits
    <3>2. j + n \in 1 .. n + Len(t) /\ ~(j + n <= n) /\ (j + n) - n = j
      BY <1>1, <3>1
    <3> QED BY <1>1, <3>1, <3>2 DEF Hits
  <2> QED BY <2>1, <2>2, <2>3
<1>5. H \intersect shifted = {}
  BY <1>1 DEF Hits
<1>6. Cardinality(Hits(u, kind)) = Cardinality(H) + Cardinality(T)
  <2> HIDE DEF H, T, shifted
  <2>1. Cardinality(H \union shifted)
            = Cardinality(H) + Cardinality(shifted) - Cardinality(H \intersect shifted)
    BY <1>2, <1>3, FS_Union
  <2>2. Cardinality(H) \in Nat /\ Cardinality(T) \in Nat
    BY <1>2, FS_CardinalityType
  <2>3. Cardinality(H \intersect shifted) = 0
    BY <1>5, FS_EmptySet
  <2>4. Cardinality(H \union shifted) = Cardinality(H) + Cardinality(T)
    BY ONLY <1>3, <2>1, <2>2, <2>3
  <2> QED BY <1>4, <2>4
<1> QED BY <1>1, <1>6 DEF Count, u

LEMMA CountAppend ==
    ASSUME NEW S, NEW s \in Seq(S), NEW x \in S, NEW kind
    PROVE  /\ Append(s, x) \in Seq(S) /\ Len(Append(s, x)) = Len(s) + 1
           /\ Count(Append(s, x), kind) = Count(s, kind) + Indicator(x \in kind)
<1> DEFINE last == <<x>>
<1>1. last \in Seq(S) /\ Append(s, x) = s \o last
  BY AppendIsConcat
<1>2. Count(last, kind) = Indicator(x \in kind)
  BY CountOne
<1> HIDE DEF last
<1>3. Count(s \o last, kind) = Count(s, kind) + Count(last, kind)
  BY <1>1, CountConcat
<1>4. Append(s, x) \in Seq(S) /\ Len(Append(s, x)) = Len(s) + 1
  BY AppendProperties
<1> QED BY <1>1, <1>2, <1>3, <1>4

(* A sequence that is not empty is its head and its tail.                  *)
LEMMA HeadThenTail ==
    ASSUME NEW S, NEW s \in Seq(S), s # <<>>
    PROVE  /\ Head(s) \in S /\ Head(s) = s[1] /\ Tail(s) \in Seq(S)
           /\ Len(s) \in Nat /\ Len(s) > 0 /\ Len(Tail(s)) = Len(s) - 1
           /\ \A i \in 1 .. Len(s) - 1 : Tail(s)[i] = s[i + 1]
           /\ s = <<Head(s)>> \o Tail(s)
<1>1. /\ Head(s) \in S /\ Head(s) = s[1] /\ Tail(s) \in Seq(S)
      /\ Len(s) \in Nat /\ Len(s) > 0 /\ Len(Tail(s)) = Len(s) - 1
      /\ \A i \in 1 .. Len(s) - 1 : Tail(s)[i] = s[i + 1]
  BY HeadTailProperties
<1> DEFINE t == <<Head(s)>> \o Tail(s)
<1>2. /\ t \in Seq(S) /\ Len(t) = Len(s)
      /\ \A i \in 1 .. Len(s) :
             t[i] = IF i <= 1 THEN <<Head(s)>>[i] ELSE Tail(s)[i - 1]
  BY <1>1, ConcatProperties
<1>3. ASSUME NEW i \in 1 .. Len(s) PROVE s[i] = t[i]
  <2>1. CASE i = 1
    BY <1>1, <1>2, <2>1
  <2>2. CASE i # 1
    <3>1. i - 1 \in 1 .. Len(s) - 1 /\ ~(i <= 1) /\ (i - 1) + 1 = i
      BY <1>1, <2>2
    <3> QED BY <1>1, <1>2, <3>1
  <2> QED BY <2>1, <2>2
<1>4. s = t
  BY <1>2, <1>3, SeqEqual
<1> QED BY <1>1, <1>4

LEMMA CountHead ==
    ASSUME NEW S, NEW s \in Seq(S), s # <<>>, NEW kind
    PROVE  Count(s, kind) = Indicator(Head(s) \in kind) + Count(Tail(s), kind)
<1> DEFINE first == <<Head(s)>>
           rest == Tail(s)
<1>1. first \in Seq(S) /\ rest \in Seq(S) /\ s = first \o rest
  BY HeadThenTail
<1>2. Count(first, kind) = Indicator(Head(s) \in kind)
  BY CountOne
<1> HIDE DEF first, rest
<1>3. Count(first \o rest, kind) = Count(first, kind) + Count(rest, kind)
  BY <1>1, CountConcat
<1> QED BY <1>1, <1>2, <1>3 DEF rest

(* The first n entries and the rest.                                       *)
LEMMA CountSplit ==
    ASSUME NEW S, NEW s \in Seq(S), NEW n \in 0 .. Len(s), NEW kind
    PROVE  /\ SubSeq(s, 1, n) \in Seq(S) /\ Len(SubSeq(s, 1, n)) = n
           /\ \A i \in 1 .. n : SubSeq(s, 1, n)[i] = s[i]
           /\ SubSeq(s, n + 1, Len(s)) \in Seq(S)
           /\ Len(SubSeq(s, n + 1, Len(s))) = Len(s) - n
           /\ \A i \in 1 .. Len(s) - n : SubSeq(s, n + 1, Len(s))[i] = s[n + i]
           /\ Count(s, kind) = Count(SubSeq(s, 1, n), kind)
                                   + Count(SubSeq(s, n + 1, Len(s)), kind)
<1>1. Len(s) \in Nat /\ n \in Nat /\ n <= Len(s) /\ \A i \in 1 .. Len(s) : s[i] \in S
  BY ElementOfSeq
<1>2. /\ SubSeq(s, 1, n) \in Seq(S) /\ Len(SubSeq(s, 1, n)) = n
      /\ \A i \in 1 .. n : SubSeq(s, 1, n)[i] = s[i]
  BY <1>1, SubSeqProperties
<1>3. /\ SubSeq(s, n + 1, Len(s)) \in Seq(S)
      /\ Len(SubSeq(s, n + 1, Len(s))) = Len(s) - n
      /\ \A i \in 1 .. Len(s) - n : SubSeq(s, n + 1, Len(s))[i] = s[n + i]
  BY <1>1, SubSeqProperties
<1>4. SubSeq(s, 1, n) \o SubSeq(s, n + 1, Len(s)) = SubSeq(s, 1, Len(s))
  <2>1. /\ 1 \in 1 .. Len(s) + 1 /\ n \in 1 - 1 .. Len(s) /\ Len(s) \in n .. Len(s)
    BY <1>1
  <2> QED BY <2>1, ConcatAdjacentSubSeq
<1>5. SubSeq(s, 1, Len(s)) = s
  BY SubSeqFull
<1>6. Count(SubSeq(s, 1, n) \o SubSeq(s, n + 1, Len(s)), kind)
          = Count(SubSeq(s, 1, n), kind) + Count(SubSeq(s, n + 1, Len(s)), kind)
  <2> DEFINE first == SubSeq(s, 1, n)
             rest == SubSeq(s, n + 1, Len(s))
  <2>1. first \in Seq(S) /\ rest \in Seq(S)
    BY <1>2, <1>3
  <2> HIDE DEF first, rest
  <2>2. Count(first \o rest, kind) = Count(first, kind) + Count(rest, kind)
    BY <2>1, CountConcat
  <2> QED BY <2>2 DEF first, rest
<1>7. Count(s, kind) = Count(SubSeq(s, 1, n), kind)
                            + Count(SubSeq(s, n + 1, Len(s)), kind)
  BY ONLY <1>4, <1>5, <1>6
<1> QED BY ONLY <1>2, <1>3, <1>7

(* An entry is counted.                                                    *)
LEMMA CountPositive ==
    ASSUME NEW S, NEW s \in Seq(S), NEW kind, NEW i \in 1 .. Len(s), s[i] \in kind
    PROVE  Count(s, kind) >= 1
<1>1. IsFiniteSet(Hits(s, kind)) /\ Hits(s, kind) # {}
  BY CountType DEF Hits
<1> QED BY <1>1, FS_EmptySet, FS_CardinalityType DEF Count

(* And where something is counted, there is such an entry.                 *)
LEMMA CountWitness ==
    ASSUME NEW S, NEW s \in Seq(S), NEW kind, Count(s, kind) > 0
    PROVE  \E i \in 1 .. Len(s) : s[i] \in kind
<1>1. Hits(s, kind) # {}
  <2>1. Hits(s, kind) = {} => Count(s, kind) = 0
    BY FS_EmptySet DEF Count
  <2> QED BY <2>1
<1> QED BY <1>1 DEF Hits

(* A sequence that has nothing twice has as many elements as entries.      *)
LEMMA CountDistinct ==
    ASSUME NEW S, NEW s \in Seq(S), \A x \in S : Count(s, {x}) <= 1
    PROVE  /\ IsFiniteSet({s[i] : i \in 1 .. Len(s)})
           /\ Cardinality({s[i] : i \in 1 .. Len(s)}) = Len(s)
           /\ \A i, j \in 1 .. Len(s) : s[i] = s[j] => i = j
<1> DEFINE R == {s[i] : i \in 1 .. Len(s)}
<1>1. Len(s) \in Nat /\ s \in [1 .. Len(s) -> R] /\ \A i \in 1 .. Len(s) : s[i] \in S
  BY LenProperties, ElementOfSeq
<1>2. IsFiniteSet(1 .. Len(s)) /\ Cardinality(1 .. Len(s)) = Len(s)
  BY <1>1, UpTo
<1>3. ASSUME NEW i \in 1 .. Len(s), NEW j \in 1 .. Len(s), s[i] = s[j] PROVE i = j
  <2> SUFFICES ASSUME i # j PROVE FALSE
    OBVIOUS
  <2> DEFINE H == Hits(s, {s[i]})
  <2>1. {i, j} \subseteq H
    BY <1>3 DEF Hits
  <2>2. IsFiniteSet(H)
    BY CountType
  <2>3. Cardinality({i}) = 1 /\ IsFiniteSet({i}) /\ j \notin {i}
    BY FS_Singleton
  <2>4. Cardinality({i} \union {j}) = 1 + 1
    BY <2>3, FS_AddElement
  <2>5. {i} \union {j} \subseteq H
    BY <2>1
  <2>6. 1 + 1 <= Cardinality(H)
    BY <2>2, <2>4, <2>5, FS_Subset
  <2>7. Cardinality(H) <= 1 /\ Cardinality(H) \in Nat
    BY <1>1, <2>2, FS_CardinalityType DEF Count
  <2> QED BY <2>4, <2>6, <2>7
<1> HIDE DEF R
<1>4. s \in Bijection(1 .. Len(s), R)
  <2>1. s \in Injection(1 .. Len(s), R)
    BY <1>1, <1>3 DEF Injection, IsInjective
  <2>2. s \in Surjection(1 .. Len(s), R)
    BY <1>1 DEF Surjection, R
  <2> QED BY <2>1, <2>2 DEF Bijection
<1>5. IsFiniteSet(R) /\ Cardinality(R) = Len(s)
  BY <1>2, <1>4, FS_Bijection DEF ExistsBijection
<1> QED BY <1>3, <1>5 DEF R
(* Two kinds with nothing in common.                                       *)
LEMMA CountUnion ==
    ASSUME NEW S, NEW s \in Seq(S), NEW kind, NEW other, kind \intersect other = {}
    PROVE  Count(s, kind \union other) = Count(s, kind) + Count(s, other)
<1>1. /\ Hits(s, kind \union other) = Hits(s, kind) \union Hits(s, other)
      /\ Hits(s, kind) \intersect Hits(s, other) = {}
  BY DEF Hits
<1>2. IsFiniteSet(Hits(s, kind)) /\ IsFiniteSet(Hits(s, other))
  BY CountType
<1> QED BY <1>1, <1>2, DisjointUnion DEF Count

-----------------------------------------------------------------------------
(* Places: positions with the number of the queue they are in.             *)
Tagged(k, S) == {<<k, i>> : i \in S}

LEMMA TaggedCount ==
    ASSUME NEW k, NEW S, IsFiniteSet(S)
    PROVE  /\ IsFiniteSet(Tagged(k, S)) /\ Cardinality(Tagged(k, S)) = Cardinality(S)
           /\ \A x \in Tagged(k, S) : x[1] = k
<1> DEFINE T == Tagged(k, S)
           f == [i \in S |-> <<k, i>>]
<1>1. f \in [S -> T] /\ \A x \in T : \E i \in S : f[i] = x
  BY DEF Tagged
<1>2. \A i, j \in S : f[i] = f[j] => i = j
  OBVIOUS
<1>3. ExistsBijection(S, T)
  BY <1>1, <1>2 DEF ExistsBijection, Bijection, Injection, Surjection, IsInjective
<1> QED BY <1>3, FS_Bijection DEF Tagged

(* The places of one more queue.                                           *)
TagsBelow(A, n) == \A x \in A : x[1] \in 0 .. n - 1

LEMMA TaggedUnion ==
    ASSUME NEW A, IsFiniteSet(A), NEW k \in Nat, TagsBelow(A, k),
           NEW S, IsFiniteSet(S), NEW n, n = k + 1
    PROVE  /\ IsFiniteSet(A \union Tagged(k, S))
           /\ Cardinality(A \union Tagged(k, S)) = Cardinality(A) + Cardinality(S)
           /\ TagsBelow(A \union Tagged(k, S), n)
<1>1. /\ IsFiniteSet(Tagged(k, S)) /\ Cardinality(Tagged(k, S)) = Cardinality(S)
      /\ \A x \in Tagged(k, S) : x[1] = k
  BY TaggedCount
<1>2. A \intersect Tagged(k, S) = {}
  BY <1>1 DEF TagsBelow
<1>3. TagsBelow(A \union Tagged(k, S), n)
  BY <1>1 DEF TagsBelow
<1> QED BY <1>1, <1>2, <1>3, DisjointUnion

(* A place that is taken or not.                                           *)
LEMMA OneOrNone ==
    ASSUME NEW fact \in BOOLEAN, NEW x
    PROVE  /\ IsFiniteSet(IF fact THEN {x} ELSE {})
           /\ Cardinality(IF fact THEN {x} ELSE {}) = Indicator(fact)
<1>1. CASE fact
  BY <1>1, FS_Singleton DEF Indicator
<1>2. CASE ~fact
  BY <1>2, FS_EmptySet DEF Indicator
<1> QED BY <1>1, <1>2

-----------------------------------------------------------------------------
(* What a sequence has, and which of two entries is ahead of the other.    *)
Has(s, x) == \E i \in 1 .. Len(s) : s[i] = x

Ahead(s, x, y) == \E i, j \in 1 .. Len(s) : i < j /\ s[i] = x /\ s[j] = y

(* An empty sequence has nothing.                                          *)
LEMMA HasNone == \A x, y : ~Has(<<>>, x) /\ ~Ahead(<<>>, x, y)
BY DEF Has, Ahead

(* A sequence of one has that one.                                         *)
LEMMA HasOne ==
    ASSUME NEW z
    PROVE  \A x, y : (Has(<<z>>, x) <=> x = z) /\ ~Ahead(<<z>>, x, y)
<1>1. Len(<<z>>) = 1 /\ <<z>>[1] = z
  OBVIOUS
<1> DEFINE one == <<z>>
<1> HIDE DEF one
<1>2. \A i \in 1 .. Len(one) : i = 1
  BY <1>1 DEF one
<1>3. \A x, y : (Has(one, x) <=> x = z) /\ ~Ahead(one, x, y)
  BY <1>1, <1>2 DEF Has, Ahead, one
<1> QED BY <1>3 DEF one

(* In a concatenation, all of the first part is ahead of the second.       *)
LEMMA HasConcat ==
    ASSUME NEW S, NEW s \in Seq(S), NEW t \in Seq(S), NEW x, NEW y
    PROVE  /\ Has(s \o t, x) <=> Has(s, x) \/ Has(t, x)
           /\ Ahead(s \o t, x, y) <=>
                  Ahead(s, x, y) \/ Ahead(t, x, y) \/ (Has(s, x) /\ Has(t, y))
<1> DEFINE u == s \o t
           m == Len(s)
           n == Len(t)
<1>1. /\ m \in Nat /\ n \in Nat /\ Len(u) = m + n
      /\ \A i \in 1 .. m : u[i] = s[i]
      /\ \A i \in 1 .. n : u[m + i] = t[i]
  BY LenProperties, ConcatProperties
<1>2. ASSUME NEW i \in 1 .. Len(u) PROVE i \in 1 .. m \/ \E k \in 1 .. n : i = m + k
  <2>1. i \in 1 .. m \/ (i - m \in 1 .. n /\ i = m + (i - m))
    BY <1>1
  <2> QED BY <2>1
<1>3. /\ \A i \in 1 .. m : i \in 1 .. Len(u)
      /\ \A i \in 1 .. n : m + i \in 1 .. Len(u)
  BY <1>1
<1> HIDE DEF u, m, n
<1>4. Has(u, x) <=> Has(s, x) \/ Has(t, x)
  <2>1. ASSUME NEW i \in 1 .. Len(u), u[i] = x PROVE Has(s, x) \/ Has(t, x)
    <3>1. CASE i \in 1 .. m
      BY <1>1, <2>1, <3>1 DEF Has, m
    <3>2. ASSUME NEW k \in 1 .. n, i = m + k PROVE Has(t, x)
      BY <1>1, <2>1, <3>2 DEF Has, n
    <3> QED BY <1>2, <3>1, <3>2
  <2>2. ASSUME NEW i \in 1 .. m, s[i] = x PROVE Has(u, x)
    BY <1>1, <1>3, <2>2 DEF Has
  <2>3. ASSUME NEW i \in 1 .. n, t[i] = x PROVE Has(u, x)
    <3>1. u[m + i] = x /\ m + i \in 1 .. Len(u)
      BY <1>1, <1>3, <2>3
    <3> QED BY <3>1 DEF Has
  <2> QED BY <2>1, <2>2, <2>3 DEF Has, m, n
<1>5. ASSUME NEW i \in 1 .. Len(u), NEW j \in 1 .. Len(u), i < j, u[i] = x, u[j] = y
      PROVE  Ahead(s, x, y) \/ Ahead(t, x, y) \/ (Has(s, x) /\ Has(t, y))
  <2>1. CASE i \in 1 .. m /\ j \in 1 .. m
    BY <1>1, <1>5, <2>1 DEF Ahead, m
  <2>2. ASSUME NEW l \in 1 .. n, j = m + l, i \in 1 .. m
        PROVE  Has(s, x) /\ Has(t, y)
    BY <1>1, <1>5, <2>2 DEF Has, m, n
  <2>3. ASSUME NEW k \in 1 .. n, NEW l \in 1 .. n, i = m + k, j = m + l
        PROVE  Ahead(t, x, y)
    <3>1. t[k] = x /\ t[l] = y
      BY <1>1, <1>5, <2>3
    <3>2. k < l
      BY <1>1, <1>5, <2>3
    <3> QED BY <3>1, <3>2 DEF Ahead, n
  <2>4. ASSUME NEW k \in 1 .. n, i = m + k, j \in 1 .. m PROVE FALSE
    BY <1>1, <1>5, <2>4
  <2> QED BY <1>2, <2>1, <2>2, <2>3, <2>4
<1>6. ASSUME NEW i \in 1 .. m, NEW j \in 1 .. m, i < j, s[i] = x, s[j] = y PROVE Ahead(u, x, y)
  BY <1>1, <1>3, <1>6 DEF Ahead
<1>7. ASSUME NEW i \in 1 .. n, NEW j \in 1 .. n, i < j, t[i] = x, t[j] = y PROVE Ahead(u, x, y)
  <2>1. u[m + i] = x /\ u[m + j] = y
    BY <1>1, <1>7
  <2>3. m + i < m + j
    BY <1>1, <1>7
  <2>2. m + i \in 1 .. Len(u) /\ m + j \in 1 .. Len(u)
    BY <1>3
  <2> QED BY <2>1, <2>2, <2>3 DEF Ahead
<1>8. ASSUME NEW i \in 1 .. m, NEW j \in 1 .. n, s[i] = x, t[j] = y PROVE Ahead(u, x, y)
  <2>1. u[i] = x /\ u[m + j] = y /\ i < m + j
    BY <1>1, <1>8
  <2>2. i \in 1 .. Len(u) /\ m + j \in 1 .. Len(u)
    BY <1>3
  <2> QED BY <2>1, <2>2 DEF Ahead
<1>9. Ahead(u, x, y) <=> Ahead(s, x, y) \/ Ahead(t, x, y) \/ (Has(s, x) /\ Has(t, y))
  <2>1. Ahead(u, x, y) => Ahead(s, x, y) \/ Ahead(t, x, y) \/ (Has(s, x) /\ Has(t, y))
    BY <1>5 DEF Ahead
  <2>2. Ahead(s, x, y) => Ahead(u, x, y)
    BY <1>6 DEF Ahead, m
  <2>3. Ahead(t, x, y) => Ahead(u, x, y)
    BY <1>7 DEF Ahead, n
  <2>4. Has(s, x) /\ Has(t, y) => Ahead(u, x, y)
    BY <1>8 DEF Has, m, n
  <2> QED BY <2>1, <2>2, <2>3, <2>4
<1> QED BY <1>4, <1>9 DEF u

(* The head is ahead of the rest.                                          *)
LEMMA HasHead ==
    ASSUME NEW S, NEW s \in Seq(S), s # <<>>, NEW x, NEW y
    PROVE  /\ Has(s, Head(s))
           /\ Has(Tail(s), x) => Has(s, x) /\ Ahead(s, Head(s), x)
           /\ Ahead(Tail(s), x, y) => Ahead(s, x, y)
<1> DEFINE one == <<Head(s)>>
<1>1. /\ one \in Seq(S) /\ Tail(s) \in Seq(S) /\ s = one \o Tail(s)
  BY HeadThenTail
<1>2. \A z : Has(one, z) <=> z = Head(s)
  BY HasOne
<1> HIDE DEF one
<1>3. \A z, w : /\ Has(one \o Tail(s), z) <=> Has(one, z) \/ Has(Tail(s), z)
                /\ Ahead(one \o Tail(s), z, w) <=>
                       \/ Ahead(one, z, w) \/ Ahead(Tail(s), z, w)
                       \/ (Has(one, z) /\ Has(Tail(s), w))
  BY <1>1, HasConcat
<1> QED BY <1>1, <1>2, <1>3

(* What is appended is behind all the rest.                                *)
LEMMA HasAppend ==
    ASSUME NEW S, NEW s \in Seq(S), NEW z \in S, NEW x, NEW y
    PROVE  /\ Has(Append(s, z), x) <=> Has(s, x) \/ x = z
           /\ Ahead(Append(s, z), x, y) <=> Ahead(s, x, y) \/ (Has(s, x) /\ y = z)
<1> DEFINE one == <<z>>
<1>1. one \in Seq(S) /\ Append(s, z) = s \o one
  BY AppendIsConcat
<1>2. \A v, w : (Has(one, v) <=> v = z) /\ ~Ahead(one, v, w)
  BY HasOne
<1> HIDE DEF one
<1>3. /\ Has(s \o one, x) <=> Has(s, x) \/ Has(one, x)
      /\ Ahead(s \o one, x, y) <=>
             Ahead(s, x, y) \/ Ahead(one, x, y) \/ (Has(s, x) /\ Has(one, y))
  BY <1>1, HasConcat
<1> QED BY <1>1, <1>2, <1>3

(* Two parts of a sequence.                                                *)
LEMMA HasParts ==
    ASSUME NEW S, NEW s \in Seq(S), NEW n \in 0 .. Len(s)
    PROVE  /\ SubSeq(s, 1, n) \in Seq(S) /\ SubSeq(s, n + 1, Len(s)) \in Seq(S)
           /\ s = SubSeq(s, 1, n) \o SubSeq(s, n + 1, Len(s))
<1>1. SubSeq(s, 1, n) \in Seq(S) /\ SubSeq(s, n + 1, Len(s)) \in Seq(S)
  BY CountSplit
<1>2. /\ Len(s) \in Nat /\ 1 \in 1 .. Len(s) + 1 /\ n \in 1 - 1 .. Len(s)
      /\ Len(s) \in n .. Len(s)
  BY LenProperties
<1>3. s = SubSeq(s, 1, n) \o SubSeq(s, n + 1, Len(s))
  BY <1>2, ConcatAdjacentSubSeq, SubSeqFull
<1> QED BY <1>1, <1>3

(* What a sequence has when its first entry is taken.                      *)
LEMMA HasTail ==
    ASSUME NEW S, NEW s \in Seq(S), s # <<>>, NEW y, NEW z
    PROVE  /\ Head(s) \in S /\ Has(s, Head(s)) /\ Tail(s) \in Seq(S)
           /\ Has(s, y) <=> y = Head(s) \/ Has(Tail(s), y)
           /\ Has(Tail(s), y) => Ahead(s, Head(s), y)
           /\ Ahead(Tail(s), y, z) => Ahead(s, y, z)
<1>1. /\ Head(s) \in S /\ Tail(s) \in Seq(S) /\ s = <<Head(s)>> \o Tail(s)
  BY HeadThenTail
<1>2. /\ Has(s, Head(s))
      /\ Has(Tail(s), y) => Has(s, y) /\ Ahead(s, Head(s), y)
      /\ Ahead(Tail(s), y, z) => Ahead(s, y, z)
  BY HasHead
<1>3. PICK one, rest : one = <<Head(s)>> /\ rest = Tail(s)
  OBVIOUS
<1>4. one \in Seq(S) /\ rest \in Seq(S) /\ s = one \o rest
  BY ONLY <1>1, <1>3
<1>5. Has(one \o rest, y) <=> Has(one, y) \/ Has(rest, y)
  BY ONLY <1>4, HasConcat
<1>6. Has(one, y) <=> y = Head(s)
  BY ONLY <1>3, HasOne
<1>7. Has(s, y) <=> y = Head(s) \/ Has(Tail(s), y)
  BY ONLY <1>3, <1>4, <1>5, <1>6
<1> QED BY ONLY <1>1, <1>2, <1>7

(* What a sequence has without the one entry at k.                         *)
LEMMA HasWithout ==
    ASSUME NEW S, NEW s \in Seq(S), NEW k \in 1 .. Len(s), ~Ahead(s, s[k], s[k]), NEW g, NEW h
    PROVE  /\ SubSeq(s, 1, k - 1) \o SubSeq(s, k + 1, Len(s)) \in Seq(S)
           /\ Ahead(SubSeq(s, 1, k - 1) \o SubSeq(s, k + 1, Len(s)), g, h) => Ahead(s, g, h)
           /\ Has(SubSeq(s, 1, k - 1) \o SubSeq(s, k + 1, Len(s)), g) <=> Has(s, g) /\ g # s[k]
<1>p. PICK f, t : f = s[k] /\ t = SubSeq(s, 1, k - 1) \o SubSeq(s, k + 1, Len(s))
  OBVIOUS
<1> DEFINE n == Len(s)
           a == SubSeq(s, 1, k - 1)
           b == SubSeq(s, k + 1, n)
           c == SubSeq(s, k, n)
<1>0. t = a \o b /\ f = s[k] /\ ~Ahead(s, f, f)
  BY <1>p
<1>1. n \in Nat /\ DOMAIN s = 1 .. n
  OBVIOUS
<1>2. /\ a \in Seq(S) /\ c \in Seq(S) /\ s = a \o c
  <2>1. k - 1 \in 0 .. n /\ (k - 1) + 1 = k
    BY <1>1
  <2> QED BY ONLY s \in Seq(S), <2>1, HasParts
<1>3. c # <<>> /\ Head(c) = f /\ Tail(c) = b
  <2>1. Len(c) = n - k + 1 /\ c[1] = f
    BY <1>0, <1>1
  <2>2. Tail(c) = b
    BY <1>1
  <2>3. Len(c) # 0
    BY <1>1, <2>1
  <2>4. c # <<>>
    <3> HIDE DEF c
    <3>1. Len(<<>>) = 0
      OBVIOUS
    <3> QED BY ONLY <2>3, <3>1
  <2>5. Head(c) = c[1]
    BY ONLY <2>4, <1>2
  <2> QED BY <2>1, <2>2, <2>4, <2>5
<1> HIDE DEF a, b, c
<1>4. b \in Seq(S) /\ <<f>> \in Seq(S) /\ c = <<f>> \o b
  <2>1. Head(c) \in S /\ Tail(c) \in Seq(S) /\ c = <<Head(c)>> \o Tail(c)
    BY ONLY <1>2, <1>3, HeadThenTail
  <2>2. f \in S
    BY ONLY <1>3, <2>1
  <2>3. <<f>> \in Seq(S)
    BY ONLY <2>2
  <2>4. <<Head(c)>> = <<f>>
    BY ONLY <1>3
  <2> QED BY ONLY <1>3, <2>1, <2>3, <2>4
<1>5. t = a \o b /\ t \in Seq(S)
  <2>1. a \o b \in Seq(S)
    BY ONLY <1>2, <1>4
  <2> QED BY ONLY <1>0, <2>1
<1>6. /\ Has(s, g) <=> Has(a, g) \/ Has(c, g)
      /\ Ahead(s, g, h) <=> Ahead(a, g, h) \/ Ahead(c, g, h) \/ (Has(a, g) /\ Has(c, h))
      /\ Ahead(s, f, f) <=> Ahead(a, f, f) \/ Ahead(c, f, f) \/ (Has(a, f) /\ Has(c, f))
  <2>1. \A x, y : /\ Has(a \o c, x) <=> Has(a, x) \/ Has(c, x)
                  /\ Ahead(a \o c, x, y) <=> Ahead(a, x, y) \/ Ahead(c, x, y) \/ (Has(a, x) /\ Has(c, y))
    BY ONLY <1>2, HasConcat
  <2> QED BY ONLY <1>2, <2>1
<1>7. \A x, y : /\ Has(c, x) <=> x = f \/ Has(b, x)
                /\ Ahead(c, x, y) <=> Ahead(b, x, y) \/ (x = f /\ Has(b, y))
  <2>2. \A x, y : /\ Has(<<f>> \o b, x) <=> Has(<<f>>, x) \/ Has(b, x)
                  /\ Ahead(<<f>> \o b, x, y) <=> Ahead(<<f>>, x, y) \/ Ahead(b, x, y) \/ (Has(<<f>>, x) /\ Has(b, y))
    BY ONLY <1>4, HasConcat
  <2>4. \A x, y : (Has(<<f>>, x) <=> x = f) /\ ~Ahead(<<f>>, x, y)
    BY ONLY HasOne
  <2> QED BY ONLY <1>4, <2>2, <2>4
<1>8. \A x, y : /\ Has(a \o b, x) <=> Has(a, x) \/ Has(b, x)
                /\ Ahead(a \o b, x, y) <=> Ahead(a, x, y) \/ Ahead(b, x, y) \/ (Has(a, x) /\ Has(b, y))
  BY ONLY <1>2, <1>4, HasConcat
<1>9. /\ Has(t, g) <=> Has(a, g) \/ Has(b, g)
      /\ Ahead(t, g, h) <=> Ahead(a, g, h) \/ Ahead(b, g, h) \/ (Has(a, g) /\ Has(b, h))
  BY ONLY <1>5, <1>8
<1>10. ~Has(a, f) /\ ~Has(b, f)
  BY ONLY <1>0, <1>6, <1>7
<1> QED BY ONLY <1>p, <1>5, <1>6, <1>7, <1>9, <1>10

(* A sequence has values of its kind only.                                 *)
LEMMA HasOf ==
    ASSUME NEW S, NEW s \in Seq(S), NEW x, Has(s, x)
    PROVE  x \in S
BY ElementOfSeq DEF Has

(* A sequence has what is ahead in it, and what is behind.                 *)
LEMMA AheadHas == ASSUME NEW s, NEW x, NEW y, Ahead(s, x, y) PROVE Has(s, x) /\ Has(s, y)
BY DEF Ahead, Has

(* Of two different entries, the one that is not behind is ahead.          *)
LEMMA SameStage ==
    ASSUME NEW l, Len(l) \in Nat, NEW i \in 1 .. Len(l), NEW j \in 1 .. Len(l),
           l[i] # l[j], ~Ahead(l, l[j], l[i])
    PROVE  i < j
<1>1. ~(j < i)
  BY DEF Ahead
<1>2. i # j
  OBVIOUS
<1> QED BY <1>1, <1>2
=============================================================================
