----------------------------- MODULE ListLemmas -----------------------------
(***************************************************************************)
(* Facts about sequences without repetition, as the linked list of         *)
(* web_server.c, queues, prefixes, least elements, and sequences joined to *)
(* one, used by the proofs.                                                *)
(***************************************************************************)
EXTENDS SequencesExt, Integers, SequenceTheorems, WellFoundedInduction, TLAPS

\* A nonempty set of naturals has a least element, and Min returns it.
LEMMA MinOfNats ==
    ASSUME NEW S \in SUBSET Nat, S # {}
    PROVE  Min(S) \in S /\ \A y \in S : Min(S) <= y
<1>1. \E x \in S : \A y \in S : ~ (<<y, x>> \in OpToRel(<, Nat))
    BY NatLessThanWellFounded, WFMin
<1>2. PICK x \in S : \A y \in S : ~ (<<y, x>> \in OpToRel(<, Nat))
    BY <1>1
<1>3. ASSUME NEW y \in S
      PROVE  x <= y
    <2>1. <<y, x>> \in Nat \X Nat /\ <<y, x>>[1] = y /\ <<y, x>>[2] = x
        OBVIOUS
    <2>2. ~ (y < x)
        BY <1>2, <2>1 DEF OpToRel
    <2> QED BY <2>2
<1> QED BY <1>3 DEF Min

\* Min of two integers.
LEMMA MinOfTwo ==
    ASSUME NEW a \in Int, NEW b \in Int
    PROVE  /\ Min({a, b}) \in {a, b}
           /\ Min({a, b}) <= a /\ Min({a, b}) <= b
<1>1. \E x \in {a, b} : \A y \in {a, b} : x <= y
    <2>1. CASE a <= b BY <2>1
    <2>2. CASE b <= a BY <2>2
    <2> QED BY <2>1, <2>2
<1> QED BY <1>1 DEF Min

\* Linking an element in front.
LEMMA PrependFacts ==
    ASSUME NEW S, NEW s \in Seq(S), NEW x \in S
    PROVE  /\ <<x>> \o s \in Seq(S)
           /\ Len(<<x>> \o s) = Len(s) + 1
           /\ (<<x>> \o s)[1] = x
           /\ \A i \in 1 .. Len(s) : (<<x>> \o s)[i + 1] = s[i]
           /\ Range(<<x>> \o s) = Range(s) \cup {x}
           /\ IsInjective(s) /\ x \notin Range(s) => IsInjective(<<x>> \o s)
<1> DEFINE t == <<x>> \o s
<1>1. t \in Seq(S) /\ Len(t) = Len(s) + 1 /\ t[1] = x
      /\ \A i \in 1 .. Len(s) : t[i + 1] = s[i]
    BY ConcatProperties, SMT
<1>2. DOMAIN t = 1 .. Len(s) + 1 /\ DOMAIN s = 1 .. Len(s)
    BY <1>1, LenProperties
<1>3. \A i \in 2 .. Len(s) + 1 : i - 1 \in 1 .. Len(s) /\ t[i] = s[i - 1]
    BY <1>1
<1> HIDE DEF t
<1>4. Range(t) = Range(s) \cup {x}
    <2>1. Len(s) \in Nat /\ 1 \in DOMAIN t
        BY <1>2, LenProperties
    <2>2. \A i \in DOMAIN s : i + 1 \in DOMAIN t /\ t[i + 1] = s[i]
        BY <1>1, <1>2, <2>1
    <2>3. \A i \in DOMAIN t : i = 1 \/ (i - 1 \in DOMAIN s /\ t[i] = s[i - 1])
        BY <1>2, <1>3, <2>1
    <2>4. ASSUME NEW i \in DOMAIN t PROVE t[i] \in Range(s) \cup {x}
        BY <1>1, <2>3 DEF Range
    <2>5. ASSUME NEW i \in DOMAIN s PROVE s[i] \in Range(t)
        BY <2>2 DEF Range
    <2>6. x \in Range(t)
        BY <1>1, <2>1 DEF Range
    <2> QED BY <2>4, <2>5, <2>6 DEF Range
<1>5. ASSUME IsInjective(s), x \notin Range(s)
      PROVE  IsInjective(t)
    <2>1. Len(s) \in Nat
        BY <1>2, LenProperties
    <2>2. \A i \in DOMAIN t : i # 1 =>
              i - 1 \in DOMAIN s /\ t[i] = s[i - 1] /\ t[i] # x
        BY <1>2, <1>3, <2>1, <1>5 DEF Range
    <2> SUFFICES ASSUME NEW i \in DOMAIN t, NEW j \in DOMAIN t, t[i] = t[j]
                 PROVE  i = j
        BY DEF IsInjective
    <2>3. CASE i = 1 \/ j = 1
        BY <1>1, <2>2, <2>3
    <2>4. CASE i # 1 /\ j # 1
        <3>1. i - 1 = j - 1
            BY <1>5, <2>2, <2>4 DEF IsInjective
        <3> QED BY <1>2, <2>1, <3>1
    <2> QED BY <2>3, <2>4
<1> QED BY <1>1, <1>4, <1>5 DEF t

\* A function t that skips position i of the injective s.
LEMMA SkipFacts ==
    ASSUME NEW n \in Nat, NEW i \in 1 .. n, NEW s, NEW t,
           DOMAIN s = 1 .. n, DOMAIN t = 1 .. n - 1, IsInjective(s),
           \A j \in 1 .. i - 1 : t[j] = s[j],
           \A j \in i .. n - 1 : t[j] = s[j + 1]
    PROVE  Range(t) = Range(s) \ {s[i]} /\ IsInjective(t)
<1>1. \A j \in DOMAIN t : \E k \in DOMAIN s \ {i} :
          t[j] = s[k] /\ k = (IF j < i THEN j ELSE j + 1)
    <2> TAKE j \in DOMAIN t
    <2>1. CASE j < i
        <3>1. j \in DOMAIN s \ {i} /\ j \in 1 .. i - 1
            BY <2>1
        <3> QED BY <2>1, <3>1
    <2>2. CASE ~ (j < i)
        <3>1. j + 1 \in DOMAIN s \ {i} /\ j \in i .. n - 1
            BY <2>2
        <3> QED BY <2>2, <3>1
    <2> QED BY <2>1, <2>2
<1>2. \A k \in DOMAIN s \ {i} : \E j \in DOMAIN t : t[j] = s[k]
    <2> TAKE k \in DOMAIN s \ {i}
    <2>1. CASE k < i
        <3>1. k \in DOMAIN t /\ k \in 1 .. i - 1
            BY <2>1
        <3> QED BY <3>1
    <2>2. CASE k > i
        <3>1. k - 1 \in DOMAIN t /\ k - 1 \in i .. n - 1 /\ (k - 1) + 1 = k
            BY <2>2
        <3> QED BY <3>1
    <2> QED BY <2>1, <2>2
<1>3. Range(t) = Range(s) \ {s[i]}
    <2>1. ASSUME NEW j \in DOMAIN t PROVE t[j] \in Range(s) \ {s[i]}
        <3>1. PICK k \in DOMAIN s \ {i} : t[j] = s[k]
            BY <1>1
        <3>2. i \in DOMAIN s /\ s[k] # s[i]
            BY <3>1 DEF IsInjective
        <3> QED BY <3>1, <3>2 DEF Range
    <2>2. ASSUME NEW k \in DOMAIN s, s[k] # s[i] PROVE s[k] \in Range(t)
        BY <1>2, <2>2, Zenon DEF Range
    <2> QED BY <2>1, <2>2 DEF Range
<1>4. IsInjective(t)
    <2> SUFFICES ASSUME NEW j \in DOMAIN t, NEW m \in DOMAIN t, t[j] = t[m]
                 PROVE  j = m
        BY DEF IsInjective
    <2>1. PICK k \in DOMAIN s : t[j] = s[k] /\ k = (IF j < i THEN j ELSE j + 1)
        BY <1>1
    <2>2. PICK l \in DOMAIN s : t[m] = s[l] /\ l = (IF m < i THEN m ELSE m + 1)
        BY <1>1
    <2>3. k = l
        BY <2>1, <2>2 DEF IsInjective
    <2> QED BY <2>1, <2>2, <2>3
<1> QED BY <1>3, <1>4

\* Removing position i of a sequence without repetition.
LEMMA RemoveFacts ==
    ASSUME NEW S, NEW s \in Seq(S), NEW i \in 1 .. Len(s), IsInjective(s)
    PROVE  /\ RemoveAt(s, i) \in Seq(S)
           /\ Len(RemoveAt(s, i)) = Len(s) - 1
           /\ \A j \in 1 .. i - 1 : RemoveAt(s, i)[j] = s[j]
           /\ \A j \in i .. Len(s) - 1 : RemoveAt(s, i)[j] = s[j + 1]
           /\ Range(RemoveAt(s, i)) = Range(s) \ {s[i]}
           /\ IsInjective(RemoveAt(s, i))
<1> DEFINE u == SubSeq(s, 1, i - 1)
           v == SubSeq(s, i + 1, Len(s))
           t == RemoveAt(s, i)
<1>0. /\ DOMAIN s = 1 .. Len(s) /\ Len(s) \in Nat
      /\ \A k \in 1 .. Len(s) : s[k] \in S
    BY LenProperties, ElementOfSeq
<1>1. /\ u \in Seq(S) /\ Len(u) = i - 1
      /\ \A j \in 1 .. i - 1 : u[j] = s[j]
    BY <1>0, SubSeqProperties, SMT
<1>2. /\ v \in Seq(S) /\ Len(v) = Len(s) - i
      /\ \A j \in 1 .. Len(s) - i : v[j] = s[i + j]
    <2>1. \A k \in i + 1 .. Len(s) : s[k] \in S
        BY <1>0
    <2>2. /\ v \in Seq(S)
          /\ Len(v) = IF i + 1 <= Len(s) THEN Len(s) - (i + 1) + 1 ELSE 0
          /\ \A j \in 1 .. Len(s) - (i + 1) + 1 : v[j] = s[(i + 1) + j - 1]
        <3> HIDE DEF v
        <3>1. i + 1 \in Int /\ Len(s) \in Int
            BY <1>0
        <3> QED BY <1>0, <2>1, <3>1, SubSeqProperties DEF v
    <2> HIDE DEF u, v
    <2>3. \A j \in 1 .. Len(s) - i : (i + 1) + j - 1 = i + j
        BY <1>0
    <2>4. Len(s) - (i + 1) + 1 = Len(s) - i
        BY <1>0
    <2>5. Len(v) = Len(s) - i
        BY <1>0, <2>2
    <2>6. ASSUME NEW j \in 1 .. Len(s) - i PROVE v[j] = s[i + j]
        <3>1. j \in 1 .. Len(s) - (i + 1) + 1
            BY <2>4
        <3>2. v[j] = s[(i + 1) + j - 1]
            BY <2>2, <3>1
        <3> QED BY <2>3, <3>2
    <2> QED BY <2>2, <2>5, <2>6
<1>3. t = u \o v
    BY DEF RemoveAt
<1> HIDE DEF u, v, t
<1>4. /\ t \in Seq(S) /\ Len(t) = Len(u) + Len(v)
      /\ \A j \in 1 .. Len(u) + Len(v) : t[j] =
            IF j <= Len(u) THEN u[j] ELSE v[j - Len(u)]
    BY <1>1, <1>2, <1>3, ConcatProperties
<1>5. Len(t) = Len(s) - 1 /\ DOMAIN t = 1 .. Len(s) - 1
    BY <1>0, <1>1, <1>2, <1>4, LenProperties
<1>6. ASSUME NEW j \in 1 .. i - 1 PROVE t[j] = s[j]
    <2>1. j \in 1 .. Len(u) + Len(v) /\ j <= Len(u)
        BY <1>0, <1>1, <1>2
    <2> QED BY <1>1, <1>4, <2>1
<1>7. ASSUME NEW j \in i .. Len(s) - 1 PROVE t[j] = s[j + 1]
    <2>1. /\ j \in 1 .. Len(u) + Len(v) /\ ~ (j <= Len(u))
          /\ j - Len(u) \in 1 .. Len(s) - i /\ i + (j - Len(u)) = j + 1
        BY <1>0, <1>1, <1>2
    <2> QED BY <1>2, <1>4, <2>1
<1>8. Range(t) = Range(s) \ {s[i]} /\ IsInjective(t)
    BY <1>0, <1>5, <1>6, <1>7, SkipFacts
<1> QED BY <1>4, <1>5, <1>6, <1>7, <1>8 DEF t

-----------------------------------------------------------------------------
LEMMA RangeIsIn ==
    ASSUME NEW S, NEW s \in Seq(S)
    PROVE  Range(s) \subseteq S
<1>1. DOMAIN s = 1 .. Len(s)
    BY LenProperties
<1> QED BY <1>1, ElementOfSeq DEF Range

\* Taking the head of a queue without repetition.
LEMMA DequeueFacts ==
    ASSUME NEW S, NEW q \in Seq(S), IsInjective(q), q # <<>>
    PROVE  /\ Head(q) \in S /\ Head(q) \in Range(q)
           /\ Tail(q) \in Seq(S) /\ IsInjective(Tail(q))
           /\ Range(Tail(q)) = Range(q) \ {Head(q)}
<1> DEFINE t == Tail(q)
<1>1. DOMAIN q = 1 .. Len(q) /\ Len(q) \in Nat
    BY LenProperties
<1>2. /\ Head(q) \in S /\ t \in Seq(S)
      /\ Len(t) = Len(q) - 1
      /\ \A i \in 1 .. Len(t) : t[i] = q[i + 1]
    BY HeadTailProperties
<1>3. Head(q) = q[1] /\ 1 \in DOMAIN q
    BY <1>1, EmptySeq
<1> HIDE DEF t
<1>4. DOMAIN t = 1 .. Len(t) /\ Len(t) \in Nat
    BY <1>2, LenProperties
<1>5. \A i \in DOMAIN t : i + 1 \in DOMAIN q /\ i + 1 # 1 /\ t[i] = q[i + 1]
    BY <1>1, <1>2, <1>4
<1>6. IsInjective(t)
    <2> SUFFICES ASSUME NEW i \in DOMAIN t, NEW j \in DOMAIN t, t[i] = t[j]
                 PROVE  i = j
        BY DEF IsInjective
    <2>1. i + 1 = j + 1
        BY <1>1, <1>5 DEF IsInjective
    <2> QED BY <1>4, <2>1
<1>7. Range(t) \subseteq Range(q) \ {q[1]}
    <2> SUFFICES ASSUME NEW i \in DOMAIN t
                 PROVE  t[i] \in Range(q) /\ t[i] # q[1]
        BY DEF Range
    <2> QED BY <1>1, <1>3, <1>5 DEF Range, IsInjective
<1>8. Range(q) \ {q[1]} \subseteq Range(t)
    <2> SUFFICES ASSUME NEW i \in DOMAIN q, i # 1
                 PROVE  q[i] \in Range(t)
        BY DEF Range
    <2>1. i - 1 \in DOMAIN t /\ (i - 1) + 1 = i
        BY <1>1, <1>2, <1>4
    <2>2. t[i - 1] = q[i]
        BY <1>2, <1>4, <2>1
    <2> QED BY <2>1, <2>2 DEF Range
<1>9. Head(q) \in Range(q)
    BY <1>3 DEF Range
<1> QED BY <1>2, <1>3, <1>6, <1>7, <1>8, <1>9 DEF t

\* Adding a new element at the end of a queue without repetition.
LEMMA EnqueueFacts ==
    ASSUME NEW S, NEW q \in Seq(S), IsInjective(q), NEW x \in S, x \notin Range(q)
    PROVE  /\ Append(q, x) \in Seq(S) /\ IsInjective(Append(q, x))
           /\ Range(Append(q, x)) = Range(q) \cup {x}
<1> DEFINE r == Append(q, x)
<1>1. DOMAIN q = 1 .. Len(q) /\ Len(q) \in Nat
    BY LenProperties
<1>2. /\ r \in Seq(S) /\ Len(r) = Len(q) + 1
      /\ \A i \in 1 .. Len(q) : r[i] = q[i]
      /\ r[Len(q) + 1] = x
    BY <1>1, AppendProperties
<1> HIDE DEF r
<1>3. DOMAIN r = 1 .. Len(q) + 1
    BY <1>2, LenProperties
<1>4. /\ \A i \in DOMAIN r : \/ i \in DOMAIN q /\ r[i] = q[i]
                             \/ i = Len(q) + 1 /\ r[i] = x
      /\ \A i \in DOMAIN q : i \in DOMAIN r /\ r[i] = q[i]
      /\ Len(q) + 1 \in DOMAIN r /\ r[Len(q) + 1] = x
    BY <1>1, <1>2, <1>3
<1>5. Range(r) = Range(q) \cup {x}
    <2>1. Range(r) \subseteq Range(q) \cup {x}
        BY <1>4 DEF Range
    <2>2. Range(q) \cup {x} \subseteq Range(r)
        BY <1>4 DEF Range
    <2> QED BY <2>1, <2>2
<1>6. IsInjective(r)
    BY <1>1, <1>4 DEF IsInjective, Range
<1> QED BY <1>2, <1>5, <1>6 DEF r

-----------------------------------------------------------------------------
\* Moving the head of one sequence to the end of another.
LEMMA MoveOne ==
    ASSUME NEW S, NEW s \in Seq(S), NEW l \in Seq(S), l # <<>>
    PROVE  /\ Append(s, Head(l)) \in Seq(S) /\ Tail(l) \in Seq(S)
           /\ Append(s, Head(l)) \o Tail(l) = s \o l
<1>1. Head(l) \in S /\ Tail(l) \in Seq(S) /\ <<Head(l)>> \in Seq(S)
    BY HeadTailProperties
<1>2. <<Head(l)>> \o Tail(l) = l
    <2>1. Len(l) \in Nat \ {0} /\ 1 \in 1 .. Len(l) /\ Len(l) \in 1 .. Len(l)
        BY EmptySeq
    <2>2. SubSeq(l, 1, Len(l)) = <<l[1]>> \o SubSeq(l, 1 + 1, Len(l))
        BY <2>1, SubSeqRecursiveFirst
    <2>3. SubSeq(l, 1, Len(l)) = l /\ Tail(l) = SubSeq(l, 2, Len(l)) /\ 1 + 1 = 2
        BY SubSeqFull, TailIsSubSeq
    <2>4. Head(l) = l[1]
        OBVIOUS
    <2> QED BY <2>2, <2>3, <2>4
<1>3. Append(s, Head(l)) = s \o <<Head(l)>>
    BY <1>1, AppendIsConcat
<1>4. (s \o <<Head(l)>>) \o Tail(l) = s \o (<<Head(l)>> \o Tail(l))
    BY <1>1, ConcatAssociative
<1>5. Append(s, Head(l)) \in Seq(S)
    BY <1>1, AppendProperties
<1> QED BY <1>1, <1>2, <1>3, <1>4, <1>5

\* A function on the first numbers is a sequence.
LEMMA FunctionIsSeq ==
    ASSUME NEW S, NEW n \in Nat, NEW f \in [1 .. n -> S]
    PROVE  f \in Seq(S) /\ Len(f) = n
OBVIOUS

\* A beginning of a sequence is a beginning of a longer one.
LEMMA PrefixOfLonger ==
    ASSUME NEW S, NEW s \in Seq(S), NEW t \in Seq(S), NEW u \in Seq(S),
           NEW n \in 0 .. Len(t), s = SubSeq(t, 1, n)
    PROVE  n \in 0 .. Len(t \o u) /\ s = SubSeq(t \o u, 1, n)
<1>1. /\ Len(t) \in Nat /\ Len(u) \in Nat
      /\ Len(t \o u) = Len(t) + Len(u)
    BY LenProperties, ConcatProperties
<1>2. CASE n = 0
    BY <1>1, <1>2, SubSeqEmpty
<1>3. CASE n # 0
    <2>1. 1 \in 1 .. Len(t) /\ n \in 1 .. Len(t)
        BY <1>1, <1>3
    <2>2. SubSeq(t \o u, 1, n) = SubSeq(t, 1, n)
        BY <2>1, SubSeqOfConcat1
    <2> QED BY <1>1, <2>2
<1> QED BY <1>2, <1>3

\* The first part of a concatenation is a beginning of it.
LEMMA FirstIsPrefix ==
    ASSUME NEW S, NEW s \in Seq(S), NEW u \in Seq(S)
    PROVE  Len(s) \in 0 .. Len(s \o u) /\ s = SubSeq(s \o u, 1, Len(s))
<1>1. Len(s) \in 0 .. Len(s) /\ s = SubSeq(s, 1, Len(s))
    BY LenProperties, SubSeqFull
<1> QED BY <1>1, PrefixOfLonger

-----------------------------------------------------------------------------
\* A part of a sequence, which may be empty.
LEMMA PartFacts ==
    ASSUME NEW S, NEW s \in Seq(S), NEW a \in 1 .. Len(s) + 1, NEW b \in a - 1 .. Len(s)
    PROVE  /\ SubSeq(s, a, b) \in Seq(S)
           /\ Len(SubSeq(s, a, b)) = b - a + 1
           /\ \A k \in 1 .. b - a + 1 : SubSeq(s, a, b)[k] = s[a + k - 1]
<1>1. Len(s) \in Nat /\ \A k \in 1 .. Len(s) : s[k] \in S
    BY LenProperties, ElementOfSeq
<1>2. a \in Int /\ b \in Int /\ \A k \in a .. b : s[k] \in S
    BY <1>1
<1>3. /\ SubSeq(s, a, b) \in Seq(S)
      /\ Len(SubSeq(s, a, b)) = IF a <= b THEN b - a + 1 ELSE 0
      /\ \A k \in 1 .. b - a + 1 : SubSeq(s, a, b)[k] = s[a + k - 1]
    BY <1>2, SubSeqProperties
<1>4. (IF a <= b THEN b - a + 1 ELSE 0) = b - a + 1
    BY <1>1
<1> QED BY <1>3, <1>4

\* A beginning of a text reads like the text.
LEMMA BeginningFacts ==
    ASSUME NEW S, NEW s \in Seq(S), NEW n \in 0 .. Len(s)
    PROVE  LET r == SubSeq(s, 1, n)
           IN  /\ r \in Seq(S) /\ Len(r) = n /\ Len(s) \in Nat
               /\ \A k \in 1 .. n : r[k] = s[k]
               /\ \A a \in 1 .. n + 1 : \A b \in a - 1 .. n : SubSeq(r, a, b) = SubSeq(s, a, b)
<1> DEFINE r == SubSeq(s, 1, n)
<1>1. Len(s) \in Nat /\ 1 \in 1 .. Len(s) + 1 /\ n \in 1 - 1 .. Len(s)
    BY LenProperties
<1>2. r \in Seq(S) /\ Len(r) = n - 1 + 1 /\ \A k \in 1 .. n - 1 + 1 : r[k] = s[1 + k - 1]
    BY <1>1, PartFacts
<1>3. Len(r) = n /\ \A k \in 1 .. n : r[k] = s[k]
    BY <1>1, <1>2
<1>4. ASSUME NEW a \in 1 .. n + 1, NEW b \in a - 1 .. n
      PROVE  SubSeq(r, a, b) = SubSeq(s, a, b)
    <2>1. a \in 1 .. Len(s) + 1 /\ b \in a - 1 .. Len(s) /\ a \in 1 .. Len(r) + 1 /\ b \in a - 1 .. Len(r)
        BY <1>1, <1>3
    <2>2. /\ SubSeq(r, a, b) \in Seq(S) /\ Len(SubSeq(r, a, b)) = b - a + 1
          /\ \A k \in 1 .. b - a + 1 : SubSeq(r, a, b)[k] = r[a + k - 1]
        BY <1>2, <2>1, PartFacts
    <2>3. /\ SubSeq(s, a, b) \in Seq(S) /\ Len(SubSeq(s, a, b)) = b - a + 1
          /\ \A k \in 1 .. b - a + 1 : SubSeq(s, a, b)[k] = s[a + k - 1]
        BY <2>1, PartFacts
    <2>4. \A k \in 1 .. b - a + 1 : r[a + k - 1] = s[a + k - 1]
        BY <1>1, <1>3
    <2> HIDE DEF r
    <2> QED BY <2>2, <2>3, <2>4, SeqEqual
<1> QED BY <1>1, <1>2, <1>3, <1>4

\* A part of the rest of a sequence is a part of the sequence.
LEMMA PartOfRest ==
    ASSUME NEW S, NEW s \in Seq(S), NEW n \in 0 .. Len(s),
           NEW a \in 1 .. Len(s) - n + 1, NEW b \in a - 1 .. Len(s) - n
    PROVE  SubSeq(SubSeq(s, n + 1, Len(s)), a, b) = SubSeq(s, n + a, n + b)
<1> DEFINE rest == SubSeq(s, n + 1, Len(s))
           l == SubSeq(rest, a, b)
           r == SubSeq(s, n + a, n + b)
<1>1. Len(s) \in Nat
    BY LenProperties
<1>2. /\ rest \in Seq(S) /\ Len(rest) = Len(s) - n
      /\ \A k \in 1 .. Len(s) - n : rest[k] = s[n + k]
    <2> DEFINE m == n + 1
    <2>1. m \in 1 .. Len(s) + 1 /\ Len(s) \in m - 1 .. Len(s)
        BY <1>1
    <2>2. Len(s) - m + 1 = Len(s) - n /\ \A k \in 1 .. Len(s) - n : m + k - 1 = n + k
        BY <1>1
    <2> HIDE DEF m
    <2>3. /\ SubSeq(s, m, Len(s)) \in Seq(S)
          /\ Len(SubSeq(s, m, Len(s))) = Len(s) - m + 1
          /\ \A k \in 1 .. Len(s) - m + 1 : SubSeq(s, m, Len(s))[k] = s[m + k - 1]
        BY <2>1, PartFacts
    <2> QED BY <2>2, <2>3 DEF m
<1> HIDE DEF rest
<1>3. a \in 1 .. Len(rest) + 1 /\ b \in a - 1 .. Len(rest)
    BY <1>1, <1>2
<1>4. /\ l \in Seq(S) /\ Len(l) = b - a + 1
      /\ \A k \in 1 .. b - a + 1 : l[k] = rest[a + k - 1]
    BY <1>2, <1>3, PartFacts
<1>5. /\ r \in Seq(S) /\ Len(r) = b - a + 1
      /\ \A k \in 1 .. b - a + 1 : r[k] = s[n + (a + k - 1)]
    <2> DEFINE c == n + a
               d == n + b
    <2>1. c \in 1 .. Len(s) + 1 /\ d \in c - 1 .. Len(s)
        BY <1>1
    <2>2. d - c + 1 = b - a + 1 /\ \A k \in 1 .. b - a + 1 : c + k - 1 = n + (a + k - 1)
        BY <1>1
    <2> HIDE DEF c, d
    <2>3. /\ SubSeq(s, c, d) \in Seq(S) /\ Len(SubSeq(s, c, d)) = d - c + 1
          /\ \A k \in 1 .. d - c + 1 : SubSeq(s, c, d)[k] = s[c + k - 1]
        BY <2>1, PartFacts
    <2> QED BY <2>2, <2>3 DEF c, d
<1> HIDE DEF l, r
<1>6. \A k \in 1 .. b - a + 1 : l[k] = r[k]
    <2> TAKE k \in 1 .. b - a + 1
    <2>1. a + k - 1 \in 1 .. Len(s) - n
        BY <1>1
    <2> QED BY <1>2, <1>4, <1>5, <2>1
<1>7. l = r
    BY <1>4, <1>5, <1>6, SeqEqual
<1> QED BY <1>7 DEF l, r, rest

-----------------------------------------------------------------------------
\* FlattenSeq is the last of the sequences that grow by one member after the other.
LEMMA FlattenSteps ==
    ASSUME NEW S, NEW seqs \in Seq(Seq(S))
    PROVE  \E f \in [0 .. Len(seqs) -> Seq(S)] :
             /\ f[0] = <<>> /\ f[Len(seqs)] = FlattenSeq(seqs)
             /\ \A j \in 1 .. Len(seqs) : f[j] = f[j - 1] \o seqs[j]
<1> DEFINE n == Len(seqs)
<1>1. n \in Nat /\ \A j \in 1 .. n : seqs[j] \in Seq(S)
    BY LenProperties, ElementOfSeq
<1>2. CASE n = 0
    <2>1. FlattenSeq(seqs) = <<>>
        BY <1>2 DEF FlattenSeq
    <2> DEFINE f == [j \in 0 .. 0 |-> <<>>]
    <2>2. f \in [0 .. n -> Seq(S)] /\ f[0] = <<>>
        BY <1>2
    <2> HIDE DEF f
    <2>3. \A j \in 1 .. n : FALSE
        BY <1>2
    <2> QED BY <1>2, <2>1, <2>2, <2>3
<1>3. CASE n # 0
    <2> DEFINE Grow(g) == [i \in 1 .. n |-> IF i = 1 THEN seqs[i] ELSE g[i - 1] \o seqs[i]]
               flatten == CHOOSE g : g = Grow(g)
               Begin(m) == {g \in [1 .. m -> Seq(S)] :
                              \A i \in 1 .. m : g[i] = IF i = 1 THEN seqs[i] ELSE g[i - 1] \o seqs[i]}
               Hard == {m \in 0 .. n : Begin(m) = {}}
    <2>1. FlattenSeq(seqs) = flatten[n]
        BY <1>3 DEF FlattenSeq
    <2>2. Hard = {}
        <3> SUFFICES ASSUME Hard # {} PROVE FALSE
            OBVIOUS
        <3>1. Min(Hard) \in Hard /\ \A m \in Hard : Min(Hard) <= m
            <4>1. Hard \in SUBSET Nat
                BY <1>1
            <4> HIDE DEF Hard
            <4> QED BY <4>1, MinOfNats
        <3>2. PICK m \in 0 .. n : Begin(m) = {} /\ \A k \in Hard : m <= k
            BY <3>1
        <3>3. m # 0
            <4>1. ASSUME m = 0 PROVE FALSE
                <5>1. [i \in 1 .. 0 |-> <<>>] \in Begin(0)
                    OBVIOUS
                <5> QED BY <3>2, <4>1, <5>1
            <4> QED BY <4>1
        <3>4. m - 1 \in 0 .. n /\ ~ (m <= m - 1) /\ m \in 1 .. n
            BY <1>1, <3>3
        <3>5. PICK g : g \in Begin(m - 1)
            <4>1. m - 1 \notin Hard
                BY <3>2, <3>4
            <4> QED BY <3>4, <4>1
        <3>6. /\ g \in [1 .. m - 1 -> Seq(S)]
              /\ \A i \in 1 .. m - 1 : g[i] = IF i = 1 THEN seqs[i] ELSE g[i - 1] \o seqs[i]
            BY <3>5
        <3> DEFINE last == IF m = 1 THEN seqs[m] ELSE g[m - 1] \o seqs[m]
                   h == [i \in 1 .. m |-> IF i = m THEN last ELSE g[i]]
        <3>7. last \in Seq(S)
            <4>1. CASE m = 1
                BY <1>1, <3>4, <4>1
            <4>2. CASE m # 1
                <5>1. m - 1 \in 1 .. m - 1
                    BY <3>4, <4>2
                <5>2. g[m - 1] \in Seq(S) /\ seqs[m] \in Seq(S)
                    BY <1>1, <3>4, <3>6, <5>1
                <5> QED BY <4>2, <5>2, ConcatProperties
            <4> QED BY <4>1, <4>2
        <3>8. /\ h \in [1 .. m -> Seq(S)] /\ h[m] = last
              /\ \A i \in 1 .. m - 1 : h[i] = g[i]
            <4>1. \A i \in 1 .. m : i # m => i \in 1 .. m - 1
                BY <3>4
            <4>2. \A i \in 1 .. m - 1 : i # m /\ i \in 1 .. m
                BY <3>4
            <4>3. \A i \in 1 .. m : (IF i = m THEN last ELSE g[i]) \in Seq(S)
                BY <3>6, <3>7, <4>1
            <4>4. m \in 1 .. m
                BY <3>4
            <4> HIDE DEF last
            <4> QED BY <4>2, <4>3, <4>4
        <3>9. ASSUME NEW i \in 1 .. m
              PROVE  h[i] = IF i = 1 THEN seqs[i] ELSE h[i - 1] \o seqs[i]
            <4>1. i \in 1 .. m - 1 \/ i = m
                BY <3>4
            <4>2. i = 1 \/ i - 1 \in 1 .. m - 1
                BY <3>4
            <4> HIDE DEF h
            <4>3. CASE i = m
                <5>1. i = 1 \/ h[i - 1] = g[m - 1]
                    BY <3>8, <4>2, <4>3
                <5> QED BY <3>8, <4>3, <5>1
            <4>4. CASE i \in 1 .. m - 1
                BY <3>6, <3>8, <4>2, <4>4
            <4> QED BY <4>1, <4>3, <4>4
        <3>10. h \in Begin(m)
            <4> HIDE DEF h
            <4> QED BY <3>8, <3>9
        <3> QED BY <3>2, <3>10
    <2>3. PICK g : g \in Begin(n)
        <3>1. n \in 0 .. n
            BY <1>1
        <3> QED BY <2>2, <3>1
    <2>4. g = Grow(g)
        <3>1. g \in [1 .. n -> Seq(S)]
            BY <2>3
        <3>2. \A i \in 1 .. n : g[i] = Grow(g)[i]
            BY <2>3
        <3> QED BY <3>1, <3>2
    <2>5. flatten = Grow(flatten)
        <3> HIDE DEF Grow
        <3> QED BY <2>4
    <2> HIDE DEF flatten
    <2>6. \A i \in 1 .. n : flatten[i] = IF i = 1 THEN seqs[i] ELSE flatten[i - 1] \o seqs[i]
        BY <2>5
    <2> DEFINE Bad == {i \in 1 .. n : flatten[i] \notin Seq(S)}
    <2>7. Bad = {}
        <3> SUFFICES ASSUME Bad # {} PROVE FALSE
            OBVIOUS
        <3>1. Min(Bad) \in Bad /\ \A i \in Bad : Min(Bad) <= i
            <4>1. Bad \in SUBSET Nat
                BY <1>1
            <4> HIDE DEF Bad
            <4> QED BY <4>1, MinOfNats
        <3>2. PICK i \in 1 .. n : flatten[i] \notin Seq(S) /\ \A k \in Bad : i <= k
            BY <3>1
        <3>3. i = 1 \/ (i - 1 \in 1 .. n /\ ~ (i <= i - 1))
            BY <1>1
        <3>4. i = 1 \/ flatten[i - 1] \in Seq(S)
            BY <3>2, <3>3
        <3>5. seqs[i] \in Seq(S)
            BY <1>1
        <3>6. CASE i = 1
            BY <2>6, <3>2, <3>5, <3>6
        <3>7. CASE i # 1
            <4>1. flatten[i] = flatten[i - 1] \o seqs[i]
                BY <2>6, <3>7
            <4> QED BY <3>2, <3>4, <3>5, <3>7, <4>1, ConcatProperties
        <3> QED BY <3>6, <3>7
    <2>8. \A i \in 1 .. n : flatten[i] \in Seq(S)
        BY <2>7
    <2> HIDE DEF Bad
    <2> DEFINE f == [i \in 0 .. n |-> IF i = 0 THEN <<>> ELSE flatten[i]]
    <2>9. /\ f \in [0 .. n -> Seq(S)] /\ f[0] = <<>>
          /\ \A i \in 1 .. n : f[i] = flatten[i]
        <3>1. \A i \in 0 .. n : i # 0 => i \in 1 .. n
            BY <1>1
        <3>2. \A i \in 1 .. n : i # 0 /\ i \in 0 .. n
            BY <1>1
        <3>3. 0 \in 0 .. n /\ <<>> \in Seq(S)
            BY <1>1
        <3> QED BY <2>8, <3>1, <3>2, <3>3
    <2> HIDE DEF f
    <2>10. ASSUME NEW j \in 1 .. n PROVE f[j] = f[j - 1] \o seqs[j]
        <3>1. CASE j = 1
            <4>1. f[j] = seqs[j] /\ f[j - 1] = <<>>
                <5>1. j - 1 = 0
                    BY <3>1
                <5> QED BY <2>6, <2>9, <3>1, <5>1
            <4>2. seqs[j] \in Seq(S)
                BY <1>1
            <4> QED BY <4>1, <4>2, ConcatEmptySeq
        <3>2. CASE j # 1
            <4>1. j - 1 \in 1 .. n
                BY <3>2, <1>1
            <4> QED BY <2>6, <2>9, <3>2, <4>1
        <3> QED BY <3>1, <3>2
    <2>11. f[n] = FlattenSeq(seqs)
        <3>1. n \in 1 .. n
            BY <1>1, <1>3
        <3> QED BY <2>1, <2>9, <3>1
    <2> QED BY <2>9, <2>10, <2>11
<1> QED BY <1>2, <1>3

\* One member more.
LEMMA FlattenAppend ==
    ASSUME NEW S, NEW seqs \in Seq(Seq(S)), NEW t \in Seq(S)
    PROVE  /\ FlattenSeq(seqs) \in Seq(S) /\ FlattenSeq(Append(seqs, t)) \in Seq(S)
           /\ FlattenSeq(Append(seqs, t)) = FlattenSeq(seqs) \o t
<1> DEFINE n == Len(seqs)
           more == Append(seqs, t)
<1>1. /\ more \in Seq(Seq(S)) /\ Len(more) = n + 1 /\ n \in Nat
      /\ more[n + 1] = t /\ \A j \in 1 .. n : more[j] = seqs[j]
    BY AppendProperties, LenProperties
<1>2. PICK f \in [0 .. n -> Seq(S)] :
        /\ f[0] = <<>> /\ f[n] = FlattenSeq(seqs)
        /\ \A j \in 1 .. n : f[j] = f[j - 1] \o seqs[j]
    BY FlattenSteps
<1> HIDE DEF more
<1>3. PICK g \in [0 .. n + 1 -> Seq(S)] :
        /\ g[0] = <<>> /\ g[n + 1] = FlattenSeq(more)
        /\ \A j \in 1 .. n + 1 : g[j] = g[j - 1] \o more[j]
    <2>1. \E g \in [0 .. Len(more) -> Seq(S)] :
            /\ g[0] = <<>> /\ g[Len(more)] = FlattenSeq(more)
            /\ \A j \in 1 .. Len(more) : g[j] = g[j - 1] \o more[j]
        BY <1>1, FlattenSteps
    <2> QED BY <1>1, <2>1
<1> DEFINE Differ == {j \in 0 .. n : f[j] # g[j]}
<1>4. Differ = {}
    <2> SUFFICES ASSUME Differ # {} PROVE FALSE
        OBVIOUS
    <2>1. Min(Differ) \in Differ /\ \A j \in Differ : Min(Differ) <= j
        <3>1. Differ \in SUBSET Nat
            BY <1>1
        <3> HIDE DEF Differ
        <3> QED BY <3>1, MinOfNats
    <2>2. PICK j \in 0 .. n : f[j] # g[j] /\ \A k \in Differ : j <= k
        BY <2>1
    <2>3. j # 0
        BY <1>2, <1>3, <2>2
    <2>4. j \in 1 .. n /\ j \in 1 .. n + 1 /\ j - 1 \in 0 .. n /\ ~ (j <= j - 1)
        BY <1>1, <2>3
    <2>5. f[j - 1] = g[j - 1]
        BY <2>2, <2>4
    <2>6. f[j] = f[j - 1] \o seqs[j] /\ g[j] = g[j - 1] \o more[j] /\ more[j] = seqs[j]
        BY <1>1, <1>2, <1>3, <2>4
    <2> QED BY <2>2, <2>5, <2>6
<1>5. n \in 0 .. n /\ n + 1 \in 1 .. n + 1 /\ n + 1 \in 0 .. n + 1 /\ (n + 1) - 1 = n
    BY <1>1
<1>6. g[n] = f[n]
    BY <1>4, <1>5
<1>7. g[n + 1] = g[n] \o t
    <2>1. g[n + 1] = g[(n + 1) - 1] \o more[n + 1]
        BY <1>3, <1>5
    <2> QED BY <1>1, <1>5, <2>1
<1>8. f[n] \in Seq(S) /\ g[n + 1] \in Seq(S)
    BY <1>2, <1>3, <1>5
<1> QED BY <1>2, <1>3, <1>6, <1>7, <1>8 DEF more

\* The first j members, joined: they grow by one member after the other ...
Joined(seqs, j) == FlattenSeq(SubSeq(seqs, 1, j))

LEMMA JoinedFacts ==
    ASSUME NEW S, NEW seqs \in Seq(Seq(S))
    PROVE  /\ Len(seqs) \in Nat /\ FlattenSeq(seqs) \in Seq(S)
           /\ Joined(seqs, 0) = <<>> /\ Joined(seqs, Len(seqs)) = FlattenSeq(seqs)
           /\ \A j \in 0 .. Len(seqs) : Joined(seqs, j) \in Seq(S) /\ Len(Joined(seqs, j)) \in Nat
           /\ \A j \in 0 .. Len(seqs) - 1 :
                /\ seqs[j + 1] \in Seq(S)
                /\ Joined(seqs, j + 1) = Joined(seqs, j) \o seqs[j + 1]
                /\ Len(Joined(seqs, j + 1)) = Len(Joined(seqs, j)) + Len(seqs[j + 1])
<1>1. Len(seqs) \in Nat /\ \A j \in 1 .. Len(seqs) : seqs[j] \in Seq(S)
    BY LenProperties, ElementOfSeq
<1>2. \A s \in Seq(Seq(S)) : FlattenSeq(s) \in Seq(S)
    <2> TAKE s \in Seq(Seq(S))
    <2> QED BY EmptySeq, FlattenAppend
<1>3. Joined(seqs, 0) = <<>>
    <2>1. SubSeq(seqs, 1, 0) = <<>> /\ Len(<<>>) = 0
        BY SubSeqEmpty
    <2> QED BY <2>1 DEF Joined, FlattenSeq
<1>4. Joined(seqs, Len(seqs)) = FlattenSeq(seqs)
    BY SubSeqFull DEF Joined
<1>5. ASSUME NEW j \in 0 .. Len(seqs)
      PROVE  SubSeq(seqs, 1, j) \in Seq(Seq(S)) /\ Joined(seqs, j) \in Seq(S) /\ Len(Joined(seqs, j)) \in Nat
    <2>1. SubSeq(seqs, 1, j) \in Seq(Seq(S))
        BY BeginningFacts
    <2> QED BY <1>2, <2>1, LenProperties DEF Joined
<1>6. ASSUME NEW j \in 0 .. Len(seqs) - 1
      PROVE  /\ seqs[j + 1] \in Seq(S)
             /\ Joined(seqs, j + 1) = Joined(seqs, j) \o seqs[j + 1]
    <2>1. j + 1 \in 1 .. Len(seqs) /\ 1 \in 1 .. Len(seqs) /\ j + 1 \in 1 .. Len(seqs) /\ (j + 1) - 1 = j
          /\ j \in 0 .. Len(seqs)
        BY <1>1
    <2>2. seqs[j + 1] \in Seq(S)
        BY <1>1, <2>1
    <2>3. SubSeq(seqs, 1, j) \in Seq(Seq(S))
        BY <1>5, <2>1
    <2>4. SubSeq(seqs, 1, j + 1) = Append(SubSeq(seqs, 1, j), seqs[j + 1])
        <3>1. SubSeq(seqs, 1, j + 1) = SubSeq(seqs, 1, (j + 1) - 1) \o <<seqs[j + 1]>>
            BY <2>1, SubSeqRecursiveSecond
        <3> QED BY <2>1, <2>2, <2>3, <3>1, AppendIsConcat
    <2> QED BY <2>2, <2>3, <2>4, FlattenAppend DEF Joined
<1>7. ASSUME NEW j \in 0 .. Len(seqs) - 1
      PROVE  Len(Joined(seqs, j + 1)) = Len(Joined(seqs, j)) + Len(seqs[j + 1])
    <2>1. j \in 0 .. Len(seqs)
        BY <1>1
    <2> QED BY <1>5, <1>6, <2>1, ConcatProperties
<1> QED BY <1>1, <1>2, <1>3, <1>4, <1>5, <1>6, <1>7

\* ... and all members joined begin with them, and then the next.
LEMMA JoinedIsPrefix ==
    ASSUME NEW S, NEW seqs \in Seq(Seq(S))
    PROVE  LET all == FlattenSeq(seqs)
           IN  \A j \in 0 .. Len(seqs) :
                 /\ Len(Joined(seqs, j)) \in 0 .. Len(all)
                 /\ Joined(seqs, j) = SubSeq(all, 1, Len(Joined(seqs, j)))
<1> DEFINE n == Len(seqs)
           all == FlattenSeq(seqs)
           Fits(j) == Len(Joined(seqs, j)) \in 0 .. Len(all) /\ Joined(seqs, j) = SubSeq(all, 1, Len(Joined(seqs, j)))
           Bad == {k \in 0 .. n : ~ Fits(n - k)}
<1>1. /\ n \in Nat /\ all \in Seq(S) /\ Len(all) \in Nat /\ Joined(seqs, n) = all
      /\ \A j \in 0 .. n : Joined(seqs, j) \in Seq(S)
      /\ \A j \in 0 .. n - 1 : Joined(seqs, j + 1) = Joined(seqs, j) \o seqs[j + 1] /\ seqs[j + 1] \in Seq(S)
    BY JoinedFacts, LenProperties
<1>2. ASSUME NEW j \in 0 .. n - 1, Fits(j + 1) PROVE Fits(j)
    <2> DEFINE s == Joined(seqs, j)
               t == Joined(seqs, j + 1)
    <2>1. s \in Seq(S) /\ t = s \o seqs[j + 1] /\ seqs[j + 1] \in Seq(S) /\ t \in Seq(S)
        <3>1. j \in 0 .. n /\ j + 1 \in 0 .. n
            BY <1>1
        <3> QED BY <1>1, <3>1
    <2>2. Len(s) \in 0 .. Len(t) /\ s = SubSeq(t, 1, Len(s))
        BY <2>1, FirstIsPrefix
    <2>3. Len(t) \in 0 .. Len(all) /\ t = SubSeq(all, 1, Len(t))
        BY <1>2
    <2> HIDE DEF s, t, all, n
    <2>4. \A a \in 1 .. Len(t) + 1 : \A b \in a - 1 .. Len(t) : SubSeq(t, a, b) = SubSeq(all, a, b)
        BY <1>1, <2>3, BeginningFacts
    <2>5. 1 \in 1 .. Len(t) + 1 /\ Len(s) \in 1 - 1 .. Len(t)
        BY <2>2, <2>3, <1>1
    <2>6. s = SubSeq(all, 1, Len(s)) /\ Len(s) \in 0 .. Len(all)
        BY <1>1, <2>2, <2>3, <2>4, <2>5
    <2> QED BY <2>6 DEF s, t
<1>3. Fits(n)
    <2>1. all = SubSeq(all, 1, Len(all)) /\ Len(all) \in 0 .. Len(all)
        BY <1>1, SubSeqFull
    <2> HIDE DEF all
    <2> QED BY <1>1, <2>1
<1> HIDE DEF Fits
<1>4. Bad = {}
    <2> SUFFICES ASSUME Bad # {} PROVE FALSE
        OBVIOUS
    <2>1. Min(Bad) \in Bad /\ \A k \in Bad : Min(Bad) <= k
        <3>1. Bad \in SUBSET Nat
            BY <1>1
        <3> HIDE DEF Bad
        <3> QED BY <3>1, MinOfNats
    <2>2. PICK k \in 0 .. n : ~ Fits(n - k) /\ \A i \in Bad : k <= i
        BY <2>1
    <2>3. k # 0
        <3>1. ASSUME k = 0 PROVE FALSE
            <4>1. n - k = n
                BY <1>1, <3>1
            <4> QED BY <1>3, <2>2, <4>1
        <3> QED BY <3>1
    <2>4. k - 1 \in 0 .. n /\ ~ (k <= k - 1) /\ n - k \in 0 .. n - 1 /\ (n - k) + 1 = n - (k - 1)
        BY <1>1, <2>3
    <2>5. Fits(n - (k - 1))
        BY <2>2, <2>4
    <2> QED BY <1>2, <2>2, <2>4, <2>5
<1>5. ASSUME NEW j \in 0 .. n PROVE Fits(j)
    <2>1. n - j \in 0 .. n /\ n - (n - j) = j
        BY <1>1
    <2> QED BY <1>4, <2>1
<1> QED BY <1>5 DEF Fits

\* A member of sequences that are joined has its place in the whole.
LEMMA JoinedMember ==
    ASSUME NEW S, NEW seqs \in Seq(Seq(S)), NEW j \in 0 .. Len(seqs) - 1
    PROVE  LET all == FlattenSeq(seqs)
               l == Len(Joined(seqs, j))
               m == seqs[j + 1]
           IN  /\ l \in Nat /\ m \in Seq(S) /\ Len(m) \in Nat /\ l + Len(m) <= Len(all)
               /\ \A i \in 1 .. Len(m) : all[l + i] = m[i]
<1> DEFINE all == FlattenSeq(seqs)
           s == Joined(seqs, j)
           m == seqs[j + 1]
           t == Joined(seqs, j + 1)
<1>1. /\ j \in 0 .. Len(seqs) /\ j + 1 \in 0 .. Len(seqs)
      /\ s \in Seq(S) /\ Len(s) \in Nat /\ m \in Seq(S) /\ Len(m) \in Nat
      /\ t = s \o m /\ all \in Seq(S) /\ Len(all) \in Nat
    <2>1. Len(seqs) \in Nat
        BY LenProperties
    <2>2. j \in 0 .. Len(seqs) /\ j + 1 \in 0 .. Len(seqs)
        BY <2>1
    <2> QED BY <2>2, JoinedFacts, LenProperties
<1>2. Len(t) \in 0 .. Len(all) /\ t = SubSeq(all, 1, Len(t))
    BY <1>1, JoinedIsPrefix
<1>3. /\ Len(t) = Len(s) + Len(m)
      /\ \A i \in 1 .. Len(s) + Len(m) : t[i] = IF i <= Len(s) THEN s[i] ELSE m[i - Len(s)]
    BY <1>1, ConcatProperties
<1> HIDE DEF all, s, m, t
<1>4. \A i \in 1 .. Len(t) : t[i] = all[i]
    BY <1>1, <1>2, BeginningFacts
<1>5. ASSUME NEW i \in 1 .. Len(m) PROVE all[Len(s) + i] = m[i]
    <2>1. Len(s) + i \in 1 .. Len(s) + Len(m) /\ ~ (Len(s) + i <= Len(s)) /\ (Len(s) + i) - Len(s) = i
        BY <1>1
    <2> QED BY <1>3, <1>4, <2>1
<1>6. Len(s) + Len(m) <= Len(all)
    BY <1>1, <1>2, <1>3
<1> QED BY <1>1, <1>5, <1>6 DEF all, s, m

\* Where the parts of a concatenation are.
LEMMA ConcatAt ==
    ASSUME NEW S, NEW s \in Seq(S), NEW t \in Seq(S)
    PROVE  /\ s \o t \in Seq(S) /\ Len(s) \in Nat /\ Len(t) \in Nat /\ Len(s \o t) = Len(s) + Len(t)
           /\ \A i \in 1 .. Len(s) : (s \o t)[i] = s[i]
           /\ \A i \in 1 .. Len(t) : (s \o t)[Len(s) + i] = t[i]
<1>1. Len(s) \in Nat /\ Len(t) \in Nat
    BY LenProperties
<1>2. /\ s \o t \in Seq(S) /\ Len(s \o t) = Len(s) + Len(t)
      /\ \A i \in 1 .. Len(s) + Len(t) : (s \o t)[i] = IF i <= Len(s) THEN s[i] ELSE t[i - Len(s)]
    BY ConcatProperties
<1>3. \A i \in 1 .. Len(s) : i \in 1 .. Len(s) + Len(t) /\ i <= Len(s)
    BY <1>1
<1>4. \A i \in 1 .. Len(t) :
        Len(s) + i \in 1 .. Len(s) + Len(t) /\ ~ (Len(s) + i <= Len(s)) /\ (Len(s) + i) - Len(s) = i
    BY <1>1
<1> QED BY <1>1, <1>2, <1>3, <1>4
=============================================================================
