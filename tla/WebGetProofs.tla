---------------------------- MODULE WebGetProofs ----------------------------
(***************************************************************************)
(* web_get asks for what its URL names and prints the page of any response,*)
(* however it is cut up.                                                   *)
(***************************************************************************)
EXTENDS WebGet, ListLemmas, FiniteSetTheorems, FunctionTheorems

\* The characters; the prover does not know that a literal is in STRING.
Chars == STRING \cup {"nul", "cr", "lf", "CL", "TE", "://", ":", "/", "#"}

-----------------------------------------------------------------------------
(* Short texts. *)

\* A text of two characters.
LEMMA TwoChars ==
    ASSUME NEW S, NEW a \in S, NEW b \in S
    PROVE  /\ <<a, b>> \in Seq(S) /\ Len(<<a, b>>) = 2
           /\ <<a, b>>[1] = a /\ <<a, b>>[2] = b
OBVIOUS

\* A text of one character.
LEMMA OneChar ==
    ASSUME NEW S, NEW a \in S
    PROVE  <<a>> \in Seq(S) /\ Len(<<a>>) = 1 /\ <<a>>[1] = a
OBVIOUS

-----------------------------------------------------------------------------
(* strstr() on a text that is still arriving. *)

\* x is the first place of `part` in s from f on, or 0 when there is none before
\* a zero byte.
IsFirst(x, s, f, part) ==
    LET matches(k) == /\ SubSeq(s, k, k + Len(part) - 1) = part
                      /\ \A j \in f .. k - 1 : s[j] # "nul"
    IN  \/ x = 0 /\ \A k \in f .. Len(s) + 1 - Len(part) : ~ matches(k)
        \/ /\ x \in f .. Len(s) + 1 - Len(part) /\ matches(x)
           /\ \A k \in f .. x - 1 : ~ matches(k)

\* It finds the first match, or 0 when there is none.
LEMMA StrstrFacts ==
    ASSUME NEW S, NEW s \in Seq(S), NEW f \in Nat, NEW part \in Seq(S)
    PROVE  IsFirst(Strstr(s, f, part), s, f, part)
<1> DEFINE matches(k) == /\ SubSeq(s, k, k + Len(part) - 1) = part
                         /\ \A j \in f .. k - 1 : s[j] # "nul"
           at == {k \in f .. Len(s) + 1 - Len(part) : matches(k)}
<1>1. Len(s) \in Nat /\ Len(part) \in Nat
    BY LenProperties
<1>2. at \in SUBSET Nat
    BY <1>1
<1>3. Strstr(s, f, part) = IF at = {} THEN 0 ELSE Min(at)
    BY DEF Strstr
<1>4. CASE at = {}
    BY <1>3, <1>4 DEF IsFirst
<1>5. CASE at # {}
    <2>1. Min(at) \in at /\ \A k \in at : Min(at) <= k
        BY <1>2, <1>5, MinOfNats
    <2>2. \A k \in f .. Min(at) - 1 : ~ matches(k)
        <3>1. ASSUME NEW k \in f .. Min(at) - 1, matches(k)
              PROVE  FALSE
            <4>1. Min(at) \in f .. Len(s) + 1 - Len(part)
                BY <2>1
            <4>2. k \in at /\ k < Min(at)
                BY <1>1, <3>1, <4>1
            <4> HIDE DEF at
            <4> QED BY <1>1, <2>1, <4>1, <4>2
        <3> QED BY <3>1
    <2> QED BY <1>3, <1>5, <2>1, <2>2 DEF IsFirst
<1> QED BY <1>4, <1>5

\* What is found in a beginning of a text is found in all of it, and the other
\* way round when it has arrived.
LEMMA StrstrOfBeginning ==
    ASSUME NEW S, NEW s \in Seq(S), NEW n \in 0 .. Len(s), NEW f \in Nat \ {0},
           NEW part \in Seq(S), part # <<>>
    PROVE  Strstr(SubSeq(s, 1, n), f, part) =
              IF Strstr(s, f, part) # 0 /\ Strstr(s, f, part) + Len(part) - 1 <= n
              THEN Strstr(s, f, part) ELSE 0
<1> DEFINE r == SubSeq(s, 1, n)
           l == Len(part)
           inS(k) == /\ SubSeq(s, k, k + l - 1) = part
                     /\ \A j \in f .. k - 1 : s[j] # "nul"
           inR(k) == /\ SubSeq(r, k, k + l - 1) = part
                     /\ \A j \in f .. k - 1 : r[j] # "nul"
           x == Strstr(s, f, part)
           y == Strstr(r, f, part)
<1>1. /\ r \in Seq(S) /\ Len(r) = n /\ Len(s) \in Nat /\ l \in Nat \ {0}
      /\ \A a \in 1 .. n + 1 : \A b \in a - 1 .. n : SubSeq(r, a, b) = SubSeq(s, a, b)
    BY BeginningFacts, EmptySeq
<1>2. \A k \in f .. n + 1 - l : inR(k) <=> inS(k)
    <2>1. ASSUME NEW k \in f .. n + 1 - l
          PROVE  inR(k) <=> inS(k)
        <3>1. k \in 1 .. n + 1 /\ k + l - 1 \in k - 1 .. n
            BY <1>1
        <3>2. \A j \in f .. k - 1 : j \in 1 .. n
            BY <1>1
        <3>3. \A j \in 1 .. n : r[j] = s[j]
            BY BeginningFacts
        <3> HIDE DEF r, l
        <3>4. SubSeq(r, k, k + l - 1) = SubSeq(s, k, k + l - 1)
            BY <1>1, <3>1
        <3>5. \A j \in f .. k - 1 : r[j] = s[j]
            BY <3>2, <3>3
        <3> QED BY <3>4, <3>5
    <2> QED BY <2>1
<1>3. \/ x = 0 /\ \A k \in f .. Len(s) + 1 - l : ~ inS(k)
      \/ /\ x \in f .. Len(s) + 1 - l /\ inS(x)
         /\ \A k \in f .. x - 1 : ~ inS(k)
    <2>1. f \in Nat
        OBVIOUS
    <2>2. IsFirst(x, s, f, part)
        BY <2>1, StrstrFacts
    <2> QED BY <2>2 DEF IsFirst
<1>4. \/ y = 0 /\ \A k \in f .. Len(r) + 1 - l : ~ inR(k)
      \/ /\ y \in f .. Len(r) + 1 - l /\ inR(y)
         /\ \A k \in f .. y - 1 : ~ inR(k)
    <2>1. f \in Nat
        OBVIOUS
    <2>2. IsFirst(y, r, f, part)
        BY <1>1, <2>1, StrstrFacts
    <2> QED BY <2>2 DEF IsFirst
<1> HIDE DEF r, x, y, inS, inR, l
<1>5. CASE y = 0
    <2>1. \A k \in f .. n + 1 - l : ~ inR(k)
        BY <1>1, <1>4, <1>5
    <2>2. x # 0 => x + l - 1 > n
        <3>1. ASSUME x # 0, x + l - 1 <= n
              PROVE  FALSE
            <4>1. x \in f .. Len(s) + 1 - l /\ inS(x)
                BY <1>3, <3>1
            <4>2. x \in f .. n + 1 - l
                BY <1>1, <3>1, <4>1
            <4> QED BY <1>2, <2>1, <4>1, <4>2
        <3>2. x \in Nat
            BY <1>1, <1>3
        <3> QED BY <1>1, <3>1, <3>2
    <2>3. y = IF x # 0 /\ x + l - 1 <= n THEN x ELSE 0
        BY <1>1, <1>3, <1>5, <2>2
    <2> QED BY <2>3 DEF r, x, y, l
<1>6. CASE y # 0
    <2>1. y \in f .. n + 1 - l /\ inR(y) /\ \A k \in f .. y - 1 : ~ inR(k)
        BY <1>1, <1>4, <1>6
    <2>2. inS(y) /\ \A k \in f .. y - 1 : ~ inS(k)
        <3>1. inS(y)
            BY <1>2, <2>1
        <3>2. \A k \in f .. y - 1 : k \in f .. n + 1 - l
            BY <1>1, <2>1
        <3> QED BY <1>2, <2>1, <3>1, <3>2
    <2>3. x = y
        <3>1. y \in f .. Len(s) + 1 - l
            BY <1>1, <2>1
        <3>2. x # 0
            BY <1>3, <2>2, <3>1
        <3>3. x \in f .. Len(s) + 1 - l /\ inS(x) /\ \A k \in f .. x - 1 : ~ inS(k)
            BY <1>3, <3>2
        <3>4. ~ x < y
            BY <1>1, <2>1, <2>2, <3>3
        <3>5. ~ y < x
            BY <1>1, <2>1, <2>2, <3>3
        <3> QED BY <1>1, <2>1, <3>3, <3>4, <3>5
    <2>4. y = IF x # 0 /\ x + l - 1 <= n THEN x ELSE 0
        BY <1>1, <2>1, <2>3
    <2> QED BY <2>4 DEF r, x, y, l
<1> QED BY <1>5, <1>6

\* The headers are the same however much of the body has arrived behind them.
LEMMA HeadersStay ==
    ASSUME NEW s \in Seq(Chars), NEW n \in 0 .. Len(s)
    PROVE  LET r == SubSeq(s, 1, n)
           IN  /\ HeaderEnd(s) \in Nat
               /\ HeaderEnd(s) # 0 => HeaderEnd(s) + 3 <= Len(s)
               /\ HeaderEnd(r) # 0 =>
                     /\ HeaderEnd(r) = HeaderEnd(s) /\ HeaderEnd(s) + 3 <= n
                     /\ Declared(r) = Declared(s)
               /\ HeaderEnd(r) = 0 => HeaderEnd(s) = 0 \/ n < HeaderEnd(s) + 3
<1> DEFINE r == SubSeq(s, 1, n)
           empty == CrLf \o CrLf
           e == HeaderEnd(s)
<1>1. empty \in Seq(Chars) /\ empty # <<>> /\ Len(empty) = 4
    <2>1. CrLf \in Seq(Chars) /\ Len(CrLf) = 2
        <3>1. "cr" \in Chars /\ "lf" \in Chars
            BY DEF Chars
        <3> QED BY <3>1, TwoChars, Zenon DEF CrLf
    <2>2. CrLf \o CrLf \in Seq(Chars) /\ Len(CrLf \o CrLf) = Len(CrLf) + Len(CrLf)
        BY <2>1, ConcatProperties, Zenon
    <2> QED BY <2>1, <2>2, EmptySeq
<1>2. HeaderEnd(r) = IF e # 0 /\ e + Len(empty) - 1 <= n THEN e ELSE 0
    <2> HIDE DEF empty
    <2>1. Strstr(r, 1, empty) = IF Strstr(s, 1, empty) # 0 /\ Strstr(s, 1, empty) + Len(empty) - 1 <= n
                                THEN Strstr(s, 1, empty) ELSE 0
        <3> 1 \in Nat \ {0}
            OBVIOUS
        <3> QED BY <1>1, StrstrOfBeginning, Zenon
    <2> QED BY <2>1 DEF HeaderEnd, empty
<1>3. e \in Nat /\ (e # 0 => e \in 1 .. Len(s) + 1 - 4) /\ Len(s) \in Nat
    <2> HIDE DEF empty
    <2>1. Strstr(s, 1, empty) = 0 \/ Strstr(s, 1, empty) \in 1 .. Len(s) + 1 - Len(empty)
        BY <1>1, StrstrFacts DEF IsFirst
    <2>2. e = 0 \/ e \in 1 .. Len(s) + 1 - 4
        BY <1>1, <2>1 DEF HeaderEnd, empty
    <2> QED BY <2>2, LenProperties
<1>4. ASSUME HeaderEnd(r) # 0
      PROVE  Declared(r) = Declared(s)
    <2> DEFINE head == SubSeq(s, 1, e - 1)
               length == Strstr(head, 1, <<"lf", "CL">>)
    <2>1. HeaderEnd(r) = e /\ e # 0 /\ e + 3 <= n /\ e - 1 \in 0 .. n /\ e - 1 \in 0 .. Len(s)
        BY <1>1, <1>2, <1>3, <1>4
    <2>2. SubSeq(r, 1, e - 1) = head
        BY <1>3, <2>1, BeginningFacts
    <2>3. head \in Seq(Chars) /\ Len(head) = e - 1
        BY <2>1, BeginningFacts
    <2>4. length # 0 => length + 2 \in 1 .. n
        <3>1. <<"lf", "CL">> \in Seq(Chars) /\ Len(<<"lf", "CL">>) = 2
            <4>1. "lf" \in Chars /\ "CL" \in Chars
                BY DEF Chars
            <4> QED BY <4>1, TwoChars, Zenon
        <3> HIDE DEF head
        <3>2. length = 0 \/ length \in 1 .. Len(head) + 1 - Len(<<"lf", "CL">>)
            <4> 1 \in Nat
                OBVIOUS
            <4> QED BY <2>3, <3>1, StrstrFacts DEF IsFirst
        <3>3. length = 0 \/ length \in 1 .. Len(head) + 1 - 2
            BY <3>1, <3>2
        <3> QED BY <1>3, <2>1, <2>3, <3>3
    <2>5. length # 0 => r[length + 2] = s[length + 2]
        <3>1. \A k \in 1 .. n : r[k] = s[k]
            BY BeginningFacts
        <3> HIDE DEF length, r
        <3> QED BY <2>4, <3>1
    <2> QED BY <2>1, <2>2, <2>5 DEF Declared
<1> QED BY <1>1, <1>2, <1>3, <1>4

-----------------------------------------------------------------------------
(* What parse_url() makes of a URL. *)

\* s followed by t: a name that keeps concatenation out of the reasoning.
Cat(s, t) == s \o t

\* A text in three parts.
LEMMA ThreeParts ==
    ASSUME NEW r \in Seq(Chars), NEW s \in Seq(Chars), NEW t \in Seq(Chars)
    PROVE  LET x == Cat(r, Cat(s, t))
           IN  /\ Len(r) \in Nat /\ Len(s) \in Nat /\ Len(t) \in Nat
               /\ x \in Seq(Chars) /\ Len(x) = Len(r) + Len(s) + Len(t)
               /\ \A k \in 1 .. Len(s) : x[Len(r) + k] = s[k]
               /\ Len(t) > 0 => x[Len(r) + Len(s) + 1] = t[1]
               /\ SubSeq(x, Len(r) + 1, Len(r) + Len(s)) = s
<1> DEFINE y == s \o t
           x == r \o y
<1>1. Len(r) \in Nat /\ Len(s) \in Nat /\ Len(t) \in Nat
    BY LenProperties
<1>2. /\ y \in Seq(Chars) /\ Len(y) = Len(s) + Len(t)
      /\ \A k \in 1 .. Len(s) + Len(t) : y[k] = IF k <= Len(s) THEN s[k] ELSE t[k - Len(s)]
    BY ConcatProperties
<1> HIDE DEF y
<1>3. /\ x \in Seq(Chars) /\ Len(x) = Len(r) + Len(y)
      /\ \A k \in 1 .. Len(r) + Len(y) : x[k] = IF k <= Len(r) THEN r[k] ELSE y[k - Len(r)]
    <2>1. y \in Seq(Chars)
        BY <1>2
    <2> QED BY <2>1, ConcatProperties
<1> HIDE DEF x
<1>4. \A k \in 1 .. Len(s) : x[Len(r) + k] = s[k]
    <2>1. ASSUME NEW k \in 1 .. Len(s)
          PROVE  x[Len(r) + k] = s[k]
        <3>1. Len(r) + k \in 1 .. Len(r) + Len(y) /\ ~ Len(r) + k <= Len(r) /\ Len(r) + k - Len(r) = k
            BY <1>1, <1>2
        <3>2. k \in 1 .. Len(s) + Len(t) /\ k <= Len(s)
            BY <1>1
        <3>3. x[Len(r) + k] = y[k]
            BY ONLY <1>3, <3>1, SMTT(20)
        <3>4. y[k] = s[k]
            BY ONLY <1>2, <3>2, SMTT(20)
        <3> QED BY ONLY <3>3, <3>4
    <2> QED BY <2>1
<1>5. ASSUME Len(t) > 0
      PROVE  x[Len(r) + Len(s) + 1] = t[1]
    <2> DEFINE i == Len(r) + Len(s) + 1
    <2>1. Len(t) > 0
        BY <1>5
    <2>2. i \in 1 .. Len(r) + Len(y) /\ ~ i <= Len(r) /\ i - Len(r) = Len(s) + 1
        BY <1>1, <1>2, <2>1
    <2>3. Len(s) + 1 \in 1 .. Len(s) + Len(t) /\ ~ Len(s) + 1 <= Len(s) /\ Len(s) + 1 - Len(s) = 1
        BY <1>1, <2>1
    <2> HIDE DEF i
    <2>4. x[i] = y[Len(s) + 1]
        BY <1>3, <2>2
    <2>5. y[Len(s) + 1] = t[1]
        BY <1>2, <2>3
    <2> QED BY <2>1, <2>4, <2>5 DEF i
<1>6. SubSeq(x, Len(r) + 1, Len(r) + Len(s)) = s
    <2> DEFINE a == Len(r) + 1
               b == Len(r) + Len(s)
    <2>1. a \in 1 .. Len(x) + 1 /\ b \in a - 1 .. Len(x) /\ b - a + 1 = Len(s)
        BY <1>1, <1>2, <1>3
    <2>2. \A k \in 1 .. Len(s) : a + k - 1 = Len(r) + k
        BY <1>1
    <2> HIDE DEF a, b
    <2>3. /\ SubSeq(x, a, b) \in Seq(Chars) /\ Len(SubSeq(x, a, b)) = b - a + 1
          /\ \A k \in 1 .. b - a + 1 : SubSeq(x, a, b)[k] = x[a + k - 1]
        BY <1>3, <2>1, PartFacts
    <2>4. \A k \in 1 .. Len(s) : SubSeq(x, a, b)[k] = s[k]
        BY <1>4, <2>1, <2>2, <2>3
    <2>5. SubSeq(x, a, b) = s
        BY <2>1, <2>3, <2>4, SeqEqual
    <2> QED BY <2>5 DEF a, b
<1>7. Len(x) = Len(r) + Len(s) + Len(t)
    BY ONLY <1>1, <1>2, <1>3
<1> QED BY ONLY <1>1, <1>3, <1>4, <1>5, <1>6, <1>7 DEF x, y, Cat

\* The search from a place on passes a part that has none of the characters, and
\* stops at what follows it.
LEMMA FirstBehind ==
    ASSUME NEW r \in Seq(Chars), NEW s \in Seq(Chars), NEW t \in Seq(Chars), NEW chars,
           \A k \in 1 .. Len(s) : s[k] \notin chars,
           Len(t) > 0 => t[1] \in chars
    PROVE  FirstOf(chars, Cat(r, Cat(s, t)), Len(r) + 1) = Len(r) + Len(s) + 1
<1> DEFINE x == Cat(r, Cat(s, t))
           i == Len(r) + Len(s) + 1
           F == {k \in Len(r) + 1 .. Len(x) : x[k] \in chars} \cup {Len(x) + 1}
<1>1. /\ Len(r) \in Nat /\ Len(s) \in Nat /\ Len(t) \in Nat
      /\ Len(x) = Len(r) + Len(s) + Len(t)
      /\ \A k \in 1 .. Len(s) : x[Len(r) + k] = s[k]
      /\ Len(t) > 0 => x[i] = t[1]
    BY ThreeParts
<1> HIDE DEF x
<1>3. F \in SUBSET Nat /\ F # {}
    BY <1>1
<1>4. i \in F
    <2>1. CASE Len(t) = 0
        BY <1>1, <2>1
    <2>2. CASE Len(t) > 0
        BY <1>1, <2>2
    <2> QED BY <1>1, <2>1, <2>2
<1>5. \A k \in F : k >= i
    <2>1. ASSUME NEW k \in F, k < i
          PROVE  FALSE
        <3>1. k \in Len(r) + 1 .. Len(x) /\ x[k] \in chars
            BY <1>1, <2>1
        <3>2. k - Len(r) \in 1 .. Len(s) /\ Len(r) + (k - Len(r)) = k
            BY <1>1, <2>1, <3>1
        <3>3. x[k] = s[k - Len(r)]
            BY <1>1, <3>2
        <3> QED BY <3>1, <3>2, <3>3
    <2>2. \A k \in F : k \in Nat
        BY <1>3
    <2> QED BY <1>1, <2>1, <2>2
<1>6. Min(F) \in F /\ \A k \in F : Min(F) <= k
    BY <1>3, MinOfNats
<1>7. Min(F) = i
    <2> DEFINE m == Min(F)
    <2> HIDE DEF F
    <2>1. m >= i /\ m <= i /\ m \in Nat /\ i \in Nat
        BY <1>1, <1>3, <1>4, <1>5, <1>6
    <2> HIDE DEF m, i
    <2>2. m = i
        BY <2>1
    <2> QED BY <2>2 DEF m
<1> QED BY <1>7 DEF FirstOf, x

\* A mark and what it introduces, when there is anything.
After(mark, part) == IF part = <<>> THEN <<>> ELSE <<mark>> \o part

\* A part that is there begins with its mark, one that is not leaves no trace.
LEMMA AfterFacts ==
    ASSUME NEW mark \in Chars, NEW part \in Seq(Chars), NEW rest \in Seq(Chars)
    PROVE  /\ After(mark, part) \in Seq(Chars) /\ Cat(After(mark, part), rest) \in Seq(Chars)
           /\ part # <<>> =>
                 /\ Len(Cat(After(mark, part), rest)) > 0 /\ Cat(After(mark, part), rest)[1] = mark
                 /\ Len(After(mark, part)) = Len(part) + 1
                 /\ \A k \in 1 .. Len(part) + 1 :
                       After(mark, part)[k] = IF k = 1 THEN mark ELSE part[k - 1]
           /\ part = <<>> => Len(After(mark, part)) = 0 /\ Cat(After(mark, part), rest) = rest
<1>1. Len(part) \in Nat /\ Len(rest) \in Nat
    BY LenProperties
<1>2. CASE part = <<>>
    <2>1. After(mark, part) = <<>>
        BY <1>2 DEF After
    <2>2. <<>> \in Seq(Chars) /\ Len(<<>>) = 0 /\ Cat(<<>>, rest) = rest
        BY EmptySeq, ConcatEmptySeq DEF Cat
    <2> QED BY <1>2, <2>1, <2>2
<1>3. CASE part # <<>>
    <2> DEFINE x == <<mark>> \o part
    <2>1. x \in Seq(Chars) /\ Len(x) = Len(part) + 1 /\ x[1] = mark /\ \A i \in 1 .. Len(part) : x[i + 1] = part[i]
        BY PrependFacts
    <2> HIDE DEF x
    <2>2. /\ x \o rest \in Seq(Chars) /\ Len(x \o rest) = Len(x) + Len(rest)
          /\ \A i \in 1 .. Len(x) + Len(rest) :
                (x \o rest)[i] = IF i <= Len(x) THEN x[i] ELSE rest[i - Len(x)]
        BY <2>1, ConcatProperties
    <2>3. (x \o rest)[1] = mark /\ Len(x \o rest) > 0
        <3>1. 1 \in 1 .. Len(x) + Len(rest) /\ 1 <= Len(x)
            BY <1>1, <2>1
        <3> QED BY <1>1, <2>1, <2>2, <3>1
    <2>5. \A k \in 1 .. Len(part) + 1 : x[k] = IF k = 1 THEN mark ELSE part[k - 1]
        <3>1. ASSUME NEW k \in 1 .. Len(part) + 1, k # 1
              PROVE  x[k] = part[k - 1]
            <4>1. k - 1 \in 1 .. Len(part) /\ k - 1 + 1 = k
                BY <1>1, <3>1
            <4> QED BY <2>1, <4>1
        <3> QED BY <2>1, <3>1
    <2>6. After(mark, part) = x
        BY <1>3 DEF After, x
    <2> QED BY <1>3, <2>1, <2>2, <2>3, <2>5, <2>6 DEF Cat
<1> QED BY <1>2, <1>3

\* What follows a part that is there begins with the mark.
LEMMA AfterSome ==
    ASSUME NEW mark \in Chars, NEW part \in Seq(Chars), NEW rest \in Seq(Chars), part # <<>>
    PROVE  Len(Cat(After(mark, part), rest)) > 0 /\ Cat(After(mark, part), rest)[1] = mark
BY AfterFacts

\* A part that is not there is not seen.
LEMMA AfterNone ==
    ASSUME NEW mark, NEW rest \in Seq(Chars)
    PROVE  Cat(After(mark, <<>>), rest) = rest
BY ConcatEmptySeq DEF After, Cat

\* Two texts, one behind the other.
LEMMA CatFacts ==
    ASSUME NEW s \in Seq(Chars), NEW t \in Seq(Chars)
    PROVE  /\ Len(s) \in Nat /\ Len(t) \in Nat
           /\ Cat(s, t) \in Seq(Chars) /\ Len(Cat(s, t)) = Len(s) + Len(t)
           /\ \A k \in 1 .. Len(s) + Len(t) :
                 Cat(s, t)[k] = IF k <= Len(s) THEN s[k] ELSE t[k - Len(s)]
BY ConcatProperties, LenProperties DEF Cat

\* Texts one behind the other, grouped either way.
LEMMA CatAssociative ==
    ASSUME NEW s \in Seq(Chars), NEW t \in Seq(Chars), NEW u \in Seq(Chars)
    PROVE  Cat(Cat(s, t), u) = Cat(s, Cat(t, u))
BY ConcatAssociative, SMTT(20) DEF Cat

\* Characters that neither text has, their concatenation has not.
LEMMA CatNone ==
    ASSUME NEW s \in Seq(Chars), NEW t \in Seq(Chars), NEW chars,
           \A k \in 1 .. Len(s) : s[k] \notin chars, \A k \in 1 .. Len(t) : t[k] \notin chars
    PROVE  \A k \in 1 .. Len(Cat(s, t)) : Cat(s, t)[k] \notin chars
<1> SUFFICES ASSUME NEW k \in 1 .. Len(Cat(s, t))
             PROVE  Cat(s, t)[k] \notin chars
    OBVIOUS
<1>1. Len(s) \in Nat /\ Len(t) \in Nat /\ k \in 1 .. Len(s) + Len(t)
    BY CatFacts
<1>2. Cat(s, t)[k] = IF k <= Len(s) THEN s[k] ELSE t[k - Len(s)]
    BY <1>1, CatFacts
<1>3. CASE k <= Len(s)
    BY <1>1, <1>2, <1>3
<1>4. CASE ~ k <= Len(s)
    <2>1. k - Len(s) \in 1 .. Len(t)
        BY <1>1, <1>4
    <2> QED BY <1>2, <1>4, <2>1
<1> QED BY <1>3, <1>4

\* Nor has the part with its mark, when they are other characters than the mark.
LEMMA AfterNoMark ==
    ASSUME NEW mark \in Chars, NEW part \in Seq(Chars), NEW chars, mark \notin chars,
           \A k \in 1 .. Len(part) : part[k] \notin chars
    PROVE  \A k \in 1 .. Len(After(mark, part)) : After(mark, part)[k] \notin chars
<1>1. CASE part = <<>>
    BY <1>1, EmptySeq DEF After
<1>2. CASE part # <<>>
    <2> DEFINE x == <<mark>>
    <2>1. x \in Seq(Chars) /\ Len(x) = 1 /\ x[1] = mark
        BY OneChar
    <2>2. After(mark, part) = Cat(x, part)
        BY <1>2 DEF After, Cat
    <2>3. \A k \in 1 .. Len(x) : x[k] \notin chars
        BY <2>1
    <2> HIDE DEF x
    <2> QED BY <2>1, <2>2, <2>3, CatNone
<1> QED BY <1>1, <1>2

\* What stands in a text between x, which a mark follows, and t.
IsInside(part, x, a, t) == SubSeq(Cat(x, Cat(a, t)), Len(x) + 2, Len(x) + Len(a)) = part

\* A part can be read behind its mark.
LEMMA AfterInside ==
    ASSUME NEW x \in Seq(Chars), NEW mark \in Chars, NEW part \in Seq(Chars), part # <<>>,
           NEW t \in Seq(Chars)
    PROVE  IsInside(part, x, After(mark, part), t)
<1> DEFINE m == <<mark>>
           a == After(mark, part)
           y == Cat(x, m)
<1>1. m \in Seq(Chars) /\ Len(m) = 1
    BY OneChar
<1>2. a = Cat(m, part)
    BY DEF After, Cat
<1> HIDE DEF m, a
<1>3. Len(x) \in Nat /\ Len(part) \in Nat /\ Len(a) = 1 + Len(part)
    BY <1>1, <1>2, CatFacts
<1>0. x \in Seq(Chars)
    OBVIOUS
<1>4. y \in Seq(Chars) /\ Len(y) = Len(x) + 1
    <2>1. m \in Seq(Chars)
        BY <1>1
    <2>2. y \in Seq(Chars)
        BY ONLY <1>0, <2>1, CatFacts
    <2>3. Len(y) = Len(x) + Len(m)
        BY ONLY <1>0, <2>1, CatFacts
    <2> QED BY <1>1, <2>2, <2>3
<1>5. Cat(x, Cat(a, t)) = Cat(y, Cat(part, t))
    <2>1. Cat(part, t) \in Seq(Chars)
        BY CatFacts
    <2>2. Cat(a, t) = Cat(m, Cat(part, t))
        BY <1>1, <1>2, CatAssociative
    <2>3. Cat(x, Cat(m, Cat(part, t))) = Cat(y, Cat(part, t))
        BY <1>1, <2>1, CatAssociative
    <2> QED BY <2>2, <2>3
<1> HIDE DEF y
<1>6. SubSeq(Cat(y, Cat(part, t)), Len(y) + 1, Len(y) + Len(part)) = part
    BY <1>4, ThreeParts
<1>7. Len(y) + 1 = Len(x) + 2 /\ Len(y) + Len(part) = Len(x) + Len(a)
    BY <1>3, <1>4
<1> QED BY <1>5, <1>6, <1>7 DEF a, IsInside

\* None is found.
LEMMA FirstOfNone ==
    ASSUME NEW s \in Seq(Chars), NEW chars, \A k \in 1 .. Len(s) : s[k] \notin chars
    PROVE  FirstOf(chars, s, 1) = Len(s) + 1
<1>1. Len(s) \in Nat
    BY LenProperties
<1> DEFINE F == {k \in 1 .. Len(s) : s[k] \in chars} \cup {Len(s) + 1}
<1>2. F = {Len(s) + 1} /\ F \in SUBSET Nat /\ F # {}
    BY <1>1
<1>3. Min(F) \in F
    BY <1>2, MinOfNats
<1> QED BY <1>2, <1>3 DEF FirstOf

\* The second is the first.
LEMMA FirstOfSecond ==
    ASSUME NEW s \in Seq(Chars), NEW chars, Len(s) >= 2, s[1] \notin chars, s[2] \in chars
    PROVE  FirstOf(chars, s, 1) = 2
<1>1. Len(s) \in Nat
    BY LenProperties
<1> DEFINE F == {k \in 1 .. Len(s) : s[k] \in chars} \cup {Len(s) + 1}
           m == Min(F)
<1>2. F \in SUBSET Nat /\ 2 \in F /\ 1 \notin F /\ 0 \notin F
    BY <1>1
<1>3. m \in F /\ m <= 2
    BY <1>2, MinOfNats
<1>4. m \in Nat /\ m # 0 /\ m # 1
    <2> HIDE DEF F, m
    <2> QED BY <1>2, <1>3
<1>5. m = 2
    <2> HIDE DEF m
    <2> QED BY <1>3, <1>4
<1> QED BY <1>5 DEF FirstOf

\* What is parsed names host, port and path.
IsParsed(parsed, host, port, path) ==
    parsed = [protocol |-> parsed.protocol, host |-> host,
              port |-> IF port = <<>> THEN <<"80">> ELSE port, path |-> path]

\* parse_url() finds the parts that a text was put together from.
LEMMA ParseParts ==
    ASSUME NEW protocol \in Chars, protocol # "://",
           NEW p \in Seq(Chars), Len(p) = IF protocol = "" THEN 0 ELSE 2,
           Len(p) = 2 => p[1] = protocol /\ p[2] = "://",
           NEW h \in Seq(Chars), \A k \in 1 .. Len(h) : h[k] \notin {"://", ":", "/", "#"},
           NEW q \in Seq(Chars), \A k \in 1 .. Len(q) : q[k] \notin {"://", "/", "#"},
           NEW w \in Seq(Chars), \A k \in 1 .. Len(w) : w[k] \notin {"://"},
           NEW c \in Seq(Chars), \A k \in 1 .. Len(c) : c[k] \notin {"://"},
           Len(c) > 0 => w = <<>> /\ c[1] = "#"
    PROVE  IsParsed(ParseUrl(Cat(p, Cat(h, Cat(After(":", q), Cat(After("/", w), c))))), h, q, w)
<1> DEFINE a == After(":", q)
           b == After("/", w)
           t == Cat(b, c)
           r == Cat(a, t)
           text == Cat(p, Cat(h, r))
<1>0. p \in Seq(Chars) /\ h \in Seq(Chars) /\ q \in Seq(Chars) /\ w \in Seq(Chars) /\ c \in Seq(Chars)
    OBVIOUS
<1>1. "://" \in Chars /\ ":" \in Chars /\ "/" \in Chars /\ "#" \in Chars
    BY DEF Chars
<1>2. a \in Seq(Chars) /\ b \in Seq(Chars) /\ t \in Seq(Chars)
    BY <1>1, AfterFacts
<1>3. /\ w # <<>> => Len(t) > 0 /\ t[1] = "/"
      /\ w = <<>> => t = c
    <2>1. ASSUME w # <<>>
          PROVE  Len(t) > 0 /\ t[1] = "/"
        BY ONLY <1>0, <1>1, <2>1, AfterSome, SMTT(20)
    <2>2. ASSUME w = <<>>
          PROVE  t = c
        BY <2>2, AfterNone
    <2> QED BY <2>1, <2>2
<1> HIDE DEF t
<1>4. r \in Seq(Chars)
    BY <1>1, <1>2, AfterFacts
<1>5. /\ q # <<>> => Len(r) > 0 /\ r[1] = ":"
      /\ q = <<>> => r = t
    <2>1. ASSUME q # <<>>
          PROVE  Len(r) > 0 /\ r[1] = ":"
        BY ONLY <1>0, <1>1, <1>2, <2>1, AfterSome
    <2>2. ASSUME q = <<>>
          PROVE  r = t
        BY <1>2, <2>2, AfterNone
    <2> QED BY <2>1, <2>2
<1> DEFINE host == Len(p) + 1
           colon == Len(p) + Len(h) + 1
           slash == Len(p) + Len(h) + Len(a) + 1
<1> HIDE DEF r
<1>11. /\ Len(p) \in Nat /\ Len(h) \in Nat /\ Len(r) \in Nat
       /\ Len(text) = Len(p) + Len(h) + Len(r)
       /\ Len(r) > 0 => text[colon] = r[1]
       /\ SubSeq(text, host, Len(p) + Len(h)) = h
    BY ONLY <1>0, <1>4, ThreeParts, SMTT(30)
<1>12. SubSeq(text, host, colon - 1) = h
    <2>1. colon - 1 = Len(p) + Len(h)
        BY ONLY <1>11
    <2> QED BY ONLY <1>11, <2>1
<1>13. FirstOf({":", "/", "#"}, text, host) = colon
    <2> DEFINE ends == {":", "/", "#"}
    <2>1. Len(r) > 0 => r[1] \in ends
        BY <1>3, <1>5
    <2>2. \A k \in 1 .. Len(h) : h[k] \notin ends
        OBVIOUS
    <2> HIDE DEF ends
    <2>3. FirstOf(ends, text, host) = colon
        BY ONLY <1>0, <1>4, <2>1, <2>2, FirstBehind, ZenonT(30)
    <2> QED BY ONLY <2>3 DEF ends
<1>14. colon <= Len(text) /\ text[colon] = ":" <=> q # <<>>
    <2> HIDE DEF text
    <2>1. ASSUME q # <<>>
          PROVE  Len(r) > 0 /\ r[1] = ":"
        BY <1>5, <2>1
    <2>2. ASSUME q # <<>>
          PROVE  colon <= Len(text) /\ text[colon] = ":"
        BY ONLY <1>11, <2>1, <2>2
    <2>3. ASSUME q = <<>>
          PROVE  Len(r) > 0 => r[1] # ":"
        BY <1>3, <1>5, <2>3
    <2>4. ASSUME q = <<>>, colon <= Len(text)
          PROVE  text[colon] # ":"
        BY ONLY <1>11, <2>3, <2>4
    <2> QED BY <2>2, <2>4
<1> DEFINE x == Cat(p, h)
<1>20. x \in Seq(Chars) /\ Len(x) = Len(p) + Len(h)
    BY ONLY <1>0, CatFacts
<1>21. Cat(x, Cat(a, t)) = text
    <2>1. Cat(x, r) = Cat(p, Cat(h, r))
        BY ONLY <1>0, <1>4, CatAssociative
    <2> QED BY <2>1 DEF r
<1>22. \A k \in 1 .. Len(a) : a[k] \notin {"/", "#"}
    <2> DEFINE marks == {"/", "#"}
    <2>1. ":" \notin marks /\ \A k \in 1 .. Len(q) : q[k] \notin marks
        OBVIOUS
    <2> HIDE DEF marks
    <2>2. \A k \in 1 .. Len(a) : a[k] \notin marks
        BY ONLY <1>0, <1>1, <2>1, AfterNoMark
    <2> QED BY <2>2 DEF marks
<1>23. Len(t) > 0 => t[1] \in {"/", "#"}
    BY <1>3
<1>24. q # <<>> => SubSeq(text, colon + 1, slash - 1) = q
    <2>1. ASSUME q # <<>>
          PROVE  SubSeq(Cat(x, Cat(a, t)), Len(x) + 2, Len(x) + Len(a)) = q
        <3> HIDE DEF x
        <3>1. IsInside(q, x, a, t)
            BY ONLY <1>0, <1>1, <1>2, <1>20, <2>1, AfterInside
        <3> QED BY <3>1 DEF IsInside
    <2> HIDE DEF x, text, a, t
    <2>2. Len(x) + 2 = colon + 1 /\ Len(x) + Len(a) = slash - 1
        <3>1. Len(a) \in Nat
            BY ONLY <1>2, LenProperties
        <3> QED BY ONLY <1>11, <1>20, <3>1
    <2> QED BY ONLY <1>21, <2>1, <2>2
<1> HIDE DEF x, text, t
<1>25. w # <<>> => SubSeq(text, slash + 1, Len(text)) = w
    <2> DEFINE y == Cat(x, a)
    <2>1. y \in Seq(Chars) /\ Len(y) = Len(x) + Len(a) /\ Len(a) \in Nat
        BY ONLY <1>2, <1>20, CatFacts
    <2>2. Cat(y, t) = text
        BY ONLY <1>2, <1>20, <1>21, CatAssociative
    <2>3. Len(text) = Len(y) + (Len(b) + Len(c)) /\ Len(b) \in Nat /\ Len(c) \in Nat
        <3>1. Len(t) = Len(b) + Len(c) /\ Len(b) \in Nat /\ Len(c) \in Nat
            BY ONLY <1>0, <1>2, CatFacts DEF t
        <3>2. Len(text) = Len(y) + Len(t)
            <4> HIDE DEF y
            <4> QED BY ONLY <1>2, <2>1, <2>2, CatFacts
        <3> QED BY ONLY <3>1, <3>2
    <2>4. ASSUME w # <<>>
          PROVE  SubSeq(Cat(y, Cat(b, c)), Len(y) + 2, Len(y) + Len(b)) = w
        <3> HIDE DEF y
        <3>1. IsInside(w, y, b, c)
            BY ONLY <1>0, <1>1, <2>1, <2>4, AfterInside
        <3> QED BY <3>1 DEF IsInside
    <2>5. w # <<>> => ~ Len(c) > 0
        OBVIOUS
    <2> HIDE DEF y, a, b
    <2>6. Len(y) + 2 = slash + 1 /\ (w # <<>> => Len(y) + Len(b) = Len(text))
        <3>1. Len(p) \in Nat /\ Len(h) \in Nat
            BY <1>11
        <3>2. Len(y) + 2 = slash + 1
            BY ONLY <1>20, <2>1, <3>1
        <3>3. ASSUME w # <<>>
              PROVE  Len(y) + Len(b) = Len(text)
            <4>1. ~ Len(c) > 0
                BY <2>5, <3>3
            <4>2. Len(y) \in Nat
                BY ONLY <2>1, LenProperties
            <4>3. \A l, m, n \in Nat : ~ n > 0 => l + m = l + (m + n)
                BY ONLY <4>2, SMTT(20)
            <4> QED BY ONLY <2>3, <4>1, <4>2, <4>3, Zenon
        <3> QED BY ONLY <3>2, <3>3
    <2>7. t = Cat(b, c)
        BY DEF t, b
    <2> QED BY ONLY <2>2, <2>7, <2>4, <2>6
<1> HIDE DEF a
<1>6. FirstOf({"/", "#"}, text, colon) = slash
    <2> DEFINE marks == {"/", "#"}
    <2>1. x \in Seq(Chars) /\ a \in Seq(Chars) /\ t \in Seq(Chars)
        BY ONLY <1>2, <1>20
    <2>2. (\A k \in 1 .. Len(a) : a[k] \notin marks) /\ (Len(t) > 0 => t[1] \in marks)
        BY ONLY <1>22, <1>23
    <2> HIDE DEF marks
    <2>3. FirstOf(marks, Cat(x, Cat(a, t)), Len(x) + 1) = Len(x) + Len(a) + 1
        BY ONLY <2>1, <2>2, FirstBehind
    <2>4. Len(x) + 1 = colon /\ Len(x) + Len(a) + 1 = slash
        BY ONLY <1>11, <1>20
    <2> QED BY ONLY <1>21, <2>3, <2>4 DEF marks
<1>7. slash <= Len(text) /\ text[slash] = "/" <=> w # <<>>
    <2> DEFINE z == Cat(x, Cat(a, t))
    <2>0. /\ Len(x) \in Nat /\ Len(a) \in Nat /\ Len(t) \in Nat
          /\ Len(z) = Len(x) + Len(a) + Len(t)
          /\ Len(t) > 0 => z[Len(x) + Len(a) + 1] = t[1]
        <3>1. x \in Seq(Chars) /\ a \in Seq(Chars) /\ t \in Seq(Chars)
            BY ONLY <1>2, <1>20
        <3> QED BY ONLY <3>1, ThreeParts
    <2> HIDE DEF z
    <2>1. /\ Len(x) \in Nat /\ Len(a) \in Nat /\ Len(t) \in Nat
          /\ Len(text) = Len(x) + Len(a) + Len(t)
          /\ Len(t) > 0 => text[Len(x) + Len(a) + 1] = t[1]
        BY ONLY <1>21, <2>0 DEF z
    <2>2. slash = Len(x) + Len(a) + 1
        BY ONLY <1>11, <1>20
    <2> HIDE DEF slash
    <2>3. slash <= Len(text) <=> Len(t) > 0
        BY ONLY <2>1, <2>2
    <2>4. Len(t) > 0 => text[slash] = t[1]
        BY ONLY <2>1, <2>2
    <2>5. w = <<>> => (Len(t) > 0 => t[1] = "#")
        BY <1>3
    <2> QED BY <1>3, <2>3, <2>4, <2>5
<1>10. host = IF FirstOf({"://"}, text, 1) > Len(text) THEN 1 ELSE FirstOf({"://"}, text, 1) + 1
    <2> DEFINE marks == {"://"}
               y == Cat(h, Cat(a, t))
    <2>1. /\ \A k \in 1 .. Len(h) : h[k] \notin marks
          /\ \A k \in 1 .. Len(q) : q[k] \notin marks
          /\ \A k \in 1 .. Len(w) : w[k] \notin marks
          /\ \A k \in 1 .. Len(c) : c[k] \notin marks
          /\ ":" \notin marks /\ "/" \notin marks
        OBVIOUS
    <2>2. text = Cat(p, y)
        BY DEF text, r
    <2>3. y \in Seq(Chars)
        <3>1. Cat(a, t) \in Seq(Chars)
            BY ONLY <1>2, CatFacts
        <3> QED BY ONLY <1>0, <3>1, CatFacts
    <2>4. protocol = "" \/ (Len(p) = 2 /\ p[1] \notin marks /\ p[2] \in marks)
        OBVIOUS
    <2>5. protocol = "" => Len(p) = 0
        OBVIOUS
    <2> HIDE DEF marks
    <2>6. CASE protocol = ""
        <3>1. \A k \in 1 .. Len(a) : a[k] \notin marks
            BY ONLY <1>0, <1>1, <2>1, AfterNoMark DEF a
        <3>2. \A k \in 1 .. Len(b) : b[k] \notin marks
            BY ONLY <1>0, <1>1, <2>1, AfterNoMark
        <3> HIDE DEF b
        <3>3. \A k \in 1 .. Len(t) : t[k] \notin marks
            BY ONLY <1>0, <1>2, <2>1, <3>2, CatNone DEF t
        <3>4. \A k \in 1 .. Len(Cat(a, t)) : Cat(a, t)[k] \notin marks
            BY ONLY <1>2, <3>1, <3>3, CatNone
        <3>5. Cat(a, t) \in Seq(Chars)
            BY ONLY <1>2, CatFacts
        <3>6. \A k \in 1 .. Len(y) : y[k] \notin marks
            BY ONLY <1>0, <2>1, <3>4, <3>5, CatNone
        <3>7. Len(p) = 0
            BY <2>5, <2>6
        <3>8. \A k \in 1 .. Len(p) : p[k] \notin marks
            BY ONLY <3>7
        <3> HIDE DEF y
        <3>9. Cat(p, y) \in Seq(Chars) /\ \A k \in 1 .. Len(Cat(p, y)) : Cat(p, y)[k] \notin marks
            BY ONLY <1>0, <2>3, <3>6, <3>8, CatNone, CatFacts
        <3>10. FirstOf(marks, text, 1) = Len(text) + 1 /\ Len(text) \in Nat
            BY ONLY <2>2, <3>9, FirstOfNone, LenProperties
        <3> QED BY ONLY <3>7, <3>10 DEF marks
    <2>7. CASE protocol # ""
        <3> HIDE DEF y
        <3>1. Len(p) = 2 /\ p[1] \notin marks /\ p[2] \in marks
            BY <2>4, <2>7
        <3>2. /\ Cat(p, y) \in Seq(Chars) /\ Len(y) \in Nat /\ Len(Cat(p, y)) = 2 + Len(y)
              /\ Cat(p, y)[1] = p[1] /\ Cat(p, y)[2] = p[2]
            <4>1. /\ Cat(p, y) \in Seq(Chars) /\ Len(y) \in Nat /\ Len(Cat(p, y)) = Len(p) + Len(y)
                  /\ \A k \in 1 .. Len(p) + Len(y) :
                        Cat(p, y)[k] = IF k <= Len(p) THEN p[k] ELSE y[k - Len(p)]
                BY ONLY <1>0, <2>3, CatFacts
            <4>2. Len(p) = 2
                BY <3>1
            <4>3. 1 \in 1 .. Len(p) + Len(y) /\ 2 \in 1 .. Len(p) + Len(y) /\ 1 <= Len(p) /\ 2 <= Len(p)
                BY ONLY <4>1, <4>2
            <4> QED BY ONLY <4>1, <4>2, <4>3
        <3>3. FirstOf(marks, Cat(p, y), 1) = 2 /\ Len(Cat(p, y)) >= 2
            <4>1. Len(Cat(p, y)) >= 2
                BY ONLY <3>2
            <4>2. Cat(p, y)[1] \notin marks /\ Cat(p, y)[2] \in marks
                BY ONLY <3>1, <3>2
            <4> QED BY ONLY <3>2, <4>1, <4>2, FirstOfSecond
        <3> QED BY ONLY <2>2, <3>1, <3>2, <3>3 DEF marks
    <2> QED BY <2>6, <2>7
<1> HIDE DEF text, host, colon, slash
<1>15. ParseUrl(text) = [protocol |-> ParseUrl(text).protocol, host |-> h,
                         port |-> IF q = <<>> THEN <<"80">> ELSE q, path |-> w]
    BY <1>6, <1>7, <1>10, <1>12, <1>13, <1>14, <1>24, <1>25 DEF ParseUrl
<1> QED BY <1>15 DEF text, r, t, a, IsParsed

\* parse_url() takes a URL apart as it was put together, except that a path keeps
\* the fragment behind it.
LEMMA ParseFacts ==
    ASSUME NEW u, IsUrl(u), u.fragment = <<>> \/ u.path = <<>>
    PROVE  IsParsed(ParseUrl(Text(u)), u.host, u.port, u.path)
<1> DEFINE p == IF u.protocol = "" THEN <<>> ELSE <<u.protocol, "://">>
           c == After("#", u.fragment)
<1>1. /\ u.protocol \in Chars /\ u.protocol # "://"
      /\ u.host \in Seq(Chars) /\ u.port \in Seq(Chars) /\ u.path \in Seq(Chars)
      /\ u.fragment \in Seq(Chars)
    <2>1. STRING \subseteq Chars
        BY DEF Chars
    <2> QED BY <2>1, SeqMonotonic DEF IsUrl
<1>2. /\ \A k \in 1 .. Len(u.host) : u.host[k] \notin {"://", ":", "/", "#"}
      /\ \A k \in 1 .. Len(u.port) : u.port[k] \notin {"://", "/", "#"}
      /\ \A k \in 1 .. Len(u.path) : u.path[k] \notin {"://"}
      /\ \A k \in 1 .. Len(u.fragment) : u.fragment[k] \notin {"://"}
    BY DEF IsUrl
<1>3. "://" \in Chars /\ "#" \in Chars
    BY DEF Chars
<1>4. /\ p \in Seq(Chars) /\ Len(p) = IF u.protocol = "" THEN 0 ELSE 2
      /\ Len(p) = 2 => p[1] = u.protocol /\ p[2] = "://"
    <2>1. CASE u.protocol = ""
        <3>1. p = <<>>
            BY <2>1
        <3>2. <<>> \in Seq(Chars) /\ Len(<<>>) = 0
            BY EmptySeq
        <3> HIDE DEF p
        <3>3. p \in Seq(Chars) /\ Len(p) = 0
            BY ONLY <3>1, <3>2
        <3>4. Len(p) # 2
            BY ONLY <3>3
        <3>5. Len(p) = IF u.protocol = "" THEN 0 ELSE 2
            BY ONLY <2>1, <3>3
        <3> QED BY ONLY <3>3, <3>4, <3>5, Zenon
    <2>2. CASE u.protocol # ""
        BY <1>1, <1>3, <2>2, TwoChars
    <2> QED BY <2>1, <2>2
<1>5. c \in Seq(Chars)
    BY <1>1, <1>3, AfterFacts
<1>6. \A k \in 1 .. Len(c) : c[k] \notin {"://"}
    BY <1>1, <1>2, <1>3, AfterNoMark
<1>7. Len(c) > 0 => u.path = <<>> /\ c[1] = "#"
    <2>1. CASE u.fragment = <<>>
        BY <2>1, EmptySeq DEF After
    <2>2. CASE u.fragment # <<>>
        <3>1. Len(u.fragment) \in Nat
            BY <1>1, LenProperties
        <3>2. 1 \in 1 .. Len(u.fragment) + 1
            BY ONLY <3>1
        <3>3. <<>> \in Seq(Chars)
            BY EmptySeq
        <3>4. c[1] = "#"
            BY <1>1, <1>3, <2>2, <3>2, <3>3, AfterFacts
        <3> QED BY <2>2, <3>4
    <2> QED BY <2>1, <2>2
<1> HIDE DEF p, c
<1>8. IsParsed(ParseUrl(Cat(p, Cat(u.host, Cat(After(":", u.port), Cat(After("/", u.path), c))))),
               u.host, u.port, u.path)
    BY ONLY <1>1, <1>2, <1>4, <1>5, <1>6, <1>7, ParseParts
<1> QED BY <1>8 DEF Text, After, Cat, p, c

-----------------------------------------------------------------------------
(* What web_get prints. *)

\* printf() prints a text up to its first zero byte: all of a text without one.
LEMMA UpToNulFacts ==
    ASSUME NEW S, NEW s \in Seq(S)
    PROVE  /\ UpToNul(s) \in Seq(S)
           /\ (\A k \in 1 .. Len(s) : s[k] # "nul") => UpToNul(s) = s
<1> DEFINE at == {k \in 1 .. Len(s) : s[k] \in {"nul"}}
           n == Min(at \cup {Len(s) + 1}) - 1
<1>1. Len(s) \in Nat
    BY LenProperties
<1>2. at \cup {Len(s) + 1} \in SUBSET (1 .. Len(s) + 1)
    BY <1>1
<1>3. n \in 0 .. Len(s)
    <2>1. at \cup {Len(s) + 1} \in SUBSET Nat /\ at \cup {Len(s) + 1} # {}
        BY <1>1
    <2>2. Min(at \cup {Len(s) + 1}) \in at \cup {Len(s) + 1}
        BY <2>1, MinOfNats
    <2> HIDE DEF at
    <2>3. Min(at \cup {Len(s) + 1}) \in 1 .. Len(s) + 1
        BY <1>2, <2>2
    <2> QED BY <1>1, <2>3
<1>4. UpToNul(s) = SubSeq(s, 1, n)
    BY DEF UpToNul, FirstOf
<1>5. ASSUME \A k \in 1 .. Len(s) : s[k] # "nul"
      PROVE  n = Len(s)
    <2>1. at \cup {Len(s) + 1} = {Len(s) + 1}
        BY <1>5
    <2>2. {Len(s) + 1} \in SUBSET Nat
        BY <1>1
    <2>3. Min({Len(s) + 1}) = Len(s) + 1
        BY <2>2, MinOfNats
    <2> HIDE DEF at
    <2>4. Min(at \cup {Len(s) + 1}) = Len(s) + 1
        BY <2>1, <2>3, Zenon
    <2> QED BY <1>1, <2>4
<1> HIDE DEF n
<1>6. UpToNul(s) \in Seq(S)
    BY <1>3, <1>4, BeginningFacts
<1>7. n = Len(s) => UpToNul(s) = s
    BY <1>4, SubSeqFull
<1> QED BY <1>5, <1>6, <1>7

\* All of every part of a page without a zero byte is printed.
LEMMA PartIsPrinted ==
    ASSUME NEW p \in Seq(STRING), "nul" \notin ToSet(p),
           NEW a \in 1 .. Len(p) + 1, NEW b \in a - 1 .. Len(p)
    PROVE  UpToNul(SubSeq(p, a, b)) = SubSeq(p, a, b)
<1> DEFINE x == SubSeq(p, a, b)
<1>1. /\ x \in Seq(STRING) /\ Len(x) = b - a + 1
      /\ \A k \in 1 .. b - a + 1 : x[k] = p[a + k - 1]
    BY PartFacts
<1>2. Len(p) \in Nat /\ DOMAIN p = 1 .. Len(p)
    BY LenProperties
<1>3. \A k \in 1 .. b - a + 1 : p[a + k - 1] # "nul"
    <2>1. \A k \in 1 .. b - a + 1 : a + k - 1 \in DOMAIN p
        BY <1>2
    <2>2. \A k \in DOMAIN p : p[k] # "nul"
        BY DEF ToSet
    <2> QED BY <2>1, <2>2
<1> HIDE DEF x
<1>4. \A k \in 1 .. Len(x) : x[k] # "nul"
    BY <1>1, <1>3
<1>5. UpToNul(x) = x
    BY <1>1, <1>4, UpToNulFacts
<1> QED BY <1>5 DEF x

\* And so of a beginning of it.
LEMMA PrefixIsPrinted ==
    ASSUME NEW p \in Seq(STRING), "nul" \notin ToSet(p), NEW x \in Seq(STRING), IsPrefix(x, p)
    PROVE  UpToNul(x) = x
<1>1. Len(x) \in Nat /\ Len(p) \in Nat /\ Len(x) <= Len(p) /\ SubSeq(p, 1, Len(x)) = SubSeq(x, 1, Len(x))
    BY LenProperties DEF IsPrefix
<1>2. SubSeq(x, 1, Len(x)) = x
    BY SubSeqFull
<1>3. 1 \in 1 .. Len(p) + 1 /\ Len(x) \in 1 - 1 .. Len(p)
    BY <1>1
<1>4. UpToNul(SubSeq(p, 1, Len(x))) = SubSeq(p, 1, Len(x))
    BY <1>3, PartIsPrinted
<1> QED BY <1>1, <1>2, <1>4

\* The request names what the URL names.
Asked ==
    wg \in {"loop", "chunks"} /\ (url.fragment = <<>> \/ url.path = <<>>) =>
        asked = [protocol |-> "http", host |-> url.host, path |-> url.path,
                 port |-> IF url.port = <<>> THEN <<"80">> ELSE url.port]

\* The page has no zero byte.
IsClean == "nul" \notin ToSet(site.page)

\* What is printed is of the page.
ShownIsPage ==
    wg # "off" /\ ~ strayed /\ IsClean =>
        /\ IsPrefix(shown, site.page)
        /\ wg = "exited" /\ wgCode = 0 /\ Len(response) = Len(site.script) => shown = site.page

\* The response is what has been read of the script.
Arrived ==
    /\ site \in Sites
    /\ sent \in Len(response) .. Len(site.script)
    /\ response = SubSeq(site.script, 1, Len(response))

\* `body` is at a chunk's size line, or behind it with the size in `remaining`,
\* and the chunks before it are printed.
AtChunk ==
    \E k \in DOMAIN site.chunks :
        /\ IsClean => shown = SubSeq(site.page, 1, site.chunks[k].before)
        /\ \/ remaining = 0 /\ body = site.chunks[k].at
           \/ /\ site.chunks[k].size # 0 /\ remaining = site.chunks[k].size
              /\ body = site.chunks[k].at + 3

\* Before the end of the headers nothing is known of the body; behind it `body` and
\* `remaining` are where they should be, and the loop is left for recv() only
\* while something is missing.
InBody ==
    IF HeaderEnd(response) = 0
    THEN body = 0 /\ encoding = "length" /\ remaining = 0 /\ shown = <<>> /\ wg # "chunks"
    ELSE /\ body # 0 /\ encoding = Declared(site.script).encoding
         /\ IF encoding = "chunked"
            THEN wg \in {"loop", "chunks"} /\ ~ strayed =>
                    AtChunk /\ (wg = "loop" => Len(response) < Len(site.script))
            ELSE wg \in {"loop", "chunks"} =>
                    /\ wg = "loop" /\ shown = <<>> /\ body = HeaderEnd(site.script) + 4
                    /\ encoding = "length" =>
                          /\ remaining = Declared(site.script).remaining
                          /\ Behind(body, response) < remaining

\* The inductive invariant of web_get: what arrived is a beginning of what the site
\* sends, `body` is where its page or a chunk's size line begins, and what has been
\* printed of a page without a zero byte is the page up to there.
WebInv ==
    /\ WebGetTypeOK
    /\ wg = "off" => response = <<>> /\ sent = 0 /\ body = 0 /\ encoding = "length"
                       /\ remaining = 0 /\ shown = <<>> /\ ~ strayed
    /\ wg # "off" => Arrived /\ InBody
    /\ Asked /\ ShownIsPage

\* The invariant holds at the start.
LEMMA WebInitInv == WebGetInit => WebInv
<1> SUFFICES ASSUME WebGetInit PROVE WebInv
    OBVIOUS
<1>1. WebGetTypeOK
    <2>1. RESPONSE_SIZE \in Nat /\ RESPONSE_SIZE > 0 /\ TIMEOUT \in Nat
        BY WebGetAssumption
    <2>2. <<>> \in Seq(STRING) /\ Len(<<>>) = 0
        BY EmptySeq
    <2>3. response \in Seq(STRING) /\ shown \in Seq(STRING) /\ Len(response) = 0
        BY <2>2 DEF WebGetInit
    <2>4. {response, shown} \subseteq Seq(STRING)
        BY <2>3
    <2>5. Len(response) <= sent /\ Len(response) <= RESPONSE_SIZE /\ body \in 0 .. 2 * RESPONSE_SIZE
        BY <2>1, <2>3 DEF WebGetInit
    <2>6. clock \in 0 .. TIMEOUT + 1 /\ remaining \in Nat
        BY <2>1 DEF WebGetInit
    <2> QED BY <2>4, <2>5, <2>6 DEF WebGetInit, WebGetTypeOK
<1> QED BY <1>1 DEF WebGetInit, WebInv, Asked, ShownIsPage

\* What the assumption says of a site.
LEMMA SiteFacts ==
    ASSUME NEW s \in Sites
    PROVE  LET d == Declared(s.script)
               e == HeaderEnd(s.script)
           IN  /\ s.page \in Seq(STRING) /\ s.script \in Seq(STRING)
               /\ s.page \in Seq(Chars) /\ s.script \in Seq(Chars)
               /\ Len(s.page) \in Nat /\ Len(s.script) \in Nat
               /\ e \in Nat /\ e # 0 /\ e + 3 <= Len(s.script)
               /\ d.encoding \in {"length", "chunked", "connection"} /\ d.remaining \in Nat
               /\ d.encoding = "chunked" => IsChunked(s) /\ d.remaining = 0
               /\ d.encoding # "chunked" =>
                     /\ s.page = SubSeq(s.script, e + 4, Len(s.script))
                     /\ Len(s.page) = Len(s.script) - e - 3
                     /\ d.encoding = "length" => d.remaining = Len(s.page)
<1> DEFINE d == Declared(s.script)
           e == HeaderEnd(s.script)
<1>1. Carries(s)
    BY SitesAssumption
<1>2. s.page \in Seq(STRING) /\ s.script \in Seq(STRING) /\ Len(s.page) \in Nat /\ Len(s.script) \in Nat
    BY <1>1, LenProperties DEF Carries
<1>3. s.page \in Seq(Chars) /\ s.script \in Seq(Chars)
    <2>1. STRING \subseteq Chars
        BY DEF Chars
    <2> QED BY <1>2, <2>1, SeqMonotonic
<1>4. e \in Nat /\ e # 0 /\ e + 3 <= Len(s.script)
    <2>1. e # 0
        BY <1>1 DEF Carries
    <2>2. 0 \in 0 .. Len(s.script)
        BY <1>2
    <2> QED BY <1>3, <2>1, <2>2, HeadersStay
<1>5. /\ d.encoding \in {"length", "chunked", "connection"} /\ d.remaining \in Nat
      /\ d.encoding = "chunked" => d.remaining = 0
    BY DEF Declared, Strtol
<1>6. d.encoding = "chunked" => IsChunked(s)
    BY <1>1 DEF Carries
<1>7. d.encoding # "chunked" =>
          /\ s.page = SubSeq(s.script, e + 4, Len(s.script))
          /\ d.encoding = "length" => d.remaining = Len(s.page)
    BY <1>1 DEF Carries
<1>8. d.encoding # "chunked" => Len(s.page) = Len(s.script) - e - 3
    <2>1. e + 4 \in 1 .. Len(s.script) + 1 /\ Len(s.script) \in e + 4 - 1 .. Len(s.script)
        BY <1>2, <1>4
    <2>2. Len(SubSeq(s.script, e + 4, Len(s.script))) = Len(s.script) - (e + 4) + 1
        <3> DEFINE t == s.script
        <3>1. t \in Seq(STRING)
            BY <1>2
        <3> HIDE DEF t, e
        <3>2. Len(SubSeq(t, e + 4, Len(t))) = Len(t) - (e + 4) + 1
            BY <2>1, <3>1, PartFacts DEF t
        <3> QED BY <3>2 DEF t
    <2>3. Len(s.script) - (e + 4) + 1 = Len(s.script) - e - 3
        BY <1>2, <1>4
    <2> QED BY <1>7, <2>2, <2>3
<1> QED BY <1>2, <1>3, <1>4, <1>5, <1>6, <1>7, <1>8

\* What recv() returns is more of the script.
LEMMA MoreArrives ==
    ASSUME NEW S, NEW t \in Seq(S), NEW m \in 0 .. Len(t), NEW n \in 1 .. Len(t) - m
    PROVE  /\ m + n \in 0 .. Len(t)
           /\ SubSeq(t, 1, m) \o SubSeq(t, m + 1, m + n) = SubSeq(t, 1, m + n)
           /\ SubSeq(t, 1, m + n) \in Seq(S) /\ Len(SubSeq(t, 1, m + n)) = m + n
           /\ SubSeq(SubSeq(t, 1, m + n), 1, m) = SubSeq(t, 1, m)
<1>1. Len(t) \in Nat
    BY LenProperties
<1>2. m + n \in 0 .. Len(t) /\ 1 \in 1 .. Len(t) + 1 /\ m \in 1 - 1 .. Len(t) /\ m + n \in m .. Len(t)
    BY <1>1
<1>3. SubSeq(t, 1, m) \o SubSeq(t, m + 1, m + n) = SubSeq(t, 1, m + n)
    BY <1>2, ConcatAdjacentSubSeq
<1>4. 1 \in 1 .. m + n + 1 /\ m \in 1 - 1 .. m + n
    BY <1>1
<1>5. /\ SubSeq(t, 1, m + n) \in Seq(S) /\ Len(SubSeq(t, 1, m + n)) = m + n
      /\ SubSeq(SubSeq(t, 1, m + n), 1, m) = SubSeq(t, 1, m)
    BY <1>2, <1>4, BeginningFacts
<1> QED BY <1>2, <1>3, <1>5

\* Where the page is in a response whose length is known or unlimited.
LEMMA PageIsRest ==
    ASSUME NEW s \in Sites, Declared(s.script).encoding # "chunked",
           NEW m \in 0 .. Len(s.script), HeaderEnd(s.script) + 3 <= m
    PROVE  LET r == SubSeq(s.script, 1, m)
               e == HeaderEnd(s.script)
           IN  /\ IsPrefix(SubSeq(r, e + 4, m), s.page)
               /\ m = Len(s.script) => SubSeq(r, e + 4, m) = s.page
               /\ Len(s.page) <= Behind(e + 4, r) => SubSeq(r, e + 4, e + 4 + Len(s.page) - 1) = s.page
               /\ m = Len(s.script) => Len(s.page) <= Behind(e + 4, r)
<1> DEFINE t == s.script
           e == HeaderEnd(s.script)
           r == SubSeq(t, 1, m)
           x == SubSeq(r, e + 4, m)
<1>1. /\ t \in Seq(STRING) /\ Len(t) \in Nat /\ Len(s.page) \in Nat /\ s.page \in Seq(STRING)
      /\ e \in Nat /\ s.page = SubSeq(t, e + 4, Len(t)) /\ Len(s.page) = Len(t) - e - 3
    BY SiteFacts
<1>2. e + 3 <= m
    OBVIOUS
<1> HIDE DEF t, e
<1>3. /\ m \in 0 .. Len(t) /\ e + 4 \in 1 .. m + 1 /\ m \in e + 4 - 1 .. m
      /\ e + 3 \in 0 .. Len(t) /\ 1 \in 1 .. Len(t) - (e + 3) + 1
      /\ m - e - 3 \in 1 - 1 .. Len(t) - (e + 3) /\ e + 3 + 1 = e + 4 /\ e + 3 + (m - e - 3) = m
      /\ e + 4 \in 1 .. Len(t) + 1 /\ m \in e + 4 - 1 .. Len(t) /\ m - (e + 4) + 1 = m - e - 3
    BY <1>1, <1>2 DEF t
<1>4. x = SubSeq(t, e + 4, m) /\ Len(r) = m
    BY <1>1, <1>3, BeginningFacts
<1> HIDE DEF x, r
<1>5. x \in Seq(STRING) /\ Len(x) = m - e - 3
    BY <1>1, <1>3, <1>4, PartFacts
<1>6. SubSeq(s.page, 1, m - e - 3) = x
    <2>1. SubSeq(SubSeq(t, e + 3 + 1, Len(t)), 1, m - e - 3) = SubSeq(t, e + 3 + 1, e + 3 + (m - e - 3))
        BY <1>1, <1>3, PartOfRest
    <2> QED BY <1>1, <1>3, <1>4, <2>1
<1>7. IsPrefix(x, s.page)
    <2>1. Len(x) <= Len(s.page)
        BY <1>1, <1>3, <1>5
    <2>2. SubSeq(x, 1, Len(x)) = x
        BY <1>5, SubSeqFull
    <2> QED BY <1>5, <1>6, <2>1, <2>2 DEF IsPrefix
<1>8. m = Len(t) => x = s.page
    BY <1>1, <1>4
<1>9. Behind(e + 4, r) = IF e + 4 > m THEN 0 ELSE m + 1 - (e + 4)
    BY <1>4 DEF Behind
<1>10. /\ Len(s.page) = Len(t) - e - 3 /\ Len(t) \in Nat /\ e \in Nat /\ m \in Nat
       /\ e + 3 <= m /\ m <= Len(t)
    BY <1>1, <1>2, <1>3
<1>11. m = Len(t) => Len(s.page) <= Behind(e + 4, r)
    BY ONLY <1>9, <1>10
<1>12. ASSUME Len(s.page) <= Behind(e + 4, r)
       PROVE  SubSeq(r, e + 4, e + 4 + Len(s.page) - 1) = s.page
    <2>1. m = Len(t)
        BY ONLY <1>9, <1>10, <1>12
    <2>2. e + 4 + Len(s.page) - 1 = m
        BY ONLY <1>10, <2>1
    <2>3. SubSeq(r, e + 4, m) = s.page
        BY <1>8, <2>1 DEF x
    <2> QED BY <2>2, <2>3
<1> QED BY <1>7, <1>8, <1>11, <1>12 DEF t, e, r, x

\* More of the response arrives, with or without the end of the header in it.
LEMMA ReceiveKeeps ==
    ASSUME WebInv, Receive
    PROVE  WebInv'
<1> DEFINE t == site.script
           e == HeaderEnd(t)
           d == Declared(t)
           m == Len(response)
           r == response'
<1>1. /\ wg = "loop" /\ Arrived /\ InBody /\ Asked /\ ShownIsPage /\ WebGetTypeOK
      /\ UNCHANGED <<url, asked, site, sent, closed, clock, strayed>>
    BY DEF WebInv, Receive
<1>2. site \in Sites /\ site' = site /\ t \in Seq(STRING) /\ t \in Seq(Chars) /\ Len(t) \in Nat
    BY <1>1, SiteFacts DEF Arrived
<1>3. /\ e \in Nat /\ e # 0 /\ e + 3 <= Len(t)
      /\ d.encoding \in {"length", "chunked", "connection"} /\ d.remaining \in Nat
      /\ d.encoding = "chunked" => IsChunked(site) /\ d.remaining = 0
      /\ d.encoding # "chunked" =>
            /\ site.page = SubSeq(t, e + 4, Len(t))
            /\ Len(site.page) = Len(t) - e - 3
            /\ d.encoding = "length" => d.remaining = Len(site.page)
    BY <1>2, SiteFacts
<1>4. /\ m \in 0 .. Len(t) /\ response = SubSeq(t, 1, m)
      /\ sent \in m .. Len(t) /\ m \in Nat /\ m <= RESPONSE_SIZE /\ RESPONSE_SIZE \in Nat
    BY <1>1, <1>2, LenProperties, WebGetAssumption DEF Arrived, WebGetTypeOK
<1>5. PICK n \in 1 .. Min({sent - m, Space}) : r = response \o SubSeq(t, m + 1, m + n)
    BY DEF Receive
<1>6. n \in Nat /\ n >= 1 /\ n <= sent - m /\ n <= RESPONSE_SIZE - m
    <2>1. sent - m \in Int /\ Space \in Int
        BY <1>4 DEF Space
    <2>2. Min({sent - m, Space}) <= sent - m /\ Min({sent - m, Space}) <= Space
          /\ Min({sent - m, Space}) \in {sent - m, Space}
        BY <2>1, MinOfTwo
    <2>3. Min({sent - m, Space}) \in Int
        BY <2>1, <2>2
    <2> QED BY <2>1, <2>2, <2>3 DEF Space
<1>7. /\ m + n \in 0 .. Len(t) /\ r = SubSeq(t, 1, m + n)
      /\ r \in Seq(STRING) /\ Len(r) = m + n
      /\ response = SubSeq(r, 1, m)
    <2>1. n \in 1 .. Len(t) - m
        BY <1>2, <1>4, <1>6
    <2> HIDE DEF t, m
    <2> QED BY <1>2, <1>4, <1>5, <2>1, MoreArrives
<1> HIDE DEF t, e, d, m, r
<1>8. Arrived' /\ Len(r) <= sent' /\ Len(r) <= RESPONSE_SIZE
    BY <1>1, <1>2, <1>4, <1>6, <1>7 DEF Arrived, t, r
<1>9. /\ HeaderEnd(r) # 0 => e = HeaderEnd(r) /\ e + 3 <= Len(r) /\ Declared(r) = d
      /\ HeaderEnd(response) # 0 => HeaderEnd(r) # 0
      /\ Len(r) = Len(t) => HeaderEnd(r) # 0
    <2>1. /\ HeaderEnd(r) # 0 => e = HeaderEnd(r) /\ e + 3 <= m + n /\ Declared(r) = d
          /\ HeaderEnd(r) = 0 => m + n < e + 3
        BY <1>2, <1>3, <1>7, HeadersStay DEF e, d
    <2>2. r \in Seq(Chars) /\ m \in 0 .. Len(r)
        <3>1. r \in Seq(Chars)
            BY <1>2, <1>7, BeginningFacts
        <3> QED BY <1>4, <1>6, <1>7, <3>1
    <2>3. HeaderEnd(response) # 0 => HeaderEnd(r) # 0
        BY <1>7, <2>2, HeadersStay
    <2> QED BY <1>2, <1>3, <1>7, <2>1, <2>3
<1>10. /\ wgCode' \in {0, 1} /\ ReadHeaders(r)
       /\ IF body' # 0 /\ encoding' = "length" /\ Behind(body', r) >= remaining'
          THEN shown' = UpToNul(SubSeq(r, body', body' + remaining' - 1)) /\ wg' = "exited" /\ wgCode' = 0
          ELSE /\ wg' = IF body' # 0 /\ encoding' = "chunked" THEN "chunks" ELSE "loop"
               /\ wgCode' = wgCode /\ shown' = shown
    BY <1>1 DEF Receive, Exit, r, WebGetTypeOK
<1>11. Asked'
    BY <1>1 DEF Asked
<1>12. CASE HeaderEnd(r) = 0
    <2>1. body = 0 /\ encoding = "length" /\ remaining = 0 /\ shown = <<>>
        BY <1>1, <1>9, <1>12 DEF InBody
    <2>2. body' = 0 /\ encoding' = "length" /\ remaining' = 0
        BY <1>10, <1>12, <2>1 DEF ReadHeaders
    <2>3. wg' = "loop" /\ shown' = <<>> /\ wgCode' = wgCode
        BY <1>10, <2>1, <2>2
    <2>4. InBody'
        BY <1>12, <2>2, <2>3 DEF InBody, r
    <2>5. ShownIsPage'
        BY <1>1, <1>2, <2>1, <2>3 DEF ShownIsPage, IsClean
    <2>6. WebGetTypeOK'
        BY <1>1, <1>7, <1>8, <1>10, <2>1, <2>2, <2>3 DEF WebGetTypeOK, r
    <2> QED BY <1>8, <1>11, <2>3, <2>4, <2>5, <2>6 DEF WebInv
<1>13. CASE HeaderEnd(r) # 0
    <2>1. /\ body' # 0 /\ encoding' = d.encoding
          /\ body' \in 0 .. 2 * RESPONSE_SIZE /\ remaining' \in Nat
          /\ d.encoding # "chunked" =>
                /\ shown = <<>> /\ body' = e + 4
                /\ d.encoding = "length" => remaining' = d.remaining
          /\ d.encoding = "chunked" /\ ~ strayed =>
                \E k \in DOMAIN site.chunks :
                    /\ IsClean => shown = SubSeq(site.page, 1, site.chunks[k].before)
                    /\ \/ remaining' = 0 /\ body' = site.chunks[k].at
                       \/ /\ site.chunks[k].size # 0 /\ remaining' = site.chunks[k].size
                          /\ body' = site.chunks[k].at + 3
        <3>1. CASE HeaderEnd(response) = 0
            <4>1. body = 0 /\ shown = <<>>
                BY <1>1, <3>1 DEF InBody
            <4>2. body' = e + 4 /\ encoding' = d.encoding /\ remaining' = d.remaining
                BY <1>9, <1>10, <1>13, <4>1 DEF ReadHeaders
            <4>3. body' # 0 /\ body' \in 0 .. 2 * RESPONSE_SIZE
                BY <1>3, <1>4, <1>8, <1>9, <1>13, <4>2
            <4>4. ASSUME d.encoding = "chunked"
                  PROVE  /\ 1 \in DOMAIN site.chunks /\ remaining' = 0 /\ body' = site.chunks[1].at
                         /\ shown = SubSeq(site.page, 1, site.chunks[1].before)
                <5>1. site.chunks # <<>> /\ site.chunks[1].at = e + 4 /\ site.chunks[1].before = 0
                    BY <1>3, <4>4 DEF IsChunked, e, t
                <5>2. site.chunks \in Seq([at : Nat, size : Nat, before : Nat])
                    BY <1>2, SitesAssumption DEF Carries
                <5>3. 1 \in DOMAIN site.chunks
                    BY <5>1, <5>2, EmptySeq, LenProperties
                <5>4. SubSeq(site.page, 1, 0) = <<>>
                    BY SubSeqEmpty
                <5> QED BY <1>3, <4>1, <4>2, <4>4, <5>1, <5>3, <5>4
            <4> QED BY <1>3, <4>1, <4>2, <4>3, <4>4
        <3>2. CASE HeaderEnd(response) # 0
            <4>1. body # 0 /\ encoding = d.encoding
                BY <1>1, <3>2 DEF InBody, d, t
            <4>2. body' = body /\ encoding' = encoding /\ remaining' = remaining
                BY <1>10, <4>1 DEF ReadHeaders
            <4>3. d.encoding # "chunked" =>
                      /\ shown = <<>> /\ body = e + 4
                      /\ d.encoding = "length" => remaining = d.remaining
                BY <1>1, <3>2, <4>1 DEF InBody, d, t, e
            <4>4. d.encoding = "chunked" /\ ~ strayed => AtChunk
                BY <1>1, <3>2, <4>1 DEF InBody
            <4>5. body \in 0 .. 2 * RESPONSE_SIZE /\ remaining \in Nat
                BY <1>1 DEF WebGetTypeOK
            <4> QED BY <4>1, <4>2, <4>3, <4>4, <4>5 DEF AtChunk
        <3> QED BY <3>1, <3>2
    <2> DEFINE x == UpToNul(SubSeq(r, body', body' + remaining' - 1))
    <2>2. CASE d.encoding = "length" /\ Behind(body', r) >= remaining'
        <3>1. shown' = x /\ wg' = "exited" /\ wgCode' = 0
            BY <1>10, <2>1, <2>2
        <3>2. body' = e + 4 /\ remaining' = Len(site.page)
            BY <1>3, <2>1, <2>2
        <3>3. shown' = UpToNul(site.page)
            <4>1. d.encoding # "chunked" /\ e + 3 <= m + n
                BY <1>7, <1>9, <1>13, <2>2
            <4>2. Behind(e + 4, r) >= Len(site.page)
                BY <2>2, <3>2
            <4>3. Len(site.page) \in Nat /\ (e + 4 > Len(r) \/ Len(r) + 1 - (e + 4) \in Int)
                BY <1>2, <1>3, <1>7, SiteFacts
            <4>4. Len(site.page) <= Behind(e + 4, r)
                BY <4>2
            <4>5. SubSeq(SubSeq(site.script, 1, m + n), e + 4, e + 4 + Len(site.page) - 1) = site.page
                BY <1>2, <1>7, <4>1, <4>4, PageIsRest DEF d, e, t
            <4> QED BY <1>7, <3>1, <3>2, <4>5 DEF t
        <3>4. site.page \in Seq(STRING)
            BY <1>2, SiteFacts
        <3>5. IsPrefix(site.page, site.page) /\ UpToNul(site.page) \in Seq(STRING)
              /\ (IsClean => shown' = site.page)
            <4>1. IsPrefix(site.page, site.page)
                BY <3>4, LenProperties DEF IsPrefix
            <4> QED BY <3>3, <3>4, <4>1, PrefixIsPrinted, UpToNulFacts DEF IsClean
        <3>6. InBody'
            BY <1>2, <1>13, <2>1, <2>2, <3>1 DEF InBody, d, r, t
        <3>7. ShownIsPage'
            BY <1>2, <3>5 DEF ShownIsPage, IsClean
        <3>8. WebGetTypeOK'
            <4>1. {response', shown'} \subseteq Seq(STRING)
                BY <1>7, <3>3, <3>5 DEF r
            <4>2. encoding' \in {"length", "chunked", "connection"}
                BY <1>3, <2>1
            <4> QED BY <1>1, <1>8, <2>1, <3>1, <4>1, <4>2 DEF WebGetTypeOK, r
        <3> QED BY <1>8, <1>11, <3>1, <3>6, <3>7, <3>8 DEF WebInv
    <2>3. CASE ~ (d.encoding = "length" /\ Behind(body', r) >= remaining')
        <3>1. wg' = (IF d.encoding = "chunked" THEN "chunks" ELSE "loop") /\ shown' = shown /\ wgCode' = wgCode
            BY <1>10, <2>1, <2>3
        <3>2. d.encoding = "length" => Behind(body', r) < remaining'
            <4>1. Len(r) \in Nat /\ body' \in Nat /\ remaining' \in Nat
                BY <1>4, <1>6, <1>7, <2>1
            <4>2. Behind(body', r) \in Int
                BY ONLY <4>1 DEF Behind
            <4> QED BY <2>3, <4>1, <4>2
        <3>3. d.encoding = "chunked" /\ ~ strayed => AtChunk'
            BY <1>2, <2>1, <3>1 DEF AtChunk, IsClean
        <3>4. InBody'
            BY <1>1, <1>2, <1>3, <1>13, <2>1, <3>1, <3>2, <3>3 DEF InBody, d, r, t, e
        <3>5. ShownIsPage'
            BY <1>1, <1>2, <3>1 DEF ShownIsPage, IsClean
        <3>6. WebGetTypeOK'
            <4>1. {response', shown'} \subseteq Seq(STRING)
                BY <1>1, <1>7, <3>1 DEF r, WebGetTypeOK
            <4>2. encoding' \in {"length", "chunked", "connection"}
                BY <1>3, <2>1
            <4> QED BY <1>1, <1>8, <2>1, <3>1, <4>1, <4>2 DEF WebGetTypeOK, r
        <3> QED BY <1>8, <1>11, <3>1, <3>4, <3>5, <3>6 DEF WebInv
    <2> QED BY <2>2, <2>3
<1> QED BY <1>12, <1>13

\* The other steps than those of the chunks.
LEMMA PeerClosedKeeps ==
    ASSUME WebInv, PeerClosed
    PROVE  WebInv'
<1>1. /\ wg = "loop" /\ Arrived /\ InBody /\ ShownIsPage /\ WebGetTypeOK
      /\ wg' = "exited" /\ wgCode' = 0
      /\ UNCHANGED <<url, asked, site, sent, closed, response, body, encoding, remaining, clock, strayed>>
    BY DEF WebInv, PeerClosed, Exit
<1>2. shown' = IF encoding = "connection" /\ body # 0
               THEN UpToNul(SubSeq(response, body, Len(response))) ELSE shown
    BY DEF PeerClosed
<1> DEFINE t == site.script
           e == HeaderEnd(t)
           m == Len(response)
<1>3. /\ site \in Sites /\ t \in Seq(STRING) /\ t \in Seq(Chars) /\ Len(t) \in Nat
      /\ e \in Nat /\ e # 0 /\ m \in 0 .. Len(t) /\ response = SubSeq(t, 1, m)
    BY <1>1, SiteFacts, LenProperties DEF Arrived, WebGetTypeOK
<1>4. /\ HeaderEnd(response) # 0 => e + 3 <= m
      /\ HeaderEnd(response) = 0 => m < e + 3
      /\ e + 3 <= Len(t)
    BY <1>3, HeadersStay
<1>5. /\ IsClean /\ encoding = "connection" /\ body # 0 =>
            IsPrefix(shown', site.page) /\ (m = Len(t) => shown' = site.page)
      /\ encoding = "connection" /\ body # 0 => shown' \in Seq(STRING)
    <2>1. SUFFICES ASSUME encoding = "connection", body # 0
                   PROVE  /\ IsClean => IsPrefix(shown', site.page) /\ (m = Len(t) => shown' = site.page)
                          /\ shown' \in Seq(STRING)
        OBVIOUS
    <2> DEFINE rest == SubSeq(SubSeq(t, 1, m), e + 4, m)
    <2>2. HeaderEnd(response) # 0 /\ Declared(t).encoding # "chunked" /\ body = e + 4 /\ e + 3 <= m
        BY <1>1, <1>4, <2>1 DEF InBody
    <2>3. shown' = UpToNul(rest)
        BY <1>2, <1>3, <2>1, <2>2
    <2>4. IsPrefix(rest, site.page) /\ (m = Len(t) => rest = site.page)
        BY <1>3, <2>2, PageIsRest
    <2>5. rest \in Seq(STRING)
        <3>1. response \in Seq(STRING) /\ m \in Nat
            BY <1>1, LenProperties DEF WebGetTypeOK
        <3>2. e + 4 \in 1 .. m + 1 /\ m \in e + 4 - 1 .. m
            BY <1>3, <2>2, <3>1
        <3> HIDE DEF e
        <3>3. SubSeq(response, e + 4, m) \in Seq(STRING)
            BY <3>1, <3>2, PartFacts
        <3> QED BY <1>3, <3>3 DEF e
    <2> HIDE DEF rest
    <2>6. IsClean => UpToNul(rest) = rest
        BY <1>3, <2>4, <2>5, PrefixIsPrinted, SiteFacts DEF IsClean
    <2>7. UpToNul(rest) \in Seq(STRING)
        BY <2>5, UpToNulFacts
    <2> QED BY <2>3, <2>4, <2>6, <2>7
<1>6. m = Len(t) /\ ~ strayed => encoding = "connection" /\ body # 0
    <2>1. SUFFICES ASSUME m = Len(t), ~ strayed
                   PROVE  encoding = "connection" /\ body # 0
        OBVIOUS
    <2>2. HeaderEnd(response) # 0 /\ e + 3 <= m
        BY <1>3, <1>4, <2>1
    <2>3. body # 0 /\ encoding = Declared(t).encoding
        BY <1>1, <2>2 DEF InBody
    <2>4. encoding # "chunked"
        BY <1>1, <2>1, <2>2 DEF InBody
    <2>5. encoding # "length"
        <3>1. SUFFICES ASSUME encoding = "length"
                       PROVE  FALSE
            OBVIOUS
        <3>2. body = e + 4 /\ remaining = Declared(t).remaining /\ Behind(body, response) < remaining
            BY <1>1, <2>2, <3>1 DEF InBody
        <3>3. remaining = Len(site.page) /\ Len(site.page) \in Nat
            BY <1>3, <2>3, <3>1, <3>2, SiteFacts
        <3>4. Len(site.page) <= Behind(e + 4, SubSeq(t, 1, m))
            BY <1>3, <2>1, <2>2, <2>3, <2>4, PageIsRest
        <3>5. Len(site.page) <= Behind(e + 4, response)
            BY <1>3, <3>4
        <3>6. Behind(e + 4, response) \in Int
            BY <1>3 DEF Behind
        <3> QED BY <3>2, <3>3, <3>5, <3>6
    <2> QED BY <1>1, <2>3, <2>4, <2>5 DEF WebGetTypeOK
<1>7. InBody'
    BY <1>1, <1>2 DEF InBody
<1>8. WebGetTypeOK'
    BY <1>1, <1>2, <1>5 DEF WebGetTypeOK
<1>9. ShownIsPage'
    BY <1>1, <1>2, <1>5, <1>6 DEF ShownIsPage, IsClean
<1> QED BY <1>1, <1>7, <1>8, <1>9 DEF WebInv, Asked, Arrived

\* What a chunked response is made of.
LEMMA ChunkedFacts ==
    ASSUME NEW s \in Sites, IsChunked(s), NEW k \in DOMAIN s.chunks
    PROVE  LET c == s.chunks[k]
           IN  /\ c.at \in 1 .. Len(s.script) - 2 /\ c.size \in Nat /\ c.before \in Nat
               /\ s.script[c.at] \notin {"cr", "nul"} /\ Strtol(s.script[c.at]) = c.size
               /\ SubSeq(s.script, c.at + 1, c.at + 2) = CrLf
               /\ c.before <= Len(s.page)
               /\ c.size = 0 => c.before = Len(s.page)
               /\ c.size # 0 =>
                     /\ k + 1 \in DOMAIN s.chunks /\ c.before + c.size <= Len(s.page)
                     /\ SubSeq(s.script, c.at + 3, c.at + 2 + c.size)
                          = SubSeq(s.page, c.before + 1, c.before + c.size)
                     /\ s.chunks[k + 1].at = c.at + c.size + 5
                     /\ s.chunks[k + 1].before = c.before + c.size
<1> DEFINE c == s.chunks[k]
<1>1. s.chunks \in Seq([at : Nat, size : Nat, before : Nat]) /\ Len(s.page) \in Nat
    BY SitesAssumption, SiteFacts DEF Carries
<1>2. Len(s.chunks) \in Nat /\ DOMAIN s.chunks = 1 .. Len(s.chunks)
    BY <1>1, LenProperties
<1>3. c \in [at : Nat, size : Nat, before : Nat]
    BY <1>1, <1>2, ElementOfSeq
<1>4. /\ c.at \in 1 .. Len(s.script) - 2
      /\ s.script[c.at] \notin {"cr", "nul"} /\ Strtol(s.script[c.at]) = c.size
      /\ SubSeq(s.script, c.at + 1, c.at + 2) = CrLf
      /\ IF c.size = 0 THEN c.before = Len(s.page)
         ELSE /\ k < Len(s.chunks) /\ c.before + c.size <= Len(s.page)
              /\ SubSeq(s.script, c.at + 3, c.at + 2 + c.size)
                   = SubSeq(s.page, c.before + 1, c.before + c.size)
              /\ s.chunks[k + 1].at = c.at + c.size + 5
              /\ s.chunks[k + 1].before = c.before + c.size
    BY DEF IsChunked
<1> HIDE DEF c
<1>5. c.size \in Nat /\ c.before \in Nat
    BY <1>3
<1>6. c.before <= Len(s.page)
    <2>1. c.before = Len(s.page) \/ c.before + c.size <= Len(s.page)
        BY <1>4
    <2> QED BY ONLY <1>1, <1>5, <2>1
<1>7. c.size # 0 => k + 1 \in DOMAIN s.chunks
    <2>1. k \in 1 .. Len(s.chunks) /\ (c.size # 0 => k < Len(s.chunks))
        BY <1>2, <1>4
    <2> QED BY ONLY <1>2, <2>1
<1> QED BY <1>4, <1>5, <1>6, <1>7 DEF c

\* What stands at a chunk's size line, when it has arrived.
LEMMA SizeLineFacts ==
    ASSUME NEW s \in Sites, IsChunked(s), NEW k \in DOMAIN s.chunks, NEW m \in 0 .. Len(s.script)
    PROVE  LET r == SubSeq(s.script, 1, m)
               c == s.chunks[k]
               q == Strstr(r, c.at, CrLf)
           IN  /\ q = IF c.at + 2 <= m THEN c.at + 1 ELSE 0
               /\ q # 0 => Strtol(r[c.at]) = c.size
<1> DEFINE t == s.script
           r == SubSeq(t, 1, m)
           a == s.chunks[k].at
           x == Strstr(t, a, CrLf)
<1>1. /\ a \in 1 .. Len(t) - 2 /\ t[a] # "cr" /\ t[a] # "nul" /\ Strtol(t[a]) = s.chunks[k].size
      /\ SubSeq(t, a + 1, a + 2) = CrLf /\ t \in Seq(Chars) /\ Len(t) \in Nat
    BY ChunkedFacts, SiteFacts
<1>2. CrLf \in Seq(Chars) /\ Len(CrLf) = 2 /\ CrLf[1] = "cr" /\ CrLf # <<>>
    <2>1. "cr" \in Chars /\ "lf" \in Chars
        BY DEF Chars
    <2>2. CrLf \in Seq(Chars) /\ Len(CrLf) = 2 /\ CrLf[1] = "cr"
        BY <2>1, TwoChars, Zenon DEF CrLf
    <2>3. Len(<<>>) = 0
        BY EmptySeq
    <2>4. Len(CrLf) # Len(<<>>)
        BY ONLY <2>2, <2>3
    <2> QED BY <2>2, <2>4, Zenon
<1> HIDE DEF a, t
<1>3. x = a + 1
    <2>1. a \in Nat
        BY <1>1
    <2>2. IsFirst(x, t, a, CrLf)
        BY <1>1, <1>2, <2>1, StrstrFacts
    <2> HIDE DEF x
    <2> DEFINE found(n) == SubSeq(t, n, n + 1) = CrLf /\ \A j \in a .. n - 1 : t[j] # "nul"
    <2>3. \/ x = 0 /\ \A n \in a .. Len(t) + 1 - 2 : ~ found(n)
          \/ /\ x \in a .. Len(t) + 1 - 2 /\ found(x)
             /\ \A n \in a .. x - 1 : ~ found(n)
        <3>1. \A n \in a .. Len(t) : n + 2 - 1 = n + 1
            BY <1>1
        <3>2. \A n \in a .. Len(t) + 1 - 2 : n \in a .. Len(t)
            BY <1>1
        <3>3. x \in a .. Len(t) + 1 - 2 => \A n \in a .. x - 1 : n \in a .. Len(t)
            BY <1>1
        <3>4. \A n \in a .. Len(t) :
                  found(n) <=> /\ SubSeq(t, n, n + Len(CrLf) - 1) = CrLf
                               /\ \A j \in a .. n - 1 : t[j] # "nul"
            BY <1>2, <3>1
        <3> HIDE DEF found
        <3>5. \/ x = 0 /\ \A n \in a .. Len(t) + 1 - 2 : ~ found(n)
              \/ /\ x \in a .. Len(t) + 1 - 2 /\ found(x)
                 /\ \A n \in a .. x - 1 : ~ found(n)
            BY <1>2, <2>2, <3>2, <3>3, <3>4 DEF IsFirst
        <3> QED BY <3>5
    <2>4. found(a + 1)
        <3>1. SubSeq(t, a + 1, a + 1 + 1) = CrLf
            BY <1>1
        <3>2. \A j \in a .. a + 1 - 1 : j = a
            BY <1>1
        <3> QED BY <1>1, <3>1, <3>2
    <2>5. ~ found(a)
        <3>1. a \in 1 .. Len(t) + 1 /\ a + 1 \in a - 1 .. Len(t) /\ a + 1 - a + 1 = 2 /\ a + 1 - 1 = a
            BY <1>1
        <3>2. \A n \in 1 .. 2 : SubSeq(t, a, a + 1)[n] = t[a + n - 1]
            BY <1>1, <3>1, PartFacts
        <3>3. SubSeq(t, a, a + 1)[1] = t[a]
            BY <3>1, <3>2
        <3> QED BY <1>1, <1>2, <3>3
    <2> HIDE DEF found
    <2>6. x # 0
        <3>1. a + 1 \in a .. Len(t) + 1 - 2
            BY <1>1
        <3>2. x = 0 => x \notin a .. Len(t) + 1 - 2
            BY <1>1
        <3> QED BY <2>3, <2>4, <3>1, <3>2, Zenon
    <2>7. ~ x > a + 1
        <3>1. x > a + 1 /\ x \in Nat => a + 1 \in a .. x - 1
            BY <1>1
        <3>2. x \in Nat
            BY <1>1, <2>3
        <3> QED BY <2>3, <2>4, <2>6, <3>1, <3>2
    <2> QED BY <1>1, <2>3, <2>5, <2>6, <2>7
<1> HIDE DEF x
<1>4. Strstr(r, a, CrLf) = IF x # 0 /\ x + 2 - 1 <= m THEN x ELSE 0
    <2>1. a \in Nat \ {0} /\ m \in 0 .. Len(t)
        BY <1>1 DEF t
    <2>2. Strstr(SubSeq(t, 1, m), a, CrLf) =
             IF Strstr(t, a, CrLf) # 0 /\ Strstr(t, a, CrLf) + Len(CrLf) - 1 <= m
             THEN Strstr(t, a, CrLf) ELSE 0
        BY <1>1, <1>2, <2>1, StrstrOfBeginning, Zenon
    <2> QED BY <1>2, <2>2 DEF x, r
<1>5. Strstr(r, a, CrLf) = IF a + 2 <= m THEN a + 1 ELSE 0
    BY <1>1, <1>3, <1>4
<1>6. a + 2 <= m => r[a] = t[a]
    <2>1. \A n \in 1 .. m : r[n] = t[n]
        BY <1>1, BeginningFacts DEF t
    <2>2. a + 2 <= m => a \in 1 .. m
        BY <1>1
    <2> QED BY <2>1, <2>2
<1> QED BY <1>1, <1>5, <1>6 DEF a, t

\* A chunk that has arrived is the next piece of the page.
LEMMA ChunkFacts ==
    ASSUME NEW s \in Sites, IsChunked(s), NEW k \in DOMAIN s.chunks, s.chunks[k].size # 0
    PROVE  LET c == s.chunks[k]
           IN  /\ k + 1 \in DOMAIN s.chunks /\ s.chunks[k + 1].at = c.at + c.size + 5
               /\ c.at + c.size + 7 <= Len(s.script)
               /\ SubSeq(s.page, 1, c.before) \o SubSeq(s.script, c.at + 3, c.at + 2 + c.size)
                    = SubSeq(s.page, 1, s.chunks[k + 1].before)
<1> DEFINE c == s.chunks[k]
           b == c.before
           n == c.before + c.size
<1>1. /\ k + 1 \in DOMAIN s.chunks /\ s.chunks[k + 1].at = c.at + c.size + 5
      /\ s.chunks[k + 1].before = n /\ n <= Len(s.page)
      /\ c.at \in 1 .. Len(s.script) - 2 /\ c.size \in Nat /\ b \in Nat
      /\ SubSeq(s.script, c.at + 3, c.at + 2 + c.size) = SubSeq(s.page, b + 1, n)
    BY ChunkedFacts
<1>2. s.chunks[k + 1].at \in 1 .. Len(s.script) - 2 /\ Len(s.script) \in Nat
    BY <1>1, ChunkedFacts, SiteFacts
<1>3. s.page \in Seq(STRING) /\ Len(s.page) \in Nat
    BY SiteFacts
<1> HIDE DEF c
<1>4. c.at + c.size + 7 <= Len(s.script)
    <2>1. c.at + c.size + 5 \in 1 .. Len(s.script) - 2
        BY <1>1, <1>2
    <2>2. c.at \in Nat /\ c.size \in Nat
        BY <1>1
    <2> QED BY ONLY <1>2, <2>1, <2>2
<1>5. SubSeq(s.page, 1, b) \o SubSeq(s.page, b + 1, n) = SubSeq(s.page, 1, n)
    <2> DEFINE p == s.page
    <2>1. 1 \in 1 .. Len(p) + 1 /\ b \in 1 - 1 .. Len(p) /\ n \in b .. Len(p) /\ p \in Seq(STRING)
        <3>1. b \in Nat /\ c.size \in Nat /\ b + c.size <= Len(p) /\ Len(p) \in Nat
            BY <1>1, <1>3
        <3> HIDE DEF p, b
        <3>2. b \in 1 - 1 .. Len(p) /\ n \in b .. Len(p) /\ 1 \in 1 .. Len(p) + 1
            BY ONLY <3>1 DEF b
        <3> QED BY <1>3, <3>2 DEF p
    <2> HIDE DEF p, b, n
    <2>2. SubSeq(p, 1, b) \o SubSeq(p, b + 1, n) = SubSeq(p, 1, n)
        BY <2>1, ConcatAdjacentSubSeq
    <2> QED BY <2>2 DEF p
<1> QED BY <1>1, <1>4, <1>5 DEF c

\* What is printed of the page before a chunk is a beginning of it; before the last
\* chunk it is all.
LEMMA BeforeFacts ==
    ASSUME NEW s \in Sites, IsChunked(s), NEW k \in DOMAIN s.chunks
    PROVE  LET x == SubSeq(s.page, 1, s.chunks[k].before)
           IN  IsPrefix(x, s.page) /\ (s.chunks[k].size = 0 => x = s.page)
<1> DEFINE p == s.page
           b == s.chunks[k].before
           x == SubSeq(p, 1, b)
<1>1. p \in Seq(STRING) /\ Len(p) \in Nat /\ b \in 0 .. Len(p) /\ (s.chunks[k].size = 0 => b = Len(p))
    BY ChunkedFacts, SiteFacts
<1> HIDE DEF p, b
<1>2. x \in Seq(STRING) /\ Len(x) = b
    BY <1>1, BeginningFacts
<1> HIDE DEF x
<1>3. SubSeq(x, 1, Len(x)) = x
    BY <1>2, SubSeqFull
<1>4. IsPrefix(x, p)
    BY <1>1, <1>2, <1>3 DEF IsPrefix, x
<1>5. b = Len(p) => x = p
    BY <1>1, SubSeqFull DEF x
<1> QED BY <1>1, <1>4, <1>5 DEF x, p, b

\* One turn of the loop over the chunks.
LEMMA ChunkStepKeeps ==
    ASSUME WebInv, ChunkStep
    PROVE  WebInv'
<1> DEFINE t == site.script
           m == Len(response)
<1>1. /\ wg = "chunks" /\ Arrived /\ InBody /\ Asked /\ ShownIsPage /\ WebGetTypeOK
      /\ UNCHANGED <<url, asked, site, sent, closed, response, encoding, clock>>
    BY DEF WebInv, ChunkStep
<1>2. PICK line \in SizeLines :
          /\ strayed' = (strayed \/ line.stale)
          /\ \/ /\ line.at = 0 /\ wg' = "loop"
                /\ UNCHANGED <<wgCode, body, remaining, shown>>
             \/ /\ line.at # 0 /\ line.size = 0 /\ Exit(0)
                /\ UNCHANGED <<body, remaining, shown>>
             \/ /\ line.at # 0 /\ line.size # 0
                /\ IF Behind(line.at, response) >= line.size
                   THEN /\ shown' = shown \o UpToNul(SubSeq(response, line.at, line.at + line.size - 1))
                        /\ body' = NextChunk(line) /\ remaining' = 0
                        /\ UNCHANGED wg
                   ELSE /\ body' = line.at /\ remaining' = line.size
                        /\ wg' = "loop" /\ UNCHANGED shown
                /\ UNCHANGED wgCode
    BY DEF ChunkStep
<1>3. /\ site \in Sites /\ t \in Seq(STRING) /\ Len(t) \in Nat
      /\ m \in 0 .. Len(t) /\ response = SubSeq(t, 1, m)
    BY <1>1, SiteFacts, LenProperties DEF Arrived, WebGetTypeOK
<1>4. /\ HeaderEnd(response) # 0 /\ body # 0 /\ encoding = "chunked" /\ Declared(t).encoding = "chunked"
      /\ 4 <= m /\ m <= RESPONSE_SIZE /\ RESPONSE_SIZE \in Nat /\ m \in Nat
      /\ body \in 0 .. 2 * RESPONSE_SIZE /\ remaining \in Nat /\ body \in Nat
    <2>1. HeaderEnd(response) # 0
        BY <1>1 DEF InBody
    <2>2. body # 0 /\ encoding = Declared(t).encoding /\ encoding = "chunked"
        BY <1>1, <2>1 DEF InBody
    <2>3. 4 <= m
        <3>1. HeaderEnd(t) \in Nat /\ HeaderEnd(t) # 0 /\ t \in Seq(Chars)
            BY <1>3, SiteFacts
        <3>2. HeaderEnd(t) + 3 <= m
            BY <1>3, <2>1, <3>1, HeadersStay
        <3> QED BY <1>3, <3>1, <3>2
    <2>4. body \in 0 .. 2 * RESPONSE_SIZE /\ remaining \in Nat /\ m <= RESPONSE_SIZE
        BY <1>1 DEF WebGetTypeOK
    <2> QED BY <1>3, <2>1, <2>2, <2>3, <2>4, WebGetAssumption
\* The line's place and size, whatever it is.
<1> DEFINE q == Strstr(response, body, CrLf)
<1>5. /\ line.at \in Nat /\ line.size \in Nat /\ line.stale \in BOOLEAN
      /\ line.at <= 2 * RESPONSE_SIZE
      /\ ~ line.stale =>
            \/ remaining # 0 /\ line.size = remaining /\ line.at = body
            \/ /\ remaining = 0 /\ body <= m + 1
               /\ line.size = (IF q = 0 THEN 0 ELSE Strtol(response[body]))
               /\ line.at = (IF q = 0 THEN 0 ELSE q + 2)
            \/ remaining = 0 /\ body > m + 1 /\ line.at = 0 /\ line.size = 0
    <2>1. CASE remaining # 0
        <3>1. line = [size |-> remaining, at |-> body, stale |-> FALSE]
            BY <1>2, <2>1 DEF SizeLines
        <3> QED BY <1>4, <2>1, <3>1
    <2>2. CASE remaining = 0 /\ body <= m + 1
        <3>1. line = [size |-> IF q = 0 THEN 0 ELSE Strtol(response[body]),
                      at |-> IF q = 0 THEN 0 ELSE q + 2, stale |-> FALSE]
            BY <1>2, <2>2 DEF SizeLines
        <3>2. Strtol(response[body]) \in Nat
            BY DEF Strtol
        <3>3. q = 0 \/ q \in body .. m + 1 - 2
            <4>1. response \in Seq(Chars) /\ CrLf \in Seq(Chars) /\ Len(CrLf) = 2
                <5>1. response \in Seq(Chars)
                    <6>1. STRING \subseteq Chars /\ response \in Seq(STRING)
                        BY <1>1 DEF Chars, WebGetTypeOK
                    <6> QED BY <6>1, SeqMonotonic
                <5>2. "cr" \in Chars /\ "lf" \in Chars
                    BY DEF Chars
                <5> QED BY <5>1, <5>2, TwoChars, Zenon DEF CrLf
            <4>2. IsFirst(q, response, body, CrLf)
                BY <1>4, <4>1, StrstrFacts
            <4>3. q = 0 \/ q \in body .. m + 1 - Len(CrLf)
                BY <4>2 DEF IsFirst
            <4> QED BY <4>1, <4>3
        <3> HIDE DEF q
        <3>4. q # 0 => q + 2 \in Nat /\ q + 2 <= 2 * RESPONSE_SIZE
            BY <1>4, <3>3
        <3> QED BY <1>4, <2>2, <3>1, <3>2, <3>4
    <2>3. CASE remaining = 0 /\ body > m + 1
        <3>1. \/ line = [size |-> 0, at |-> 0, stale |-> FALSE]
              \/ \E n \in 0 .. 1, a \in body + 2 .. Min({body + MaxStale, RESPONSE_SIZE + 1}) :
                    line = [size |-> n, at |-> a, stale |-> TRUE]
            <4>1. ~ body <= m + 1
                BY <1>4, <2>3
            <4>2. line = [size |-> 0, at |-> 0, stale |-> FALSE] \/ line \in LeftOver
                BY <1>2, <2>3, <4>1 DEF SizeLines
            <4> DEFINE last == Min({body + MaxStale, RESPONSE_SIZE + 1})
            <4>3. LeftOver = {[size |-> n, at |-> a, stale |-> TRUE] : n \in 0 .. 1, a \in body + 2 .. last}
                BY DEF LeftOver
            <4> HIDE DEF last
            <4>4. line \in LeftOver =>
                     \E n \in 0 .. 1, a \in body + 2 .. last : line = [size |-> n, at |-> a, stale |-> TRUE]
                BY ONLY <4>3
            <4> QED BY <4>2, <4>4 DEF last
        <3>2. CASE line = [size |-> 0, at |-> 0, stale |-> FALSE]
            BY <1>4, <2>3, <3>2
        <3>3. ASSUME NEW n \in 0 .. 1, NEW a \in body + 2 .. Min({body + MaxStale, RESPONSE_SIZE + 1}),
                     line = [size |-> n, at |-> a, stale |-> TRUE]
              PROVE  line.at \in Nat /\ line.size \in Nat /\ line.stale /\ line.at <= 2 * RESPONSE_SIZE
            <4> DEFINE x == Min({body + MaxStale, RESPONSE_SIZE + 1})
            <4>1. x <= RESPONSE_SIZE + 1 /\ x \in Int
                <5>1. body + MaxStale \in Int /\ RESPONSE_SIZE + 1 \in Int
                    BY <1>4, WebGetAssumption
                <5>2. x \in {body + MaxStale, RESPONSE_SIZE + 1} /\ x <= RESPONSE_SIZE + 1
                    BY <5>1, MinOfTwo
                <5> QED BY <5>1, <5>2
            <4> HIDE DEF x
            <4>2. a \in body + 2 .. x
                BY <3>3 DEF x
            <4>3. a \in Nat /\ a <= 2 * RESPONSE_SIZE
                BY <1>4, <4>1, <4>2
            <4> QED BY <3>3, <4>3
        <3> QED BY <3>1, <3>2, <3>3
    <2> QED BY <1>4, <2>1, <2>2, <2>3
\* The three things that may happen at it.
<1>6. /\ strayed' = (strayed \/ line.stale)
      /\ \/ /\ line.at = 0 /\ wg' = "loop"
            /\ wgCode' = wgCode /\ body' = body /\ remaining' = remaining /\ shown' = shown
         \/ /\ line.at # 0 /\ line.size = 0 /\ wg' = "exited" /\ wgCode' = 0
            /\ body' = body /\ remaining' = remaining /\ shown' = shown
         \/ /\ line.at # 0 /\ line.size # 0 /\ wgCode' = wgCode
            /\ Behind(line.at, response) >= line.size
            /\ shown' = shown \o UpToNul(SubSeq(response, line.at, line.at + line.size - 1))
            /\ body' = line.at + line.size + 2 /\ remaining' = 0 /\ wg' = "chunks"
         \/ /\ line.at # 0 /\ line.size # 0 /\ wgCode' = wgCode
            /\ ~ Behind(line.at, response) >= line.size
            /\ body' = line.at /\ remaining' = line.size /\ wg' = "loop" /\ shown' = shown
    BY <1>1, <1>2 DEF Exit, NextChunk
<1>7. /\ body' \in 0 .. 2 * RESPONSE_SIZE /\ body' # 0 /\ remaining' \in Nat
      /\ wg' \in {"loop", "chunks", "exited"} /\ wgCode' \in {0, 1}
      /\ shown' \in Seq(STRING) /\ strayed' \in BOOLEAN
    <2>1. wgCode \in {0, 1} /\ shown \in Seq(STRING) /\ strayed \in BOOLEAN /\ response \in Seq(STRING)
        BY <1>1 DEF WebGetTypeOK
    <2>2. ASSUME line.at # 0, line.size # 0, Behind(line.at, response) >= line.size
          PROVE  /\ line.at + line.size + 2 \in 1 .. 2 * RESPONSE_SIZE
                 /\ SubSeq(response, line.at, line.at + line.size - 1) \in Seq(STRING)
        <3>1. line.at <= m /\ line.at + line.size <= m + 1
            <4>1. Behind(line.at, response) = IF line.at > m THEN 0 ELSE m + 1 - line.at
                BY DEF Behind
            <4>2. /\ line.at \in Nat /\ line.size \in Nat /\ m \in Nat /\ line.size # 0
                  /\ Behind(line.at, response) >= line.size
                BY <1>4, <1>5, <2>2
            <4> HIDE DEF m
            <4> QED BY ONLY <4>1, <4>2
        <3>2. /\ line.at \in 1 .. m + 1 /\ line.at + line.size - 1 \in line.at - 1 .. m
              /\ line.at + line.size + 2 \in 1 .. 2 * RESPONSE_SIZE
            <4>1. /\ line.at \in Nat /\ line.size \in Nat /\ m \in Nat /\ line.at # 0
                  /\ 4 <= m /\ m <= RESPONSE_SIZE /\ RESPONSE_SIZE \in Nat
                BY <1>4, <1>5, <2>2
            <4> HIDE DEF m
            <4> QED BY ONLY <3>1, <4>1
        <3> QED BY <2>1, <3>2, PartFacts
    <2>3. CASE line.at = 0
        BY <1>4, <1>5, <1>6, <2>1, <2>3
    <2>4. CASE line.at # 0 /\ line.size = 0
        BY <1>4, <1>5, <1>6, <2>1, <2>4
    <2>5. CASE line.at # 0 /\ line.size # 0 /\ Behind(line.at, response) >= line.size
        <3> DEFINE piece == UpToNul(SubSeq(response, line.at, line.at + line.size - 1))
        <3>1. piece \in Seq(STRING) /\ line.at + line.size + 2 \in 1 .. 2 * RESPONSE_SIZE
            BY <2>2, <2>5, UpToNulFacts
        <3>2. /\ shown' = shown \o piece /\ body' = line.at + line.size + 2 /\ remaining' = 0
              /\ wg' = "chunks" /\ wgCode' = wgCode
            BY <1>6, <2>5
        <3> HIDE DEF piece
        <3>3. shown' \in Seq(STRING)
            BY <2>1, <3>1, <3>2, ConcatProperties
        <3>4. body' \in 0 .. 2 * RESPONSE_SIZE /\ body' # 0
            BY <1>4, <3>1, <3>2
        <3> QED BY <1>5, <1>6, <2>1, <3>2, <3>3, <3>4
    <2>6. CASE line.at # 0 /\ line.size # 0 /\ ~ Behind(line.at, response) >= line.size
        BY <1>4, <1>5, <1>6, <2>1, <2>6
    <2> QED BY <2>3, <2>4, <2>5, <2>6
<1>8. ASSUME ~ strayed'
      PROVE  /\ IsClean => /\ IsPrefix(shown', site.page)
                           /\ wg' = "exited" => shown' = site.page
             /\ wg' # "exited" => AtChunk' /\ (wg' = "loop" => m < Len(t))
    <2>1. ~ strayed /\ ~ line.stale /\ IsChunked(site)
        BY <1>3, <1>4, <1>6, <1>8, SiteFacts
    <2>2. AtChunk
        BY <1>1, <1>4, <2>1 DEF InBody
    <2>3. PICK k \in DOMAIN site.chunks :
              /\ IsClean => shown = SubSeq(site.page, 1, site.chunks[k].before)
              /\ \/ remaining = 0 /\ body = site.chunks[k].at
                 \/ /\ site.chunks[k].size # 0 /\ remaining = site.chunks[k].size
                    /\ body = site.chunks[k].at + 3
        BY <2>2 DEF AtChunk
    <2> DEFINE c == site.chunks[k]
    <2>4. c.at \in 1 .. Len(t) - 2 /\ c.at \in Nat /\ c.size \in Nat
        BY <1>3, <2>1, ChunkedFacts
    <2>5. IsClean => IsPrefix(shown, site.page) /\ (c.size = 0 => shown = site.page)
        BY <1>3, <2>1, <2>3, BeforeFacts
    \* The line is the chunk's own, or not there yet.
    <2>6. \/ line.at = 0 /\ remaining = 0 /\ body = c.at /\ m < c.at + 2
          \/ line.at = c.at + 3 /\ line.size = c.size
        <3>1. CASE remaining # 0
            BY <1>5, <2>1, <2>3, <3>1
        <3>2. CASE remaining = 0
            <4>1. body = c.at
                BY <2>3, <3>2
            <4>2. q = (IF c.at + 2 <= m THEN c.at + 1 ELSE 0) /\ (q # 0 => Strtol(response[c.at]) = c.size)
                <5>1. LET p == Strstr(SubSeq(t, 1, m), c.at, CrLf)
                      IN  /\ p = IF c.at + 2 <= m THEN c.at + 1 ELSE 0
                          /\ p # 0 => Strtol(SubSeq(t, 1, m)[c.at]) = c.size
                    BY <1>3, <2>1, SizeLineFacts, Zenon
                <5> QED BY <1>3, <4>1, <5>1, Zenon
            <4> HIDE DEF q, c, m
            <4>3. CASE c.at + 2 <= m
                <5>1. q # 0 /\ q + 2 = c.at + 3 /\ body <= m + 1
                    BY <1>4, <2>4, <4>1, <4>2, <4>3
                <5>2. ~ body > m + 1
                    BY <1>4, <5>1
                <5> QED BY <1>5, <2>1, <3>2, <4>1, <4>2, <5>1, <5>2
            <4>4. CASE ~ c.at + 2 <= m
                <5>1. q = 0 /\ m < c.at + 2
                    BY <1>4, <2>4, <4>2, <4>4
                <5> QED BY <1>5, <2>1, <3>2, <4>1, <5>1
            <4> QED BY <4>3, <4>4
        <3> QED BY <3>1, <3>2
    <2>7. CASE line.at = 0
        <3>1. wg' = "loop" /\ shown' = shown /\ body' = body /\ remaining' = remaining
            BY <1>6, <2>7
        <3>2. m < Len(t)
            <4>1. c.at + 3 # 0
                BY <2>4
            <4>2. m < c.at + 2
                BY <2>6, <2>7, <4>1
            <4> QED BY <1>3, <1>4, <2>4, <4>2
        <3>3. AtChunk'
            BY <1>1, <2>3, <3>1 DEF AtChunk, IsClean
        <3> QED BY <2>5, <3>1, <3>2, <3>3
    <2>8. CASE line.at # 0 /\ line.size = 0
        BY <1>6, <2>5, <2>6, <2>8
    <2>9. CASE line.at # 0 /\ line.size # 0
        <3>1. line.at = c.at + 3 /\ line.size = c.size /\ c.size # 0
            BY <2>6, <2>9
        <3> DEFINE n == site.chunks[k + 1]
        <3>2. /\ k + 1 \in DOMAIN site.chunks /\ n.at = c.at + c.size + 5
              /\ c.at + c.size + 7 <= Len(t)
              /\ SubSeq(site.page, 1, c.before) \o SubSeq(t, c.at + 3, c.at + 2 + c.size)
                   = SubSeq(site.page, 1, n.before)
            BY <1>3, <2>1, <3>1, ChunkFacts
        <3>3. CASE Behind(line.at, response) >= line.size
            <4>1. /\ shown' = shown \o UpToNul(SubSeq(response, line.at, line.at + line.size - 1))
                  /\ body' = line.at + line.size + 2 /\ remaining' = 0 /\ wg' = "chunks"
                BY <1>6, <2>9, <3>3
            <4>2. body' = n.at
                <5>1. body' = c.at + 3 + c.size + 2 /\ n.at = c.at + c.size + 5
                    BY <3>1, <3>2, <4>1
                <5> HIDE DEF n, c
                <5> QED BY ONLY <2>4, <5>1
            <4>3. SubSeq(response, line.at, line.at + line.size - 1) = SubSeq(t, c.at + 3, c.at + 2 + c.size)
                <5> DEFINE a == c.at + 3
                           b == c.at + 2 + c.size
                <5>1. Behind(line.at, response) = IF line.at > m THEN 0 ELSE m + 1 - line.at
                    BY DEF Behind
                <5>2. a \in 1 .. m + 1 /\ b \in a - 1 .. m /\ line.at = a /\ line.at + line.size - 1 = b
                    <6>1. /\ line.at = c.at + 3 /\ line.size = c.size /\ c.size # 0
                          /\ Behind(line.at, response) >= line.size
                          /\ c.at \in Nat /\ c.size \in Nat /\ m \in Nat
                        BY <1>4, <2>4, <3>1, <3>3
                    <6> HIDE DEF c, m
                    <6> QED BY ONLY <5>1, <6>1
                <5> HIDE DEF a, b
                <5>3. SubSeq(SubSeq(t, 1, m), a, b) = SubSeq(t, a, b)
                    BY <1>3, <5>2, BeginningFacts
                <5> QED BY <1>3, <5>2, <5>3 DEF a, b
            <4>4. ASSUME IsClean
                  PROVE  shown' = SubSeq(site.page, 1, n.before)
                <5> DEFINE piece == SubSeq(t, c.at + 3, c.at + 2 + c.size)
                <5>1. piece = SubSeq(site.page, c.before + 1, c.before + c.size)
                    BY <1>3, <2>1, <3>1, ChunkedFacts
                <5>2. /\ c.before + 1 \in 1 .. Len(site.page) + 1
                      /\ c.before + c.size \in (c.before + 1) - 1 .. Len(site.page)
                    <6>1. /\ c.before \in Nat /\ c.size \in Nat /\ Len(site.page) \in Nat
                          /\ c.before + c.size <= Len(site.page)
                        BY <1>3, <2>1, <3>1, ChunkedFacts, SiteFacts
                    <6> HIDE DEF c
                    <6> QED BY ONLY <6>1
                <5> HIDE DEF piece, c
                <5>3. UpToNul(piece) = piece
                    <6> DEFINE p == site.page
                               a == c.before + 1
                               b == c.before + c.size
                    <6>1. p \in Seq(STRING) /\ "nul" \notin ToSet(p)
                        BY <1>3, <4>4, SiteFacts DEF IsClean
                    <6>2. piece = SubSeq(p, a, b)
                        BY <5>1
                    <6>4. a \in 1 .. Len(p) + 1 /\ b \in a - 1 .. Len(p)
                        BY ONLY <5>2
                    <6> HIDE DEF p, a, b
                    <6>3. UpToNul(SubSeq(p, a, b)) = SubSeq(p, a, b)
                        BY <6>1, <6>4, PartIsPrinted
                    <6> QED BY <6>2, <6>3
                <5>4. shown' = shown \o piece
                    BY <4>1, <4>3, <5>3 DEF piece
                <5> QED BY <2>3, <3>2, <4>4, <5>4 DEF piece, c
            <4>5. IsClean => IsPrefix(shown', site.page)
                BY <1>3, <2>1, <3>2, <4>4, BeforeFacts
            <4>6. AtChunk'
                BY <1>1, <3>2, <4>1, <4>2, <4>4 DEF AtChunk, IsClean
            <4> QED BY <4>1, <4>5, <4>6
        <3>4. CASE ~ Behind(line.at, response) >= line.size
            <4>1. body' = line.at /\ remaining' = line.size /\ wg' = "loop" /\ shown' = shown
                BY <1>6, <2>9, <3>4
            <4>2. AtChunk'
                BY <1>1, <2>3, <3>1, <4>1 DEF AtChunk, IsClean
            <4>3. m < Len(t)
                <5>1. Behind(line.at, response) = IF line.at > m THEN 0 ELSE m + 1 - line.at
                    BY DEF Behind
                <5>2. /\ line.at = c.at + 3 /\ line.size = c.size /\ c.at + c.size + 7 <= Len(t)
                      /\ ~ Behind(line.at, response) >= line.size
                      /\ c.at \in Nat /\ c.size \in Nat /\ m \in Nat /\ Len(t) \in Nat
                    BY <1>3, <1>4, <2>4, <3>1, <3>2, <3>4
                <5> HIDE DEF c, m, t
                <5> QED BY ONLY <5>1, <5>2
            <4> QED BY <2>5, <4>1, <4>2, <4>3
        <3> QED BY <3>3, <3>4
    <2> QED BY <2>7, <2>8, <2>9
<1>9. InBody'
    BY <1>1, <1>4, <1>7, <1>8 DEF InBody
<1>10. ShownIsPage'
    BY <1>1, <1>7, <1>8 DEF ShownIsPage, IsClean
<1>11. WebGetTypeOK'
    <2>1. {response', shown'} \subseteq Seq(STRING)
        BY <1>1, <1>7 DEF WebGetTypeOK
    <2> QED BY <1>1, <1>7, <2>1 DEF WebGetTypeOK
<1>12. Asked' /\ Arrived'
    BY <1>1, <1>7 DEF Asked, Arrived
<1> QED BY <1>7, <1>9, <1>10, <1>11, <1>12 DEF WebInv

\* The request is sent, or refused for its protocol.
LEMMA StartKeeps ==
    ASSUME WebInv, WebGetStart
    PROVE  WebInv'
<1>1. /\ wg = "off" /\ response = <<>> /\ sent = 0 /\ body = 0 /\ encoding = "length"
      /\ remaining = 0 /\ shown = <<>> /\ ~ strayed /\ WebGetTypeOK
      /\ url' \in Urls /\ site' \in Sites /\ asked' = ParseUrl(Text(url'))
      /\ (asked'.protocol = "http" /\ wg' = "loop" /\ wgCode' = 0) \/ (wg' = "exited" /\ wgCode' = 1)
    <2>1. wg = "off" /\ url' \in Urls /\ site' \in Sites /\ asked' = ParseUrl(Text(url'))
        BY DEF WebGetStart
    <2>2. (asked'.protocol = "http" /\ wg' = "loop" /\ wgCode' = 0) \/ (wg' = "exited" /\ wgCode' = 1)
        BY DEF WebGetStart, Exit
    <2> QED BY <2>1, <2>2 DEF WebInv
<1>2. UNCHANGED <<sent, closed, response, body, encoding, remaining, clock, shown, strayed>>
    BY DEF WebGetStart
<1> DEFINE t == site'.script
<1>3. /\ t \in Seq(Chars) /\ Len(t) \in Nat /\ site'.page \in Seq(STRING) /\ Len(site'.page) \in Nat
      /\ HeaderEnd(t) \in Nat
    BY <1>1, SiteFacts
<1>4. Len(<<>>) = 0 /\ SubSeq(t, 1, 0) = <<>> /\ SubSeq(site'.page, 1, 0) = <<>>
    BY EmptySeq, SubSeqEmpty
<1>5. HeaderEnd(<<>>) = 0
    <2>1. 0 \in 0 .. Len(t)
        BY <1>3
    <2>2. HeaderEnd(SubSeq(t, 1, 0)) # 0 => HeaderEnd(t) + 3 <= 0
        BY <1>3, <2>1, HeadersStay
    <2>3. HeaderEnd(<<>>) # 0 => HeaderEnd(t) + 3 <= 0
        BY <1>4, <2>2, Zenon
    <2>4. ~ HeaderEnd(t) + 3 <= 0
        BY <1>3
    <2> QED BY <2>3, <2>4, Zenon
<1>6. Arrived'
    BY <1>1, <1>2, <1>3, <1>4 DEF Arrived
<1>7. InBody'
    BY <1>1, <1>2, <1>5 DEF InBody
<1>8. Asked'
    <2>1. SUFFICES ASSUME wg' \in {"loop", "chunks"}, url'.fragment = <<>> \/ url'.path = <<>>
                   PROVE  asked' = [protocol |-> "http", host |-> url'.host, path |-> url'.path,
                                    port |-> IF url'.port = <<>> THEN <<"80">> ELSE url'.port]
        BY DEF Asked
    <2>2. IsParsed(asked', url'.host, url'.port, url'.path)
        BY <1>1, <2>1, ParseFacts, UrlsAssumption
    <2>3. asked'.protocol = "http"
        BY <1>1, <2>1
    <2> QED BY <2>2, <2>3 DEF IsParsed
<1>9. ShownIsPage'
    BY <1>1, <1>2, <1>3, <1>4 DEF ShownIsPage, IsClean, IsPrefix
<1>10. WebGetTypeOK'
    BY <1>1, <1>2 DEF WebGetTypeOK
<1> QED BY <1>1, <1>6, <1>7, <1>8, <1>9, <1>10 DEF WebInv

\* Every step keeps the invariant.
LEMMA WebNextInv == WebInv /\ [WebGetNext]_wgVars => WebInv'
<1> SUFFICES ASSUME WebInv, [WebGetNext]_wgVars
             PROVE  WebInv'
    OBVIOUS
<1>1. CASE WebGetStart
    BY <1>1, StartKeeps
<1>2. CASE ClockAdvances
    <2>1. /\ wg = "loop" /\ wg' = wg /\ clock' \in 0 .. TIMEOUT + 1
          /\ UNCHANGED <<wgCode, url, asked, site, sent, closed, response, body, encoding,
                         remaining, shown, strayed>>
        BY <1>2, WebGetAssumption DEF ClockAdvances, WebInv, WebGetTypeOK
    <2>2. WebGetTypeOK'
        BY <2>1 DEF WebInv, WebGetTypeOK
    <2>3. Arrived' /\ InBody' /\ Asked' /\ ShownIsPage'
        BY <2>1 DEF WebInv, Arrived, InBody, AtChunk, Asked, IsClean, ShownIsPage
    <2> QED BY <2>1, <2>2, <2>3 DEF WebInv
<1>3. CASE GiveUp
    <2>1. /\ wg = "loop" /\ wg' = "exited" /\ wgCode' = 1
          /\ UNCHANGED <<url, asked, site, sent, closed, response, body, encoding, remaining,
                         clock, shown, strayed>>
        BY <1>3 DEF GiveUp, Exit
    <2>2. WebGetTypeOK'
        BY <2>1 DEF WebInv, WebGetTypeOK
    <2>3. Arrived' /\ InBody' /\ Asked' /\ ShownIsPage'
        BY <2>1 DEF WebInv, Arrived, InBody, Asked, IsClean, ShownIsPage
    <2> QED BY <2>1, <2>2, <2>3 DEF WebInv
<1>4. CASE Receive
    BY <1>4, ReceiveKeeps
<1>5. CASE PeerClosed
    BY <1>5, PeerClosedKeeps
<1>6. CASE ChunkStep
    BY <1>6, ChunkStepKeeps
<1>7. CASE SiteSends
    <2>1. /\ wg \in {"loop", "chunks"} /\ closed' \in BOOLEAN
          /\ sent' \in sent + 1 .. Len(site.script) \/ sent' = sent
          /\ UNCHANGED <<wg, wgCode, url, asked, site, response, body, encoding, remaining,
                         clock, shown, strayed>>
        BY <1>7 DEF SiteSends, WebInv, WebGetTypeOK
    <2>2. site \in Sites /\ sent \in Len(response) .. Len(site.script)
          /\ response = SubSeq(site.script, 1, Len(response))
        BY <2>1 DEF WebInv, Arrived
    <2>3. Len(response) \in Nat /\ Len(site.script) \in Nat
        BY <2>2, SiteFacts, LenProperties DEF WebInv, WebGetTypeOK
    <2>4. sent' \in Len(response) .. Len(site.script)
        BY <2>1, <2>2, <2>3
    <2>5. WebGetTypeOK'
        <3>1. Len(response') <= sent'
            BY <2>1, <2>3, <2>4
        <3> QED BY <2>1, <3>1 DEF WebInv, WebGetTypeOK
    <2>6. Arrived' /\ InBody' /\ Asked' /\ ShownIsPage'
        BY <2>1, <2>2, <2>4 DEF WebInv, Arrived, InBody, AtChunk, Asked, IsClean, ShownIsPage
    <2> QED BY <2>1, <2>5, <2>6 DEF WebInv
<1>8. CASE UNCHANGED wgVars
    <2>1. UNCHANGED <<wg, wgCode, url, asked, site, sent, closed, response, body, encoding,
                      remaining, clock, shown, strayed>>
        BY <1>8 DEF wgVars
    <2>2. WebGetTypeOK'
        BY <2>1 DEF WebInv, WebGetTypeOK
    <2> QED BY <2>1, <2>2 DEF WebInv, Arrived, InBody, AtChunk, Asked, IsClean, ShownIsPage
<1> QED BY <1>1, <1>2, <1>3, <1>4, <1>5, <1>6, <1>7, <1>8 DEF WebGetNext, WebGetSteps

\* For every URL, every page and every response that carries it, in whatever
\* pieces it arrives: the request names what the URL does, and what is printed of a
\* page without a zero byte is a beginning of it, all of it when web_get ends with
\* success (main() of web_get.c with parse_url and the chunked decoder).
THEOREM WebGetBodyIsPage == WebGetSpec => []BodyIsPage
<1>1. WebInv => BodyIsPage
    BY DEF WebInv, Asked, IsClean, ShownIsPage, BodyIsPage
<1> QED BY <1>1, WebInitInv, WebNextInv, PTL DEF WebGetSpec
=============================================================================
