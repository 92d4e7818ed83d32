--------------------------- MODULE MessageProofs ---------------------------
(***************************************************************************)
(* Theorems about the header collection, the codec and the digest.         *)
(***************************************************************************)
EXTENDS Messages, Digest, FiniteSetTheorems, SequenceTheorems, TLAPS

HeaderSeq == Seq([name : HeaderName, value : Int])

\* The cache says what a rebuild would say.
CacheTrue(h) == h.entries \in HeaderSeq /\ h = Rebuilt(h.entries)

\* From the well-foundedness of strict inclusion, which compares 1..i like i.
LEMMA LeastExists ==
  ASSUME NEW S \in SUBSET Nat, S # {}
  PROVE  /\ Min(S) \in S
         /\ \A i \in S : Min(S) <= i
<1> DEFINE T == {1..i : i \in S}
<1>1. T \subseteq FiniteSubsetsOf(Nat) /\ T # {}
  <2>1. \A i \in S : IsFiniteSet(1..i) /\ 1..i \subseteq Nat
    BY FS_Interval
  <2> QED BY <2>1 DEF FiniteSubsetsOf
<1>2. PICK x \in T : \A y \in T : <<y, x>> \notin StrictSubsetOrdering(Nat)
  BY <1>1, WFMin, FS_StrictSubsetOrderingWellFounded
<1>3. PICK m \in S : x = 1..m
  BY <1>2
<1>4. ASSUME NEW i \in S, i < m
      PROVE  FALSE
  <2>1. 1..i \subseteq 1..m /\ m \in 1..m /\ m \notin 1..i /\ 1..m \subseteq Nat
    BY <1>4, SMT
  <2>2. <<1..i, 1..m>> \in StrictSubsetOrdering(Nat)
    BY <2>1 DEF StrictSubsetOrdering
  <2> QED BY <1>2, <1>3, <2>2
<1>5. \A i \in S : m <= i
  BY <1>4, SMT
<1> QED BY <1>5 DEF Min

\* Induction over the natural numbers, for a property given as a set.
LEMMA SetInduction ==
  ASSUME NEW S \in SUBSET Nat, 0 \in S, \A n \in S : n + 1 \in S
  PROVE  S = Nat
<1> DEFINE R == Nat \ S
<1>1. SUFFICES ASSUME R # {} PROVE FALSE
  OBVIOUS
<1>2. Min(R) \in R /\ \A i \in R : Min(R) <= i
  BY <1>1, LeastExists
<1> HIDE DEF R
<1>3. Min(R) \in Nat /\ Min(R) # 0 /\ Min(R) \notin S
  BY <1>2 DEF R
<1>4. Min(R) - 1 \in Nat /\ Min(R) - 1 \notin R
  BY <1>2, <1>3, SMT
<1>5. Min(R) - 1 + 1 \in S
  BY <1>4 DEF R
<1> QED BY <1>3, <1>5, SMT

LEMMA FirstAtFacts ==
  ASSUME NEW s \in HeaderSeq, NEW n
  PROVE  /\ FirstAt(s, n) \in 0..Len(s)
         /\ FirstAt(s, n) = 0 <=> At(s, n) = {}
         /\ At(s, n) # {} => /\ FirstAt(s, n) \in At(s, n)
                             /\ \A i \in At(s, n) : FirstAt(s, n) <= i
<1>1. At(s, n) \in SUBSET Nat /\ \A i \in At(s, n) : i \in 1..Len(s)
  BY DEF At, HeaderSeq
<1> QED BY <1>1, LeastExists, SMT DEF FirstAt, HeaderSeq

\* The position of the first header is determined by what a linear search finds.
LEMMA FirstAtIs ==
  ASSUME NEW s \in HeaderSeq, NEW n, NEW k \in 1..Len(s), s[k].name = n,
         \A i \in 1..(k - 1) : s[i].name # n
  PROVE  FirstAt(s, n) = k
<1>1. k \in At(s, n) /\ \A i \in At(s, n) : k <= i
  BY SMT DEF At, HeaderSeq
<1>2. k \in Nat /\ At(s, n) \subseteq Nat
  BY DEF At
<1> QED BY <1>1, <1>2, FirstAtFacts, SMT

\* add keeps the cache true without a rebuild (message.rs:195).
THEOREM AddKeepsCache ==
  ASSUME NEW h, CacheTrue(h), NEW n \in HeaderName, NEW v \in Int
  PROVE  CacheTrue(AddHeader(h, n, v))
<1> DEFINE s == h.entries
           t == Append(s, Header(n, v))
           k == Len(s) + 1
<1>1. s \in HeaderSeq /\ h.via = At(s, "via") /\ \A m \in SingleName : h.first[m] = FirstAt(s, m)
  BY DEF CacheTrue, Rebuilt
<1>2. t \in HeaderSeq /\ Len(t) = k /\ t[k] = Header(n, v) /\ \A i \in 1..Len(s) : t[i] = s[i]
  BY <1>1 DEF HeaderSeq, Header
<1>3. \A m : At(t, m) = IF m = n THEN At(s, m) \cup {k} ELSE At(s, m)
  BY <1>1, <1>2, SMT DEF At, Header, HeaderSeq
<1>4. ASSUME NEW m \in SingleName
      PROVE  FirstAt(t, m) = IF m = n /\ h.first[m] = 0 THEN k ELSE h.first[m]
  <2>1. CASE h.first[m] # 0
    <3>1. FirstAt(s, m) \in 1..Len(s) /\ FirstAt(s, m) \in At(s, m)
             /\ \A i \in At(s, m) : FirstAt(s, m) <= i
      <4>1. At(s, m) # {}
        BY <1>1, <2>1, FirstAtFacts
      <4>2. FirstAt(s, m) \in At(s, m) /\ \A i \in At(s, m) : FirstAt(s, m) <= i
        BY <1>1, <4>1, FirstAtFacts
      <4> QED BY <4>2 DEF At
    <3>2. \A i \in At(t, m) : FirstAt(s, m) <= i
      <4>1. FirstAt(s, m) <= k
        BY <1>1, <3>1, SMT DEF HeaderSeq
      <4> QED BY <1>3, <3>1, <4>1
    <3>3. FirstAt(s, m) \in At(t, m)
      BY <1>3, <3>1
    <3>4. FirstAt(t, m) \in At(t, m) /\ \A i \in At(t, m) : FirstAt(t, m) <= i
      BY <1>2, <3>3, FirstAtFacts
    <3>5. At(t, m) \subseteq Nat
      BY DEF At
    <3> QED BY <1>1, <2>1, <3>2, <3>3, <3>4, <3>5, SMT
  <2>2. CASE h.first[m] = 0
    <3>1. At(s, m) = {}
      BY <1>1, <2>2, FirstAtFacts
    <3>2. CASE m = n
      <4>1. At(t, m) = {k}
        BY <1>3, <3>1, <3>2
      <4> QED BY <1>2, <2>2, <3>2, <4>1, FirstAtFacts
    <3>3. CASE m # n
      BY <1>2, <1>3, <2>2, <3>1, <3>3, FirstAtFacts
    <3> QED BY <3>2, <3>3
  <2> QED BY <2>1, <2>2
<1>5. AddHeader(h, n, v) = Rebuilt(t)
  BY <1>1, <1>3, <1>4 DEF AddHeader, Rebuilt
<1> QED BY <1>2, <1>5 DEF CacheTrue, Rebuilt

LEMMA WithoutIsSeq ==
  ASSUME NEW s \in HeaderSeq, NEW p \in 1..Len(s)
  PROVE  /\ Without(s, p) \in HeaderSeq
         /\ Len(Without(s, p)) = Len(s) - 1
         /\ \A i \in 1..(Len(s) - 1) : Without(s, p)[i] = IF i < p THEN s[i] ELSE s[i + 1]
<1>1. Len(s) - 1 \in Nat
  BY DEF HeaderSeq
<1>2. \A i \in 1..(Len(s) - 1) : s[i] \in [name : HeaderName, value : Int]
                                /\ s[i + 1] \in [name : HeaderName, value : Int]
  <2>1. \A i \in 1..(Len(s) - 1) : i \in 1..Len(s) /\ i + 1 \in 1..Len(s)
    BY SMT DEF HeaderSeq
  <2> QED BY <2>1, ElementOfSeq DEF HeaderSeq
<1>3. Without(s, p) \in [1..(Len(s) - 1) -> [name : HeaderName, value : Int]]
  BY <1>2 DEF Without
<1>4. Without(s, p) \in HeaderSeq
  BY <1>1, <1>3, SeqDef DEF HeaderSeq
<1>5. Len(Without(s, p)) = Len(s) - 1
  BY <1>1, <1>3, <1>4, LenProperties DEF HeaderSeq
<1> QED BY <1>4, <1>5 DEF Without

\* Whatever is done to a header collection, its cache stays true.  (For remove and set
\* see RemoveIsExact and SetIsExact.)
THEOREM HeadersKeepCache ==
  ASSUME NEW h, CacheTrue(h), NEW n \in HeaderName, NEW v \in Int
  PROVE  /\ CacheTrue(NoHeaders)
         /\ CacheTrue(AddHeader(h, n, v))
         /\ CacheTrue(RemoveFirstHeader(h, n))
         /\ CacheTrue(PushHeader(h, n, v))
<1> DEFINE s == h.entries
<1>1. s \in HeaderSeq
  BY DEF CacheTrue
<1>2. \A t \in HeaderSeq : CacheTrue(Rebuilt(t))
  BY DEF CacheTrue, Rebuilt
<1>3. CacheTrue(NoHeaders)
  <2>1. << >> \in HeaderSeq
    BY EmptySeq DEF HeaderSeq
  <2> QED BY <1>2, <2>1 DEF NoHeaders
<1>7. CacheTrue(RemoveFirstHeader(h, n))
  <2>1. CASE At(s, n) = {}
    BY <2>1 DEF RemoveFirstHeader
  <2>2. CASE At(s, n) # {}
    <3>1. FirstAt(s, n) \in 1..Len(s)
      BY <1>1, <2>2, FirstAtFacts DEF At
    <3> QED BY <1>1, <1>2, <2>2, <3>1, WithoutIsSeq DEF RemoveFirstHeader
  <2> QED BY <2>1, <2>2
<1>8. CacheTrue(PushHeader(h, n, v))
  <2>1. Before(Header(n, v), s) \in HeaderSeq
    BY <1>1 DEF Before, HeaderSeq, Header
  <2> QED BY <1>2, <2>1 DEF PushHeader
<1> QED BY <1>3, <1>7, <1>8, AddKeepsCache

\* get answers from the cache what a search through the headers would find, and
\* get_all finds them all (message.rs:123, message.rs:173).
THEOREM GetFindsFirst ==
  ASSUME NEW h, CacheTrue(h), NEW n \in HeaderName
  PROVE  /\ GetHeader(h, n) = FirstAt(h.entries, n)
         /\ AllHeaders(h, n) = At(h.entries, n)
BY DEF CacheTrue, Rebuilt, GetHeader, AllHeaders, FirstAt

\* What remove keeps of a list of headers, one by one.
Keep(kept, e, n) == IF e.name = n THEN kept ELSE Append(kept, e)

\* Kept after each of the first m headers of s.
KeptUpTo(g, s, n, m) ==
  /\ g \in [0..m -> HeaderSeq]
  /\ g[0] = << >>
  /\ \A k \in 1..m : g[k] = Keep(g[k - 1], s[k], n)

LEMMA KeptExists ==
  ASSUME NEW s \in HeaderSeq, NEW n
  PROVE  \E g : KeptUpTo(g, s, n, Len(s))
<1> DEFINE S == {m \in Nat : m <= Len(s) => \E g : KeptUpTo(g, s, n, m)}
<1>1. 0 \in S
  <2>1. [k \in 0..0 |-> << >>] \in [0..0 -> HeaderSeq]
    BY EmptySeq DEF HeaderSeq
  <2>2. KeptUpTo([k \in 0..0 |-> << >>], s, n, 0)
    BY <2>1, SMT DEF KeptUpTo
  <2> QED BY <2>2
<1>2. ASSUME NEW m \in S
      PROVE  m + 1 \in S
  <2>1. SUFFICES ASSUME m + 1 <= Len(s)
                 PROVE  \E g : KeptUpTo(g, s, n, m + 1)
    OBVIOUS
  <2>2. m \in Nat /\ m <= Len(s) /\ m + 1 \in 1..Len(s)
    BY <2>1, SMT DEF HeaderSeq
  <2>3. PICK g : KeptUpTo(g, s, n, m)
    BY <2>2
  <2> DEFINE f == [k \in 0..(m + 1) |-> IF k = m + 1 THEN Keep(g[m], s[m + 1], n) ELSE g[k]]
  <2>4. g[m] \in HeaderSeq /\ s[m + 1] \in [name : HeaderName, value : Int]
    <3>1. m \in 0..m
      BY <2>2
    <3>2. s[m + 1] \in [name : HeaderName, value : Int]
      BY <2>2, ElementOfSeq DEF HeaderSeq
    <3> QED BY <2>3, <3>1, <3>2 DEF KeptUpTo
  <2>5. Keep(g[m], s[m + 1], n) \in HeaderSeq
    BY <2>4, AppendProperties DEF Keep, HeaderSeq
  <2>6. \A k \in 0..m : k \in 0..(m + 1) /\ k # m + 1 /\ f[k] = g[k] /\ g[k] \in HeaderSeq
    BY <2>2, <2>3, SMT DEF KeptUpTo
  <2>7. f \in [0..(m + 1) -> HeaderSeq]
    <3>1. \A k \in 0..(m + 1) : k = m + 1 \/ k \in 0..m
      BY <2>2, SMT
    <3> QED BY <2>5, <2>6, <3>1
  <2>8. f[0] = << >>
    BY <2>2, <2>3, <2>6, 0 \in 0..m DEF KeptUpTo
  <2>9. ASSUME NEW k \in 1..(m + 1)
        PROVE  f[k] = Keep(f[k - 1], s[k], n)
    <3>1. k - 1 \in 0..m /\ m + 1 \in 0..(m + 1) /\ m + 1 - 1 = m
      BY <2>2, SMT
    <3>2. CASE k = m + 1
      BY <2>6, <3>1, <3>2
    <3>3. CASE k # m + 1
      <4>1. k \in 1..m /\ k \in 0..m
        BY <2>2, <3>3, SMT
      <4> QED BY <2>3, <2>6, <3>1, <4>1 DEF KeptUpTo
    <3> QED BY <3>2, <3>3
  <2> HIDE DEF f
  <2>10. KeptUpTo(f, s, n, m + 1)
    BY <2>7, <2>8, <2>9 DEF KeptUpTo
  <2> QED BY <2>10
<1>3. Len(s) \in S
  <2> HIDE DEF S
  <2>1. S \in SUBSET Nat
    BY DEF S
  <2>2. S = Nat
    BY <1>1, <1>2, <2>1, SetInduction
  <2> QED BY <2>2, LenProperties DEF HeaderSeq
<1> QED BY <1>3, LenProperties, SMT DEF HeaderSeq

LEMMA RetainedIsKept ==
  ASSUME NEW s \in HeaderSeq, NEW n
  PROVE  \E g : KeptUpTo(g, s, n, Len(s)) /\ Retained(s, n) = g[Len(s)]
<1> DEFINE D == 0..Len(s)
           F(g) == [k \in D |-> IF k = 0 THEN << >>
                                ELSE IF s[k].name = n THEN g[k - 1] ELSE Append(g[k - 1], s[k])]
           f == CHOOSE g : g = F(g)
<1>1. PICK g : KeptUpTo(g, s, n, Len(s))
  BY KeptExists
<1>2. \A k \in D : k = 0 \/ (k # 0 /\ k \in 1..Len(s))
  BY SMT DEF HeaderSeq
<1>3. g = F(g)
  <2>1. \A k \in D : g[k] = F(g)[k]
    BY <1>1, <1>2 DEF KeptUpTo, Keep
  <2>2. g = [k \in D |-> g[k]]
    BY <1>1 DEF KeptUpTo
  <2> QED BY <2>1, <2>2
<1>4. f = F(f)
  BY <1>3
<1>5. ASSUME NEW h, h = F(h)
      PROVE  h = g
  <2> DEFINE S == {k \in Nat : k \in D => h[k] = g[k]}
  <2>1. 0 \in S
    BY <1>1, <1>5 DEF KeptUpTo
  <2>2. ASSUME NEW k \in S
        PROVE  k + 1 \in S
    <3>1. SUFFICES ASSUME k + 1 \in D PROVE h[k + 1] = g[k + 1]
      OBVIOUS
    <3>2. k \in D /\ k + 1 # 0 /\ k + 1 \in 1..Len(s) /\ k + 1 - 1 = k
      BY <3>1, SMT DEF HeaderSeq
    <3>3. h[k] = g[k]
      BY <3>2
    <3>4. h[k + 1] = Keep(h[k], s[k + 1], n)
      <4>1. h[k + 1] = F(h)[k + 1]
        BY <1>5
      <4>2. F(h)[k + 1] = Keep(h[k + 1 - 1], s[k + 1], n)
        BY <3>1, <3>2 DEF Keep
      <4> QED BY <3>2, <4>1, <4>2
    <3>5. g[k + 1] = Keep(g[k], s[k + 1], n)
      BY <1>1, <3>2 DEF KeptUpTo
    <3> QED BY <3>3, <3>4, <3>5
  <2>3. S = Nat
    <3> HIDE DEF S
    <3>1. S \in SUBSET Nat
      BY DEF S
    <3> QED BY <2>1, <2>2, <3>1, SetInduction
  <2>4. \A k \in D : h[k] = g[k]
    <3>1. \A k \in D : k \in Nat
      OBVIOUS
    <3>2. \A k \in D : k \in S
      BY <2>3, <3>1
    <3> QED BY <3>2
  <2>5. h = [k \in D |-> h[k]] /\ g = [k \in D |-> g[k]]
    BY <1>1, <1>5 DEF KeptUpTo
  <2> QED BY <2>4, <2>5
<1>6. f = g
  BY <1>4, <1>5
<1> QED BY <1>1, <1>6 DEF Retained

\* remove takes away the headers of the name, all of them and no others.
LEMMA RetainedFacts ==
  ASSUME NEW s \in HeaderSeq, NEW n
  PROVE  /\ Retained(s, n) \in HeaderSeq
         /\ {Retained(s, n)[j] : j \in 1..Len(Retained(s, n))}
              = {e \in {s[i] : i \in 1..Len(s)} : e.name # n}
<1>1. PICK g : KeptUpTo(g, s, n, Len(s)) /\ Retained(s, n) = g[Len(s)]
  BY RetainedIsKept
<1> DEFINE Elements(t, m) == {t[j] : j \in 1..m}
           Others(m) == {e \in Elements(s, m) : e.name # n}
           S == {k \in Nat : k <= Len(s) => Elements(g[k], Len(g[k])) = Others(k)}
<1>2. 0 \in S
  <2>1. g[0] = << >> /\ Len(<< >>) = 0 /\ 1..0 = {}
    BY <1>1, EmptySeq, SMT DEF KeptUpTo
  <2> QED BY <2>1
<1>3. ASSUME NEW k \in S
      PROVE  k + 1 \in S
  <2>1. SUFFICES ASSUME k + 1 <= Len(s)
                 PROVE  Elements(g[k + 1], Len(g[k + 1])) = Others(k + 1)
    OBVIOUS
  <2> DEFINE e == s[k + 1]
  <2>2. k <= Len(s) /\ k + 1 \in 1..Len(s) /\ k \in 0..Len(s) /\ k + 1 - 1 = k
    BY <2>1, SMT DEF HeaderSeq
  <2>3. g[k] \in HeaderSeq /\ g[k + 1] = Keep(g[k], e, n) /\ e \in [name : HeaderName, value : Int]
    <3>1. e \in [name : HeaderName, value : Int]
      BY <2>2, ElementOfSeq DEF HeaderSeq
    <3> QED BY <1>1, <2>2, <3>1 DEF KeptUpTo
  <2>4. Elements(g[k], Len(g[k])) = Others(k)
    BY <2>2
  <2>5. Elements(s, k + 1) = Elements(s, k) \cup {e}
    <3>1. 1..(k + 1) = 1..k \cup {k + 1}
      BY SMT
    <3> QED BY <3>1
  <2>6. CASE e.name = n
    BY <2>3, <2>4, <2>5, <2>6 DEF Keep
  <2>7. CASE e.name # n
    <3> DEFINE t == g[k]
               u == Append(t, e)
    <3>1. /\ Len(u) = Len(t) + 1 /\ u[Len(t) + 1] = e
          /\ \A j \in 1..Len(t) : u[j] = t[j]
      BY <2>3 DEF HeaderSeq
    <3>2. 1..(Len(t) + 1) = 1..Len(t) \cup {Len(t) + 1}
      BY <2>3, SMT DEF HeaderSeq
    <3>3. g[k + 1] = u
      BY <2>3, <2>7 DEF Keep
    <3> DEFINE l == Len(t)
    <3> HIDE DEF u, l, e, t
    <3>4. Elements(u, l + 1) = Elements(t, l) \cup {e}
      <4>1. u[l + 1] = e /\ \A j \in 1..l : u[j] = t[j]
        BY <3>1 DEF l
      <4>2. 1..(l + 1) = 1..l \cup {l + 1}
        BY <3>2 DEF l
      <4>3. {u[j] : j \in 1..l} = {t[j] : j \in 1..l}
        BY <4>1
      <4>4. {u[j] : j \in 1..(l + 1)} = {u[j] : j \in 1..l} \cup {u[l + 1]}
        BY <4>2
      <4> QED BY <4>1, <4>3, <4>4
    <3>5. Elements(g[k + 1], Len(g[k + 1])) = Elements(t, l) \cup {e}
      BY <3>1, <3>3, <3>4 DEF l
    <3>6. Elements(t, l) = Others(k)
      BY <2>4 DEF t, l
    <3>7. Others(k + 1) = Others(k) \cup {e}
      BY <2>5, <2>7
    <3> QED BY <3>5, <3>6, <3>7
  <2> QED BY <2>6, <2>7
<1>4. S = Nat
  <2> HIDE DEF S
  <2>1. S \in SUBSET Nat
    BY DEF S
  <2> QED BY <1>2, <1>3, <2>1, SetInduction
<1>5. Len(s) \in Nat /\ Len(s) \in 0..Len(s)
  BY LenProperties, SMT DEF HeaderSeq
<1>6. Elements(g[Len(s)], Len(g[Len(s)])) = Others(Len(s))
  <2>1. Len(s) \in S
    BY <1>4, <1>5
  <2> QED BY <1>5, <2>1
<1>7. g[Len(s)] \in HeaderSeq
  BY <1>1, <1>5 DEF KeptUpTo
<1> QED BY <1>1, <1>6, <1>7

\* remove leaves a true cache and no header of the name, and keeps every other header
\* (message.rs:214).
THEOREM RemoveIsExact ==
  ASSUME NEW h, CacheTrue(h), NEW n \in HeaderName
  PROVE  LET r == RemoveHeaders(h, n)
         IN  /\ CacheTrue(r)
             /\ AllHeaders(r, n) = {}
             /\ {r.entries[j] : j \in 1..Len(r.entries)}
                  = {e \in {h.entries[i] : i \in 1..Len(h.entries)} : e.name # n}
<1> DEFINE s == h.entries
           t == Retained(s, n)
           r == RemoveHeaders(h, n)
<1>1. s \in HeaderSeq
  BY DEF CacheTrue
<1>2. /\ t \in HeaderSeq
      /\ {t[j] : j \in 1..Len(t)} = {e \in {s[i] : i \in 1..Len(s)} : e.name # n}
  BY <1>1, RetainedFacts
<1>3. r = Rebuilt(t) /\ r.entries = t
  BY DEF RemoveHeaders, Rebuilt
<1> HIDE DEF s, t, r
<1>4. CacheTrue(r)
  BY <1>2, <1>3 DEF CacheTrue
<1>5. At(t, n) = {}
  BY <1>2 DEF At
<1>6. AllHeaders(r, n) = {}
  BY <1>3, <1>4, <1>5, GetFindsFirst
<1> QED BY <1>2, <1>3, <1>4, <1>6 DEF r, s

\* set leaves exactly one header of the name, with the new value, where get finds it, and
\* a true cache (message.rs:189).
THEOREM SetIsExact ==
  ASSUME NEW h, CacheTrue(h), NEW n \in HeaderName, NEW v \in Int
  PROVE  LET r == SetHeader(h, n, v)
         IN  /\ CacheTrue(r)
             /\ AllHeaders(r, n) = {GetHeader(r, n)}
             /\ r.entries[GetHeader(r, n)] = Header(n, v)
<1> DEFINE q == RemoveHeaders(h, n)
           r == SetHeader(h, n, v)
           k == Len(q.entries) + 1
<1>1. CacheTrue(q) /\ AllHeaders(q, n) = {}
  BY RemoveIsExact
<1>2. CacheTrue(r) /\ r.entries = Append(q.entries, Header(n, v))
  BY <1>1, AddKeepsCache DEF SetHeader, AddHeader
<1>3. At(q.entries, n) = {}
  BY <1>1, GetFindsFirst
<1>4. q.entries \in HeaderSeq /\ r.entries \in HeaderSeq
  BY <1>1, <1>2 DEF CacheTrue
<1> HIDE DEF q, r
<1>5. /\ Len(r.entries) = k /\ k \in 1..k /\ r.entries[k] = Header(n, v)
      /\ \A i \in 1..k : i = k \/ (i \in 1..Len(q.entries) /\ r.entries[i] = q.entries[i])
  BY <1>2, <1>4, SMT DEF HeaderSeq
<1>6. At(r.entries, n) = {k}
  BY <1>3, <1>5 DEF At, Header
<1>7. FirstAt(r.entries, n) = k
  BY <1>4, <1>6, FirstAtFacts
<1>8. AllHeaders(r, n) = {k} /\ GetHeader(r, n) = k
  BY <1>2, <1>6, <1>7, GetFindsFirst
<1> QED BY <1>2, <1>5, <1>8 DEF r

\* The headers a parser reads one by one are cached as if at once.
THEOREM ParserKeepsCache ==
  ASSUME NEW s \in HeaderSeq
  PROVE  ParsedHeaders(s) = Rebuilt(s)
<1> DEFINE D == 0..Len(s)
           F(g) == [k \in D |-> IF k = 0 THEN NoHeaders
                                ELSE AddHeader(g[k - 1], s[k].name, s[k].value)]
           f == [k \in D |-> Rebuilt(SubSeq(s, 1, k))]
<1>1. SubSeq(s, 1, 0) = << >> /\ SubSeq(s, 1, Len(s)) = s
  BY DEF HeaderSeq
<1>2. ASSUME NEW k \in 1..Len(s)
      PROVE  Rebuilt(SubSeq(s, 1, k))
               = AddHeader(Rebuilt(SubSeq(s, 1, k - 1)), s[k].name, s[k].value)
  <2> DEFINE t == SubSeq(s, 1, k - 1)
  <2>1. s[k] \in [name : HeaderName, value : Int] /\ t \in HeaderSeq
    <3>1. k \in 1..Len(s) /\ k - 1 <= Len(s) /\ k - 1 \in Nat
      BY SMT DEF HeaderSeq
    <3>2. s[k] \in [name : HeaderName, value : Int]
      BY ElementOfSeq DEF HeaderSeq
    <3>3. t \in HeaderSeq
      <4> HIDE DEF D, F, f
      <4>1. \A i \in 1..(k - 1) : s[i] \in [name : HeaderName, value : Int]
        <5>1. \A i \in 1..(k - 1) : i \in 1..Len(s)
          BY <3>1, SMT
        <5> QED BY <5>1, ElementOfSeq DEF HeaderSeq
      <4> QED BY <3>1, <4>1, SubSeqProperties, SMT DEF HeaderSeq
    <3> QED BY <3>2, <3>3
  <2>2. SubSeq(s, 1, k) = Append(t, Header(s[k].name, s[k].value))
    BY <2>1 DEF HeaderSeq, Header
  <2>3. CacheTrue(Rebuilt(t))
    BY <2>1 DEF CacheTrue, Rebuilt
  <2>4. CacheTrue(AddHeader(Rebuilt(t), s[k].name, s[k].value))
    BY <2>1, <2>3, AddKeepsCache
  <2>5. AddHeader(Rebuilt(t), s[k].name, s[k].value).entries
          = Append(t, Header(s[k].name, s[k].value))
    BY DEF AddHeader, Rebuilt
  <2> QED BY <2>2, <2>4, <2>5 DEF CacheTrue
<1>3. f = F(f)
  <2>1. ASSUME NEW k \in D
        PROVE  f[k] = F(f)[k]
    <3>1. CASE k = 0
      BY <1>1, <3>1 DEF NoHeaders
    <3>2. CASE k # 0
      <4>1. k \in 1..Len(s) /\ k - 1 \in D
        BY <3>2, SMT
      <4> QED BY <1>2, <3>2, <4>1
    <3> QED BY <3>1, <3>2
  <2> QED BY <2>1
<1>4. ASSUME NEW g, g = F(g)
      PROVE  g = f
  <2> DEFINE S == {k \in Nat : k \in D => g[k] = f[k]}
  <2>1. 0 \in S
    BY <1>4, <1>1 DEF NoHeaders
  <2>2. ASSUME NEW k \in S
        PROVE  k + 1 \in S
    <3>1. SUFFICES ASSUME k + 1 \in D PROVE g[k + 1] = f[k + 1]
      OBVIOUS
    <3>2. k \in D /\ k + 1 # 0 /\ k + 1 \in 1..Len(s) /\ k + 1 - 1 = k
      BY <3>1, SMT DEF HeaderSeq
    <3>3. g[k + 1] = AddHeader(g[k], s[k + 1].name, s[k + 1].value)
      BY <1>4, <3>1, <3>2
    <3>4. g[k] = Rebuilt(SubSeq(s, 1, k))
      BY <3>2
    <3> QED BY <1>2, <3>1, <3>2, <3>3, <3>4
  <2>3. S = Nat
    <3> HIDE DEF S
    <3>1. S \in SUBSET Nat
      BY DEF S
    <3> QED BY <2>1, <2>2, <3>1, SetInduction
  <2>4. \A k \in D : g[k] = f[k]
    <3>1. \A k \in D : k \in Nat
      OBVIOUS
    <3>2. \A k \in D : k \in S
      BY <2>3, <3>1
    <3> QED BY <3>2
  <2>5. g = [k \in D |-> g[k]]
    BY <1>4
  <2> QED BY <2>4, <2>5
<1>5. (CHOOSE g : g = F(g)) = f
  BY <1>3, <1>4
<1>6. f[Len(s)] = Rebuilt(s)
  <2>1. Len(s) \in D
    BY LenProperties DEF HeaderSeq
  <2> QED BY <1>1, <2>1
<1> QED BY <1>5, <1>6 DEF ParsedHeaders

LEMMA PushedAt ==
  ASSUME NEW s \in HeaderSeq, NEW n \in HeaderName, NEW v \in Int
  PROVE  /\ Before(Header(n, v), s) \in HeaderSeq
         /\ Len(Before(Header(n, v), s)) = Len(s) + 1
         /\ Before(Header(n, v), s)[1] = Header(n, v)
         /\ \A i \in 1..Len(s) : Before(Header(n, v), s)[i + 1] = s[i]
BY DEF Before, HeaderSeq, Header

\* The Via a hop has put on a message is the one it takes off, with or without
\* the Record-Route the proxy puts above it: what is left are the headers as they
\* were (proxy/mod.rs:274, proxy/mod.rs:327).
THEOREM ViaPushedIsRemoved ==
  ASSUME NEW h, CacheTrue(h), NEW v \in Int, NEW r \in Int
  PROVE  /\ RemoveFirstHeader(PushHeader(h, "via", v), "via") = h
         /\ RemoveFirstHeader(PushHeader(PushHeader(h, "via", v), "record-route", r), "via")
              = PushHeader(h, "record-route", r)
<1> DEFINE s == h.entries
           t == Before(Header("via", v), s)
           u == Before(Header("record-route", r), t)
           w == Before(Header("record-route", r), s)
<1>0. "via" \in HeaderName /\ "record-route" \in HeaderName
  BY HeaderNameAssumption
<1>1. s \in HeaderSeq /\ h = Rebuilt(s)
  BY DEF CacheTrue
<1>2. /\ t \in HeaderSeq /\ Len(t) = Len(s) + 1
      /\ t[1] = Header("via", v) /\ \A i \in 1..Len(s) : t[i + 1] = s[i]
  BY <1>0, <1>1, PushedAt
<1>3. /\ u \in HeaderSeq /\ Len(u) = Len(t) + 1
      /\ u[1] = Header("record-route", r) /\ \A i \in 1..Len(t) : u[i + 1] = t[i]
  BY <1>0, <1>2, PushedAt
<1>4. /\ w \in HeaderSeq /\ Len(w) = Len(s) + 1
      /\ w[1] = Header("record-route", r) /\ \A i \in 1..Len(s) : w[i + 1] = s[i]
  BY <1>0, <1>1, PushedAt
<1> HIDE DEF s, t, u, w
<1>5. FirstAt(t, "via") = 1
  <2>1. t[1].name = "via" /\ 1 \in 1..Len(t)
    BY <1>1, <1>2, SMT DEF Header, HeaderSeq
  <2> QED BY <1>2, <2>1, FirstAtIs
<1>6. FirstAt(u, "via") = 2
  <2>1. u[2] = t[1] /\ 2 \in 1..Len(u)
    <3>1. Len(s) \in Nat
      BY <1>1, LenProperties DEF HeaderSeq
    <3>2. 1 \in 1..Len(t) /\ 2 \in 1..Len(u) /\ 1 + 1 = 2
      BY <1>2, <1>3, <3>1, SMT
    <3> QED BY <1>3, <3>2
  <2>2. u[2].name = "via" /\ \A i \in 1..(2 - 1) : u[i].name # "via"
    BY <1>2, <1>3, <2>1 DEF Header
  <2> QED BY <1>3, <2>1, <2>2, FirstAtIs
<1>7. Without(t, 1) = s
  <2>1. 1 \in 1..Len(t) /\ Len(s) \in Nat
    BY <1>1, <1>2, SMT DEF HeaderSeq
  <2>2. /\ Without(t, 1) \in HeaderSeq /\ Len(Without(t, 1)) = Len(s)
        /\ \A i \in 1..Len(s) : Without(t, 1)[i] = s[i]
    <3>1. \A i \in 1..Len(s) : ~(i < 1) /\ Len(t) - 1 = Len(s)
      BY <1>2, <2>1, SMT
    <3>2. Len(t) - 1 = Len(s)
      BY <1>2, <2>1, SMT
    <3> QED BY <1>2, <2>1, <3>1, <3>2, WithoutIsSeq
  <2> QED BY <1>1, <2>2, SeqEqual DEF HeaderSeq
<1>8. Without(u, 2) = w
  <2>1. 2 \in 1..Len(u) /\ Len(s) \in Nat /\ Len(u) = Len(s) + 2
    BY <1>1, <1>2, <1>3, SMT DEF HeaderSeq
  <2>2. /\ Without(u, 2) \in HeaderSeq /\ Len(Without(u, 2)) = Len(w)
        /\ \A i \in 1..Len(w) : Without(u, 2)[i] = IF i < 2 THEN u[i] ELSE u[i + 1]
    <3>1. Len(u) - 1 = Len(w)
      BY <1>4, <2>1, SMT
    <3> QED BY <1>3, <2>1, <3>1, WithoutIsSeq
  <2>3. ASSUME NEW i \in 1..Len(w)
        PROVE  Without(u, 2)[i] = w[i]
    <3>1. CASE i = 1
      BY <1>3, <1>4, <2>2, <3>1
    <3>2. CASE i # 1
      <4>1. i \in 1..Len(t) /\ ~(i < 2) /\ i - 1 \in 1..Len(s) /\ (i - 1) + 1 = i
        BY <1>2, <1>4, <2>1, <3>2, SMT
      <4> QED BY <1>2, <1>3, <1>4, <2>2, <4>1
    <3> QED BY <3>1, <3>2
  <2> QED BY <1>4, <2>2, <2>3, SeqEqual DEF HeaderSeq
<1>9. At(t, "via") # {} /\ At(u, "via") # {}
  BY <1>2, <1>3, <1>5, <1>6, FirstAtFacts
<1>10. RemoveFirstHeader(Rebuilt(t), "via") = h
  BY <1>1, <1>5, <1>7, <1>9 DEF RemoveFirstHeader, Rebuilt
<1>11. RemoveFirstHeader(Rebuilt(u), "via") = Rebuilt(w)
  BY <1>6, <1>8, <1>9 DEF RemoveFirstHeader, Rebuilt
<1>12. /\ PushHeader(h, "via", v) = Rebuilt(t) /\ PushHeader(h, "record-route", r) = Rebuilt(w)
       /\ PushHeader(Rebuilt(t), "record-route", r) = Rebuilt(u)
  BY DEF PushHeader, Rebuilt, s, t, u, w
<1> QED BY <1>10, <1>11, <1>12

-----------------------------------------------------------------------------
\* The Content-Length of a message, if it has one, is that of its body.
LengthTrue(h, body) ==
  \/ GetHeader(h, "content-length") = 0
  \/ h.entries[GetHeader(h, "content-length")].value = FormattedBody(body)

LEMMA LengthOfFormatted ==
  ASSUME NEW h, CacheTrue(h), NEW body \in Int, body >= NoBody, LengthTrue(h, body)
  PROVE  LET f == FormattedHeaders(h, body)
             at == GetHeader(f, "content-length")
         IN  /\ at = 0 => body \in {NoBody, 0}
             /\ at # 0 => f.entries[at].value = FormattedBody(body)
<1>1. CASE body > 0 /\ GetHeader(h, "content-length") = 0
  <2> DEFINE k == Len(h.entries) + 1
             f == AddHeader(h, "content-length", body)
  <2>1. h.first["content-length"] = 0
    BY <1>1 DEF GetHeader, SingleName
  <2>2. GetHeader(f, "content-length") = k
    BY <2>1 DEF GetHeader, SingleName, AddHeader
  <2>3. f.entries[k].value = body /\ k # 0
    <3>1. h.entries \in HeaderSeq
      BY DEF CacheTrue
    <3>2. Append(h.entries, Header("content-length", body))[k] = Header("content-length", body)
      BY <3>1 DEF HeaderSeq
    <3>3. k # 0
      BY <3>1, SMT DEF HeaderSeq
    <3> QED BY <3>2, <3>3 DEF AddHeader, Header
  <2> QED BY <1>1, <2>2, <2>3 DEF FormattedHeaders, FormattedBody
<1>2. CASE ~(body > 0 /\ GetHeader(h, "content-length") = 0)
  BY <1>2, SMT DEF FormattedHeaders, FormattedBody, LengthTrue, NoBody
<1> QED BY <1>1, <1>2

\* A body survives formatting and parsing if the Content-Length, when the message
\* has one, is true.  Only a body of no bytes comes back as no body.
THEOREM BodySurvives ==
  ASSUME NEW h, CacheTrue(h), NEW body \in Int, body >= NoBody, LengthTrue(h, body)
  PROVE  ParsedBody(FormattedHeaders(h, body), FormattedBody(body))
           = IF body = 0 THEN NoBody ELSE body
BY LengthOfFormatted, SMT DEF ParsedBody, FormattedBody, NoBody, NotANumber, TooShort

\* A message that has lost some of its body on the way is refused: it is never
\* taken for a message with a shorter body (parser.rs:394).
THEOREM LossNoticed ==
  ASSUME NEW h, CacheTrue(h), NEW body \in Int, body > 0, LengthTrue(h, body),
         NEW bytes \in 0..(body - 1)
  PROVE  ParsedBody(FormattedHeaders(h, body), bytes) = TooShort
BY LengthOfFormatted, SMT DEF ParsedBody, FormattedBody, NoBody, NotANumber, TooShort

-----------------------------------------------------------------------------
User == [username : STRING, password : STRING]

LEMMA RemainderOf ==
  ASSUME NEW n \in Nat \ {0}, NEW m \in Nat, NEW j \in 0..(n - 1)
  PROVE  (n * m + j) % n = j
<1> DEFINE x == n * m + j
           q == x \div n
           r == x % n
<1>1. x \in Nat /\ n * m \in Nat
  BY SMT
<1>2. q \in Nat /\ r \in 0..(n - 1) /\ x = n * q + r
  BY <1>1, SMT
<1> HIDE DEF q, r
<1>3. n * q \in Nat
  BY <1>2, SMT
<1>4. CASE q < m
  <2>1. PICK d \in Nat : m = q + 1 + d
    BY <1>2, <1>4, m - q - 1 \in Nat, SMT
  <2>2. n * m = n * q + n + n * d /\ n * d \in Nat
    BY <1>2, <2>1, SMT
  <2> QED BY <1>2, <1>3, <2>2, SMT
<1>5. CASE m < q
  <2>1. PICK d \in Nat : q = m + 1 + d
    BY <1>2, <1>5, q - m - 1 \in Nat, SMT
  <2>2. n * q = n * m + n + n * d /\ n * d \in Nat
    BY <1>2, <2>1, SMT
  <2> QED BY <1>1, <1>2, <2>2, SMT
<1>6. CASE q = m
  BY <1>1, <1>2, <1>6, SMT DEF r
<1> QED BY <1>2, <1>4, <1>5, <1>6, SMT

\* Within n numbers in a row, no two have the same remainder.
LEMMA SameRemainder ==
  ASSUME NEW n \in Nat \ {0}, NEW c \in Nat, NEW k \in c..(c + n - 1), NEW l \in c..(c + n - 1),
         k % n = l % n
  PROVE  l = k
<1>1. ASSUME NEW x \in c..(c + n - 1), NEW y \in c..(c + n - 1), x % n = y % n, x < y
      PROVE  FALSE
  <2>1. x \in Nat /\ y \in Nat
    BY SMT
  <2> DEFINE p == x \div n
             q == y \div n
             r == x % n
  <2>2. p \in Nat /\ q \in Nat /\ r \in Nat /\ x = n * p + r /\ y = n * q + r
    BY <1>1, <2>1, SMT
  <2> HIDE DEF p, q, r
  <2>3. n * p \in Nat /\ n * q \in Nat
    BY <2>2, SMT
  <2>4. CASE p < q
    <3>1. PICK d \in Nat : q = p + 1 + d
      BY <2>2, <2>4, q - p - 1 \in Nat, SMT
    <3>2. n * q = n * p + n + n * d /\ n * d \in Nat
      BY <2>2, <3>1, SMT
    <3> QED BY <2>1, <2>2, <2>3, <3>2, SMT
  <2>5. CASE q <= p
    <3>1. PICK d \in Nat : p = q + d
      BY <2>2, <2>5, p - q \in Nat, SMT
    <3>2. n * p = n * q + n * d /\ n * d \in Nat
      BY <2>2, <3>1, SMT
    <3> QED BY <1>1, <2>1, <2>2, <2>3, <3>2, SMT
  <2> QED BY <2>2, <2>4, <2>5, SMT
<1>2. k \in Int /\ l \in Int
  OBVIOUS
<1>3. ~(k < l) /\ ~(l < k)
  BY <1>1
<1> QED BY <1>2, <1>3, SMT

LEMMA FindUserFacts ==
  ASSUME NEW pool \in Seq(User), NEW name,
         \E i \in 1..Len(pool) : pool[i].username = name
  PROVE  /\ FindUser(pool, name) \in 1..Len(pool)
         /\ pool[FindUser(pool, name)].username = name
         /\ \A j \in 1..(FindUser(pool, name) - 1) : pool[j].username # name
<1> DEFINE N == {i \in 1..Len(pool) : pool[i].username = name}
<1>1. N \in SUBSET Nat /\ N # {}
  OBVIOUS
<1>2. Min(N) \in N /\ \A i \in N : Min(N) <= i
  BY <1>1, LeastExists
<1>3. \A j \in 1..(Min(N) - 1) : pool[j].username # name
  <2>1. ASSUME NEW j \in 1..(Min(N) - 1), pool[j].username = name
        PROVE  FALSE
    <3>1. Min(N) \in 1..Len(pool)
      BY <1>2
    <3>2. j \in 1..Len(pool) /\ j < Min(N)
      BY <3>1, SMT
    <3>3. j \in N
      BY <2>1, <3>2
    <3>4. Min(N) <= j
      BY <1>2, <3>3
    <3> QED BY <3>1, <3>2, <3>4, SMT
  <2> QED BY <2>1
<1>4. \E i \in 1..Len(pool) :
        pool[i].username = name /\ \A j \in 1..(i - 1) : pool[j].username # name
  BY <1>2, <1>3
<1> QED BY <1>4 DEF FindUser

\* find_by_username answers with the first entry of a name, and with none only if there
\* is none (user_pool/mod.rs:88).
THEOREM FirstEntryFound ==
  ASSUME NEW pool \in Seq(User), NEW name
  PROVE  LET i == FindUser(pool, name)
         IN  /\ i = 0 <=> \A j \in 1..Len(pool) : pool[j].username # name
             /\ i # 0 => /\ i \in 1..Len(pool) /\ pool[i].username = name
                         /\ \A j \in 1..Len(pool) : pool[j].username = name => i <= j
<1> DEFINE i == FindUser(pool, name)
<1>1. CASE \A j \in 1..Len(pool) : pool[j].username # name
  BY <1>1 DEF FindUser
<1>2. CASE \E j \in 1..Len(pool) : pool[j].username = name
  <2>1. /\ i \in 1..Len(pool) /\ pool[i].username = name
        /\ \A j \in 1..(i - 1) : pool[j].username # name
    BY <1>2, FindUserFacts
  <2> HIDE DEF i
  <2>2. i # 0
    BY <2>1, SMT
  <2>3. \A j \in 1..Len(pool) : j \in 1..(i - 1) \/ i <= j
    BY <2>1, SMT
  <2> QED BY <2>1, <2>2, <2>3 DEF i
<1> QED BY <1>1, <1>2

\* next_user is fair: in as many calls as the pool has entries each entry is taken exactly
\* once, wherever the counter stands (user_pool/mod.rs:67).
THEOREM RoundIsFair ==
  ASSUME NEW pool \in Seq(User), Len(pool) # 0, NEW counter \in Nat, NEW i \in 1..Len(pool)
  PROVE  LET round == counter..(counter + Len(pool) - 1)
         IN  \E k \in round :
               /\ NextUser(pool, k) = pool[i]
               /\ \A l \in round : (l % Len(pool)) + 1 = i => l = k
<1> DEFINE n == Len(pool)
           q == counter \div n
           r == counter % n
           k == IF i - 1 >= r THEN n * q + (i - 1) ELSE n * (q + 1) + (i - 1)
<1>1. n \in Nat \ {0}
  BY LenProperties
<1> HIDE DEF n
<1>2. q \in Nat /\ r \in 0..(n - 1) /\ counter = n * q + r
  BY <1>1, SMT
<1>3. i - 1 \in 0..(n - 1)
  BY <1>1, SMT DEF n
<1> HIDE DEF q, r
<1>4. k \in counter..(counter + n - 1) /\ k % n = i - 1
  <2>1. n * (q + 1) = n * q + n /\ n * q \in Nat
    BY <1>1, <1>2, SMT
  <2>2. \A m \in Nat, j \in 0..(n - 1) : (n * m + j) % n = j
    BY <1>1, RemainderOf
  <2>3. k % n = i - 1
    BY <1>2, <1>3, <2>2, q + 1 \in Nat
  <2> QED BY <1>1, <1>2, <1>3, <2>1, <2>3, SMT
<1>5. ASSUME NEW l \in counter..(counter + n - 1), l % n = k % n
      PROVE  l = k
  <2> HIDE DEF k
  <2>1. k \in Nat /\ l \in Nat
    BY <1>1, <1>4, SMT
  <2> QED BY <1>1, <1>4, <1>5, <2>1, SameRemainder
<1> HIDE DEF k
<1>6. (k % n) + 1 = i
  BY <1>3, <1>4, SMT
<1>7. \A l \in counter..(counter + n - 1) : (l % n) + 1 = i => l = k
  <2>1. ASSUME NEW l \in counter..(counter + n - 1), (l % n) + 1 = i
        PROVE  l % n = k % n
    <3>1. l % n \in Int
      BY <1>1, SMT
    <3> QED BY <1>4, <2>1, <3>1, SMT
  <2> QED BY <1>5, <2>1
<1> QED BY <1>4, <1>6, <1>7 DEF NextUser, n

\* The retry of a challenged request is accepted exactly if the first entry of its user has
\* the same password in the file of the UAC and in that of the proxy, and the realm and the
\* method the proxy computes with are those of the retry; which of several entries of that
\* name the call was started with does not matter (uac/mod.rs:598, auth/mod.rs:238).
THEOREM RetryVerified ==
  ASSUME NEW ours \in Seq(User), NEW theirs \in Seq(User), NEW name,
         \E i \in 1..Len(ours) : ours[i].username = name,
         \E i \in 1..Len(theirs) : theirs[i].username = name,
         NEW challenge, NEW method, NEW uri, NEW realm, NEW received
  PROVE  Verified(theirs, realm, received, Retry(ours, name, challenge, method, uri))
           <=> /\ ours[FindUser(ours, name)].password = theirs[FindUser(theirs, name)].password
               /\ realm = challenge.realm /\ received = method
<1>1. FindUser(ours, name) \in 1..Len(ours) /\ ours[FindUser(ours, name)].username = name
  BY FindUserFacts
<1>2. FindUser(theirs, name) # 0
  BY FindUserFacts, SMT
<1> QED BY <1>1, <1>2 DEF Verified, Retry, Credentials, Response
=============================================================================
