------------------------------ MODULE CallsProofs ------------------------------
(* What the program's functions promise, for every input: Sanitize of any text, the path  *)
(* of any track under any template the configuration accepts, the segments of any         *)
(* manifest, and Load and nextTimeWindowStart for durations, ranges and clocks of any     *)
(* size. TLC tries a handful of each.                                                     *)
EXTENDS Calls, FiniteSetTheorems, SequenceTheorems, WellFoundedInduction, TLAPS

------------------------------------------------------------------------------
(* Induction over the numbers, and folds. The community modules write a fold as the
   function that some CHOOSE picks; that there is one, and that it takes the positions one
   by one, needs an induction, which is made here over sets of numbers: a set stands where
   the library's induction theorems have an operator. *)

(* A set of numbers has a least. *)
LEMMA LeastOf ==
    ASSUME NEW T, T \subseteq Nat, T # {}
    PROVE  \E n \in T : \A m \in T : n <= m
<1>1. IsWellFoundedOn(OpToRel(<, Nat), Nat)
  BY NatLessThanWellFounded
<1>2. PICK n \in T : \A m \in T : ~(<<m, n>> \in OpToRel(<, Nat))
  BY <1>1, WFMin
<1>3. \A m \in T : m \in Nat /\ n \in Nat /\ ~(m < n)
  BY <1>2 DEF OpToRel
<1>4. QED BY <1>3

(* Induction over the numbers: a set that starts at 0 and is closed under the next is
   all of them. *)
LEMMA Inductive ==
    ASSUME NEW T, 0 \in T, \A n \in Nat : n \in T => n + 1 \in T
    PROVE  Nat \subseteq T
<1>1. SUFFICES ASSUME ~(Nat \subseteq T) PROVE FALSE
  OBVIOUS
<1>2. PICK n \in Nat \ T : \A m \in Nat \ T : n <= m
  <2>1. Nat \ T # {} /\ Nat \ T \subseteq Nat
    BY <1>1
  <2>2. QED BY <2>1, LeastOf
<1>3. n # 0 /\ n - 1 \in Nat /\ n - 1 \in T
  BY <1>2
<1>4. QED BY <1>2, <1>3

(* A set of numbers below a bound has a greatest. *)
LEMMA MaxOf ==
    ASSUME NEW n \in Nat, NEW T, T \subseteq 0 .. n, T # {}
    PROVE  Max(T) \in T /\ \A t \in T : t <= Max(T)
<1> DEFINE U == {n - t : t \in T}
<1>1. U \subseteq Nat /\ U # {}
  <2>1. \A t \in T : t \in 0 .. n /\ n - t \in Nat
    OBVIOUS
  <2>2. QED BY <2>1
<1>2. PICK u \in U : \A v \in U : u <= v
  BY <1>1, LeastOf
<1>3. PICK m \in T : u = n - m
  BY <1>2
<1>4. \A t \in T : m >= t
  <2>1. SUFFICES ASSUME NEW t \in T PROVE m >= t
    OBVIOUS
  <2>2. n - t \in U
    OBVIOUS
  <2>3. n - m <= n - t
    BY <1>2, <1>3, <2>2
  <2>4. m \in 0 .. n /\ t \in 0 .. n
    BY <1>3
  <2>5. QED BY <2>3, <2>4
<1>5. Max(T) \in T /\ \A t \in T : Max(T) >= t
  BY <1>4 DEF Max
<1>6. QED BY <1>5

(* The greatest of the first k positions is the last of them. *)
LEMMA MaxOfSegment ==
    ASSUME NEW k \in Nat \ {0}
    PROVE  Max(1 .. k) = k /\ (1 .. k) \ {k} = 1 .. k - 1
<1>1. 1 .. k # {} /\ 1 .. k \subseteq 0 .. k /\ k \in 1 .. k
  OBVIOUS
<1>2. Max(1 .. k) \in 1 .. k /\ k <= Max(1 .. k)
  BY <1>1, MaxOf
<1>3. QED BY <1>2

(* What FoldLeft's definition asks of the function it folds with: over the first n
   positions, from base, F[<<v, i>>] being the value after position i. *)
IsFold(g, n, S, base, F) ==
    /\ g \in [SUBSET (1 .. n) -> S]
    /\ \A x \in SUBSET (1 .. n) :
          g[x] = IF x = {} THEN base ELSE F[<<g[x \ {Max(x)}], Max(x)>>]

(* Such a function exists. *)
LEMMA FoldExists ==
    ASSUME NEW n \in Nat, NEW S, NEW base \in S, NEW F \in [S \X (1 .. n) -> S]
    PROVE  \E g : IsFold(g, n, S, base, F)
<1> DEFINE Right(k, g) ==
             \A x \in SUBSET (1 .. k) :
                g[x] = IF x = {} THEN base ELSE F[<<g[x \ {Max(x)}], Max(x)>>]
           Exists(k) == \E g \in [SUBSET (1 .. k) -> S] : Right(k, g)
           T == {k \in Nat : k <= n => Exists(k)}
<1>1. Exists(0)
  <2> DEFINE g == [x \in SUBSET (1 .. 0) |-> base]
  <2>1. g \in [SUBSET (1 .. 0) -> S] /\ \A x \in SUBSET (1 .. 0) : x = {} /\ g[x] = base
    OBVIOUS
  <2> HIDE DEF g
  <2>2. Right(0, g)
    BY <2>1
  <2>3. QED BY <2>1, <2>2
<1>2. ASSUME NEW k \in Nat, k + 1 <= n, Exists(k) PROVE Exists(k + 1)
  <2>1. 1 .. k \subseteq 1 .. k + 1 /\ 1 .. k + 1 \subseteq 0 .. k + 1 /\ k + 1 \in 1 .. n
    BY <1>2
  <2>2. PICK g \in [SUBSET (1 .. k) -> S] : Right(k, g)
    BY <1>2
  <2> DEFINE h == [x \in SUBSET (1 .. k + 1) |->
                     IF k + 1 \in x THEN F[<<g[x \ {k + 1}], k + 1>>] ELSE g[x]]
  <2>3. \A x \in SUBSET (1 .. k + 1) :
           /\ x \ {k + 1} \in SUBSET (1 .. k)
           /\ k + 1 \notin x => x \in SUBSET (1 .. k)
           /\ k + 1 \in x => h[x] = F[<<g[x \ {k + 1}], k + 1>>]
           /\ k + 1 \notin x => h[x] = g[x]
    BY <1>2
  <2>4. h \in [SUBSET (1 .. k + 1) -> S]
    <3>1. \A x \in SUBSET (1 .. k + 1) : h[x] \in S
      BY <1>2, <2>1, <2>2, <2>3
    <3>2. QED BY <3>1
  <2> HIDE DEF h
  <2>5. ASSUME NEW x \in SUBSET (1 .. k + 1)
        PROVE  h[x] = IF x = {} THEN base ELSE F[<<h[x \ {Max(x)}], Max(x)>>]
    <3>1. CASE k + 1 \in x
      <4>1. Max(x) \in x /\ k + 1 <= Max(x)
        <5>1. x \subseteq 0 .. k + 1 /\ x # {} /\ k + 1 \in Nat
          BY <2>1, <3>1
        <5>2. QED BY <3>1, <5>1, MaxOf
      <4>2. Max(x) = k + 1
        <5>1. Max(x) \in 1 .. k + 1
          BY <4>1
        <5>2. QED BY <4>1, <5>1
      <4>3. h[x \ {k + 1}] = g[x \ {k + 1}]
        BY <1>2, <2>3, <2>5
      <4>4. QED BY <2>3, <2>5, <3>1, <4>2, <4>3
    <3>2. CASE k + 1 \notin x
      <4>1. x \in SUBSET (1 .. k) /\ h[x] = g[x]
        BY <2>3, <2>5, <3>2
      <4>2. h[x \ {Max(x)}] = g[x \ {Max(x)}]
        BY <2>1, <2>3, <2>5, <3>2, <4>1
      <4>3. QED BY <2>2, <4>1, <4>2
    <3>3. QED BY <3>1, <3>2
  <2>6. QED BY <2>4, <2>5
<1>3. Exists(n)
  <2> HIDE DEF Exists
  <2>1. 0 \in T /\ \A k \in Nat : k \in T => k + 1 \in T
    BY <1>1, <1>2
  <2> HIDE DEF T
  <2>2. n \in T
    BY <2>1, Inductive
  <2>3. QED BY <2>2 DEF T
<1>4. QED BY <1>3 DEF IsFold

(* All that is known at first of the function a fold chooses. *)
Unrolls(f, n, S, base, F) ==
    /\ f[{}] = base
    /\ \A x \in SUBSET (1 .. n) :
          x # {} /\ f[x \ {Max(x)}] \in S => f[x] = F[<<f[x \ {Max(x)}], Max(x)>>]

(* G[k] is its value after k positions. *)
Steps(f, n, S, base, F) ==
    \E G \in [0 .. n -> S] :
       /\ G[0] = base /\ f[1 .. n] = G[n]
       /\ \A k \in 1 .. n : G[k] = F[<<G[k - 1], k>>]

(* And it takes the positions one by one, whatever it does with other sets. *)
LEMMA FoldSteps ==
    ASSUME NEW n \in Nat, NEW S, NEW base \in S, NEW F \in [S \X (1 .. n) -> S],
           NEW f, Unrolls(f, n, S, base, F)
    PROVE  Steps(f, n, S, base, F)
<1> DEFINE T == {k \in Nat : k <= n => f[1 .. k] \in S}
           G == [k \in 0 .. n |-> f[1 .. k]]
<1>0. \A k \in Nat : k \in T <=> (k <= n => f[1 .. k] \in S)
  OBVIOUS
<1> HIDE DEF T
<1>1. ASSUME NEW k \in 1 .. n, f[1 .. k - 1] \in S
      PROVE  f[1 .. k] = F[<<f[1 .. k - 1], k>>] /\ f[1 .. k] \in S
  <2>1. k \in Nat \ {0} /\ k \in 1 .. k /\ \A i \in 1 .. k : i \in 1 .. n
    BY <1>1
  <2>2. 1 .. k \in SUBSET (1 .. n) /\ 1 .. k # {}
    BY <2>1
  <2>3. Max(1 .. k) = k /\ (1 .. k) \ {k} = 1 .. k - 1
    BY <2>1, MaxOfSegment
  <2>4. f[1 .. k] = F[<<f[1 .. k - 1], k>>]
    BY <1>1, <2>2, <2>3 DEF Unrolls
  <2>5. QED BY <1>1, <2>4
<1>2. f[1 .. 0] \in S /\ f[1 .. 0] = base /\ 0 \in T
  BY <1>0, 1 .. 0 = {} DEF Unrolls
<1>3. ASSUME NEW k \in Nat, k \in T PROVE k + 1 \in T
  <2>1. CASE k + 1 <= n
    <3>1. k + 1 \in 1 .. n /\ (k + 1) - 1 = k /\ k <= n
      BY <2>1
    <3>3. f[1 .. k] \in S
      BY <1>0, <1>3, <3>1
    <3>2. f[1 .. (k + 1) - 1] \in S
      BY <3>3, <3>1, Zenon
    <3>4. f[1 .. k + 1] \in S
      BY <1>1, <3>1, <3>2, Zenon
    <3>5. QED BY <1>0, <3>4
  <2>2. QED BY <1>0, <2>1
<1>4. \A k \in 0 .. n : f[1 .. k] \in S
  <2>1. Nat \subseteq T
    BY <1>2, <1>3, Inductive
  <2>2. QED BY <1>0, <2>1
<1>5. G \in [0 .. n -> S] /\ G[0] = base /\ G[n] = f[1 .. n]
  BY <1>2, <1>4
<1>6. ASSUME NEW k \in 1 .. n PROVE G[k] = F[<<G[k - 1], k>>]
  <2>1. k \in 0 .. n /\ k - 1 \in 0 .. n
    OBVIOUS
  <2>2. f[1 .. k] = F[<<f[1 .. k - 1], k>>]
    BY <1>1, <1>4, <2>1
  <2>3. QED BY <2>1, <2>2
<1> HIDE DEF G
<1>7. QED BY <1>5, <1>6 DEF Steps

------------------------------------------------------------------------------
(* Texts and names: sanitize.go. *)

(* A text: characters that are encoded. *)
Text == Seq(DOMAIN Bytes)

(* Size adds up the bytes, character by character. *)
LEMMA SizeFolds ==
    ASSUME NEW s \in Text
    PROVE  \E G \in [0 .. Len(s) -> Nat] :
              /\ G[0] = 0 /\ Size(s) = G[Len(s)]
              /\ \A k \in 1 .. Len(s) : G[k] = G[k - 1] + Bytes[s[k]]
<1> DEFINE n == Len(s)
           F == [p \in Nat \X (1 .. n) |-> p[1] + Bytes[s[p[2]]]]
           Step(g, x) == IF x = {} THEN 0 ELSE g[x \ {Max(x)}] + Bytes[s[Max(x)]]
           f == CHOOSE g : g = [x \in SUBSET (1 .. n) |-> Step(g, x)]
<1>1. n \in Nat /\ DOMAIN s = 1 .. n /\ \A i \in 1 .. n : Bytes[s[i]] \in Nat
  <2>1. n \in Nat /\ DOMAIN s = 1 .. n /\ \A i \in 1 .. n : s[i] \in DOMAIN Bytes
    BY LenProperties, ElementOfSeq DEF Text
  <2>2. QED BY <2>1, CharactersAreEncoded
<1>2. Size(s) = f[1 .. n]
  BY <1>1 DEF Size, FoldLeft, MapThenFoldSet
<1> HIDE DEF n
<1>3. \E g : g = [x \in SUBSET (1 .. n) |-> Step(g, x)]
  <2>1. F \in [Nat \X (1 .. n) -> Nat]
    BY <1>1
  <2>2. PICK g : IsFold(g, n, Nat, 0, F)
    <3> HIDE DEF F
    <3>1. QED BY <1>1, <2>1, FoldExists
  <2>3. ASSUME NEW x \in SUBSET (1 .. n) PROVE g[x] = Step(g, x)
    <3>1. CASE x = {}
      BY <2>2, <3>1 DEF IsFold
    <3>2. CASE x # {}
      <4>1. Max(x) \in 1 .. n
        BY <1>1, <3>2, MaxOf, 1 .. n \subseteq 0 .. n
      <4>2. g[x \ {Max(x)}] \in Nat
        BY <2>2 DEF IsFold
      <4>3. F[<<g[x \ {Max(x)}], Max(x)>>] = g[x \ {Max(x)}] + Bytes[s[Max(x)]]
        BY <4>1, <4>2
      <4>4. QED BY <2>2, <3>2, <4>3 DEF IsFold
    <3>3. QED BY <3>1, <3>2
  <2> HIDE DEF Step
  <2>4. QED BY <2>2, <2>3 DEF IsFold
<1>4. f = [x \in SUBSET (1 .. n) |-> Step(f, x)]
  <2> HIDE DEF Step
  <2>1. QED BY <1>3
<1> HIDE DEF f
<1>5. Unrolls(f, n, Nat, 0, F)
  <2>1. f[{}] = 0
    BY <1>4
  <2>2. ASSUME NEW x \in SUBSET (1 .. n), x # {}, f[x \ {Max(x)}] \in Nat
        PROVE  f[x] = F[<<f[x \ {Max(x)}], Max(x)>>]
    <3>1. Max(x) \in 1 .. n
      BY <1>1, <2>2, MaxOf, 1 .. n \subseteq 0 .. n
    <3>2. f[x] = f[x \ {Max(x)}] + Bytes[s[Max(x)]]
      BY <1>4, <2>2
    <3>3. QED BY <2>2, <3>1, <3>2
  <2> HIDE DEF F
  <2>3. QED BY <2>1, <2>2 DEF Unrolls
<1>6. F \in [Nat \X (1 .. n) -> Nat] /\ 0 \in Nat
  BY <1>1
<1>7. \A v \in Nat, k \in 1 .. n : F[<<v, k>>] = v + Bytes[s[k]]
  OBVIOUS
<1> HIDE DEF F
<1>8. PICK G \in [0 .. n -> Nat] : /\ G[0] = 0 /\ f[1 .. n] = G[n]
                                  /\ \A k \in 1 .. n : G[k] = F[<<G[k - 1], k>>]
  <2>1. Steps(f, n, Nat, 0, F)
    BY <1>1, <1>5, <1>6, FoldSteps
  <2>2. QED BY <2>1 DEF Steps
<1>9. \A k \in 1 .. n : k - 1 \in 0 .. n /\ G[k - 1] \in Nat
  BY <1>1
<1>10. \A k \in 1 .. n : G[k] = G[k - 1] + Bytes[s[k]]
  BY <1>7, <1>8, <1>9
<1>11. QED BY <1>2, <1>8, <1>10 DEF n

(* A prefix of a text is a text of its own. *)
LEMMA PrefixIsText ==
    ASSUME NEW s \in Text, NEW k \in 0 .. Len(s)
    PROVE  /\ SubSeq(s, 1, k) \in Text /\ Len(SubSeq(s, 1, k)) = k
           /\ \A i \in 1 .. k : SubSeq(s, 1, k)[i] = s[i]
BY SubSeqProperties, LenProperties DEF Text

(* Size, prefix by prefix. *)
LEMMA SizesOfPrefixes ==
    ASSUME NEW s \in Text
    PROVE  \E G \in [0 .. Len(s) -> Nat] :
              /\ G[0] = 0
              /\ \A k \in 1 .. Len(s) : G[k] = G[k - 1] + Bytes[s[k]]
              /\ \A k \in 0 .. Len(s) : Size(SubSeq(s, 1, k)) = G[k]
<1>1. PICK G \in [0 .. Len(s) -> Nat] :
              G[0] = 0 /\ \A k \in 1 .. Len(s) : G[k] = G[k - 1] + Bytes[s[k]]
  BY SizeFolds
<1>2. ASSUME NEW k \in 0 .. Len(s) PROVE Size(SubSeq(s, 1, k)) = G[k]
  <2> DEFINE p == SubSeq(s, 1, k)
  <2>1. p \in Text /\ Len(p) = k /\ \A i \in 1 .. k : p[i] = s[i]
    BY PrefixIsText
  <2>0. k \in Nat /\ Len(s) \in Nat /\ k <= Len(s)
    BY LenProperties DEF Text
  <2> HIDE DEF p
  <2>2. PICK H \in [0 .. k -> Nat] :
             /\ H[0] = 0 /\ Size(p) = H[k]
             /\ \A i \in 1 .. k : H[i] = H[i - 1] + Bytes[p[i]]
    BY <2>1, SizeFolds
  <2> DEFINE T == {i \in Nat : i <= k => H[i] = G[i]}
  <2>3. 0 \in T
    BY <1>1, <2>2
  <2>4. ASSUME NEW i \in Nat, i \in T PROVE i + 1 \in T
    <3>1. CASE i + 1 <= k
      <4>1. i + 1 \in 1 .. k /\ i + 1 \in 1 .. Len(s) /\ i + 1 - 1 = i /\ H[i] = G[i]
        BY <2>0, <2>4, <3>1
      <4>2. H[i + 1] = H[i] + Bytes[p[i + 1]] /\ G[i + 1] = G[i] + Bytes[s[i + 1]]
        BY <1>1, <2>2, <4>1
      <4>3. QED BY <2>1, <4>1, <4>2
    <3>2. QED BY <3>1
  <2> HIDE DEF T
  <2>5. k \in T
    BY <2>0, <2>3, <2>4, Inductive
  <2>6. QED BY <2>0, <2>2, <2>5 DEF T, p
<1>3. QED BY <1>1, <1>2

(* A prefix is longer than the one before it by the bytes of its last character. *)
LEMMA SizeSteps ==
    ASSUME NEW s \in Text
    PROVE  /\ Size(s) \in Nat /\ Size(<<>>) = 0
           /\ \A k \in 1 .. Len(s) :
                 Size(SubSeq(s, 1, k)) = Size(SubSeq(s, 1, k - 1)) + Bytes[s[k]]
<1>1. PICK G \in [0 .. Len(s) -> Nat] :
              /\ G[0] = 0
              /\ \A k \in 1 .. Len(s) : G[k] = G[k - 1] + Bytes[s[k]]
              /\ \A k \in 0 .. Len(s) : Size(SubSeq(s, 1, k)) = G[k]
  BY SizesOfPrefixes
<1>2. Len(s) \in Nat /\ SubSeq(s, 1, Len(s)) = s /\ SubSeq(s, 1, 0) = <<>>
  BY LenProperties, SubSeqFull, SubSeqEmpty DEF Text
<1>3. Size(s) \in Nat /\ Size(<<>>) = 0
  <2>1. 0 \in 0 .. Len(s) /\ Len(s) \in 0 .. Len(s)
    BY <1>2
  <2>2. Size(SubSeq(s, 1, Len(s))) = G[Len(s)] /\ Size(SubSeq(s, 1, 0)) = G[0] /\ G[Len(s)] \in Nat
    BY <1>1, <2>1
  <2>3. QED BY <1>1, <1>2, <2>2
<1>4. ASSUME NEW k \in 1 .. Len(s)
      PROVE  Size(SubSeq(s, 1, k)) = Size(SubSeq(s, 1, k - 1)) + Bytes[s[k]]
  <2>1. k \in 0 .. Len(s) /\ k - 1 \in 0 .. Len(s)
    BY <1>2
  <2>2. QED BY <1>1, <2>1
<1>5. QED BY <1>3, <1>4

(* No prefix is longer than a prefix that holds it. *)
LEMMA SizeGrows ==
    ASSUME NEW s \in Text, NEW i \in 0 .. Len(s), NEW j \in i .. Len(s)
    PROVE  Size(SubSeq(s, 1, i)) <= Size(SubSeq(s, 1, j))
<1>1. PICK G \in [0 .. Len(s) -> Nat] :
              /\ \A k \in 1 .. Len(s) : G[k] = G[k - 1] + Bytes[s[k]]
              /\ \A k \in 0 .. Len(s) : Size(SubSeq(s, 1, k)) = G[k]
  BY SizesOfPrefixes
<1>2. Len(s) \in Nat /\ \A k \in 1 .. Len(s) : Bytes[s[k]] \in Nat
  BY LenProperties, ElementOfSeq, CharactersAreEncoded DEF Text
<1> DEFINE T == {d \in Nat : i + d <= Len(s) => G[i] <= G[i + d]}
<1>3. 0 \in T
  BY <1>1, <1>2
<1>4. ASSUME NEW d \in Nat, d \in T PROVE d + 1 \in T
  <2>1. CASE i + (d + 1) <= Len(s)
    <3>1. i + (d + 1) \in 1 .. Len(s) /\ i + (d + 1) - 1 = i + d /\ G[i] <= G[i + d]
      BY <1>2, <1>4, <2>1
    <3>2. G[i + (d + 1)] = G[i + d] + Bytes[s[i + (d + 1)]] /\ i + d \in 0 .. Len(s)
      BY <1>1, <1>2, <3>1
    <3>3. G[i] \in Nat /\ G[i + d] \in Nat /\ Bytes[s[i + (d + 1)]] \in Nat
      BY <1>2, <3>1, <3>2
    <3>4. G[i] <= G[i + (d + 1)]
      BY <3>1, <3>2, <3>3
    <3>5. QED BY <3>4
  <2>2. QED BY <2>1
<1> HIDE DEF T
<1>5. j - i \in T /\ j - i \in Nat
  <2>1. j - i \in Nat
    BY <1>2
  <2>2. Nat \subseteq T
    BY <1>3, <1>4, Inductive
  <2>3. QED BY <2>1, <2>2
<1>6. i + (j - i) = j /\ j <= Len(s) /\ j \in 0 .. Len(s)
  BY <1>2
<1>7. QED BY <1>1, <1>5, <1>6 DEF T

(* A text whose characters take no more bytes, place by place, takes no more. *)
LEMMA SizeCompares ==
    ASSUME NEW s \in Text, NEW t \in Text, Len(s) = Len(t),
           \A i \in 1 .. Len(s) : Bytes[s[i]] <= Bytes[t[i]]
    PROVE  Size(s) <= Size(t)
<1>1. PICK G \in [0 .. Len(s) -> Nat] :
           /\ G[0] = 0 /\ Size(s) = G[Len(s)]
           /\ \A k \in 1 .. Len(s) : G[k] = G[k - 1] + Bytes[s[k]]
  BY SizeFolds
<1>2. PICK H \in [0 .. Len(s) -> Nat] :
           /\ H[0] = 0 /\ Size(t) = H[Len(s)]
           /\ \A k \in 1 .. Len(s) : H[k] = H[k - 1] + Bytes[t[k]]
  BY SizeFolds
<1>3. /\ Len(s) \in Nat
      /\ \A k \in 1 .. Len(s) : Bytes[s[k]] \in Nat /\ Bytes[t[k]] \in Nat
  BY LenProperties, ElementOfSeq, CharactersAreEncoded DEF Text
<1> DEFINE T == {i \in Nat : i <= Len(s) => G[i] <= H[i]}
<1>4. 0 \in T
  BY <1>1, <1>2
<1>5. ASSUME NEW i \in Nat, i \in T PROVE i + 1 \in T
  <2>1. CASE i + 1 <= Len(s)
    <3>1. i + 1 \in 1 .. Len(s) /\ i \in 0 .. Len(s) /\ i + 1 - 1 = i /\ G[i] <= H[i]
      BY <1>3, <1>5, <2>1
    <3>2. G[i + 1] = G[i] + Bytes[s[i + 1]] /\ H[i + 1] = H[i] + Bytes[t[i + 1]]
      BY <1>1, <1>2, <3>1
    <3>3. G[i] \in Nat /\ H[i] \in Nat
      BY <3>1
    <3>4. G[i + 1] <= H[i + 1]
      BY <1>3, <3>1, <3>2, <3>3
    <3>5. QED BY <3>4
  <2>2. QED BY <2>1
<1> HIDE DEF T
<1>6. Len(s) \in T
  BY <1>3, <1>4, <1>5, Inductive
<1>7. QED BY <1>1, <1>2, <1>3, <1>6 DEF T

(* What TrimRight cuts off. *)
Trimmed == {".", " "}

(* The characters of a text. *)
LEMMA TextTyped ==
    ASSUME NEW s \in Text
    PROVE  /\ Len(s) \in Nat /\ DOMAIN s = 1 .. Len(s)
           /\ \A i \in 1 .. Len(s) : s[i] \in DOMAIN Bytes
BY LenProperties, ElementOfSeq DEF Text

(* TrimRight leaves the prefix up to the last symbol that is neither dot nor space. *)
LEMMA TrimRightIs ==
    ASSUME NEW s \in Text
    PROVE  \E k \in 0 .. Len(s) :
              /\ TrimRight(s) = SubSeq(s, 1, k)
              /\ k # 0 => s[k] \notin Trimmed
              /\ \A i \in k + 1 .. Len(s) : s[i] \in Trimmed
<1> DEFINE kept == {i \in DOMAIN s : s[i] \notin {".", " "}}
<1>1. Len(s) \in Nat /\ kept \subseteq 0 .. Len(s) /\ kept \subseteq 1 .. Len(s)
  <2>1. Len(s) \in Nat /\ DOMAIN s = 1 .. Len(s)
    BY TextTyped
  <2>2. \A i \in kept : i \in 1 .. Len(s)
    BY <2>1
  <2> HIDE DEF kept
  <2>3. QED BY <2>1, <2>2
<1>2. \A i \in 1 .. Len(s) : i \notin kept => s[i] \in Trimmed
  BY TextTyped DEF Trimmed
<1>3. \A i \in kept : s[i] \notin Trimmed
  BY DEF Trimmed
<1>4. TrimRight(s) = SubSeq(s, 1, IF kept = {} THEN 0 ELSE Max(kept))
  BY DEF TrimRight
<1> HIDE DEF kept
<1>5. CASE kept = {}
  <2>1. 0 \in 0 .. Len(s) /\ TrimRight(s) = SubSeq(s, 1, 0)
    BY <1>1, <1>4, <1>5
  <2>2. \A i \in 0 + 1 .. Len(s) : s[i] \in Trimmed
    BY <1>2, <1>5
  <2>3. QED BY <2>1, <2>2
<1>6. CASE kept # {}
  <2> DEFINE k == Max(kept)
  <2>1. k \in kept /\ \A i \in kept : i <= k
    BY <1>1, <1>6, MaxOf
  <2>2. TrimRight(s) = SubSeq(s, 1, k)
    BY <1>4, <1>6
  <2> HIDE DEF k
  <2>3. k \in 0 .. Len(s) /\ s[k] \notin Trimmed
    BY <1>1, <1>3, <2>1
  <2>4. \A i \in k + 1 .. Len(s) : s[i] \in Trimmed
    <3>1. SUFFICES ASSUME NEW i \in k + 1 .. Len(s) PROVE s[i] \in Trimmed
      OBVIOUS
    <3>2. i \in 1 .. Len(s) /\ ~(i <= k)
      BY <1>1, <2>3
    <3>3. QED BY <1>2, <2>1, <3>2
  <2>5. QED BY <2>2, <2>3, <2>4
<1>7. QED BY <1>5, <1>6

(* Truncate leaves the longest prefix that fits. *)
LEMMA TruncateIs ==
    ASSUME NEW s \in Text
    PROVE  \E k \in 0 .. Len(s) :
              /\ Truncate(s) = SubSeq(s, 1, k) /\ Size(SubSeq(s, 1, k)) <= MaxBytes
              /\ \A j \in 0 .. Len(s) : Size(SubSeq(s, 1, j)) <= MaxBytes => j <= k
<1> DEFINE fits == {n \in 0 .. Len(s) : Size(SubSeq(s, 1, n)) <= MaxBytes}
<1>1. Len(s) \in Nat /\ fits \subseteq 0 .. Len(s)
  BY TextTyped
<1>2. 0 \in fits
  <2>1. SubSeq(s, 1, 0) = <<>> /\ Size(<<>>) = 0
    BY SubSeqEmpty, SizeSteps DEF Text
  <2>2. MaxBytes \in Nat
    BY NamingAssumption
  <2>3. Size(SubSeq(s, 1, 0)) <= MaxBytes /\ 0 \in 0 .. Len(s)
    <3>1. Size(SubSeq(s, 1, 0)) = 0
      BY <2>1, Zenon
    <3>2. QED BY <1>1, <2>2, <3>1
  <2>4. QED BY <2>3
<1>3. Truncate(s) = SubSeq(s, 1, Max(fits))
  BY DEF Truncate
<1>4. Max(fits) \in fits /\ \A j \in fits : j <= Max(fits)
  <2> HIDE DEF fits
  <2>1. QED BY <1>1, <1>2, MaxOf
<1>5. QED BY <1>3, <1>4

(* First finds the symbol's first place, or the place past the end. *)
LEMMA FirstIs ==
    ASSUME NEW s \in Text, NEW ch, NEW n \in 1 .. Len(s) + 1,
           \A i \in 1 .. n - 1 : s[i] # ch, n <= Len(s) => s[n] = ch
    PROVE  First(s, ch) = n
<1>1. Len(s) \in Nat /\ DOMAIN s = 1 .. Len(s)
  BY TextTyped
<1> DEFINE I == {i \in 1 .. Len(s) : s[i] = ch}
<1>2. CASE n <= Len(s)
  <2>1. n \in I /\ \A i \in I : n <= i
    BY <1>1, <1>2
  <2>2. Min(I) \in I /\ \A i \in I : Min(I) <= i
    BY <2>1 DEF Min
  <2>3. Min(I) = n
    BY <1>1, <2>1, <2>2
  <2>4. ch \in ToSet(s)
    BY <1>1, <1>2 DEF ToSet
  <2>5. First(s, ch) = Min(I)
    BY <2>1, <2>4 DEF First, SelectInSeq
  <2>6. QED BY <2>3, <2>5
<1>3. CASE n = Len(s) + 1
  <2>1. ch \notin ToSet(s)
    BY <1>1, <1>3 DEF ToSet
  <2>2. QED BY <1>3, <2>1 DEF First
<1>4. QED BY <1>1, <1>2, <1>3

(* What comes before the first dot. *)
LEMMA StemIs ==
    ASSUME NEW s \in Text
    PROVE  \E n \in 0 .. Len(s) :
              /\ StemOf(s) = SubSeq(s, 1, n)
              /\ \A i \in 1 .. n : s[i] # "."
              /\ n < Len(s) => s[n + 1] = "."
<1> DEFINE dots == {i \in 1 .. Len(s) + 1 : i = Len(s) + 1 \/ s[i] = "."}
<1>1. Len(s) \in Nat /\ dots \subseteq Nat /\ Len(s) + 1 \in dots
  BY TextTyped
<1>2. PICK n \in dots : \A i \in dots : n <= i
  <2> HIDE DEF dots
  <2>1. QED BY <1>1, LeastOf
<1>3. n \in 1 .. Len(s) + 1 /\ n - 1 \in 0 .. Len(s) /\ (n <= Len(s) => s[n] = ".")
  BY <1>1, <1>2
<1>4. \A i \in 1 .. n - 1 : s[i] # "."
  <2>1. SUFFICES ASSUME NEW i \in 1 .. n - 1, s[i] = "." PROVE FALSE
    OBVIOUS
  <2>2. i \in dots /\ ~(n <= i)
    BY <1>1, <1>3, <2>1
  <2>3. QED BY <1>2, <2>2
<1>5. First(s, ".") = n
  BY <1>3, <1>4, FirstIs
<1>6. StemOf(s) = SubSeq(s, 1, n - 1)
  BY <1>5 DEF StemOf
<1>7. n - 1 < Len(s) => s[(n - 1) + 1] = "."
  BY <1>1, <1>3
<1>8. QED BY <1>3, <1>4, <1>6, <1>7

(* What sanitizeRune has seen to. *)
Legal(s) == \A i \in 1 .. Len(s) : s[i] \notin Illegal

(* A sequence of one. *)
LEMMA Singleton ==
    ASSUME NEW S, NEW a \in S
    PROVE  <<a>> \in Seq(S) /\ Len(<<a>>) = 1 /\ <<a>>[1] = a
OBVIOUS

(* The replacement, by name. *)
Underscore == "_"

(* The replacement takes one byte, is itself legal, and is no dot and no space. *)
LEMMA UnderscoreFits ==
    /\ Underscore \in DOMAIN Bytes /\ Bytes[Underscore] = 1
    /\ Underscore \notin Illegal /\ Underscore \notin Trimmed /\ Underscore # "."
BY NamingAssumption, CharactersAreEncoded, Zenon DEF Underscore, Trimmed

(* Alone it is a text of one byte. *)
LEMMA UnderscoreAlone ==
    LET u == <<Underscore>> IN u \in Text /\ Len(u) = 1 /\ u[1] = Underscore /\ Size(u) = 1
<1> DEFINE u == <<Underscore>>
<1>3. u \in Text /\ Len(u) = 1 /\ u[1] = Underscore
  BY UnderscoreFits, Singleton DEF Text
<1> HIDE DEF u
<1>4. SubSeq(u, 1, 1) = u /\ SubSeq(u, 1, 0) = <<>>
  BY <1>3, SubSeqFull, SubSeqEmpty DEF Text
<1>5. Size(<<>>) = 0 /\ Size(SubSeq(u, 1, 1)) = Size(SubSeq(u, 1, 0)) + Bytes[u[1]]
  <2>1. 1 \in 1 .. Len(u) /\ 1 - 1 = 0
    BY <1>3
  <2>2. Size(SubSeq(u, 1, 1)) = Size(SubSeq(u, 1, 1 - 1)) + Bytes[u[1]]
    BY <1>3, <2>1, SizeSteps
  <2>4. QED BY <1>3, <2>1, <2>2, SizeSteps
<1>6. Size(u) = Size(<<>>) + Bytes[Underscore]
  BY <1>3, <1>4, <1>5, Zenon
<1>7. Size(u) = 1
  BY <1>5, <1>6, UnderscoreFits
<1>8. QED BY <1>3, <1>7 DEF u

(* sanitizeRune replaces what is illegal by a character of one byte. *)
LEMMA SanitizeRunesIs ==
    ASSUME NEW s \in Text
    PROVE  /\ SanitizeRunes(s) \in Text /\ Len(SanitizeRunes(s)) = Len(s)
           /\ Legal(SanitizeRunes(s)) /\ Size(SanitizeRunes(s)) <= Size(s)
<1> DEFINE r == SanitizeRunes(s)
<1>1. /\ Len(s) \in Nat /\ DOMAIN s = 1 .. Len(s)
      /\ \A i \in 1 .. Len(s) : s[i] \in DOMAIN Bytes
  BY TextTyped
<1>2. r = [i \in 1 .. Len(s) |-> IF s[i] \in Illegal THEN Underscore ELSE s[i]]
  BY <1>1, Zenon DEF SanitizeRunes, Underscore
<1> HIDE DEF r
<1>3. \A i \in 1 .. Len(s) : r[i] \in DOMAIN Bytes /\ r[i] \notin Illegal /\ Bytes[r[i]] <= Bytes[s[i]]
  <2>1. SUFFICES ASSUME NEW i \in 1 .. Len(s)
                 PROVE  r[i] \in DOMAIN Bytes /\ r[i] \notin Illegal /\ Bytes[r[i]] <= Bytes[s[i]]
    OBVIOUS
  <2>2. Bytes[s[i]] \in Nat \ {0} /\ Bytes[Underscore] = 1 /\ s[i] \in DOMAIN Bytes
    <3>1. \A ch \in DOMAIN Bytes : Bytes[ch] \in Nat \ {0}
      BY CharactersAreEncoded, Zenon
    <3>2. QED BY <1>1, <3>1, UnderscoreFits
  <2>3. r[i] = IF s[i] \in Illegal THEN Underscore ELSE s[i]
    BY <1>2
  <2>4. CASE s[i] \in Illegal
    BY <2>2, <2>3, <2>4, UnderscoreFits
  <2>5. CASE s[i] \notin Illegal
    BY <2>2, <2>3, <2>5
  <2>6. QED BY <2>4, <2>5
<1>4. r \in Text /\ Len(r) = Len(s)
  <2>1. r \in [1 .. Len(s) -> DOMAIN Bytes]
    BY <1>2, <1>3
  <2>2. QED BY <1>1, <2>1, IsASeq, LenProperties DEF Text
<1>5. Size(r) <= Size(s)
  BY <1>3, <1>4, SizeCompares
<1>6. QED BY <1>3, <1>4, <1>5 DEF r, Legal

(* What Truncate and the second trim leave of a text that is legal. *)
LEMMA Shortened ==
    ASSUME NEW u \in Text, Legal(u)
    PROVE  \E k \in 0 .. Len(u) : \E w \in Text :
              /\ w = TrimRight(Truncate(u)) /\ w = SubSeq(u, 1, k) /\ Len(w) = k
              /\ Legal(w) /\ Size(w) <= MaxBytes
              /\ k # 0 => u[k] \notin Trimmed
              /\ \A j \in 1 .. Len(u) :
                    Size(SubSeq(u, 1, j)) <= MaxBytes /\ u[j] \notin Trimmed => j <= k
<1>1. PICK m \in 0 .. Len(u) :
           /\ Truncate(u) = SubSeq(u, 1, m) /\ Size(SubSeq(u, 1, m)) <= MaxBytes
           /\ \A j \in 0 .. Len(u) : Size(SubSeq(u, 1, j)) <= MaxBytes => j <= m
  BY TruncateIs
<1> DEFINE v == SubSeq(u, 1, m)
<1>2. v \in Text /\ Len(v) = m /\ \A i \in 1 .. m : v[i] = u[i]
  BY PrefixIsText
<1>3. PICK k \in 0 .. m : /\ TrimRight(v) = SubSeq(v, 1, k)
                          /\ k # 0 => v[k] \notin Trimmed
                          /\ \A i \in k + 1 .. m : v[i] \in Trimmed
  BY <1>2, TrimRightIs
<1>4. Len(u) \in Nat /\ m \in Nat /\ k \in Nat /\ m <= Len(u) /\ k <= m /\ k \in 0 .. Len(u)
  BY TextTyped
<1> DEFINE w == SubSeq(u, 1, k)
<1>5. SubSeq(v, 1, k) = w
  <2>1. /\ SubSeq(v, 1, k) \in Text /\ Len(SubSeq(v, 1, k)) = k
        /\ \A i \in 1 .. k : SubSeq(v, 1, k)[i] = v[i]
    BY <1>2, PrefixIsText
  <2>2. w \in Text /\ Len(w) = k /\ \A i \in 1 .. k : w[i] = u[i]
    BY <1>4, PrefixIsText
  <2> HIDE DEF v, w
  <2>3. \A i \in 1 .. k : SubSeq(v, 1, k)[i] = w[i]
    BY <1>2, <1>4, <2>1, <2>2
  <2>4. QED BY <2>1, <2>2, <2>3, SeqEqual DEF Text
<1>6. w \in Text /\ Len(w) = k /\ \A i \in 1 .. k : w[i] = u[i]
  BY <1>4, PrefixIsText
<1>7. w = TrimRight(Truncate(u))
  BY <1>1, <1>3, <1>5
<1>8. Size(w) <= MaxBytes
  <2>1. Size(w) <= Size(v)
    BY <1>4, SizeGrows
  <2>2. Size(w) \in Nat /\ Size(v) \in Nat /\ MaxBytes \in Nat
    BY <1>2, <1>6, SizeSteps, NamingAssumption
  <2>3. QED BY <1>1, <2>1, <2>2
<1> HIDE DEF v, w
<1>9. Legal(w)
  BY <1>4, <1>6 DEF Legal
<1>10. k # 0 => u[k] \notin Trimmed
  BY <1>2, <1>3, <1>4
<1>11. ASSUME NEW j \in 1 .. Len(u), Size(SubSeq(u, 1, j)) <= MaxBytes, u[j] \notin Trimmed
       PROVE  j <= k
  <2>1. j \in 0 .. Len(u) /\ j <= m
    BY <1>1, <1>4, <1>11
  <2>2. j \notin k + 1 .. m
    BY <1>2, <1>3, <1>4, <1>11, <2>1
  <2>3. QED BY <1>4, <2>1, <2>2
<1>12. QED BY <1>4, <1>6, <1>7, <1>8, <1>9, <1>10, <1>11 DEF w

(* A device's stem and the underscore fit a component, and no device ends in one. *)
LEMMA DeviceIs ==
    ASSUME NEW stem \in Reserved
    PROVE  /\ stem \in Text /\ Len(stem) # 0 /\ Size(stem) < MaxBytes
           /\ stem[Len(stem)] # Underscore
<1>1. /\ stem \in Seq(DOMAIN Bytes) /\ stem # <<>> /\ Size(stem) < MaxBytes
      /\ stem[Len(stem)] # Underscore
  BY DevicesAreShort, Zenon DEF Underscore
<1>2. QED BY <1>1, EmptySeq DEF Text

(* SuffixIfReserved, of a text whose stem is reserved: the underscore stands after it. *)
LEMMA SuffixedIs ==
    ASSUME NEW t \in Text, NEW m \in 0 .. Len(t),
           StemOf(t) = SubSeq(t, 1, m), StemOf(t) \in Reserved, Legal(t),
           \A i \in 1 .. m : t[i] # ".", m < Len(t) => t[m + 1] = "."
    PROVE  LET u == SuffixIfReserved(t) IN
           /\ u \in Text /\ Len(u) = Len(t) + 1 /\ Legal(u) /\ u[m + 1] = Underscore
           /\ \A i \in 1 .. m : u[i] # "."
           /\ m < Len(t) => u[m + 2] = "."
           /\ Size(SubSeq(u, 1, m + 1)) <= MaxBytes
<1> DEFINE stem == SubSeq(t, 1, m)
           rest == SubSeq(t, Len(stem) + 1, Len(t))
           u == (stem \o <<Underscore>>) \o rest
<1>1. /\ Len(t) \in Nat /\ m \in Nat /\ m <= Len(t)
      /\ \A i \in 1 .. Len(t) : t[i] \in DOMAIN Bytes /\ t[i] \notin Illegal
  BY TextTyped DEF Legal
<1>2. stem \in Text /\ Len(stem) = m /\ \A i \in 1 .. m : stem[i] = t[i]
  BY PrefixIsText
<1>3. SuffixIfReserved(t) = u
  BY Zenon DEF SuffixIfReserved, Underscore
<1>4. stem \in Reserved
  OBVIOUS
<1>5. rest \in Text /\ Len(rest) = Len(t) - m /\ \A i \in 1 .. Len(t) - m : rest[i] = t[m + i]
  <2>1. \A i \in m + 1 .. Len(t) : t[i] \in DOMAIN Bytes
    BY <1>1
  <2>2. rest = SubSeq(t, m + 1, Len(t)) /\ m + 1 \in Int /\ Len(t) \in Int
    BY <1>1, <1>2
  <2> HIDE DEF rest, stem
  <2>3. /\ rest \in Seq(DOMAIN Bytes)
        /\ Len(rest) = IF m + 1 <= Len(t) THEN Len(t) - (m + 1) + 1 ELSE 0
        /\ \A i \in 1 .. Len(t) - (m + 1) + 1 : rest[i] = t[(m + 1) + i - 1]
    BY <2>1, <2>2, SubSeqProperties
  <2>4. QED BY <1>1, <2>3 DEF Text
<1> HIDE DEF stem, rest
<1> DEFINE p == stem \o <<Underscore>>
<1>6. /\ p \in Text /\ Len(p) = m + 1 /\ p[m + 1] = Underscore
      /\ \A i \in 1 .. m : p[i] = t[i]
  <2> DEFINE o == <<Underscore>>
  <2>1. o \in Text /\ Len(o) = 1 /\ o[1] = Underscore
    BY UnderscoreAlone
  <2> HIDE DEF o
  <2>2. /\ stem \o o \in Text /\ Len(stem \o o) = m + 1
        /\ \A i \in 1 .. m + 1 : (stem \o o)[i] = IF i <= m THEN stem[i] ELSE o[i - m]
    <3>1. /\ stem \o o \in Text /\ Len(stem \o o) = Len(stem) + Len(o)
          /\ \A i \in 1 .. Len(stem) + Len(o) :
                (stem \o o)[i] = IF i <= Len(stem) THEN stem[i] ELSE o[i - Len(stem)]
      BY <1>2, <2>1, ConcatProperties DEF Text
    <3>2. QED BY <1>2, <2>1, <3>1
  <2>3. (stem \o o)[m + 1] = o[1] /\ \A i \in 1 .. m : (stem \o o)[i] = stem[i]
    BY <1>1, <2>2
  <2>4. QED BY <1>2, <2>1, <2>2, <2>3 DEF o
<1>7. Size(p) = Size(stem) + 1
  <2>1. SubSeq(p, 1, m + 1) = p
    BY <1>6, SubSeqFull DEF Text
  <2>2. SubSeq(p, 1, m) = stem
    <3>1. m \in 0 .. Len(p)
      BY <1>1, <1>6
    <3>2. /\ SubSeq(p, 1, m) \in Text /\ Len(SubSeq(p, 1, m)) = m
          /\ \A i \in 1 .. m : SubSeq(p, 1, m)[i] = p[i]
      BY <1>6, <3>1, PrefixIsText
    <3> HIDE DEF p
    <3>3. \A i \in 1 .. m : SubSeq(p, 1, m)[i] = stem[i]
      BY <1>2, <1>6, <3>2
    <3>4. QED BY <1>2, <3>2, <3>3, SeqEqual DEF Text
  <2> HIDE DEF p
  <2>3. Size(SubSeq(p, 1, m + 1)) = Size(SubSeq(p, 1, m + 1 - 1)) + Bytes[p[m + 1]]
    BY <1>1, <1>6, SizeSteps
  <2>4. m + 1 - 1 = m
    BY <1>1
  <2>5. Size(p) = Size(stem) + Bytes[Underscore]
    BY <1>6, <2>1, <2>2, <2>3, <2>4
  <2>6. QED BY <2>5, UnderscoreFits
<1>8. Size(p) <= MaxBytes
  <2>1. Size(stem) \in Nat /\ Size(stem) < MaxBytes
    BY <1>2, <1>4, SizeSteps, DeviceIs
  <2>2. MaxBytes \in Nat
    BY NamingAssumption, Zenon
  <2>3. QED BY <1>7, <2>1, <2>2
<1> HIDE DEF p
<1>9. /\ u \in Text /\ Len(u) = Len(t) + 1
      /\ \A i \in 1 .. Len(t) + 1 : u[i] = IF i <= m + 1 THEN p[i] ELSE rest[i - (m + 1)]
  <2>1. /\ p \o rest \in Text /\ Len(p \o rest) = (m + 1) + (Len(t) - m)
        /\ \A i \in 1 .. (m + 1) + (Len(t) - m) :
              (p \o rest)[i] = IF i <= m + 1 THEN p[i] ELSE rest[i - (m + 1)]
    <3>1. /\ p \o rest \in Text /\ Len(p \o rest) = Len(p) + Len(rest)
          /\ \A i \in 1 .. Len(p) + Len(rest) :
                (p \o rest)[i] = IF i <= Len(p) THEN p[i] ELSE rest[i - Len(p)]
      BY <1>5, <1>6, ConcatProperties DEF Text
    <3>2. QED BY <1>5, <1>6, <3>1
  <2>2. (m + 1) + (Len(t) - m) = Len(t) + 1 /\ u = p \o rest
    BY <1>1 DEF p
  <2>3. QED BY <2>1, <2>2
<1> HIDE DEF u
<1>10. u[m + 1] = Underscore /\ \A i \in 1 .. m : u[i] = t[i]
  BY <1>1, <1>6, <1>9
<1>11. \A i \in m + 2 .. Len(t) + 1 : u[i] = t[i - 1]
  <2>1. SUFFICES ASSUME NEW i \in m + 2 .. Len(t) + 1 PROVE u[i] = t[i - 1]
    OBVIOUS
  <2>2. u[i] = rest[i - (m + 1)] /\ i - (m + 1) \in 1 .. Len(t) - m /\ m + (i - (m + 1)) = i - 1
    BY <1>1, <1>9
  <2>3. QED BY <1>5, <2>2
<1>12. Legal(u)
  <2>1. SUFFICES ASSUME NEW i \in 1 .. Len(t) + 1 PROVE u[i] \notin Illegal
    BY <1>9 DEF Legal
  <2>2. CASE i \in 1 .. m
    BY <1>1, <1>10, <2>2
  <2>3. CASE i = m + 1
    BY <1>10, <2>3, UnderscoreFits
  <2>4. CASE i \in m + 2 .. Len(t) + 1
    BY <1>1, <1>11, <2>4
  <2>5. QED BY <1>1, <2>2, <2>3, <2>4
<1>13. m < Len(t) => u[m + 2] = "."
  <2>1. HAVE m < Len(t)
  <2>2. m + 2 \in m + 2 .. Len(t) + 1 /\ (m + 2) - 1 = m + 1
    BY <1>1, <2>1
  <2>3. QED BY <1>11, <2>1, <2>2
<1>14. SubSeq(u, 1, m + 1) = p
  <2>1. m + 1 \in 0 .. Len(u)
    BY <1>1, <1>9
  <2>2. /\ SubSeq(u, 1, m + 1) \in Text /\ Len(SubSeq(u, 1, m + 1)) = m + 1
        /\ \A i \in 1 .. m + 1 : SubSeq(u, 1, m + 1)[i] = u[i]
    BY <1>9, <2>1, PrefixIsText
  <2>3. \A i \in 1 .. m + 1 : u[i] = p[i]
    BY <1>1, <1>9
  <2>4. QED BY <1>6, <2>2, <2>3, SeqEqual DEF Text
<1>15. \A i \in 1 .. m : u[i] # "."
  BY <1>10
<1>16. QED BY <1>3, <1>8, <1>9, <1>10, <1>12, <1>13, <1>14, <1>15

(* What a file system takes as a component: ComponentIsSafe, of an answer w to s. *)
Safe(w, s) ==
    /\ w # <<>>
    /\ ToSet(w) \cap Illegal = {}
    /\ Size(w) <= MaxBytes
    /\ w[Len(w)] \notin Trimmed
    /\ StemOf(w) \in Reserved => Size(s) > MaxBytes

(* A text without a dot whose last symbol is the underscore names no device. *)
LEMMA NoDevice ==
    ASSUME NEW w \in Text, NEW n \in 1 .. Len(w), w[n] = Underscore,
           \A i \in 1 .. n : w[i] # ".", n < Len(w) => w[n + 1] = "."
    PROVE  StemOf(w) \notin Reserved
<1>1. Len(w) \in Nat /\ n \in 0 .. Len(w) /\ n \in 1 .. n
  BY TextTyped
<1>2. First(w, ".") = n + 1
  <2>1. n + 1 \in 1 .. Len(w) + 1 /\ n + 1 - 1 = n /\ (n + 1 <= Len(w) => w[n + 1] = ".")
    BY <1>1
  <2>2. QED BY <2>1, FirstIs
<1>3. StemOf(w) = SubSeq(w, 1, n)
  BY <1>1, <1>2 DEF StemOf
<1>4. Len(SubSeq(w, 1, n)) = n /\ SubSeq(w, 1, n)[n] = Underscore
  BY <1>1, PrefixIsText
<1>5. QED BY <1>3, <1>4, DeviceIs

(* So what Sanitize gives for a name it emptied is a component. *)
LEMMA UnderscoreIsSafe == \A s : Safe(<<Underscore>>, s)
<1> DEFINE w == <<Underscore>>
<1>1. w \in Text /\ Len(w) = 1 /\ w[1] = Underscore /\ Size(w) = 1
  BY UnderscoreAlone
<1>2. /\ Underscore \notin Illegal /\ Underscore \notin Trimmed /\ Underscore # "."
      /\ MaxBytes \in Nat \ {0}
  BY UnderscoreFits, NamingAssumption, Zenon
<1> HIDE DEF w
<1>3. StemOf(w) \notin Reserved
  BY <1>1, <1>2, NoDevice
<1>4. w # <<>> /\ ToSet(w) \cap Illegal = {}
  <2>1. DOMAIN w = 1 .. 1
    BY <1>1, TextTyped
  <2>2. QED BY <1>1, <1>2, <2>1, EmptySeq DEF ToSet
<1>5. QED BY <1>1, <1>2, <1>3, <1>4 DEF w, Safe

(* Sanitize, step by step: replaced, trimmed, suffixed, cut and trimmed again. *)
LEMMA SanitizeIsSafe ==
    ASSUME NEW s \in Text
    PROVE  Safe(Sanitize(s), s)
<1> DEFINE r == SanitizeRunes(s)
           t == TrimRight(r)
           u == SuffixIfReserved(t)
           w == TrimRight(Truncate(u))
<1>1. r \in Text /\ Legal(r) /\ Size(r) <= Size(s) /\ Size(r) \in Nat /\ Size(s) \in Nat
  BY SanitizeRunesIs, SizeSteps
<1>2. Sanitize(s) = IF w = <<>> THEN <<Underscore>> ELSE w
  BY Zenon DEF Sanitize, Underscore
<1>3. MaxBytes \in Nat
  BY NamingAssumption, Zenon
<1> HIDE DEF r
<1>4. PICK k \in 0 .. Len(r) : t = SubSeq(r, 1, k) /\ (k # 0 => r[k] \notin Trimmed)
  BY <1>1, TrimRightIs
<1>5. t \in Text /\ Len(t) = k /\ \A i \in 1 .. k : t[i] = r[i]
  BY <1>1, <1>4, PrefixIsText
<1>6. Len(r) \in Nat /\ k \in Nat /\ Legal(t) /\ (k # 0 => t[k] \notin Trimmed)
  <2>1. Len(r) \in Nat /\ k \in Nat /\ k <= Len(r)
    BY <1>1, TextTyped
  <2>2. QED BY <1>1, <1>4, <1>5, <2>1 DEF Legal
<1>7. Size(t) <= Size(s) /\ Size(t) \in Nat
  <2>1. Size(SubSeq(r, 1, k)) <= Size(SubSeq(r, 1, Len(r))) /\ SubSeq(r, 1, Len(r)) = r
    <3>1. Len(r) \in k .. Len(r)
      BY <1>6
    <3>2. QED BY <1>1, <3>1, SizeGrows, SubSeqFull DEF Text
  <2>2. Size(t) \in Nat
    BY <1>5, SizeSteps
  <2>3. Size(t) <= Size(r)
    BY <1>4, <2>1, Zenon
  <2>4. QED BY <1>1, <2>2, <2>3
<1> HIDE DEF t
<1>8. PICK m \in 0 .. Len(t) : /\ StemOf(t) = SubSeq(t, 1, m)
                               /\ \A i \in 1 .. m : t[i] # "."
                               /\ m < Len(t) => t[m + 1] = "."
  BY <1>5, StemIs
<1>9. u \in Text /\ Legal(u) /\ (StemOf(t) \notin Reserved => u = t)
  <2>1. CASE StemOf(t) \in Reserved
    BY <1>5, <1>6, <1>8, <2>1, SuffixedIs
  <2>2. CASE StemOf(t) \notin Reserved
    BY <1>5, <1>6, <2>2, Zenon DEF SuffixIfReserved
  <2>3. QED BY <2>1, <2>2
<1>10. PICK j \in 0 .. Len(u) : \E v \in Text :
           /\ v = w /\ v = SubSeq(u, 1, j) /\ Len(v) = j
           /\ Legal(v) /\ Size(v) <= MaxBytes
           /\ j # 0 => u[j] \notin Trimmed
           /\ \A i \in 1 .. Len(u) :
                 Size(SubSeq(u, 1, i)) <= MaxBytes /\ u[i] \notin Trimmed => i <= j
  <2> HIDE DEF u
  <2>1. QED BY <1>9, Shortened
<1>11. CASE w = <<>>
  BY <1>2, <1>11, UnderscoreIsSafe
<1>12. CASE w # <<>>
  <2>1. /\ w \in Text /\ w = SubSeq(u, 1, j) /\ Len(w) = j /\ Legal(w) /\ Size(w) <= MaxBytes
        /\ j # 0 => u[j] \notin Trimmed
        /\ j \in Nat /\ j # 0 /\ j <= Len(u) /\ Len(u) \in Nat
    <3>1. w \in Text /\ Len(w) = j /\ j \in 0 .. Len(u) /\ Len(u) \in Nat
      BY <1>9, <1>10, TextTyped
    <3>2. j # 0
      BY <1>12, <3>1, EmptySeq DEF Text
    <3>3. QED BY <1>10, <3>1, <3>2
  <2>2. \A i \in 1 .. j : w[i] = u[i]
    BY <1>9, <1>10, <2>1, PrefixIsText
  <2> HIDE DEF w, u
  <2>3. ToSet(w) \cap Illegal = {}
    BY <2>1, TextTyped DEF Legal, ToSet
  <2>4. w[Len(w)] \notin Trimmed
    BY <2>1, <2>2
  <2>5. ASSUME StemOf(w) \in Reserved PROVE Size(s) > MaxBytes
    <3>1. CASE StemOf(t) \in Reserved
      <4>1. /\ Len(u) = Len(t) + 1 /\ u[m + 1] = Underscore
            /\ \A i \in 1 .. m : u[i] # "."
            /\ m < Len(t) => u[m + 2] = "."
            /\ Size(SubSeq(u, 1, m + 1)) <= MaxBytes
        BY <1>5, <1>6, <1>8, <3>1, SuffixedIs DEF u
      <4>2. m + 1 \in 1 .. Len(u) /\ m + 1 <= j
        <5>1. m + 1 \in 1 .. Len(u)
          BY <1>5, <1>6, <4>1
        <5>2. QED BY <1>10, <4>1, <5>1, UnderscoreFits
      <4>3. /\ m + 1 \in 1 .. Len(w) /\ w[m + 1] = Underscore
            /\ \A i \in 1 .. m + 1 : w[i] # "."
        <5>1. m \in Nat /\ m + 1 \in 1 .. j
          BY <4>2, <1>5, <1>6
        <5>2. w[m + 1] = Underscore /\ \A i \in 1 .. m : w[i] # "."
          BY <2>1, <2>2, <4>1, <5>1
        <5>3. QED BY <2>1, <5>1, <5>2, UnderscoreFits
      <4>4. m + 1 < Len(w) => w[(m + 1) + 1] = "."
        <5>1. HAVE m + 1 < Len(w)
        <5>2. m \in Nat /\ m < Len(t) /\ m + 2 \in 1 .. j /\ (m + 1) + 1 = m + 2
          BY <1>5, <1>6, <2>1, <4>1, <5>1
        <5>3. QED BY <2>2, <4>1, <5>2
      <4>5. StemOf(w) \notin Reserved
        BY <2>1, <4>3, <4>4, NoDevice
      <4>6. QED BY <2>5, <4>5
    <3>2. CASE StemOf(t) \notin Reserved /\ Size(s) <= MaxBytes
      <4>1. u = t /\ SubSeq(t, 1, Len(t)) = t /\ Size(t) <= MaxBytes /\ Len(t) = k /\ j <= k
        BY <1>1, <1>3, <1>5, <1>7, <1>9, <2>1, <3>2, SubSeqFull DEF Text
      <4>2. k # 0 /\ k \in 1 .. Len(u) /\ u[k] \notin Trimmed /\ Size(SubSeq(u, 1, k)) <= MaxBytes
        <5>1. k # 0 /\ k \in 1 .. Len(u) /\ u[k] \notin Trimmed
          BY <1>6, <2>1, <4>1
        <5>2. Size(SubSeq(u, 1, k)) = Size(t)
          BY <4>1, Zenon
        <5>3. QED BY <4>1, <5>1, <5>2
      <4>3. k <= j
        BY <1>10, <4>2
      <4>4. w = t
        BY <1>6, <2>1, <4>1, <4>3
      <4>5. QED BY <2>5, <3>2, <4>4
    <3>3. QED BY <1>1, <1>3, <3>1, <3>2
  <2>6. QED BY <1>2, <1>12, <2>1, <2>3, <2>4, <2>5 DEF Safe
<1>13. QED BY <1>11, <1>12

(* An answer of Sanitize is that of one of the strings. *)
SanitizeIsAnswered ==
    question.fn = "sanitize" =>
       /\ question.text \in Strings
       /\ answered => answer = Sanitize(question.text)

(* No question is answered at first. *)
LEMMA SanitizeInit == Init => SanitizeIsAnswered
<1> SUFFICES ASSUME Init, question.fn = "sanitize" PROVE SanitizeIsAnswered
  BY DEF SanitizeIsAnswered
<1>1. question \in [fn : {"sanitize"}, text : Strings]
  BY DEF Init, Questions
<1>2. QED BY <1>1 DEF Init, SanitizeIsAnswered

(* Only CallSanitize answers one of Sanitize. *)
LEMMA SanitizeNext == SanitizeIsAnswered /\ [Next]_vars => SanitizeIsAnswered'
<1> SUFFICES ASSUME SanitizeIsAnswered, [Next]_vars PROVE SanitizeIsAnswered'
  OBVIOUS
<1>1. CASE UNCHANGED vars
  BY <1>1 DEF vars, SanitizeIsAnswered
<1>2. CASE CallSanitize
  BY <1>2 DEF CallSanitize, Answer, SanitizeIsAnswered
<1>3. CASE CallNextStart \/ CallRender \/ CallLoad \/ CallSegmentURLs
  BY <1>3 DEF CallNextStart, CallRender, CallLoad, CallSegmentURLs, Answer, SanitizeIsAnswered
<1>4. QED BY <1>1, <1>2, <1>3 DEF Next

(* Whatever a title holds, Sanitize makes of it a component every file system takes. *)
THEOREM ComponentsAreSafe == Spec => []ComponentIsSafe
<1>1. SanitizeIsAnswered => ComponentIsSafe
  <2>1. SUFFICES ASSUME SanitizeIsAnswered, Asked("sanitize") PROVE Safe(answer, question.text)
    BY Zenon DEF ComponentIsSafe, Safe, Trimmed
  <2>2. question.text \in Text /\ answer = Sanitize(question.text)
    BY <2>1, TextsAreEncoded DEF SanitizeIsAnswered, Asked, Text
  <2>3. QED BY <2>2, SanitizeIsSafe
<1>2. QED BY <1>1, SanitizeInit, SanitizeNext, PTL DEF Spec

------------------------------------------------------------------------------
(* Manifests: the segment timeline. *)

(* What totalSegments sums, entry by entry. *)
LEMMA TotalFolds ==
    ASSUME NEW s \in Seq(Int)
    PROVE  \E G \in [0 .. Len(s) -> Int] :
              /\ G[0] = 0 /\ TotalSegments(s) = G[Len(s)]
              /\ \A k \in 1 .. Len(s) : G[k] = G[k - 1] + 1 + s[k]
<1> DEFINE n == Len(s)
           F == [p \in Int \X (1 .. n) |-> p[1] + 1 + s[p[2]]]
           Step(g, x) == IF x = {} THEN 0 ELSE g[x \ {Max(x)}] + 1 + s[Max(x)]
           f == CHOOSE g : g = [x \in SUBSET (1 .. n) |-> Step(g, x)]
<1>1. n \in Nat /\ DOMAIN s = 1 .. n /\ \A i \in 1 .. n : s[i] \in Int
  BY LenProperties, ElementOfSeq
<1>2. TotalSegments(s) = f[1 .. n]
  BY <1>1 DEF TotalSegments, FoldLeft, MapThenFoldSet
<1> HIDE DEF n
<1>3. \E g : g = [x \in SUBSET (1 .. n) |-> Step(g, x)]
  <2>1. F \in [Int \X (1 .. n) -> Int]
    BY <1>1
  <2>2. PICK g : IsFold(g, n, Int, 0, F)
    <3> HIDE DEF F
    <3>1. 0 \in Int
      OBVIOUS
    <3>2. QED BY <1>1, <2>1, <3>1, FoldExists, Zenon
  <2>3. ASSUME NEW x \in SUBSET (1 .. n) PROVE g[x] = Step(g, x)
    <3>1. CASE x = {}
      BY <2>2, <3>1 DEF IsFold
    <3>2. CASE x # {}
      <4>1. Max(x) \in 1 .. n
        BY <1>1, <3>2, MaxOf, 1 .. n \subseteq 0 .. n
      <4>2. g[x \ {Max(x)}] \in Int
        BY <2>2 DEF IsFold
      <4>3. F[<<g[x \ {Max(x)}], Max(x)>>] = g[x \ {Max(x)}] + 1 + s[Max(x)]
        BY <4>1, <4>2
      <4>4. QED BY <2>2, <3>2, <4>3 DEF IsFold
    <3>3. QED BY <3>1, <3>2
  <2> HIDE DEF Step
  <2>4. QED BY <2>2, <2>3 DEF IsFold
<1>4. f = [x \in SUBSET (1 .. n) |-> Step(f, x)]
  <2> HIDE DEF Step
  <2>1. QED BY <1>3
<1> HIDE DEF f
<1>5. Unrolls(f, n, Int, 0, F)
  <2>1. f[{}] = 0
    BY <1>4
  <2>2. ASSUME NEW x \in SUBSET (1 .. n), x # {}, f[x \ {Max(x)}] \in Int
        PROVE  f[x] = F[<<f[x \ {Max(x)}], Max(x)>>]
    <3>1. Max(x) \in 1 .. n
      BY <1>1, <2>2, MaxOf, 1 .. n \subseteq 0 .. n
    <3>2. f[x] = f[x \ {Max(x)}] + 1 + s[Max(x)]
      BY <1>4, <2>2
    <3>3. QED BY <2>2, <3>1, <3>2
  <2> HIDE DEF F
  <2>3. QED BY <2>1, <2>2 DEF Unrolls
<1>6. F \in [Int \X (1 .. n) -> Int] /\ 0 \in Int
  BY <1>1
<1>7. \A v \in Int, k \in 1 .. n : F[<<v, k>>] = v + 1 + s[k]
  OBVIOUS
<1> HIDE DEF F
<1>8. PICK G \in [0 .. n -> Int] : /\ G[0] = 0 /\ f[1 .. n] = G[n]
                                  /\ \A k \in 1 .. n : G[k] = F[<<G[k - 1], k>>]
  <2>1. Steps(f, n, Int, 0, F)
    BY <1>1, <1>5, <1>6, FoldSteps
  <2>2. QED BY <2>1 DEF Steps
<1>9. \A k \in 1 .. n : k - 1 \in 0 .. n /\ G[k - 1] \in Int
  BY <1>1
<1>10. \A k \in 1 .. n : G[k] = G[k - 1] + 1 + s[k]
  BY <1>7, <1>8, <1>9
<1>11. QED BY <1>2, <1>8, <1>10 DEF n

(* FlattenSeq, segment after segment. *)
LEMMA FlattenFolds ==
    ASSUME NEW S, NEW ss \in Seq(Seq(S)), Len(ss) # 0
    PROVE  \E f \in [1 .. Len(ss) -> Seq(S)] :
              /\ f[1] = ss[1] /\ FlattenSeq(ss) = f[Len(ss)]
              /\ \A i \in 2 .. Len(ss) : f[i] = f[i - 1] \o ss[i]
<1> DEFINE n == Len(ss)
           Step(g, i) == IF i = 1 THEN ss[i] ELSE g[i - 1] \o ss[i]
           f == CHOOSE g : g = [i \in 1 .. n |-> Step(g, i)]
           Right(k, g) == \A i \in 1 .. k : g[i] = Step(g, i)
           Exists(k) == \E g \in [1 .. k -> Seq(S)] : Right(k, g)
           T == {k \in Nat : k <= n => Exists(k)}
<1>1. n \in Nat \ {0} /\ \A i \in 1 .. n : ss[i] \in Seq(S)
  BY LenProperties, ElementOfSeq
<1>2. FlattenSeq(ss) = f[n]
  BY <1>1 DEF FlattenSeq
<1> HIDE DEF n
<1>3. Exists(0)
  <2>1. [i \in 1 .. 0 |-> <<>>] \in [1 .. 0 -> Seq(S)]
    OBVIOUS
  <2>2. Right(0, [i \in 1 .. 0 |-> <<>>])
    OBVIOUS
  <2>3. QED BY <2>1, <2>2
<1>4. ASSUME NEW k \in Nat, NEW j \in Nat, j = k + 1, j <= n, Exists(k) PROVE Exists(j)
  <2>1. PICK g \in [1 .. k -> Seq(S)] : Right(k, g)
    BY <1>4
  <2> DEFINE h == [i \in 1 .. j |-> IF i = j THEN Step(g, j) ELSE g[i]]
  <2>2. j \in 1 .. j /\ j \in 1 .. n /\ \A i \in 1 .. j : i # j => i \in 1 .. k
    BY <1>4
  <2>3. h[j] = Step(g, j) /\ \A i \in 1 .. j : i # j => h[i] = g[i]
    <3> HIDE DEF Step
    <3>1. QED BY <2>2
  <2> HIDE DEF h
  <2>4. h[j] \in Seq(S) /\ h[j] = Step(h, j)
    <3>1. CASE j = 1
      <4>1. h[j] = ss[j] /\ ss[j] \in Seq(S)
        BY <1>1, <2>2, <2>3, <3>1
      <4>2. QED BY <3>1, <4>1
    <3>2. CASE j # 1
      <4>1. j - 1 = k /\ k \in 1 .. k /\ k \in 1 .. j /\ k # j
        BY <1>4, <3>2
      <4>2. h[k] = g[k] /\ g[k] \in Seq(S) /\ ss[j] \in Seq(S)
        BY <1>1, <2>1, <2>2, <2>3, <4>1
      <4>3. h[j] = g[j - 1] \o ss[j]
        BY <2>3, <3>2, Zenon
      <4>4. h[j] = g[k] \o ss[j] /\ h[j] = h[j - 1] \o ss[j]
        BY <4>1, <4>2, <4>3, Zenon
      <4>5. g[k] \o ss[j] \in Seq(S)
        BY <4>2, ConcatProperties
      <4>6. h[j] \in Seq(S)
        BY <4>4, <4>5, Zenon
      <4>7. QED BY <3>2, <4>4, <4>6, Zenon
    <3>3. QED BY <3>1, <3>2
  <2>5. \A i \in 1 .. j : h[i] \in Seq(S)
    BY <2>1, <2>2, <2>3, <2>4
  <2>6. h \in [1 .. j -> Seq(S)]
    BY <2>5 DEF h
  <2>7. ASSUME NEW i \in 1 .. j PROVE h[i] = Step(h, i)
    <3>1. CASE i = j
      BY <2>4, <3>1
    <3>2. CASE i # j
      <4>1. i \in 1 .. k /\ h[i] = g[i] /\ g[i] = Step(g, i)
        BY <2>1, <2>2, <2>3, <3>2
      <4>2. CASE i = 1
        BY <4>1, <4>2
      <4>3. CASE i # 1
        <5>1. i - 1 \in 1 .. j /\ i - 1 # j
          BY <4>1, <4>3
        <5>2. h[i - 1] = g[i - 1]
          BY <2>3, <5>1
        <5>3. QED BY <4>1, <4>3, <5>2
      <4>4. QED BY <4>2, <4>3
    <3>3. QED BY <3>1, <3>2
  <2>8. QED BY <2>6, <2>7
<1>5. Exists(n)
  <2> HIDE DEF Exists
  <2>1. 0 \in T
    BY <1>3
  <2>4. ASSUME NEW k \in Nat, k \in T PROVE k + 1 \in T
    <3>1. CASE k + 1 <= n
      <4>1. k <= n
        BY <1>1, <3>1
      <4>2. Exists(k)
        BY <2>4, <4>1
      <4>3. QED BY <1>4, <3>1, <4>2
    <3>2. QED BY <3>1
  <2> HIDE DEF T
  <2>2. n \in T
    BY <1>1, <2>1, <2>4, Inductive
  <2>3. QED BY <2>2 DEF T
<1>6. PICK g \in [1 .. n -> Seq(S)] : \A i \in 1 .. n : g[i] = Step(g, i)
  BY <1>5
<1>7. f = [i \in 1 .. n |-> Step(f, i)]
  <2> HIDE DEF Step
  <2>1. g = [i \in 1 .. n |-> Step(g, i)]
    BY <1>6
  <2>2. QED BY <2>1
<1> HIDE DEF f
<1>10. f[1] = ss[1] /\ \A i \in 2 .. n : f[i] = f[i - 1] \o ss[i]
  <2>1. \A i \in 1 .. n : f[i] = Step(f, i)
    <3> HIDE DEF Step
    <3>1. QED BY <1>7
  <2>2. 1 \in 1 .. n /\ \A i \in 2 .. n : i \in 1 .. n /\ i # 1
    BY <1>1
  <2>3. QED BY <2>1, <2>2, Zenon
<1>8. \A i \in 1 .. n : f[i] \in Seq(S)
  <2> DEFINE U == {k \in Nat : k \in 1 .. n => f[k] \in Seq(S)}
  <2>1. 0 \in U
    BY 0 \notin 1 .. n
  <2>2. ASSUME NEW k \in Nat, k \in U, NEW j \in Nat, j = k + 1 PROVE j \in U
    <3>1. CASE j = 1
      <4>1. f[j] \in Seq(S)
        BY <1>1, <1>10, <3>1
      <4>2. QED BY <4>1
    <3>2. CASE j \in 2 .. n
      <4>1. k \in 1 .. n /\ j - 1 = k /\ j \in 1 .. n
        BY <1>1, <2>2, <3>2
      <4>2. f[j] = f[k] \o ss[j]
        BY <1>10, <3>2, <4>1
      <4>3. f[k] \in Seq(S) /\ ss[j] \in Seq(S)
        BY <1>1, <2>2, <4>1
      <4>4. f[j] \in Seq(S)
        BY <4>2, <4>3, ConcatProperties
      <4>5. QED BY <4>4
    <3>3. CASE j \notin 1 .. n
      BY <3>3
    <3>4. QED BY <1>1, <3>1, <3>2, <3>3
  <2> HIDE DEF U
  <2>3. Nat \subseteq U
    BY <2>1, <2>2, Inductive
  <2>4. QED BY <1>1, <2>3 DEF U
<1>9. f \in [1 .. n -> Seq(S)]
  BY <1>7, <1>8
<1>11. QED BY <1>2, <1>9, <1>10 DEF n

(* A function of the first n numbers is a sequence. *)
LEMMA SeqOfFcn ==
    ASSUME NEW S, NEW n \in Nat, NEW f \in [1 .. n -> S]
    PROVE  f \in Seq(S) /\ Len(f) = n
<1>1. f \in Seq(S)
  BY SeqDef
<1>2. Len(f) \in Nat /\ 1 .. Len(f) = 1 .. n
  BY <1>1, LenProperties
<1>3. QED BY <1>1, <1>2

(* The timeline, an entry repeated as often as the manifest says. *)
Unrolled(repeats) == FlattenSeq([e \in DOMAIN repeats |-> [k \in 1 .. repeats[e] + 1 |-> e]])

(* No entry takes segments off the others. *)
NoneTakesOff(repeats) == \A i \in 1 .. Len(repeats) : repeats[i] >= -1

(* totalSegments counts at most the segments unrolled, and all of them where no
   entry takes any off. *)
LEMMA UnrolledLength ==
    ASSUME NEW r \in Seq(Int)
    PROVE  /\ Len(Unrolled(r)) \in Nat /\ TotalSegments(r) \in Int
           /\ TotalSegments(r) <= Len(Unrolled(r))
           /\ NoneTakesOff(r) => TotalSegments(r) = Len(Unrolled(r))
<1> DEFINE n == Len(r)
           size(e) == IF r[e] >= -1 THEN r[e] + 1 ELSE 0
           ss == [e \in DOMAIN r |-> [k \in 1 .. r[e] + 1 |-> e]]
<1>1. n \in Nat /\ DOMAIN r = 1 .. n /\ \A i \in 1 .. n : r[i] \in Int
  BY LenProperties, ElementOfSeq
<1>2. PICK G \in [0 .. n -> Int] :
           /\ G[0] = 0 /\ TotalSegments(r) = G[n]
           /\ \A k \in 1 .. n : G[k] = G[k - 1] + 1 + r[k]
  BY TotalFolds
<1>3. /\ ss \in Seq(Seq(Nat)) /\ Len(ss) = n
      /\ \A e \in 1 .. n : ss[e] \in Seq(Nat) /\ Len(ss[e]) = size(e)
  <2>1. ASSUME NEW e \in 1 .. n PROVE ss[e] \in Seq(Nat) /\ Len(ss[e]) = size(e)
    <3>1. ss[e] = [k \in 1 .. r[e] + 1 |-> e]
      BY <1>1
    <3>2. size(e) \in Nat /\ 1 .. r[e] + 1 = 1 .. size(e)
      BY <1>1
    <3>3. ss[e] \in [1 .. size(e) -> Nat]
      BY <1>1, <3>1, <3>2
    <3> HIDE DEF size, ss
    <3>4. QED BY <3>2, <3>3, SeqOfFcn
  <2>2. ss \in [1 .. n -> Seq(Nat)]
    BY <1>1, <2>1
  <2>3. ss \in Seq(Seq(Nat)) /\ Len(ss) = n
    BY <1>1, <2>2, SeqOfFcn
  <2>4. QED BY <2>1, <2>3
<1>4. Unrolled(r) = FlattenSeq(ss)
  BY DEF Unrolled
<1>10. DOMAIN r = 1 .. n
  BY <1>1
<1> HIDE DEF n, ss
<1>8. \A e \in 1 .. n : size(e) \in Nat /\ r[e] + 1 <= size(e)
  BY <1>1
<1>9. NoneTakesOff(r) => \A e \in 1 .. n : size(e) = r[e] + 1
  BY <1>1 DEF NoneTakesOff
<1> DEFINE Within(a, b) == a <= b /\ (NoneTakesOff(r) => a = b)
<1> HIDE DEF size
<1>5. CASE n = 0
  <2>1. FlattenSeq(ss) = ss
    BY <1>3, <1>5 DEF FlattenSeq
  <2>2. QED BY <1>2, <1>3, <1>4, <1>5, <2>1
<1>6. CASE n # 0
  <2>1. PICK f \in [1 .. n -> Seq(Nat)] :
           /\ f[1] = ss[1] /\ FlattenSeq(ss) = f[n]
           /\ \A i \in 2 .. n : f[i] = f[i - 1] \o ss[i]
    BY <1>3, <1>6, FlattenFolds
  <2> DEFINE T == {k \in Nat : k \in 1 .. n => Within(G[k], Len(f[k]))}
  <2>2. 0 \in T
    BY 0 \notin 1 .. n
  <2>3. ASSUME NEW k \in Nat, k \in T, NEW j \in Nat, j = k + 1 PROVE j \in T
    <3>1. CASE j = 1
      <4>1. 1 \in 1 .. n
        BY <1>1, <1>6
      <4>2. G[1] = G[1 - 1] + 1 + r[1] /\ Len(f[1]) = size(1)
        BY <1>2, <1>3, <2>1, <4>1
      <4>3. Within(G[1], Len(f[1]))
        BY <1>1, <1>2, <1>8, <1>9, <4>1, <4>2
      <4>4. QED BY <3>1, <4>3
    <3>2. CASE j \in 2 .. n
      <4>1. k \in 1 .. n /\ j - 1 = k /\ j \in 1 .. n
        BY <1>1, <2>3, <3>2
      <4>2. f[j] = f[k] \o ss[j] /\ f[k] \in Seq(Nat) /\ ss[j] \in Seq(Nat)
        BY <1>3, <2>1, <3>2, <4>1
      <4>3. Len(f[j]) = Len(f[k]) + Len(ss[j])
        BY <4>2, ConcatProperties
      <4>4. G[k] \in Int /\ G[j] = G[k] + 1 + r[j]
        <5>1. k \in 0 .. n /\ G[j] = G[j - 1] + 1 + r[j]
          BY <1>2, <4>1
        <5>2. QED BY <4>1, <5>1
      <4>5. Within(G[k], Len(f[k])) /\ Len(f[k]) \in Nat
        BY <2>3, <4>1, <4>2, LenProperties
      <4>6. Len(ss[j]) = size(j) /\ size(j) \in Nat /\ r[j] \in Int /\ r[j] + 1 <= size(j)
        BY <1>1, <1>3, <1>8, <4>1
      <4>7. Within(G[j], Len(f[j]))
        BY <1>9, <4>1, <4>3, <4>4, <4>5, <4>6
      <4>8. QED BY <4>7
    <3>3. CASE j \notin 1 .. n
      BY <3>3
    <3>4. QED BY <1>1, <3>1, <3>2, <3>3
  <2> HIDE DEF T
  <2>4. Nat \subseteq T
    BY <2>2, <2>3, Inductive
  <2>5. n \in 1 .. n /\ n \in T
    BY <1>1, <1>6, <2>4
  <2>6. Within(G[n], Len(f[n])) /\ f[n] \in Seq(Nat) /\ G[n] \in Int
    BY <1>1, <1>2, <2>1, <2>5 DEF T
  <2>7. Len(f[n]) \in Nat
    BY <2>6, LenProperties
  <2>8. QED BY <1>2, <1>4, <2>1, <2>6, <2>7
<1>7. QED BY <1>5, <1>6

(* The URLs are one more than the segments, and numbered from the start. *)
LEMMA SegmentsNumbered ==
    ASSUME NEW doc, NEW total \in Int, NEW start \in Int,
           total = TotalSegments(Head(Representations(doc)).repeats),
           start = IF Head(Representations(doc)).start = NoStart THEN 1
                                                                ELSE Head(Representations(doc)).start
    PROVE  LET urls == SegmentURLs(doc) IN
           /\ Len(urls) = 1 + (IF total < 0 THEN 0 ELSE total)
           /\ urls[1] = "init"
           /\ \A i \in 2 .. Len(urls) : urls[i] = start + i - 2
<1> DEFINE S == Int \cup {"init"}
           count == IF total < 0 THEN 0 ELSE total
           one == <<"init">>
           rest == [i \in 1 .. count |-> start + i - 1]
<1>1. SegmentURLs(doc) = one \o rest
  BY DEF SegmentURLs, DefaultStart
<1>9. count \in Nat
  OBVIOUS
<1>2. one \in Seq(S) /\ Len(one) = 1 /\ one[1] = "init"
  BY Singleton
<1> HIDE DEF count
<1>3. rest \in Seq(S) /\ Len(rest) = count
  <2>1. rest \in [1 .. count -> S]
    BY <1>9
  <2> HIDE DEF rest, S
  <2>2. QED BY <1>9, <2>1, SeqOfFcn
<1>4. \A i \in 1 .. count : rest[i] = start + i - 1
  OBVIOUS
<1> HIDE DEF one, rest, S
<1>5. /\ Len(one \o rest) = Len(one) + Len(rest)
      /\ \A i \in 1 .. Len(one) + Len(rest) :
            (one \o rest)[i] = IF i <= Len(one) THEN one[i] ELSE rest[i - Len(one)]
  BY <1>2, <1>3, ConcatProperties
<1>6. Len(one \o rest) = 1 + count /\ (one \o rest)[1] = "init"
  BY <1>2, <1>3, <1>5, <1>9
<1>7. ASSUME NEW i \in 2 .. 1 + count PROVE (one \o rest)[i] = start + i - 2
  <2>1. (one \o rest)[i] = rest[i - 1] /\ i - 1 \in 1 .. count
    BY <1>2, <1>3, <1>5, <1>9
  <2>2. QED BY <1>4, <1>9, <2>1
<1>8. QED BY <1>1, <1>6, <1>7 DEF count

(* An answer of SegmentURLs is that of a manifest that parses. *)
SegmentsAreAnswered ==
    question.fn = "segments" =>
       /\ question.doc \in Documents
       /\ answered => Parses(question.doc) /\ answer = SegmentURLs(question.doc)

(* No question is answered at first. *)
LEMMA SegmentsInit == Init => SegmentsAreAnswered
<1> SUFFICES ASSUME Init, question.fn = "segments" PROVE SegmentsAreAnswered
  BY DEF SegmentsAreAnswered
<1>1. question \in [fn : {"segments"}, doc : Documents]
  BY DEF Init, Questions
<1>2. QED BY <1>1 DEF Init, SegmentsAreAnswered

(* Only CallSegmentURLs answers one of SegmentURLs, for a manifest that parses. *)
LEMMA SegmentsNext == SegmentsAreAnswered /\ [Next]_vars => SegmentsAreAnswered'
<1> SUFFICES ASSUME SegmentsAreAnswered, [Next]_vars PROVE SegmentsAreAnswered'
  OBVIOUS
<1>1. CASE UNCHANGED vars
  BY <1>1 DEF vars, SegmentsAreAnswered
<1>2. CASE CallSegmentURLs
  BY <1>2 DEF CallSegmentURLs, Answer, SegmentsAreAnswered
<1>3. CASE CallNextStart \/ CallRender \/ CallLoad \/ CallSanitize
  BY <1>3 DEF CallNextStart, CallRender, CallLoad, CallSanitize, Answer, SegmentsAreAnswered
<1>4. QED BY <1>1, <1>2, <1>3 DEF Next

(* Of every manifest answered the initialization comes first, then segments
   numbered without a gap; each once, where no entry takes any off the others. *)
THEOREM TimelinesAreUnrolled == Spec => []TimelineIsUnrolled
<1>1. SegmentsAreAnswered => TimelineIsUnrolled
  <2> DEFINE template == Head(Representations(question.doc))
             start == IF template.start = NoStart THEN 1 ELSE template.start
             total == TotalSegments(template.repeats)
             length == Len(Unrolled(template.repeats))
  <2>1. SUFFICES ASSUME SegmentsAreAnswered, Asked("segments")
                 PROVE  /\ answer[1] = "init"
                        /\ \A i \in 2 .. Len(answer) : answer[i] = start + i - 2
                        /\ Len(answer) <= length + 1
                        /\ (\A r \in ToSet(template.repeats) : r >= -1) => Len(answer) = length + 1
    BY DEF TimelineIsUnrolled, Unrolled
  <2>2. /\ question.doc \in Documents /\ Representations(question.doc) # <<>>
        /\ Parses(question.doc) /\ answer = SegmentURLs(question.doc)
    BY <2>1 DEF SegmentsAreAnswered, Asked, Parses
  <2>3. template.repeats \in Seq(Int) /\ start \in Int
    BY <2>2, ManifestsAreNumbered
  <2>4. (\A r \in ToSet(template.repeats) : r >= -1) => NoneTakesOff(template.repeats)
    BY <2>3, LenProperties DEF ToSet, NoneTakesOff
  <2>5. /\ length \in Nat /\ total \in Int /\ total <= length
        /\ NoneTakesOff(template.repeats) => total = length
    BY <2>3, UnrolledLength
  <2>6. /\ Len(answer) = 1 + (IF total < 0 THEN 0 ELSE total) /\ answer[1] = "init"
        /\ \A i \in 2 .. Len(answer) : answer[i] = start + i - 2
    BY <2>2, <2>3, <2>5, SegmentsNumbered
  <2> HIDE DEF template, start, total, length
  <2>7. QED BY <2>4, <2>5, <2>6
<1>2. QED BY <1>1, SegmentsInit, SegmentsNext, PTL DEF Spec

------------------------------------------------------------------------------
(* Templates: the check at load and Compile read the same text with different code.
   parseTemplate keeps the name between two braces, compileSegment looks ahead for a token
   and skips it; one relation, Agree, holds of the two after every symbol. *)

(* f flattens ss, step by step. *)
Flattens(f, ss, S) ==
    /\ f \in [1 .. Len(ss) -> Seq(S)]
    /\ f[1] = ss[1] /\ FlattenSeq(ss) = f[Len(ss)]
    /\ \A i \in 2 .. Len(ss) : f[i] = f[i - 1] \o ss[i]

(* A sequence of sequences that is not empty is flattened so. *)
LEMMA FlattensIs ==
    ASSUME NEW S, NEW ss \in Seq(Seq(S)), Len(ss) # 0
    PROVE  \E f : Flattens(f, ss, S)
<1>1. PICK f \in [1 .. Len(ss) -> Seq(S)] :
              /\ f[1] = ss[1] /\ FlattenSeq(ss) = f[Len(ss)]
              /\ \A i \in 2 .. Len(ss) : f[i] = f[i - 1] \o ss[i]
  BY FlattenFolds
<1>2. QED BY <1>1 DEF Flattens

(* What is flattened is a sequence, and nothing flattened is nothing. *)
LEMMA FlattenTyped ==
    ASSUME NEW S, NEW ss \in Seq(Seq(S))
    PROVE  FlattenSeq(ss) \in Seq(S) /\ (Len(ss) = 0 => FlattenSeq(ss) = <<>>)
<1>0. Len(ss) \in Nat
  BY LenProperties
<1>1. CASE Len(ss) = 0
  <2>1. ss = <<>>
    BY <1>1, EmptySeq
  <2>2. FlattenSeq(ss) = ss
    BY <1>1 DEF FlattenSeq
  <2>3. QED BY <2>1, <2>2, EmptySeq
<1>2. CASE Len(ss) # 0
  <2>1. PICK f : Flattens(f, ss, S)
    BY <1>2, FlattensIs
  <2>2. Len(ss) \in 1 .. Len(ss)
    BY <1>0, <1>2
  <2>3. FlattenSeq(ss) \in Seq(S)
    BY <2>1, <2>2 DEF Flattens
  <2>4. QED BY <1>2, <2>3, Zenon
<1>3. QED BY <1>1, <1>2

(* One more sequence at the end. *)
LEMMA FlattenMore ==
    ASSUME NEW S, NEW ss \in Seq(Seq(S)), NEW tt \in Seq(Seq(S)),
           Len(tt) = Len(ss) + 1, \A i \in 1 .. Len(ss) : tt[i] = ss[i]
    PROVE  FlattenSeq(tt) = FlattenSeq(ss) \o tt[Len(tt)]
<1> DEFINE n == Len(ss)
           m == Len(tt)
<1>1. n \in Nat /\ m \in Nat \ {0} /\ m = n + 1 /\ \A i \in 1 .. m : tt[i] \in Seq(S)
  BY LenProperties, ElementOfSeq
<1>2. PICK g : Flattens(g, tt, S)
  BY <1>1, FlattensIs
<1>3. /\ g[1] = tt[1] /\ FlattenSeq(tt) = g[m]
      /\ \A i \in 2 .. m : g[i] = g[i - 1] \o tt[i]
  BY <1>2 DEF Flattens
<1>4. \A i \in 1 .. n : tt[i] = ss[i]
  OBVIOUS
<1>5. CASE n = 0
  <2>0. FlattenSeq(ss) = <<>>
    BY <1>5, FlattenTyped
  <2>1. FlattenSeq(ss) = <<>> /\ m = 1 /\ tt[1] \in Seq(S)
    <3> HIDE DEF n, m
    <3>1. QED BY <1>1, <1>5, <2>0
  <2>2. <<>> \o tt[1] = tt[1]
    BY <2>1, ConcatEmptySeq
  <2>3. QED BY <1>3, <2>1, <2>2
<1>6. CASE n # 0
  <2>1. PICK f : Flattens(f, ss, S)
    BY <1>6, FlattensIs
  <2>2. /\ f[1] = ss[1] /\ FlattenSeq(ss) = f[n]
        /\ \A i \in 2 .. n : f[i] = f[i - 1] \o ss[i]
    BY <2>1 DEF Flattens
  <2> DEFINE T == {k \in Nat : k \in 1 .. n => f[k] = g[k]}
  <2> HIDE DEF n, m
  <2>3. 0 \in T
    BY 0 \notin 1 .. n
  <2>4. ASSUME NEW k \in Nat, k \in T, NEW j \in Nat, j = k + 1 PROVE j \in T
    <3>1. CASE j = 1
      BY <1>1, <1>3, <1>4, <2>2, <3>1
    <3>2. CASE j \in 2 .. n
      <4>1. k \in 1 .. n /\ j - 1 = k /\ j \in 1 .. n /\ j \in 2 .. m
        BY <1>1, <2>4, <3>2
      <4>2. f[j] = f[k] \o ss[j] /\ g[j] = g[k] \o tt[j] /\ f[k] = g[k] /\ ss[j] = tt[j]
        BY <1>3, <1>4, <2>2, <2>4, <3>2, <4>1
      <4>3. QED BY <4>2
    <3>3. CASE j \notin 1 .. n
      BY <3>3
    <3>4. QED BY <1>1, <3>1, <3>2, <3>3
  <2> HIDE DEF T
  <2>8. \A k \in Nat : k \in T => k + 1 \in T
    BY <2>4
  <2>9. Nat \subseteq T
    BY <2>3, <2>8, Inductive, Zenon
  <2>5. n \in T /\ n \in 1 .. n
    BY <1>1, <1>6, <2>9
  <2>6. f[n] = g[n]
    BY <2>5 DEF T
  <2>7. g[m] = g[n] \o tt[m]
    <3>1. m \in 2 .. m /\ m - 1 = n
      BY <1>1, <1>6
    <3>2. QED BY <1>3, <3>1
  <2>10. QED BY <1>3, <2>2, <2>6, <2>7 DEF m
<1>7. QED BY <1>5, <1>6

(* Joining is associative *)
Associates(a, b, c) == (a \o b) \o c = a \o (b \o c)

(* (the library's fact under a name of its own). *)
LEMMA JoiningAssociates ==
    ASSUME NEW S, NEW a \in Seq(S), NEW b \in Seq(S), NEW c \in Seq(S)
    PROVE  Associates(a, b, c)
BY ConcatAssociative DEF Associates

(* The last sequence made longer. *)
Longer(tt, ss, more) ==
    /\ Len(ss) # 0 /\ Len(tt) = Len(ss)
    /\ \A i \in 1 .. Len(ss) - 1 : tt[i] = ss[i]
    /\ tt[Len(ss)] = ss[Len(ss)] \o more

(* What the last sequence grows by, the flattened one grows by. *)
LEMMA FlattenLonger ==
    ASSUME NEW S, NEW ss \in Seq(Seq(S)), NEW tt \in Seq(Seq(S)), NEW more \in Seq(S),
           Longer(tt, ss, more)
    PROVE  FlattenSeq(tt) = FlattenSeq(ss) \o more
<1> DEFINE n == Len(ss)
           uu == SubSeq(ss, 1, n - 1)
<1>0. n \in Nat \ {0} /\ Len(tt) = n /\ tt[n] = ss[n] \o more
      /\ \A i \in 1 .. n - 1 : tt[i] = ss[i]
  BY LenProperties DEF Longer
<1> HIDE DEF n
<1>1. n - 1 \in Nat /\ Len(ss) = n /\ \A i \in 1 .. n : ss[i] \in Seq(S)
  BY <1>0, ElementOfSeq DEF n
<1>2. uu \in Seq(Seq(S)) /\ Len(uu) = n - 1 /\ \A i \in 1 .. n - 1 : uu[i] = ss[i]
  <2>1. \A i \in 1 .. n - 1 : ss[i] \in Seq(S)
    BY <1>0, <1>1
  <2>2. 1 \in Int /\ n - 1 \in Int
    BY <1>1
  <2>3. /\ uu \in Seq(Seq(S)) /\ Len(uu) = IF 1 <= n - 1 THEN n - 1 - 1 + 1 ELSE 0
        /\ \A i \in 1 .. n - 1 - 1 + 1 : uu[i] = ss[1 + i - 1]
    BY <2>1, <2>2, SubSeqProperties
  <2>4. QED BY <1>0, <2>3
<1> HIDE DEF uu
<1>3. FlattenSeq(ss) = FlattenSeq(uu) \o ss[n] /\ FlattenSeq(tt) = FlattenSeq(uu) \o tt[n]
  <2>1. Len(ss) = Len(uu) + 1 /\ Len(tt) = Len(uu) + 1
    BY <1>0, <1>1, <1>2
  <2>2. \A i \in 1 .. Len(uu) : ss[i] = uu[i] /\ tt[i] = uu[i]
    BY <1>0, <1>2
  <2>3. FlattenSeq(ss) = FlattenSeq(uu) \o ss[Len(ss)]
    BY <1>2, <2>1, <2>2, FlattenMore
  <2>4. FlattenSeq(tt) = FlattenSeq(uu) \o tt[Len(tt)]
    BY <1>2, <2>1, <2>2, FlattenMore
  <2>5. QED BY <1>0, <1>1, <2>3, <2>4
<1>4. FlattenSeq(uu) \in Seq(S) /\ ss[n] \in Seq(S)
  BY <1>0, <1>1, <1>2, FlattenTyped
<1> DEFINE a == FlattenSeq(uu)
           b == ss[n]
           d == tt[n]
           x == FlattenSeq(ss)
           y == FlattenSeq(tt)
<1>5. /\ a \in Seq(S) /\ b \in Seq(S) /\ more \in Seq(S)
      /\ d = b \o more /\ x = a \o b /\ y = a \o d
  BY <1>0, <1>3, <1>4
<1> HIDE DEF a, b, d, x, y
<1>6. Associates(a, b, more)
  BY <1>5, JoiningAssociates
<1>7. y = x \o more
  BY <1>5, <1>6 DEF Associates
<1>8. QED BY <1>7 DEF x, y

(* What is in two sequences joined. *)
LEMMA ToSetOfConcat ==
    ASSUME NEW S, NEW s \in Seq(S), NEW t \in Seq(S)
    PROVE  ToSet(s \o t) = ToSet(s) \cup ToSet(t)
<1>1. /\ Len(s) \in Nat /\ DOMAIN s = 1 .. Len(s) /\ Len(t) \in Nat /\ DOMAIN t = 1 .. Len(t)
      /\ s \o t \in Seq(S) /\ Len(s \o t) = Len(s) + Len(t)
      /\ DOMAIN (s \o t) = 1 .. Len(s) + Len(t)
  BY ConcatProperties, LenProperties
<1>2. \A i \in 1 .. Len(s) + Len(t) : (s \o t)[i] = IF i <= Len(s) THEN s[i] ELSE t[i - Len(s)]
  BY ConcatProperties
<1>3. ASSUME NEW i \in 1 .. Len(s) PROVE s[i] \in ToSet(s \o t)
  <2>1. i \in DOMAIN (s \o t) /\ (s \o t)[i] = s[i]
    BY <1>1, <1>2
  <2>2. QED BY <2>1 DEF ToSet
<1>4. ASSUME NEW i \in 1 .. Len(t) PROVE t[i] \in ToSet(s \o t)
  <2>1. /\ Len(s) + i \in DOMAIN (s \o t) /\ (Len(s) + i) - Len(s) = i
        /\ (s \o t)[Len(s) + i] = t[(Len(s) + i) - Len(s)]
    BY <1>1, <1>2
  <2>2. QED BY <2>1 DEF ToSet
<1>5. ASSUME NEW i \in DOMAIN (s \o t) PROVE (s \o t)[i] \in ToSet(s) \cup ToSet(t)
  <2>1. CASE i <= Len(s)
    BY <1>1, <1>2, <2>1 DEF ToSet
  <2>2. CASE ~(i <= Len(s))
    <3>1. i - Len(s) \in DOMAIN t /\ (s \o t)[i] = t[i - Len(s)]
      BY <1>1, <1>2, <2>2
    <3>2. QED BY <3>1 DEF ToSet
  <2>3. QED BY <2>1, <2>2
<1>6. QED BY <1>1, <1>3, <1>4, <1>5 DEF ToSet

(* What is in a flattened sequence is in one of the sequences. *)
LEMMA FlattenMembers ==
    ASSUME NEW S, NEW ss \in Seq(Seq(S)), NEW x
    PROVE  x \in ToSet(FlattenSeq(ss)) <=> \E i \in 1 .. Len(ss) : x \in ToSet(ss[i])
<1> DEFINE n == Len(ss)
<1>1. n \in Nat /\ \A i \in 1 .. n : ss[i] \in Seq(S)
  BY LenProperties, ElementOfSeq
<1>2. CASE n = 0
  <2>1. FlattenSeq(ss) = <<>>
    BY <1>2, FlattenTyped
  <2>2. ToSet(<<>>) = {}
    BY DEF ToSet
  <2>3. QED BY <1>2, <2>1, <2>2
<1>3. CASE n # 0
  <2>1. PICK f : Flattens(f, ss, S)
    BY <1>3, FlattensIs
  <2>2. /\ f \in [1 .. n -> Seq(S)] /\ f[1] = ss[1] /\ FlattenSeq(ss) = f[n]
        /\ \A i \in 2 .. n : f[i] = f[i - 1] \o ss[i]
    BY <2>1 DEF Flattens
  <2> DEFINE Has(k) == x \in ToSet(f[k]) <=> \E i \in 1 .. k : x \in ToSet(ss[i])
             T == {k \in Nat : k \in 1 .. n => Has(k)}
  <2> HIDE DEF n
  <2>3. 0 \in T
    BY 0 \notin 1 .. n
  <2>4. ASSUME NEW k \in Nat, k \in T, NEW j \in Nat, j = k + 1 PROVE j \in T
    <3>1. CASE j = 1
      BY <2>2, <3>1
    <3>2. CASE j \in 2 .. n
      <4>1. k \in 1 .. n /\ j - 1 = k /\ j \in 1 .. n /\ \A i \in 1 .. j : i \in 1 .. k \/ i = j
        BY <1>1, <2>4, <3>2
      <4>2. f[j] = f[k] \o ss[j] /\ f[k] \in Seq(S) /\ ss[j] \in Seq(S)
        BY <1>1, <2>2, <3>2, <4>1
      <4>3. ToSet(f[j]) = ToSet(f[k]) \cup ToSet(ss[j])
        BY <4>2, ToSetOfConcat
      <4>4. Has(k) /\ \A i \in 1 .. k : i \in 1 .. j
        BY <2>4, <4>1
      <4>5. Has(j)
        BY <2>4, <4>1, <4>3, <4>4
      <4>6. QED BY <4>5
    <3>3. CASE j \notin 1 .. n
      BY <3>3
    <3>4. QED BY <1>1, <3>1, <3>2, <3>3
  <2> HIDE DEF T
  <2>8. \A k \in Nat : k \in T => k + 1 \in T
    BY <2>4
  <2>9. Nat \subseteq T
    BY <2>3, <2>8, Inductive, Zenon
  <2>5. n \in T /\ n \in 1 .. n
    BY <1>1, <1>3, <2>9
  <2>6. QED BY <2>2, <2>5 DEF T, n
<1>4. QED BY <1>2, <1>3

(* The characters a template's syntax is made of, by name. *)
Opening == "{"
Closing == "}"
Slash == "/"

(* The marks differ, and none is the name of a placeholder. *)
LEMMA MarksApart ==
    /\ Opening # Closing /\ Opening # Slash /\ Closing # Slash
    /\ Opening \notin Known /\ Closing \notin Known /\ Slash \notin Known
<1>1. Opening # Closing /\ Opening # Slash /\ Closing # Slash
  BY Zenon DEF Opening, Closing, Slash
<1>2. Opening \notin Known /\ Closing \notin Known /\ Slash \notin Known
  BY NamingAssumption, Zenon DEF Opening, Closing, Slash
<1>3. QED BY <1>1, <1>2

(* A name, or the symbols of one part of a segment. *)
Names == Seq(DOMAIN Bytes)
(* What parseTemplate keeps while it reads. *)
ParseState == [open : BOOLEAN, name : Names, found : Seq(Names), ok : BOOLEAN]

(* It begins outside every brace, with nothing found. *)
LEMMA OutsideIs == Outside \in ParseState /\ Outside.ok /\ ~Outside.open /\ Outside.found = <<>>
<1>1. <<>> \in Names /\ <<>> \in Seq(Names)
  BY EmptySeq DEF Names
<1>2. QED BY <1>1 DEF Outside, ParseState

(* What parseTemplate does with a symbol, as long as it has found no fault. *)
Parsed(p, ch, q) ==
    /\ ~p.ok => ~q.ok
    /\ p.ok /\ ch = Opening => q.ok = ~p.open /\ q.open /\ q.name = <<>> /\ q.found = p.found
    /\ p.ok /\ ch = Closing => /\ q.ok = (p.open /\ p.name # <<>>) /\ ~q.open
                               /\ q.found = Append(p.found, p.name)
    /\ p.ok /\ ch # Opening /\ ch # Closing =>
          /\ q.ok /\ q.open = p.open /\ q.found = p.found
          /\ q.name = IF p.open THEN Append(p.name, ch) ELSE p.name

(* ParseSymbol does so, and keeps what it keeps well-formed. *)
LEMMA ParseSymbolIs ==
    ASSUME NEW p \in ParseState, NEW ch \in DOMAIN Bytes
    PROVE  LET q == ParseSymbol(p, ch) IN q \in ParseState /\ Parsed(p, ch, q)
<1> DEFINE q == ParseSymbol(p, ch)
<1>1. q = IF ~p.ok THEN p ELSE
            CASE ch = Opening -> [p EXCEPT !.ok = ~p.open, !.open = TRUE, !.name = <<>>]
            [] ch = Closing -> [p EXCEPT !.ok = p.open /\ p.name # <<>>, !.open = FALSE,
                                         !.found = Append(@, p.name)]
            [] OTHER -> IF p.open THEN [p EXCEPT !.name = Append(@, ch)] ELSE p
  BY Zenon DEF ParseSymbol, Opening, Closing
<1> HIDE DEF q
<1>2. /\ p.name \in Names /\ p.found \in Seq(Names) /\ <<>> \in Names
      /\ Append(p.name, ch) \in Names /\ Append(p.found, p.name) \in Seq(Names)
  <2>1. p.name \in Names /\ p.found \in Seq(Names) /\ <<>> \in Names
    BY EmptySeq DEF ParseState, Names
  <2>2. Append(p.name, ch) \in Names
    BY <2>1, AppendProperties DEF Names
  <2>3. Append(p.found, p.name) \in Seq(Names)
    BY <2>1, AppendProperties
  <2>4. QED BY <2>1, <2>2, <2>3
<1>3. CASE ~p.ok
  <2>1. q = p
    BY <1>1, <1>3, Zenon
  <2>2. QED BY <1>3, <2>1 DEF Parsed, q
<1>4. CASE p.ok /\ ch = Opening
  <2>2. ch # Closing
    BY <1>4, MarksApart
  <2>1. q = [p EXCEPT !.ok = ~p.open, !.open = TRUE, !.name = <<>>]
    BY <1>1, <1>4, <2>2, Zenon
  <2>3. QED BY <1>2, <1>4, <2>1, <2>2 DEF ParseState, Parsed, q
<1>5. CASE p.ok /\ ch = Closing
  <2>1. ch # Opening
    BY <1>5, MarksApart
  <2>2. q = [p EXCEPT !.ok = p.open /\ p.name # <<>>, !.open = FALSE,
                      !.found = Append(@, p.name)]
    BY <1>1, <1>5, <2>1, Zenon
  <2>3. QED BY <1>2, <1>5, <2>1, <2>2 DEF ParseState, Parsed, q
<1>6. CASE p.ok /\ ch # Opening /\ ch # Closing
  <2>1. q = IF p.open THEN [p EXCEPT !.name = Append(@, ch)] ELSE p
    BY <1>1, <1>6, Zenon
  <2>2. QED BY <1>2, <1>6, <2>1 DEF ParseState, Parsed, q
<1>7. QED BY <1>3, <1>4, <1>5, <1>6

(* parseTemplate, symbol by symbol. *)
ParseRuns(P, s) ==
    /\ P \in [0 .. Len(s) -> ParseState]
    /\ P[0] = Outside /\ Parse(s) = P[Len(s)]
    /\ \A k \in 1 .. Len(s) : P[k] = ParseSymbol(P[k - 1], s[k])

(* Parse is such a run. *)
LEMMA ParseFolds ==
    ASSUME NEW s \in Text
    PROVE  \E P : ParseRuns(P, s)
<1> DEFINE n == Len(s)
           F == [p \in ParseState \X (1 .. n) |-> ParseSymbol(p[1], s[p[2]])]
           Step(g, x) == IF x = {} THEN Outside ELSE ParseSymbol(g[x \ {Max(x)}], s[Max(x)])
           f == CHOOSE g : g = [x \in SUBSET (1 .. n) |-> Step(g, x)]
<1>1. n \in Nat /\ DOMAIN s = 1 .. n /\ \A i \in 1 .. n : s[i] \in DOMAIN Bytes
  BY TextTyped
<1>2. Parse(s) = f[1 .. n]
  BY <1>1 DEF Parse, FoldLeft, MapThenFoldSet
<1> HIDE DEF n
<1>0. \A v \in ParseState, k \in 1 .. n : F[<<v, k>>] = ParseSymbol(v, s[k])
  OBVIOUS
<1>6. F \in [ParseState \X (1 .. n) -> ParseState] /\ Outside \in ParseState
  <2>1. ASSUME NEW v \in ParseState, NEW k \in 1 .. n PROVE ParseSymbol(v, s[k]) \in ParseState
    BY <1>1, ParseSymbolIs
  <2>2. QED BY <2>1, OutsideIs
<1> HIDE DEF F
<1>3. \E g : g = [x \in SUBSET (1 .. n) |-> Step(g, x)]
  <2>2. PICK g : IsFold(g, n, ParseState, Outside, F)
    BY <1>1, <1>6, FoldExists
  <2>3. ASSUME NEW x \in SUBSET (1 .. n) PROVE g[x] = Step(g, x)
    <3>1. CASE x = {}
      BY <2>2, <3>1 DEF IsFold
    <3>2. CASE x # {}
      <4>1. Max(x) \in 1 .. n
        BY <1>1, <3>2, MaxOf, 1 .. n \subseteq 0 .. n
      <4>2. g[x \ {Max(x)}] \in ParseState
        BY <2>2 DEF IsFold
      <4>3. F[<<g[x \ {Max(x)}], Max(x)>>] = ParseSymbol(g[x \ {Max(x)}], s[Max(x)])
        BY <1>0, <4>1, <4>2
      <4>4. QED BY <2>2, <3>2, <4>3 DEF IsFold
    <3>3. QED BY <3>1, <3>2
  <2> HIDE DEF Step
  <2>4. QED BY <2>2, <2>3 DEF IsFold
<1>4. f = [x \in SUBSET (1 .. n) |-> Step(f, x)]
  <2> HIDE DEF Step
  <2>1. QED BY <1>3
<1> HIDE DEF f
<1>5. Unrolls(f, n, ParseState, Outside, F)
  <2>1. f[{}] = Outside
    BY <1>4
  <2>2. ASSUME NEW x \in SUBSET (1 .. n), x # {}, f[x \ {Max(x)}] \in ParseState
        PROVE  f[x] = F[<<f[x \ {Max(x)}], Max(x)>>]
    <3>1. Max(x) \in 1 .. n
      BY <1>1, <2>2, MaxOf, 1 .. n \subseteq 0 .. n
    <3>2. f[x] = ParseSymbol(f[x \ {Max(x)}], s[Max(x)])
      BY <1>4, <2>2
    <3>3. QED BY <1>0, <2>2, <3>1, <3>2
  <2>3. QED BY <2>1, <2>2 DEF Unrolls
<1>8. PICK G \in [0 .. n -> ParseState] :
           /\ G[0] = Outside /\ f[1 .. n] = G[n]
           /\ \A k \in 1 .. n : G[k] = F[<<G[k - 1], k>>]
  <2>1. Steps(f, n, ParseState, Outside, F)
    BY <1>1, <1>5, <1>6, FoldSteps
  <2>2. QED BY <2>1 DEF Steps
<1>9. \A k \in 1 .. n : k - 1 \in 0 .. n /\ G[k - 1] \in ParseState
  BY <1>1
<1>10. \A k \in 1 .. n : G[k] = ParseSymbol(G[k - 1], s[k])
  BY <1>0, <1>8, <1>9
<1>11. QED BY <1>2, <1>8, <1>10 DEF n, ParseRuns

(* The token of a part is a name, or nothing. *)
LEMMA TokenTyped == \A part \in Names : TokenOf(part) \in Names
<1>1. SUFFICES ASSUME NEW part \in Names PROVE TokenOf(part) \in Names
  OBVIOUS
<1>2. <<>> \in Names
  BY EmptySeq DEF Names
<1>3. Len(part) = 3 => <<part[2]>> \in Names
  <2>1. HAVE Len(part) = 3
  <2>2. part[2] \in DOMAIN Bytes
    <3>1. 2 \in 1 .. Len(part)
      BY <2>1
    <3>2. QED BY <3>1, ElementOfSeq DEF Names
  <2>3. QED BY <2>2, Singleton DEF Names
<1>4. QED BY <1>2, <1>3 DEF TokenOf

(* What is known of a name is a name, or nothing. *)
LEMMA KnownTyped == \A name \in Names : KnownOf(name) \in Names
<1>1. <<>> \in Names
  BY EmptySeq DEF Names
<1>2. QED BY <1>1 DEF KnownOf

(* The tokens of a segment, part by part. *)
LEMMA SegmentMapped ==
    ASSUME NEW segment \in Seq(Names)
    PROVE  LET tt == [i \in DOMAIN segment |-> TokenOf(segment[i])] IN
           /\ tt \in Seq(Names) /\ Len(tt) = Len(segment)
           /\ \A i \in 1 .. Len(segment) : tt[i] = TokenOf(segment[i])
<1> DEFINE tt == [i \in DOMAIN segment |-> TokenOf(segment[i])]
<1>1. /\ Len(segment) \in Nat /\ DOMAIN segment = 1 .. Len(segment)
      /\ \A i \in 1 .. Len(segment) : segment[i] \in Names
  BY LenProperties, ElementOfSeq
<1>2. tt \in [1 .. Len(segment) -> Names]
  BY <1>1, TokenTyped
<1>3. \A i \in 1 .. Len(segment) : tt[i] = TokenOf(segment[i])
  BY <1>1
<1> HIDE DEF tt
<1>4. tt \in Seq(Names) /\ Len(tt) = Len(segment)
  BY <1>1, <1>2, SeqOfFcn
<1>5. QED BY <1>3, <1>4 DEF tt

(* and joined. *)
LEMMA TokensInTyped ==
    ASSUME NEW segment \in Seq(Names)
    PROVE  TokensIn(segment) \in Names
<1> DEFINE tt == [i \in DOMAIN segment |-> TokenOf(segment[i])]
<1>1. tt \in Seq(Names)
  BY SegmentMapped
<1> HIDE DEF tt
<1>2. FlattenSeq(tt) \in Names
  BY <1>1, FlattenTyped DEF Names
<1>3. QED BY <1>2 DEF TokensIn, tt

(* A part more in a segment. *)
LEMMA TokensInPut ==
    ASSUME NEW segment \in Seq(Names), NEW part \in Names
    PROVE  TokensIn(Append(segment, part)) = TokensIn(segment) \o TokenOf(part)
<1> DEFINE more == Append(segment, part)
           ss == [i \in DOMAIN segment |-> TokenOf(segment[i])]
           tt == [i \in DOMAIN more |-> TokenOf(more[i])]
           n == Len(segment)
<1>1. /\ more \in Seq(Names) /\ Len(more) = n + 1 /\ n \in Nat
      /\ \A i \in 1 .. n : more[i] = segment[i]
      /\ more[n + 1] = part
  BY AppendProperties, LenProperties
<1>2. ss \in Seq(Names) /\ Len(ss) = n /\ \A i \in 1 .. n : ss[i] = TokenOf(segment[i])
  BY SegmentMapped
<1>3. TokensIn(segment) = FlattenSeq(ss) /\ TokensIn(more) = FlattenSeq(tt)
  BY DEF TokensIn
<1> HIDE DEF more, ss
<1>4. tt \in Seq(Names) /\ Len(tt) = n + 1 /\ \A i \in 1 .. n + 1 : tt[i] = TokenOf(more[i])
  BY <1>1, SegmentMapped
<1> HIDE DEF tt, n
<1>5. Len(tt) = Len(ss) + 1 /\ \A i \in 1 .. Len(ss) : tt[i] = ss[i]
  BY <1>1, <1>2, <1>4
<1>6. FlattenSeq(tt) = FlattenSeq(ss) \o tt[Len(tt)]
  BY <1>2, <1>4, <1>5, FlattenMore DEF Names
<1>7. tt[Len(tt)] = TokenOf(part)
  BY <1>1, <1>4
<1>8. QED BY <1>3, <1>6, <1>7 DEF more

(* The tokens of all segments, segment by segment, *)
LEMMA SegmentsMapped ==
    ASSUME NEW ss \in Seq(Seq(Names))
    PROVE  LET tt == [k \in DOMAIN ss |-> TokensIn(ss[k])] IN
           /\ tt \in Seq(Names) /\ Len(tt) = Len(ss)
           /\ \A k \in 1 .. Len(ss) : tt[k] = TokensIn(ss[k])
<1> DEFINE tt == [k \in DOMAIN ss |-> TokensIn(ss[k])]
<1>1. /\ Len(ss) \in Nat /\ DOMAIN ss = 1 .. Len(ss)
      /\ \A k \in 1 .. Len(ss) : ss[k] \in Seq(Names)
  BY LenProperties, ElementOfSeq
<1>2. tt \in [1 .. Len(ss) -> Names]
  BY <1>1, TokensInTyped
<1>3. \A k \in 1 .. Len(ss) : tt[k] = TokensIn(ss[k])
  BY <1>1
<1> HIDE DEF tt
<1>4. tt \in Seq(Names) /\ Len(tt) = Len(ss)
  BY <1>1, <1>2, SeqOfFcn
<1>5. QED BY <1>3, <1>4 DEF tt

(* and joined. *)
LEMMA TokensTyped ==
    ASSUME NEW ss \in Seq(Seq(Names))
    PROVE  Tokens(ss) \in Names
<1> DEFINE tt == [k \in DOMAIN ss |-> TokensIn(ss[k])]
<1>1. tt \in Seq(Names)
  BY SegmentsMapped
<1> HIDE DEF tt
<1>2. FlattenSeq(tt) \in Names
  BY <1>1, FlattenTyped DEF Names
<1>3. QED BY <1>2 DEF Tokens, tt

(* An empty segment has none, *)
LEMMA TokensInNone == TokensIn(<<>>) = <<>>
<1>1. [i \in DOMAIN <<>> |-> TokenOf(<<>>[i])] = <<>> /\ <<>> \in Seq(Names)
  BY EmptySeq
<1>2. FlattenSeq(<<>>) = <<>>
  BY <1>1, FlattenTyped DEF Names
<1>3. QED BY <1>1, <1>2 DEF TokensIn

(* A segment more. *)
LEMMA TokensSplit ==
    ASSUME NEW ss \in Seq(Seq(Names))
    PROVE  Tokens(Append(ss, <<>>)) = Tokens(ss)
<1> DEFINE more == Append(ss, <<>>)
           aa == [k \in DOMAIN ss |-> TokensIn(ss[k])]
           bb == [k \in DOMAIN more |-> TokensIn(more[k])]
           n == Len(ss)
<1>1. /\ more \in Seq(Seq(Names)) /\ Len(more) = n + 1 /\ n \in Nat
      /\ \A k \in 1 .. n : more[k] = ss[k]
      /\ more[n + 1] = <<>>
  <2>1. <<>> \in Seq(Names)
    BY EmptySeq
  <2>2. QED BY <2>1, AppendProperties, LenProperties
<1>2. aa \in Seq(Names) /\ Len(aa) = n /\ \A k \in 1 .. n : aa[k] = TokensIn(ss[k])
  BY SegmentsMapped
<1>3. Tokens(ss) = FlattenSeq(aa) /\ Tokens(more) = FlattenSeq(bb)
  BY DEF Tokens
<1> HIDE DEF more, aa
<1>4. bb \in Seq(Names) /\ Len(bb) = n + 1 /\ \A k \in 1 .. n + 1 : bb[k] = TokensIn(more[k])
  BY <1>1, SegmentsMapped
<1> HIDE DEF bb, n
<1>5. Len(bb) = Len(aa) + 1 /\ \A k \in 1 .. Len(aa) : bb[k] = aa[k]
  BY <1>1, <1>2, <1>4
<1>6. FlattenSeq(bb) = FlattenSeq(aa) \o bb[Len(bb)]
  BY <1>2, <1>4, <1>5, FlattenMore DEF Names
<1>7. bb[Len(bb)] = <<>>
  BY <1>1, <1>4, TokensInNone
<1>8. FlattenSeq(aa) \o <<>> = FlattenSeq(aa)
  <2>1. FlattenSeq(aa) \in Names
    BY <1>2, FlattenTyped DEF Names
  <2>2. QED BY <2>1, ConcatEmptySeq DEF Names
<1>9. QED BY <1>3, <1>6, <1>7, <1>8 DEF more

(* What Put makes of the segments. *)
WithPart(ss, part) == [ss EXCEPT ![Len(ss)] = Append(@, part)]

(* What Put leaves of the segments before the last. *)
PutInto(more, ss, part) ==
    /\ more \in Seq(Seq(Names)) /\ Len(more) = Len(ss)
    /\ more[Len(ss)] = Append(ss[Len(ss)], part)
    /\ \A k \in 1 .. Len(ss) - 1 : more[k] = ss[k]

(* Put does so. *)
LEMMA PutIs ==
    ASSUME NEW ss \in Seq(Seq(Names)), Len(ss) # 0, NEW part \in Names
    PROVE  PutInto(WithPart(ss, part), ss, part)
<1> DEFINE n == Len(ss)
           more == WithPart(ss, part)
<1>1. /\ n \in Nat \ {0} /\ n \in 1 .. n /\ DOMAIN ss = 1 .. n
      /\ \A k \in 1 .. n : ss[k] \in Seq(Names)
  BY LenProperties, ElementOfSeq
<1>2. Append(ss[n], part) \in Seq(Names)
  BY <1>1, AppendProperties
<1>3. more \in Seq(Seq(Names)) /\ Len(more) = n
  BY <1>1, <1>2, ExceptSeq DEF WithPart
<1>4. more[n] = Append(ss[n], part) /\ \A k \in 1 .. n - 1 : more[k] = ss[k]
  <2>1. \A k \in 1 .. n - 1 : k \in 1 .. n /\ k # n
    <3> HIDE DEF n
    <3>1. QED BY <1>1
  <2>2. QED BY <1>1, <2>1 DEF WithPart
<1>5. QED BY <1>3, <1>4 DEF PutInto

(* A part more in the last segment. *)
LEMMA TokensPut ==
    ASSUME NEW ss \in Seq(Seq(Names)), Len(ss) # 0, NEW part \in Names
    PROVE  Tokens(WithPart(ss, part)) = Tokens(ss) \o TokenOf(part)
<1> DEFINE n == Len(ss)
           more == WithPart(ss, part)
           aa == [k \in DOMAIN ss |-> TokensIn(ss[k])]
           bb == [k \in DOMAIN more |-> TokensIn(more[k])]
<1>1. n \in Nat \ {0}
  BY LenProperties
<1>2. PutInto(more, ss, part)
  BY PutIs
<1> HIDE DEF more
<1>3. /\ more \in Seq(Seq(Names)) /\ Len(more) = n /\ more[n] = Append(ss[n], part)
      /\ \A k \in 1 .. n - 1 : more[k] = ss[k]
  BY <1>2 DEF PutInto
<1>4. n \in 1 .. n /\ ss[n] \in Seq(Names) /\ \A k \in 1 .. n - 1 : k \in 1 .. n
  BY <1>1, ElementOfSeq
<1>5. aa \in Seq(Names) /\ Len(aa) = n /\ \A k \in 1 .. n : aa[k] = TokensIn(ss[k])
  BY SegmentsMapped
<1>6. bb \in Seq(Names) /\ Len(bb) = n /\ \A k \in 1 .. n : bb[k] = TokensIn(more[k])
  BY <1>3, SegmentsMapped
<1>7. Tokens(ss) = FlattenSeq(aa) /\ Tokens(more) = FlattenSeq(bb)
  BY DEF Tokens
<1> HIDE DEF aa, bb, n
<1>8. bb[n] = aa[n] \o TokenOf(part)
  <2>1. TokensIn(Append(ss[n], part)) = TokensIn(ss[n]) \o TokenOf(part)
    BY <1>4, TokensInPut
  <2>2. bb[n] = TokensIn(more[n]) /\ aa[n] = TokensIn(ss[n])
    BY <1>4, <1>5, <1>6
  <2>3. bb[n] = TokensIn(Append(ss[n], part))
    BY <1>3, <2>2
  <2>4. QED BY <2>1, <2>2, <2>3, Zenon
<1>9. \A k \in 1 .. n - 1 : bb[k] = aa[k]
  <2>1. SUFFICES ASSUME NEW k \in 1 .. n - 1 PROVE bb[k] = aa[k]
    OBVIOUS
  <2>2. k \in 1 .. n /\ more[k] = ss[k]
    BY <1>4, <1>3
  <2>3. bb[k] = TokensIn(more[k]) /\ aa[k] = TokensIn(ss[k])
    BY <1>5, <1>6, <2>2
  <2>4. QED BY <2>2, <2>3, Zenon
<1>10. TokenOf(part) \in Names
  BY TokenTyped
<1> DEFINE t == TokenOf(part)
<1>11. bb[n] = aa[n] \o t /\ t \in Names
  BY <1>8, <1>10
<1> HIDE DEF t
<1>12. FlattenSeq(bb) = FlattenSeq(aa) \o t
  <2>1. /\ aa \in Seq(Seq(DOMAIN Bytes)) /\ Len(aa) = n
        /\ bb \in Seq(Seq(DOMAIN Bytes)) /\ Len(bb) = n /\ t \in Seq(DOMAIN Bytes)
    BY <1>5, <1>6, <1>11 DEF Names
  <2>2. Longer(bb, aa, t)
    BY <1>1, <1>9, <1>11, <2>1 DEF Longer
  <2>3. QED BY <2>1, <2>2, FlattenLonger
<1>13. QED BY <1>7, <1>12 DEF t, more

(* nor have the segments Compile begins with. *)
LEMMA TokensOfNone == Tokens(<< <<>> >>) = <<>>
<1>1. <<>> \in Seq(Seq(Names)) /\ Append(<<>>, <<>>) = << <<>> >>
  BY EmptySeq
<1>2. [k \in DOMAIN <<>> |-> TokensIn(<<>>[k])] = <<>> /\ <<>> \in Seq(Names)
  BY EmptySeq
<1>3. FlattenSeq(<<>>) = <<>>
  BY <1>2, FlattenTyped DEF Names
<1>4. Tokens(<<>>) = <<>>
  BY <1>2, <1>3 DEF Tokens
<1>5. QED BY <1>1, <1>4, TokensSplit

(* The known names, found name by found name. *)
LEMMA KnownMapped ==
    ASSUME NEW found \in Seq(Names)
    PROVE  LET tt == [i \in DOMAIN found |-> KnownOf(found[i])] IN
           /\ tt \in Seq(Names) /\ Len(tt) = Len(found)
           /\ \A i \in 1 .. Len(found) : tt[i] = KnownOf(found[i])
<1> DEFINE tt == [i \in DOMAIN found |-> KnownOf(found[i])]
<1>1. /\ Len(found) \in Nat /\ DOMAIN found = 1 .. Len(found)
      /\ \A i \in 1 .. Len(found) : found[i] \in Names
  BY LenProperties, ElementOfSeq
<1>2. tt \in [1 .. Len(found) -> Names]
  BY <1>1, KnownTyped
<1>3. \A i \in 1 .. Len(found) : tt[i] = KnownOf(found[i])
  BY <1>1
<1> HIDE DEF tt
<1>4. tt \in Seq(Names) /\ Len(tt) = Len(found)
  BY <1>1, <1>2, SeqOfFcn
<1>5. QED BY <1>3, <1>4 DEF tt

(* A name more that was found. *)
LEMMA KnownFound ==
    ASSUME NEW found \in Seq(Names), NEW name \in Names
    PROVE  KnownAmong(Append(found, name)) = KnownAmong(found) \o KnownOf(name)
<1> DEFINE more == Append(found, name)
           aa == [i \in DOMAIN found |-> KnownOf(found[i])]
           bb == [i \in DOMAIN more |-> KnownOf(more[i])]
           n == Len(found)
<1>1. /\ more \in Seq(Names) /\ Len(more) = n + 1 /\ n \in Nat
      /\ \A i \in 1 .. n : more[i] = found[i]
      /\ more[n + 1] = name
  BY AppendProperties, LenProperties
<1>2. KnownAmong(found) = FlattenSeq(aa) /\ KnownAmong(more) = FlattenSeq(bb)
  BY DEF KnownAmong
<1>3. aa \in Seq(Names) /\ Len(aa) = n /\ \A i \in 1 .. n : aa[i] = KnownOf(found[i])
  BY KnownMapped
<1> HIDE DEF more, aa
<1>4. bb \in Seq(Names) /\ Len(bb) = n + 1 /\ \A i \in 1 .. n + 1 : bb[i] = KnownOf(more[i])
  BY <1>1, KnownMapped
<1> HIDE DEF bb, n
<1>5. Len(bb) = Len(aa) + 1 /\ \A i \in 1 .. Len(aa) : bb[i] = aa[i]
  BY <1>1, <1>3, <1>4
<1>6. FlattenSeq(bb) = FlattenSeq(aa) \o bb[Len(bb)]
  BY <1>3, <1>4, <1>5, FlattenMore DEF Names
<1>7. bb[Len(bb)] = KnownOf(name)
  BY <1>1, <1>4
<1>8. QED BY <1>2, <1>6, <1>7 DEF more

(* When a brace opens a token, with the marks named. *)
LEMMA OpensIs ==
    ASSUME NEW s, NEW i
    PROVE  OpensToken(s, i) <=> /\ s[i] = Opening /\ i + 2 <= Len(s)
                                /\ s[i + 1] \in Known /\ s[i + 2] = Closing
BY Zenon DEF OpensToken, Opening, Closing

(* The symbols of a token. *)
LEMMA TokenPart ==
    ASSUME NEW s \in Text, NEW i \in 1 .. Len(s), OpensToken(s, i)
    PROVE  LET part == SubSeq(s, i, i + 2) IN part \in Names /\ Len(part) = 3 /\ part[2] = s[i + 1]
<1> DEFINE part == SubSeq(s, i, i + 2)
<1>1. Len(s) \in Nat /\ i + 2 <= Len(s)
  BY TextTyped, OpensIs
<1>2. \A k \in i .. i + 2 : s[k] \in DOMAIN Bytes
  <2>1. \A k \in i .. i + 2 : k \in 1 .. Len(s)
    BY <1>1
  <2>2. QED BY <2>1, TextTyped
<1>3. /\ part \in Names /\ Len(part) = IF i <= i + 2 THEN i + 2 - i + 1 ELSE 0
      /\ \A k \in 1 .. i + 2 - i + 1 : part[k] = s[i + k - 1]
  BY <1>2, SubSeqProperties DEF Names
<1> HIDE DEF part
<1>4. Len(part) = 3 /\ 2 \in 1 .. i + 2 - i + 1 /\ i + 2 - 1 = i + 1
  BY <1>3
<1>5. QED BY <1>3, <1>4 DEF part

(* What compileSegment keeps while it reads, and how it begins. *)
CompileState == [segments : {ss \in Seq(Seq(Names)) : Len(ss) # 0}, skip : Nat]
Begun == [segments |-> << <<>> >>, skip |-> 0]

(* It begins with no token. *)
LEMMA BegunIs == Begun \in CompileState /\ Begun.skip = 0 /\ Tokens(Begun.segments) = <<>>
<1>1. <<>> \in Seq(Names) /\ << <<>> >> \in Seq(Seq(Names)) /\ Len(<< <<>> >>) = 1
  BY EmptySeq, Singleton
<1>2. Begun \in CompileState /\ Begun.skip = 0
  BY <1>1 DEF Begun, CompileState
<1>3. Tokens(Begun.segments) = <<>>
  BY TokensOfNone DEF Begun
<1>4. QED BY <1>2, <1>3

(* What compileSegment does with a symbol, and Compile with a separator. *)
Compiled(s, i, c, d) ==
    /\ c.skip > 0 => d.segments = c.segments /\ d.skip = c.skip - 1
    /\ c.skip = 0 /\ s[i] = Slash => d.skip = 0 /\ d.segments = Append(c.segments, <<>>)
    /\ c.skip = 0 /\ s[i] # Slash /\ OpensToken(s, i) =>
          d.skip = 2 /\ d.segments = WithPart(c.segments, SubSeq(s, i, i + 2))
    /\ c.skip = 0 /\ s[i] # Slash /\ ~OpensToken(s, i) =>
          d.skip = 0 /\ d.segments = WithPart(c.segments, <<s[i]>>)

(* CompileSymbol does so, and keeps what it keeps well-formed. *)
LEMMA CompileSymbolIs ==
    ASSUME NEW s \in Text, NEW i \in 1 .. Len(s), NEW c \in CompileState
    PROVE  LET d == CompileSymbol(s, c, i) IN d \in CompileState /\ Compiled(s, i, c, d)
<1> DEFINE d == CompileSymbol(s, c, i)
           n == Len(c.segments)
           With(part) == WithPart(c.segments, part)
<1>1. /\ c.segments \in Seq(Seq(Names)) /\ n \in Nat \ {0} /\ c.skip \in Nat
      /\ s[i] \in DOMAIN Bytes /\ Len(s) \in Nat
      /\ c = [segments |-> c.segments, skip |-> c.skip]
  BY TextTyped, LenProperties DEF CompileState
<1>2. d = IF c.skip > 0 THEN [c EXCEPT !.skip = @ - 1] ELSE
          CASE s[i] = Slash -> [c EXCEPT !.segments = Append(@, <<>>)]
            [] OpensToken(s, i) -> [Put(c, SubSeq(s, i, i + 2)) EXCEPT !.skip = 2]
            [] OTHER -> Put(c, <<s[i]>>)
  BY Zenon DEF CompileSymbol, Slash
<1> HIDE DEF d
<1>3. \A part : Put(c, part) = [c EXCEPT !.segments = With(part)]
  BY <1>1 DEF Put, WithPart
<1>4. ASSUME NEW part \in Names
      PROVE  With(part) \in Seq(Seq(Names)) /\ Len(With(part)) = n
  <2>1. n \in 1 .. n /\ c.segments[n] \in Seq(Names)
    BY <1>1, ElementOfSeq
  <2>2. Append(c.segments[n], part) \in Seq(Names)
    BY <2>1, AppendProperties
  <2>3. QED BY <1>1, <2>1, <2>2, ExceptSeq DEF WithPart
<1>5. Append(c.segments, <<>>) \in Seq(Seq(Names)) /\ Len(Append(c.segments, <<>>)) = n + 1
  <2>1. <<>> \in Seq(Names)
    BY EmptySeq
  <2>2. QED BY <1>1, <2>1, AppendProperties
<1>6. OpensToken(s, i) => SubSeq(s, i, i + 2) \in Names
  BY TokenPart
<1>7. <<s[i]>> \in Names
  BY <1>1, Singleton DEF Names
<1> HIDE DEF n
<1>8. CASE c.skip > 0
  <2>1. d = [c EXCEPT !.skip = @ - 1]
    BY <1>2, <1>8, Zenon
  <2>2. d = [segments |-> c.segments, skip |-> c.skip - 1]
    BY <1>1, <2>1
  <2>3. d \in CompileState
    <3>1. c.segments \in {ss \in Seq(Seq(Names)) : Len(ss) # 0} /\ c.skip - 1 \in Nat
      BY <1>1, <1>8 DEF n
    <3>2. QED BY <2>2, <3>1 DEF CompileState
  <2>4. Compiled(s, i, c, d)
    BY <1>1, <1>8, <2>2 DEF Compiled
  <2>5. QED BY <2>3, <2>4 DEF d
<1>9. CASE c.skip = 0 /\ s[i] = Slash
  <2>1. ~(c.skip > 0)
    BY <1>9
  <2>2. ~OpensToken(s, i)
    BY <1>9, MarksApart, Zenon DEF OpensToken, Opening
  <2>3. d = [c EXCEPT !.segments = Append(@, <<>>)]
    BY <1>2, <1>9, <2>1, <2>2, Zenon
  <2>4. d = [segments |-> Append(c.segments, <<>>), skip |-> 0]
    BY <1>1, <1>9, <2>3
  <2>5. d \in CompileState
    <3>1. Append(c.segments, <<>>) \in {ss \in Seq(Seq(Names)) : Len(ss) # 0}
      BY <1>1, <1>5
    <3>2. QED BY <2>4, <3>1 DEF CompileState
  <2>6. Compiled(s, i, c, d)
    BY <1>9, <2>1, <2>4 DEF Compiled
  <2>7. QED BY <2>5, <2>6 DEF d
<1>10. CASE c.skip = 0 /\ s[i] # Slash /\ OpensToken(s, i)
  <2>1. ~(c.skip > 0)
    BY <1>10
  <2>2. d = [Put(c, SubSeq(s, i, i + 2)) EXCEPT !.skip = 2]
    BY <1>2, <1>10, <2>1, Zenon
  <2>3. d = [segments |-> With(SubSeq(s, i, i + 2)), skip |-> 2]
    BY <1>1, <1>3, <2>2
  <2> HIDE DEF With
  <2>4. d \in CompileState
    BY <1>1, <1>4, <1>6, <1>10, <2>3 DEF CompileState
  <2>5. Compiled(s, i, c, d)
    BY <1>10, <2>1, <2>3 DEF Compiled, With
  <2>6. QED BY <2>4, <2>5 DEF d
<1>11. CASE c.skip = 0 /\ s[i] # Slash /\ ~OpensToken(s, i)
  <2>1. ~(c.skip > 0)
    BY <1>11
  <2>2. d = Put(c, <<s[i]>>)
    BY <1>2, <1>11, <2>1, Zenon
  <2>3. d = [segments |-> With(<<s[i]>>), skip |-> 0]
    BY <1>1, <1>3, <1>11, <2>2
  <2> HIDE DEF With
  <2>4. d \in CompileState
    BY <1>1, <1>4, <1>7, <2>3 DEF CompileState
  <2>5. Compiled(s, i, c, d)
    BY <1>11, <2>1, <2>3 DEF Compiled, With
  <2>6. QED BY <2>4, <2>5 DEF d
<1>12. QED
  <2>1. c.skip > 0 \/ c.skip = 0
    BY <1>1
  <2>2. QED BY <1>8, <1>9, <1>10, <1>11, <2>1

(* Compile, symbol by symbol. *)
CompileRuns(C, s) ==
    /\ C \in [0 .. Len(s) -> CompileState]
    /\ C[0] = Begun /\ Compile(s) = C[Len(s)].segments
    /\ \A k \in 1 .. Len(s) : C[k] = CompileSymbol(s, C[k - 1], k)

(* Compile is such a run. *)
LEMMA CompileFolds ==
    ASSUME NEW s \in Text
    PROVE  \E C : CompileRuns(C, s)
<1> DEFINE n == Len(s)
           places == [i \in DOMAIN s |-> i]
           F == [p \in CompileState \X (1 .. n) |-> CompileSymbol(s, p[1], p[2])]
           Step(g, x) == IF x = {} THEN Begun
                                   ELSE CompileSymbol(s, g[x \ {Max(x)}], places[Max(x)])
           f == CHOOSE g : g = [x \in SUBSET (1 .. n) |-> Step(g, x)]
<1>1. n \in Nat /\ DOMAIN s = 1 .. n /\ DOMAIN places = 1 .. n /\ \A i \in 1 .. n : places[i] = i
  BY TextTyped
<1>2. Compile(s) = f[1 .. n].segments
  BY <1>1 DEF Compile, FoldLeftDomain, FoldLeft, MapThenFoldSet, Begun
<1> HIDE DEF n, places
<1>0. \A v \in CompileState, k \in 1 .. n : F[<<v, k>>] = CompileSymbol(s, v, k)
  OBVIOUS
<1>6. F \in [CompileState \X (1 .. n) -> CompileState] /\ Begun \in CompileState
  <2>1. ASSUME NEW v \in CompileState, NEW k \in 1 .. n PROVE CompileSymbol(s, v, k) \in CompileState
    BY <1>1, CompileSymbolIs DEF n
  <2>2. QED BY <2>1, BegunIs
<1> HIDE DEF F
<1>3. \E g : g = [x \in SUBSET (1 .. n) |-> Step(g, x)]
  <2>2. PICK g : IsFold(g, n, CompileState, Begun, F)
    BY <1>1, <1>6, FoldExists
  <2>3. ASSUME NEW x \in SUBSET (1 .. n) PROVE g[x] = Step(g, x)
    <3>1. CASE x = {}
      BY <2>2, <3>1 DEF IsFold
    <3>2. CASE x # {}
      <4>1. Max(x) \in 1 .. n
        BY <1>1, <3>2, MaxOf, 1 .. n \subseteq 0 .. n
      <4>2. g[x \ {Max(x)}] \in CompileState
        BY <2>2 DEF IsFold
      <4>3. F[<<g[x \ {Max(x)}], Max(x)>>] = CompileSymbol(s, g[x \ {Max(x)}], places[Max(x)])
        BY <1>0, <1>1, <4>1, <4>2
      <4>4. QED BY <2>2, <3>2, <4>3 DEF IsFold
    <3>3. QED BY <3>1, <3>2
  <2> HIDE DEF Step
  <2>4. QED BY <2>2, <2>3 DEF IsFold
<1>4. f = [x \in SUBSET (1 .. n) |-> Step(f, x)]
  <2> HIDE DEF Step
  <2>1. QED BY <1>3
<1> HIDE DEF f
<1>5. Unrolls(f, n, CompileState, Begun, F)
  <2>1. f[{}] = Begun
    BY <1>4
  <2>2. ASSUME NEW x \in SUBSET (1 .. n), x # {}, f[x \ {Max(x)}] \in CompileState
        PROVE  f[x] = F[<<f[x \ {Max(x)}], Max(x)>>]
    <3>1. Max(x) \in 1 .. n
      BY <1>1, <2>2, MaxOf, 1 .. n \subseteq 0 .. n
    <3>2. f[x] = CompileSymbol(s, f[x \ {Max(x)}], places[Max(x)])
      BY <1>4, <2>2
    <3>3. QED BY <1>0, <1>1, <2>2, <3>1, <3>2
  <2>3. QED BY <2>1, <2>2 DEF Unrolls
<1>8. PICK G \in [0 .. n -> CompileState] :
           /\ G[0] = Begun /\ f[1 .. n] = G[n]
           /\ \A k \in 1 .. n : G[k] = F[<<G[k - 1], k>>]
  <2>1. Steps(f, n, CompileState, Begun, F)
    BY <1>1, <1>5, <1>6, FoldSteps
  <2>2. QED BY <2>1 DEF Steps
<1>9. \A k \in 1 .. n : k - 1 \in 0 .. n /\ G[k - 1] \in CompileState
  BY <1>1
<1>10. \A k \in 1 .. n : G[k] = CompileSymbol(s, G[k - 1], k)
  BY <1>0, <1>8, <1>9
<1>11. QED BY <1>2, <1>8, <1>10 DEF n, CompileRuns

(* A brace stands open that opens no token: the name read since is none Compile knows. *)
LeftOpen(s, name, i) ==
    LET b == i - Len(name)
    IN /\ b \in 1 .. i /\ s[b] = Opening /\ ~OpensToken(s, b)
       /\ Len(name) = 1 => name[1] = s[i]

(* The two readers after i symbols. Compile is ahead while it skips a token. *)
Agree(s, p, c, i) ==
    LET tokens == Tokens(c.segments)
        known == KnownAmong(p.found)
    IN /\ c.skip \in 0 .. 2
       /\ c.skip = 2 => /\ p.open /\ p.name = <<>> /\ i + 2 <= Len(s)
                        /\ s[i + 1] \in Known /\ s[i + 2] = Closing
                        /\ tokens = known \o <<s[i + 1]>>
       /\ c.skip = 1 => /\ p.open /\ p.name = <<s[i]>> /\ i + 1 <= Len(s)
                        /\ s[i] \in Known /\ s[i + 1] = Closing
                        /\ tokens = known \o <<s[i]>>
       /\ c.skip = 0 => tokens = known /\ (p.open => LeftOpen(s, p.name, i))

(* They agree before the first symbol, *)
LEMMA AgreeInit == \A s : Agree(s, Outside, Begun, 0)
<1>1. FlattenSeq([i \in DOMAIN <<>> |-> KnownOf(<<>>[i])]) = <<>>
  <2>1. [i \in DOMAIN <<>> |-> KnownOf(<<>>[i])] = <<>> /\ <<>> \in Seq(Names) /\ Len(<<>>) = 0
    BY EmptySeq
  <2>2. FlattenSeq(<<>>) = <<>>
    BY <2>1, FlattenTyped DEF Names
  <2>3. QED BY <2>1, <2>2
<1>2. KnownAmong(Outside.found) = <<>>
  BY <1>1, OutsideIs DEF KnownAmong
<1>3. QED BY <1>2, OutsideIs, BegunIs DEF Agree

(* The known names are names. *)
LEMMA KnownAmongTyped ==
    ASSUME NEW found \in Seq(Names)
    PROVE  KnownAmong(found) \in Names
<1> DEFINE tt == [i \in DOMAIN found |-> KnownOf(found[i])]
<1>1. tt \in Seq(Names)
  BY KnownMapped
<1> HIDE DEF tt
<1>2. FlattenSeq(tt) \in Names
  BY <1>1, FlattenTyped DEF Names
<1>3. QED BY <1>2 DEF KnownAmong, tt

(* The name read grows by a character that is no brace. *)
LEMMA LeftOpenGrows ==
    ASSUME NEW s \in Text, NEW name \in Names, NEW i \in Nat, NEW j \in 1 .. Len(s), j = i + 1,
           LeftOpen(s, name, i)
    PROVE  LeftOpen(s, Append(name, s[j]), j)
<1> DEFINE more == Append(name, s[j])
<1>1. s[j] \in DOMAIN Bytes /\ Len(name) \in Nat
  BY TextTyped, LenProperties DEF Names
<1>2. Len(more) = Len(name) + 1 /\ more[Len(name) + 1] = s[j]
  BY <1>1, AppendProperties DEF Names
<1> HIDE DEF more
<1>3. j - Len(more) = i - Len(name) /\ (Len(more) = 1 => more[1] = s[j])
  BY <1>1, <1>2
<1>4. j - Len(more) \in 1 .. j
  BY <1>1, <1>3 DEF LeftOpen
<1>5. QED BY <1>3, <1>4 DEF LeftOpen, more

(* and a symbol that both read leaves them agreeing. An unknown name may be one symbol long and
   still no token: then the brace before it did not open one, and the closing brace adds to
   neither side. *)
LEMMA AgreeNext ==
    ASSUME NEW s \in Text, NEW i \in Nat, NEW j \in 1 .. Len(s), j = i + 1,
           NEW p \in ParseState, NEW c \in CompileState, Agree(s, p, c, i),
           NEW q, q = ParseSymbol(p, s[j]), NEW d, d = CompileSymbol(s, c, j),
           p.ok, q.ok
    PROVE  Agree(s, q, d, j)
<1> DEFINE ch == s[j]
           tokens == Tokens(c.segments)
           known == KnownAmong(p.found)
<1>1. Len(s) \in Nat /\ ch \in DOMAIN Bytes /\ <<ch>> \in Names
  <2>1. Len(s) \in Nat /\ ch \in DOMAIN Bytes
    BY TextTyped
  <2>2. QED BY <2>1, Singleton DEF Names
<1>2. /\ ch = Opening => ~p.open /\ q.open /\ q.name = <<>> /\ q.found = p.found
      /\ ch = Closing => /\ p.open /\ p.name # <<>> /\ ~q.open
                         /\ q.found = Append(p.found, p.name)
      /\ ch # Opening /\ ch # Closing =>
            /\ q.open = p.open /\ q.found = p.found
            /\ p.open => q.name = Append(p.name, ch)
  <2>1. Parsed(p, ch, q)
    BY <1>1, ParseSymbolIs
  <2>2. QED BY <2>1 DEF Parsed
<1>11. Compiled(s, j, c, d)
  BY CompileSymbolIs
<1>3. /\ p.name \in Names /\ p.found \in Seq(Names) /\ c.skip \in Nat
      /\ c.segments \in Seq(Seq(Names)) /\ Len(c.segments) # 0
  BY DEF ParseState, CompileState
<1>4. KnownAmong(Append(p.found, p.name)) = known \o KnownOf(p.name)
  BY <1>3, KnownFound
<1>5. known \in Names /\ known \o <<>> = known
  BY <1>3, KnownAmongTyped, ConcatEmptySeq DEF Names
<1>6. c.skip \in 0 .. 2
  BY DEF Agree
<1>7. CASE c.skip = 2
  <2>1. /\ p.open /\ p.name = <<>> /\ j + 1 <= Len(s) /\ ch \in Known /\ s[j + 1] = Closing
        /\ tokens = known \o <<ch>>
    <3>1. i + 1 = j /\ i + 2 = j + 1
      OBVIOUS
    <3>2. QED BY <1>7, <3>1 DEF Agree
  <2>2. ch # Opening /\ ch # Closing
    BY <2>1, MarksApart
  <2>3. q.open /\ q.found = p.found /\ q.name = Append(<<>>, ch)
    BY <1>2, <2>1, <2>2
  <2>4. d.skip = 1 /\ d.segments = c.segments
    BY <1>3, <1>7, <1>11 DEF Compiled
  <2>5. Append(<<>>, ch) = <<ch>>
    OBVIOUS
  <2> HIDE DEF ch
  <2>6. QED BY <2>1, <2>3, <2>4, <2>5 DEF Agree, ch
<1>8. CASE c.skip = 1
  <2>1. p.open /\ p.name = <<s[i]>> /\ s[i] \in Known /\ ch = Closing /\ tokens = known \o <<s[i]>>
    BY <1>8 DEF Agree
  <2>2. ~q.open /\ q.found = Append(p.found, p.name)
    BY <1>2, <2>1
  <2>3. d.skip = 0 /\ d.segments = c.segments
    BY <1>3, <1>8, <1>11 DEF Compiled
  <2>4. KnownOf(p.name) = <<s[i]>>
    <3>1. Len(p.name) = 1 /\ p.name[1] = s[i]
      BY <2>1
    <3>2. QED BY <2>1, <3>1 DEF KnownOf
  <2>5. Tokens(d.segments) = KnownAmong(q.found)
    <3>1. KnownAmong(q.found) = known \o <<s[i]>> /\ Tokens(d.segments) = tokens
      BY <1>4, <2>2, <2>3, <2>4
    <3>2. QED BY <2>1, <3>1
  <2>6. QED BY <2>2, <2>3, <2>5 DEF Agree
<1>9. CASE c.skip = 0
  <2>1. tokens = known /\ (p.open => LeftOpen(s, p.name, i))
    BY <1>9 DEF Agree
  <2>2. CASE OpensToken(s, j)
    <3>1. ch = Opening /\ j + 2 <= Len(s) /\ s[j + 1] \in Known /\ s[j + 2] = Closing
      BY <2>2, OpensIs
    <3>2. q.open /\ q.name = <<>> /\ q.found = p.found
      BY <1>2, <3>1
    <3> DEFINE part == SubSeq(s, j, j + 2)
    <3>3. part \in Names /\ Len(part) = 3 /\ part[2] = s[j + 1]
      BY <2>2, TokenPart
    <3> HIDE DEF part
    <3>4. d.skip = 2 /\ Tokens(d.segments) = tokens \o TokenOf(part)
      <4>1. ch # Slash
        BY <3>1, MarksApart
      <4>2. d.skip = 2
        BY <1>9, <1>11, <2>2, <4>1 DEF Compiled
      <4>3. d.segments = WithPart(c.segments, part)
        BY <1>9, <1>11, <2>2, <4>1 DEF Compiled, part
      <4>4. QED BY <1>3, <3>3, <4>2, <4>3, TokensPut
    <3>5. TokenOf(part) = <<s[j + 1]>>
      BY <3>3 DEF TokenOf
    <3>6. QED BY <2>1, <3>1, <3>2, <3>4, <3>5 DEF Agree
  <2>3. CASE ~OpensToken(s, j)
    <3>1. d.skip = 0 /\ Tokens(d.segments) = tokens
      <4>1. CASE ch = Slash
        <5>1. d.skip = 0 /\ d.segments = Append(c.segments, <<>>)
          BY <1>9, <1>11, <4>1 DEF Compiled
        <5>2. QED BY <1>3, <5>1, TokensSplit
      <4>2. CASE ch # Slash
        <5>1. d.skip = 0
          BY <1>9, <1>11, <2>3, <4>2 DEF Compiled
        <5>2. d.segments = WithPart(c.segments, <<ch>>)
          BY <1>9, <1>11, <2>3, <4>2 DEF Compiled
        <5>3. TokenOf(<<ch>>) = <<>>
          BY DEF TokenOf
        <5>4. Tokens(d.segments) = tokens \o <<>>
          BY <1>1, <1>3, <5>2, <5>3, TokensPut
        <5>5. QED BY <1>5, <2>1, <5>1, <5>4
      <4>3. QED BY <4>1, <4>2
    <3>2. CASE ch = Opening
      <4>1. q.open /\ q.name = <<>> /\ q.found = p.found
        BY <1>2, <3>2
      <4>2. LeftOpen(s, <<>>, j)
        <5>1. Len(<<>>) = 0 /\ j - 0 = j /\ j \in 1 .. j
          OBVIOUS
        <5>2. QED BY <2>3, <3>2, <5>1 DEF LeftOpen
      <4>3. QED BY <2>1, <3>1, <4>1, <4>2 DEF Agree
    <3>3. CASE ch = Closing
      <4>1. p.open /\ ~q.open /\ q.found = Append(p.found, p.name)
        BY <1>2, <3>3
      <4>2. KnownOf(p.name) = <<>>
        <5>1. SUFFICES ASSUME Len(p.name) = 1, p.name[1] \in Known PROVE FALSE
          BY DEF KnownOf
        <5>2. i - 1 \in 1 .. i /\ s[i - 1] = Opening /\ ~OpensToken(s, i - 1) /\ s[i] \in Known
          BY <2>1, <4>1, <5>1 DEF LeftOpen
        <5>3. (i - 1) + 1 = i /\ (i - 1) + 2 = j /\ j <= Len(s)
          BY <1>1
        <5>4. OpensToken(s, i - 1)
          BY <3>3, <5>2, <5>3, OpensIs
        <5>5. QED BY <5>2, <5>4
      <4>3. KnownAmong(q.found) = known
        BY <1>4, <1>5, <4>1, <4>2
      <4>4. QED BY <2>1, <3>1, <4>1, <4>3 DEF Agree
    <3>4. CASE ch # Opening /\ ch # Closing
      <4>1. q.open = p.open /\ q.found = p.found /\ (p.open => q.name = Append(p.name, ch))
        BY <1>2, <3>4
      <4>2. q.open => LeftOpen(s, q.name, j)
        BY <1>3, <2>1, <4>1, LeftOpenGrows
      <4>3. QED BY <2>1, <3>1, <4>1, <4>2 DEF Agree
    <3>5. QED BY <3>2, <3>3, <3>4
  <2>4. QED BY <2>2, <2>3
<1>10. QED BY <1>6, <1>7, <1>8, <1>9

(* A template that is accepted to the end was at every symbol before. *)
LEMMA StaysOK ==
    ASSUME NEW s \in Text, NEW P, ParseRuns(P, s), P[Len(s)].ok
    PROVE  \A k \in 0 .. Len(s) : P[k].ok
<1> DEFINE n == Len(s)
           T == {m \in Nat : m \in 0 .. n => P[n - m].ok}
<1>1. n \in Nat /\ \A i \in 1 .. n : s[i] \in DOMAIN Bytes
  BY TextTyped
<1>2. \A k \in 1 .. n : ~P[k - 1].ok => ~P[k].ok
  <2>1. SUFFICES ASSUME NEW k \in 1 .. n, ~P[k - 1].ok PROVE ~P[k].ok
    OBVIOUS
  <2>2. P[k - 1] \in ParseState /\ P[k] = ParseSymbol(P[k - 1], s[k]) /\ s[k] \in DOMAIN Bytes
    <3>1. k - 1 \in 0 .. n
      BY <1>1
    <3>2. QED BY <1>1, <3>1 DEF ParseRuns
  <2>3. Parsed(P[k - 1], s[k], P[k])
    BY <2>2, ParseSymbolIs
  <2>4. QED BY <2>1, <2>3 DEF Parsed
<1>3. P[n].ok
  OBVIOUS
<1> HIDE DEF n
<1>4. 0 \in T
  BY <1>1, <1>3
<1>5. ASSUME NEW m \in Nat, m \in T, NEW j \in Nat, j = m + 1 PROVE j \in T
  <2>1. SUFFICES ASSUME j \in 0 .. n PROVE P[n - j].ok
    OBVIOUS
  <2>2. m \in 0 .. n /\ n - m \in 1 .. n /\ (n - m) - 1 = n - j
    BY <1>1, <1>5, <2>1
  <2>3. P[n - m].ok
    BY <1>5, <2>2
  <2>4. QED BY <1>2, <2>2, <2>3
<1> HIDE DEF T
<1>6. \A m \in Nat : m \in T => m + 1 \in T
  BY <1>5
<1>7. Nat \subseteq T
  BY <1>4, <1>6, Inductive, Zenon
<1>8. ASSUME NEW k \in 0 .. n PROVE P[k].ok
  <2>1. n - k \in Nat /\ n - k \in 0 .. n /\ n - (n - k) = k
    BY <1>1
  <2>2. n - k \in T
    BY <1>7, <2>1
  <2>3. P[n - (n - k)].ok
    BY <2>1, <2>2 DEF T
  <2>4. QED BY <2>1, <2>3
<1>9. QED BY <1>8 DEF n

(* So the two readers agree after every symbol. *)
LEMMA AgreeThroughout ==
    ASSUME NEW s \in Text, NEW P, ParseRuns(P, s), NEW C, CompileRuns(C, s), P[Len(s)].ok
    PROVE  Agree(s, P[Len(s)], C[Len(s)], Len(s))
<1> DEFINE n == Len(s)
           T == {k \in Nat : k \in 0 .. n => Agree(s, P[k], C[k], k)}
<1>1. n \in Nat
  BY TextTyped
<1>2. \A k \in 0 .. n : P[k].ok
  BY StaysOK
<1>3. /\ P[0] = Outside /\ C[0] = Begun
      /\ \A k \in 0 .. n : P[k] \in ParseState /\ C[k] \in CompileState
      /\ \A k \in 1 .. n : P[k] = ParseSymbol(P[k - 1], s[k]) /\ C[k] = CompileSymbol(s, C[k - 1], k)
  BY DEF ParseRuns, CompileRuns
<1>4. 0 \in T
  BY <1>3, AgreeInit
<1>5. ASSUME NEW k \in Nat, k \in T, NEW j \in Nat, j = k + 1 PROVE j \in T
  <2>1. SUFFICES ASSUME j \in 0 .. n PROVE Agree(s, P[j], C[j], j)
    OBVIOUS
  <2>2. k \in 0 .. n /\ j \in 1 .. n /\ j - 1 = k
    <3> HIDE DEF n
    <3>1. QED BY <1>1, <1>5, <2>1
  <2>3. Agree(s, P[k], C[k], k) /\ P[k].ok /\ P[j].ok
    BY <1>2, <1>5, <2>1, <2>2
  <2>4. P[k] \in ParseState /\ C[k] \in CompileState
    BY <1>3, <2>2
  <2>5. P[j] = ParseSymbol(P[k], s[j]) /\ C[j] = CompileSymbol(s, C[k], j)
    BY <1>3, <2>2
  <2>6. QED BY <1>5, <2>2, <2>3, <2>4, <2>5, AgreeNext
<1> HIDE DEF T
<1>6. \A k \in Nat : k \in T => k + 1 \in T
  BY <1>5
<1>7. Nat \subseteq T
  BY <1>4, <1>6, Inductive, Zenon
<1>8. n \in T /\ n \in 0 .. n
  BY <1>1, <1>7
<1>9. QED BY <1>8 DEF T

(* Accepted: outside every brace at the end, and so past every token. *)
LEMMA AcceptedAgrees ==
    ASSUME NEW s \in Text, Accepted(s)
    PROVE  Tokens(Compile(s)) = KnownAmong(Parse(s).found)
<1>1. PICK P : ParseRuns(P, s)
  BY ParseFolds
<1>2. PICK C : CompileRuns(C, s)
  BY CompileFolds
<1>3. P[Len(s)] = Parse(s) /\ C[Len(s)].segments = Compile(s)
  BY <1>1, <1>2 DEF ParseRuns, CompileRuns
<1>4. Parse(s).ok /\ ~Parse(s).open
  BY DEF Accepted
<1>5. Agree(s, P[Len(s)], C[Len(s)], Len(s))
  BY <1>1, <1>2, <1>3, <1>4, AgreeThroughout
<1>6. C[Len(s)].skip = 0
  <2>1. C[Len(s)].skip \in {0, 1, 2}
    BY <1>5 DEF Agree
  <2>2. QED BY <1>3, <1>4, <1>5, <2>1 DEF Agree
<1>7. QED BY <1>3, <1>5, <1>6 DEF Agree

(* An answer of Render is the path of a track under an accepted template. *)
RenderIsAnswered ==
    question.fn = "render" =>
       /\ question.template \in Templates /\ question.meta \in Metas
       /\ answered => /\ Accepted(question.template)
                      /\ answer = Render(question.template, question.meta)

(* No question is answered at first. *)
LEMMA RenderInit == Init => RenderIsAnswered
<1> SUFFICES ASSUME Init, question.fn = "render" PROVE RenderIsAnswered
  BY DEF RenderIsAnswered
<1>1. question \in [fn : {"render"}, template : Templates, meta : Metas]
  BY DEF Init, Questions
<1>2. QED BY <1>1 DEF Init, RenderIsAnswered

(* Only CallRender answers one of Render, with a template that was accepted. *)
LEMMA RenderNext == RenderIsAnswered /\ [Next]_vars => RenderIsAnswered'
<1> SUFFICES ASSUME RenderIsAnswered, [Next]_vars PROVE RenderIsAnswered'
  OBVIOUS
<1>1. CASE UNCHANGED vars
  BY <1>1 DEF vars, RenderIsAnswered
<1>2. CASE CallRender
  BY <1>2 DEF CallRender, Answer, RenderIsAnswered
<1>3. CASE CallSanitize \/ CallNextStart \/ CallLoad \/ CallSegmentURLs
  BY <1>3 DEF CallSanitize, CallNextStart, CallLoad, CallSegmentURLs, Answer, RenderIsAnswered
<1>4. QED BY <1>1, <1>2, <1>3 DEF Next

(* What the check of a template accepts as its placeholders, Compile takes for them, in *)
(* every template the configuration can hold.                                            *)
THEOREM ReadingsAgree == Spec => []TemplatesAgree
<1>1. RenderIsAnswered => TemplatesAgree
  <2>1. SUFFICES ASSUME RenderIsAnswered, Asked("render")
                 PROVE  Tokens(Compile(question.template)) = KnownAmong(Parse(question.template).found)
    BY DEF TemplatesAgree
  <2>2. question.template \in Text /\ Accepted(question.template)
    BY <2>1, TextsAreEncoded DEF RenderIsAnswered, Asked, Text
  <2>3. QED BY <2>2, AcceptedAgrees
<1>2. QED BY <1>1, RenderInit, RenderNext, PTL DEF Spec

------------------------------------------------------------------------------
(* Templates: the paths of an album of several discs. *)

(* The names insertDiscDir and the check of a template go by. *)
Label == "Disc "
Number == "disc"
Ext == "ext"

(* A sequence over a set is one over every larger set. *)
LEMMA SeqMono ==
    ASSUME NEW S, NEW T, S \subseteq T, NEW s \in Seq(S)
    PROVE  s \in Seq(T)
<1>1. Len(s) \in Nat /\ DOMAIN s = 1 .. Len(s) /\ s \in [1 .. Len(s) -> T]
  BY LenProperties, ElementOfSeq
<1>2. QED BY <1>1, IsASeq

(* A text that is plain, Sanitize leaves as it is. *)
LEMMA PlainIsKept ==
    ASSUME NEW d \in Seq(DOMAIN Bytes \ (Illegal \cup Trimmed)), Len(d) # 0,
           d \notin Reserved, Size(d) <= MaxBytes
    PROVE  Sanitize(d) = d
<1> DEFINE n == Len(d)
<1>1. n \in Nat \ {0} /\ n \in 1 .. n /\ n \in 0 .. n
      /\ \A i \in 1 .. n : d[i] \in DOMAIN Bytes /\ d[i] \notin Illegal /\ d[i] \notin Trimmed
  BY LenProperties, ElementOfSeq
<1>2. d \in Text /\ DOMAIN d = 1 .. n
  BY <1>1, IsASeq, LenProperties DEF Text
<1>3. SubSeq(d, 1, n) = d
  BY <1>2, SubSeqFull DEF Text
<1>4. SanitizeRunes(d) = d
  <2>1. SanitizeRunes(d) = [i \in 1 .. n |-> IF d[i] \in Illegal THEN Underscore ELSE d[i]]
    BY <1>2, Zenon DEF SanitizeRunes, Underscore
  <2>2. SanitizeRunes(d) \in Text /\ Len(SanitizeRunes(d)) = n
    BY <1>2, SanitizeRunesIs
  <2>3. \A i \in 1 .. n : SanitizeRunes(d)[i] = d[i]
    BY <1>1, <2>1
  <2>4. QED BY <1>2, <2>2, <2>3, SeqEqual DEF Text
<1>5. TrimRight(d) = d
  <2>1. PICK k \in 0 .. n : TrimRight(d) = SubSeq(d, 1, k) /\ \A i \in k + 1 .. n : d[i] \in Trimmed
    BY <1>2, TrimRightIs
  <2>2. k = n
    <3> HIDE DEF n
    <3>1. k # n => n \in k + 1 .. n
      BY <1>1, <2>1
    <3>2. QED BY <1>1, <2>1, <3>1
  <2>3. QED BY <1>3, <2>1, <2>2
<1>6. StemOf(d) = d
  <2>1. PICK k \in 0 .. n : StemOf(d) = SubSeq(d, 1, k) /\ (k < n => d[k + 1] = ".")
    BY <1>2, StemIs
  <2>2. "." \in Trimmed
    BY DEF Trimmed
  <2>3. k = n
    <3> HIDE DEF n
    <3>1. k # n => k < n /\ k + 1 \in 1 .. n
      BY <1>1
    <3>2. QED BY <1>1, <2>1, <2>2, <3>1
  <2>4. QED BY <1>3, <2>1, <2>3
<1>7. SuffixIfReserved(d) = d
  BY <1>6, Zenon DEF SuffixIfReserved
<1>8. Truncate(d) = d
  <2>1. PICK k \in 0 .. n :
             /\ Truncate(d) = SubSeq(d, 1, k)
             /\ \A j \in 0 .. n : Size(SubSeq(d, 1, j)) <= MaxBytes => j <= k
    BY <1>2, TruncateIs
  <2>2. n <= k
    BY <1>1, <1>3, <2>1
  <2>3. k = n
    <3> HIDE DEF n
    <3>1. QED BY <1>1, <2>2
  <2>4. QED BY <1>3, <2>1, <2>3
<1>9. d # <<>>
  BY <1>1, EmptySeq
<1>10. QED BY <1>4, <1>5, <1>7, <1>8, <1>9, Zenon DEF Sanitize

(* A disc's directory, before it is sanitized. *)
DirOf(m) == <<Label>> \o m.value[Number]

(* So Sanitize leaves a disc's directory as it is, *)
LEMMA DirIsKept ==
    ASSUME NEW m \in Metas
    PROVE  Sanitize(DirOf(m)) = DirOf(m)
<1>1. /\ DirOf(m) \in Seq(DOMAIN Bytes \ (Illegal \cup Trimmed))
      /\ DirOf(m) \notin Reserved /\ Size(DirOf(m)) <= MaxBytes
  BY MetadataIsPlain, Zenon DEF DirOf, Label, Number, Trimmed
<1>2. m.value[Number] \in Text
  BY NamingAssumption, TextsAreEncoded, Zenon DEF Number, Text
<1>3. Len(DirOf(m)) # 0
  <2> DEFINE S == DOMAIN Bytes \cup {Label}
             v == m.value[Number]
  <2>1. v \in Seq(S) /\ Len(v) \in Nat
    BY <1>2, TextTyped, IsASeq, SeqMono DEF Text
  <2>2. <<Label>> \in Seq(S) /\ Len(<<Label>>) = 1
    BY Label \in S, Singleton
  <2> HIDE DEF S, v
  <2>3. Len(<<Label>> \o v) = 1 + Len(v)
    BY <2>1, <2>2, ConcatProperties
  <2>4. QED BY <2>1, <2>3 DEF DirOf, v
<1>4. QED BY <1>1, <1>3, PlainIsKept

(* and two discs never share one. *)
LEMMA DirsDiffer ==
    ASSUME NEW m \in Metas, NEW q \in Metas, DirOf(m) = DirOf(q)
    PROVE  m.value[Number] = q.value[Number]
<1> DEFINE S == DOMAIN Bytes \cup {Label}
           v == m.value[Number]
           w == q.value[Number]
<1>1. v \in Text /\ w \in Text
  BY NamingAssumption, TextsAreEncoded, Zenon DEF Number, Text
<1>2. v \in Seq(S) /\ w \in Seq(S)
  BY <1>1, SeqMono DEF Text
<1>3. <<Label>> \in Seq(S)
  BY Label \in S, Singleton
<1>4. <<Label>> \o v = <<Label>> \o w
  BY DEF DirOf
<1> HIDE DEF S, v, w
<1>5. v = w
  BY <1>2, <1>3, <1>4, ConcatSimplifications
<1>6. QED BY <1>5 DEF v, w

(* Every part is a literal or a token with a known name. *)
IsPart(part) == part \in Names /\ (Len(part) = 1 \/ (Len(part) = 3 /\ part[2] \in Known))
WellMade(ss) == \A k \in 1 .. Len(ss) : \A i \in 1 .. Len(ss[k]) : IsPart(ss[k][i])

(* Putting a part that is one of them leaves it so, *)
LEMMA WellPut ==
    ASSUME NEW ss \in Seq(Seq(Names)), Len(ss) # 0, NEW part \in Names, WellMade(ss), IsPart(part)
    PROVE  WellMade(WithPart(ss, part))
<1> DEFINE n == Len(ss)
           more == WithPart(ss, part)
<1>1. n \in Nat \ {0} /\ n \in 1 .. n /\ ss[n] \in Seq(Names)
  BY LenProperties, ElementOfSeq
<1>2. Len(more) = n /\ more[n] = Append(ss[n], part) /\ \A k \in 1 .. n - 1 : more[k] = ss[k]
  BY PutIs DEF PutInto
<1> HIDE DEF more
<1>3. \A k \in 1 .. n : \A i \in 1 .. Len(ss[k]) : IsPart(ss[k][i])
  BY DEF WellMade
<1> HIDE DEF n
<1>4. ASSUME NEW k \in 1 .. n, NEW i \in 1 .. Len(more[k]) PROVE IsPart(more[k][i])
  <2>1. CASE k = n
    <3>1. /\ Len(ss[n]) \in Nat /\ Len(more[n]) = Len(ss[n]) + 1
          /\ more[n][Len(ss[n]) + 1] = part
          /\ \A j \in 1 .. Len(ss[n]) : more[n][j] = ss[n][j]
      BY <1>1, <1>2, AppendProperties, LenProperties
    <3>2. i \in 1 .. Len(ss[n]) \/ i = Len(ss[n]) + 1
      BY <1>4, <2>1, <3>1
    <3>3. QED BY <1>1, <1>3, <2>1, <3>1, <3>2
  <2>2. CASE k # n
    <3>1. k \in 1 .. n - 1
      BY <1>1, <2>2
    <3>2. QED BY <1>2, <1>3, <1>4, <3>1
  <2>3. QED BY <2>1, <2>2
<1>5. QED BY <1>2, <1>4 DEF WellMade, more

(* and so does a new segment. *)
LEMMA WellSplit ==
    ASSUME NEW ss \in Seq(Seq(Names)), WellMade(ss)
    PROVE  WellMade(Append(ss, <<>>))
<1> DEFINE n == Len(ss)
           more == Append(ss, <<>>)
<1>1. <<>> \in Seq(Names) /\ Len(<<>>) = 0
  BY EmptySeq
<1>2. /\ n \in Nat /\ Len(more) = n + 1 /\ more[n + 1] = <<>>
      /\ \A k \in 1 .. n : more[k] = ss[k]
  BY <1>1, AppendProperties, LenProperties
<1>3. \A k \in 1 .. n : \A i \in 1 .. Len(ss[k]) : IsPart(ss[k][i])
  BY DEF WellMade
<1> HIDE DEF n, more
<1>4. ASSUME NEW k \in 1 .. n + 1, NEW i \in 1 .. Len(more[k]) PROVE IsPart(more[k][i])
  <2>1. k \in 1 .. n \/ k = n + 1
    BY <1>2
  <2>2. k = n + 1 => i \in 1 .. 0
    BY <1>1, <1>2, <1>4
  <2>3. k \in 1 .. n
    BY <2>1, <2>2
  <2>4. QED BY <1>2, <1>3, <1>4, <2>3
<1>5. QED BY <1>2, <1>4 DEF WellMade, more

(* So Compile gives nothing else. *)
LEMMA CompileIsWellMade ==
    ASSUME NEW s \in Text
    PROVE  Compile(s) \in Seq(Seq(Names)) /\ WellMade(Compile(s))
<1> DEFINE n == Len(s)
<1>1. n \in Nat /\ \A i \in 1 .. n : s[i] \in DOMAIN Bytes
  BY TextTyped
<1>2. PICK C : CompileRuns(C, s)
  BY CompileFolds
<1>3. /\ \A k \in 0 .. n : C[k] \in CompileState
      /\ C[0] = Begun /\ Compile(s) = C[n].segments
      /\ \A k \in 1 .. n : C[k] = CompileSymbol(s, C[k - 1], k)
  BY <1>2 DEF CompileRuns
<1> DEFINE T == {k \in Nat : k \in 0 .. n => WellMade(C[k].segments)}
<1>4. 0 \in T
  <2>1. WellMade(<< <<>> >>)
    <3>1. Len(<< <<>> >>) = 1 /\ << <<>> >>[1] = <<>> /\ Len(<<>>) = 0
      OBVIOUS
    <3>2. \A k \in 1 .. 1 : k = 1
      OBVIOUS
    <3>3. 1 .. 0 = {}
      OBVIOUS
    <3>4. QED BY <3>1, <3>2, <3>3 DEF WellMade
  <2>2. QED BY <1>3, <2>1 DEF Begun
<1>5. ASSUME NEW k \in Nat, k \in T, NEW j \in Nat, j = k + 1 PROVE j \in T
  <2>1. SUFFICES ASSUME j \in 0 .. n PROVE WellMade(C[j].segments)
    OBVIOUS
  <2> HIDE DEF n
  <2>2. k \in 0 .. n /\ j \in 1 .. n /\ j - 1 = k
    BY <1>1, <1>5, <2>1
  <2> DEFINE c == C[k]
             d == C[j]
             ss == c.segments
  <2>3. c \in CompileState /\ d = CompileSymbol(s, c, j) /\ WellMade(ss)
    BY <1>3, <1>5, <2>2
  <2>4. j \in 1 .. Len(s)
    BY <2>2 DEF n
  <2> HIDE DEF c, d
  <2>5. Compiled(s, j, c, d)
    BY <2>3, <2>4, CompileSymbolIs
  <2>6. ss \in Seq(Seq(Names)) /\ Len(ss) # 0 /\ c.skip \in Nat
    BY <2>3 DEF CompileState
  <2> HIDE DEF ss
  <2>7. CASE c.skip > 0
    BY <2>3, <2>5, <2>7 DEF Compiled, ss, d
  <2>8. CASE c.skip = 0 /\ s[j] = Slash
    <3>1. d.segments = Append(ss, <<>>)
      BY <2>5, <2>8 DEF Compiled, ss
    <3>2. QED BY <2>3, <2>6, <3>1, WellSplit DEF d
  <2>9. CASE c.skip = 0 /\ s[j] # Slash /\ OpensToken(s, j)
    <3> DEFINE part == SubSeq(s, j, j + 2)
    <3>1. d.segments = WithPart(ss, part)
      BY <2>5, <2>9 DEF Compiled, ss
    <3>2. part \in Names /\ Len(part) = 3 /\ part[2] = s[j + 1] /\ s[j + 1] \in Known
      BY <2>4, <2>9, TokenPart, OpensIs
    <3> HIDE DEF part
    <3>3. IsPart(part)
      BY <3>2 DEF IsPart
    <3>4. QED BY <2>3, <2>6, <3>1, <3>2, <3>3, WellPut DEF d
  <2>10. CASE c.skip = 0 /\ s[j] # Slash /\ ~OpensToken(s, j)
    <3> DEFINE part == <<s[j]>>
    <3>1. d.segments = WithPart(ss, part)
      BY <2>5, <2>10 DEF Compiled, ss
    <3>2. part \in Names /\ Len(part) = 1
      BY <1>1, <2>2, Singleton DEF Names
    <3> HIDE DEF part
    <3>3. IsPart(part)
      BY <3>2 DEF IsPart
    <3>4. QED BY <2>3, <2>6, <3>1, <3>2, <3>3, WellPut DEF d
  <2>11. QED BY <2>6, <2>7, <2>8, <2>9, <2>10 DEF d
<1> HIDE DEF T
<1>6. \A k \in Nat : k \in T => k + 1 \in T
  BY <1>5
<1>7. Nat \subseteq T
  BY <1>4, <1>6, Inductive, Zenon
<1>8. n \in T /\ n \in 0 .. n
  BY <1>1, <1>7
<1>9. C[n] \in CompileState
  BY <1>3, <1>8
<1>10. QED BY <1>3, <1>8, <1>9 DEF T, CompileState

(* The token for the extension is in the segment. *)
HasExt(segment) == \E i \in 1 .. Len(segment) : Len(segment[i]) = 3 /\ segment[i][2] = Ext

(* The check requires the extension, so Compile has found it. *)
LEMMA ExtIsCompiled ==
    ASSUME NEW s \in Text, Accepted(s)
    PROVE  \E k \in 1 .. Len(Compile(s)) : HasExt(Compile(s)[k])
<1> DEFINE found == Parse(s).found
           ss == Compile(s)
<1>1. Ext \in Known /\ <<Ext>> \in ToSet(found)
  BY NamingAssumption, Zenon DEF Accepted, Ext
<1>2. found \in Seq(Names)
  <2>1. PICK P : ParseRuns(P, s)
    BY ParseFolds
  <2>2. Parse(s) \in ParseState
    BY <2>1, TextTyped DEF ParseRuns
  <2>3. QED BY <2>2 DEF ParseState
<1>3. ss \in Seq(Seq(Names)) /\ Tokens(ss) = KnownAmong(found)
  BY CompileIsWellMade, AcceptedAgrees
<1> HIDE DEF found, ss
<1>4. Ext \in ToSet(KnownAmong(found))
  <2> DEFINE tt == [i \in DOMAIN found |-> KnownOf(found[i])]
  <2>1. /\ tt \in Seq(Names) /\ Len(tt) = Len(found)
        /\ \A i \in 1 .. Len(found) : tt[i] = KnownOf(found[i])
    BY <1>2, KnownMapped
  <2>2. KnownAmong(found) = FlattenSeq(tt)
    BY DEF KnownAmong
  <2> HIDE DEF tt
  <2>3. PICK i \in 1 .. Len(found) : found[i] = <<Ext>>
    <3>1. DOMAIN found = 1 .. Len(found)
      BY <1>2, LenProperties
    <3>2. QED BY <1>1, <3>1 DEF ToSet
  <2>4. tt[i] = <<Ext>>
    <3>1. Len(<<Ext>>) = 1 /\ <<Ext>>[1] = Ext
      OBVIOUS
    <3>2. QED BY <1>1, <2>1, <2>3, <3>1 DEF KnownOf
  <2>5. Ext \in ToSet(<<Ext>>)
    BY DEF ToSet
  <2>6. \E j \in 1 .. Len(tt) : Ext \in ToSet(tt[j])
    BY <2>1, <2>4, <2>5
  <2>7. QED BY <2>1, <2>2, <2>6, FlattenMembers DEF Names
<1> DEFINE tt == [k \in DOMAIN ss |-> TokensIn(ss[k])]
<1>5. /\ tt \in Seq(Names) /\ Len(tt) = Len(ss)
      /\ \A k \in 1 .. Len(ss) : tt[k] = TokensIn(ss[k])
  BY <1>3, SegmentsMapped
<1>6. Tokens(ss) = FlattenSeq(tt)
  BY DEF Tokens
<1> HIDE DEF tt
<1>7. PICK k \in 1 .. Len(tt) : Ext \in ToSet(tt[k])
  BY <1>3, <1>4, <1>5, <1>6, FlattenMembers DEF Names
<1>8. k \in 1 .. Len(ss) /\ Ext \in ToSet(TokensIn(ss[k]))
  BY <1>5, <1>7
<1> DEFINE segment == ss[k]
<1>9. segment \in Seq(Names) /\ Ext \in ToSet(TokensIn(segment))
  BY <1>3, <1>8, ElementOfSeq
<1> HIDE DEF segment
<1>10. HasExt(segment)
  <2> DEFINE uu == [i \in DOMAIN segment |-> TokenOf(segment[i])]
  <2>1. /\ uu \in Seq(Names) /\ Len(uu) = Len(segment)
        /\ \A i \in 1 .. Len(segment) : uu[i] = TokenOf(segment[i])
    BY <1>9, SegmentMapped
  <2>2. TokensIn(segment) = FlattenSeq(uu)
    BY DEF TokensIn
  <2> HIDE DEF uu
  <2>3. PICK i \in 1 .. Len(uu) : Ext \in ToSet(uu[i])
    BY <1>9, <2>1, <2>2, FlattenMembers DEF Names
  <2>4. i \in 1 .. Len(segment) /\ Ext \in ToSet(TokenOf(segment[i]))
    BY <2>1, <2>3
  <2>5. Len(segment[i]) = 3 /\ Ext = segment[i][2]
    <3>1. ToSet(<<>>) = {}
      BY DEF ToSet
    <3>2. Len(segment[i]) = 3
      BY <2>4, <3>1 DEF TokenOf
    <3>3. Ext \in ToSet(<<segment[i][2]>>)
      BY <2>4, <3>2 DEF TokenOf
    <3>4. QED BY <3>2, <3>3 DEF ToSet
  <2>6. QED BY <2>4, <2>5 DEF HasExt
<1>11. QED BY <1>8, <1>10 DEF segment, ss

(* What holds from a position on holds at the end. *)
LEMMA Onwards ==
    ASSUME NEW n \in Nat, NEW i \in 0 .. n, NEW B, i \in B,
           \A k \in i + 1 .. n : k - 1 \in B => k \in B
    PROVE  n \in B
<1> DEFINE T == {k \in Nat : k \in i .. n => k \in B}
<1>1. 0 \in T
  <2>1. 0 \in i .. n => i = 0
    OBVIOUS
  <2>2. QED BY <2>1
<1>2. ASSUME NEW k \in Nat, k \in T, NEW j \in Nat, j = k + 1 PROVE j \in T
  <2>1. SUFFICES ASSUME j \in i .. n PROVE j \in B
    OBVIOUS
  <2>2. CASE j = i
    BY <2>2
  <2>3. CASE j # i
    <3>1. k \in i .. n /\ j \in i + 1 .. n /\ j - 1 = k
      BY <1>2, <2>1, <2>3
    <3>2. QED BY <1>2, <3>1
  <2>4. QED BY <2>2, <2>3
<1> HIDE DEF T
<1>3. \A k \in Nat : k \in T => k + 1 \in T
  BY <1>2
<1>4. Nat \subseteq T
  BY <1>1, <1>3, Inductive, Zenon
<1>5. n \in T /\ n \in i .. n
  BY <1>4
<1>6. QED BY <1>5 DEF T

(* Literals and values are texts. *)
LEMMA ValueTyped ==
    ASSUME NEW part, IsPart(part), NEW m \in Metas
    PROVE  ValueOf(part, m) \in Text
<1>1. CASE Len(part) = 1
  BY <1>1 DEF ValueOf, IsPart, Names, Text
<1>2. CASE Len(part) # 1
  <2>1. part[2] \in Known
    BY <1>2 DEF IsPart
  <2>2. m.value[part[2]] \in Seq(DOMAIN Bytes)
    BY <2>1, TextsAreEncoded, Zenon
  <2>3. QED BY <1>2, <2>2 DEF ValueOf, Text
<1>3. QED BY <1>1, <1>2

(* expand, part by part. *)
ExpandRuns(E, segment, m) ==
    /\ E \in [0 .. Len(segment) -> Text]
    /\ E[0] = <<>> /\ Expand(segment, m) = E[Len(segment)]
    /\ \A k \in 1 .. Len(segment) : E[k] = E[k - 1] \o ValueOf(segment[k], m)

(* Expand is such a run. *)
LEMMA ExpandFolds ==
    ASSUME NEW segment \in Seq(Names), \A i \in 1 .. Len(segment) : IsPart(segment[i]),
           NEW m \in Metas
    PROVE  \E E : ExpandRuns(E, segment, m)
<1> DEFINE n == Len(segment)
           F == [p \in Text \X (1 .. n) |-> p[1] \o ValueOf(segment[p[2]], m)]
           Step(g, x) == IF x = {} THEN <<>> ELSE g[x \ {Max(x)}] \o ValueOf(segment[Max(x)], m)
           f == CHOOSE g : g = [x \in SUBSET (1 .. n) |-> Step(g, x)]
<1>1. n \in Nat /\ DOMAIN segment = 1 .. n
  BY LenProperties
<1>2. Expand(segment, m) = f[1 .. n]
  BY <1>1 DEF Expand, FoldLeft, MapThenFoldSet
<1>7. \A i \in 1 .. n : ValueOf(segment[i], m) \in Text
  BY ValueTyped
<1> HIDE DEF n
<1>0. \A v \in Text, k \in 1 .. n : F[<<v, k>>] = v \o ValueOf(segment[k], m)
  OBVIOUS
<1>6. F \in [Text \X (1 .. n) -> Text] /\ <<>> \in Text
  <2>1. ASSUME NEW v \in Text, NEW k \in 1 .. n PROVE v \o ValueOf(segment[k], m) \in Text
    <3> DEFINE w == ValueOf(segment[k], m)
    <3>1. w \in Text
      BY <1>7
    <3> HIDE DEF w
    <3>2. v \o w \in Text
      BY <3>1, ConcatProperties DEF Text
    <3>3. QED BY <3>2 DEF w
  <2>2. QED BY <2>1, EmptySeq DEF Text
<1> HIDE DEF F
<1>3. \E g : g = [x \in SUBSET (1 .. n) |-> Step(g, x)]
  <2>2. PICK g : IsFold(g, n, Text, <<>>, F)
    BY <1>1, <1>6, FoldExists
  <2>3. ASSUME NEW x \in SUBSET (1 .. n) PROVE g[x] = Step(g, x)
    <3>1. CASE x = {}
      BY <2>2, <3>1 DEF IsFold
    <3>2. CASE x # {}
      <4>1. Max(x) \in 1 .. n
        BY <1>1, <3>2, MaxOf, 1 .. n \subseteq 0 .. n
      <4>2. g[x \ {Max(x)}] \in Text
        BY <2>2 DEF IsFold
      <4>3. F[<<g[x \ {Max(x)}], Max(x)>>] = g[x \ {Max(x)}] \o ValueOf(segment[Max(x)], m)
        BY <1>0, <4>1, <4>2
      <4>4. QED BY <2>2, <3>2, <4>3 DEF IsFold
    <3>3. QED BY <3>1, <3>2
  <2> HIDE DEF Step
  <2>4. QED BY <2>2, <2>3 DEF IsFold
<1>4. f = [x \in SUBSET (1 .. n) |-> Step(f, x)]
  <2> HIDE DEF Step
  <2>1. QED BY <1>3
<1> HIDE DEF f
<1>5. Unrolls(f, n, Text, <<>>, F)
  <2>1. f[{}] = <<>>
    BY <1>4
  <2>2. ASSUME NEW x \in SUBSET (1 .. n), x # {}, f[x \ {Max(x)}] \in Text
        PROVE  f[x] = F[<<f[x \ {Max(x)}], Max(x)>>]
    <3>1. Max(x) \in 1 .. n
      BY <1>1, <2>2, MaxOf, 1 .. n \subseteq 0 .. n
    <3>2. f[x] = f[x \ {Max(x)}] \o ValueOf(segment[Max(x)], m)
      BY <1>4, <2>2
    <3>3. QED BY <1>0, <2>2, <3>1, <3>2
  <2>3. QED BY <2>1, <2>2 DEF Unrolls
<1>8. PICK G \in [0 .. n -> Text] :
           /\ G[0] = <<>> /\ f[1 .. n] = G[n]
           /\ \A k \in 1 .. n : G[k] = F[<<G[k - 1], k>>]
  <2>1. Steps(f, n, Text, <<>>, F)
    BY <1>1, <1>5, <1>6, FoldSteps
  <2>2. QED BY <2>1 DEF Steps
<1>9. \A k \in 1 .. n : k - 1 \in 0 .. n /\ G[k - 1] \in Text
  BY <1>1
<1>10. \A k \in 1 .. n : G[k] = G[k - 1] \o ValueOf(segment[k], m)
  BY <1>0, <1>8, <1>9
<1>11. QED BY <1>2, <1>8, <1>10 DEF n, ExpandRuns

(* Expand gives a text, and no empty one of a segment with the extension's token. *)
LEMMA ExpandIs ==
    ASSUME NEW segment \in Seq(Names), \A i \in 1 .. Len(segment) : IsPart(segment[i]),
           NEW m \in Metas
    PROVE  /\ Expand(segment, m) \in Text
           /\ HasExt(segment) => Expand(segment, m) # <<>>
<1> DEFINE n == Len(segment)
<1>1. n \in Nat /\ n \in 0 .. n
  BY LenProperties
<1>2. PICK E : ExpandRuns(E, segment, m)
  BY ExpandFolds
<1>3. /\ \A k \in 0 .. n : E[k] \in Text
      /\ Expand(segment, m) = E[n]
      /\ \A k \in 1 .. n : E[k] = E[k - 1] \o ValueOf(segment[k], m)
  BY <1>2 DEF ExpandRuns
<1>4. \A k \in 1 .. n : ValueOf(segment[k], m) \in Text
  BY ValueTyped
<1>5. ASSUME HasExt(segment) PROVE E[n] # <<>>
  <2>1. PICK i \in 1 .. n : Len(segment[i]) = 3 /\ segment[i][2] = Ext
    BY <1>5 DEF HasExt
  <2>2. ValueOf(segment[i], m) # <<>>
    <3>1. m.value[Ext] # <<>>
      BY MetadataIsPlain, Zenon DEF Ext
    <3>2. QED BY <2>1, <3>1 DEF ValueOf
  <2> HIDE DEF n
  <2> DEFINE B == {k \in 0 .. n : E[k] # <<>>}
  <2>3. \A k \in 1 .. n : k - 1 \in 0 .. n /\ k \in 0 .. n
    BY <1>1
  <2>4. \A k \in 1 .. n : E[k] = <<>> => E[k - 1] = <<>> /\ ValueOf(segment[k], m) = <<>>
    <3>1. SUFFICES ASSUME NEW k \in 1 .. n, E[k] = <<>>
                   PROVE  E[k - 1] = <<>> /\ ValueOf(segment[k], m) = <<>>
      OBVIOUS
    <3> DEFINE a == E[k - 1]
               b == ValueOf(segment[k], m)
    <3>2. a \in Text /\ b \in Text /\ a \o b = <<>>
      BY <1>3, <1>4, <2>3, <3>1
    <3> HIDE DEF a, b
    <3>3. a = <<>> /\ b = <<>>
      BY <3>2, ConcatEqualIffEmpty DEF Text
    <3>4. QED BY <3>3 DEF a, b
  <2>5. i \in B
    BY <2>1, <2>2, <2>3, <2>4
  <2>6. \A k \in i + 1 .. n : k - 1 \in B => k \in B
    <3>1. \A k \in i + 1 .. n : k \in 1 .. n
      BY <1>1, <2>1
    <3>2. QED BY <2>3, <2>4, <3>1
  <2> HIDE DEF B
  <2>7. n \in B
    BY <1>1, <2>1, <2>3, <2>5, <2>6, Onwards
  <2>8. QED BY <2>7 DEF B
<1>6. QED BY <1>1, <1>3, <1>5

(* What Render keeps of a template before the disc's directory goes in. *)
Component == {Sanitize(text) : text \in Text}
Paths == Seq(Component)
Components(template, m) ==
    FoldLeft(LAMBDA kept, segment : Kept(kept, Expand(segment, m)), <<>>, Compile(template))

(* A segment adds a component or, when it expands to nothing, none; it never takes one away. *)
LEMMA KeptIs ==
    ASSUME NEW path \in Paths, NEW text \in Text
    PROVE  /\ Kept(path, text) \in Paths
           /\ path # <<>> \/ text # <<>> => Kept(path, text) # <<>>
<1> DEFINE more == Append(path, Sanitize(text))
<1>1. Sanitize(text) \in Component
  BY DEF Component
<1>2. more \in Paths /\ Len(more) = Len(path) + 1 /\ Len(path) \in Nat
  BY <1>1, AppendProperties, LenProperties DEF Paths
<1>3. more # <<>>
  <2> HIDE DEF more
  <2>1. Len(<<>>) = 0
    OBVIOUS
  <2>2. QED BY <1>2, <2>1
<1>4. QED BY <1>2, <1>3, Zenon DEF Kept

(* Render, segment by segment. *)
RenderRuns(R, s, m) ==
    LET ss == Compile(s)
    IN /\ R \in [0 .. Len(ss) -> Paths]
       /\ R[0] = <<>> /\ Components(s, m) = R[Len(ss)]
       /\ \A k \in 1 .. Len(ss) : R[k] = Kept(R[k - 1], Expand(ss[k], m))

(* Render is such a run. *)
LEMMA RenderFolds ==
    ASSUME NEW s \in Text, NEW m \in Metas
    PROVE  \E R : RenderRuns(R, s, m)
<1> DEFINE ss == Compile(s)
           n == Len(ss)
           F == [p \in Paths \X (1 .. n) |-> Kept(p[1], Expand(ss[p[2]], m))]
           Step(g, x) == IF x = {} THEN <<>> ELSE Kept(g[x \ {Max(x)}], Expand(ss[Max(x)], m))
           f == CHOOSE g : g = [x \in SUBSET (1 .. n) |-> Step(g, x)]
<1>1. /\ n \in Nat /\ DOMAIN ss = 1 .. n
      /\ \A k \in 1 .. n : ss[k] \in Seq(Names) /\ \A i \in 1 .. Len(ss[k]) : IsPart(ss[k][i])
  <2>1. ss \in Seq(Seq(Names)) /\ WellMade(ss)
    BY CompileIsWellMade
  <2> HIDE DEF ss
  <2>2. n \in Nat /\ DOMAIN ss = 1 .. n /\ \A k \in 1 .. n : ss[k] \in Seq(Names)
    BY <2>1, LenProperties, ElementOfSeq
  <2>3. QED BY <2>1, <2>2 DEF WellMade
<1>2. Components(s, m) = f[1 .. n]
  BY <1>1 DEF Components, FoldLeft, MapThenFoldSet
<1>7. \A k \in 1 .. n : Expand(ss[k], m) \in Text
  BY <1>1, ExpandIs
<1> HIDE DEF n, ss
<1>0. \A v \in Paths, k \in 1 .. n : F[<<v, k>>] = Kept(v, Expand(ss[k], m))
  OBVIOUS
<1>6. F \in [Paths \X (1 .. n) -> Paths] /\ <<>> \in Paths
  <2>1. ASSUME NEW v \in Paths, NEW k \in 1 .. n PROVE Kept(v, Expand(ss[k], m)) \in Paths
    BY <1>7, KeptIs
  <2>2. QED BY <2>1, EmptySeq DEF Paths
<1> HIDE DEF F
<1>3. \E g : g = [x \in SUBSET (1 .. n) |-> Step(g, x)]
  <2>2. PICK g : IsFold(g, n, Paths, <<>>, F)
    BY <1>1, <1>6, FoldExists
  <2>3. ASSUME NEW x \in SUBSET (1 .. n) PROVE g[x] = Step(g, x)
    <3>1. CASE x = {}
      BY <2>2, <3>1 DEF IsFold
    <3>2. CASE x # {}
      <4>1. Max(x) \in 1 .. n
        BY <1>1, <3>2, MaxOf, 1 .. n \subseteq 0 .. n
      <4>2. g[x \ {Max(x)}] \in Paths
        BY <2>2 DEF IsFold
      <4>3. F[<<g[x \ {Max(x)}], Max(x)>>] = Kept(g[x \ {Max(x)}], Expand(ss[Max(x)], m))
        BY <1>0, <4>1, <4>2
      <4>4. QED BY <2>2, <3>2, <4>3 DEF IsFold
    <3>3. QED BY <3>1, <3>2
  <2> HIDE DEF Step
  <2>4. QED BY <2>2, <2>3 DEF IsFold
<1>4. f = [x \in SUBSET (1 .. n) |-> Step(f, x)]
  <2> HIDE DEF Step
  <2>1. QED BY <1>3
<1> HIDE DEF f
<1>5. Unrolls(f, n, Paths, <<>>, F)
  <2>1. f[{}] = <<>>
    BY <1>4
  <2>2. ASSUME NEW x \in SUBSET (1 .. n), x # {}, f[x \ {Max(x)}] \in Paths
        PROVE  f[x] = F[<<f[x \ {Max(x)}], Max(x)>>]
    <3>1. Max(x) \in 1 .. n
      BY <1>1, <2>2, MaxOf, 1 .. n \subseteq 0 .. n
    <3>2. f[x] = Kept(f[x \ {Max(x)}], Expand(ss[Max(x)], m))
      BY <1>4, <2>2
    <3>3. QED BY <1>0, <2>2, <3>1, <3>2
  <2>3. QED BY <2>1, <2>2 DEF Unrolls
<1>8. PICK G \in [0 .. n -> Paths] :
           /\ G[0] = <<>> /\ f[1 .. n] = G[n]
           /\ \A k \in 1 .. n : G[k] = F[<<G[k - 1], k>>]
  <2>1. Steps(f, n, Paths, <<>>, F)
    BY <1>1, <1>5, <1>6, FoldSteps
  <2>2. QED BY <2>1 DEF Steps
<1>9. \A k \in 1 .. n : k - 1 \in 0 .. n /\ G[k - 1] \in Paths
  BY <1>1
<1>10. \A k \in 1 .. n : G[k] = Kept(G[k - 1], Expand(ss[k], m))
  BY <1>0, <1>8, <1>9
<1>11. QED BY <1>2, <1>8, <1>10 DEF n, ss, RenderRuns

(* An accepted template leaves a track a path, whatever its title and album are. *)
LEMMA PathsAreLeft ==
    ASSUME NEW s \in Text, NEW m \in Metas, Accepted(s)
    PROVE  Components(s, m) \in Paths /\ Components(s, m) # <<>>
<1> DEFINE ss == Compile(s)
           n == Len(ss)
<1>1. PICK R : RenderRuns(R, s, m)
  BY RenderFolds
<1>2. PICK i \in 1 .. n : HasExt(ss[i])
  BY ExtIsCompiled
<1>3. /\ n \in Nat
      /\ \A k \in 1 .. n : ss[k] \in Seq(Names) /\ \A j \in 1 .. Len(ss[k]) : IsPart(ss[k][j])
  <2>1. ss \in Seq(Seq(Names)) /\ WellMade(ss)
    BY CompileIsWellMade
  <2> HIDE DEF ss
  <2>2. n \in Nat /\ \A k \in 1 .. n : ss[k] \in Seq(Names)
    BY <2>1, LenProperties, ElementOfSeq
  <2>3. QED BY <2>1, <2>2 DEF WellMade
<1>4. /\ \A k \in 1 .. n : Expand(ss[k], m) \in Text
      /\ Expand(ss[i], m) # <<>>
  BY <1>2, <1>3, ExpandIs
<1>5. /\ \A k \in 0 .. n : R[k] \in Paths
      /\ Components(s, m) = R[n]
      /\ \A k \in 1 .. n : R[k] = Kept(R[k - 1], Expand(ss[k], m))
  BY <1>1 DEF RenderRuns
<1> HIDE DEF n, ss
<1>6. \A k \in 1 .. n : k - 1 \in 0 .. n /\ k \in 0 .. n
  BY <1>3
<1>7. \A k \in 1 .. n : R[k - 1] # <<>> \/ Expand(ss[k], m) # <<>> => R[k] # <<>>
  <2>1. SUFFICES ASSUME NEW k \in 1 .. n, R[k - 1] # <<>> \/ Expand(ss[k], m) # <<>>
                 PROVE  R[k] # <<>>
    OBVIOUS
  <2>2. R[k - 1] \in Paths /\ Expand(ss[k], m) \in Text
    BY <1>4, <1>5, <1>6
  <2>3. QED BY <1>5, <2>1, <2>2, KeptIs
<1> DEFINE B == {k \in 0 .. n : R[k] # <<>>}
<1>8. i \in B
  BY <1>4, <1>6, <1>7
<1>9. \A k \in i + 1 .. n : k - 1 \in B => k \in B
  <2>1. \A k \in i + 1 .. n : k \in 1 .. n
    BY <1>3
  <2>2. QED BY <1>6, <1>7, <2>1
<1> HIDE DEF B
<1>10. n \in B
  BY <1>3, <1>6, <1>8, <1>9, Onwards
<1>11. QED BY <1>5, <1>10 DEF B

(* Where the disc's directory goes: before the file's name. *)
LEMMA InsertedBeforeLast ==
    ASSUME NEW path \in Paths, path # <<>>, NEW dir \in Component
    PROVE  LET more == InsertAt(path, Len(path), dir) IN
           Len(more) = Len(path) + 1 /\ more[Len(path)] = dir
<1> DEFINE n == Len(path)
           a == SubSeq(path, 1, n - 1)
           b == <<dir>>
           c == SubSeq(path, n, n)
<1>1. n \in Nat \ {0} /\ \A i \in 1 .. n : path[i] \in Component
  BY LenProperties, ElementOfSeq, EmptySeq DEF Paths
<1>2. a \in Paths /\ Len(a) = n - 1
  <2>1. n - 1 \in Int /\ 1 \in Int /\ \A i \in 1 .. n - 1 : path[i] \in Component
    BY <1>1
  <2>2. a \in Paths /\ Len(a) = IF 1 <= n - 1 THEN n - 1 - 1 + 1 ELSE 0
    BY <2>1, SubSeqProperties DEF Paths
  <2> HIDE DEF n, a
  <2>3. QED BY <1>1, <2>2
<1>3. b \in Paths /\ Len(b) = 1 /\ b[1] = dir
  BY Singleton DEF Paths
<1>4. c \in Paths /\ Len(c) = 1
  <2>1. n \in Int /\ \A i \in n .. n : path[i] \in Component
    BY <1>1
  <2>2. c \in Paths /\ Len(c) = IF n <= n THEN n - n + 1 ELSE 0
    BY <2>1, SubSeqProperties DEF Paths
  <2>3. QED BY <1>1, <2>2
<1>5. InsertAt(path, n, dir) = (a \o b) \o c
  BY DEF InsertAt
<1> HIDE DEF n, a, b, c
<1>6. a \o b \in Paths /\ Len(a \o b) = n /\ (a \o b)[n] = dir
  <2>1. a \o b \in Paths /\ Len(a \o b) = Len(a) + Len(b)
    BY <1>2, <1>3, ConcatProperties DEF Paths
  <2>2. n \in 1 .. Len(a) + Len(b) /\ ~(n <= Len(a)) /\ n - Len(a) = 1
    BY <1>1, <1>2, <1>3
  <2>3. (a \o b)[n] = b[n - Len(a)]
    BY <1>2, <1>3, <2>2, ConcatProperties DEF Paths
  <2>4. QED BY <1>1, <1>2, <1>3, <2>1, <2>2, <2>3
<1> DEFINE ab == a \o b
<1>7. ab \in Paths /\ Len(ab) = n /\ ab[n] = dir
  BY <1>6
<1> HIDE DEF ab
<1>8. Len(ab \o c) = n + 1 /\ (ab \o c)[n] = dir
  <2>1. Len(ab \o c) = Len(ab) + Len(c)
    BY <1>4, <1>7, ConcatProperties DEF Paths
  <2>2. n \in 1 .. Len(ab) + Len(c) /\ n <= Len(ab)
    BY <1>1, <1>4, <1>7
  <2>3. (ab \o c)[n] = ab[n]
    BY <1>4, <1>7, <2>2, ConcatProperties DEF Paths
  <2>4. QED BY <1>4, <1>7, <2>1, <2>3
<1>9. QED BY <1>5, <1>8 DEF n, ab

(* The disc's directory is a component as any other. *)
LEMMA DirIsComponent ==
    ASSUME NEW m \in Metas
    PROVE  DirOf(m) \in Component
<1>1. DirOf(m) \in Seq(DOMAIN Bytes \ (Illegal \cup {".", " "}))
  BY MetadataIsPlain, Zenon DEF DirOf, Label, Number
<1>2. DirOf(m) \in Text
  BY <1>1, SeqMono DEF Text
<1>3. QED BY <1>2, DirIsKept DEF Component

(* Tracks of two discs never share a path. *)
LEMMA TwoDiscsApart ==
    ASSUME NEW s \in Text, Accepted(s), NEW m \in Metas, NEW q \in Metas,
           m.discs > 1, q.discs > 1, Render(s, m) = Render(s, q)
    PROVE  m.value[Number] = q.value[Number]
<1> DEFINE a == Components(s, m)
           b == Components(s, q)
           d == DirOf(m)
           e == DirOf(q)
<1>1. a \in Paths /\ a # <<>> /\ b \in Paths /\ b # <<>>
  BY PathsAreLeft
<1>2. d \in Component /\ e \in Component
  BY DirIsComponent
<1>3. Render(s, m) = InsertAt(a, Len(a), d) /\ Render(s, q) = InsertAt(b, Len(b), e)
  <2>1. Render(s, m) = IF a # <<>> /\ m.discs > 1 THEN InsertDiscDir(a, m.value[Number]) ELSE a
    BY Zenon DEF Render, Components, Number
  <2>2. Render(s, q) = IF b # <<>> /\ q.discs > 1 THEN InsertDiscDir(b, q.value[Number]) ELSE b
    BY Zenon DEF Render, Components, Number
  <2>3. InsertDiscDir(a, m.value[Number]) = InsertAt(a, Len(a), Sanitize(d))
    BY Zenon DEF InsertDiscDir, DirOf, Label
  <2>4. InsertDiscDir(b, q.value[Number]) = InsertAt(b, Len(b), Sanitize(e))
    BY Zenon DEF InsertDiscDir, DirOf, Label
  <2>5. Sanitize(d) = d /\ Sanitize(e) = e
    BY DirIsKept
  <2> HIDE DEF a, b, d, e
  <2>6. QED BY <1>1, <2>1, <2>2, <2>3, <2>4, <2>5
<1> HIDE DEF a, b, d, e
<1>4. /\ Len(InsertAt(a, Len(a), d)) = Len(a) + 1 /\ InsertAt(a, Len(a), d)[Len(a)] = d
      /\ Len(InsertAt(b, Len(b), e)) = Len(b) + 1 /\ InsertAt(b, Len(b), e)[Len(b)] = e
  BY <1>1, <1>2, InsertedBeforeLast
<1>5. InsertAt(a, Len(a), d) = InsertAt(b, Len(b), e)
  BY <1>3
<1>6. Len(a) = Len(b)
  <2>1. Len(a) \in Nat /\ Len(b) \in Nat /\ Len(a) + 1 = Len(b) + 1
    BY <1>1, <1>4, <1>5, LenProperties DEF Paths
  <2>2. QED BY <2>1
<1>7. d = e
  BY <1>4, <1>5, <1>6
<1>8. QED BY <1>7, DirsDiffer DEF d, e

(* On an album of several discs a track's path tells its disc, under every template the *)
(* configuration accepts.                                                                *)
THEOREM DiscsAreApart == Spec => []DiscsStayApart
<1>1. RenderIsAnswered => DiscsStayApart
  <2>1. SUFFICES ASSUME RenderIsAnswered, Asked("render"), NEW m \in Metas,
                        m.discs > 1, m.discs = question.meta.discs,
                        m.value["disc"] # question.meta.value["disc"],
                        Render(question.template, m) = answer
                 PROVE  FALSE
    BY Zenon DEF DiscsStayApart
  <2>2. /\ question.template \in Text /\ Accepted(question.template)
        /\ question.meta \in Metas
        /\ Render(question.template, m) = Render(question.template, question.meta)
    BY <2>1, TextsAreEncoded DEF RenderIsAnswered, Asked, Text
  <2>3. question.meta.discs > 1
    BY <2>1, Zenon
  <2>4. m.value[Number] = question.meta.value[Number]
    BY <2>1, <2>2, <2>3, TwoDiscsApart
  <2>5. QED BY <2>1, <2>4, Zenon DEF Number
<1>2. QED BY <1>1, RenderInit, RenderNext, PTL DEF Spec

------------------------------------------------------------------------------
(* Settings, and the daemon's clock. *)

USE SettingsAssumption


(* The derived defaults leave a configuration a configuration. *)
LEMMA DerivedTyped == \A c \in Config : Derived(c) \in Config
BY DEF Derived, Config, DurationRange, Unset

(* A draw of Random never leaves a valid range.                                    *)
LEMMA RandomInRange ==
    ASSUME NEW r \in DurationRange, NEW floor \in Int, ValidRange(r, floor), NEW d \in Random(r)
    PROVE  d >= 0 /\ d >= floor /\ d <= r.max
BY DEF DurationRange, ValidRange, Random

(* What Validate accepts after the derived defaults is fit for the daemon's loop:    *)
(* the polling range of an accepted configuration is set, by itself or by the       *)
(* legacy interval, so that runDaemon draws from the range that was checked.        *)
LEMMA AcceptedIsUsable ==
    ASSUME NEW w \in Config, Valid(Derived(w))
    PROVE  LET c == Derived(w) IN
           /\ \A d \in Waits(c) : d >= MinInterval
           /\ \A d \in Random(c.worker) : d >= 0 /\ d <= c.worker.max
           /\ c.mode = "time_window" => c.start # c.end
           /\ c.mode = "polling" => c.polling # Unset
<1> DEFINE c == Derived(w)
<1>1. c.polling = Unset => c.interval = 0
  <2>1. w \in Config /\ c.interval = w.interval
    BY DEF Derived, Config
  <2>2. CASE w.polling = Unset
    <3>1. c.polling = [min |-> w.interval, max |-> w.interval]
      BY <2>1, <2>2 DEF Derived, Config
    <3>2. c.polling.min = w.interval /\ Unset.min = 0
      BY <3>1 DEF Unset
    <3>3. QED BY <2>1, <3>2
  <2>3. CASE w.polling # Unset
    BY <2>1, <2>3 DEF Derived, Config
  <2>4. QED BY <2>2, <2>3
<1>2. c \in Config /\ Valid(c)
  BY DerivedTyped
<1> HIDE DEF c
<1>3. c.polling \in DurationRange /\ c.delay \in DurationRange /\ c.worker \in DurationRange
  BY <1>2 DEF Config
<1>4. \A d \in Random(c.worker) : d >= 0 /\ d <= c.worker.max
  BY <1>2, <1>3, RandomInRange DEF Valid
<1>5. c.mode = "time_window" => c.start # c.end /\ \A d \in Waits(c) : d >= MinInterval
  BY <1>2, <1>3, RandomInRange DEF Valid, ValidTimeWindow, Waits
<1>6. c.mode = "polling" => c.polling # Unset /\ \A d \in Waits(c) : d >= MinInterval
  <2>1. HAVE c.mode = "polling"
  <2>2. c.polling # Unset
    BY <1>1, <1>2, <2>1 DEF Valid, PollingRange, ValidRange
  <2>3. ValidRange(c.polling, MinInterval)
    BY <1>2, <2>1, <2>2 DEF Valid, PollingRange
  <2>4. \A d \in Waits(c) : d >= MinInterval
    BY <1>3, <2>1, <2>3, RandomInRange DEF Waits
  <2>5. QED BY <2>2, <2>4
<1>7. c.mode \in {"polling", "time_window"}
  BY <1>2 DEF Valid
<1>8. QED BY <1>4, <1>5, <1>6, <1>7 DEF c

(* An answer of Load is the derived form of a configuration the program accepts.     *)
LoadedIsAccepted ==
    /\ question.fn = "load" => question.config \in Config
    /\ Asked("load") => /\ answer = Derived(question.config)
                        /\ Valid(Derived(question.config))

(* Nothing is loaded at first. *)
LEMMA LoadedInit == Init => LoadedIsAccepted
<1>1. SUFFICES ASSUME Init PROVE LoadedIsAccepted
  OBVIOUS
<1>2. question.fn = "load" => question.config \in Config
  BY <1>1, CallsAssumption DEF Init, Questions
<1>3. QED BY <1>1, <1>2 DEF Init, LoadedIsAccepted, Asked

(* Only CallLoad answers a question of Load, and only when what it derives is valid. *)
LEMMA LoadedNext == LoadedIsAccepted /\ [Next]_vars => LoadedIsAccepted'
<1>1. SUFFICES ASSUME LoadedIsAccepted, [Next]_vars PROVE LoadedIsAccepted'
  OBVIOUS
<1>2. CASE UNCHANGED vars
  BY <1>1, <1>2 DEF vars, LoadedIsAccepted, Asked
<1>3. CASE CallLoad
  BY <1>1, <1>3 DEF CallLoad, Answer, LoadedIsAccepted, Asked
<1>4. CASE CallSanitize \/ CallRender \/ CallNextStart \/ CallSegmentURLs
  <2>1. question' = question /\ question.fn # "load"
    BY <1>4 DEF CallSanitize, CallRender, CallNextStart, CallSegmentURLs, Answer
  <2>2. QED BY <2>1 DEF LoadedIsAccepted, Asked
<1>5. QED BY <1>1, <1>2, <1>3, <1>4 DEF Next

(* No configuration Load accepts makes the daemon spin or a worker sleep backwards,   *)
(* whatever durations, ranges and modes the file holds.                              *)
THEOREM LoadedSettingsHold == Spec => []AcceptedSettingsHold
<1>1. LoadedIsAccepted => AcceptedSettingsHold
  BY AcceptedIsUsable DEF LoadedIsAccepted, AcceptedSettingsHold, Asked
<1>2. QED BY <1>1, LoadedInit, LoadedNext, PTL DEF Spec

(***************************************************************************)
(* nextTimeWindowStart, for a day and a minute of any length.  The solver  *)
(* knows division only by its two bounds.                                  *)
(***************************************************************************)
(* Of two multiples the greater lies a whole step further. *)
LEMMA TimesMonotone ==
    ASSUME NEW a \in Nat, NEW b \in Nat, NEW m \in Nat, a < b
    PROVE  a * m + m <= b * m
<1>1. PICK c \in Nat : b = a + 1 + c
  BY b - a - 1 \in Nat
<1>2. b * m = a * m + m + c * m
  BY <1>1
<1>3. c * m >= 0
  OBVIOUS
<1>4. QED BY <1>2, <1>3

(* The quotient is the number of whole steps that fit. *)
LEMMA Quotient ==
    ASSUME NEW m \in Nat \ {0}, NEW t \in Nat
    PROVE  t \div m \in Nat /\ (t \div m) * m <= t /\ t < (t \div m) * m + m
OBVIOUS

(* And it is the only such number. *)
LEMMA QuotientIs ==
    ASSUME NEW m \in Nat \ {0}, NEW t \in Nat, NEW q \in Nat, q * m <= t, t < q * m + m
    PROVE  t \div m = q
<1> DEFINE p == t \div m
<1>1. p \in Nat /\ p * m <= t /\ t < p * m + m
  BY Quotient
<1> HIDE DEF p
<1>2. ~(p < q) /\ ~(q < p)
  BY <1>1, TimesMonotone
<1>3. p = q
  BY <1>1, <1>2
<1>4. QED BY <1>3 DEF p

(* A number below the modulus is its own remainder, also one step away. *)
LEMMA ModSmall ==
    ASSUME NEW d \in Nat \ {0}, NEW q \in 0 .. d - 1
    PROVE  q % d = q /\ (q + d) % d = q /\ (q - d) % d = q
OBVIOUS

(* Instants of today have the minute they fall in, those of tomorrow the same ones again. *)
LEMMA TodayAndTomorrow ==
    ASSUME NEW t \in 0 .. Day * Minute - 1
    PROVE  /\ t \div Minute \in Clocks
           /\ MinuteOf(t) = t \div Minute
           /\ MinuteOf(t + Day * Minute) = t \div Minute
<1> DEFINE q == t \div Minute
<1>1. t \in Nat /\ Day * Minute \in Nat /\ t < Day * Minute
  OBVIOUS
<1>2. q \in Nat /\ q * Minute <= t /\ t < q * Minute + Minute
  BY <1>1, Quotient
<1> HIDE DEF q
<1>3. q < Day
  <2>1. ~(Day < q) /\ Day # q
    BY <1>1, <1>2, TimesMonotone
  <2>2. QED BY <1>2, <2>1
<1>4. (q + Day) * Minute = q * Minute + Day * Minute
  BY <1>2
<1>5. (t + Day * Minute) \div Minute = q + Day
  BY <1>1, <1>2, <1>4, QuotientIs
<1>6. q % Day = q /\ (q + Day) % Day = q
  BY <1>2, <1>3, ModSmall
<1>7. QED BY <1>2, <1>3, <1>5, <1>6 DEF q, MinuteOf, Clocks

(* Earlier instants have no later minutes. *)
LEMMA MinutesGrow ==
    ASSUME NEW t \in Nat, NEW u \in Nat, t <= u
    PROVE  t \div Minute <= u \div Minute
<1> DEFINE p == t \div Minute
           q == u \div Minute
<1>1. p \in Nat /\ p * Minute <= t /\ q \in Nat /\ u < q * Minute + Minute
  BY Quotient
<1> HIDE DEF p, q
<1>2. ~(q < p)
  BY <1>1, TimesMonotone
<1>3. QED BY <1>1, <1>2 DEF p, q

(* The first tick of a minute, and the ticks before it. *)
LEMMA MinuteBegins ==
    ASSUME NEW s \in Clocks
    PROVE  /\ s * Minute \in 0 .. Day * Minute - 1 /\ (s * Minute) \div Minute = s
           /\ \A t \in Nat : t < s * Minute => t \div Minute < s
           /\ \A t \in Nat : s * Minute <= t => s <= t \div Minute
<1>1. s \in Nat /\ s < Day /\ s * Minute \in Nat /\ Day * Minute \in Nat
  BY DEF Clocks
<1>2. s * Minute < Day * Minute
  BY <1>1, TimesMonotone
<1>3. (s * Minute) \div Minute = s
  BY <1>1, QuotientIs
<1>4. ASSUME NEW t \in Nat, t < s * Minute PROVE t \div Minute < s
  <2> DEFINE q == t \div Minute
  <2>1. q \in Nat /\ q * Minute <= t
    BY Quotient
  <2> HIDE DEF q
  <2>2. ~(s < q) /\ s # q
    BY <1>1, <1>4, <2>1, TimesMonotone
  <2>3. q < s
    BY <1>1, <2>1, <2>2
  <2>4. QED BY <2>3 DEF q
<1>5. ASSUME NEW t \in Nat, s * Minute <= t PROVE s <= t \div Minute
  BY <1>1, <1>3, <1>5, MinutesGrow
<1>6. QED BY <1>1, <1>2, <1>3, <1>4, <1>5

(* TimeWindow.Contains, of a minute of the day. *)
Inside(minute, start, end) ==
    IF start < end THEN minute >= start /\ minute < end ELSE minute >= start \/ minute < end

(* The daemon sleeps until the window's first instant that is still to come. *)
LEMMA FirstInstant ==
    ASSUME NEW now \in 0 .. Day * Minute - 1, NEW start \in Clocks, NEW end \in Clocks, start # end
    PROVE  LET at == NextStart(now, start, end) IN
           /\ at >= now /\ WindowContains(at, start, end)
           /\ \A t \in now .. at - 1 : ~WindowContains(t, start, end)
<1> DEFINE at == NextStart(now, start, end)
           d == Day * Minute
           s == start * Minute
<1>1. /\ now \in Nat /\ d \in Nat /\ now < d /\ s \in Nat
      /\ start \in Nat /\ end \in Nat /\ start < Day /\ end < Day
  BY DEF Clocks
<1>2. \A t \in 0 .. d - 1 :
         /\ WindowContains(t, start, end) <=> Inside(t \div Minute, start, end)
         /\ WindowContains(t + d, start, end) <=> Inside(t \div Minute, start, end)
         /\ t \div Minute \in Nat
  <2>1. SUFFICES ASSUME NEW t \in 0 .. Day * Minute - 1
                 PROVE  /\ WindowContains(t, start, end) <=> Inside(t \div Minute, start, end)
                        /\ WindowContains(t + Day * Minute, start, end) <=>
                              Inside(t \div Minute, start, end)
                        /\ t \div Minute \in Nat
    OBVIOUS
  <2>2. /\ t \div Minute \in Nat /\ MinuteOf(t) = t \div Minute
        /\ MinuteOf(t + Day * Minute) = t \div Minute
    <3>1. /\ t \div Minute \in Clocks /\ MinuteOf(t) = t \div Minute
          /\ MinuteOf(t + Day * Minute) = t \div Minute
      BY <2>1, TodayAndTomorrow
    <3>2. QED BY <3>1 DEF Clocks
  <2>3. QED BY <2>2 DEF WindowContains, Inside
<1>3. /\ s \in 0 .. d - 1 /\ s \div Minute = start
      /\ \A t \in Nat : t < s => t \div Minute < start
      /\ \A t \in Nat : s <= t => start <= t \div Minute
  BY MinuteBegins
<1>4. at = IF WindowContains(now, start, end) THEN now ELSE IF s > now THEN s ELSE s + d
  BY DEF NextStart
<1> HIDE DEF at, d, s
<1>5. Inside(start, start, end)
  BY <1>1 DEF Inside
<1>6. CASE WindowContains(now, start, end)
  BY <1>1, <1>4, <1>6 DEF at
<1>7. CASE ~WindowContains(now, start, end) /\ s > now
  <2>1. at = s /\ WindowContains(s, start, end)
    BY <1>2, <1>3, <1>4, <1>5, <1>7
  <2>2. ASSUME NEW t \in now .. at - 1 PROVE ~WindowContains(t, start, end)
    <3>1. t \in Nat /\ t \in 0 .. d - 1 /\ now <= t /\ t < s /\ now \in 0 .. d - 1
      BY <1>1, <1>3, <2>1, <2>2
    <3>2. t \div Minute < start /\ now \div Minute <= t \div Minute
      BY <1>1, <1>3, <3>1, MinutesGrow
    <3>3. ~Inside(now \div Minute, start, end)
      BY <1>2, <1>7, <3>1
    <3>4. now \div Minute \in Nat /\ t \div Minute \in Nat
      BY <1>2, <3>1
    <3>5. ~Inside(t \div Minute, start, end)
      <4> DEFINE x == now \div Minute
                 y == t \div Minute
      <4>1. x \in Nat /\ y \in Nat /\ y < start /\ x <= y /\ ~Inside(x, start, end)
        BY <3>2, <3>3, <3>4
      <4> HIDE DEF x, y
      <4>2. ~Inside(y, start, end)
        BY <1>1, <4>1 DEF Inside
      <4>3. QED BY <4>2 DEF y
    <3>6. QED BY <1>2, <3>1, <3>5
  <2>3. QED BY <1>1, <1>7, <2>1, <2>2 DEF at
<1>8. CASE ~WindowContains(now, start, end) /\ ~(s > now)
  <2>1. at = s + d /\ WindowContains(s + d, start, end) /\ s <= now
    <3>1. s \in Nat /\ s <= now
      BY <1>1, <1>3, <1>8
    <3>2. WindowContains(s + d, start, end) <=> Inside(start, start, end)
      BY <1>2, <1>3
    <3>3. QED BY <1>4, <1>5, <1>8, <3>1, <3>2
  <2>2. start <= now \div Minute /\ ~Inside(now \div Minute, start, end) /\ now \div Minute \in Nat
    BY <1>1, <1>2, <1>3, <1>8, <2>1
  <2>3. start < end /\ end <= now \div Minute
    BY <1>1, <2>2 DEF Inside
  <2>4. ASSUME NEW t \in now .. at - 1 PROVE ~WindowContains(t, start, end)
    <3>1. CASE t < d
      <4>1. t \in 0 .. d - 1 /\ t \in Nat /\ now <= t
        BY <1>1, <2>4, <3>1
      <4>2. now \div Minute <= t \div Minute /\ t \div Minute \in Nat
        BY <1>1, <1>2, <4>1, MinutesGrow
      <4>3. ~Inside(t \div Minute, start, end)
        BY <1>1, <2>2, <2>3, <4>2 DEF Inside
      <4>4. QED BY <1>2, <4>1, <4>3
    <3>2. CASE t >= d
      <4>1. t - d \in 0 .. d - 1 /\ t - d < s /\ t - d \in Nat /\ (t - d) + d = t
        BY <1>1, <1>3, <2>1, <2>4, <3>2
      <4>2. (t - d) \div Minute < start /\ (t - d) \div Minute \in Nat
        BY <1>2, <1>3, <4>1
      <4>3. ~Inside((t - d) \div Minute, start, end)
        BY <1>1, <2>3, <4>2 DEF Inside
      <4>4. QED BY <1>2, <4>1, <4>3
    <3>3. t \in Int /\ d \in Int
      BY <1>1, <2>4
    <3>4. QED BY <3>1, <3>2, <3>3
  <2>5. at >= now
    BY <1>1, <2>1
  <2>6. QED BY <2>1, <2>4, <2>5 DEF at
<1>9. QED BY <1>6, <1>7, <1>8

(* A day holds as many minutes of the window as lie between its ends. *)
LEMMA MinutesOfWindow ==
    ASSUME NEW start \in Clocks, NEW end \in Clocks, start # end
    PROVE  Cardinality({m \in Clocks : WindowContains(m * Minute, start, end)}) = (end - start) % Day
<1> DEFINE S == {m \in Clocks : WindowContains(m * Minute, start, end)}
<1>1. ASSUME NEW m \in Clocks PROVE WindowContains(m * Minute, start, end) <=> Inside(m, start, end)
  BY <1>1, MinuteBegins, TodayAndTomorrow DEF WindowContains, Inside
<1>2. start \in Nat /\ end \in Nat /\ start < Day /\ end < Day
  BY DEF Clocks
<1>3. CASE start < end
  <2>1. S = start .. end - 1
    BY <1>1, <1>2, <1>3 DEF Inside, Clocks
  <2>2. Cardinality(start .. end - 1) = end - start
    BY <1>2, <1>3, FS_Interval
  <2>3. (end - start) % Day = end - start
    BY <1>2, <1>3, ModSmall
  <2>4. QED BY <2>1, <2>2, <2>3
<1>4. CASE end < start
  <2>1. S = (start .. Day - 1) \cup (0 .. end - 1)
    <3>1. \A m \in Clocks : Inside(m, start, end) <=> m >= start \/ m < end
      BY <1>2, <1>4 DEF Inside, Clocks
    <3>2. S = {m \in Clocks : m >= start \/ m < end}
      BY <1>1, <3>1
    <3>3. {m \in Clocks : m >= start \/ m < end} = (start .. Day - 1) \cup (0 .. end - 1)
      BY <1>2 DEF Clocks
    <3>4. QED BY <3>2, <3>3
  <2>2. /\ IsFiniteSet(start .. Day - 1) /\ IsFiniteSet(0 .. end - 1)
        /\ Cardinality(start .. Day - 1) = Day - start /\ Cardinality(0 .. end - 1) = end
    <3>1. start \in Int /\ Day - 1 \in Int /\ 0 \in Int /\ end - 1 \in Int
      BY <1>2
    <3>2. /\ IsFiniteSet(start .. Day - 1)
          /\ Cardinality(start .. Day - 1) = IF start > Day - 1 THEN 0 ELSE (Day - 1) - start + 1
      BY <3>1, FS_Interval
    <3>3. /\ IsFiniteSet(0 .. end - 1)
          /\ Cardinality(0 .. end - 1) = IF 0 > end - 1 THEN 0 ELSE (end - 1) - 0 + 1
      BY <3>1, FS_Interval
    <3>4. QED BY <1>2, <3>2, <3>3
  <2>3. (start .. Day - 1) \cap (0 .. end - 1) = {}
    BY <1>2, <1>4
  <2>4. Cardinality(S) = (Day - start) + end - 0
    <3> DEFINE A == start .. Day - 1
               B == 0 .. end - 1
    <3>1. IsFiniteSet(A) /\ IsFiniteSet(B) /\ A \cap B = {}
      BY <2>2, <2>3
    <3> HIDE DEF A, B
    <3>2. Cardinality(A \cup B) = Cardinality(A) + Cardinality(B) - Cardinality({})
      BY <3>1, FS_Union
    <3>3. QED BY <2>1, <2>2, <3>2, FS_EmptySet DEF A, B
  <2>5. (end - start) % Day = end - start + Day
    <3> DEFINE q == end - start + Day
    <3>1. q \in 0 .. Day - 1 /\ q - Day = end - start
      BY <1>2, <1>4
    <3>2. (q - Day) % Day = q
      BY <3>1, ModSmall
    <3>3. QED BY <3>1, <3>2
  <2>6. QED BY <1>2, <2>4, <2>5
<1>5. QED BY <1>2, <1>3, <1>4

(* An answer of nextTimeWindowStart is the next start of the window it was asked for. *)
NextIsAnswered ==
    question.fn = "next" =>
       /\ question.now \in 0 .. Day * Minute - 1
       /\ question.start \in Clocks /\ question.end \in Clocks
       /\ answered => /\ question.start # question.end
                      /\ answer = NextStart(question.now, question.start, question.end)

(* Nothing is answered before the call, *)
LEMMA NextInit == Init => NextIsAnswered
<1> SUFFICES ASSUME Init, question.fn = "next" PROVE NextIsAnswered
  BY DEF NextIsAnswered
<1>1. question \in [fn : {"next"}, now : 0 .. Day * Minute - 1, start : Clocks, end : Clocks]
  BY DEF Init, Questions
<1>2. QED BY <1>1 DEF Init, NextIsAnswered

(* and the call answers what NextStart computes. *)
LEMMA NextNext == NextIsAnswered /\ [Next]_vars => NextIsAnswered'
<1> SUFFICES ASSUME NextIsAnswered, [Next]_vars PROVE NextIsAnswered'
  OBVIOUS
<1>1. CASE UNCHANGED vars
  BY <1>1 DEF vars, NextIsAnswered
<1>2. CASE CallNextStart
  BY <1>2 DEF CallNextStart, Answer, NextIsAnswered
<1>3. CASE CallSanitize \/ CallRender \/ CallLoad \/ CallSegmentURLs
  BY <1>3 DEF CallSanitize, CallRender, CallLoad, CallSegmentURLs, Answer, NextIsAnswered
<1>4. QED BY <1>1, <1>2, <1>3 DEF Next

(* runDaemon sleeps until the first instant of the window that is not past, also one *)
(* that wraps midnight, whatever a day and a minute are counted in.                   *)
THEOREM WakesAtTheWindow == Spec => []WakesAtWindow
<1>1. NextIsAnswered => WakesAtWindow
  BY FirstInstant, MinutesOfWindow DEF NextIsAnswered, WakesAtWindow, Asked
<1>2. QED BY <1>1, NextInit, NextNext, PTL DEF Spec

==============================================================================
