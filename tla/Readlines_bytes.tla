--------------------------- MODULE Readlines_bytes ---------------------------
(***************************************************************************)
(* Byte conservation of the Readlines stream (lines 354-444), for every    *)
(* value of the constants: while the stream has not failed, every byte     *)
(* the payload produced is, exactly once, in a yielded line, in the buffer *)
(* or in a chunk still queued.  The order is not kept (a chunk's first     *)
(* line is yielded ahead of the buffered bytes, see readlines_roundtrip),  *)
(* so the property compares multisets; it is proved by counting the       *)
(* occurrences of every byte value.                                        *)
(***************************************************************************)
EXTENDS Readlines_proofs, FiniteSetTheorems

(* FlattenSeq's loop as an instance of a recursion over 1 .. Len(seqs). *)
Flatten == INSTANCE RecursiveFcn
             WITH Lo <- 1, Hi <- LAMBDA s : Len(s),
                  First <- LAMBDA s, i : s[i],
                  Step <- LAMBDA s, p, i : p \o s[i]

(* The number of occurrences of x in s: ToBag(s)[x] when x is in s. *)
Occ(s, x) == Cardinality({i \in DOMAIN s : s[i] = x})

-----------------------------------------------------------------------------
(* The loop of FlattenSeq on a non-empty sequence of sequences: its values *)
(* are sequences and it satisfies its defining equation.                   *)
LEMMA FlattenLoop ==
  ASSUME NEW X, NEW seqs \in Seq(Seq(X)), Len(seqs) >= 1
  PROVE  LET f[i \in 1 .. Len(seqs)] == IF i = 1 THEN seqs[i] ELSE f[i-1] \o seqs[i]
         IN  /\ f \in [1 .. Len(seqs) -> Seq(X)]
             /\ \A i \in 1 .. Len(seqs) :
                  f[i] = IF i = 1 THEN seqs[i] ELSE f[i-1] \o seqs[i]
  <1>1. /\ 1 \in Nat /\ Len(seqs) \in Nat /\ 1 <= Len(seqs)
        /\ seqs[1] \in Seq(X)
        /\ \A p \in Seq(X), i \in 1 + 1 .. Len(seqs) : p \o seqs[i] \in Seq(X)
    OBVIOUS
  <1>2. QED
    BY <1>1, Flatten!RecursiveFcnUnfolds, Zenon

(* FlattenSeq of a non-empty sequence is the last value of a function    *)
(* that satisfies the loop's equation.                                     *)
LEMMA FlattenValue ==
  ASSUME NEW X, NEW seqs \in Seq(Seq(X)), Len(seqs) >= 1
  PROVE  \E F \in [1 .. Len(seqs) -> Seq(X)] :
           /\ \A i \in 1 .. Len(seqs) : F[i] = IF i = 1 THEN seqs[i] ELSE F[i-1] \o seqs[i]
           /\ FlattenSeq(seqs) = F[Len(seqs)]
  <1> DEFINE F == CHOOSE f : f = [i \in 1 .. Len(seqs) |->
                                    IF i = 1 THEN seqs[i] ELSE f[i-1] \o seqs[i]]
  <1>1. /\ F \in [1 .. Len(seqs) -> Seq(X)]
        /\ \A i \in 1 .. Len(seqs) : F[i] = IF i = 1 THEN seqs[i] ELSE F[i-1] \o seqs[i]
    BY FlattenLoop, Zenon
  <1>2. FlattenSeq(seqs) = F[Len(seqs)]
    BY DEF FlattenSeq
  <1>3. QED
    BY <1>1, <1>2

(* The flattening of no sequence is empty. *)
LEMMA FlattenEmpty == FlattenSeq(<< >>) = << >>
  BY DEF FlattenSeq

(* Appending a sequence appends it to the flattening. *)
LEMMA FlattenAppend ==
  ASSUME NEW X, NEW seqs \in Seq(Seq(X)), NEW c \in Seq(X)
  PROVE  FlattenSeq(Append(seqs, c)) = FlattenSeq(seqs) \o c
  <1> DEFINE n == Len(seqs)
             a == Append(seqs, c)
  <1>1. /\ n \in Nat
        /\ a \in Seq(Seq(X)) /\ Len(a) = n + 1 /\ Len(a) >= 1
        /\ \A i \in 1 .. n : a[i] = seqs[i]
        /\ a[n + 1] = c
    OBVIOUS
  <1>2. PICK Fa \in [1 .. Len(a) -> Seq(X)] :
          /\ \A i \in 1 .. Len(a) : Fa[i] = IF i = 1 THEN a[i] ELSE Fa[i-1] \o a[i]
          /\ FlattenSeq(a) = Fa[Len(a)]
    BY <1>1, FlattenValue, Zenon
  <1>3. ASSUME NEW i \in 1 .. n + 1
        PROVE  Fa[i] = IF i = 1 THEN a[i] ELSE Fa[i-1] \o a[i]
    <2>1. i \in 1 .. Len(a)
      BY <1>1
    <2>2. QED
      BY <1>2, <2>1, Zenon
  <1>4. CASE n = 0
    <2>1. seqs = << >>
      BY <1>4
    <2>2. FlattenSeq(seqs) = << >>
      BY <2>1, FlattenEmpty, EmptySeq
    <2>3. 1 \in 1 .. n + 1 /\ Len(a) = 1
      BY <1>1, <1>4
    <2>4. Fa[1] = a[1]
      BY <1>3, <2>3
    <2>5. a[1] = c /\ << >> \o c = c
      BY <1>1, <1>4
    <2>6. QED
      BY <1>2, <2>2, <2>3, <2>4, <2>5
  <1>5. CASE n >= 1
    <2>1. PICK Fs \in [1 .. n -> Seq(X)] :
            /\ \A i \in 1 .. n : Fs[i] = IF i = 1 THEN seqs[i] ELSE Fs[i-1] \o seqs[i]
            /\ FlattenSeq(seqs) = Fs[n]
      BY <1>5, FlattenValue, Zenon
    <2>2. ASSUME NEW i \in 1 .. n
          PROVE  Fs[i] = IF i = 1 THEN seqs[i] ELSE Fs[i-1] \o seqs[i]
      BY <2>1, Zenon
    <2>3. \A i \in 1 .. n : Fa[i] = Fs[i]
      <3> DEFINE D == {i \in 1 .. n : Fa[i] # Fs[i]}
      <3> SUFFICES ASSUME D # {} PROVE FALSE
        OBVIOUS
      <3>1. D \in SUBSET Nat
        BY <1>1
      <3>2. PICK m \in D : \A k \in D : m <= k
        BY <3>1, NatSubsetHasMin
      <3>3. m \in 1 .. n /\ m \in 1 .. n + 1 /\ Fa[m] # Fs[m] /\ a[m] = seqs[m]
        BY <1>1, <3>2
      <3>4. CASE m = 1
        <4>1. Fa[1] = a[1] /\ Fs[1] = seqs[1]
          BY <1>3, <2>2, <3>3, <3>4
        <4>2. QED
          BY <3>3, <3>4, <4>1
      <3>5. CASE m >= 2
        <4>1. m - 1 \in 1 .. n /\ ~(m <= m - 1)
          BY <1>1, <3>3, <3>5
        <4>2. Fa[m-1] = Fs[m-1]
          BY <3>2, <4>1
        <4>3. Fa[m] = Fa[m-1] \o a[m] /\ Fs[m] = Fs[m-1] \o seqs[m]
          BY <1>3, <2>2, <3>3, <3>5
        <4>4. QED
          BY <3>3, <4>2, <4>3
      <3>6. QED
        BY <3>3, <3>4, <3>5
    <2>4. Fa[n + 1] = Fa[n] \o c
      <3>1. n + 1 \in 1 .. n + 1 /\ n + 1 # 1 /\ n + 1 - 1 = n
        BY <1>1, <1>5
      <3>2. \A i \in 1 .. n + 1 : Fa[i] = IF i = 1 THEN a[i] ELSE Fa[i-1] \o a[i]
        BY <1>3
      <3>3. ASSUME NEW j \in 1 .. n + 1, j # 1
            PROVE  Fa[j] = Fa[j-1] \o a[j]
        BY <3>2, <3>3
      <3>4. PICK k \in 1 .. n + 1 : k = n + 1 /\ k # 1 /\ k - 1 = n
        BY <3>1
      <3>5. Fa[k] = Fa[k-1] \o a[k]
        BY <3>3, <3>4, Zenon
      <3>6. QED
        BY <1>1, <3>4, <3>5
    <2>5. n \in 1 .. n /\ Len(a) = n + 1
      BY <1>1, <1>5
    <2>6. QED
      BY <1>2, <2>1, <2>3, <2>4, <2>5
  <1>6. QED
    BY <1>1, <1>4, <1>5

(* The flattening of a non-empty sequence is its head followed by the     *)
(* flattening of its tail.                                                 *)
LEMMA FlattenCons ==
  ASSUME NEW X, NEW seqs \in Seq(Seq(X)), seqs # << >>
  PROVE  FlattenSeq(seqs) = Head(seqs) \o FlattenSeq(Tail(seqs))
  <1> DEFINE n == Len(seqs)
             t == Tail(seqs)
  <1>0. n \in Nat /\ n >= 1
    OBVIOUS
  <1>a. \A s1, s2, s3 \in Seq(X) : (s1 \o s2) \o s3 = s1 \o (s2 \o s3)
    <2> TAKE s1, s2, s3 \in Seq(X)
    <2> QED
      BY ConcatAssociative, Z3
  <1>1. /\ t \in Seq(Seq(X)) /\ Len(t) = n - 1
        /\ \A i \in 1 .. n - 1 : t[i] = seqs[i + 1]
        /\ Head(seqs) = seqs[1] /\ \A i \in 1 .. n : seqs[i] \in Seq(X)
    OBVIOUS
  <1>2. PICK F \in [1 .. n -> Seq(X)] :
          /\ \A i \in 1 .. n : F[i] = IF i = 1 THEN seqs[i] ELSE F[i-1] \o seqs[i]
          /\ FlattenSeq(seqs) = F[n]
    BY <1>0, FlattenValue, Zenon
  <1>3. ASSUME NEW i \in 1 .. n
        PROVE  F[i] = IF i = 1 THEN seqs[i] ELSE F[i-1] \o seqs[i]
    BY <1>2, Zenon
  <1>4. CASE n <= 1
    <2>1. Len(t) = 0 /\ 1 \in 1 .. n
      BY <1>0, <1>1, <1>4
    <2>2. t = << >>
      BY <1>1, <2>1, EmptySeq, Zenon
    <2>3. FlattenSeq(t) = << >>
      BY <2>2, FlattenEmpty
    <2>4. F[1] = seqs[1]
      BY <1>3, <2>1
    <2>5. seqs[1] \o << >> = seqs[1] /\ n = 1
      BY <1>0, <1>1, <1>4
    <2>6. QED
      BY <1>1, <1>2, <2>3, <2>4, <2>5
  <1>5. CASE n >= 2
    <2>0. Len(t) >= 1 /\ n - 1 \in Nat
      BY <1>0, <1>1, <1>5
    <2>1. PICK G \in [1 .. Len(t) -> Seq(X)] :
            /\ \A i \in 1 .. Len(t) : G[i] = IF i = 1 THEN t[i] ELSE G[i-1] \o t[i]
            /\ FlattenSeq(t) = G[Len(t)]
      BY <1>1, <2>0, FlattenValue, Zenon
    <2>2. ASSUME NEW i \in 1 .. n - 1
          PROVE  G[i] = IF i = 1 THEN t[i] ELSE G[i-1] \o t[i]
      <3>1. i \in 1 .. Len(t)
        BY <1>1
      <3>2. QED
        BY <2>1, <3>1, Zenon
    <2>3. \A i \in 2 .. n : F[i] = seqs[1] \o G[i - 1]
      <3> DEFINE D == {i \in 2 .. n : F[i] # seqs[1] \o G[i - 1]}
      <3> SUFFICES ASSUME D # {} PROVE FALSE
        OBVIOUS
      <3>1. D \in SUBSET Nat
        <4>1. 2 .. n \subseteq Nat
          BY <1>0
        <4>2. QED
          BY <4>1, Zenon
      <3>2. PICK m \in D : \A k \in D : m <= k
        BY <3>1, NatSubsetHasMin
      <3>3. m \in 2 .. n /\ m \in 1 .. n /\ F[m] # seqs[1] \o G[m - 1]
        <4>1. m \in 2 .. n /\ F[m] # seqs[1] \o G[m - 1]
          BY <3>2, Zenon
        <4>2. m \in 1 .. n
          BY <1>0, <4>1
        <4>3. QED
          BY <4>1, <4>2
      <3>4. F[m] = F[m-1] \o seqs[m]
        <4>1. m # 1
          BY <3>3
        <4>2. QED
          BY <1>3, <3>3, <4>1, Zenon
      <3>5. CASE m = 2
        <4>1. 1 \in 1 .. n /\ 1 \in 1 .. n - 1 /\ m - 1 = 1
          BY <1>0, <1>5, <3>5
        <4>2. F[1] = seqs[1] /\ G[1] = t[1]
          BY <1>3, <2>2, <4>1
        <4>3. t[1] = seqs[2]
          BY <1>1, <4>1
        <4>4. QED
          BY <3>3, <3>4, <3>5, <4>1, <4>2, <4>3
      <3>6. CASE m >= 3
        <4>0. /\ m - 1 \in 2 .. n /\ ~(m <= m - 1)
              /\ m - 1 \in 1 .. n - 1 /\ m - 1 >= 2 /\ m - 1 - 1 \in 1 .. n - 1
              /\ m - 1 + 1 = m /\ m - 1 # 1
          BY <1>0, <3>3, <3>6
        <4>1. F[m - 1] = seqs[1] \o G[m - 1 - 1]
          BY <3>2, <4>0
        <4>2. G[m - 1] = G[m - 1 - 1] \o t[m - 1]
          BY <2>2, <4>0, Zenon
        <4>3. t[m - 1] = seqs[m]
          BY <1>1, <4>0
        <4>4. G[m - 1 - 1] \in Seq(X) /\ seqs[m] \in Seq(X) /\ seqs[1] \in Seq(X)
          <5>1. m - 1 - 1 \in 1 .. Len(t)
            BY <1>1, <4>0
          <5>2. G[m - 1 - 1] \in Seq(X)
            BY <2>1, <5>1, Zenon
          <5>3. seqs[m] \in Seq(X) /\ seqs[1] \in Seq(X)
            BY <1>0, <1>1, <3>3
          <5>4. QED
            BY <5>2, <5>3
        <4>5. (seqs[1] \o G[m - 1 - 1]) \o seqs[m] = seqs[1] \o (G[m - 1 - 1] \o seqs[m])
          BY <4>4, <1>a, Zenon
        <4>6. QED
          BY <3>3, <3>4, <4>1, <4>2, <4>3, <4>5
      <3>7. QED
        BY <3>3, <3>5, <3>6
    <2>4. n \in 2 .. n /\ Len(t) = n - 1
      BY <1>0, <1>1, <1>5
    <2>5. F[n] = seqs[1] \o G[n - 1]
      BY <2>3, <2>4, Zenon
    <2>6. FlattenSeq(t) = G[n - 1]
      BY <2>1, <2>4
    <2>7. QED
      BY <1>1, <1>2, <2>5, <2>6
  <1>6. QED
    BY <1>0, <1>4, <1>5
-----------------------------------------------------------------------------
(* The positions of x in s form a finite set and Occ(s, x) is a number. *)
LEMMA OccFinite ==
  ASSUME NEW X, NEW s \in Seq(X), NEW x
  PROVE  /\ IsFiniteSet({i \in DOMAIN s : s[i] = x})
         /\ Occ(s, x) \in Nat
  <1>1. Len(s) \in Nat /\ DOMAIN s = 1 .. Len(s)
    BY LenProperties
  <1>2. IsFiniteSet(1 .. Len(s))
    BY <1>1, FS_Interval
  <1>3. IsFiniteSet({i \in DOMAIN s : s[i] = x})
    BY <1>1, <1>2, FS_Subset
  <1>4. QED
    BY <1>3, FS_CardinalityType DEF Occ

(* The occurrences of x in s \o t are those in s and those in t. *)
LEMMA OccConcat ==
  ASSUME NEW X, NEW s \in Seq(X), NEW t \in Seq(X), NEW x
  PROVE  Occ(s \o t, x) = Occ(s, x) + Occ(t, x)
  <1> DEFINE ls == Len(s)
             lt == Len(t)
             A == {i \in DOMAIN s : s[i] = x}
             B == {j \in DOMAIN t : t[j] = x}
             Bs == {j \in ls + 1 .. ls + lt : t[j - ls] = x}
             C == {i \in DOMAIN (s \o t) : (s \o t)[i] = x}
  <1>1. /\ ls \in Nat /\ lt \in Nat
        /\ DOMAIN s = 1 .. ls /\ DOMAIN t = 1 .. lt
        /\ DOMAIN (s \o t) = 1 .. ls + lt
        /\ \A i \in 1 .. ls + lt :
             (s \o t)[i] = IF i <= ls THEN s[i] ELSE t[i - ls]
    BY ConcatProperties, LenProperties
  <1>2. C = A \cup Bs
    BY <1>1
  <1>3. A \cap Bs = {}
    BY <1>1
  <1>4. IsFiniteSet(A) /\ IsFiniteSet(B) /\ IsFiniteSet(Bs)
    <2>1. IsFiniteSet(A) /\ IsFiniteSet(B)
      BY OccFinite
    <2>2. IsFiniteSet(ls + 1 .. ls + lt)
      <3>1. ls + 1 \in Int /\ ls + lt \in Int
        BY <1>1
      <3>2. QED
        BY <3>1, FS_Interval
    <2>3. QED
      BY <2>1, <2>2, FS_Subset
  <1>5. Cardinality(Bs) = Cardinality(B)
    <2> DEFINE f == [j \in B |-> j + ls]
    <2>1. f \in Bijection(B, Bs)
      <3>1. f \in [B -> Bs]
        BY <1>1
      <3>2. \A a, b \in B : f[a] = f[b] => a = b
        BY <1>1
      <3>3. \A y \in Bs : \E j \in B : f[j] = y
        <4> TAKE y \in Bs
        <4>1. y - ls \in B /\ f[y - ls] = y
          BY <1>1
        <4>2. QED
          BY <4>1
      <3>4. QED
        BY <3>1, <3>2, <3>3, Zenon DEF Bijection, Injection, Surjection, IsInjective
    <2>2. QED
      BY <1>4, <2>1, FS_Bijection DEF ExistsBijection
  <1>6. Cardinality(A \cup Bs) = Cardinality(A) + Cardinality(Bs)
    <2>1. Cardinality(A \cap Bs) = 0
      BY <1>3, FS_EmptySet
    <2>2. Cardinality(A \cup Bs) =
            Cardinality(A) + Cardinality(Bs) - Cardinality(A \cap Bs)
      BY <1>4, FS_Union
    <2>3. Cardinality(A) \in Nat /\ Cardinality(Bs) \in Nat
      BY <1>4, FS_CardinalityType
    <2>4. QED
      BY <2>1, <2>2, <2>3
  <1>7. QED
    BY <1>2, <1>5, <1>6 DEF Occ
(* x does not occur in the empty sequence. *)
LEMMA OccEmpty ==
  ASSUME NEW x
  PROVE  Occ(<< >>, x) = 0
  BY FS_EmptySet DEF Occ

(* Cutting s after position i splits the occurrences of x. *)
LEMMA OccSplit ==
  ASSUME NEW X, NEW s \in Seq(X), NEW i \in 0 .. Len(s), NEW x
  PROVE  Occ(s, x) = Occ(SubSeq(s, 1, i), x) + Occ(SubSeq(s, i + 1, Len(s)), x)
  <1>1. SubSeq(s, 1, i) \o SubSeq(s, i + 1, Len(s)) = s
    <2>0. 1 \in 1 .. Len(s) + 1 /\ i \in 1 - 1 .. Len(s) /\ Len(s) \in i .. Len(s)
      OBVIOUS
    <2>1. SubSeq(s, 1, i) \o SubSeq(s, i + 1, Len(s)) = SubSeq(s, 1, Len(s))
      BY <2>0, ConcatAdjacentSubSeq
    <2>2. QED
      BY <2>1, SubSeqFull
  <1>2. SubSeq(s, 1, i) \in Seq(X) /\ SubSeq(s, i + 1, Len(s)) \in Seq(X)
    BY SubSeqProperties
  <1>3. Occ(SubSeq(s, 1, i) \o SubSeq(s, i + 1, Len(s)), x)
          = Occ(SubSeq(s, 1, i), x) + Occ(SubSeq(s, i + 1, Len(s)), x)
    BY <1>2, OccConcat
  <1>4. QED
    BY <1>1, <1>3

(* The flattening of sequences over X is a sequence over X. *)
LEMMA FlattenType ==
  ASSUME NEW X, NEW seqs \in Seq(Seq(X))
  PROVE  FlattenSeq(seqs) \in Seq(X)
  <1>1. CASE Len(seqs) = 0
    <2>1. seqs = << >>
      BY <1>1, EmptySeq, Zenon
    <2>2. QED
      BY <2>1, FlattenEmpty, EmptySeq
  <1>2. CASE Len(seqs) >= 1
    <2>1. PICK F \in [1 .. Len(seqs) -> Seq(X)] : FlattenSeq(seqs) = F[Len(seqs)]
      BY <1>2, FlattenValue, Zenon
    <2>2. Len(seqs) \in 1 .. Len(seqs)
      BY <1>2
    <2>3. QED
      BY <2>1, <2>2
  <1>3. QED
    BY <1>1, <1>2

(* A value occurs in w exactly when it is one of w's elements. *)
LEMMA OccRange ==
  ASSUME NEW X, NEW w \in Seq(X), NEW y
  PROVE  y \in Range(w) <=> y \in X /\ Occ(w, y) # 0
  <1> DEFINE P == {i \in DOMAIN w : w[i] = y}
  <1>1. IsFiniteSet(P) /\ DOMAIN w = 1 .. Len(w) /\ \A i \in DOMAIN w : w[i] \in X
    BY OccFinite, LenProperties
  <1>2. y \in Range(w) <=> P # {}
    BY DEF Range
  <1>3. P # {} <=> Cardinality(P) # 0
    BY <1>1, FS_EmptySet
  <1>4. P # {} => y \in X
    BY <1>1
  <1>5. QED
    BY <1>2, <1>3, <1>4 DEF Occ

(* Two sequences with the same number of occurrences of every value are   *)
(* the same multiset.                                                      *)
LEMMA OccBag ==
  ASSUME NEW X, NEW u \in Seq(X), NEW v \in Seq(X),
         \A x \in X : Occ(u, x) = Occ(v, x)
  PROVE  ToBag(u) = ToBag(v)
  <1>1. Range(u) = Range(v)
    <2>1. ASSUME NEW y PROVE y \in Range(u) <=> y \in Range(v)
      <3>1. (y \in Range(u) <=> y \in X /\ Occ(u, y) # 0)
            /\ (y \in Range(v) <=> y \in X /\ Occ(v, y) # 0)
        BY OccRange
      <3>2. QED
        BY <3>1
    <2>2. QED
      BY <2>1, Zenon
  <1>2. Range(u) \subseteq X
    BY OccRange
  <1>3. \A x \in Range(u) : Occ(u, x) = Occ(v, x)
    BY <1>2
  <1>4. QED
    BY <1>1, <1>3 DEF ToBag, Occ
-----------------------------------------------------------------------------
(* The queued chunks are sequences of bytes. *)
LEMMA AvailSeqs ==
  ASSUME avail \in Seq(Chunks)
  PROVE  avail \in Seq(Seq(Byte))
  BY ConstantsAssumption, SeqMonotonic

(* The counting form of BytesConserved: while the stream has not failed,  *)
(* every byte value occurs as often in the yielded lines, the buffer and  *)
(* the queued chunks together (Count) as in what the payload produced.    *)
Count(b) ==
  Occ(FlattenSeq(out), b) + Occ(buff, b) + Occ(FlattenSeq(avail), b)

Conserved ==
  status \in {"active", "ended"} => \A b \in Byte : Count(b) = Occ(sent, b)

(* The inductive invariant of byte conservation. *)
BInv == LInv /\ Conserved
(* The counted sequences are byte strings and their counts are numbers. *)
LEMMA CountTypes ==
  ASSUME TypeOK, NEW b
  PROVE  /\ FlattenSeq(out) \in Seq(Byte) /\ FlattenSeq(avail) \in Seq(Byte)
         /\ Occ(FlattenSeq(out), b) \in Nat /\ Occ(buff, b) \in Nat
         /\ Occ(FlattenSeq(avail), b) \in Nat /\ Occ(sent, b) \in Nat
  <1>1. out \in Seq(Seq(Byte)) /\ avail \in Seq(Seq(Byte))
        /\ buff \in Seq(Byte) /\ sent \in Seq(Byte)
    BY AvailSeqs DEF TypeOK
  <1>2. FlattenSeq(out) \in Seq(Byte) /\ FlattenSeq(avail) \in Seq(Byte)
    BY <1>1, FlattenType
  <1>3. QED
    BY <1>1, <1>2, OccFinite

(* Init establishes the invariant: nothing was produced or yielded. *)
LEMMA InitConserved == Init => Conserved
  <1> SUFFICES ASSUME Init, NEW b \in Byte PROVE Count(b) = Occ(sent, b)
    BY DEF Conserved
  <1>1. out = << >> /\ buff = << >> /\ avail = << >> /\ sent = << >>
    BY DEF Init
  <1>2. QED
    BY <1>1, FlattenEmpty, OccEmpty DEF Count

(* A chunk produced by the payload is queued: it is counted in avail and  *)
(* in sent.                                                                *)
LEMMA DeliverConserved ==
  ASSUME BInv, NEW c \in Chunks, Deliver(c)
  PROVE  Conserved'
  <1>1. /\ TypeOK /\ Conserved /\ c \in Seq(Byte)
        /\ avail \in Seq(Seq(Byte)) /\ sent \in Seq(Byte)
    BY AvailSeqs, ConstantsAssumption DEF BInv, LInv, TypeOK
  <1>2. /\ out' = out /\ buff' = buff /\ status' = status /\ status = "active"
        /\ avail' = Append(avail, c) /\ sent' = sent \o c
    BY DEF Deliver
  <1>3. FlattenSeq(avail') = FlattenSeq(avail) \o c
    BY <1>1, <1>2, FlattenAppend
  <1> SUFFICES ASSUME NEW b \in Byte PROVE Count(b)' = Occ(sent', b)
    BY DEF Conserved
  <1>4. Occ(FlattenSeq(avail'), b) = Occ(FlattenSeq(avail), b) + Occ(c, b)
    BY <1>1, <1>3, FlattenType, OccConcat
  <1>5. Occ(sent', b) = Occ(sent, b) + Occ(c, b)
    BY <1>1, <1>2, OccConcat
  <1>6. Count(b) = Occ(sent, b)
    BY <1>1, <1>2 DEF Conserved
  <1>7. Occ(c, b) \in Nat
    BY <1>1, OccFinite
  <1>8. QED
    BY <1>1, <1>2, <1>4, <1>5, <1>6, <1>7, CountTypes DEF Count
(* A step into a failed state has nothing to conserve. *)
LEMMA FailedConserved ==
  ASSUME status' \notin {"active", "ended"}
  PROVE  Conserved'
  BY DEF Conserved

(* A step that moves no byte and fails or ends no live stream keeps the   *)
(* counts.                                                                 *)
LEMMA SameCounts ==
  ASSUME Conserved, out' = out, buff' = buff, avail' = avail, sent' = sent,
         status' \in {"active", "ended"} => status \in {"active", "ended"}
  PROVE  Conserved'
  BY DEF Conserved, Count

(* A line split off the buffer (lines 360-384) moves its bytes from the   *)
(* buffer to the yielded lines.                                            *)
LEMMA PollBufferedConserved ==
  ASSUME BInv, status = "active", PollBuffered,
         UNCHANGED <<encoding, limit, srcState, sent, nchunks>>
  PROVE  Conserved'
  <1> DEFINE i == FirstNL(buff)
             line == SubSeq(buff, 1, i)
             rest == SubSeq(buff, i + 1, Len(buff))
  <1>1. /\ TypeOK /\ Conserved
        /\ buff \in Seq(Byte) /\ out \in Seq(Seq(Byte))
        /\ i # 0 /\ avail' = avail /\ sent' = sent
    BY DEF BInv, LInv, TypeOK, PollBuffered
  <1>2. i \in 1 .. Len(buff) /\ line \in Seq(Byte) /\ rest \in Seq(Byte)
    BY <1>1, LineSplit
  <1>3. CASE TooLong(i, limit)
    <2>1. status' = "LimitOverflow"
      BY <1>3 DEF PollBuffered, Fail, TooLong
    <2>2. QED
      BY <2>1, FailedConserved
  <1>4. CASE ~TooLong(i, limit)
    <2>1. buff' = rest /\ Yield(line)
      BY <1>4 DEF PollBuffered, TooLong
    <2>2. CASE out' = Append(out, line) /\ status' = status
      <3> SUFFICES ASSUME NEW b \in Byte PROVE Count(b)' = Occ(sent', b)
        BY <2>2 DEF Conserved
      <3>1. Occ(FlattenSeq(out'), b) = Occ(FlattenSeq(out), b) + Occ(line, b)
        <4>1. FlattenSeq(out') = FlattenSeq(out) \o line
          BY <1>1, <1>2, <2>2, FlattenAppend
        <4>2. FlattenSeq(out) \in Seq(Byte)
          BY <1>1, FlattenType
        <4>3. Occ(FlattenSeq(out) \o line, b) = Occ(FlattenSeq(out), b) + Occ(line, b)
          BY <1>2, <4>2, OccConcat
        <4>4. QED
          BY <4>1, <4>3
      <3>2. Occ(buff, b) = Occ(line, b) + Occ(rest, b)
        BY <1>1, <1>2, OccSplit
      <3>3. Count(b) = Occ(sent, b)
        BY <1>1 DEF Conserved
      <3>4. Occ(line, b) \in Nat /\ Occ(rest, b) \in Nat
        BY <1>2, OccFinite
      <3>5. QED
        BY <1>1, <2>1, <3>1, <3>2, <3>3, <3>4, CountTypes DEF Count
    <2>3. CASE status' = "EncodingError"
      BY <2>3, FailedConserved
    <2>4. QED
      BY <2>1, <2>2, <2>3, YieldCases
  <1>5. QED
    BY <1>3, <1>4
(* A chunk taken from the payload (lines 385-420) moves its bytes from    *)
(* the queue to the yielded line and the buffer, or all to the buffer.    *)
LEMMA PollChunkConserved ==
  ASSUME BInv, status = "active", PollChunk,
         UNCHANGED <<encoding, limit, srcState, sent, nchunks>>
  PROVE  Conserved'
  <1> DEFINE c == Head(avail)
             i == FirstNL(c)
             line == SubSeq(c, 1, i)
             rest == SubSeq(c, i + 1, Len(c))
  <1>1. /\ TypeOK /\ Conserved
        /\ buff \in Seq(Byte) /\ out \in Seq(Seq(Byte))
        /\ avail \in Seq(Seq(Byte)) /\ avail # << >>
        /\ avail' = Tail(avail) /\ sent' = sent
    BY AvailSeqs DEF BInv, LInv, TypeOK, PollChunk
  <1>2. c \in Seq(Byte) /\ avail' \in Seq(Seq(Byte))
    BY <1>1, HeadTailProperties
  <1>3. FlattenSeq(avail) = c \o FlattenSeq(avail')
    BY <1>1, FlattenCons
  <1>4. FlattenSeq(out) \in Seq(Byte) /\ FlattenSeq(avail') \in Seq(Byte)
    BY <1>1, <1>2, FlattenType
  <1>5. ASSUME NEW b \in Byte
        PROVE  /\ Count(b) = Occ(sent, b)
               /\ Occ(FlattenSeq(avail), b) = Occ(c, b) + Occ(FlattenSeq(avail'), b)
               /\ Occ(FlattenSeq(avail'), b) \in Nat /\ Occ(c, b) \in Nat
    <2>1. Count(b) = Occ(sent, b)
      BY <1>1 DEF Conserved
    <2>2. Occ(c \o FlattenSeq(avail'), b) = Occ(c, b) + Occ(FlattenSeq(avail'), b)
      BY <1>2, <1>4, OccConcat
    <2>3. QED
      BY <1>2, <1>3, <1>4, <2>1, <2>2, OccFinite
  <1>6. CASE i # 0 /\ TooLong(i, limit)
    <2>1. status' = "LimitOverflow"
      BY <1>6 DEF PollChunk, Fail
    <2>2. QED
      BY <2>1, FailedConserved
  <1>7. CASE i # 0 /\ ~TooLong(i, limit) /\ Decodes(line)
    <2>1. out' = Append(out, line) /\ buff' = buff \o rest /\ status' = status
      BY <1>7 DEF PollChunk
    <2>2. i \in 1 .. Len(c) /\ line \in Seq(Byte) /\ rest \in Seq(Byte)
      BY <1>2, <1>7, LineSplit
    <2> SUFFICES ASSUME NEW b \in Byte PROVE Count(b)' = Occ(sent', b)
      BY <2>1 DEF Conserved
    <2>3. Occ(FlattenSeq(out'), b) = Occ(FlattenSeq(out), b) + Occ(line, b)
      <3>1. FlattenSeq(out') = FlattenSeq(out) \o line
        BY <1>1, <2>1, <2>2, FlattenAppend
      <3>2. Occ(FlattenSeq(out) \o line, b) = Occ(FlattenSeq(out), b) + Occ(line, b)
        BY <1>4, <2>2, OccConcat
      <3>3. QED
        BY <3>1, <3>2
    <2>4. Occ(buff', b) = Occ(buff, b) + Occ(rest, b)
      <3>1. Occ(buff \o rest, b) = Occ(buff, b) + Occ(rest, b)
        BY <1>1, <2>2, OccConcat
      <3>2. QED
        BY <2>1, <3>1
    <2>5. Occ(c, b) = Occ(line, b) + Occ(rest, b)
      BY <1>2, <2>2, OccSplit
    <2>6. Occ(line, b) \in Nat /\ Occ(rest, b) \in Nat
      BY <2>2, OccFinite
    <2>7. /\ Count(b) = Occ(sent, b)
          /\ Occ(FlattenSeq(avail), b) = Occ(c, b) + Occ(FlattenSeq(avail'), b)
          /\ Occ(FlattenSeq(avail'), b) \in Nat
      BY <1>5
    <2>8. Occ(FlattenSeq(out), b) \in Nat /\ Occ(buff, b) \in Nat
      BY <1>1, CountTypes
    <2>9. QED
      BY <1>1, <2>3, <2>4, <2>5, <2>6, <2>7, <2>8 DEF Count
  <1>8. CASE i # 0 /\ ~TooLong(i, limit) /\ ~Decodes(line)
    <2>1. status' = "EncodingError"
      BY <1>8 DEF PollChunk, Fail
    <2>2. QED
      BY <2>1, FailedConserved
  <1>9. CASE i = 0
    <2>1. out' = out /\ buff' = buff \o c /\ status' = status
      BY <1>9 DEF PollChunk
    <2> SUFFICES ASSUME NEW b \in Byte PROVE Count(b)' = Occ(sent', b)
      BY <2>1 DEF Conserved
    <2>2. Occ(buff', b) = Occ(buff, b) + Occ(c, b)
      <3>1. Occ(buff \o c, b) = Occ(buff, b) + Occ(c, b)
        BY <1>1, <1>2, OccConcat
      <3>2. QED
        BY <2>1, <3>1
    <2>3. QED
      BY <1>1, <1>5, <2>1, <2>2, CountTypes DEF Count
  <1>10. QED
    BY <1>6, <1>7, <1>8, <1>9
(* With no chunk ready (lines 385-388, 421-442) only the last line moves  *)
(* bytes: the whole buffer goes to the yielded lines.                     *)
LEMMA PollNoChunkConserved ==
  ASSUME BInv, status = "active", PollNoChunk,
         UNCHANGED <<encoding, limit, srcState, sent, nchunks>>
  PROVE  Conserved'
  <1>1. /\ TypeOK /\ Conserved
        /\ buff \in Seq(Byte) /\ out \in Seq(Seq(Byte))
        /\ avail' = avail /\ sent' = sent
    BY DEF BInv, LInv, TypeOK, PollNoChunk
  <1>2. CASE UNCHANGED <<buff, out, status>>
    BY <1>1, <1>2, SameCounts
  <1>3. CASE buff = << >> /\ status' = "ended" /\ UNCHANGED <<buff, out>>
    BY <1>1, <1>3, SameCounts
  <1>4. CASE status' \notin {"active", "ended"}
    BY <1>4, FailedConserved
  <1>5. CASE Yield(buff) /\ buff' = IF Decodes(buff) THEN << >> ELSE buff
    <2>1. CASE Decodes(buff) /\ out' = Append(out, buff) /\ status' = status
      <3> SUFFICES ASSUME NEW b \in Byte PROVE Count(b)' = Occ(sent', b)
        BY <2>1 DEF Conserved
      <3>1. Occ(FlattenSeq(out'), b) = Occ(FlattenSeq(out), b) + Occ(buff, b)
        <4>1. FlattenSeq(out') = FlattenSeq(out) \o buff
          BY <1>1, <2>1, FlattenAppend
        <4>2. FlattenSeq(out) \in Seq(Byte)
          BY <1>1, FlattenType
        <4>3. Occ(FlattenSeq(out) \o buff, b) = Occ(FlattenSeq(out), b) + Occ(buff, b)
          BY <1>1, <4>2, OccConcat
        <4>4. QED
          BY <4>1, <4>3
      <3>2. Occ(buff', b) = 0
        BY <1>5, <2>1, OccEmpty
      <3>3. Count(b) = Occ(sent, b)
        BY <1>1 DEF Conserved
      <3>4. QED
        BY <1>1, <3>1, <3>2, <3>3, CountTypes DEF Count
    <2>2. CASE status' = "EncodingError"
      BY <2>2, FailedConserved
    <2>3. QED
      BY <1>5, <2>1, <2>2, YieldCases
  <1>6. QED
    BY <1>2, <1>3, <1>4, <1>5 DEF PollNoChunk, Fail, Statuses, Errors

(* The deferred construction error (lines 355-357) fails the stream. *)
LEMMA PollErrConserved ==
  ASSUME BInv, PollErr
  PROVE  Conserved'
  <1>1. status' \in EncodingErrors
    BY DEF BInv, LInv, TypeOK, PollErr, Fail
  <1>2. QED
    BY <1>1, FailedConserved DEF EncodingErrors

(* Every step keeps the counts. *)
LEMMA NextConserved == BInv /\ [Next]_vars => Conserved'
  <1> SUFFICES ASSUME BInv, [Next]_vars PROVE Conserved'
    OBVIOUS
  <1>1. Conserved
    BY DEF BInv
  <1>2. CASE Poll
    <2>1. status = "active" /\ UNCHANGED <<encoding, limit, srcState, sent, nchunks>>
      BY <1>2 DEF Poll
    <2>2. QED
      BY <1>2, <2>1, PollErrConserved, PollBufferedConserved,
         PollChunkConserved, PollNoChunkConserved DEF Poll
  <1>3. CASE \E c \in Chunks : Deliver(c)
    BY <1>3, DeliverConserved
  <1>4. CASE \/ \E n \in Limits : SetLimit(n)
             \/ \E st \in {"end", "error"} : Finish(st)
             \/ Stopped \/ UNCHANGED vars
    BY <1>1, <1>4, SameCounts DEF SetLimit, Finish, Stopped, vars
  <1>5. QED
    BY <1>2, <1>3, <1>4 DEF Next
(* The counts give the multiset equality: the concatenation of the lines, *)
(* the buffer and the queue counts every byte value as Count does.         *)
LEMMA ConservedBag == BInv => BytesConserved
  <1> SUFFICES ASSUME BInv, status \in {"active", "ended"}
               PROVE  ToBag(FlattenSeq(out) \o buff \o FlattenSeq(avail)) = ToBag(sent)
    BY DEF BytesConserved
  <1> DEFINE fo == FlattenSeq(out)
             fa == FlattenSeq(avail)
  <1>1. /\ TypeOK /\ Conserved
        /\ buff \in Seq(Byte) /\ sent \in Seq(Byte)
        /\ fo \in Seq(Byte) /\ fa \in Seq(Byte)
    BY CountTypes DEF BInv, LInv, TypeOK
  <1>2. fo \o buff \in Seq(Byte) /\ fo \o buff \o fa \in Seq(Byte)
    BY <1>1, ConcatProperties
  <1>3. ASSUME NEW b \in Byte
        PROVE  Occ(fo \o buff \o fa, b) = Occ(sent, b)
    <2>1. Occ(fo \o buff \o fa, b) = Occ(fo \o buff, b) + Occ(fa, b)
      BY <1>1, <1>2, OccConcat
    <2>2. Occ(fo \o buff, b) = Occ(fo, b) + Occ(buff, b)
      BY <1>1, OccConcat
    <2>3. Count(b) = Occ(sent, b)
      BY <1>1 DEF Conserved
    <2>4. QED
      BY <2>1, <2>2, <2>3 DEF Count
  <1>4. QED
    BY <1>1, <1>2, <1>3, OccBag

-----------------------------------------------------------------------------
(* Byte conservation (lines 354-444): while the line stream has not      *)
(* failed, every byte the payload produced is, exactly once, in a yielded *)
(* line, in the buffer or in a chunk still queued, whatever the chunk     *)
(* boundaries, the limit changes and the order of polls and deliveries.   *)
THEOREM BytesKept == Spec => []BytesConserved
  <1>1. Init => BInv
    BY InitLInv, InitConserved DEF BInv
  <1>2. BInv /\ [Next]_vars => BInv'
    BY NextLInv, NextConserved DEF BInv
  <1>3. QED
    BY <1>1, <1>2, ConservedBag, PTL DEF Spec
=============================================================================
