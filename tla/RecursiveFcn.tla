---------------------------- MODULE RecursiveFcn ----------------------------
(***************************************************************************)
(* A recursive function over an interval of naturals,                      *)
(*   f[i \in Lo .. Hi(s)] == IF i = Lo THEN First(s, i)                    *)
(*                           ELSE Step(s, f[i-1], i),                       *)
(* the shape of the loops FlattenSeq and the cookie jar are written with,  *)
(* takes its values in any set S that holds the first value and is closed *)
(* under the step.  The operators are constants so that a module can       *)
(* instantiate them with INSTANCE ... WITH and cite the theorem: the       *)
(* provers cannot instantiate an operator parameter of a theorem.  The     *)
(* data the loop runs over is the argument s.                              *)
(***************************************************************************)
EXTENDS LeastElement

CONSTANTS
  Lo,             \* the first index
  Hi(_),          \* the last index, for the data s
  First(_, _),    \* the value at Lo
  Step(_, _, _)   \* the value at i from the data, the value at i - 1 and i

(* g satisfies the recursion up to index m. *)
Unfolds(s, g, m) == \A i \in Lo .. m : g[i] = IF i = Lo THEN First(s, i) ELSE Step(s, g[i-1], i)

(* The recursive function exists on Lo .. Hi(s): it takes its values in S *)
(* and satisfies its defining equation at every index.  There is a        *)
(* solution of the recursion with values in S (built up from the least    *)
(* index with none), and every solution equals it (they cannot differ     *)
(* first anywhere).                                                        *)
THEOREM RecursiveFcnUnfolds ==
  ASSUME NEW s, Lo \in Nat, Hi(s) \in Nat, Lo <= Hi(s), NEW S,
         First(s, Lo) \in S,
         \A p \in S, i \in Lo + 1 .. Hi(s) : Step(s, p, i) \in S
  PROVE  LET f[i \in Lo .. Hi(s)] == IF i = Lo THEN First(s, i) ELSE Step(s, f[i-1], i)
         IN  /\ f \in [Lo .. Hi(s) -> S]
             /\ \A i \in Lo .. Hi(s) :
                  f[i] = IF i = Lo THEN First(s, i) ELSE Step(s, f[i-1], i)
  <1> DEFINE lo == Lo
             hi == Hi(s)
  <1> DEFINE P(m) == \E g \in [lo .. m -> S] : Unfolds(s, g, m)
  <1>1. P(hi)
    <2> DEFINE T == {m \in lo .. hi : ~P(m)}
    <2> SUFFICES ASSUME T # {} PROVE FALSE
      OBVIOUS
    <2>0. T \in SUBSET Nat
      OBVIOUS
    <2>1. PICK m \in T : \A k \in T : m <= k
      BY <2>0, NatSubsetHasMin
    <2>2. CASE m = lo
      <3> DEFINE g == [i \in lo .. lo |-> First(s, i)]
      <3>1. g \in [lo .. m -> S] /\ Unfolds(s, g, m)
        BY <2>2 DEF Unfolds
      <3>2. QED
        BY <2>1, <3>1
    <2>3. CASE m # lo
      <3>1. m - 1 \in lo .. hi /\ P(m - 1)
        BY <2>1, <2>3
      <3>2. PICK g \in [lo .. m - 1 -> S] : Unfolds(s, g, m - 1)
        BY <3>1
      <3> DEFINE h == [i \in lo .. m |-> IF i < m THEN g[i] ELSE Step(s, g[m-1], m)]
      <3>3. h \in [lo .. m -> S]
        BY <2>1, <2>3, <3>2
      <3>4. Unfolds(s, h, m)
        <4>1. ASSUME NEW i \in lo .. m - 1
              PROVE  h[i] = IF i = lo THEN First(s, i) ELSE Step(s, h[i-1], i)
          <5>1. h[i] = g[i] /\ (i # lo => h[i-1] = g[i-1])
            BY <2>1, <2>3
          <5>2. QED
            BY <3>2, <5>1 DEF Unfolds
        <4>2. h[m] = Step(s, h[m-1], m)
          BY <2>1, <2>3
        <4>3. ASSUME NEW i \in lo .. m
              PROVE  h[i] = IF i = lo THEN First(s, i) ELSE Step(s, h[i-1], i)
          <5>1. CASE i = m
            BY <2>3, <4>2, <5>1
          <5>2. CASE i # m
            <6>1. i \in lo .. m - 1
              BY <2>1, <5>2
            <6>2. QED
              BY <4>1, <6>1
          <5>3. QED
            BY <5>1, <5>2
        <4>4. QED
          BY <4>3 DEF Unfolds
      <3>5. QED
        BY <2>1, <3>3, <3>4
    <2>4. QED
      BY <2>2, <2>3
  <1>2. PICK g \in [lo .. hi -> S] : Unfolds(s, g, hi)
    BY <1>1
  <1>3. g = [i \in lo .. hi |-> IF i = lo THEN First(s, i) ELSE Step(s, g[i-1], i)]
    BY <1>2 DEF Unfolds
  <1> DEFINE F == CHOOSE f : f = [i \in lo .. hi |-> IF i = lo THEN First(s, i) ELSE Step(s, f[i-1], i)]
  <1>4. F = [i \in lo .. hi |-> IF i = lo THEN First(s, i) ELSE Step(s, F[i-1], i)]
    BY <1>3
  <1>5. F = g
    <2> DEFINE D == {i \in lo .. hi : F[i] # g[i]}
    <2> SUFFICES ASSUME D # {} PROVE FALSE
      BY <1>2, <1>4
    <2>0. D \in SUBSET Nat
      OBVIOUS
    <2>1. PICK m \in D : \A k \in D : m <= k
      BY <2>0, NatSubsetHasMin
    <2>2. F[m] = IF m = lo THEN First(s, m) ELSE Step(s, F[m-1], m)
      BY <1>4, <2>1
    <2>3. g[m] = IF m = lo THEN First(s, m) ELSE Step(s, g[m-1], m)
      BY <1>3, <2>1
    <2>4. m # lo => F[m-1] = g[m-1]
      BY <2>1
    <2>5. QED
      BY <2>1, <2>2, <2>3, <2>4
  <1>6. F \in [lo .. hi -> S] /\ Unfolds(s, F, hi)
    BY <1>2, <1>5, Zenon
  <1>7. QED
    BY <1>6 DEF Unfolds

(* In particular its last value is in S. *)
THEOREM RecursiveFcnTyped ==
  ASSUME NEW s, Lo \in Nat, Hi(s) \in Nat, Lo <= Hi(s), NEW S,
         First(s, Lo) \in S,
         \A p \in S, i \in Lo + 1 .. Hi(s) : Step(s, p, i) \in S
  PROVE  LET f[i \in Lo .. Hi(s)] == IF i = Lo THEN First(s, i) ELSE Step(s, f[i-1], i)
         IN  f[Hi(s)] \in S
  <1> DEFINE F == CHOOSE f : f = [i \in Lo .. Hi(s) |-> IF i = Lo THEN First(s, i) ELSE Step(s, f[i-1], i)]
  <1>1. F \in [Lo .. Hi(s) -> S]
    BY RecursiveFcnUnfolds, Zenon
  <1>2. Hi(s) \in Lo .. Hi(s)
    OBVIOUS
  <1>3. QED
    BY <1>1, <1>2
=============================================================================
