-------------------------- MODULE RecursiveFunctions --------------------------
(***************************************************************************)
(* That a recursive definition of a function has a solution is proved here *)
(* once, for values that depend on one value each.                         *)
(***************************************************************************)
EXTENDS Integers, WellFoundedInduction, TLAPS

\* Of natural numbers there is a least one.
LEMMA LeastNumber ==
  ASSUME NEW S \in SUBSET Nat, S # {}
  PROVE  \E p \in S : \A q \in S : p <= q
<1> DEFINE R == OpToRel(<, Nat)
<1>1. IsWellFoundedOn(R, Nat)
  BY NatLessThanWellFounded
<1>2. \A p, q \in Nat : q < p => <<q, p>> \in R
  BY DEF OpToRel
<1> HIDE DEF R
<1>3. PICK p \in S : \A q \in S : ~(<<q, p>> \in R)
  BY <1>1, WFMin, Zenon
<1>4. \A q \in S : p <= q
  <2> TAKE q \in S
  <2>1. p \in Nat /\ q \in Nat /\ ~(q < p)
    BY <1>2, <1>3
  <2> QED
    BY <2>1
<1> QED
  BY <1>4

\* In a forest `up` leads out of every set of elements somewhere.
Forest(D, up) == \A S \in SUBSET D : S # {} => \E p \in S : up[p] \notin S

\* f has at p what `step` makes of its value above p.
Unfolds(f, D, up, base, step) ==
    \A p \in D : f[p] = IF up[p] \in D THEN step[p][f[up[p]]] ELSE base[p]

LEMMA ForestRecursion ==
  ASSUME NEW D, NEW up, Forest(D, up),
         NEW V, NEW base \in [D -> V], NEW step \in [D -> [V -> V]]
  PROVE  \E f \in [D -> V] : Unfolds(f, D, up, base, step)
<1> USE DEF Forest, Unfolds
<1> DEFINE Closed  == {E \in SUBSET D : \A p \in E : up[p] \in D => up[p] \in E}
           Holds(g, p) == g[p] = IF up[p] \in D THEN step[p][g[up[p]]] ELSE base[p]
           Partial == {g \in UNION {[E -> V] : E \in Closed} :
                          \A p \in DOMAIN g : Holds(g, p)}
<1>1. ASSUME NEW g \in Partial
      PROVE  /\ DOMAIN g \in Closed /\ g \in [DOMAIN g -> V]
             /\ \A p \in DOMAIN g : Holds(g, p)
  OBVIOUS
<1>2. ASSUME NEW g \in Partial, NEW h \in Partial
      PROVE  \A p \in DOMAIN g \cap DOMAIN h : g[p] = h[p]
  <2> DEFINE B == {p \in DOMAIN g \cap DOMAIN h : g[p] # h[p]}
  <2> SUFFICES ASSUME B # {} PROVE FALSE
    OBVIOUS
  <2>1. PICK p \in B : up[p] \notin B
    BY <1>1
  <2>2. up[p] \in D => up[p] \in DOMAIN g \cap DOMAIN h
    BY <1>1
  <2>3. g[p] = h[p]
    BY <1>1, <2>1, <2>2
  <2> QED
    BY <2>3
<1>3. \A p \in D : \E g \in Partial : p \in DOMAIN g
  <2> DEFINE B == {p \in D : ~ \E g \in Partial : p \in DOMAIN g}
  <2> SUFFICES ASSUME B # {} PROVE FALSE
    OBVIOUS
  <2>1. PICK p \in B : up[p] \notin B
    OBVIOUS
  <2>2. CASE up[p] \notin D
    <3> DEFINE g == [q \in {p} |-> base[p]]
    <3>1. {p} \in Closed
      BY <2>2
    <3>2. g \in [{p} -> V]
      OBVIOUS
    <3>3. \A q \in DOMAIN g : Holds(g, q)
      BY <2>2
    <3> QED
      BY <3>1, <3>2, <3>3
  <2>3. CASE up[p] \in D
    <3>1. PICK g \in Partial : up[p] \in DOMAIN g
      BY <2>1, <2>3
    <3> DEFINE E == DOMAIN g \cup {p}
               h == [q \in E |-> IF q = p THEN step[p][g[up[p]]] ELSE g[q]]
    <3>2. p \notin DOMAIN g
      OBVIOUS
    <3>3. E \in Closed
      BY <1>1, <3>1
    <3>4. h \in [E -> V]
      BY <1>1, <3>1
    <3>5. Holds(h, p)
      BY <1>1, <2>3, <3>1, <3>2
    <3>6. ASSUME NEW q \in DOMAIN g PROVE Holds(h, q)
      <4>1. h[q] = g[q] /\ (up[q] \in D => up[q] \in DOMAIN g /\ h[up[q]] = g[up[q]])
        BY <1>1, <3>2
      <4> QED
        BY <1>1, <4>1
    <3>7. h \in Partial
      <4>1. \A q \in DOMAIN h : Holds(h, q)
        BY <3>5, <3>6
      <4> HIDE DEF h
      <4> QED
        BY <3>3, <3>4, <4>1
    <3> QED
      BY <3>7
  <2> QED
    BY <2>2, <2>3
<1> DEFINE f == [p \in D |-> (CHOOSE g \in Partial : p \in DOMAIN g)[p]]
<1>4. ASSUME NEW g \in Partial, NEW p \in DOMAIN g PROVE f[p] = g[p]
  <2> DEFINE h == CHOOSE k \in Partial : p \in DOMAIN k
  <2>1. p \in D /\ h \in Partial /\ p \in DOMAIN h
    BY <1>1, <1>3
  <2>2. f[p] = h[p]
    BY <2>1
  <2> HIDE DEF h, Partial
  <2> QED
    BY <1>2, <2>1, <2>2
<1>5. ASSUME NEW p \in D
      PROVE  f[p] \in V /\ Holds(f, p)
  <2>1. PICK g \in Partial : p \in DOMAIN g
    BY <1>3
  <2>2. f[p] = g[p] /\ (up[p] \in D => up[p] \in DOMAIN g /\ f[up[p]] = g[up[p]])
    BY <1>1, <1>4, <2>1
  <2> HIDE DEF f
  <2> QED
    BY <1>1, <2>1, <2>2
<1>6. f \in [D -> V]
  BY <1>5
<1> QED
  BY <1>5, <1>6
===============================================================================
