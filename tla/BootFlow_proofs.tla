---------------------------- MODULE BootFlow_proofs ----------------------------
(***************************************************************************)
(* What holds of every search and every boot, whatever the machine, its    *)
(* config and the user are.                                                *)
(***************************************************************************)
EXTENDS BootFlow, RecursiveFunctions, SequenceTheorems, TLAPS

-------------------------------------------------------------------------------
(* The paths of a config. *)

Parent(w, p) == w.partitions[p].parent
Uuid(w, p)   == w.partitions[p].uuid

\* ParentsEnd, of one world.
PathsEnd(w) == \A S \in SUBSET DOMAIN w.partitions :
                   S # {} => \E p \in S : Parent(w, p) \notin S

Path(w) == CHOOSE path : path = [p \in DOMAIN w.partitions |->
               IF w.partitions[p].parent = None THEN <<p>>
               ELSE Append(path[w.partitions[p].parent], p)]

LEMMA PathOfPath == \A p : PathOf(p) = Path(world)[p]
BY DEF PathOf, Path, Partition

\* Sequences that are not empty.
LEMMA Appended ==
  ASSUME NEW D, NEW q \in D
  PROVE  /\ <<q>> \in Seq(D) \ {<<>>}
         /\ \A s \in Seq(D) : Append(s, q) \in Seq(D) \ {<<>>}
<1>1. <<q>> \in Seq(D) /\ <<q>> # <<>>
  OBVIOUS
<1>2. ASSUME NEW s \in Seq(D) PROVE Append(s, q) \in Seq(D) /\ Append(s, q) # <<>>
  BY AppendProperties
<1> QED
  BY <1>1, <1>2

\* A path is that of the parent and what comes after it.
LEMMA PathEquation ==
  ASSUME NEW w, ConfigIsWhole(w), PathsEnd(w), NEW p \in DOMAIN w.partitions
  PROVE  /\ Path(w)[p] \in Seq(DOMAIN w.partitions) \ {<<>>}
         /\ Parent(w, p) = None => Path(w)[p] = <<p>>
         /\ Parent(w, p) # None => Path(w)[p] = Append(Path(w)[Parent(w, p)], p)
<1> DEFINE D    == DOMAIN w.partitions
           up   == [q \in D |-> Parent(w, q)]
           V    == Seq(D) \ {<<>>}
           base == [q \in D |-> <<q>>]
           step == [q \in D |-> [s \in V |-> Append(s, q)]]
           Is(f) == f = [q \in D |->
                           IF w.partitions[q].parent = None THEN <<q>>
                           ELSE Append(f[w.partitions[q].parent], q)]
<1>1. \A q \in D : up[q] \in D \cup {None}
  BY DEF ConfigIsWhole, Parent
<1>2. None \notin D
  BY DEF ConfigIsWhole
<1>3. Forest(D, up)
  BY DEF PathsEnd, Forest
<1>4. base \in [D -> V] /\ step \in [D -> [V -> V]]
  BY Appended
<1>5. PICK f \in [D -> V] : Unfolds(f, D, up, base, step)
  <2> HIDE DEF D, up, V, base, step
  <2> QED
    BY <1>3, <1>4, ForestRecursion
<1>6. Is(f)
  <2>1. ASSUME NEW q \in D
        PROVE  f[q] = IF Parent(w, q) = None THEN <<q>> ELSE Append(f[Parent(w, q)], q)
    BY Zenon, <1>1, <1>2, <1>5 DEF Unfolds
  <2> QED
    BY <2>1 DEF Parent
<1>7. Is(Path(w))
  BY Zenon, <1>6 DEF Path
<1> DEFINE g == Path(w)
<1>8. \A q \in D : g[q] = IF Parent(w, q) = None THEN <<q>> ELSE Append(g[Parent(w, q)], q)
  BY <1>7 DEF Parent
<1> HIDE DEF g
<1>9. \A q \in D : g[q] \in V
  <2> SUFFICES ASSUME {q \in D : g[q] \notin V} # {} PROVE FALSE
    OBVIOUS
  <2>1. PICK q \in {q \in D : g[q] \notin V} : up[q] \notin {r \in D : g[r] \notin V}
    BY <1>3 DEF Forest
  <2>2. Parent(w, q) # None => g[Parent(w, q)] \in V
    BY <1>1, <2>1
  <2>3. q \in D /\ <<q>> \in V /\ \A s \in V : Append(s, q) \in V
    BY Appended
  <2>4. g[q] \in V
    <3> HIDE DEF V, D
    <3> QED
      BY <1>8, <2>2, <2>3
  <2> QED
    BY <2>1, <2>4
<1> QED
  BY <1>8, <1>9 DEF g

-------------------------------------------------------------------------------
(* What is stored in what. *)

\* Above, ChainOf and DrivesOf, of one world.
Holders(w, n) == {m \in DOMAIN w.nodes : n \in Range(w.nodes[m].kids)}
Holder(w, n)  == CHOOSE a \in Holders(w, n) : TRUE
Chain(w) == CHOOSE chain : chain = [m \in DOMAIN w.nodes |->
    LET above == IF Holders(w, m) = {} THEN <<>> ELSE chain[CHOOSE a \in Holders(w, m) : TRUE]
    IN  IF w.nodes[m].kind = "gpt" THEN above ELSE Append(above, w.nodes[m].uuid)]
Root(w) == CHOOSE root : root = [m \in DOMAIN w.nodes |->
    IF Holders(w, m) = {} THEN m ELSE root[CHOOSE a \in Holders(w, m) : TRUE]]

\* The uuids of what n lies in.
Outside(w, n) == IF Holders(w, n) = {} THEN <<>> ELSE Chain(w)[Holder(w, n)]

LEMMA ChainOfChain == \A n : ChainOf(n) = Chain(world)[n]
BY DEF ChainOf, Chain, Above, Node, Holders

LEMMA DrivesOfRoot ==
  \A n : DrivesOf(n) = {d \in 1..Len(world.drives) : world.drives[d].root = Root(world)[n]}
BY DEF DrivesOf, Root, Above, Node, Drive, Holders

\* A node in its one holder.
LEMMA Nesting ==
  ASSUME NEW w, StorageIsNested(w)
  PROVE  /\ \A n, m \in DOMAIN w.nodes : n \in Parts(w, m) => Holders(w, n) = {m} /\ Holder(w, n) = m
         /\ \A n \in DOMAIN w.nodes : Holders(w, n) # {} => Holder(w, n) \in Holders(w, n)
         /\ Forest(DOMAIN w.nodes, [n \in DOMAIN w.nodes |->
                                     IF Holders(w, n) = {} THEN None ELSE Holder(w, n)])
<1>1. ASSUME NEW n \in DOMAIN w.nodes, NEW m \in DOMAIN w.nodes, n \in Parts(w, m)
      PROVE  Holders(w, n) = {m} /\ Holder(w, n) = m
  <2>1. \A k \in DOMAIN w.nodes : n \in Parts(w, k) => k = m
    BY <1>1 DEF StorageIsNested
  <2>2. Holders(w, n) = {m}
    BY <1>1, <2>1 DEF Holders, Parts
  <2> QED
    BY <2>2 DEF Holder
<1>2. ASSUME NEW n \in DOMAIN w.nodes, Holders(w, n) # {}
      PROVE  Holder(w, n) \in Holders(w, n)
  BY <1>2 DEF Holder
<1> DEFINE up == [n \in DOMAIN w.nodes |-> IF Holders(w, n) = {} THEN None ELSE Holder(w, n)]
<1>3. ASSUME NEW S \in SUBSET DOMAIN w.nodes, S # {}
      PROVE  \E n \in S : up[n] \notin S
  <2>1. PICK n \in S : \A m \in S : n \notin Parts(w, m)
    BY <1>3 DEF StorageIsNested
  <2>2. Holders(w, n) \cap S = {} /\ None \notin S
    BY <2>1 DEF Holders, Parts, StorageIsNested
  <2> QED
    BY <1>2, <2>2
<1> QED
  BY <1>1, <1>2, <1>3 DEF Forest

\* A chain is that of the holder and, but for a GPT, what it holds.
LEMMA ChainEquation ==
  ASSUME NEW w, StorageIsNested(w), NEW n \in DOMAIN w.nodes
  PROVE  /\ Outside(w, n) \in Seq({w.nodes[m].uuid : m \in DOMAIN w.nodes})
         /\ w.nodes[n].kind = "gpt" => Chain(w)[n] = Outside(w, n)
         /\ w.nodes[n].kind # "gpt" => Chain(w)[n] = Append(Outside(w, n), w.nodes[n].uuid)
<1> DEFINE D    == DOMAIN w.nodes
           U    == {w.nodes[m].uuid : m \in D}
           up   == [m \in D |-> IF Holders(w, m) = {} THEN None ELSE Holder(w, m)]
           V    == Seq(U)
           To(m, s) == IF w.nodes[m].kind = "gpt" THEN s ELSE Append(s, w.nodes[m].uuid)
           base == [m \in D |-> To(m, <<>>)]
           step == [m \in D |-> [s \in V |-> To(m, s)]]
           Is(f) == f = [m \in D |->
                LET above == IF Holders(w, m) = {} THEN <<>>
                             ELSE f[CHOOSE a \in Holders(w, m) : TRUE]
                IN  IF w.nodes[m].kind = "gpt" THEN above ELSE Append(above, w.nodes[m].uuid)]
<1>1. None \notin D /\ \A m \in D : Holders(w, m) # {} => Holder(w, m) \in D
  BY Nesting DEF StorageIsNested, Holders
<1>2. Forest(D, up)
  BY Nesting
<1>3. <<>> \in V /\ \A m \in D, s \in V : To(m, s) \in V
  BY EmptySeq, AppendProperties
<1>4. base \in [D -> V] /\ step \in [D -> [V -> V]]
  BY <1>3
<1>5. PICK f \in [D -> V] : Unfolds(f, D, up, base, step)
  <2> HIDE DEF D, up, V, base, step
  <2> QED
    BY <1>2, <1>4, ForestRecursion
<1>6. Is(f)
  <2>1. ASSUME NEW m \in D
        PROVE  f[m] = To(m, IF Holders(w, m) = {} THEN <<>> ELSE f[Holder(w, m)])
    BY Zenon, <1>1, <1>5 DEF Unfolds
  <2> QED
    BY <2>1 DEF Holder
<1>7. Is(Chain(w))
  BY Zenon, <1>6 DEF Chain
<1> DEFINE g == Chain(w)
<1>8. \A m \in D : g[m] = To(m, Outside(w, m))
  BY <1>7 DEF Outside, Holder
<1>9. \A m \in D : Outside(w, m) = IF Holders(w, m) = {} THEN <<>> ELSE g[Holder(w, m)]
  BY DEF Outside
<1> HIDE DEF g
<1>10. \A m \in D : g[m] \in V
  <2> SUFFICES ASSUME {m \in D : g[m] \notin V} # {} PROVE FALSE
    OBVIOUS
  <2>1. PICK m \in {m \in D : g[m] \notin V} : up[m] \notin {r \in D : g[r] \notin V}
    BY <1>2 DEF Forest
  <2>2. Outside(w, m) \in V
    BY <1>1, <1>3, <1>9, <2>1
  <2> QED
    BY <1>3, <1>8, <2>1, <2>2
<1>11. Outside(w, n) \in V
  BY <1>1, <1>3, <1>9, <1>10
<1> QED
  BY <1>8, <1>11 DEF g

\* What is in a node is on the same drives.
LEMMA RootEquation ==
  ASSUME NEW w, StorageIsNested(w), NEW n \in DOMAIN w.nodes
  PROVE  /\ Holders(w, n) = {} => Root(w)[n] = n
         /\ Holders(w, n) # {} => Root(w)[n] = Root(w)[Holder(w, n)]
<1> DEFINE D    == DOMAIN w.nodes
           up   == [m \in D |-> IF Holders(w, m) = {} THEN None ELSE Holder(w, m)]
           base == [m \in D |-> m]
           step == [m \in D |-> [r \in D |-> r]]
           Is(f) == f = [m \in D |->
                IF Holders(w, m) = {} THEN m ELSE f[CHOOSE a \in Holders(w, m) : TRUE]]
<1>1. None \notin D /\ \A m \in D : Holders(w, m) # {} => Holder(w, m) \in D
  BY Nesting DEF StorageIsNested, Holders
<1>2. Forest(D, up)
  BY Nesting
<1>3. base \in [D -> D] /\ step \in [D -> [D -> D]]
  OBVIOUS
<1>4. PICK f \in [D -> D] : Unfolds(f, D, up, base, step)
  <2> HIDE DEF D, up, base, step
  <2> QED
    BY <1>2, <1>3, ForestRecursion
<1>5. Is(f)
  <2>1. ASSUME NEW m \in D
        PROVE  f[m] = IF Holders(w, m) = {} THEN m ELSE f[Holder(w, m)]
    BY <1>1, <1>4 DEF Unfolds
  <2> QED
    BY <2>1 DEF Holder
<1>6. Is(Root(w))
  BY <1>5 DEF Root
<1> QED
  BY <1>6 DEF Holder

-------------------------------------------------------------------------------
(* The drives in the order of the firmware. *)

DeviceList(n, dropped) == CHOOSE listed : listed = [d \in 0..n |->
    IF d = 0 THEN <<>>
    ELSE IF d \in dropped THEN listed[d - 1] ELSE Append(listed[d - 1], d)]

LEMMA DevicesAreListed ==
  \A dropped : block_devices(dropped) = DeviceList(Len(world.drives), dropped)[Len(world.drives)]
BY DEF block_devices, DeviceList

\* Only drives are listed, and all of them that are not dropped.
LEMMA ListEquation ==
  ASSUME NEW n \in Nat, NEW dropped
  PROVE  /\ DeviceList(n, dropped)[n] \in Seq(1..n)
         /\ \A e \in (1..n) \ dropped :
               \E j \in 1..Len(DeviceList(n, dropped)[n]) : DeviceList(n, dropped)[n][j] = e
<1> DEFINE D    == 0..n
           up   == [d \in D |-> d - 1]
           V    == Seq(1..n)
           base == [d \in D |-> <<>>]
           step == [d \in D |-> [s \in V |-> IF d = 0 \/ d \in dropped THEN s ELSE Append(s, d)]]
           Is(f) == f = [d \in D |-> IF d = 0 THEN <<>>
                           ELSE IF d \in dropped THEN f[d - 1] ELSE Append(f[d - 1], d)]
<1>1. ASSUME NEW S \in SUBSET D, S # {}
      PROVE  \E p \in S : \A q \in S : p <= q
  BY <1>1, LeastNumber
<1>2. Forest(D, up)
  <2> SUFFICES ASSUME NEW S \in SUBSET D, S # {} PROVE \E p \in S : up[p] \notin S
    BY DEF Forest
  <2>1. PICK p \in S : \A q \in S : p <= q
    BY <1>1
  <2> QED
    BY <2>1
<1>3. <<>> \in V /\ \A d \in D, s \in V : d # 0 => Append(s, d) \in V
  BY EmptySeq, AppendProperties
<1>4. base \in [D -> V] /\ step \in [D -> [V -> V]]
  BY <1>3
<1>5. PICK f \in [D -> V] : Unfolds(f, D, up, base, step)
  <2> HIDE DEF D, up, V, base, step
  <2> QED
    BY <1>2, <1>4, ForestRecursion
<1>6. Is(f)
  <2>1. ASSUME NEW d \in D
        PROVE  f[d] = IF d = 0 THEN <<>>
                      ELSE IF d \in dropped THEN f[d - 1] ELSE Append(f[d - 1], d)
    <3>1. CASE d = 0
      <4>1. up[d] \notin D
        BY <3>1
      <4>2. f[d] = base[d]
        BY <1>5, <4>1 DEF Unfolds
      <4> QED
        BY <3>1, <4>2
    <3>2. CASE d # 0
      <4>1. up[d] = d - 1 /\ d - 1 \in D
        BY <3>2
      <4>2. f[d - 1] \in V /\ f[d] = step[d][f[d - 1]]
        BY <1>5, <4>1 DEF Unfolds
      <4> QED
        BY <3>2, <4>2
    <3> QED
      BY <3>1, <3>2
  <2> QED
    BY <2>1
<1>7. Is(DeviceList(n, dropped))
  BY <1>6 DEF DeviceList
<1> DEFINE g == DeviceList(n, dropped)
<1>8. \A d \in D : g[d] = IF d = 0 THEN <<>>
                          ELSE IF d \in dropped THEN g[d - 1] ELSE Append(g[d - 1], d)
  BY <1>7
<1> HIDE DEF g
<1>9. \A d \in D : g[d] \in V
  <2> SUFFICES ASSUME {d \in D : g[d] \notin V} # {} PROVE FALSE
    OBVIOUS
  <2>1. PICK d \in {d \in D : g[d] \notin V} : \A e \in {e \in D : g[e] \notin V} : d <= e
    BY <1>1
  <2>2. d # 0
    BY <1>3, <1>8, <2>1
  <2>3. d - 1 \in D /\ g[d - 1] \in V
    BY <2>1, <2>2
  <2> QED
    BY <1>3, <1>8, <2>1, <2>2, <2>3
<1> DEFINE Has(d, e) == \E j \in 1..Len(g[d]) : g[d][j] = e
<1>10. \A d \in D : \A e \in (1..d) \ dropped : Has(d, e)
  <2> DEFINE B == {d \in D : ~ \A e \in (1..d) \ dropped : Has(d, e)}
  <2> SUFFICES ASSUME B # {} PROVE FALSE
    OBVIOUS
  <2>1. PICK d \in B : \A e \in B : d <= e
    BY <1>1
  <2>2. PICK e \in (1..d) \ dropped : ~Has(d, e)
    BY <2>1
  <2>3. d \in Nat /\ d # 0 /\ d - 1 \in D /\ d - 1 \notin B
    <3>1. d \in 0..n /\ d >= 1
      BY <2>1, <2>2
    <3>2. d - 1 \notin B
      <4> HIDE DEF B
      <4> QED
        BY <2>1, <3>1
    <3> QED
      BY <3>1, <3>2
  <2>4. \A x \in (1..(d - 1)) \ dropped : Has(d - 1, x)
    BY <2>3
  <2>5. g[d - 1] \in V /\ d \in D
    BY <1>9, <2>1, <2>3
  <2> HIDE DEF B
  <2>6. CASE d \in dropped
    <3>1. g[d] = g[d - 1] /\ e \in (1..(d - 1)) \ dropped
      BY <1>8, <2>2, <2>3, <2>5, <2>6
    <3> QED
      BY <2>2, <2>4, <3>1
  <2>7. CASE d \notin dropped
    <3>1. g[d] = Append(g[d - 1], d)
      BY <1>8, <2>3, <2>5, <2>7
    <3>2. /\ Len(g[d]) = Len(g[d - 1]) + 1 /\ g[d][Len(g[d])] = d /\ Len(g[d - 1]) \in Nat
          /\ \A j \in 1..Len(g[d - 1]) : g[d][j] = g[d - 1][j]
      <4>1. d \in 1..n
        BY <2>3, <2>5
      <4> QED
        BY <2>5, <3>1, <4>1, AppendProperties
    <3>3. e = d \/ e \in (1..(d - 1)) \ dropped
      BY <2>2, <2>3
    <3>4. CASE e = d
      <4>1. Len(g[d]) \in 1..Len(g[d])
        BY <3>2
      <4> QED
        BY <2>2, <3>2, <3>4, <4>1
    <3>5. CASE e # d
      <4>1. PICK j \in 1..Len(g[d - 1]) : g[d - 1][j] = e
        BY <2>4, <3>3, <3>5
      <4>2. j \in 1..Len(g[d]) /\ g[d][j] = e
        BY <3>2, <4>1
      <4> QED
        BY <2>2, <4>2
    <3> QED
      BY <3>4, <3>5
  <2> QED
    BY <2>6, <2>7
<1>11. n \in D /\ g[n] \in V /\ \A e \in (1..n) \ dropped : Has(n, e)
  BY <1>9, <1>10
<1> QED
  BY <1>11 DEF g

-------------------------------------------------------------------------------
(* The stack. *)

\* A sequence, of whatever it is made of.
IsSequence(s) == s \in Seq(Range(s))

LEMMA FrontOf ==
  ASSUME NEW S, NEW s \in Seq(S), s # <<>>
  PROVE  /\ Len(s) \in Nat \ {0} /\ Last(s) = s[Len(s)]
         /\ Front(s) \in Seq(S) /\ Len(Front(s)) = Len(s) - 1
         /\ \A j \in 1..(Len(s) - 1) : Front(s)[j] = s[j]
<1> DEFINE m == Len(s) - 1
<1>1. Len(s) \in Nat \ {0}
  BY EmptySeq
<1>2. m \in Int /\ \A j \in 1..m : s[j] \in S
  BY <1>1
<1>3. /\ SubSeq(s, 1, m) \in Seq(S)
      /\ Len(SubSeq(s, 1, m)) = IF 1 <= m THEN m - 1 + 1 ELSE 0
      /\ \A j \in 1..(m - 1 + 1) : SubSeq(s, 1, m)[j] = s[1 + j - 1]
  <2> HIDE DEF m
  <2> QED
    BY <1>2, SubSeqProperties
<1>4. /\ SubSeq(s, 1, m) \in Seq(S) /\ Len(SubSeq(s, 1, m)) = m
      /\ \A j \in 1..m : SubSeq(s, 1, m)[j] = s[j]
  <2>1. m \in Nat
    BY <1>1
  <2> DEFINE q == SubSeq(s, 1, m)
  <2> HIDE DEF m, q
  <2>2. Len(q) = m /\ \A j \in 1..m : q[j] = s[j]
    BY <1>3, <2>1 DEF q
  <2> QED
    BY <1>3, <2>2 DEF q
<1> QED
  BY <1>1, <1>4 DEF Front, Last

LEMMA BecomeStack ==
  ASSUME IsSequence(stack), stack # <<>>, NEW f, Become(f)
  PROVE  /\ Len(stack) \in Nat \ {0} /\ Top = stack[Len(stack)]
         /\ IsSequence(stack') /\ Len(stack') = Len(stack) /\ stack'[Len(stack)] = f
         /\ \A j \in 1..(Len(stack) - 1) : stack'[j] = stack[j]
<1> DEFINE n == Len(stack)
           S == Range(stack) \cup {f}
<1>1. stack \in Seq(S) /\ f \in S
  BY SeqMonotonic DEF IsSequence
<1>2. /\ n \in Nat \ {0} /\ Top = stack[n]
      /\ Front(stack) \in Seq(S) /\ Len(Front(stack)) = n - 1
      /\ \A j \in 1..(n - 1) : Front(stack)[j] = stack[j]
  BY <1>1, FrontOf DEF Top
<1>3. stack' = Append(Front(stack), f)
  BY DEF Become
<1> HIDE DEF S
<1>4. /\ stack' \in Seq(S) /\ Len(stack') = n /\ stack'[n] = f
      /\ \A j \in 1..(n - 1) : stack'[j] = stack[j]
  BY <1>1, <1>2, <1>3, AppendProperties
<1>5. IsSequence(stack')
  BY <1>4, SeqOfRange DEF IsSequence
<1> QED
  BY <1>2, <1>4, <1>5

LEMMA ReturnStack ==
  ASSUME IsSequence(stack), stack # <<>>, NEW r, Return(r)
  PROVE  /\ Len(stack) \in Nat \ {0} /\ Top = stack[Len(stack)]
         /\ IsSequence(stack') /\ Len(stack') = Len(stack) - 1
         /\ \A j \in 1..(Len(stack) - 1) : stack'[j] = stack[j]
<1> DEFINE n == Len(stack)
           S == Range(stack)
<1>1. /\ n \in Nat \ {0} /\ Top = stack[n]
      /\ Front(stack) \in Seq(S) /\ Len(Front(stack)) = n - 1
      /\ \A j \in 1..(n - 1) : Front(stack)[j] = stack[j]
  BY FrontOf DEF Top, IsSequence
<1>2. stack' = Front(stack)
  BY DEF Return
<1> QED
  BY <1>1, <1>2, SeqOfRange DEF IsSequence

LEMMA CallStack ==
  ASSUME IsSequence(stack), stack # <<>>, NEW f, NEW g, Call(f, g), Len(stack) < MaxDepth
  PROVE  /\ Len(stack) \in Nat \ {0} /\ Top = stack[Len(stack)]
         /\ IsSequence(stack') /\ Len(stack') = Len(stack) + 1
         /\ stack'[Len(stack)] = f /\ stack'[Len(stack) + 1] = g
         /\ \A j \in 1..(Len(stack) - 1) : stack'[j] = stack[j]
<1> DEFINE n == Len(stack)
           S == Range(stack) \cup {f, g}
<1>1. stack \in Seq(S) /\ <<f, g>> \in Seq(S) /\ Len(<<f, g>>) = 2
  <2>1. Range(stack) \subseteq S /\ f \in S /\ g \in S
    OBVIOUS
  <2> HIDE DEF S
  <2> QED
    BY <2>1, SeqMonotonic DEF IsSequence
<1>2. /\ n \in Nat \ {0} /\ Top = stack[n]
      /\ Front(stack) \in Seq(S) /\ Len(Front(stack)) = n - 1
      /\ \A j \in 1..(n - 1) : Front(stack)[j] = stack[j]
  BY <1>1, FrontOf DEF Top
<1>3. stack' = Front(stack) \o <<f, g>>
  BY DEF Call
<1> HIDE DEF S
<1>4. /\ stack' \in Seq(S) /\ Len(stack') = n + 1
      /\ \A j \in 1..(n + 1) :
            stack'[j] = IF j <= n - 1 THEN stack[j] ELSE <<f, g>>[j - (n - 1)]
  BY <1>1, <1>2, <1>3, ConcatProperties
<1>5. IsSequence(stack')
  BY <1>4, SeqOfRange DEF IsSequence
<1> QED
  BY <1>2, <1>4, <1>5

-------------------------------------------------------------------------------
(* The frames on the stack, in a world w. *)

Stored(w) == UNION {Range(w.nodes[n].files) : n \in DOMAIN w.nodes}
FilesIn(w, e) ==
    <<w.entries[e].image>> \o w.entries[e].initrd \o w.entries[e].additional_initrd_files

IsMain(w, f) == f \in [fn : {"main"}, at : {"load", "read", "decode", "run", "exit"}]
IsEntry(w, f) ==
    /\ f.fn = "handle_boot_entry"
    /\ f \in [fn : {"handle_boot_entry"}, entry : DOMAIN w.entries,
              at : {"extra", "files", "esp", "load", "confirm", "start"}, i : Nat \ {0},
              contents : Seq(Stored(w)), file_path : {f.file_path}]
IsUnlockAll(w, f) ==
    f \in [fn : {"handle_unlock_configured_opal_drives"}, devices : Seq(1..Len(w.drives)),
           i : Nat \ {0}]
IsResolve(w, f) ==
    f \in [fn : {"resolve_and_read_file"}, file : Files(w), current : DOMAIN w.partitions,
           path : Seq(DOMAIN w.partitions)]
IsSearch(w, f) ==
    f \in [fn : {"find_read_file"}, file : Files(w), path : Seq(DOMAIN w.partitions) \ {<<>>},
           devices : Seq(1..Len(w.drives)), i : Nat \ {0},
           at : {"drive", "open", "unlocking", "probing"}]

\* A LUKS device that is worked on is the one that is named, and has a keyslot.
IsProbe(w, f) ==
    /\ f \in [fn : {"find_read_file_internal"}, node : DOMAIN w.nodes \cup {None},
              path : Seq(DOMAIN w.partitions), file : Files(w), kid : Nat \ {0},
              at : {"start", "inside", "password"}]
    /\ f.at # "start" =>
          /\ f.node \in DOMAIN w.nodes /\ w.nodes[f.node].kind = "luks" /\ f.path # <<>>
          /\ w.nodes[f.node].uuid = w.partitions[Head(f.path)].uuid
          /\ w.partitions[Head(f.path)].keyslot # None
IsUnlock(w, f) ==
    f \in [fn : {"unlock_opal"}, drive : 1..Len(w.drives), keyslot : DOMAIN w.keyslots]
IsPassword(w, f) ==
    f \in [fn : {"get_password_of_keyslot"}, keyslot : DOMAIN w.keyslots,
           cached : {"Cached", "Discard"}]

Frame(w, f) ==
    \/ IsMain(w, f) \/ IsEntry(w, f) \/ IsUnlockAll(w, f) \/ IsResolve(w, f) \/ IsSearch(w, f)
    \/ IsProbe(w, f) \/ IsUnlock(w, f) \/ IsPassword(w, f)

\* The file that c waits for.
WaitsFor(w, c, file) ==
    \/ c.fn = "get_password_of_keyslot" /\ file = w.keyslots[c.keyslot]
    \/ /\ c.fn = "handle_boot_entry" /\ c.at = "files"
       /\ c.i <= Len(FilesIn(w, c.entry)) /\ file = FilesIn(w, c.entry)[c.i]

\* c has called f and waits for it.
Calls(w, c, f) ==
    \/ f.fn \in {"handle_boot_entry", "handle_unlock_configured_opal_drives"} /\ c.fn = "main"
    \/ f.fn = "resolve_and_read_file" /\ WaitsFor(w, c, f.file)
    \/ /\ f.fn = "find_read_file"
       /\ \/ WaitsFor(w, c, f.file)
          \/ c.fn = "handle_boot_entry" /\ c.at = "extra"
    \/ /\ f.fn = "find_read_file_internal"
       /\ \/ c.fn = "find_read_file" /\ c.at = "probing"
          \/ c.fn = "find_read_file_internal" /\ c.at # "password"
       /\ c.file = f.file
    \/ /\ f.fn = "unlock_opal"
       /\ \/ c.fn = "find_read_file" /\ c.at = "unlocking"
          \/ c.fn = "handle_unlock_configured_opal_drives"
       /\ c.i <= Len(c.devices) /\ f.drive = c.devices[c.i]
    \/ /\ f.fn = "get_password_of_keyslot"
       /\ \/ c.fn = "unlock_opal" /\ c.keyslot = f.keyslot
          \/ /\ c.fn = "find_read_file_internal" /\ c.at = "password"
             /\ w.partitions[Head(c.path)].keyslot = f.keyslot

StackOK(w, s) ==
    /\ IsSequence(s) /\ Len(s) \in 1..MaxDepth
    /\ \A j \in 1..Len(s) : Frame(w, s[j]) /\ (s[j].fn = "main" <=> j = 1)
    /\ \A j \in 2..Len(s) : Calls(w, s[j - 1], s[j])

\* c waits for the contents of a file.
Reading(c) ==
    \/ c.fn = "find_read_file" /\ c.at = "probing"
    \/ c.fn = "find_read_file_internal" /\ c.at # "password"
    \/ c.fn = "handle_boot_entry" /\ c.at = "files"
    \/ c.fn = "get_password_of_keyslot"

Answers(w, c, r) == r = Err \/ (r = Ok(r.value) /\ (Reading(c) => r.value \in Stored(w)))
RetOK(w, s, r) == r = None \/ Answers(w, s[Len(s)], r)

Good  == StackOK(world, stack) /\ RetOK(world, stack, ret)
Stays == StackOK(world, stack') /\ RetOK(world, stack', ret')

\* What a frame is, is said by its function.
LEMMA FrameOfFunction ==
  ASSUME NEW w, NEW f, Frame(w, f)
  PROVE  /\ f.fn \in Functions \cup Callers
         /\ f.fn = "main" => IsMain(w, f)
         /\ f.fn = "handle_boot_entry" => IsEntry(w, f)
         /\ f.fn = "handle_unlock_configured_opal_drives" => IsUnlockAll(w, f)
         /\ f.fn = "resolve_and_read_file" => IsResolve(w, f)
         /\ f.fn = "find_read_file" => IsSearch(w, f)
         /\ f.fn = "find_read_file_internal" => IsProbe(w, f)
         /\ f.fn = "unlock_opal" => IsUnlock(w, f)
         /\ f.fn = "get_password_of_keyslot" => IsPassword(w, f)
BY DEF Frame, IsMain, IsEntry, IsUnlockAll, IsResolve, IsSearch, IsProbe, IsUnlock, IsPassword,
       Functions, Callers

\* The running function.
LEMMA TopFrame ==
  ASSUME Good
  PROVE  /\ IsSequence(stack) /\ stack # <<>> /\ Len(stack) \in 1..MaxDepth
         /\ Top = stack[Len(stack)] /\ Frame(world, Top)
         /\ Top.fn = "main" <=> Len(stack) = 1
         /\ Len(stack) > 1 => Calls(world, stack[Len(stack) - 1], Top)
<1>1. IsSequence(stack) /\ Len(stack) \in 1..MaxDepth
  BY DEF Good, StackOK
<1>2. stack # <<>>
  BY <1>1, EmptySeq DEF IsSequence
<1>3. Top = stack[Len(stack)]
  BY DEF Top, Last
<1>4. Frame(world, stack[Len(stack)]) /\ (stack[Len(stack)].fn = "main" <=> Len(stack) = 1)
  <2>1. \A j \in 1..Len(stack) : Frame(world, stack[j]) /\ (stack[j].fn = "main" <=> j = 1)
    BY DEF Good, StackOK
  <2>2. Len(stack) \in 1..Len(stack)
    BY <1>1, DepthAssumption
  <2> QED
    BY <2>1, <2>2
<1>5. Len(stack) > 1 => Calls(world, stack[Len(stack) - 1], stack[Len(stack)])
  BY <1>1, DepthAssumption DEF Good, StackOK
<1> QED
  BY <1>1, <1>2, <1>3, <1>4, <1>5

\* Another frame in the place of the running one, for the same caller.
LEMMA GoodBecome ==
  ASSUME Good, NEW f, Become(f), Frame(world, f), f.fn = "main" <=> Top.fn = "main",
         \A c : Calls(world, c, Top) => Calls(world, c, f)
  PROVE  Stays
<1> DEFINE n == Len(stack)
<1>1. /\ n \in 1..MaxDepth /\ Top = stack[n]
      /\ Top.fn = "main" <=> n = 1
      /\ n > 1 => Calls(world, stack[n - 1], Top)
  BY TopFrame
<1>2. /\ IsSequence(stack') /\ Len(stack') = n /\ stack'[n] = f
      /\ \A j \in 1..(n - 1) : stack'[j] = stack[j]
  BY TopFrame, BecomeStack
<1>3. ASSUME NEW j \in 1..n PROVE Frame(world, stack'[j]) /\ (stack'[j].fn = "main" <=> j = 1)
  BY <1>1, <1>2, DepthAssumption DEF Good, StackOK
<1>4. ASSUME NEW j \in 2..n PROVE Calls(world, stack'[j - 1], stack'[j])
  <2>1. stack'[j - 1] = stack[j - 1] /\ Calls(world, stack[j - 1], stack[j])
    BY <1>2, DepthAssumption DEF Good, StackOK
  <2>2. CASE j = n
    BY <1>1, <1>2, <2>1, <2>2
  <2>3. CASE j # n
    BY <1>2, <2>1, <2>3
  <2> QED
    BY <2>2, <2>3
<1> QED
  BY <1>1, <1>2, <1>3, <1>4 DEF Stays, StackOK, RetOK, Become

\* The running function calls g; if the stack is full, the program ends here.
LEMMA GoodCall ==
  ASSUME Good, NEW f, NEW g, Call(f, g), Frame(world, f), f.fn = "main" <=> Top.fn = "main",
         \A c : Calls(world, c, Top) => Calls(world, c, f),
         Frame(world, g), g.fn # "main", Calls(world, f, g)
  PROVE  Stays
<1> DEFINE n == Len(stack)
<1>1. CASE ~(n < MaxDepth)
  BY <1>1 DEF Call, Good, RetOK, Stays
<1>2. CASE n < MaxDepth
  <2>1. /\ n \in 1..MaxDepth /\ Top = stack[n]
        /\ Top.fn = "main" <=> n = 1
        /\ n > 1 => Calls(world, stack[n - 1], Top)
    BY TopFrame
  <2>2. /\ IsSequence(stack') /\ Len(stack') = n + 1 /\ stack'[n] = f /\ stack'[n + 1] = g
        /\ \A j \in 1..(n - 1) : stack'[j] = stack[j]
    BY <1>2, TopFrame, CallStack
  <2>3. ASSUME NEW j \in 1..(n + 1)
        PROVE  Frame(world, stack'[j]) /\ (stack'[j].fn = "main" <=> j = 1)
    BY <2>1, <2>2, DepthAssumption DEF Good, StackOK
  <2>4. ASSUME NEW j \in 2..(n + 1) PROVE Calls(world, stack'[j - 1], stack'[j])
    BY <2>1, <2>2, DepthAssumption DEF Good, StackOK
  <2> QED
    BY <1>2, <2>1, <2>2, <2>3, <2>4, DepthAssumption DEF Stays, StackOK, RetOK, Call
<1> QED
  BY <1>1, <1>2

\* The running function returns to the one that called it.
LEMMA GoodReturn ==
  ASSUME Good, NEW r, Return(r), Top.fn # "main",
         \A c : Frame(world, c) /\ Calls(world, c, Top) => Answers(world, c, r)
  PROVE  Stays
<1> DEFINE n == Len(stack)
<1>1. /\ n \in 1..MaxDepth /\ Top = stack[n] /\ n > 1
      /\ Calls(world, stack[n - 1], Top) /\ Frame(world, stack[n - 1])
  BY TopFrame, DepthAssumption DEF Good, StackOK
<1>2. /\ IsSequence(stack') /\ Len(stack') = n - 1
      /\ \A j \in 1..(n - 1) : stack'[j] = stack[j]
  BY TopFrame, ReturnStack
<1>3. ASSUME NEW j \in 1..(n - 1)
      PROVE  Frame(world, stack'[j]) /\ (stack'[j].fn = "main" <=> j = 1)
  BY <1>1, <1>2, DepthAssumption DEF Good, StackOK
<1>4. ASSUME NEW j \in 2..(n - 1) PROVE Calls(world, stack'[j - 1], stack'[j])
  BY <1>1, <1>2, DepthAssumption DEF Good, StackOK
<1>5. Answers(world, stack'[n - 1], ret')
  BY <1>1, <1>2, DepthAssumption DEF Return
<1> QED
  BY <1>1, <1>2, <1>3, <1>4, <1>5, DepthAssumption DEF Stays, StackOK, RetOK

LEMMA GoodHalt ==
  ASSUME Good, NEW how, Halt(how)
  PROVE  Stays
BY DEF Halt, Good, Stays

-------------------------------------------------------------------------------
(* One step of each function. *)

LEMMA WorldIsWhole ==
  ASSUME world \in Worlds
  PROVE  /\ ConfigIsWhole(world) /\ StorageIsNested(world) /\ MenuIsWhole(world)
         /\ Len(world.drives) \in Nat /\ DOMAIN world.drives = 1..Len(world.drives)
<1>1. ConfigIsWhole(world) /\ StorageIsNested(world) /\ MenuIsWhole(world)
  BY WorldsAssumption, MenusAssumption
<1>2. world.drives \in Seq(Range(world.drives))
  BY <1>1 DEF StorageIsNested
<1> QED
  BY <1>1, <1>2

LEMMA DevicesAreDrives ==
  ASSUME world \in Worlds
  PROVE  \A dropped :
            /\ block_devices(dropped) \in Seq(1..Len(world.drives))
            /\ \A d \in 1..Len(world.drives) :
                  d \in dropped \/ \E j \in 1..Len(block_devices(dropped)) : block_devices(dropped)[j] = d
<1> DEFINE n == Len(world.drives)
<1> TAKE dropped
<1> DEFINE list == DeviceList(n, dropped)
<1>1. n \in Nat
  BY WorldIsWhole
<1>2. block_devices(dropped) = list[n]
  BY DevicesAreListed
<1> HIDE DEF n, list
<1>3. /\ list[n] \in Seq(1..n)
      /\ \A d \in 1..n : d \in dropped \/ \E j \in 1..Len(list[n]) : list[n][j] = d
  BY <1>1, ListEquation DEF list
<1> QED
  BY <1>2, <1>3 DEF n

\* A search that starts.
LEMMA SearchFrame ==
  ASSUME world \in Worlds, NEW file \in Files(world),
         NEW path \in Seq(DOMAIN world.partitions) \ {<<>>}, NEW dropped
  PROVE  IsSearch(world, Search(dropped, path, file)) /\ Frame(world, Search(dropped, path, file))
<1>1. block_devices(dropped) \in Seq(1..Len(world.drives))
  BY DevicesAreDrives
<1> QED
  BY <1>1 DEF IsSearch, Search, Frame

LEMMA ProbeFrame ==
  ASSUME NEW node \in DOMAIN world.nodes \cup {None}, NEW file \in Files(world),
         NEW path \in Seq(DOMAIN world.partitions)
  PROVE  IsProbe(world, Probe(node, path, file)) /\ Frame(world, Probe(node, path, file))
BY DEF IsProbe, Probe, Frame

LEMMA PasswordFrame ==
  ASSUME NEW keyslot \in DOMAIN world.keyslots, NEW cached \in {"Cached", "Discard"}
  PROVE  /\ IsPassword(world, Password(keyslot, cached))
         /\ Frame(world, Password(keyslot, cached))
BY DEF IsPassword, Password, Frame

LEMMA UnlockFrame ==
  ASSUME NEW drive \in 1..Len(world.drives), NEW keyslot \in DOMAIN world.keyslots
  PROVE  IsUnlock(world, UnlockOpal(drive, keyslot)) /\ Frame(world, UnlockOpal(drive, keyslot))
BY DEF IsUnlock, UnlockOpal, Frame

\* An error, which every caller has to expect.
LEMMA GoodError ==
  ASSUME Good, Return(Err), Top.fn # "main"
  PROVE  Stays
BY GoodReturn DEF Answers

LEMMA ResolveFile ==
  ASSUME NEW file \in Files(world)
  PROVE  IsResolve(world, Resolve(file)) /\ Frame(world, Resolve(file))
BY EmptySeq DEF IsResolve, Resolve, Frame, Files

LEMMA ResolveParentGood == ASSUME Good, world \in Worlds, ResolveParent PROVE Stays
<1> DEFINE path   == <<Top.current>> \o Top.path
           parent == Partition(Top.current).parent
<1>1. IsResolve(world, Top) /\ Top.fn = "resolve_and_read_file"
  BY TopFrame, FrameOfFunction DEF ResolveParent, Runs
<1>2. path \in Seq(DOMAIN world.partitions) \ {<<>>}
  <2>1. /\ <<Top.current>> \in Seq(DOMAIN world.partitions) /\ Len(<<Top.current>>) = 1
        /\ Top.path \in Seq(DOMAIN world.partitions)
    BY <1>1, Appended DEF IsResolve
  <2>2. /\ path \in Seq(DOMAIN world.partitions)
        /\ Len(path) = 1 + Len(Top.path)
    BY <2>1, ConcatProperties
  <2> QED
    BY <2>1, <2>2
<1>3. Top.file \in Files(world) /\ parent \in DOMAIN world.partitions \cup {None}
  BY <1>1, WorldIsWhole DEF IsResolve, ConfigIsWhole, Partition
<1>4. CASE Halt("memory")
  BY <1>4, GoodHalt
<1>5. ASSUME NEW dropped, Become(Search(dropped, path, Top.file)) PROVE Stays
  <2>1. Frame(world, Search(dropped, path, Top.file))
    BY <1>2, <1>3, SearchFrame
  <2>2. \A c : Calls(world, c, Top) => Calls(world, c, Search(dropped, path, Top.file))
    BY <1>1 DEF Calls, Search
  <2> QED
    BY <1>1, <1>5, <2>1, <2>2, GoodBecome DEF Search
<1>6. CASE parent # None /\ Become([Top EXCEPT !.current = parent, !.path = path])
  <2> DEFINE f == [Top EXCEPT !.current = parent, !.path = path]
  <2>1. /\ IsResolve(world, f) /\ f.fn = Top.fn /\ f.file = Top.file
    BY <1>1, <1>2, <1>3, <1>6 DEF IsResolve
  <2>2. Frame(world, f)
    BY <2>1 DEF Frame
  <2> HIDE DEF f
  <2>3. \A c : Calls(world, c, Top) => Calls(world, c, f)
    BY <1>1, <2>1 DEF Calls
  <2> QED
    BY <1>1, <1>6, <2>1, <2>2, <2>3, GoodBecome DEF f
<1> QED
  BY <1>4, <1>5, <1>6 DEF ResolveParent

\* A search that goes on as frame f waits for the same caller.
LEMMA SameSearch ==
  ASSUME Top.fn = "find_read_file", NEW f, f.fn = "find_read_file", f.file = Top.file
  PROVE  \A c : Calls(world, c, Top) => Calls(world, c, f)
BY DEF Calls

LEMMA SearchBecomes ==
  ASSUME Good, IsSearch(world, Top), NEW f, IsSearch(world, f), f.file = Top.file, Become(f)
  PROVE  Stays
<1>1. Top.fn = "find_read_file" /\ f.fn = "find_read_file" /\ Frame(world, f)
  BY DEF IsSearch, Frame
<1> QED
  BY <1>1, SameSearch, GoodBecome

\* How the frame of a search changes.
LEMMA SearchChanges ==
  ASSUME IsSearch(world, Top)
  PROVE  /\ \A at \in {"drive", "open", "unlocking", "probing"} :
               IsSearch(world, [Top EXCEPT !.at = at]) /\ [Top EXCEPT !.at = at].file = Top.file
         /\ IsSearch(world, NextDevice) /\ NextDevice.file = Top.file
         /\ Len(Top.path) # 1 =>
               /\ IsSearch(world, [Top EXCEPT !.path = Tail(@), !.at = "open"])
               /\ [Top EXCEPT !.path = Tail(@), !.at = "open"].file = Top.file
<1>1. ASSUME NEW at \in {"drive", "open", "unlocking", "probing"}
      PROVE  IsSearch(world, [Top EXCEPT !.at = at]) /\ [Top EXCEPT !.at = at].file = Top.file
  BY DEF IsSearch
<1>2. IsSearch(world, NextDevice) /\ NextDevice.file = Top.file
  <2>1. Top.i + 1 \in Nat \ {0}
    BY DEF IsSearch
  <2>2. NextDevice = [Top EXCEPT !.i = Top.i + 1, !.at = "drive"]
    BY DEF NextDevice
  <2> QED
    BY <2>1, <2>2 DEF IsSearch
<1>3. ASSUME Len(Top.path) # 1
      PROVE  /\ IsSearch(world, [Top EXCEPT !.path = Tail(@), !.at = "open"])
             /\ [Top EXCEPT !.path = Tail(@), !.at = "open"].file = Top.file
  <2> DEFINE t == Tail(Top.path)
  <2>1. /\ Top.path \in Seq(DOMAIN world.partitions) /\ Top.path # <<>>
    BY DEF IsSearch
  <2>2. t \in Seq(DOMAIN world.partitions) /\ Len(t) = Len(Top.path) - 1
    BY <2>1, HeadTailProperties
  <2>3. t \in Seq(DOMAIN world.partitions) \ {<<>>}
    <3>1. Len(t) # 0
      BY <1>3, <2>1, <2>2
    <3>2. Len(<<>>) = 0
      OBVIOUS
    <3> HIDE DEF t
    <3> QED
      BY <2>2, <3>1, <3>2
  <2>4. [Top EXCEPT !.path = Tail(@), !.at = "open"] = [Top EXCEPT !.path = t, !.at = "open"]
    OBVIOUS
  <2> HIDE DEF t
  <2> QED
    BY <2>3, <2>4 DEF IsSearch
<1> QED
  BY <1>1, <1>2, <1>3

LEMMA NoMoreDevicesGood == ASSUME Good, NoMoreDevices PROVE Stays
BY GoodError DEF NoMoreDevices, Runs

LEMMA DeviceFailsGood == ASSUME Good, DeviceFails PROVE Stays
BY GoodError, GoodHalt DEF DeviceFails, AtDevice, Runs

LEMMA DescendDriveGood ==
  ASSUME Good, Top.fn = "find_read_file", DescendDrive PROVE Stays
<1>1. IsSearch(world, Top)
  BY TopFrame, FrameOfFunction
<1> QED
  BY <1>1, GoodError, SearchChanges, SearchBecomes DEF DescendDrive

LEMMA ProbeDriveGood == ASSUME Good, world \in Worlds, ProbeDrive PROVE Stays
<1> DEFINE keyslot == Partition(Head(Top.path)).keyslot
           drive   == Top.devices[Top.i]
           f       == [Top EXCEPT !.at = "unlocking"]
<1>1. Top.fn = "find_read_file" /\ IsSearch(world, Top) /\ Top.i <= Len(Top.devices)
  BY TopFrame, FrameOfFunction DEF ProbeDrive, AtDevice, Runs
<1>2. CASE Become([Top EXCEPT !.at = "open"])
  BY <1>1, <1>2, SearchChanges, SearchBecomes
<1>3. CASE DescendDrive
  BY <1>1, <1>3, DescendDriveGood
<1>4. CASE Halt("panic")
  BY <1>4, GoodHalt
<1>5. CASE keyslot # None /\ Call(f, UnlockOpal(drive, keyslot))
  <2>1. Head(Top.path) \in DOMAIN world.partitions /\ drive \in 1..Len(world.drives)
    BY <1>1, HeadTailProperties DEF IsSearch
  <2>2. keyslot \in DOMAIN world.keyslots
    BY <1>5, <2>1, WorldIsWhole DEF ConfigIsWhole, Partition
  <2>3. Frame(world, UnlockOpal(drive, keyslot))
    BY <2>1, <2>2, UnlockFrame
  <2>4. IsSearch(world, f) /\ f.file = Top.file
    BY <1>1, SearchChanges
  <2>5. f.fn = "find_read_file" /\ f.at = "unlocking" /\ f.i = Top.i /\ f.devices = Top.devices
    BY <1>1 DEF IsSearch
  <2> HIDE DEF f, keyslot
  <2>6. Calls(world, f, UnlockOpal(drive, keyslot))
    BY <1>1, <2>5 DEF Calls, UnlockOpal
  <2>7. \A c : Calls(world, c, Top) => Calls(world, c, f)
    BY <1>1, <2>4, <2>5, SameSearch
  <2> QED
    BY <1>1, <1>5, <2>3, <2>4, <2>5, <2>6, <2>7, GoodCall DEF UnlockOpal, Frame
<1> QED
  BY <1>2, <1>3, <1>4, <1>5 DEF ProbeDrive

LEMMA DriveUnlockedGood == ASSUME Good, DriveUnlocked PROVE Stays
BY GoodError, DescendDriveGood DEF DriveUnlocked, Resumes

LEMMA OpenDeviceGood == ASSUME Good, world \in Worlds, OpenDevice PROVE Stays
<1> DEFINE visible == IF Top.devices[Top.i] \in open THEN Device.root ELSE None
           f       == [Top EXCEPT !.at = "probing"]
           g       == Probe(visible, Top.path, Top.file)
<1>1. Top.fn = "find_read_file" /\ IsSearch(world, Top) /\ Top.i <= Len(Top.devices)
  BY TopFrame, FrameOfFunction DEF OpenDevice, AtDevice, Runs
<1>2. CASE Become(NextDevice)
  BY <1>1, <1>2, SearchChanges, SearchBecomes
<1>3. CASE Call(f, g)
  <2>1. Top.devices[Top.i] \in 1..Len(world.drives)
    BY <1>1 DEF IsSearch
  <2>2. visible \in DOMAIN world.nodes \cup {None}
    BY <2>1, WorldIsWhole DEF StorageIsNested, Device, Drive
  <2>3. Top.path \in Seq(DOMAIN world.partitions) /\ Top.file \in Files(world)
    BY <1>1 DEF IsSearch
  <2>4. Frame(world, g) /\ g.fn = "find_read_file_internal" /\ g.file = Top.file
    BY <2>2, <2>3, ProbeFrame DEF Probe
  <2>5. IsSearch(world, f) /\ f.file = Top.file
    BY <1>1, SearchChanges
  <2>6. f.fn = "find_read_file" /\ f.at = "probing"
    BY <1>1 DEF IsSearch
  <2> HIDE DEF f, g
  <2>7. Calls(world, f, g)
    BY <2>4, <2>5, <2>6 DEF Calls
  <2>8. \A c : Calls(world, c, Top) => Calls(world, c, f)
    BY <1>1, <2>5, <2>6, SameSearch
  <2> QED
    BY <1>1, <1>3, <2>4, <2>5, <2>6, <2>7, <2>8, GoodCall DEF Frame
<1> QED
  BY <1>2, <1>3 DEF OpenDevice

\* Whatever a search that is under way returns, its caller gets as it was.
LEMMA DeviceSearchedGood == ASSUME Good, DeviceSearched PROVE Stays
<1>1. Top.fn = "find_read_file" /\ Top.at = "probing" /\ IsSearch(world, Top)
  BY TopFrame, FrameOfFunction DEF DeviceSearched, Resumes
<1>2. CASE Become(NextDevice)
  BY <1>1, <1>2, SearchChanges, SearchBecomes
<1>3. CASE Return(ret)
  <2>1. Answers(world, Top, ret) /\ Reading(Top)
    BY <1>1, TopFrame DEF Good, RetOK, DeviceSearched, Resumes, Reading
  <2>2. \A c : Answers(world, c, ret)
    BY <2>1 DEF Answers
  <2> QED
    BY <1>1, <1>3, <2>2, GoodReturn
<1> QED
  BY <1>2, <1>3 DEF DeviceSearched

\* The frame of a probe, and what it waits for.
LEMMA TopProbe ==
  ASSUME Good, Top.fn = "find_read_file_internal"
  PROVE  /\ IsProbe(world, Top) /\ Top.path \in Seq(DOMAIN world.partitions)
         /\ Top.file \in Files(world)
         /\ Kind # "blank" => Top.node \in DOMAIN world.nodes /\ Kind = Node(Top.node).kind
         /\ Top.path # <<>> => /\ Head(Top.path) \in DOMAIN world.partitions
                               /\ Tail(Top.path) \in Seq(DOMAIN world.partitions)
<1>1. IsProbe(world, Top)
  BY TopFrame, FrameOfFunction
<1>2. Top.path \in Seq(DOMAIN world.partitions) /\ Top.file \in Files(world)
  BY <1>1 DEF IsProbe
<1>3. Kind # "blank" => Top.node \in DOMAIN world.nodes /\ Kind = Node(Top.node).kind
  BY <1>1 DEF IsProbe, Kind
<1>4. Top.path # <<>> => /\ Head(Top.path) \in DOMAIN world.partitions
                         /\ Tail(Top.path) \in Seq(DOMAIN world.partitions)
  BY <1>2, HeadTailProperties
<1> QED
  BY <1>1, <1>2, <1>3, <1>4

LEMMA TopIsLuks ==
  ASSUME Good, world \in Worlds, Top.fn = "find_read_file_internal", Top.at # "start"
  PROVE  Kind = "luks" /\ Top.path # <<>> /\ Top.node \in DOMAIN world.nodes
<1>1. IsProbe(world, Top) /\ Top.node \in DOMAIN world.nodes /\ Top.path # <<>>
      /\ world.nodes[Top.node].kind = "luks"
  BY TopProbe DEF IsProbe
<1> QED
  BY <1>1, WorldIsWhole DEF Kind, Node, StorageIsNested

\* A probe of what is inside.
LEMMA ProbeCalls ==
  ASSUME Good, Top.fn = "find_read_file_internal",
         NEW at \in {"start", "inside", "password"}, at # "password",
         IsProbe(world, [Top EXCEPT !.at = at]),
         NEW node \in DOMAIN world.nodes, NEW path \in Seq(DOMAIN world.partitions),
         Call([Top EXCEPT !.at = at], Probe(node, path, Top.file))
  PROVE  Stays
<1> DEFINE f == [Top EXCEPT !.at = at]
           g == Probe(node, path, Top.file)
<1>1. IsProbe(world, f) /\ f.fn = "find_read_file_internal" /\ f.at = at /\ f.file = Top.file
  BY TopProbe DEF IsProbe
<1>2. Frame(world, g) /\ g.fn = "find_read_file_internal" /\ g.file = Top.file
  BY TopProbe, ProbeFrame DEF Probe
<1>3. Call(f, g)
  OBVIOUS
<1> HIDE DEF f, g
<1>4. Calls(world, f, g)
  BY <1>1, <1>2 DEF Calls
<1>5. \A c : Calls(world, c, Top) => Calls(world, c, f)
  BY <1>1 DEF Calls
<1> QED
  BY <1>1, <1>2, <1>3, <1>4, <1>5, GoodCall DEF Frame

LEMMA PasswordCalls ==
  ASSUME Good, Top.fn = "find_read_file_internal", NEW cached \in {"Cached", "Discard"},
         IsProbe(world, [Top EXCEPT !.at = "password"]),
         NEW keyslot \in DOMAIN world.keyslots,
         keyslot = Partition(Head(Top.path)).keyslot,
         Call([Top EXCEPT !.at = "password"], Password(keyslot, cached))
  PROVE  Stays
<1> DEFINE f == [Top EXCEPT !.at = "password"]
           g == Password(keyslot, cached)
<1>1. /\ IsProbe(world, f) /\ f.fn = "find_read_file_internal" /\ f.at = "password"
      /\ f.file = Top.file /\ f.path = Top.path
  BY TopProbe DEF IsProbe
<1>2. Frame(world, g) /\ g.fn = "get_password_of_keyslot" /\ g.keyslot = keyslot
  BY PasswordFrame DEF Password
<1>3. Call(f, g)
  OBVIOUS
<1> HIDE DEF f, g
<1>4. Calls(world, f, g)
  BY <1>1, <1>2 DEF Calls, Partition
<1>5. \A c : Calls(world, c, Top) => Calls(world, c, f)
  BY <1>1 DEF Calls
<1> QED
  BY <1>1, <1>2, <1>3, <1>4, <1>5, GoodCall DEF Frame

\* What the running function was told it tells its caller.
LEMMA GoodReturnOn ==
  ASSUME Good, ret # None, Reading(Top), Top.fn # "main", Return(ret)
  PROVE  Stays
<1>1. Answers(world, Top, ret)
  BY TopFrame DEF Good, RetOK
<1>2. \A c : Answers(world, c, ret)
  BY <1>1 DEF Answers
<1> QED
  BY <1>2, GoodReturn

LEMMA ProbeNothingGood == ASSUME Good, ProbeNothing PROVE Stays
BY GoodError DEF ProbeNothing, Runs

LEMMA ProbeVolumeGood == ASSUME Good, world \in Worlds, ProbeVolume PROVE Stays
<1> DEFINE kids == Node(Top.node).kids
<1>1. Top.fn = "find_read_file_internal" /\ Top.path # <<>> /\ Kind \in {"lvm", "gpt"}
  BY DEF ProbeVolume, IsVolumeGroup, Probes, Runs, NamedHere
<1>2. CASE Return(Err)
  BY <1>1, <1>2, GoodError
<1>3. CASE ~(Top.kid > Len(kids)) /\ Call(Top, Probe(kids[Top.kid], InnerPath, Top.file))
  <2>1. /\ IsProbe(world, Top) /\ Top.node \in DOMAIN world.nodes /\ Top.at = "start"
        /\ Top.kid \in Nat \ {0}
    BY <1>1, TopProbe, TopIsLuks DEF IsProbe
  <2>2. kids \in Seq(DOMAIN world.nodes)
    BY <2>1, WorldIsWhole DEF StorageIsNested, Node
  <2>3. kids[Top.kid] \in DOMAIN world.nodes
    BY <1>3, <2>1, <2>2
  <2>4. InnerPath \in Seq(DOMAIN world.partitions)
    BY <1>1, TopProbe DEF InnerPath
  <2>5. [Top EXCEPT !.at = "start"] = Top
    BY <2>1 DEF IsProbe
  <2> QED
    BY <1>1, <1>3, <2>1, <2>3, <2>4, <2>5, ProbeCalls
<1> QED
  BY <1>2, <1>3 DEF ProbeVolume

LEMMA VolumeSearchedGood == ASSUME Good, world \in Worlds, VolumeSearched PROVE Stays
<1>1. /\ Top.fn = "find_read_file_internal" /\ Kind \in {"lvm", "gpt"} /\ ret # None
      /\ IsProbe(world, Top)
  BY TopProbe DEF VolumeSearched, Resumes
<1>2. CASE Return(ret)
  BY <1>1, <1>2, TopIsLuks, GoodReturnOn DEF Reading
<1>3. CASE Become([Top EXCEPT !.kid = @ + 1])
  <2> DEFINE f == [Top EXCEPT !.kid = @ + 1]
  <2>1. Top.kid + 1 \in Nat \ {0} /\ f = [Top EXCEPT !.kid = Top.kid + 1]
    BY <1>1 DEF IsProbe
  <2>2. Top.at = "start"
    BY <1>1, TopIsLuks
  <2>3. IsProbe(world, f) /\ f.fn = "find_read_file_internal" /\ f.file = Top.file
    BY <1>1, <2>1, <2>2 DEF IsProbe
  <2> HIDE DEF f
  <2>4. \A c : Calls(world, c, Top) => Calls(world, c, f)
    BY <1>1, <2>3 DEF Calls
  <2> QED
    BY <1>1, <1>3, <2>3, <2>4, GoodBecome DEF Frame, f
<1> QED
  BY <1>2, <1>3 DEF VolumeSearched

\* The LUKS device that is named and has a keyslot.
LEMMA LuksFrames ==
  ASSUME Good, world \in Worlds, Top.fn = "find_read_file_internal", Kind = "luks", NamedHere,
         Partition(Head(Top.path)).keyslot # None
  PROVE  /\ \A at \in {"inside", "password"} : IsProbe(world, [Top EXCEPT !.at = at])
         /\ Node(Top.node).kids[1] \in DOMAIN world.nodes
         /\ Tail(Top.path) \in Seq(DOMAIN world.partitions)
         /\ Partition(Head(Top.path)).keyslot \in DOMAIN world.keyslots
<1>1. /\ IsProbe(world, Top) /\ Top.node \in DOMAIN world.nodes /\ Top.path # <<>>
      /\ world.nodes[Top.node].kind = "luks"
      /\ Head(Top.path) \in DOMAIN world.partitions
      /\ world.nodes[Top.node].uuid = world.partitions[Head(Top.path)].uuid
  BY TopProbe DEF NamedHere, Node, Partition
<1>2. ASSUME NEW at \in {"inside", "password"} PROVE IsProbe(world, [Top EXCEPT !.at = at])
  BY <1>1 DEF IsProbe, Partition
<1>3. Node(Top.node).kids[1] \in DOMAIN world.nodes
  <2>1. Node(Top.node).kids \in Seq(DOMAIN world.nodes) /\ Node(Top.node).kids # <<>>
    BY <1>1, WorldIsWhole DEF StorageIsNested, Node
  <2> QED
    BY <2>1, HeadTailProperties, EmptySeq
<1>4. Tail(Top.path) \in Seq(DOMAIN world.partitions)
  BY <1>1, TopProbe
<1>5. Partition(Head(Top.path)).keyslot \in DOMAIN world.keyslots
  BY <1>1, WorldIsWhole DEF ConfigIsWhole, Partition
<1> QED
  BY <1>2, <1>3, <1>4, <1>5

LEMMA EnterLuksGood ==
  ASSUME Good, world \in Worlds, Top.fn = "find_read_file_internal", Kind = "luks", NamedHere,
         Partition(Head(Top.path)).keyslot # None, EnterLuks
  PROVE  Stays
BY LuksFrames, ProbeCalls DEF EnterLuks

LEMMA ProbeLuksGood == ASSUME Good, world \in Worlds, ProbeLuks PROVE Stays
<1>1. Top.fn = "find_read_file_internal" /\ Kind = "luks" /\ NamedHere
  BY DEF ProbeLuks, Probes, Runs
<1>2. CASE Partition(Head(Top.path)).keyslot = None
  BY <1>1, <1>2, GoodError DEF ProbeLuks
<1>3. CASE Partition(Head(Top.path)).keyslot # None
  BY <1>1, <1>3, EnterLuksGood, LuksFrames, PasswordCalls DEF ProbeLuks
<1> QED
  BY <1>2, <1>3

LEMMA LuksPasswordGood == ASSUME Good, world \in Worlds, LuksPassword PROVE Stays
<1>1. Top.fn = "find_read_file_internal" /\ Top.at = "password" /\ IsProbe(world, Top)
  BY TopProbe DEF LuksPassword, Resumes
<1>2. /\ Kind = "luks" /\ NamedHere /\ Partition(Head(Top.path)).keyslot # None
      /\ [Top EXCEPT !.at = "password"] = Top
  BY <1>1, TopIsLuks DEF IsProbe, NamedHere, Node, Partition
<1>3. CASE Return(Err)
  BY <1>1, <1>3, GoodError
<1>4. CASE EnterLuks
  BY <1>1, <1>2, <1>4, EnterLuksGood
<1>5. CASE Call(Top, Password(Partition(Head(Top.path)).keyslot, "Discard"))
  BY <1>1, <1>2, <1>5, LuksFrames, PasswordCalls
<1> QED
  BY <1>3, <1>4, <1>5 DEF LuksPassword

LEMMA LuksSearchedGood == ASSUME Good, LuksSearched PROVE Stays
BY GoodReturnOn DEF LuksSearched, Resumes, Reading

LEMMA ProbeFileSystemGood == ASSUME Good, world \in Worlds, ProbeFileSystem PROVE Stays
<1> DEFINE files == Node(Top.node).files
<1>1. Top.fn = "find_read_file_internal" /\ Kind \in {"ext4", "fat"}
  BY DEF ProbeFileSystem, Probes, Runs
<1>2. CASE Return(Err)
  BY <1>1, <1>2, GoodError
<1>3. CASE Top.file.file \in DOMAIN files /\ Return(Ok(files[Top.file.file]))
  <2>1. Top.node \in DOMAIN world.nodes
    BY <1>1, TopProbe
  <2>2. files[Top.file.file] \in Stored(world)
    <3>1. files[Top.file.file] \in Range(files)
      BY <1>3 DEF Range
    <3>2. Range(files) \subseteq Stored(world)
      BY <2>1 DEF Stored, Node
    <3> QED
      BY <3>1, <3>2
  <2> DEFINE r == Ok(files[Top.file.file])
  <2>3. r = Ok(r.value) /\ r.value \in Stored(world)
    BY <2>2 DEF Ok
  <2>4. \A c : Answers(world, c, r)
    BY <2>3 DEF Answers
  <2> QED
    BY <1>1, <1>3, <2>4, GoodReturn
<1> QED
  BY <1>2, <1>3 DEF ProbeFileSystem

LEMMA ReadFailsGood == ASSUME Good, ReadFails PROVE Stays
BY GoodError, GoodHalt DEF ReadFails, Runs

\* Neither who unlocks a drive nor who asks for a password waits for a file.
LEMMA GoodAnswer ==
  ASSUME Good, Top.fn \in {"unlock_opal", "get_password_of_keyslot"}, NEW v, Return(Ok(v))
  PROVE  Stays
<1>1. \A c : Calls(world, c, Top) => ~Reading(c)
  BY DEF Calls, Reading
<1>2. Ok(v) = Ok(Ok(v).value)
  BY DEF Ok
<1> QED
  BY <1>1, <1>2, GoodReturn DEF Answers

LEMMA UnlockCalls ==
  ASSUME Good, Top.fn = "unlock_opal", NEW cached \in {"Cached", "Discard"},
         Call(Top, Password(Top.keyslot, cached))
  PROVE  Stays
<1> DEFINE g == Password(Top.keyslot, cached)
<1>1. Frame(world, Top) /\ Top.keyslot \in DOMAIN world.keyslots
  BY TopFrame, FrameOfFunction DEF IsUnlock
<1>2. Frame(world, g) /\ g.fn = "get_password_of_keyslot" /\ g.keyslot = Top.keyslot
  BY <1>1, PasswordFrame DEF Password
<1> HIDE DEF g
<1>3. Calls(world, Top, g)
  BY <1>2 DEF Calls
<1> QED
  BY <1>1, <1>2, <1>3, GoodCall DEF g

LEMMA StartUnlockGood == ASSUME Good, StartUnlock PROVE Stays
BY GoodAnswer, UnlockCalls DEF StartUnlock, Runs

LEMMA TryPasswordGood == ASSUME Good, TryPassword PROVE Stays
<1>1. Top.fn = "unlock_opal"
  BY DEF TryPassword, Resumes
<1>2. CASE Return(Err)
  BY <1>1, <1>2, GoodError
<1>3. CASE Return(Ok("unlocked"))
  BY <1>1, <1>3, GoodAnswer
<1>4. CASE Call(Top, Password(Top.keyslot, "Discard"))
  BY <1>1, <1>4, UnlockCalls
<1>5. CASE Halt("reset")
  BY <1>5, GoodHalt
<1> QED
  BY <1>2, <1>3, <1>4, <1>5 DEF TryPassword

LEMMA UnlockFailsGood == ASSUME Good, UnlockFails PROVE Stays
BY GoodError DEF UnlockFails, Resumes

LEMMA UseBufferedGood == ASSUME Good, UseBuffered PROVE Stays
BY GoodAnswer DEF UseBuffered, Runs

LEMMA TypeGood == ASSUME Good, NEW key, Type(key) PROVE Stays
BY GoodAnswer DEF Type, Prompting, Obtain, Runs

LEMMA ShutDownGood == ASSUME Good, ShutDown PROVE Stays
BY GoodHalt DEF ShutDown

LEMMA FindKeyFileGood == ASSUME Good, world \in Worlds, FindKeyFile PROVE Stays
<1> DEFINE g == Resolve(Source)
<1>1. Top.fn = "get_password_of_keyslot" /\ Frame(world, Top) /\ Call(Top, g)
  BY TopFrame DEF FindKeyFile, Runs
<1>2. Top.keyslot \in DOMAIN world.keyslots
  BY <1>1, FrameOfFunction DEF IsPassword
<1>3. Source \in Files(world)
  BY <1>2, WorldIsWhole DEF FindKeyFile, Source, ConfigIsWhole
<1>4. Frame(world, g) /\ g.fn = "resolve_and_read_file" /\ g.file = world.keyslots[Top.keyslot]
  BY <1>3, ResolveFile DEF Resolve, Source
<1> HIDE DEF g
<1>5. Calls(world, Top, g)
  BY <1>1, <1>4 DEF Calls, WaitsFor
<1> QED
  BY <1>1, <1>4, <1>5, GoodCall

LEMMA KeyFileReadGood == ASSUME Good, KeyFileRead PROVE Stays
BY GoodAnswer DEF KeyFileRead, Obtain, Resumes

LEMMA KeyFileMissingGood == ASSUME Good, KeyFileMissing PROVE Stays
BY GoodError DEF KeyFileMissing, Resumes

LEMMA SearchGood == ASSUME Good, world \in Worlds, Next PROVE Stays
<1>1. CASE ProgramStep
  BY <1>1, ResolveParentGood, NoMoreDevicesGood, DeviceFailsGood, ProbeDriveGood, DriveUnlockedGood,
     OpenDeviceGood, DeviceSearchedGood, ProbeNothingGood, ProbeVolumeGood, VolumeSearchedGood,
     ProbeLuksGood, LuksPasswordGood, LuksSearchedGood, ProbeFileSystemGood, StartUnlockGood,
     TryPasswordGood, UseBufferedGood, FindKeyFileGood, KeyFileReadGood, KeyFileMissingGood
     DEF ProgramStep
<1> QED
  BY <1>1, ReadFailsGood, UnlockFailsGood, ShutDownGood, TypeGood DEF Next

-------------------------------------------------------------------------------
(* One step of main, of a boot entry and of the unlocking of all drives. *)

LEMMA MainBecomes ==
  ASSUME Good, Top.fn = "main", NEW at \in {"load", "read", "decode", "run", "exit"},
         Become([Top EXCEPT !.at = at])
  PROVE  Stays
<1> DEFINE f == [Top EXCEPT !.at = at]
<1>1. IsMain(world, f) /\ f.fn = "main"
  BY TopFrame, FrameOfFunction DEF IsMain
<1> HIDE DEF f
<1>2. \A c : ~Calls(world, c, Top)
  BY DEF Calls
<1> QED
  BY <1>1, <1>2, GoodBecome DEF Frame, f

LEMMA MainGood ==
  ASSUME Good, LocateConfig \/ ReadConfig \/ DecodeConfig \/ RunFails \/ RunReturns \/ Exit
  PROVE  Stays
<1>1. CASE LocateConfig
  BY <1>1, MainBecomes DEF LocateConfig, Runs
<1>2. CASE ReadConfig
  BY <1>2, MainBecomes DEF ReadConfig, Runs
<1>3. CASE DecodeConfig
  BY <1>3, MainBecomes DEF DecodeConfig, Runs
<1>4. CASE RunFails
  BY <1>4, MainBecomes DEF RunFails, Runs
<1>5. CASE RunReturns
  <2>1. (IF ret = Err THEN "exit" ELSE "run") \in {"load", "read", "decode", "run", "exit"}
    OBVIOUS
  <2> QED
    BY <1>5, <2>1, MainBecomes DEF RunReturns, Resumes
<1>6. CASE Exit
  BY <1>6, GoodHalt DEF Exit
<1> QED
  BY <1>1, <1>2, <1>3, <1>4, <1>5, <1>6

LEMMA RunMenuGood == ASSUME Good, world \in Worlds, RunMenu PROVE Stays
<1>1. Top.fn = "main" /\ Frame(world, Top)
  BY TopFrame DEF RunMenu, Runs
<1>2. ASSUME NEW e \in DOMAIN world.entries, Call(Top, BootEntry(e)) PROVE Stays
  <2> DEFINE g == BootEntry(e)
  <2>1. Frame(world, g) /\ g.fn = "handle_boot_entry"
    BY EmptySeq DEF Frame, IsEntry, BootEntry
  <2> HIDE DEF g
  <2>2. Calls(world, Top, g)
    BY <1>1, <2>1 DEF Calls
  <2> QED
    BY <1>1, <1>2, <2>1, <2>2, GoodCall DEF g
<1>3. ASSUME NEW dropped, Call(Top, UnlockConfigured(dropped)) PROVE Stays
  <2> DEFINE g == UnlockConfigured(dropped)
  <2>1. Frame(world, g) /\ g.fn = "handle_unlock_configured_opal_drives"
    BY DevicesAreDrives DEF Frame, IsUnlockAll, UnlockConfigured
  <2> HIDE DEF g
  <2>2. Calls(world, Top, g)
    BY <1>1, <2>1 DEF Calls
  <2> QED
    BY <1>1, <1>3, <2>1, <2>2, GoodCall DEF g
<1> QED
  BY <1>2, <1>3 DEF RunMenu

\* The files of an entry are files of the config, the image first.
LEMMA EntryFiles ==
  ASSUME world \in Worlds, NEW e \in DOMAIN world.entries
  PROVE  /\ FilesIn(world, e) \in Seq(Files(world)) /\ FilesOf(e) = FilesIn(world, e)
         /\ Len(FilesIn(world, e)) \in Nat \ {0}
         /\ FilesIn(world, e)[1] = world.entries[e].image
         /\ world.entries[e].image \in Files(world)
         /\ world.entries[e].extra_partitions \in Seq(DOMAIN world.partitions)
<1> DEFINE image == world.entries[e].image
           a == world.entries[e].initrd
           b == world.entries[e].additional_initrd_files
<1>1. /\ image \in Files(world) /\ a \in Seq(Files(world)) /\ b \in Seq(Files(world))
      /\ world.entries[e].extra_partitions \in Seq(DOMAIN world.partitions)
  BY WorldIsWhole DEF MenuIsWhole
<1>2. FilesOf(e) = FilesIn(world, e) /\ FilesIn(world, e) = <<image>> \o a \o b
  BY DEF FilesOf, FilesIn, Entry
<1>3. /\ <<image>> \o a \in Seq(Files(world)) /\ Len(<<image>> \o a) = 1 + Len(a)
      /\ (<<image>> \o a)[1] = image
  <2> HIDE DEF a
  <2>1. <<image>> \in Seq(Files(world)) /\ Len(<<image>>) = 1 /\ <<image>>[1] = image
    BY <1>1
  <2> QED
    BY <1>1, <2>1, ConcatProperties
<1> DEFINE c == <<image>> \o a
<1> HIDE DEF c, b
<1>4. c \o b \in Seq(Files(world)) /\ Len(c \o b) = Len(c) + Len(b) /\ (c \o b)[1] = c[1]
  <2>1. Len(c) \in Nat \ {0} /\ Len(b) \in Nat
    BY <1>1, <1>3, LenProperties DEF c, a
  <2> QED
    BY <1>1, <1>3, <2>1, ConcatProperties DEF c
<1> QED
  <2>1. FilesIn(world, e) = c \o b
    BY <1>2 DEF c, b
  <2>2. Len(c) \in Nat \ {0} /\ Len(b) \in Nat /\ c[1] = image
    BY <1>1, <1>3, LenProperties DEF a, b, c
  <2> QED
    BY <1>1, <1>2, <1>4, <2>1, <2>2

\* The frame of a boot entry.
LEMMA TopEntry ==
  ASSUME Good, Top.fn = "handle_boot_entry"
  PROVE  IsEntry(world, Top) /\ Top.entry \in DOMAIN world.entries /\ Top.i \in Nat \ {0}
BY TopFrame, FrameOfFunction DEF IsEntry

LEMMA EntryBecomes ==
  ASSUME Good, IsEntry(world, Top), NEW f, IsEntry(world, f), Become(f)
  PROVE  Stays
<1>1. Top.fn = "handle_boot_entry" /\ f.fn = "handle_boot_entry"
  BY DEF IsEntry
<1>2. \A c : Calls(world, c, Top) => Calls(world, c, f)
  BY <1>1 DEF Calls
<1> QED
  BY <1>1, <1>2, GoodBecome DEF Frame

\* How the frame of a boot entry changes.
LEMMA EntryChanges ==
  ASSUME IsEntry(world, Top)
  PROVE  /\ \A at \in {"extra", "files", "esp", "load", "confirm", "start"} :
               /\ IsEntry(world, [Top EXCEPT !.at = at])
               /\ IsEntry(world, [Top EXCEPT !.at = at, !.i = 1])
               /\ \A x : IsEntry(world, [Top EXCEPT !.at = at, !.file_path = x])
         /\ IsEntry(world, [Top EXCEPT !.i = @ + 1])
         /\ \A v \in Stored(world) :
               IsEntry(world, [Top EXCEPT !.i = @ + 1, !.contents = Append(Top.contents, v)])
<1> DEFINE S == {"extra", "files", "esp", "load", "confirm", "start"}
<1>1. Top.i \in Nat \ {0} /\ Top.contents \in Seq(Stored(world)) /\ Top.i + 1 \in Nat \ {0}
  BY DEF IsEntry
<1>2. ASSUME NEW at \in S
      PROVE  /\ IsEntry(world, [Top EXCEPT !.at = at])
             /\ IsEntry(world, [Top EXCEPT !.at = at, !.i = 1])
             /\ \A x : IsEntry(world, [Top EXCEPT !.at = at, !.file_path = x])
  <2> DEFINE g == [Top EXCEPT !.at = at]
  <2>1. IsEntry(world, g)
    BY DEF IsEntry
  <2>2. /\ [Top EXCEPT !.at = at, !.i = 1] = [g EXCEPT !.i = 1]
        /\ \A x : [Top EXCEPT !.at = at, !.file_path = x] = [g EXCEPT !.file_path = x]
    OBVIOUS
  <2> HIDE DEF g
  <2>3. IsEntry(world, [g EXCEPT !.i = 1])
    BY <2>1 DEF IsEntry
  <2>4. ASSUME NEW x PROVE IsEntry(world, [g EXCEPT !.file_path = x])
    <3>1. [g EXCEPT !.file_path = x].file_path = x
      BY <2>1 DEF IsEntry
    <3> QED
      BY <2>1, <3>1 DEF IsEntry
  <2> QED
    BY <2>1, <2>2, <2>3, <2>4 DEF g
<1>3. IsEntry(world, [Top EXCEPT !.i = @ + 1])
  <2>1. [Top EXCEPT !.i = @ + 1] = [Top EXCEPT !.i = Top.i + 1]
    OBVIOUS
  <2> QED
    BY <1>1, <2>1 DEF IsEntry
<1>4. ASSUME NEW v \in Stored(world)
      PROVE  IsEntry(world, [Top EXCEPT !.i = @ + 1, !.contents = Append(Top.contents, v)])
  <2> DEFINE c == Append(Top.contents, v)
  <2>1. c \in Seq(Stored(world))
    BY <1>1, AppendProperties
  <2>2. [Top EXCEPT !.i = @ + 1, !.contents = c] = [Top EXCEPT !.i = Top.i + 1, !.contents = c]
    OBVIOUS
  <2> HIDE DEF c
  <2>3. IsEntry(world, [Top EXCEPT !.i = Top.i + 1, !.contents = c])
    BY <1>1, <2>1 DEF IsEntry
  <2> QED
    BY <2>2, <2>3 DEF c
<1> QED
  BY <1>2, <1>3, <1>4

LEMMA ReadExtraGood == ASSUME Good, world \in Worlds, ReadExtra PROVE Stays
<1> DEFINE extra == Entry(Top.entry).extra_partitions
           p     == extra[Top.i]
           file  == [partition |-> p, file |-> Entry(Top.entry).image.file]
<1>1. Top.fn = "handle_boot_entry" /\ Top.at = "extra" /\ IsEntry(world, Top)
      /\ Top.entry \in DOMAIN world.entries /\ Top.i \in Nat \ {0}
  BY TopEntry DEF ReadExtra, Runs
<1>2. CASE Become([Top EXCEPT !.at = "files", !.i = 1])
  BY <1>1, <1>2, EntryChanges, EntryBecomes
<1>3. ASSUME NEW dropped, ~(Top.i > Len(extra)), Call(Top, Search(dropped, <<p>>, file))
      PROVE  Stays
  <2> DEFINE g == Search(dropped, <<p>>, file)
  <2>1. extra \in Seq(DOMAIN world.partitions) /\ Entry(Top.entry).image \in Files(world)
    BY <1>1, EntryFiles DEF Entry
  <2>2. p \in DOMAIN world.partitions
    BY <1>1, <1>3, <2>1
  <2>3. file \in Files(world)
    BY <2>1, <2>2 DEF Files
  <2>4. <<p>> \in Seq(DOMAIN world.partitions) \ {<<>>}
    BY <2>2, Appended
  <2>5. Frame(world, g) /\ g.fn = "find_read_file"
    BY <2>3, <2>4, SearchFrame DEF Search
  <2> HIDE DEF g
  <2>6. Calls(world, Top, g) /\ Frame(world, Top)
    BY <1>1, <2>5 DEF Calls, Frame
  <2> QED
    BY <1>1, <1>3, <2>5, <2>6, GoodCall DEF g
<1> QED
  BY <1>2, <1>3 DEF ReadExtra

LEMMA ExtraReadGood == ASSUME Good, ExtraRead PROVE Stays
BY TopEntry, EntryChanges, EntryBecomes DEF ExtraRead, Resumes

LEMMA ReadEntryFileGood == ASSUME Good, world \in Worlds, ReadEntryFile PROVE Stays
<1> DEFINE file == FilesOf(Top.entry)[Top.i]
           g    == Resolve(file)
<1>1. /\ Top.fn = "handle_boot_entry" /\ Top.at = "files" /\ Top.i <= Len(FilesOf(Top.entry))
      /\ Call(Top, g)
  BY DEF ReadEntryFile, Runs
<1>2. /\ IsEntry(world, Top) /\ Top.entry \in DOMAIN world.entries /\ Top.i \in Nat \ {0}
      /\ FilesOf(Top.entry) = FilesIn(world, Top.entry)
      /\ FilesOf(Top.entry) \in Seq(Files(world))
  BY <1>1, TopEntry, EntryFiles
<1>3. file \in Files(world)
  BY <1>1, <1>2
<1>4. Frame(world, g) /\ g.fn = "resolve_and_read_file" /\ g.file = file
  BY <1>3, ResolveFile DEF Resolve
<1> HIDE DEF g
<1>5. Calls(world, Top, g) /\ Frame(world, Top)
  BY <1>1, <1>2, <1>4 DEF Calls, WaitsFor, Frame
<1> QED
  BY <1>1, <1>4, <1>5, GoodCall

LEMMA EntryFileReadGood == ASSUME Good, EntryFileRead PROVE Stays
<1>1. /\ Top.fn = "handle_boot_entry" /\ Top.at = "files" /\ ret # None /\ IsEntry(world, Top)
  BY TopEntry DEF EntryFileRead, Resumes
<1>2. CASE Return(Err)
  BY <1>1, <1>2, GoodError
<1>3. CASE ret # Err /\ Become([Top EXCEPT !.i = @ + 1, !.contents = Contents])
  <2>1. Answers(world, Top, ret) /\ Reading(Top)
    BY <1>1, TopFrame DEF Good, RetOK, Reading
  <2>2. ret.value \in Stored(world)
    BY <1>3, <2>1 DEF Answers
  <2>3. IsEntry(world, [Top EXCEPT !.i = @ + 1, !.contents = Contents])
    BY <1>1, <2>2, EntryChanges DEF Contents
  <2> QED
    BY <1>1, <1>3, <2>3, EntryBecomes
<1> QED
  BY <1>2, <1>3 DEF EntryFileRead

\* main does not read.
LEMMA EntryReturns ==
  ASSUME Good, Top.fn \in {"handle_boot_entry", "handle_unlock_configured_opal_drives"},
         NEW v, Return(Ok(v))
  PROVE  Stays
<1>1. \A c : Calls(world, c, Top) => ~Reading(c)
  BY DEF Calls, Reading
<1>2. Ok(v) = Ok(Ok(v).value)
  BY DEF Ok
<1> QED
  BY <1>1, <1>2, GoodReturn DEF Answers

LEMMA EntryGood ==
  ASSUME Good, AllocatePagesFails \/ FindEsp \/ EspFound \/ LoadImage \/ Confirm \/ StartImage
  PROVE  Stays
<1>1. Top.fn = "handle_boot_entry" /\ IsEntry(world, Top)
  BY TopEntry DEF AllocatePagesFails, AllRead, FindEsp, EspFound, LoadImage, Confirm, StartImage, Runs
<1>2. CASE AllocatePagesFails
  BY <1>1, <1>2, GoodError DEF AllocatePagesFails
<1>3. CASE FindEsp
  BY <1>1, <1>3, EntryChanges, EntryBecomes DEF FindEsp
<1>4. CASE EspFound
  BY <1>1, <1>4, EntryChanges, EntryBecomes, GoodError DEF EspFound
<1>5. CASE LoadImage
  <2>1. (IF world.debug THEN "confirm" ELSE "start")
            \in {"extra", "files", "esp", "load", "confirm", "start"}
    OBVIOUS
  <2> QED
    BY <1>1, <1>5, <2>1, EntryChanges, EntryBecomes, GoodError DEF LoadImage
<1>6. CASE Confirm
  BY <1>1, <1>6, EntryChanges, EntryBecomes, GoodHalt DEF Confirm
<1>7. CASE StartImage
  BY <1>1, <1>7, EntryReturns, GoodError, GoodHalt DEF StartImage
<1> QED
  BY <1>2, <1>3, <1>4, <1>5, <1>6, <1>7

\* The frame of the unlocking of all drives.
LEMMA UnlockAllBecomes ==
  ASSUME Good, Top.fn = "handle_unlock_configured_opal_drives",
         Become([Top EXCEPT !.i = @ + 1])
  PROVE  Stays
<1> DEFINE f == [Top EXCEPT !.i = @ + 1]
<1>1. IsUnlockAll(world, Top)
  BY TopFrame, FrameOfFunction
<1>2. Top.i + 1 \in Nat \ {0} /\ f = [Top EXCEPT !.i = Top.i + 1]
  BY <1>1 DEF IsUnlockAll
<1>3. IsUnlockAll(world, f) /\ f.fn = "handle_unlock_configured_opal_drives"
  BY <1>1, <1>2 DEF IsUnlockAll
<1> HIDE DEF f
<1>4. \A c : Calls(world, c, Top) => Calls(world, c, f)
  BY <1>3 DEF Calls
<1> QED
  BY <1>3, <1>4, GoodBecome DEF Frame, f

LEMMA UnlockDriveGood == ASSUME Good, world \in Worlds, UnlockDrive PROVE Stays
<1>1. /\ Top.fn = "handle_unlock_configured_opal_drives" /\ Top.i <= Len(Top.devices)
      /\ IsUnlockAll(world, Top)
  BY TopFrame, FrameOfFunction DEF UnlockDrive, AtConfigured, Runs
<1>2. PICK p \in DOMAIN world.partitions :
         \/ Halt("panic")
         \/ /\ Partition(p).keyslot # None
            /\ Call(Top, UnlockOpal(Top.devices[Top.i], Partition(p).keyslot))
  BY DEF UnlockDrive, Configured
<1> DEFINE g == UnlockOpal(Top.devices[Top.i], Partition(p).keyslot)
<1>3. CASE Halt("panic")
  BY <1>3, GoodHalt
<1>4. CASE Partition(p).keyslot # None /\ Call(Top, g)
  <2>1. Partition(p).keyslot \in DOMAIN world.keyslots /\ Top.devices[Top.i] \in 1..Len(world.drives)
    BY <1>1, <1>4, WorldIsWhole DEF ConfigIsWhole, Partition, IsUnlockAll
  <2>2. Frame(world, g) /\ g.fn = "unlock_opal" /\ g.drive = Top.devices[Top.i]
    BY <2>1, UnlockFrame DEF UnlockOpal
  <2> HIDE DEF g
  <2>3. Calls(world, Top, g) /\ Frame(world, Top)
    BY <1>1, <2>2 DEF Calls, Frame
  <2> QED
    BY <1>1, <1>4, <2>2, <2>3, GoodCall
<1> QED
  BY <1>2, <1>3, <1>4

LEMMA UnlockAllGood ==
  ASSUME Good, SkipDrive \/ DriveFails \/ DriveDone \/ AllUnlocked
  PROVE  Stays
BY GoodError, EntryReturns, UnlockAllBecomes
   DEF SkipDrive, DriveFails, DriveDone, AllUnlocked, AtConfigured, Runs, Resumes

LEMMA BootStepGood == ASSUME Good, world \in Worlds, BootStep PROVE Stays
BY MainGood, RunMenuGood, ReadExtraGood, ExtraReadGood, ReadEntryFileGood, EntryFileReadGood,
   EntryGood, UnlockDriveGood, UnlockAllGood DEF BootStep

\* No step changes the machine or its config.
LEMMA WorldStays == ASSUME [BootNext]_bootVars PROVE world' = world
<1>1. CASE UNCHANGED bootVars
  BY <1>1 DEF bootVars, vars
<1>2. CASE FirmwareStep
  BY <1>2 DEF FirmwareStep, vars
<1>3. CASE BootStep
  BY <1>3 DEF BootStep, Rest, LocateConfig, ReadConfig, DecodeConfig, RunMenu, RunFails, RunReturns,
     Exit, ReadExtra, ExtraRead, ReadEntryFile, EntryFileRead, AllocatePagesFails, FindEsp, EspFound,
     LoadImage, Confirm, StartImage, SkipDrive, UnlockDrive, DriveFails, DriveDone, AllUnlocked
<1>4. CASE SearchStep
  BY <1>4 DEF SearchStep, Next, ProgramStep, ResolveParent, NoMoreDevices, DeviceFails, ProbeDrive,
     DriveUnlocked, OpenDevice, DeviceSearched, ProbeNothing, ProbeVolume, VolumeSearched, ProbeLuks,
     LuksPassword, LuksSearched, ProbeFileSystem, StartUnlock, TryPassword, UseBuffered, FindKeyFile,
     KeyFileRead, KeyFileMissing, ReadFails, UnlockFails, ShutDown, Type, Obtain
<1> QED
  BY <1>1, <1>2, <1>3, <1>4 DEF BootNext

LEMMA GoodStep == ASSUME Good, world \in Worlds, [BootNext]_bootVars PROVE Good'
<1>1. Stays
  BY SearchGood, BootStepGood
     DEF BootNext, SearchStep, FirmwareStep, bootVars, vars, calls, Good, Stays
<1> QED
  BY <1>1, WorldStays DEF Good, Stays

\* The program that was loaded: main, and nothing called yet.
LEMMA GoodInit == ASSUME BootInit PROVE Good
<1> DEFINE f == [fn |-> "main", at |-> "load"]
<1>1. stack = <<f>> /\ ret = None
  BY DEF BootInit
<1>2. IsMain(world, f) /\ f.fn = "main" /\ Frame(world, f)
  BY DEF IsMain, Frame
<1> HIDE DEF f
<1>3. <<f>> \in Seq({f}) /\ Len(<<f>>) = 1 /\ <<f>>[1] = f
  OBVIOUS
<1>4. IsSequence(<<f>>)
  BY <1>3, SeqOfRange DEF IsSequence
<1> QED
  BY <1>1, <1>2, <1>3, <1>4, DepthAssumption DEF Good, StackOK, RetOK

-------------------------------------------------------------------------------
(* Types. *)

Ends == {None, "overflow", "memory", "panic", "reset", "shutdown", "booted"}

LEMMA HaltedStep == ASSUME halted \in Ends, [BootNext]_bootVars PROVE halted' \in Ends
<1> USE DEF Become, Return, Call, Halt, Ends
<1>1. CASE UNCHANGED bootVars
  BY <1>1 DEF bootVars, vars, calls
<1>2. CASE FirmwareStep
  BY <1>2 DEF FirmwareStep, vars, calls
<1>3. CASE BootStep
  <2>1. CASE LocateConfig \/ ReadConfig \/ DecodeConfig \/ RunMenu \/ RunFails \/ RunReturns \/ Exit
    BY <2>1 DEF LocateConfig, ReadConfig, DecodeConfig, RunMenu, RunFails, RunReturns, Exit
  <2>2. CASE ReadExtra \/ ExtraRead \/ ReadEntryFile \/ EntryFileRead \/ AllocatePagesFails
    BY <2>2 DEF ReadExtra, ExtraRead, ReadEntryFile, EntryFileRead, AllocatePagesFails
  <2>3. CASE FindEsp \/ EspFound \/ LoadImage \/ Confirm \/ StartImage
    BY <2>3 DEF FindEsp, EspFound, LoadImage, Confirm, StartImage
  <2>4. CASE SkipDrive \/ UnlockDrive \/ DriveFails \/ DriveDone \/ AllUnlocked
    BY <2>4 DEF SkipDrive, UnlockDrive, DriveFails, DriveDone, AllUnlocked
  <2> QED
    BY <1>3, <2>1, <2>2, <2>3, <2>4 DEF BootStep
<1>4. CASE SearchStep
  <2>1. CASE ResolveParent \/ NoMoreDevices \/ DeviceFails \/ ProbeDrive \/ DriveUnlocked
               \/ OpenDevice \/ DeviceSearched
    BY <2>1 DEF ResolveParent, NoMoreDevices, DeviceFails, ProbeDrive, DriveUnlocked, OpenDevice,
       DeviceSearched, DescendDrive
  <2>2. CASE ProbeNothing \/ ProbeVolume \/ VolumeSearched \/ ProbeLuks \/ LuksPassword
               \/ LuksSearched \/ ProbeFileSystem \/ ReadFails
    BY <2>2 DEF ProbeNothing, ProbeVolume, VolumeSearched, ProbeLuks, LuksPassword, LuksSearched,
       ProbeFileSystem, ReadFails, EnterLuks
  <2>3. CASE StartUnlock \/ TryPassword \/ UnlockFails
    BY <2>3 DEF StartUnlock, TryPassword, UnlockFails
  <2>4. CASE UseBuffered \/ FindKeyFile \/ KeyFileRead \/ KeyFileMissing \/ ShutDown
               \/ \E key \in Keys : Type(key)
    BY <2>4 DEF UseBuffered, FindKeyFile, KeyFileRead, KeyFileMissing, ShutDown, Type, Obtain
  <2> QED
    BY <1>4, <2>1, <2>2, <2>3, <2>4 DEF SearchStep, Next, ProgramStep
<1> QED
  BY <1>1, <1>2, <1>3, <1>4 DEF BootNext

\* The locking range of a drive is opened with the key of the drive, by unlock_opal;
\* nothing locks it again.
LEMMA OpenStep ==
  ASSUME Good, [BootNext]_bootVars
  PROVE  \/ open' = open
         \/ /\ Top.fn = "unlock_opal" /\ Top.drive \in 1..Len(world.drives)
            /\ ret = Ok(Drive(Top.drive).key)
            /\ open' = open \cup {Top.drive}
<1>1. Top.fn = "unlock_opal" => Top.drive \in 1..Len(world.drives)
  BY TopFrame, FrameOfFunction DEF IsUnlock
<1>2. CASE UNCHANGED bootVars
  BY <1>2 DEF bootVars, vars
<1>3. CASE FirmwareStep
  BY <1>3 DEF FirmwareStep, vars
<1>4. CASE BootStep
  BY <1>4 DEF BootStep, Rest, LocateConfig, ReadConfig, DecodeConfig, RunMenu, RunFails, RunReturns,
     Exit, ReadExtra, ExtraRead, ReadEntryFile, EntryFileRead, AllocatePagesFails, FindEsp, EspFound,
     LoadImage, Confirm, StartImage, SkipDrive, UnlockDrive, DriveFails, DriveDone, AllUnlocked
<1>5. CASE SearchStep
  <2>1. CASE TryPassword \/ UnlockFails
    BY <1>1, <2>1 DEF TryPassword, UnlockFails, Resumes
  <2>2. CASE Next /\ ~TryPassword /\ ~UnlockFails
    BY <2>2 DEF Next, ProgramStep, ResolveParent, NoMoreDevices, DeviceFails, ProbeDrive,
     DriveUnlocked, OpenDevice, DeviceSearched, ProbeNothing, ProbeVolume, VolumeSearched, ProbeLuks,
     LuksPassword, LuksSearched, ProbeFileSystem, StartUnlock, UseBuffered, FindKeyFile,
     KeyFileRead, KeyFileMissing, ReadFails, ShutDown, Type, Obtain
  <2> QED
    BY <1>5, <2>1, <2>2 DEF SearchStep
<1> QED
  BY <1>2, <1>3, <1>4, <1>5 DEF BootNext

\* The user is asked, a key file is read, or the buffer and the count stay as they are.
LEMMA AskedStep ==
  ASSUME [BootNext]_bootVars
  PROVE  \/ keyslot_buffer' = keyslot_buffer /\ asked' = asked
         \/ \E key \in Keys : Type(key)
         \/ KeyFileRead
<1>1. CASE UNCHANGED bootVars
  BY <1>1 DEF bootVars, vars, config, user
<1>2. CASE FirmwareStep
  BY <1>2 DEF FirmwareStep, vars, config, user
<1>3. CASE BootStep
  BY <1>3 DEF BootStep, Rest, LocateConfig, ReadConfig, DecodeConfig, RunMenu, RunFails, RunReturns,
     Exit, ReadExtra, ExtraRead, ReadEntryFile, EntryFileRead, AllocatePagesFails, FindEsp, EspFound,
     LoadImage, Confirm, StartImage, SkipDrive, UnlockDrive, DriveFails, DriveDone, AllUnlocked,
     config, user
<1>4. CASE SearchStep
  BY <1>4 DEF SearchStep, Next, ProgramStep, ResolveParent, NoMoreDevices, DeviceFails, ProbeDrive,
     DriveUnlocked, OpenDevice, DeviceSearched, ProbeNothing, ProbeVolume, VolumeSearched, ProbeLuks,
     LuksPassword, LuksSearched, ProbeFileSystem, StartUnlock, TryPassword, UseBuffered, FindKeyFile,
     KeyFileMissing, ReadFails, UnlockFails, ShutDown, config, user
<1> QED
  BY <1>1, <1>2, <1>3, <1>4 DEF BootNext

IsBuffer(b) == b = [k \in Keyslots |-> b[k]]

Typed ==
    /\ world \in Worlds /\ Good
    /\ halted \in Ends /\ open \subseteq 1..Len(world.drives)
    /\ asked \in [Keyslots -> 0..AskedBound] /\ IsBuffer(keyslot_buffer)

LEMMA TypedInit == ASSUME BootInit PROVE Typed
<1>1. world \in Worlds /\ Good
  BY GoodInit DEF BootInit
<1>2. halted \in Ends /\ open \subseteq 1..Len(world.drives)
  BY DEF BootInit, StartState, Ends
<1>3. asked \in [Keyslots -> 0..AskedBound] /\ IsBuffer(keyslot_buffer)
  BY DEF BootInit, StartState, AskedBound, IsBuffer
<1> QED
  BY <1>1, <1>2, <1>3 DEF Typed

\* The frame of a prompt.
LEMMA TopPassword ==
  ASSUME Typed, Top.fn = "get_password_of_keyslot"
  PROVE  Top.keyslot \in Keyslots /\ Top.cached \in {"Cached", "Discard"}
BY TopFrame, FrameOfFunction DEF Typed, IsPassword, Keyslots

LEMMA TypedStep == ASSUME Typed, [BootNext]_bootVars PROVE Typed'
<1>1. world' = world /\ world' \in Worlds /\ Good'
  BY WorldStays, GoodStep DEF Typed
<1>2. halted' \in Ends
  BY HaltedStep DEF Typed
<1>3. open' \subseteq 1..Len(world'.drives)
  BY <1>1, OpenStep DEF Typed
<1>4. Keyslots' = Keyslots
  BY <1>1 DEF Keyslots
<1>5. asked' \in [Keyslots -> 0..AskedBound] /\ IsBuffer(keyslot_buffer')
  <2>1. CASE keyslot_buffer' = keyslot_buffer /\ asked' = asked
    BY <2>1 DEF Typed, IsBuffer
  <2>2. ASSUME NEW key \in Keys, Type(key)
        PROVE  asked' \in [Keyslots -> 0..AskedBound] /\ IsBuffer(keyslot_buffer')
    <3>1. Top.keyslot \in Keyslots
      BY <2>2, TopPassword DEF Type, Prompting, Runs
    <3>2. asked[Top.keyslot] \in 0..2
      BY <3>1 DEF Typed, AskedBound
    <3>3. asked' = [asked EXCEPT ![Top.keyslot] =
                       IF asked[Top.keyslot] < 2 THEN asked[Top.keyslot] + 1
                       ELSE asked[Top.keyslot]]
      BY <2>2 DEF Type, AskedBound
    <3>4. asked' \in [Keyslots -> 0..AskedBound]
      BY <3>1, <3>2, <3>3 DEF Typed, AskedBound
    <3> QED
      BY <2>2, <3>4 DEF Typed, Type, Obtain, IsBuffer
  <2>3. CASE KeyFileRead
    BY <2>3 DEF Typed, KeyFileRead, Obtain, IsBuffer
  <2> QED
    BY <2>1, <2>2, <2>3, AskedStep
<1> QED
  BY <1>1, <1>2, <1>3, <1>4, <1>5 DEF Typed, IsBuffer

\* What is always so in a boot: every frame on the stack is that of a function which the
\* function before it has called and waits for.
THEOREM BootTyped == BootSpec => []Typed
<1>1. BootInit => Typed
  BY TypedInit
<1>2. Typed /\ [BootNext]_bootVars => Typed'
  BY TypedStep
<1> QED
  BY <1>1, <1>2, PTL DEF BootSpec

\* The type invariant of the searches, in every boot.  In particular a search never
\* runs out of partitions before it looks at partitions[0].
THEOREM SearchTypeCorrect == BootSpec => []TypeOK
<1>1. ASSUME Typed PROVE TypeOK
  <2>1. ASSUME NEW j \in 1..Len(stack)
        PROVE  /\ stack[j].fn \in Functions \cup Callers
               /\ stack[j].fn = "find_read_file" => stack[j].path # <<>>
    <3>1. Frame(world, stack[j])
      BY <1>1 DEF Typed, Good, StackOK
    <3> QED
      BY <3>1, FrameOfFunction DEF IsSearch
  <2>2. \A f \in Frames("find_read_file") : f.path # <<>>
    BY <2>1 DEF Frames
  <2>3. Len(stack) <= MaxDepth
    BY <1>1, TopFrame, DepthAssumption DEF Typed
  <2> QED
    BY <1>1, <2>1, <2>2, <2>3 DEF TypeOK, Typed, Ends
<1> QED
  BY <1>1, BootTyped, PTL

-------------------------------------------------------------------------------
(* A password is asked for once. *)

Fresh(s) == \A j \in 1..Len(s) : s[j].fn = "get_password_of_keyslot" => s[j].cached = "Cached"

\* A frame that has no invariant of its own below.
Plain(f) == f.fn \notin {"get_password_of_keyslot", "handle_unlock_configured_opal_drives"}

\* How the stack moves.
Moves ==
    \/ stack' = stack /\ ret' \in {ret, None}
    \/ \E r : Return(r)
    \/ \E f : /\ Become(f)
              /\ \/ Plain(f)
                 \/ f.fn = "handle_unlock_configured_opal_drives" /\ (SkipDrive \/ DriveDone)
    \/ \E f, g : /\ Call(f, g)
                 /\ f = Top \/ Plain(f)
                 /\ g.fn = "get_password_of_keyslot" => refused' \/ g.cached = "Cached"
                 /\ g.fn = "handle_unlock_configured_opal_drives" =>
                        /\ Top.fn = "main"
                        /\ \E dropped : /\ g = UnlockConfigured(dropped)
                                        /\ ListWithout(Len(stack) + 1, dropped)

LEMMA FreshMoves ==
  ASSUME Good, Fresh(stack), ~refused', Moves
  PROVE  Fresh(stack')
<1>1. IsSequence(stack) /\ stack # <<>> /\ Top = stack[Len(stack)]
  BY TopFrame
<1>2. ASSUME NEW r, Return(r) PROVE Fresh(stack')
  BY <1>1, <1>2, ReturnStack DEF Fresh
<1>3. ASSUME NEW f, Become(f), f.fn # "get_password_of_keyslot" PROVE Fresh(stack')
  BY <1>1, <1>3, BecomeStack DEF Fresh
<1>4. ASSUME NEW f, NEW g, Call(f, g), f = Top \/ f.fn # "get_password_of_keyslot",
             g.fn = "get_password_of_keyslot" => g.cached = "Cached"
      PROVE  Fresh(stack')
  <2>1. CASE Len(stack) < MaxDepth
    BY <1>1, <1>4, <2>1, CallStack DEF Fresh
  <2>2. CASE ~(Len(stack) < MaxDepth)
    BY <1>4, <2>2 DEF Call
  <2> QED
    BY <2>1, <2>2
<1> QED
  BY <1>2, <1>3, <1>4 DEF Moves, Plain

\* An EXCEPT leaves the function of a frame as it is.
LEMMA SameFunction ==
  ASSUME Good
  PROVE  /\ \A at : [Top EXCEPT !.at = at].fn = Top.fn
         /\ \A at, x : /\ [Top EXCEPT !.at = at, !.i = x].fn = Top.fn
                       /\ [Top EXCEPT !.at = at, !.file_path = x].fn = Top.fn
         /\ \A p, x : [Top EXCEPT !.current = p, !.path = x].fn = Top.fn
         /\ \A p, at : /\ [Top EXCEPT !.path = p, !.at = at].fn = Top.fn
                       /\ [Top EXCEPT !.i = p, !.at = at].fn = Top.fn
                       /\ [Top EXCEPT !.i = p, !.contents = at].fn = Top.fn
         /\ \A i : [Top EXCEPT !.i = i].fn = Top.fn /\ [Top EXCEPT !.kid = i].fn = Top.fn
<1>1. Frame(world, Top)
  BY TopFrame
<1>2. "fn" \in DOMAIN Top
  BY <1>1 DEF Frame, IsMain, IsEntry, IsUnlockAll, IsResolve, IsSearch, IsProbe, IsUnlock, IsPassword
<1> QED
  BY <1>2

LEMMA Move ==
  /\ \A how : Halt(how) => Moves
  /\ \A r : Return(r) => Moves
  /\ \A f : Become(f) /\ Plain(f) => Moves
  /\ \A f : /\ Become(f) /\ f.fn = "handle_unlock_configured_opal_drives"
            /\ SkipDrive \/ DriveDone
            => Moves
  /\ \A f, g : Call(f, g) /\ (f = Top \/ Plain(f)) /\ Plain(g) => Moves
  /\ \A f, g : /\ Call(f, g)
               /\ f = Top \/ Plain(f)
               /\ g.fn = "get_password_of_keyslot" => refused' \/ g.cached = "Cached"
               /\ g.fn = "handle_unlock_configured_opal_drives" =>
                      /\ Top.fn = "main"
                      /\ \E dropped : /\ g = UnlockConfigured(dropped)
                                      /\ ListWithout(Len(stack) + 1, dropped)
               => Moves
BY DEF Moves, Halt, Plain

\* The functions that are called.
LEMMA Callees ==
  /\ \A x, p, file : Search(x, p, file).fn = "find_read_file"
  /\ \A n, p, file : Probe(n, p, file).fn = "find_read_file_internal"
  /\ \A d, k : UnlockOpal(d, k).fn = "unlock_opal"
  /\ \A k, c : Password(k, c).fn = "get_password_of_keyslot" /\ Password(k, c).cached = c
  /\ \A file : Resolve(file).fn = "resolve_and_read_file"
  /\ \A e : BootEntry(e).fn = "handle_boot_entry"
  /\ \A x : UnlockConfigured(x).fn = "handle_unlock_configured_opal_drives"
BY DEF Search, Probe, UnlockOpal, Password, Resolve, BootEntry, UnlockConfigured

LEMMA SearchMoves == ASSUME Good, Next PROVE Moves
<1>1. CASE ResolveParent
  <2> DEFINE path   == <<Top.current>> \o Top.path
             parent == Partition(Top.current).parent
             f == [Top EXCEPT !.current = parent, !.path = path]
             g(x) == Search(x, path, Top.file)
  <2>1. Plain(f) /\ \A x : Plain(g(x))
    BY <1>1, SameFunction, Callees DEF Plain, ResolveParent, Runs
  <2>2. Become(f) \/ (\E x : Become(g(x))) \/ Halt("memory")
    BY <1>1 DEF ResolveParent
  <2> HIDE DEF f, g
  <2> QED
    BY <2>1, <2>2, Move
<1>2. CASE NoMoreDevices \/ DeviceFails
  BY <1>2, Move DEF NoMoreDevices, DeviceFails
<1>3. ASSUME Top.fn = "find_read_file", DescendDrive PROVE Moves
  BY <1>3, SameFunction, Move DEF DescendDrive, Plain
<1>4. CASE ProbeDrive
  <2>1. Top.fn = "find_read_file"
    BY <1>4 DEF ProbeDrive, AtDevice, Runs
  <2> DEFINE f == [Top EXCEPT !.at = "unlocking"]
             h == [Top EXCEPT !.at = "open"]
             g == UnlockOpal(Top.devices[Top.i], Partition(Head(Top.path)).keyslot)
  <2>2. /\ Plain(f) /\ Plain(g)
        /\ Plain(h)
    BY <2>1, SameFunction, Callees DEF Plain
  <2>3. Become(h) \/ DescendDrive \/ Halt("panic") \/ Call(f, g)
    BY <1>4 DEF ProbeDrive
  <2> HIDE DEF f, g, h
  <2> QED
    BY <1>3, <2>1, <2>2, <2>3, Move
<1>5. CASE DriveUnlocked
  BY <1>3, <1>5, Move DEF DriveUnlocked, Resumes
<1> DEFINE next == [Top EXCEPT !.i = Top.i + 1, !.at = "drive"]
<1>6. NextDevice = next /\ next.fn = Top.fn
  BY SameFunction DEF NextDevice
<1>7. CASE OpenDevice
  <2> DEFINE f == [Top EXCEPT !.at = "probing"]
             g == Probe(IF Top.devices[Top.i] \in open THEN Device.root ELSE None, Top.path, Top.file)
  <2>1. Top.fn = "find_read_file" /\ (Become(NextDevice) \/ Call(f, g))
    BY <1>7 DEF OpenDevice, AtDevice, Runs
  <2>2. Plain(f) /\ Plain(g)
    BY <2>1, SameFunction, Callees DEF Plain
  <2>3. Plain(NextDevice)
    BY <1>6, <2>1 DEF Plain
  <2> HIDE DEF f, g
  <2> QED
    BY <2>1, <2>2, <2>3, Move
<1>8. CASE DeviceSearched
  BY <1>6, <1>8, Move DEF Plain, DeviceSearched, Resumes
<1>9. CASE ProbeNothing \/ LuksSearched \/ ProbeFileSystem \/ ReadFails
  BY <1>9, Move DEF ProbeNothing, LuksSearched, ProbeFileSystem, ReadFails
<1>10. CASE ProbeVolume
  BY <1>10, Callees, Move DEF Plain, ProbeVolume
<1>11. CASE VolumeSearched
  BY <1>11, SameFunction, Move DEF Plain, VolumeSearched, Resumes
<1>12. ASSUME Top.fn = "find_read_file_internal", EnterLuks PROVE Moves
  <2> DEFINE f == [Top EXCEPT !.at = "inside"]
             g == Probe(Node(Top.node).kids[1], Tail(Top.path), Top.file)
  <2>1. Plain(f) /\ Plain(g) /\ Call(f, g)
    BY <1>12, SameFunction, Callees DEF Plain, EnterLuks
  <2> HIDE DEF f, g
  <2> QED
    BY <2>1, Move
<1>13. CASE ProbeLuks
  <2> DEFINE f == [Top EXCEPT !.at = "password"]
             g == Password(Partition(Head(Top.path)).keyslot, "Cached")
  <2>1. /\ Top.fn = "find_read_file_internal"
        /\ Return(Err) \/ EnterLuks \/ Call(f, g)
    BY <1>13 DEF ProbeLuks, Probes, Runs
  <2>2. Plain(f) /\ g.fn = "get_password_of_keyslot" /\ g.cached = "Cached"
    BY <2>1, SameFunction, Callees DEF Plain
  <2> HIDE DEF f, g
  <2> QED
    BY <1>12, <2>1, <2>2, Move
<1>14. CASE LuksPassword
  BY <1>12, <1>14, SameFunction, Callees, Move DEF LuksPassword, Resumes
<1>15. CASE StartUnlock \/ TryPassword \/ UnlockFails
  BY <1>15, Callees, Move DEF StartUnlock, TryPassword, UnlockFails
<1>16. CASE UseBuffered \/ FindKeyFile \/ KeyFileRead \/ KeyFileMissing \/ ShutDown
               \/ \E key \in Keys : Type(key)
  BY <1>16, Callees, Move
     DEF UseBuffered, FindKeyFile, KeyFileRead, KeyFileMissing, ShutDown, Type, Obtain
<1> QED
  BY <1>1, <1>2, <1>4, <1>5, <1>7, <1>8, <1>9, <1>10, <1>11, <1>13, <1>14, <1>15, <1>16
     DEF Next, ProgramStep

LEMMA BootMoves == ASSUME Good, BootStep PROVE Moves
<1>1. CASE LocateConfig \/ ReadConfig \/ DecodeConfig \/ RunFails \/ RunReturns \/ Exit
  BY <1>1, SameFunction, Move
     DEF Plain, LocateConfig, ReadConfig, DecodeConfig, RunFails, RunReturns, Exit, Runs, Resumes
<1>2. CASE RunMenu
  <2>1. Top.fn = "main"
    BY <1>2 DEF RunMenu, Runs
  <2>2. ASSUME NEW e, Call(Top, BootEntry(e)) PROVE Moves
    <3> DEFINE g == BootEntry(e)
    <3>1. Plain(g) /\ Call(Top, g)
      BY <2>2, Callees DEF Plain
    <3> HIDE DEF g
    <3> QED
      BY <3>1, Move
  <2>3. ASSUME NEW dropped, Call(Top, UnlockConfigured(dropped)),
               ListWithout(Len(stack) + 1, dropped)
        PROVE  Moves
    <3> DEFINE g == UnlockConfigured(dropped)
    <3>1. g.fn # "get_password_of_keyslot" /\ Call(Top, g)
      BY <2>3, Callees
    <3>2. \E x : g = UnlockConfigured(x) /\ ListWithout(Len(stack) + 1, x)
      BY <2>3
    <3> HIDE DEF g
    <3> QED
      BY <2>1, <3>1, <3>2, Move
  <2> QED
    BY <1>2, <2>2, <2>3 DEF RunMenu
<1> DEFINE next == [Top EXCEPT !.i = Top.i + 1]
           read == [Top EXCEPT !.i = Top.i + 1, !.contents = Contents]
<1>3. /\ [Top EXCEPT !.i = @ + 1] = next /\ next.fn = Top.fn
      /\ [Top EXCEPT !.i = @ + 1, !.contents = Contents] = read /\ read.fn = Top.fn
  BY SameFunction
<1> HIDE DEF next, read
<1>4. CASE ReadExtra \/ ReadEntryFile
  <2> DEFINE f == [Top EXCEPT !.at = "files", !.i = 1]
             p == Entry(Top.entry).extra_partitions[Top.i]
             g(x) == Search(x, <<p>>, [partition |-> p, file |-> Entry(Top.entry).image.file])
             h == Resolve(FilesOf(Top.entry)[Top.i])
  <2>1. /\ Top.fn = "handle_boot_entry"
        /\ Become(f) \/ (\E x : Call(Top, g(x))) \/ Call(Top, h)
    BY <1>4 DEF ReadExtra, ReadEntryFile, Runs
  <2>2. Plain(f) /\ Plain(h) /\ \A x : Plain(g(x))
    BY <2>1, SameFunction, Callees DEF Plain
  <2> HIDE DEF f, g, h
  <2> QED
    BY <2>1, <2>2, Move
<1>5. CASE ExtraRead \/ EntryFileRead
  BY <1>3, <1>5, Move DEF Plain, ExtraRead, EntryFileRead, Resumes
<1>6. CASE AllocatePagesFails \/ FindEsp \/ EspFound \/ LoadImage \/ Confirm \/ StartImage
  <2> DEFINE f == [Top EXCEPT !.at = "load", !.file_path = res]
             At(at) == [Top EXCEPT !.at = at]
  <2>1. Top.fn = "handle_boot_entry"
    BY <1>6
       DEF AllocatePagesFails, AllRead, FindEsp, EspFound, LoadImage, Confirm, StartImage, Runs
  <2>2. Plain(f) /\ \A at : Plain(At(at))
    BY <2>1, SameFunction DEF Plain
  <2>3. \/ Become(f) \/ Return(Err) \/ Return(Ok("returned"))
        \/ \E at : Become(At(at))
        \/ \E how : Halt(how)
    BY <1>6
       DEF AllocatePagesFails, FindEsp, EspFound, LoadImage, Confirm, StartImage
  <2> HIDE DEF f, At
  <2> QED
    BY <2>2, <2>3, Move
<1>7. CASE SkipDrive \/ DriveFails \/ DriveDone \/ AllUnlocked
  <2>1. Top.fn = "handle_unlock_configured_opal_drives"
    BY <1>7 DEF SkipDrive, DriveFails, DriveDone, AllUnlocked, AtConfigured, Runs, Resumes
  <2>2. (SkipDrive \/ DriveDone) => Become(next) \/ Return(Err)
    BY <1>3 DEF SkipDrive, DriveDone
  <2> QED
    BY <1>3, <1>7, <2>1, <2>2, Move DEF DriveFails, AllUnlocked
<1>8. CASE UnlockDrive
  BY <1>8, Callees, Move DEF UnlockDrive
<1> QED
  BY <1>1, <1>2, <1>4, <1>5, <1>6, <1>7, <1>8 DEF BootStep

LEMMA StackMoves == ASSUME Good, [BootNext]_bootVars PROVE Moves
BY SearchMoves, BootMoves DEF BootNext, SearchStep, FirmwareStep, bootVars, vars, calls, Moves

LEMMA FreshStep ==
  ASSUME Good, Fresh(stack), [BootNext]_bootVars, ~refused'
  PROVE  Fresh(stack')
BY StackMoves, FreshMoves

\* A device that has refused a key has refused one.
LEMMA RefusedStays == ASSUME [BootNext]_bootVars, refused PROVE refused'
<1>1. CASE UNCHANGED bootVars
  BY <1>1 DEF bootVars, vars, user
<1>2. CASE FirmwareStep
  BY <1>2 DEF FirmwareStep, vars, user
<1>3. CASE BootStep
  BY <1>3 DEF BootStep, Rest, LocateConfig, ReadConfig, DecodeConfig, RunMenu, RunFails, RunReturns,
     Exit, ReadExtra, ExtraRead, ReadEntryFile, EntryFileRead, AllocatePagesFails, FindEsp, EspFound,
     LoadImage, Confirm, StartImage, SkipDrive, UnlockDrive, DriveFails, DriveDone, AllUnlocked, user
<1>4. CASE SearchStep
  BY <1>4 DEF SearchStep, Next, ProgramStep, ResolveParent, NoMoreDevices, DeviceFails, ProbeDrive,
     DriveUnlocked, OpenDevice, DeviceSearched, ProbeNothing, ProbeVolume, VolumeSearched, ProbeLuks,
     LuksPassword, LuksSearched, ProbeFileSystem, StartUnlock, TryPassword, UseBuffered, FindKeyFile,
     KeyFileRead, KeyFileMissing, ReadFails, UnlockFails, ShutDown, Type, Obtain, user
<1> QED
  BY <1>1, <1>2, <1>3, <1>4 DEF BootNext

\* As long as no device has refused a key, nobody asks past the buffer, and what was
\* asked for is in it.
Remembered ==
    ~refused => /\ Fresh(stack)
                /\ \A k \in Keyslots : asked[k] = 0 \/ (asked[k] = 1 /\ keyslot_buffer[k] # None)

LEMMA RememberedStep == ASSUME Typed, Remembered, [BootNext]_bootVars PROVE Remembered'
<1> SUFFICES ASSUME ~refused' PROVE Remembered'
  BY DEF Remembered
<1>1. ~refused /\ Fresh(stack) /\ Fresh(stack')
  BY RefusedStays, FreshStep DEF Remembered, Typed
<1>2. Keyslots' = Keyslots
  BY WorldStays DEF Keyslots
<1>3. \A k \in Keyslots : asked[k] = 0 \/ (asked[k] = 1 /\ keyslot_buffer[k] # None)
  BY <1>1 DEF Remembered
<1>4. \A k \in Keyslots : asked'[k] = 0 \/ (asked'[k] = 1 /\ keyslot_buffer'[k] # None)
  <2>1. CASE keyslot_buffer' = keyslot_buffer /\ asked' = asked
    BY <1>3, <2>1
  <2>2. ASSUME NEW key \in Keys, Type(key), NEW k \in Keyslots
        PROVE  asked'[k] = 0 \/ (asked'[k] = 1 /\ keyslot_buffer'[k] # None)
    <3>1. Top.fn = "get_password_of_keyslot" /\ Top.keyslot \in Keyslots
      BY <2>2, TopPassword DEF Type, Prompting, Runs
    <3>2. Top.cached = "Cached"
      <4>1. Top = stack[Len(stack)] /\ Len(stack) \in 1..Len(stack)
        BY TopFrame, DepthAssumption DEF Typed
      <4> QED
        BY <1>1, <3>1, <4>1 DEF Fresh
    <3>3. keyslot_buffer[Top.keyslot] = None
      BY <2>2, <3>2 DEF Type, Prompting, Buffered
    <3>4. asked[Top.keyslot] = 0
      BY <1>3, <3>1, <3>3
    <3>5. asked' = [asked EXCEPT ![Top.keyslot] = 1]
      BY <2>2, <3>4 DEF Type, AskedBound
    <3>6. keyslot_buffer' = [keyslot_buffer EXCEPT ![Top.keyslot] = key] /\ key # None
      BY <2>2, KeysAssumption DEF Type, Obtain
    <3>7. CASE k = Top.keyslot
      BY <3>1, <3>5, <3>6, <3>7 DEF Typed, IsBuffer
    <3>8. CASE k # Top.keyslot
      BY <1>3, <3>5, <3>6, <3>8
    <3> QED
      BY <3>7, <3>8
  <2>3. ASSUME KeyFileRead, NEW k \in Keyslots
        PROVE  asked'[k] = 0 \/ (asked'[k] = 1 /\ keyslot_buffer'[k] # None)
    <3>1. /\ Top.fn = "get_password_of_keyslot" /\ Top.keyslot \in Keyslots
          /\ ret # None /\ ret # Err
      BY <2>3, TopPassword DEF KeyFileRead, Resumes
    <3>2. ret.value # None
      <4>1. Answers(world, Top, ret) /\ Reading(Top)
        BY <3>1, TopFrame DEF Typed, Good, RetOK, Reading
      <4>2. ret.value \in Stored(world)
        BY <3>1, <4>1 DEF Answers
      <4> QED
        BY <4>2, WorldIsWhole DEF Typed, Stored, StorageIsNested, Range
    <3>3. /\ asked' = asked
          /\ keyslot_buffer' = [keyslot_buffer EXCEPT ![Top.keyslot] = ret.value]
      BY <2>3 DEF KeyFileRead, Obtain
    <3> QED
      BY <1>3, <3>1, <3>2, <3>3 DEF Typed, IsBuffer
  <2> QED
    BY <2>1, <2>2, <2>3, AskedStep
<1> QED
  BY <1>1, <1>2, <1>4 DEF Remembered

\* Until a device refuses a key, the user is asked at most once for each keyslot: by
\* however many devices it is needed, and in whatever search within a search.
THEOREM PasswordAskedOnce == BootSpec => []AskedOnce
<1>1. BootInit => Remembered
  <2>1. ASSUME BootInit PROVE Remembered
    <3>1. stack = <<[fn |-> "main", at |-> "load"]>> /\ asked = [k \in Keyslots |-> 0]
      BY <2>1 DEF BootInit, StartState
    <3> QED
      BY <3>1 DEF Remembered, Fresh
  <2> QED
    BY <2>1
<1>2. Typed /\ Remembered /\ [BootNext]_bootVars => Remembered'
  BY RememberedStep
<1>3. Remembered => AskedOnce
  BY DEF Remembered, AskedOnce
<1> QED
  BY <1>1, <1>2, <1>3, BootTyped, PTL DEF BootSpec

-------------------------------------------------------------------------------
(* All drives the config knows are unlocked. *)

\* The config knows the serial number of drive d.
Wanted(w, d) ==
    w.drives[d].bus # "other" /\ \E p \in DOMAIN w.partitions : Uuid(w, p) = w.drives[d].serial

\* The drives that frame j has no list entry for.
Skipped(w, m, j) == {d \in 1..Len(w.drives) : <<j, d, w.drives[d].root>> \in m}

\* A drive the loop f has to unlock is in o or is still to come.
SoFar(w, o, f) ==
    \A d \in 1..Len(w.drives) : Wanted(w, d) =>
        d \in o \/ \E k \in f.i..Len(f.devices) : f.devices[k] = d

\* The drive that is at hand, when unlock_opal has returned.
AtHand(f, o) == f.i <= Len(f.devices) /\ f.devices[f.i] \in o

Unlocking(w, s, o, m) ==
    \A j \in 1..Len(s) : s[j].fn = "handle_unlock_configured_opal_drives" =>
        SoFar(w, o \cup Skipped(w, m, j), s[j])
Told(s, r, o) ==
    r \notin {None, Err} /\ s[Len(s)].fn = "handle_unlock_configured_opal_drives" =>
        AtHand(s[Len(s)], o)

\* An unlocking that goes well leaves its drive open.
LEMMA UnlockedOnReturn ==
  ASSUME Good, [BootNext]_bootVars, Top.fn = "unlock_opal",
         stack' # stack, ret' \notin {None, Err}
  PROVE  Top.drive \in open'
<1>1. CASE UNCHANGED bootVars
  BY <1>1 DEF bootVars, vars, calls
<1>2. CASE FirmwareStep
  BY <1>2 DEF FirmwareStep, vars, calls
<1>3. CASE BootStep
  BY <1>3 DEF BootStep, LocateConfig, ReadConfig, DecodeConfig, RunMenu, RunFails, RunReturns,
     Exit, ReadExtra, ExtraRead, ReadEntryFile, EntryFileRead, AllocatePagesFails, FindEsp, EspFound,
     LoadImage, Confirm, StartImage, SkipDrive, UnlockDrive, DriveFails, DriveDone, AllUnlocked,
     AllRead, AtConfigured, Runs, Resumes
<1>4. CASE SearchStep
  <2>1. StartUnlock \/ TryPassword \/ UnlockFails
    BY <1>4 DEF SearchStep, Next, ProgramStep, ResolveParent, NoMoreDevices, DeviceFails, ProbeDrive,
     DriveUnlocked, OpenDevice, DeviceSearched, ProbeNothing, ProbeVolume, IsVolumeGroup,
     VolumeSearched, ProbeLuks, LuksPassword, LuksSearched, ProbeFileSystem, UseBuffered,
     FindKeyFile, KeyFileRead, KeyFileMissing, ReadFails, ShutDown, Type, Prompting,
     Probes, AtDevice, Runs, Resumes
  <2>2. CASE StartUnlock
    BY <2>2 DEF StartUnlock, Return, Call
  <2>3. CASE TryPassword
    BY <2>3 DEF TryPassword, Return, Call, Halt
  <2>4. CASE UnlockFails
    BY <2>4 DEF UnlockFails, Return
  <2> QED
    BY <2>1, <2>2, <2>3, <2>4
<1> QED
  BY <1>1, <1>2, <1>3, <1>4 DEF BootNext

\* What the loop over all drives does.
LEMMA AtUnlockAll ==
  ASSUME [BootNext]_bootVars, Top.fn = "handle_unlock_configured_opal_drives"
  PROVE  stack' = stack \/ SkipDrive \/ UnlockDrive \/ DriveFails \/ DriveDone \/ AllUnlocked
<1>1. CASE UNCHANGED bootVars
  BY <1>1 DEF bootVars, vars, calls
<1>2. CASE FirmwareStep
  BY <1>2 DEF FirmwareStep, vars, calls
<1>3. CASE BootStep
  BY <1>3 DEF BootStep, LocateConfig, ReadConfig, DecodeConfig, RunMenu, RunFails, RunReturns,
     Exit, ReadExtra, ExtraRead, ReadEntryFile, EntryFileRead, AllocatePagesFails, FindEsp, EspFound,
     LoadImage, Confirm, StartImage, AllRead, Runs, Resumes
<1>4. CASE SearchStep
  BY <1>4 DEF SearchStep, Next, ProgramStep, ResolveParent, NoMoreDevices, DeviceFails, ProbeDrive,
     DriveUnlocked, OpenDevice, DeviceSearched, ProbeNothing, ProbeVolume, IsVolumeGroup,
     VolumeSearched, ProbeLuks, LuksPassword, LuksSearched, ProbeFileSystem, StartUnlock,
     TryPassword, UnlockFails, UseBuffered, FindKeyFile, KeyFileRead, KeyFileMissing, ReadFails,
     ShutDown, Type, Prompting, Probes, AtDevice, Runs, Resumes
<1> QED
  BY <1>1, <1>2, <1>3, <1>4 DEF BootNext

\* What a frame has missed is forgotten only with its list.
LEMMA MissedStays ==
  ASSUME Typed, [BootNext]_bootVars, NEW j \in 1..Len(stack), NEW d, NEW x, <<j, d, x>> \in missed,
         j < Len(stack) \/ Top.fn # "resolve_and_read_file"
  PROVE  <<j, d, x>> \in missed'
<1> DEFINE m == <<j, d, x>>
<1>1. m[1] = j /\ j \in Nat /\ Len(stack) \in Nat /\ j <= Len(stack)
  BY TopFrame DEF Typed
<1> HIDE DEF m
<1>2. ASSUME NEW k, NEW dropped, ListWithout(k, dropped), k = Len(stack) + 1 \/ (k = Len(stack) /\ j < k)
      PROVE  m \in missed'
  BY <1>1, <1>2 DEF ListWithout, m
<1>3. ASSUME missed \subseteq missed' PROVE m \in missed'
  BY <1>3 DEF m
<1>4. ASSUME ForgetCallees PROVE m \in missed'
  BY <1>1, <1>4 DEF ForgetCallees, m
<1>5. CASE ResolveParent
  <2>1. Top.fn = "resolve_and_read_file"
    BY <1>5 DEF ResolveParent, Runs
  <2>2. missed' = missed \/ \E dropped : ListWithout(Len(stack), dropped)
    BY <1>5 DEF ResolveParent
  <2> QED
    BY <1>2, <1>3, <2>1, <2>2 DEF m
<1>6. CASE ReadExtra \/ RunMenu
  <2>1. missed' = missed \/ \E dropped : ListWithout(Len(stack) + 1, dropped)
    BY <1>6 DEF ReadExtra, RunMenu
  <2> QED
    BY <1>2, <1>3, <2>1 DEF m
<1>7. CASE UNCHANGED bootVars
  BY <1>3, <1>7 DEF bootVars, vars, m
<1>8. CASE FirmwareStep
  BY <1>3, <1>8 DEF FirmwareStep, vars, m
<1>9. CASE RunReturns \/ ExtraRead \/ EntryFileRead
  BY <1>4, <1>9 DEF RunReturns, ExtraRead, EntryFileRead, m
<1>10. CASE BootStep /\ ~ReadExtra /\ ~RunMenu /\ ~(RunReturns \/ ExtraRead \/ EntryFileRead)
  <2>1. missed' = missed
    BY <1>10 DEF BootStep, LocateConfig, ReadConfig, DecodeConfig, RunFails,
       Exit, ReadEntryFile, AllocatePagesFails, FindEsp, EspFound,
       LoadImage, Confirm, StartImage, SkipDrive, UnlockDrive, DriveFails, DriveDone, AllUnlocked
  <2> QED
    BY <1>3, <2>1 DEF m
<1>11. CASE DeviceFails \/ DriveUnlocked \/ OpenDevice \/ ProbeLuks \/ LuksPassword \/ ReadFails
  <2>1. \/ missed' = missed \/ MissNode \/ \E ds : MissDrives(ds)
    BY <1>11 DEF DeviceFails, DriveUnlocked, OpenDevice, ProbeLuks, LuksPassword, ReadFails
  <2>2. missed \subseteq missed'
    BY <2>1 DEF MissNode, MissDrives
  <2> QED
    BY <1>3, <2>2 DEF m
<1>12. CASE NoMoreDevices \/ ProbeDrive \/ DeviceSearched \/ ProbeNothing \/ ProbeVolume
            \/ VolumeSearched \/ LuksSearched \/ ProbeFileSystem \/ StartUnlock \/ TryPassword
            \/ UseBuffered \/ FindKeyFile \/ KeyFileRead \/ KeyFileMissing \/ UnlockFails
            \/ ShutDown \/ \E key \in Keys : Type(key)
  <2>1. missed' = missed
    BY <1>12 DEF NoMoreDevices, ProbeDrive, DeviceSearched, ProbeNothing, ProbeVolume,
       VolumeSearched, LuksSearched, ProbeFileSystem, StartUnlock, TryPassword, UseBuffered,
       FindKeyFile, KeyFileRead, KeyFileMissing, UnlockFails, ShutDown, Type, Obtain
  <2> QED
    BY <1>3, <2>1 DEF m
<1> QED
  BY <1>5, <1>6, <1>7, <1>8, <1>9, <1>10, <1>11, <1>12
     DEF BootNext, SearchStep, Next, ProgramStep, m

\* A list has what was not dropped from it.
LEMMA AllAreListed ==
  ASSUME Typed, NEW dropped, NEW n \in Nat, ListWithout(n, dropped), NEW o
  PROVE  SoFar(world, o \cup Skipped(world, missed', n), UnlockConfigured(dropped))
<1> DEFINE g == UnlockConfigured(dropped)
<1>1. g.i = 1 /\ g.devices = block_devices(dropped)
  BY DEF UnlockConfigured
<1> HIDE DEF g
<1>2. ASSUME NEW d \in 1..Len(world.drives), d \in dropped
      PROVE  d \in Skipped(world, missed', n)
  BY <1>2 DEF Skipped, ListWithout, Drive
<1>3. ASSUME NEW d \in 1..Len(world.drives), d \notin dropped
      PROVE  \E k \in 1..Len(g.devices) : g.devices[k] = d
  BY <1>1, <1>3, DevicesAreDrives DEF Typed
<1>4. SoFar(world, o \cup Skipped(world, missed', n), g)
  BY <1>1, <1>2, <1>3 DEF SoFar
<1> QED
  BY <1>4 DEF g

\* The loop goes on to the next drive: this one is open, or the config does not know it.
LEMMA NextSoFar ==
  ASSUME Typed, Top.fn = "handle_unlock_configured_opal_drives", NEW o, SoFar(world, o, Top),
         Top.i <= Len(Top.devices), Wanted(world, Top.devices[Top.i]) => Top.devices[Top.i] \in o,
         NEW f, f = [Top EXCEPT !.i = @ + 1]
  PROVE  SoFar(world, o, f)
<1>1. IsUnlockAll(world, Top)
  BY TopFrame, FrameOfFunction DEF Typed
<1>2. f.devices = Top.devices /\ f.i = Top.i + 1 /\ Top.i \in Nat \ {0} /\ Len(Top.devices) \in Nat
  BY <1>1 DEF IsUnlockAll
<1>3. ASSUME NEW d \in 1..Len(world.drives), Wanted(world, d), d \notin o
      PROVE  \E k \in f.i..Len(f.devices) : f.devices[k] = d
  <2>1. PICK k \in Top.i..Len(Top.devices) : Top.devices[k] = d
    BY <1>3 DEF SoFar
  <2>2. k # Top.i
    BY <1>3, <2>1
  <2> QED
    BY <1>2, <2>1, <2>2
<1> QED
  BY <1>3 DEF SoFar

LEMMA UnlockAllSteps ==
  ASSUME Typed, Top.fn = "handle_unlock_configured_opal_drives", NEW o, open \subseteq o,
         SoFar(world, o, Top), Told(stack, ret, open), NEW f, Become(f), SkipDrive \/ DriveDone
  PROVE  SoFar(world, o, f)
<1> DEFINE next == [Top EXCEPT !.i = @ + 1]
<1>1. Top = stack[Len(stack)] /\ IsUnlockAll(world, Top) /\ IsSequence(stack) /\ stack # <<>>
  BY TopFrame, FrameOfFunction DEF Typed
<1>2. ASSUME NEW g, Become(g) PROVE f = g
  BY <1>1, <1>2, BecomeStack
<1>3. ASSUME NEW r, Return(r) PROVE FALSE
  <2>1. Len(stack) \in Nat \ {0} /\ Len(stack') = Len(stack)
    BY <1>1, BecomeStack
  <2>2. Len(stack') = Len(stack) - 1
    BY <1>1, <1>3, ReturnStack
  <2> QED
    BY <2>1, <2>2
<1>4. CASE SkipDrive
  <2>1. Top.i <= Len(Top.devices) /\ f = next
    <3>1. Top.i <= Len(Top.devices) /\ Become(next)
      BY Zenon, <1>4 DEF SkipDrive, AtConfigured
    <3> HIDE DEF next
    <3> QED
      BY <1>2, <3>1
  <2>2. ~Wanted(world, Top.devices[Top.i])
    BY <1>4 DEF SkipDrive, Wanted, Device, Drive, Configured, Partition, Uuid
  <2> QED
    BY <2>1, <2>2, NextSoFar
<1>5. CASE DriveDone
  <2>1. ret \notin {None, Err} /\ f = next
    BY <1>2, <1>3, <1>5 DEF DriveDone, Resumes
  <2>2. AtHand(Top, open)
    BY <1>1, <2>1 DEF Told
  <2> QED
    BY <2>1, <2>2, NextSoFar DEF AtHand
<1> QED
  BY <1>4, <1>5

LEMMA MoreSoFar ==
  ASSUME NEW w, NEW o, NEW more, NEW f, SoFar(w, o, f), o \subseteq more
  PROVE  SoFar(w, more, f)
BY DEF SoFar

UnlockingInv == Unlocking(world, stack, open, missed) /\ Told(stack, ret, open)

LEMMA UnlockingStep ==
  ASSUME Typed, UnlockingInv, [BootNext]_bootVars
  PROVE  Unlocking(world, stack', open', missed') /\ Told(stack', ret', open')
<1> DEFINE n == Len(stack)
           UA == "handle_unlock_configured_opal_drives"
           Before(j) == open \cup Skipped(world, missed, j)
           After(j)  == open' \cup Skipped(world, missed', j)
           Goal == Unlocking(world, stack', open', missed') /\ Told(stack', ret', open')
<1>1. /\ IsSequence(stack) /\ stack # <<>> /\ Top = stack[n] /\ n \in Nat \ {0}
      /\ open \subseteq open' /\ Good
  BY TopFrame, OpenStep, DepthAssumption DEF Typed
<1>2. ASSUME NEW j \in 1..n, stack[j].fn = UA PROVE Before(j) \subseteq After(j)
  <2>1. j < n \/ Top.fn # "resolve_and_read_file"
    BY <1>1, <1>2
  <2>2. Skipped(world, missed, j) \subseteq Skipped(world, missed', j)
    BY <2>1, MissedStays DEF Skipped
  <2> QED
    BY <1>1, <2>2
<1> HIDE DEF Before, After
<1>3. \A j \in 1..n : stack[j].fn = UA => SoFar(world, After(j), stack[j])
  <2> SUFFICES ASSUME NEW j \in 1..n, stack[j].fn = UA PROVE SoFar(world, After(j), stack[j])
    OBVIOUS
  <2>1. SoFar(world, Before(j), stack[j])
    BY DEF UnlockingInv, Unlocking, Before
  <2> QED
    BY <1>2, <2>1, MoreSoFar
<1>4. ASSUME \A j \in 1..Len(stack') : stack'[j].fn = UA => SoFar(world, After(j), stack'[j])
      PROVE  Unlocking(world, stack', open', missed')
  BY <1>4 DEF Unlocking, After
<1>5. CASE stack' = stack /\ ret' \in {ret, None}
  BY <1>1, <1>3, <1>4, <1>5 DEF UnlockingInv, Told, AtHand
<1>6. ASSUME NEW r, Return(r) PROVE Goal
  <2>1. /\ Len(stack') = n - 1 /\ \A j \in 1..(n - 1) : stack'[j] = stack[j]
        /\ ret' = r
    BY <1>1, <1>6, ReturnStack DEF Return
  <2>2. Unlocking(world, stack', open', missed')
    BY <1>1, <1>3, <1>4, <2>1
  <2>3. ASSUME r \notin {None, Err}, n > 1, stack[n - 1].fn = UA PROVE AtHand(stack[n - 1], open')
    <3>1. Calls(world, stack[n - 1], Top)
      BY <1>1, <2>3, TopFrame
    <3> DEFINE c == stack[n - 1]
    <3>2. Top.fn = "unlock_opal" /\ c.i <= Len(c.devices) /\ Top.drive = c.devices[c.i]
      BY <2>3, <3>1 DEF Calls, WaitsFor
    <3>3. stack' # stack
      BY <1>1, <2>1
    <3> QED
      BY <1>1, <2>1, <2>3, <3>2, <3>3, UnlockedOnReturn DEF AtHand
  <2>4. n > 1
    <3>1. Len(stack') \in 1..MaxDepth
      BY GoodStep DEF Typed, Good, StackOK
    <3> QED
      BY <1>1, <2>1, <3>1, DepthAssumption
  <2> QED
    BY <1>1, <2>1, <2>2, <2>3, <2>4 DEF Told
<1>7. ASSUME NEW f, Become(f),
             Plain(f) \/ (f.fn = UA /\ (SkipDrive \/ DriveDone))
      PROVE  Goal
  <2>1. /\ Len(stack') = n /\ stack'[n] = f /\ \A j \in 1..(n - 1) : stack'[j] = stack[j]
        /\ ret' = None
    BY <1>1, <1>7, BecomeStack DEF Become
  <2>2. f.fn = UA => SoFar(world, After(n), f)
    <3> SUFFICES ASSUME f.fn = UA PROVE SoFar(world, After(n), f)
      OBVIOUS
    <3>1. SkipDrive \/ DriveDone
      BY <1>7 DEF Plain
    <3>2. Top.fn = UA
      BY <3>1 DEF SkipDrive, DriveDone, AtConfigured, Runs, Resumes
    <3>3. n \in 1..n
      BY <1>1
    <3>4. SoFar(world, After(n), Top)
      BY <1>1, <1>3, <3>2, <3>3
    <3>5. open \subseteq After(n)
      BY <1>1 DEF After
    <3> QED
      BY <1>7, <3>1, <3>2, <3>4, <3>5, UnlockAllSteps DEF UnlockingInv
  <2>3. Unlocking(world, stack', open', missed')
    BY <1>1, <1>3, <1>4, <2>1, <2>2
  <2> QED
    BY <2>1, <2>3 DEF Told
<1>8. ASSUME NEW f, NEW g, Call(f, g), f = Top \/ Plain(f),
             g.fn = UA => \E dropped : g = UnlockConfigured(dropped) /\ ListWithout(n + 1, dropped)
      PROVE  Goal
  <2>1. ret' = None
    BY <1>8 DEF Call
  <2>2. CASE ~(n < MaxDepth)
    BY <1>1, <1>3, <1>4, <1>8, <2>1, <2>2 DEF Call, Told
  <2>3. CASE n < MaxDepth
    <3>1. /\ Len(stack') = n + 1 /\ stack'[n] = f /\ stack'[n + 1] = g
          /\ \A j \in 1..(n - 1) : stack'[j] = stack[j]
      BY <1>1, <1>8, <2>3, CallStack
    <3>2. f.fn = UA => SoFar(world, After(n), f)
      BY <1>1, <1>3, <1>8 DEF Plain
    <3>3. g.fn = UA => SoFar(world, After(n + 1), g)
      <4> SUFFICES ASSUME g.fn = UA PROVE SoFar(world, After(n + 1), g)
        OBVIOUS
      <4>1. PICK dropped : g = UnlockConfigured(dropped) /\ ListWithout(n + 1, dropped)
        BY <1>8
      <4>2. n + 1 \in Nat
        BY <1>1
      <4>3. SoFar(world, open' \cup Skipped(world, missed', n + 1), UnlockConfigured(dropped))
        BY <4>1, <4>2, AllAreListed
      <4> QED
        BY <4>1, <4>3 DEF After
    <3>4. Unlocking(world, stack', open', missed')
      BY <1>1, <1>3, <1>4, <3>1, <3>2, <3>3
    <3> QED
      BY <2>1, <3>4 DEF Told
  <2> QED
    BY <2>2, <2>3
<1> QED
  BY <1>1, <1>5, <1>6, <1>7, <1>8, StackMoves DEF Moves

LEMMA DrivesAreUnlocked ==
  ASSUME Typed, UnlockingInv, [BootNext]_bootVars,
         Top.fn = "handle_unlock_configured_opal_drives",
         stack' = Front(stack), ret' # Err,
         NEW d \in DOMAIN world.drives, Drive(d).bus # "other", Configured(Drive(d).serial) # {}
  PROVE  d \in open' \/ <<Len(stack), d, Drive(d).root>> \in missed
<1> DEFINE n == Len(stack)
<1>1. /\ IsSequence(stack) /\ stack # <<>> /\ n \in Nat \ {0} /\ Top = stack[n]
      /\ Len(Front(stack)) = n - 1 /\ Good
  BY TopFrame, FrontOf, DepthAssumption DEF Typed, IsSequence
<1>2. ASSUME NEW f, Become(f) PROVE FALSE
  BY <1>1, <1>2, BecomeStack
<1>3. ASSUME NEW g, Call(Top, g) PROVE FALSE
  <2>1. Len(stack') = n + 1 \/ stack' = stack
    BY <1>1, <1>3, CallStack DEF Call
  <2> QED
    BY <1>1, <2>1
<1>4. stack' # stack
  BY <1>1
<1>5. AllUnlocked
  <2>1. ~DriveFails /\ ~(DriveDone /\ Return(Err))
    BY DEF DriveFails, DriveDone, Return
  <2>2. ~SkipDrive /\ ~DriveDone
    BY <1>2, <2>1 DEF SkipDrive, DriveDone
  <2>3. ~UnlockDrive
    BY <1>3, <1>4 DEF UnlockDrive, Halt
  <2> QED
    BY <1>4, <2>1, <2>2, <2>3, AtUnlockAll
<1>6. /\ SoFar(world, open \cup Skipped(world, missed, n), Top)
      /\ Top.i > Len(Top.devices) /\ open \subseteq open'
  <2>1. n \in 1..n /\ Top.i > Len(Top.devices) /\ open \subseteq open'
    BY <1>1, <1>5, OpenStep DEF AllUnlocked
  <2>2. Unlocking(world, stack, open, missed)
    BY DEF UnlockingInv
  <2> QED
    BY <1>1, <2>1, <2>2 DEF Unlocking
<1>7. d \in 1..Len(world.drives) /\ IsUnlockAll(world, Top)
  BY <1>1, WorldIsWhole, TopFrame, FrameOfFunction DEF Typed
<1>8. Wanted(world, d)
  BY <1>7 DEF Wanted, Drive, Configured, Partition, Uuid
<1>9. Top.i..Len(Top.devices) = {}
  <2>1. Len(Top.devices) \in Nat /\ Top.i \in Nat
    BY <1>7 DEF IsUnlockAll
  <2> QED
    BY <1>6, <2>1
<1> QED
  BY <1>6, <1>7, <1>8, <1>9 DEF SoFar, Skipped, Drive

\* "Unlock configured opal drives" ends well only when every drive whose serial number
\* the config has is open, whatever key files had to be found in between, or the firmware
\* refused to open its BlockIO when the list was made.
THEOREM AllConfiguredDrivesOpen == BootSpec => ConfiguredDrivesAreOpen
<1>1. BootInit => UnlockingInv
  <2>1. ASSUME BootInit PROVE UnlockingInv
    <3>1. /\ stack = <<[fn |-> "main", at |-> "load"]>> /\ ret = None
      BY <2>1 DEF BootInit
    <3> QED
      BY <3>1 DEF UnlockingInv, Unlocking, Told
  <2> QED
    BY <2>1
<1>2. Typed /\ UnlockingInv /\ [BootNext]_bootVars => UnlockingInv'
  BY UnlockingStep, WorldStays DEF UnlockingInv
<1>3. Typed /\ UnlockingInv /\ [BootNext]_bootVars =>
        [stack # <<>> /\ Top.fn = "handle_unlock_configured_opal_drives"
             /\ stack' = Front(stack) /\ ret' # Err =>
            \A d \in DOMAIN world.drives :
                Drive(d).bus # "other" /\ Configured(Drive(d).serial) # {} =>
                    d \in open' \/ <<Len(stack), d, Drive(d).root>> \in missed]_bootVars
  BY DrivesAreUnlocked
<1> QED
  BY <1>1, <1>2, <1>3, BootTyped, PTL DEF BootSpec, ConfiguredDrivesAreOpen

-------------------------------------------------------------------------------
(* Every search looks where the config says. *)

SerialsOf(w) == {w.drives[d].serial : d \in {e \in 1..Len(w.drives) : w.drives[e].bus # "other"}}
UuidsOf(w, path) == [i \in DOMAIN path |-> Uuid(w, path[i])]
InnerOf(w, uuids) == IF Head(uuids) \in SerialsOf(w) THEN Tail(uuids) ELSE uuids

\* The uuids that p and what it lies in have, without the drive.
Place(w, p) == InnerOf(w, UuidsOf(w, Path(w)[p]))

\* Parents end, drives lie in nothing, a serial number is no uuid, and the partitions an
\* entry has unlocked beside its own are outermost ones.
Orderly(w) ==
    /\ PathsEnd(w)
    /\ \A p \in DOMAIN w.partitions : Uuid(w, p) \in SerialsOf(w) => Parent(w, p) = None
    /\ \A n \in DOMAIN w.nodes : w.nodes[n].kind # "gpt" => w.nodes[n].uuid \notin SerialsOf(w)
    /\ \A e \in DOMAIN w.entries : \A p \in Range(w.entries[e].extra_partitions) :
          Parent(w, p) = None

HasDrive(w, n) == \E d \in 1..Len(w.drives) : w.drives[d].root = Root(w)[n]

\* v is in the file of that name on a file system at the place of its partition.
IsCopy(w, file, n) ==
    /\ n \in DOMAIN w.nodes /\ w.nodes[n].kind \in {"ext4", "fat"}
    /\ file.file \in DOMAIN w.nodes[n].files
    /\ Chain(w)[n] = Place(w, file.partition) /\ HasDrive(w, n)
Found(w, file, v) ==
    \E n \in DOMAIN w.nodes : IsCopy(w, file, n) /\ w.nodes[n].files[file.file] = v

\* A path of partitions, each in the one before it, down to that of the file.
Along(w, path, file) ==
    /\ path \in Seq(DOMAIN w.partitions) /\ path # <<>>
    /\ \A i \in 1..(Len(path) - 1) : Parent(w, path[i + 1]) = path[i]
    /\ path[Len(path)] = file.partition

\* p is looked for where it belongs, if it is no drive.
Belongs(w, outside, p) ==
    Uuid(w, p) \in SerialsOf(w) \/ Append(outside, Uuid(w, p)) = Place(w, p)

\* What has been read is that, and the next file is the one after it.
HasRead(w, f) ==
    /\ Len(f.contents) <= Len(FilesIn(w, f.entry))
    /\ f.at = "extra" => f.contents = <<>>
    /\ f.at = "files" => Len(f.contents) = f.i - 1
    /\ f.at \notin {"extra", "files"} => Len(f.contents) = Len(FilesIn(w, f.entry))
    /\ \A j \in 1..Len(f.contents) : Found(w, FilesIn(w, f.entry)[j], f.contents[j])
    /\ f.contents # <<>> => f.contents[1] \in Images

SearchInPlace(w, f) ==
    /\ Along(w, f.path, f.file) /\ Belongs(w, <<>>, Head(f.path))
    /\ f.at = "unlocking" => Uuid(w, Head(f.path)) \in SerialsOf(w)
ProbeInPlace(w, f) ==
    f.path # <<>> =>
        /\ Along(w, f.path, f.file)
        /\ f.node # None => HasDrive(w, f.node) /\ Belongs(w, Outside(w, f.node), Head(f.path))

\* The drive is that of a partition with this keyslot.
UnlockInPlace(w, f) ==
    \E p \in DOMAIN w.partitions :
        /\ w.partitions[p].keyslot = f.keyslot /\ Parent(w, p) = None
        /\ Uuid(w, p) = w.drives[f.drive].serial

InPlace(w, f) ==
    /\ f.fn = "resolve_and_read_file" => Along(w, <<f.current>> \o f.path, f.file)
    /\ f.fn = "find_read_file" => SearchInPlace(w, f)
    /\ f.fn = "find_read_file_internal" => ProbeInPlace(w, f)
    /\ f.fn = "unlock_opal" => UnlockInPlace(w, f)
    /\ f.fn = "handle_boot_entry" => HasRead(w, f)

\* The file whose contents c waits for.
TheFile(w, c) ==
    IF c.fn = "get_password_of_keyslot" THEN w.keyslots[c.keyslot]
    ELSE IF c.fn = "handle_boot_entry" THEN FilesIn(w, c.entry)[c.i]
    ELSE c.file

Placed(w, s) == \A j \in 1..Len(s) : InPlace(w, s[j])
Delivers(w, c, r) ==
    r \notin {None, Err} /\ Reading(c) =>
        /\ Found(w, TheFile(w, c), r.value)
        /\ c.fn = "handle_boot_entry" => c.i <= Len(FilesIn(w, c.entry))
Delivered(w, s, r) == Delivers(w, s[Len(s)], r)
Started(w, x) ==
    x # None => /\ Len(x.contents) = Len(FilesIn(w, x.entry)) /\ x.contents[1] \in Images
                /\ \A i \in DOMAIN x.contents : Found(w, FilesIn(w, x.entry)[i], x.contents[i])

Ordered ==
    /\ Orderly(world)
    /\ Placed(world, stack) /\ Delivered(world, stack, ret) /\ Started(world, started)

\* What comes first stays first when something is appended.
LEMMA HeadOfAppend ==
  ASSUME NEW S, NEW s \in Seq(S), s # <<>>, NEW u \in S
  PROVE  /\ Head(Append(s, u)) = Head(s)
         /\ Tail(s) \in Seq(S)
         /\ Tail(Append(s, u)) = Append(Tail(s), u)
<1> DEFINE n == Len(s)
           a == Append(s, u)
           t == Tail(s)
<1>1. /\ n \in Nat \ {0} /\ a \in Seq(S) /\ Len(a) = n + 1 /\ a # <<>>
      /\ a[n + 1] = u /\ \A i \in 1..n : a[i] = s[i]
  BY EmptySeq, AppendProperties
<1>2. /\ t \in Seq(S) /\ Len(t) = n - 1 /\ \A i \in 1..(n - 1) : t[i] = s[i + 1]
      /\ Head(s) = s[1]
  BY <1>1, HeadTailProperties
<1>3. /\ Tail(a) \in Seq(S) /\ Len(Tail(a)) = n /\ \A i \in 1..n : Tail(a)[i] = a[i + 1]
      /\ Head(a) = a[1]
  <2> HIDE DEF a
  <2> QED
    BY <1>1, HeadTailProperties
<1>4. /\ Append(t, u) \in Seq(S) /\ Len(Append(t, u)) = n
      /\ Append(t, u)[n] = u /\ \A i \in 1..(n - 1) : Append(t, u)[i] = t[i]
  <2> HIDE DEF t
  <2> QED
    BY <1>1, <1>2, AppendProperties
<1>5. \A i \in 1..n : Tail(a)[i] = Append(t, u)[i]
  <2> HIDE DEF a, t
  <2> TAKE i \in 1..n
  <2>1. CASE i = n
    BY <1>1, <1>3, <1>4, <2>1
  <2>2. CASE i # n
    BY <1>1, <1>2, <1>3, <1>4, <2>2
  <2> QED
    BY <2>1, <2>2
<1>6. Tail(a) = Append(t, u)
  <2> HIDE DEF a, t
  <2> QED
    BY <1>3, <1>4, <1>5, SeqEqual
<1> QED
  BY <1>1, <1>2, <1>3, <1>6

\* The place of a partition is that of its parent and what comes after it.
LEMMA PlaceEquation ==
  ASSUME NEW w, ConfigIsWhole(w), PathsEnd(w), NEW p \in DOMAIN w.partitions
  PROVE  /\ Parent(w, p) = None =>
               /\ UuidsOf(w, Path(w)[p]) = <<Uuid(w, p)>>
               /\ Uuid(w, p) \notin SerialsOf(w) => Place(w, p) = <<Uuid(w, p)>>
         /\ Parent(w, p) # None => Place(w, p) = Append(Place(w, Parent(w, p)), Uuid(w, p))
<1> DEFINE D == DOMAIN w.partitions
           U == {Uuid(w, q) : q \in D}
<1>1. \A q \in D : Path(w)[q] \in Seq(D) \ {<<>>}
  BY PathEquation
<1>2. ASSUME NEW path \in Seq(D), path # <<>>
      PROVE  /\ UuidsOf(w, path) \in Seq(U) /\ UuidsOf(w, path) # <<>>
             /\ Len(UuidsOf(w, path)) = Len(path)
             /\ \A i \in 1..Len(path) : UuidsOf(w, path)[i] = Uuid(w, path[i])
  <2>1. Len(path) \in Nat \ {0} /\ DOMAIN path = 1..Len(path) /\ \A i \in 1..Len(path) : path[i] \in D
    BY <1>2, EmptySeq
  <2>2. UuidsOf(w, path) \in [1..Len(path) -> U]
    BY <2>1 DEF UuidsOf
  <2>3. UuidsOf(w, path) \in Seq(U) /\ Len(UuidsOf(w, path)) = Len(path)
    BY <2>1, <2>2
  <2>4. Len(<<>>) = 0
    OBVIOUS
  <2> QED
    BY <2>1, <2>3, <2>4 DEF UuidsOf
<1>3. ASSUME Parent(w, p) = None
      PROVE  /\ UuidsOf(w, Path(w)[p]) = <<Uuid(w, p)>>
             /\ Uuid(w, p) \notin SerialsOf(w) => Place(w, p) = <<Uuid(w, p)>>
  <2>1. Path(w)[p] = <<p>>
    BY <1>3, PathEquation
  <2>2. UuidsOf(w, <<p>>) = <<Uuid(w, p)>>
    BY DEF UuidsOf
  <2> QED
    BY <2>1, <2>2 DEF Place, InnerOf
<1>4. ASSUME Parent(w, p) # None
      PROVE  Place(w, p) = Append(Place(w, Parent(w, p)), Uuid(w, p))
  <2> DEFINE q == Parent(w, p)
             s == Path(w)[q]
             us == UuidsOf(w, s)
             u  == Uuid(w, p)
  <2>1. q \in D /\ Path(w)[p] = Append(s, p) /\ s \in Seq(D) /\ s # <<>>
    BY <1>1, <1>4, PathEquation DEF ConfigIsWhole, Parent
  <2>2. us \in Seq(U) /\ us # <<>> /\ Len(us) = Len(s) /\ u \in U
    BY <1>2, <2>1
  <2>3. UuidsOf(w, Append(s, p)) = Append(us, u)
    <3> DEFINE a == Append(s, p)
    <3> HIDE DEF s
    <3>1. /\ a \in Seq(D) /\ a # <<>> /\ Len(a) = Len(s) + 1 /\ Len(s) \in Nat
          /\ a[Len(s) + 1] = p /\ \A i \in 1..Len(s) : a[i] = s[i]
      BY <2>1, AppendProperties
    <3> HIDE DEF a
    <3>2. /\ UuidsOf(w, a) \in Seq(U) /\ Len(UuidsOf(w, a)) = Len(a)
          /\ \A i \in 1..Len(a) : UuidsOf(w, a)[i] = Uuid(w, a[i])
      BY <1>2, <3>1
    <3>3. \A i \in 1..Len(s) : us[i] = Uuid(w, s[i])
      BY <1>2, <2>1
    <3> HIDE DEF us, u
    <3>4. /\ Append(us, u) \in Seq(U) /\ Len(Append(us, u)) = Len(s) + 1
          /\ Append(us, u)[Len(s) + 1] = u /\ \A i \in 1..Len(s) : Append(us, u)[i] = us[i]
      BY <2>2, AppendProperties
    <3>5. \A i \in 1..(Len(s) + 1) : UuidsOf(w, a)[i] = Append(us, u)[i]
      BY <3>1, <3>2, <3>3, <3>4 DEF u
    <3>6. UuidsOf(w, a) = Append(us, u)
      BY <3>1, <3>2, <3>4, <3>5, SeqEqual
    <3> QED
      BY <3>6 DEF a
  <2>4. Place(w, p) = InnerOf(w, Append(us, u)) /\ Place(w, q) = InnerOf(w, us)
    BY <2>1, <2>3 DEF Place
  <2> HIDE DEF us, u, q
  <2>5. Head(Append(us, u)) = Head(us) /\ Tail(Append(us, u)) = Append(Tail(us), u)
    BY <2>2, HeadOfAppend
  <2>6. InnerOf(w, Append(us, u)) = Append(InnerOf(w, us), u)
    BY <2>5 DEF InnerOf
  <2> QED
    BY <2>4, <2>6 DEF q, u
<1> QED
  BY <1>3, <1>4

\* The rest of a path.
LEMMA AlongTail ==
  ASSUME NEW w, NEW file, NEW path, Along(w, path, file)
  PROVE  /\ path \in Seq(DOMAIN w.partitions) /\ Head(path) \in DOMAIN w.partitions
         /\ Len(path) = 1 => Head(path) = file.partition
         /\ Len(path) # 1 => /\ Along(w, Tail(path), file)
                             /\ Head(Tail(path)) \in DOMAIN w.partitions
                             /\ Parent(w, Head(Tail(path))) = Head(path)
         /\ Tail(path) # <<>> => Len(path) # 1
<1> DEFINE n == Len(path)
           t == Tail(path)
           D == DOMAIN w.partitions
<1>1. /\ path \in Seq(D) /\ path # <<>> /\ n \in Nat \ {0} /\ path[n] = file.partition
      /\ \A i \in 1..(n - 1) : Parent(w, path[i + 1]) = path[i]
      /\ Head(path) = path[1] /\ path[1] \in D
  BY HeadTailProperties, EmptySeq DEF Along
<1>2. t \in Seq(D) /\ Len(t) = n - 1 /\ \A i \in 1..(n - 1) : t[i] = path[i + 1]
  BY <1>1, HeadTailProperties
<1>3. Len(<<>>) = 0
  OBVIOUS
<1> HIDE DEF t
<1>4. ASSUME n # 1
      PROVE  Along(w, t, file) /\ Head(t) \in D /\ Parent(w, Head(t)) = Head(path)
  <2>1. t # <<>> /\ Len(t) \in Nat \ {0}
    BY <1>1, <1>2, <1>3, <1>4
  <2>2. Head(t) = t[1] /\ t[1] = path[2] /\ path[2] \in D
    BY <1>1, <1>2, <1>4, <2>1, HeadTailProperties
  <2>3. t[Len(t)] = file.partition
    BY <1>1, <1>2, <2>1
  <2>4. \A i \in 1..(Len(t) - 1) : Parent(w, t[i + 1]) = t[i]
    BY <1>1, <1>2, <2>1
  <2>5. Parent(w, path[2]) = path[1]
    <3>1. 1 \in 1..(n - 1) /\ 1 + 1 = 2
      <4>1. n \in Nat \ {0} /\ n # 1
        BY <1>1, <1>4
      <4> HIDE DEF n
      <4> QED
        BY <4>1
    <3>2. Parent(w, path[1 + 1]) = path[1]
      BY <1>1, <3>1
    <3> QED
      BY <3>1, <3>2
  <2> QED
    BY <1>1, <1>2, <2>1, <2>2, <2>3, <2>4, <2>5 DEF Along
<1>5. ASSUME n = 1 PROVE t = <<>>
  <2>1. Len(t) = 0
    BY <1>2, <1>5
  <2> QED
    BY <1>2, <2>1, EmptySeq
<1> QED
  BY <1>1, <1>4, <1>5 DEF t

\* Below a drive, and below something that is where it belongs.
LEMMA BelongsBelow ==
  ASSUME NEW w, ConfigIsWhole(w), Orderly(w), NEW p \in DOMAIN w.partitions,
         NEW q \in DOMAIN w.partitions, Parent(w, q) = p
  PROVE  /\ Uuid(w, p) \in SerialsOf(w) => Belongs(w, <<>>, q)
         /\ \A chain : chain = Place(w, p) => Belongs(w, chain, q)
<1>1. p # None /\ Place(w, q) = Append(Place(w, p), Uuid(w, q))
  BY PlaceEquation DEF Orderly, ConfigIsWhole
<1>2. ASSUME Uuid(w, p) \in SerialsOf(w) PROVE Place(w, p) = <<>>
  <2>1. UuidsOf(w, Path(w)[p]) = <<Uuid(w, p)>>
    BY <1>2, PlaceEquation DEF Orderly
  <2> QED
    BY <1>2, <2>1 DEF Place, InnerOf
<1> QED
  BY <1>1, <1>2 DEF Belongs

Keeps ==
    Placed(world, stack') /\ Delivered(world, stack', ret') /\ Started(world, started')

InOrder == Typed /\ Ordered

\* The running function is where it should be.
LEMMA TopInPlace ==
  ASSUME InOrder
  PROVE  /\ InPlace(world, Top) /\ Good /\ world \in Worlds /\ Orderly(world)
         /\ ConfigIsWhole(world) /\ StorageIsNested(world)
         /\ Delivers(world, Top, ret)
<1>1. Top = stack[Len(stack)] /\ Len(stack) \in 1..Len(stack)
  BY TopFrame, DepthAssumption DEF InOrder, Typed
<1> QED
  BY <1>1, WorldIsWhole DEF InOrder, Typed, Ordered, Placed, Delivered

LEMMA PlacedSame ==
  ASSUME InOrder, stack' = stack, ret' \in {ret, None}, started' = started
  PROVE  Keeps
BY DEF InOrder, Ordered, Keeps, Delivered, Delivers

LEMMA PlacedHalt == ASSUME InOrder, NEW how, Halt(how), started' = started PROVE Keeps
BY PlacedSame DEF Halt

LEMMA PlacedBecome ==
  ASSUME InOrder, NEW f, Become(f), InPlace(world, f), started' = started
  PROVE  Keeps
<1>1. IsSequence(stack) /\ stack # <<>>
  BY TopFrame DEF InOrder, Typed
<1>2. /\ Len(stack) \in Nat \ {0} /\ Len(stack') = Len(stack) /\ stack'[Len(stack)] = f
      /\ \A j \in 1..(Len(stack) - 1) : stack'[j] = stack[j]
  BY <1>1, BecomeStack
<1>3. Placed(world, stack')
  BY <1>2 DEF Placed, InOrder, Ordered
<1> QED
  BY <1>3 DEF Keeps, Delivered, Delivers, Become, InOrder, Ordered

LEMMA PlacedCall ==
  ASSUME InOrder, NEW f, NEW g, Call(f, g), InPlace(world, f), InPlace(world, g),
         started' = started
  PROVE  Keeps
<1>1. CASE ~(Len(stack) < MaxDepth)
  BY <1>1, PlacedSame DEF Call
<1>2. CASE Len(stack) < MaxDepth
  <2>1. IsSequence(stack) /\ stack # <<>>
    BY TopFrame DEF InOrder, Typed
  <2>2. /\ Len(stack) \in Nat \ {0} /\ Len(stack') = Len(stack) + 1
        /\ stack'[Len(stack)] = f /\ stack'[Len(stack) + 1] = g
        /\ \A j \in 1..(Len(stack) - 1) : stack'[j] = stack[j]
    BY <1>2, <2>1, CallStack
  <2>3. Placed(world, stack')
    BY <2>2 DEF Placed, InOrder, Ordered
  <2> QED
    BY <2>3 DEF Keeps, Delivered, Delivers, Call, InOrder, Ordered
<1> QED
  BY <1>1, <1>2

\* What a search returns is what its caller waits for; the other functions return to
\* nobody who waits for a file.
LEMMA PlacedReturn ==
  ASSUME InOrder, NEW r, Return(r), Started(world, started'), Top.fn # "main",
         \/ r = Err
         \/ Top.fn \in {"unlock_opal", "get_password_of_keyslot", "handle_boot_entry",
                        "handle_unlock_configured_opal_drives"}
         \/ /\ Top.fn \in {"find_read_file", "find_read_file_internal"}
            /\ Found(world, Top.file, r.value)
  PROVE  Keeps
<1> DEFINE n == Len(stack)
<1>1. /\ IsSequence(stack) /\ stack # <<>> /\ Top = stack[n] /\ n \in Nat \ {0}
      /\ n > 1 => Calls(world, stack[n - 1], Top) /\ Frame(world, stack[n - 1])
  BY TopFrame, DepthAssumption DEF InOrder, Typed, Good, StackOK
<1>2. Len(stack') = n - 1 /\ \A j \in 1..(n - 1) : stack'[j] = stack[j]
  BY <1>1, ReturnStack
<1>3. Placed(world, stack')
  BY <1>1, <1>2 DEF Placed, InOrder, Ordered
<1>4. CASE r = Err
  BY <1>3, <1>4 DEF Keeps, Delivered, Delivers, Return
<1>5. n > 1
  <2>1. n # 1 /\ n \in Nat \ {0}
    BY <1>1, TopFrame DEF InOrder, Typed
  <2> HIDE DEF n
  <2> QED
    BY <2>1
<1> DEFINE c == stack[n - 1]
<1>6. stack'[Len(stack')] = c /\ Calls(world, c, Top)
  BY <1>1, <1>2, <1>5
<1>7. CASE Top.fn \in {"unlock_opal", "get_password_of_keyslot", "handle_boot_entry",
                       "handle_unlock_configured_opal_drives"}
  <2>1. ~Reading(c)
    BY <1>6, <1>7 DEF Calls, Reading
  <2> QED
    BY <1>3, <1>6, <2>1 DEF Keeps, Delivered, Delivers
<1>8. CASE /\ Top.fn \in {"find_read_file", "find_read_file_internal"}
           /\ Found(world, Top.file, r.value)
  <2>1. Reading(c) =>
            /\ TheFile(world, c) = Top.file
            /\ c.fn = "handle_boot_entry" => c.i <= Len(FilesIn(world, c.entry))
    BY <1>6, <1>8 DEF Calls, Reading, WaitsFor, TheFile
  <2> QED
    BY <1>3, <1>6, <1>8, <2>1 DEF Keeps, Delivered, Delivers, Return
<1> QED
  BY <1>4, <1>7, <1>8

\* Where a search begins.
LEMMA OutermostBelongs ==
  ASSUME NEW w, ConfigIsWhole(w), Orderly(w), NEW p \in DOMAIN w.partitions, Parent(w, p) = None
  PROVE  Belongs(w, <<>>, p)
<1>1. Append(<<>>, Uuid(w, p)) = <<Uuid(w, p)>>
  OBVIOUS
<1> QED
  BY <1>1, PlaceEquation DEF Orderly, Belongs

LEMMA AlongOne ==
  ASSUME NEW w, NEW p \in DOMAIN w.partitions, NEW file, file.partition = p
  PROVE  Along(w, <<p>>, file) /\ Head(<<p>>) = p
<1>1. /\ <<p>> \in Seq(DOMAIN w.partitions) /\ <<p>> # <<>> /\ Len(<<p>>) = 1 /\ <<p>>[1] = p
      /\ Head(<<p>>) = p
  <2>1. <<p>> \in Seq(DOMAIN w.partitions) /\ <<p>> # <<>>
    BY Appended
  <2>2. Len(<<p>>) = 1 /\ <<p>>[1] = p /\ Head(<<p>>) = p
    OBVIOUS
  <2> QED
    BY <2>1, <2>2
<1>2. 1..(1 - 1) = {}
  OBVIOUS
<1> QED
  BY <1>1, <1>2 DEF Along

LEMMA AlongUp ==
  ASSUME NEW w, NEW file, NEW path, Along(w, path, file), NEW q \in DOMAIN w.partitions,
         Parent(w, Head(path)) = q
  PROVE  Along(w, <<q>> \o path, file)
<1> DEFINE n == Len(path)
           D == DOMAIN w.partitions
           r == <<q>> \o path
<1>1. /\ path \in Seq(D) /\ path # <<>> /\ n \in Nat \ {0} /\ path[n] = file.partition
      /\ \A i \in 1..(n - 1) : Parent(w, path[i + 1]) = path[i]
      /\ Head(path) = path[1]
  BY HeadTailProperties, EmptySeq DEF Along
<1>2. <<q>> \in Seq(D) /\ Len(<<q>>) = 1 /\ <<q>>[1] = q
  BY Appended
<1>3. /\ r \in Seq(D) /\ Len(r) = n + 1 /\ r[1] = q
      /\ \A i \in 1..n : r[i + 1] = path[i]
  <2>1. /\ r \in Seq(D) /\ Len(r) = 1 + n
        /\ \A i \in 1..(1 + n) : r[i] = IF i <= 1 THEN <<q>>[i] ELSE path[i - 1]
    BY <1>1, <1>2, ConcatProperties
  <2> HIDE DEF r, n
  <2>2. \A i \in 1..n : i + 1 \in 1..(1 + n) /\ ~(i + 1 <= 1) /\ (i + 1) - 1 = i
    BY <1>1
  <2>3. 1 \in 1..(1 + n)
    BY <1>1
  <2> QED
    BY <1>1, <1>2, <2>1, <2>2, <2>3
<1>4. ASSUME NEW i \in 1..n PROVE Parent(w, r[i + 1]) = r[i]
  <2> HIDE DEF r, n
  <2>1. CASE i = 1
    BY <1>1, <1>3, <2>1
  <2>2. CASE i # 1
    <3>1. i - 1 \in 1..(n - 1) /\ i \in 1..n /\ i - 1 \in 1..n /\ (i - 1) + 1 = i
      BY <1>1, <2>2
    <3>2. Parent(w, path[(i - 1) + 1]) = path[i - 1] /\ r[i + 1] = path[i] /\ r[(i - 1) + 1] = path[i - 1]
      BY <1>1, <1>3, <3>1
    <3> QED
      BY <3>1, <3>2
  <2> QED
    BY <2>1, <2>2
<1>5. r # <<>> /\ r[Len(r)] = file.partition
  <2>1. Len(<<>>) = 0
    OBVIOUS
  <2> HIDE DEF r, n
  <2>2. n \in 1..n
    BY <1>1
  <2>3. r[n + 1] = path[n]
    BY <1>3, <2>2
  <2> QED
    BY <1>1, <1>3, <2>1, <2>3
<1> HIDE DEF r, n
<1>6. Len(r) - 1 = n
  BY <1>1, <1>3
<1> QED
  BY <1>3, <1>4, <1>5, <1>6 DEF Along, r

\* What is inside a node has its chain and its drives.
LEMMA Inside ==
  ASSUME NEW w, StorageIsNested(w), NEW n \in DOMAIN w.nodes, NEW kid \in DOMAIN w.nodes,
         kid \in Parts(w, n), HasDrive(w, n)
  PROVE  HasDrive(w, kid) /\ Outside(w, kid) = Chain(w)[n]
<1>1. Holders(w, kid) = {n} /\ Holder(w, kid) = n
  BY Nesting
<1>2. Root(w)[kid] = Root(w)[n]
  BY <1>1, RootEquation
<1> QED
  BY <1>1, <1>2 DEF HasDrive, Outside

\* What being in place says of each function.
LEMMA InPlaceOf ==
  /\ \A w, f : f.fn = "resolve_and_read_file" =>
        (InPlace(w, f) <=> Along(w, <<f.current>> \o f.path, f.file))
  /\ \A w, f : f.fn = "find_read_file" => (InPlace(w, f) <=> SearchInPlace(w, f))
  /\ \A w, f : f.fn = "find_read_file_internal" => (InPlace(w, f) <=> ProbeInPlace(w, f))
  /\ \A w, f : f.fn = "unlock_opal" => (InPlace(w, f) <=> UnlockInPlace(w, f))
  /\ \A w, f : f.fn = "handle_boot_entry" => (InPlace(w, f) <=> HasRead(w, f))
  /\ \A w, f : f.fn \in {"main", "handle_unlock_configured_opal_drives",
                         "get_password_of_keyslot"} => InPlace(w, f)
BY DEF InPlace

LEMMA ResolveInPlace ==
  ASSUME world \in Worlds, NEW file \in Files(world)
  PROVE  InPlace(world, Resolve(file))
<1> DEFINE f == Resolve(file)
<1>1. file.partition \in DOMAIN world.partitions
  BY DEF Files
<1>2. f.fn = "resolve_and_read_file" /\ f.current = file.partition /\ f.path = <<>> /\ f.file = file
  BY DEF Resolve
<1>3. <<f.current>> \o f.path = <<file.partition>>
  BY DEF Resolve
<1>4. Along(world, <<file.partition>>, file)
  BY <1>1, AlongOne
<1> HIDE DEF f
<1> QED
  BY <1>2, <1>3, <1>4, InPlaceOf DEF f

LEMMA ResolveParentKeeps ==
  ASSUME InOrder, ResolveParent, started' = started PROVE Keeps
<1> DEFINE path   == <<Top.current>> \o Top.path
           parent == Partition(Top.current).parent
           f == [Top EXCEPT !.current = parent, !.path = path]
           g(x) == Search(x, path, Top.file)
<1>1. IsResolve(world, Top) /\ Top.fn = "resolve_and_read_file"
  BY TopInPlace, TopFrame, FrameOfFunction DEF ResolveParent, Runs
<1>2. /\ Along(world, path, Top.file) /\ Top.current \in DOMAIN world.partitions
      /\ Head(path) = Top.current
      /\ parent = Parent(world, Top.current)
  <2>1. Along(world, path, Top.file)
    BY <1>1, TopInPlace, InPlaceOf
  <2>2. Top.current \in DOMAIN world.partitions /\ Top.path \in Seq(DOMAIN world.partitions)
    BY <1>1 DEF IsResolve
  <2>3. Head(path) = Top.current
    BY <2>2
  <2> QED
    BY <2>1, <2>2, <2>3 DEF Partition, Parent
<1>3. CASE Halt("memory")
  BY <1>3, PlacedHalt
<1>4. ASSUME NEW x, parent = None, Become(g(x)) PROVE Keeps
  <2> DEFINE h == g(x)
  <2>1. h.fn = "find_read_file" /\ h.path = path /\ h.file = Top.file /\ h.at = "drive"
    BY DEF Search
  <2>2. Belongs(world, <<>>, Top.current)
    BY <1>2, <1>4, TopInPlace, OutermostBelongs
  <2> HIDE DEF h, path
  <2>3. InPlace(world, h)
    BY <1>2, <2>1, <2>2, InPlaceOf DEF SearchInPlace
  <2> QED
    BY <1>4, <2>3, PlacedBecome DEF h
<1>5. CASE parent # None /\ Become(f)
  <2>1. f.fn = "resolve_and_read_file" /\ f.current = parent /\ f.path = path /\ f.file = Top.file
    BY <1>1 DEF IsResolve
  <2>2. parent \in DOMAIN world.partitions
    BY <1>2, <1>5, TopInPlace DEF ConfigIsWhole, Parent
  <2> HIDE DEF f, path
  <2>3. Along(world, <<parent>> \o path, Top.file)
    BY <1>2, <2>2, AlongUp
  <2>4. InPlace(world, f)
    BY <2>1, <2>3, InPlaceOf
  <2> QED
    BY <1>5, <2>4, PlacedBecome
<1> QED
  BY <1>3, <1>4, <1>5 DEF ResolveParent

\* The frame of a search.
LEMMA TopSearch ==
  ASSUME InOrder, Top.fn = "find_read_file"
  PROVE  /\ IsSearch(world, Top) /\ SearchInPlace(world, Top)
         /\ Head(Top.path) \in DOMAIN world.partitions
         /\ Top.i <= Len(Top.devices) => Top.devices[Top.i] \in 1..Len(world.drives)
<1>1. IsSearch(world, Top) /\ SearchInPlace(world, Top)
  BY TopInPlace, TopFrame, FrameOfFunction, InPlaceOf
<1>2. Head(Top.path) \in DOMAIN world.partitions
  BY <1>1, AlongTail DEF SearchInPlace
<1>3. Top.i <= Len(Top.devices) => Top.devices[Top.i] \in 1..Len(world.drives)
  BY <1>1 DEF IsSearch
<1> QED
  BY <1>1, <1>2, <1>3

\* A search that goes on along the same path.
LEMMA SearchStays ==
  ASSUME InOrder, Top.fn = "find_read_file"
  PROVE  /\ InPlace(world, [Top EXCEPT !.at = "open"])
         /\ InPlace(world, [Top EXCEPT !.at = "probing"])
         /\ Uuid(world, Head(Top.path)) \in SerialsOf(world) =>
               InPlace(world, [Top EXCEPT !.at = "unlocking"])
         /\ InPlace(world, NextDevice)
<1>1. IsSearch(world, Top) /\ SearchInPlace(world, Top)
  BY TopSearch
<1>2. ASSUME NEW f, f.fn = "find_read_file", f.path = Top.path, f.file = Top.file,
             f.at = "unlocking" => Uuid(world, Head(Top.path)) \in SerialsOf(world)
      PROVE  InPlace(world, f)
  BY <1>1, <1>2, InPlaceOf DEF SearchInPlace
<1>3. ASSUME NEW at
      PROVE  /\ [Top EXCEPT !.at = at].fn = "find_read_file" /\ [Top EXCEPT !.at = at].path = Top.path
             /\ [Top EXCEPT !.at = at].file = Top.file /\ [Top EXCEPT !.at = at].at = at
  BY <1>1 DEF IsSearch
<1>4. /\ NextDevice.fn = "find_read_file" /\ NextDevice.path = Top.path
      /\ NextDevice.file = Top.file /\ NextDevice.at = "drive"
  BY <1>1 DEF IsSearch, NextDevice
<1> QED
  BY <1>2, <1>3, <1>4

\* A drive that is named is one of those with a serial number.
LEMMA NamedDrive ==
  ASSUME InOrder, Top.fn = "find_read_file", Top.i <= Len(Top.devices), IsNamed
  PROVE  /\ Uuid(world, Head(Top.path)) \in SerialsOf(world)
         /\ Uuid(world, Head(Top.path)) = world.drives[Top.devices[Top.i]].serial
<1>1. Top.devices[Top.i] \in 1..Len(world.drives)
  BY TopSearch
<1> QED
  BY <1>1 DEF IsNamed, Device, Drive, Partition, Uuid, SerialsOf

LEMMA DescendDriveKeeps ==
  ASSUME InOrder, Top.fn = "find_read_file", Uuid(world, Head(Top.path)) \in SerialsOf(world),
         DescendDrive, started' = started
  PROVE  Keeps
<1> DEFINE t == Tail(Top.path)
           f == [Top EXCEPT !.path = t, !.at = "open"]
<1>1. IsSearch(world, Top) /\ SearchInPlace(world, Top)
  BY TopSearch
<1>2. CASE Return(Err)
  BY <1>1, <1>2, PlacedReturn DEF InOrder, Ordered
<1>3. CASE Len(Top.path) # 1 /\ Become(f)
  <2>1. /\ Along(world, t, Top.file) /\ Head(t) \in DOMAIN world.partitions
        /\ Parent(world, Head(t)) = Head(Top.path)
    BY <1>1, <1>3, AlongTail DEF SearchInPlace
  <2>2. Belongs(world, <<>>, Head(t))
    BY <2>1, BelongsBelow, TopInPlace, TopSearch
  <2>3. f.fn = "find_read_file" /\ f.path = t /\ f.file = Top.file /\ f.at = "open"
    BY <1>1 DEF IsSearch
  <2> HIDE DEF f, t
  <2>4. InPlace(world, f)
    BY <2>1, <2>2, <2>3, InPlaceOf DEF SearchInPlace
  <2> QED
    BY <1>3, <2>4, PlacedBecome
<1>4. DescendDrive => Return(Err) \/ (Len(Top.path) # 1 /\ Become(f))
  BY DEF DescendDrive
<1> QED
  BY <1>2, <1>3, <1>4

LEMMA ProbeDriveKeeps == ASSUME InOrder, ProbeDrive, started' = started PROVE Keeps
<1> DEFINE p == Head(Top.path)
           d == Top.devices[Top.i]
           f == [Top EXCEPT !.at = "unlocking"]
           h == [Top EXCEPT !.at = "open"]
           g == UnlockOpal(d, Partition(p).keyslot)
<1>1. Top.fn = "find_read_file" /\ Top.i <= Len(Top.devices)
  BY DEF ProbeDrive, AtDevice, Runs
<1>2. \/ Become(h) \/ Halt("panic")
      \/ IsNamed /\ DescendDrive
      \/ IsNamed /\ Call(f, g)
  BY DEF ProbeDrive
<1>3. CASE Become(h)
  <2>1. InPlace(world, h)
    BY <1>1, SearchStays
  <2> HIDE DEF h
  <2> QED
    BY <1>3, <2>1, PlacedBecome
<1>4. CASE Halt("panic")
  BY <1>4, PlacedHalt
<1>5. CASE IsNamed /\ DescendDrive
  BY <1>1, <1>5, NamedDrive, DescendDriveKeeps
<1>6. CASE IsNamed /\ Call(f, g)
  <2>1. Uuid(world, p) \in SerialsOf(world) /\ Uuid(world, p) = world.drives[d].serial
    BY <1>1, <1>6, NamedDrive
  <2>2. InPlace(world, f)
    BY <1>1, <2>1, SearchStays
  <2>3. p \in DOMAIN world.partitions /\ Parent(world, p) = None
    BY <1>1, <2>1, TopSearch, TopInPlace DEF Orderly
  <2>4. g.fn = "unlock_opal" /\ g.drive = d /\ g.keyslot = world.partitions[p].keyslot
    BY DEF UnlockOpal, Partition
  <2> HIDE DEF f, g, p, d
  <2>5. InPlace(world, g)
    BY <2>1, <2>3, <2>4, InPlaceOf DEF UnlockInPlace
  <2> QED
    BY <1>6, <2>2, <2>5, PlacedCall
<1> QED
  BY <1>2, <1>3, <1>4, <1>5, <1>6

LEMMA DriveUnlockedKeeps == ASSUME InOrder, DriveUnlocked, started' = started PROVE Keeps
<1>1. Top.fn = "find_read_file" /\ Top.at = "unlocking"
  BY DEF DriveUnlocked, Resumes
<1>2. Uuid(world, Head(Top.path)) \in SerialsOf(world)
  BY <1>1, TopSearch DEF SearchInPlace
<1>3. CASE Return(Err)
  BY <1>1, <1>3, PlacedReturn DEF InOrder, Ordered
<1>4. CASE DescendDrive
  BY <1>1, <1>2, <1>4, DescendDriveKeeps
<1> QED
  BY <1>3, <1>4 DEF DriveUnlocked

LEMMA OpenDeviceKeeps == ASSUME InOrder, OpenDevice, started' = started PROVE Keeps
<1> DEFINE d == Top.devices[Top.i]
           visible == IF d \in open THEN Device.root ELSE None
           f == [Top EXCEPT !.at = "probing"]
           g == Probe(visible, Top.path, Top.file)
<1>1. Top.fn = "find_read_file" /\ Top.i <= Len(Top.devices)
  BY DEF OpenDevice, AtDevice, Runs
<1>2. Become(NextDevice) \/ Call(f, g)
  BY DEF OpenDevice
<1>3. CASE Become(NextDevice)
  BY <1>1, <1>3, SearchStays, PlacedBecome
<1>4. CASE Call(f, g)
  <2>1. InPlace(world, f)
    BY <1>1, SearchStays
  <2>2. d \in 1..Len(world.drives) /\ SearchInPlace(world, Top) /\ Len(world.drives) \in Nat
        /\ DOMAIN world.drives = 1..Len(world.drives)
    BY <1>1, TopSearch, TopInPlace, WorldIsWhole
  <2>3. visible # None => HasDrive(world, visible) /\ Outside(world, visible) = <<>>
    <3> DEFINE r == world.drives[d].root
    <3>1. r # None => r \in DOMAIN world.nodes /\ \A n \in DOMAIN world.nodes : r \notin Parts(world, n)
      BY <2>2, TopInPlace DEF StorageIsNested
    <3>2. r # None => Holders(world, r) = {}
      BY <3>1 DEF Holders, Parts
    <3>3. r # None => HasDrive(world, r) /\ Outside(world, r) = <<>>
      BY <2>2, <3>1, <3>2, RootEquation, TopInPlace DEF HasDrive, Outside
    <3> QED
      BY <3>3 DEF Device, Drive
  <2>4. /\ g.fn = "find_read_file_internal" /\ g.path = Top.path /\ g.file = Top.file
        /\ g.node = visible
    BY DEF Probe
  <2> HIDE DEF f, g, visible
  <2>5. InPlace(world, g)
    BY <2>2, <2>3, <2>4, InPlaceOf DEF ProbeInPlace, SearchInPlace
  <2> QED
    BY <1>4, <2>1, <2>5, PlacedCall
<1> QED
  BY <1>2, <1>3, <1>4

LEMMA DeviceSearchedKeeps == ASSUME InOrder, DeviceSearched, started' = started PROVE Keeps
<1>1. Top.fn = "find_read_file" /\ Top.at = "probing" /\ ret # None
  BY DEF DeviceSearched, Resumes
<1>2. CASE Become(NextDevice)
  BY <1>1, <1>2, SearchStays, PlacedBecome
<1>3. CASE ret # Err /\ Return(ret)
  <2>1. Found(world, Top.file, ret.value)
    BY <1>1, <1>3, TopInPlace DEF Delivers, Reading, TheFile
  <2> QED
    BY <1>1, <1>3, <2>1, PlacedReturn DEF InOrder, Ordered
<1> QED
  BY <1>2, <1>3 DEF DeviceSearched

\* An error is passed on by every function.
LEMMA PlacedError ==
  ASSUME InOrder, Return(Err), Top.fn # "main", started' = started PROVE Keeps
BY PlacedReturn DEF InOrder, Ordered

\* The node that is named is at the place of the partition that names it.
LEMMA NamedBelongs ==
  ASSUME InOrder, Top.fn = "find_read_file_internal", NamedHere,
         Kind \in {"lvm", "luks", "ext4", "fat"}
  PROVE  /\ Along(world, Top.path, Top.file) /\ Head(Top.path) \in DOMAIN world.partitions
         /\ Top.node \in DOMAIN world.nodes /\ world.nodes[Top.node].kind = Kind
         /\ Chain(world)[Top.node] = Place(world, Head(Top.path))
         /\ HasDrive(world, Top.node)
<1> DEFINE n == Top.node
           p == Head(Top.path)
<1>1. /\ Top.path # <<>> /\ n \in DOMAIN world.nodes /\ Kind = world.nodes[n].kind /\ n # None
      /\ p \in DOMAIN world.partitions /\ world.nodes[n].uuid = Uuid(world, p)
  BY TopProbe, TopInPlace DEF NamedHere, Node, Partition, Uuid, StorageIsNested
<1>2. /\ Along(world, Top.path, Top.file) /\ HasDrive(world, n)
      /\ Belongs(world, Outside(world, n), p)
  BY <1>1, TopInPlace, InPlaceOf DEF ProbeInPlace
<1>3. Uuid(world, p) \notin SerialsOf(world)
  BY <1>1, TopInPlace DEF Orderly
<1>4. Chain(world)[n] = Append(Outside(world, n), Uuid(world, p))
  <2>1. StorageIsNested(world) /\ world.nodes[n].kind # "gpt"
    BY <1>1, TopInPlace
  <2> HIDE DEF n, p
  <2>2. Chain(world)[n] = Append(Outside(world, n), world.nodes[n].uuid)
    BY <1>1, <2>1, ChainEquation
  <2> QED
    BY <1>1, <2>2
<1> QED
  BY <1>1, <1>2, <1>3, <1>4 DEF Belongs

\* A probe that goes on where it is.
LEMMA ProbeStays ==
  ASSUME InOrder, Top.fn = "find_read_file_internal", NEW f,
         f.fn = "find_read_file_internal", f.path = Top.path, f.node = Top.node, f.file = Top.file
  PROVE  InPlace(world, f)
<1>1. ProbeInPlace(world, Top)
  BY TopInPlace, InPlaceOf
<1> QED
  BY <1>1, InPlaceOf DEF ProbeInPlace

LEMMA ProbeFields ==
  ASSUME InOrder, Top.fn = "find_read_file_internal"
  PROVE  /\ \A at : LET f == [Top EXCEPT !.at = at]
                    IN  /\ f.fn = "find_read_file_internal" /\ f.path = Top.path
                        /\ f.node = Top.node /\ f.file = Top.file
         /\ \A kid : LET f == [Top EXCEPT !.kid = kid]
                     IN  /\ f.fn = "find_read_file_internal" /\ f.path = Top.path
                         /\ f.node = Top.node /\ f.file = Top.file
<1>1. IsProbe(world, Top)
  BY TopProbe, TopInPlace
<1> QED
  BY <1>1 DEF IsProbe

\* A probe of what is inside the node that is named, with the rest of the path.
LEMMA InsideInPlace ==
  ASSUME InOrder, Top.fn = "find_read_file_internal", NamedHere, Kind \in {"lvm", "luks"},
         NEW kid \in DOMAIN world.nodes, kid \in Parts(world, Top.node)
  PROVE  InPlace(world, Probe(kid, Tail(Top.path), Top.file))
<1> DEFINE t == Tail(Top.path)
           g == Probe(kid, t, Top.file)
<1>1. /\ Along(world, Top.path, Top.file) /\ Head(Top.path) \in DOMAIN world.partitions
      /\ Top.node \in DOMAIN world.nodes
      /\ Chain(world)[Top.node] = Place(world, Head(Top.path)) /\ HasDrive(world, Top.node)
  BY NamedBelongs
<1>2. HasDrive(world, kid) /\ Outside(world, kid) = Chain(world)[Top.node]
  BY <1>1, Inside, TopInPlace
<1>3. ASSUME t # <<>>
      PROVE  Along(world, t, Top.file) /\ Belongs(world, Outside(world, kid), Head(t))
  <2>1. /\ Along(world, t, Top.file) /\ Head(t) \in DOMAIN world.partitions
        /\ Parent(world, Head(t)) = Head(Top.path)
    BY <1>1, <1>3, AlongTail
  <2> QED
    BY <1>1, <1>2, <2>1, BelongsBelow, TopInPlace
<1>4. g.fn = "find_read_file_internal" /\ g.node = kid /\ g.path = t /\ g.file = Top.file
  BY DEF Probe
<1>5. ProbeInPlace(world, g)
  <2> HIDE DEF g, t
  <2> QED
    BY <1>2, <1>3, <1>4 DEF ProbeInPlace
<1> HIDE DEF g
<1> QED
  BY <1>4, <1>5, InPlaceOf DEF g

LEMMA ProbeVolumeKeeps == ASSUME InOrder, ProbeVolume, started' = started PROVE Keeps
<1> DEFINE kids == Node(Top.node).kids
           kid  == kids[Top.kid]
           g    == Probe(kid, InnerPath, Top.file)
<1>1. /\ Top.fn = "find_read_file_internal" /\ Top.path # <<>>
      /\ (Kind = "lvm" /\ NamedHere) \/ Kind = "gpt"
  BY DEF ProbeVolume, IsVolumeGroup, Probes, Runs, NamedHere
<1>2. CASE Return(Err)
  BY <1>1, <1>2, PlacedError
<1>3. CASE ~(Top.kid > Len(kids)) /\ Call(Top, g)
  <2>1. /\ IsProbe(world, Top) /\ Top.node \in DOMAIN world.nodes /\ Top.kid \in Nat \ {0}
        /\ world.nodes[Top.node].kind = Kind /\ Top.node # None
    BY <1>1, TopProbe, TopInPlace DEF IsProbe, Node, StorageIsNested
  <2>2. kids \in Seq(DOMAIN world.nodes)
    BY <2>1, TopInPlace DEF StorageIsNested, Node
  <2>3. kid \in DOMAIN world.nodes /\ kid \in Parts(world, Top.node)
    <3>1. Top.kid \in DOMAIN kids
      BY <1>3, <2>1, <2>2
    <3> QED
      BY <2>2, <3>1 DEF Parts, Node, Range
  <2>4. InPlace(world, g)
    <3>1. CASE Kind = "lvm"
      BY <1>1, <2>3, <3>1, InsideInPlace DEF InnerPath
    <3>2. CASE Kind = "gpt"
      <4>1. /\ Along(world, Top.path, Top.file) /\ HasDrive(world, Top.node)
            /\ Belongs(world, Outside(world, Top.node), Head(Top.path))
        BY <1>1, <2>1, TopInPlace, InPlaceOf DEF ProbeInPlace
      <4>2. Outside(world, kid) = Outside(world, Top.node) /\ HasDrive(world, kid)
        <5>1. StorageIsNested(world) /\ HasDrive(world, Top.node)
          BY <4>1, TopInPlace
        <5> HIDE DEF kid
        <5>2. HasDrive(world, kid) /\ Outside(world, kid) = Chain(world)[Top.node]
          BY <2>1, <2>3, <5>1, Inside
        <5>3. Chain(world)[Top.node] = Outside(world, Top.node)
          BY <2>1, <3>2, <5>1, ChainEquation
        <5> QED
          BY <5>2, <5>3
      <4>3. g.fn = "find_read_file_internal" /\ g.node = kid /\ g.path = Top.path /\ g.file = Top.file
        BY <3>2 DEF Probe, InnerPath
      <4> HIDE DEF g, kid
      <4> QED
        BY <4>1, <4>2, <4>3, InPlaceOf DEF ProbeInPlace
    <3> QED
      BY <1>1, <3>1, <3>2
  <2> HIDE DEF g
  <2> QED
    BY <1>3, <2>4, PlacedCall, TopInPlace
<1> QED
  BY <1>2, <1>3 DEF ProbeVolume

LEMMA PlacedReturnOn ==
  ASSUME InOrder, Top.fn = "find_read_file_internal", Top.at # "password", ret # None,
         Return(ret), started' = started
  PROVE  Keeps
<1>1. CASE ret = Err
  BY <1>1, PlacedError
<1>2. CASE ret # Err
  <2>1. Found(world, Top.file, ret.value)
    BY <1>2, TopInPlace DEF Delivers, Reading, TheFile
  <2> QED
    BY <2>1, PlacedReturn DEF InOrder, Ordered
<1> QED
  BY <1>1, <1>2

LEMMA VolumeSearchedKeeps == ASSUME InOrder, VolumeSearched, started' = started PROVE Keeps
<1> DEFINE f == [Top EXCEPT !.kid = Top.kid + 1]
<1>1. Top.fn = "find_read_file_internal" /\ ret # None /\ Kind \in {"lvm", "gpt"}
  BY DEF VolumeSearched, Resumes
<1>2. Top.at # "password"
  BY <1>1, TopIsLuks, TopInPlace
<1>3. InPlace(world, f)
  <2>1. /\ f.fn = "find_read_file_internal" /\ f.path = Top.path
        /\ f.node = Top.node /\ f.file = Top.file
    BY <1>1, ProbeFields
  <2> HIDE DEF f
  <2> QED
    BY <1>1, <2>1, ProbeStays
<1>4. Become(f) \/ Return(ret)
  BY DEF VolumeSearched
<1> HIDE DEF f
<1> QED
  BY <1>1, <1>2, <1>3, <1>4, PlacedBecome, PlacedReturnOn

LEMMA EnterLuksKeeps ==
  ASSUME InOrder, Top.fn = "find_read_file_internal", Kind = "luks", NamedHere,
         Partition(Head(Top.path)).keyslot # None, EnterLuks, started' = started
  PROVE  Keeps
<1> DEFINE kid == Node(Top.node).kids[1]
           f   == [Top EXCEPT !.at = "inside"]
           g   == Probe(kid, Tail(Top.path), Top.file)
<1>1. kid \in DOMAIN world.nodes
  BY LuksFrames, TopInPlace
<1>2. kid \in Parts(world, Top.node)
  <2>1. /\ Top.node \in DOMAIN world.nodes
        /\ Node(Top.node).kids \in Seq(DOMAIN world.nodes) /\ Node(Top.node).kids # <<>>
    BY NamedBelongs, TopInPlace DEF StorageIsNested, Node
  <2>2. 1 \in DOMAIN Node(Top.node).kids
    BY <2>1, EmptySeq
  <2> QED
    BY <2>1, <2>2 DEF Parts, Node, Range
<1>3. InPlace(world, g)
  BY <1>1, <1>2, InsideInPlace
<1>4. InPlace(world, f)
  <2>1. /\ f.fn = "find_read_file_internal" /\ f.path = Top.path
        /\ f.node = Top.node /\ f.file = Top.file
    BY ProbeFields
  <2> HIDE DEF f
  <2> QED
    BY <2>1, ProbeStays
<1>5. Call(f, g)
  BY DEF EnterLuks
<1> HIDE DEF f, g
<1> QED
  BY <1>3, <1>4, <1>5, PlacedCall

\* A password frame has no place of its own.
LEMMA PasswordInPlace == \A k, c : InPlace(world, Password(k, c))
<1> TAKE k, c
<1> DEFINE g == Password(k, c)
<1>1. g.fn = "get_password_of_keyslot"
  BY DEF Password
<1> HIDE DEF g
<1> QED
  BY <1>1, InPlaceOf DEF g

LEMMA ProbeLuksKeeps == ASSUME InOrder, ProbeLuks, started' = started PROVE Keeps
<1> DEFINE f == [Top EXCEPT !.at = "password"]
           g == Password(Partition(Head(Top.path)).keyslot, "Cached")
<1>1. Top.fn = "find_read_file_internal" /\ Kind = "luks" /\ NamedHere
  BY DEF ProbeLuks, Probes, Runs
<1>2. \/ Return(Err)
      \/ Partition(Head(Top.path)).keyslot # None /\ (EnterLuks \/ Call(f, g))
  BY DEF ProbeLuks
<1>3. InPlace(world, f)
  <2>1. /\ f.fn = "find_read_file_internal" /\ f.path = Top.path
        /\ f.node = Top.node /\ f.file = Top.file
    BY <1>1, ProbeFields
  <2> HIDE DEF f
  <2> QED
    BY <1>1, <2>1, ProbeStays
<1>4. InPlace(world, g)
  BY PasswordInPlace
<1> HIDE DEF f, g
<1> QED
  BY <1>1, <1>2, <1>3, <1>4, PlacedError, EnterLuksKeeps, PlacedCall

LEMMA LuksPasswordKeeps == ASSUME InOrder, LuksPassword, started' = started PROVE Keeps
<1> DEFINE g == Password(Partition(Head(Top.path)).keyslot, "Discard")
<1>1. Top.fn = "find_read_file_internal" /\ Top.at = "password" /\ IsProbe(world, Top)
  BY TopProbe, TopInPlace DEF LuksPassword, Resumes
<1>2. Kind = "luks" /\ NamedHere /\ Partition(Head(Top.path)).keyslot # None
  BY <1>1, TopIsLuks, TopInPlace DEF IsProbe, NamedHere, Node, Partition
<1>3. Return(Err) \/ EnterLuks \/ Call(Top, g)
  BY DEF LuksPassword
<1>4. InPlace(world, g) /\ InPlace(world, Top)
  BY PasswordInPlace, TopInPlace
<1> HIDE DEF g
<1> QED
  BY <1>1, <1>2, <1>3, <1>4, PlacedError, EnterLuksKeeps, PlacedCall

LEMMA LuksSearchedKeeps == ASSUME InOrder, LuksSearched, started' = started PROVE Keeps
BY PlacedReturnOn DEF LuksSearched, Resumes

LEMMA ProbeFileSystemKeeps == ASSUME InOrder, ProbeFileSystem, started' = started PROVE Keeps
<1> DEFINE files == Node(Top.node).files
           v     == files[Top.file.file]
<1>1. Top.fn = "find_read_file_internal" /\ Kind \in {"ext4", "fat"} /\ NamedHere
  BY DEF ProbeFileSystem, Probes, Runs
<1>2. CASE Return(Err)
  BY <1>1, <1>2, PlacedError
<1>3. CASE Len(Top.path) = 1 /\ Top.file.file \in DOMAIN files /\ Return(Ok(v))
  <2>1. /\ Along(world, Top.path, Top.file) /\ Top.node \in DOMAIN world.nodes
        /\ world.nodes[Top.node].kind = Kind
        /\ Chain(world)[Top.node] = Place(world, Head(Top.path)) /\ HasDrive(world, Top.node)
    BY <1>1, NamedBelongs
  <2>2. Head(Top.path) = Top.file.partition
    BY <1>3, <2>1, AlongTail
  <2>3. IsCopy(world, Top.file, Top.node)
    BY <1>1, <1>3, <2>1, <2>2 DEF IsCopy, Node
  <2>4. Ok(v).value = v /\ v = world.nodes[Top.node].files[Top.file.file]
    BY DEF Ok, Node
  <2> DEFINE r == Ok(v)
  <2> HIDE DEF v
  <2>5. Found(world, Top.file, r.value) /\ Return(r)
    BY <1>3, <2>1, <2>3, <2>4 DEF Found
  <2> HIDE DEF r
  <2> QED
    BY <1>1, <2>5, PlacedReturn DEF InOrder, Ordered
<1> QED
  BY <1>2, <1>3 DEF ProbeFileSystem

LEMMA UnlockKeeps ==
  ASSUME InOrder, StartUnlock \/ TryPassword \/ UnlockFails, started' = started PROVE Keeps
<1> DEFINE g(c) == Password(Top.keyslot, c)
<1>1. Top.fn = "unlock_opal" /\ InPlace(world, Top) /\ Started(world, started')
  BY TopInPlace DEF StartUnlock, TryPassword, UnlockFails, Runs, Resumes, InOrder, Ordered
<1>2. \/ \E r : Return(r)
      \/ \E c : Call(Top, g(c))
      \/ \E how : Halt(how)
  BY DEF StartUnlock, TryPassword, UnlockFails
<1>3. \A c : InPlace(world, g(c))
  BY PasswordInPlace
<1> HIDE DEF g
<1> QED
  BY <1>1, <1>2, <1>3, PlacedReturn, PlacedCall, PlacedHalt

LEMMA PasswordKeeps ==
  ASSUME InOrder, started' = started,
         UseBuffered \/ FindKeyFile \/ KeyFileRead \/ KeyFileMissing \/ ShutDown
             \/ \E key \in Keys : Type(key)
  PROVE  Keeps
<1> DEFINE g == Resolve(Source)
<1>1. Top.fn = "get_password_of_keyslot" /\ InPlace(world, Top) /\ Started(world, started')
  BY TopInPlace DEF UseBuffered, FindKeyFile, KeyFileRead, KeyFileMissing, ShutDown, Type,
     Prompting, Runs, Resumes, InOrder, Ordered
<1>2. \/ \E r : Return(r)
      \/ Source # Stdin /\ Call(Top, g)
      \/ \E how : Halt(how)
  BY DEF UseBuffered, FindKeyFile, KeyFileRead, KeyFileMissing, ShutDown, Type, Obtain
<1>3. Source # Stdin => InPlace(world, g)
  <2>1. Top.keyslot \in DOMAIN world.keyslots
    BY <1>1, TopPassword DEF InOrder, Keyslots
  <2>2. Source # Stdin => Source \in Files(world)
    BY <2>1, TopInPlace DEF Source, ConfigIsWhole
  <2> QED
    BY <2>2, ResolveInPlace, TopInPlace
<1> HIDE DEF g
<1> QED
  BY <1>1, <1>2, <1>3, PlacedReturn, PlacedCall, PlacedHalt

LEMMA SearchKeeps == ASSUME InOrder, Next, started' = started PROVE Keeps
<1>1. CASE NoMoreDevices \/ DeviceFails \/ ProbeNothing \/ ReadFails
  BY <1>1, PlacedError, PlacedHalt
     DEF NoMoreDevices, DeviceFails, ProbeNothing, ReadFails, AtDevice, Runs
<1> QED
  BY <1>1, ResolveParentKeeps, ProbeDriveKeeps, DriveUnlockedKeeps, OpenDeviceKeeps,
     DeviceSearchedKeeps, ProbeVolumeKeeps, VolumeSearchedKeeps, ProbeLuksKeeps, LuksPasswordKeeps,
     LuksSearchedKeeps, ProbeFileSystemKeeps, UnlockKeeps, PasswordKeeps DEF Next, ProgramStep

\* main, and what its menu calls.
LEMMA MainKeeps ==
  ASSUME InOrder, started' = started,
         LocateConfig \/ ReadConfig \/ DecodeConfig \/ RunFails \/ RunReturns \/ Exit
  PROVE  Keeps
<1>1. Top.fn = "main" /\ IsMain(world, Top)
  BY TopInPlace, TopFrame, FrameOfFunction
     DEF LocateConfig, ReadConfig, DecodeConfig, RunFails, RunReturns, Exit, Runs, Resumes
<1>2. ASSUME NEW at PROVE InPlace(world, [Top EXCEPT !.at = at])
  <2> DEFINE f == [Top EXCEPT !.at = at]
  <2>1. f.fn = "main"
    BY <1>1 DEF IsMain
  <2> HIDE DEF f
  <2>2. InPlace(world, f)
    BY <2>1, InPlaceOf
  <2> QED
    BY <2>2 DEF f
<1> QED
  BY <1>2, PlacedBecome, PlacedHalt
     DEF LocateConfig, ReadConfig, DecodeConfig, RunFails, RunReturns, Exit

LEMMA RunMenuKeeps == ASSUME InOrder, RunMenu, started' = started PROVE Keeps
<1>1. InPlace(world, Top) /\ world \in Worlds
  BY TopInPlace
<1>2. ASSUME NEW e \in DOMAIN world.entries, Call(Top, BootEntry(e)) PROVE Keeps
  <2> DEFINE g == BootEntry(e)
  <2>1. /\ g.fn = "handle_boot_entry" /\ g.entry = e /\ g.contents = <<>> /\ g.at = "extra"
        /\ g.i = 1
    BY DEF BootEntry
  <2>2. Len(<<>>) = 0 /\ 1..0 = {} /\ Len(FilesIn(world, e)) \in Nat \ {0}
    BY <1>1, EntryFiles
  <2> HIDE DEF g
  <2>3. InPlace(world, g)
    BY <2>1, <2>2, InPlaceOf DEF HasRead
  <2> QED
    BY <1>1, <1>2, <2>3, PlacedCall DEF g
<1>3. ASSUME NEW dropped, Call(Top, UnlockConfigured(dropped)) PROVE Keeps
  <2> DEFINE g == UnlockConfigured(dropped)
  <2>1. g.fn = "handle_unlock_configured_opal_drives"
    BY DEF UnlockConfigured
  <2> HIDE DEF g
  <2>2. InPlace(world, g)
    BY <2>1, InPlaceOf
  <2> QED
    BY <1>1, <1>3, <2>2, PlacedCall DEF g
<1> QED
  BY <1>2, <1>3 DEF RunMenu

\* What a boot entry has read, and how its frame changes.
LEMMA TopHasRead ==
  ASSUME InOrder, Top.fn = "handle_boot_entry"
  PROVE  /\ HasRead(world, Top) /\ IsEntry(world, Top) /\ Top.entry \in DOMAIN world.entries
         /\ Top.i \in Nat \ {0} /\ FilesOf(Top.entry) = FilesIn(world, Top.entry)
         /\ Len(FilesIn(world, Top.entry)) \in Nat \ {0}
         /\ Len(Top.contents) \in Nat
<1>1. HasRead(world, Top) /\ IsEntry(world, Top) /\ Top.entry \in DOMAIN world.entries
      /\ Top.i \in Nat \ {0}
  BY TopInPlace, InPlaceOf, TopEntry
<1>2. Len(Top.contents) \in Nat
  <2>1. Top.contents \in Seq(Stored(world))
    BY <1>1 DEF IsEntry
  <2> QED
    BY <2>1, LenProperties
<1> QED
  BY <1>1, <1>2, TopInPlace, EntryFiles

\* Nothing more is read, as long as what is there is right for where the function is.
LEMMA EntryGoesOn ==
  ASSUME InOrder, Top.fn = "handle_boot_entry",
         NEW f, f.fn = "handle_boot_entry", f.entry = Top.entry, f.contents = Top.contents,
         f.at = "extra" => f.contents = <<>>,
         f.at = "files" => Len(f.contents) = f.i - 1,
         f.at \notin {"extra", "files"} => Len(f.contents) = Len(FilesIn(world, f.entry))
  PROVE  InPlace(world, f)
<1>1. HasRead(world, Top)
  BY TopHasRead
<1> QED
  BY <1>1, InPlaceOf DEF HasRead

LEMMA ReadExtraKeeps == ASSUME InOrder, ReadExtra, started' = started PROVE Keeps
<1> DEFINE extra == Entry(Top.entry).extra_partitions
           p     == extra[Top.i]
           file  == [partition |-> p, file |-> Entry(Top.entry).image.file]
           f     == [Top EXCEPT !.at = "files", !.i = 1]
<1>1. /\ Top.fn = "handle_boot_entry" /\ Top.at = "extra" /\ HasRead(world, Top)
      /\ IsEntry(world, Top) /\ Top.entry \in DOMAIN world.entries /\ Top.i \in Nat \ {0}
  BY TopHasRead DEF ReadExtra, Runs
<1>2. CASE Become(f)
  <2>1. /\ f.fn = "handle_boot_entry" /\ f.entry = Top.entry /\ f.contents = Top.contents
        /\ f.at = "files" /\ f.i = 1
    BY <1>1 DEF IsEntry
  <2>2. Top.contents = <<>> /\ Len(<<>>) = 1 - 1
    BY <1>1 DEF HasRead
  <2> HIDE DEF f
  <2>3. InPlace(world, f)
    BY <1>1, <2>1, <2>2, EntryGoesOn
  <2> QED
    BY <1>2, <2>3, PlacedBecome
<1>3. ASSUME NEW dropped, ~(Top.i > Len(extra)), Call(Top, Search(dropped, <<p>>, file))
      PROVE  Keeps
  <2> DEFINE g == Search(dropped, <<p>>, file)
  <2>1. extra \in Seq(DOMAIN world.partitions)
    BY <1>1, EntryFiles, TopInPlace DEF Entry
  <2>2. p \in DOMAIN world.partitions /\ p \in Range(extra)
    BY <1>1, <1>3, <2>1 DEF Range
  <2>3. Belongs(world, <<>>, p)
    <3>1. Parent(world, p) = None
      BY <1>1, <2>2, TopInPlace DEF Orderly, Entry
    <3> QED
      BY <2>2, <3>1, TopInPlace, OutermostBelongs
  <2>4. file.partition = p
    OBVIOUS
  <2>5. /\ g.fn = "find_read_file" /\ g.path = <<p>> /\ g.file = file /\ g.at = "drive"
    BY DEF Search
  <2> HIDE DEF g, p, file
  <2>6. Along(world, <<p>>, file) /\ Head(<<p>>) = p
    BY <2>2, <2>4, AlongOne
  <2>7. InPlace(world, g)
    BY <2>3, <2>5, <2>6, InPlaceOf DEF SearchInPlace
  <2> QED
    BY <1>3, <2>7, PlacedCall, TopInPlace DEF g, p, file
<1> QED
  BY <1>2, <1>3 DEF ReadExtra

LEMMA ExtraReadKeeps == ASSUME InOrder, ExtraRead, started' = started PROVE Keeps
<1> DEFINE f == [Top EXCEPT !.i = Top.i + 1]
<1>1. /\ Top.fn = "handle_boot_entry" /\ Top.at = "extra" /\ HasRead(world, Top)
      /\ IsEntry(world, Top)
  BY TopHasRead DEF ExtraRead, Resumes
<1>2. Become(f)
  BY DEF ExtraRead
<1>3. /\ f.fn = "handle_boot_entry" /\ f.entry = Top.entry /\ f.contents = Top.contents
      /\ f.at = "extra" /\ f.contents = <<>>
  BY <1>1 DEF IsEntry, HasRead
<1> HIDE DEF f
<1>4. InPlace(world, f)
  BY <1>1, <1>3, EntryGoesOn
<1> QED
  BY <1>2, <1>4, PlacedBecome

LEMMA ReadEntryFileKeeps == ASSUME InOrder, ReadEntryFile, started' = started PROVE Keeps
<1> DEFINE file == FilesOf(Top.entry)[Top.i]
           g    == Resolve(file)
<1>1. /\ Top.fn = "handle_boot_entry" /\ Top.i <= Len(FilesOf(Top.entry)) /\ Call(Top, g)
  BY DEF ReadEntryFile, Runs
<1>2. /\ Top.i \in Nat \ {0} /\ FilesOf(Top.entry) \in Seq(Files(world))
  BY <1>1, TopHasRead, EntryFiles, TopInPlace
<1>3. file \in Files(world)
  BY <1>1, <1>2
<1> HIDE DEF file
<1>4. InPlace(world, g)
  BY <1>3, ResolveInPlace, TopInPlace
<1> QED
  BY <1>1, <1>4, PlacedCall, TopInPlace

LEMMA EntryFileReadKeeps == ASSUME InOrder, EntryFileRead, started' = started PROVE Keeps
<1> DEFINE c == Append(Top.contents, ret.value)
           f == [Top EXCEPT !.i = Top.i + 1, !.contents = c]
           files == FilesIn(world, Top.entry)
<1>1. /\ Top.fn = "handle_boot_entry" /\ Top.at = "files" /\ HasRead(world, Top) /\ ret # None
      /\ IsEntry(world, Top) /\ Top.i \in Nat \ {0} /\ Top.contents \in Seq(Stored(world))
      /\ Len(files) \in Nat \ {0}
  BY TopHasRead DEF EntryFileRead, Resumes, IsEntry
<1>2. CASE Return(Err)
  BY <1>1, <1>2, PlacedReturn DEF InOrder, Ordered
<1>3. CASE ret # Err /\ (Top.i = 1 => ret.value \in Images) /\ Become(f)
  <2>1. /\ Found(world, files[Top.i], ret.value) /\ Top.i <= Len(files)
    BY <1>1, <1>3, TopInPlace DEF Delivers, Reading, TheFile
  <2>2. Len(Top.contents) = Top.i - 1 /\ Len(Top.contents) \in Nat
    BY <1>1, TopHasRead DEF HasRead
  <2>3. ret.value \in Stored(world)
    BY <1>1, <1>3, TopInPlace, TopFrame DEF Good, RetOK, Answers, Reading
  <2>4. /\ Len(c) = Top.i /\ c[Top.i] = ret.value
        /\ \A j \in 1..(Top.i - 1) : c[j] = Top.contents[j]
    <3>1. /\ Len(c) = Len(Top.contents) + 1 /\ c[Len(Top.contents) + 1] = ret.value
          /\ \A j \in 1..Len(Top.contents) : c[j] = Top.contents[j]
      BY <1>1, <2>3, AppendProperties
    <3>2. Len(Top.contents) + 1 = Top.i
      BY <1>1, <2>2
    <3> QED
      BY <2>2, <3>1, <3>2
  <2>5. /\ f.fn = "handle_boot_entry" /\ f.entry = Top.entry /\ f.contents = c
        /\ f.at = "files" /\ f.i = Top.i + 1
    <3>1. Top.i + 1 \in Nat
      BY <1>1
    <3> QED
      BY <1>1, <3>1 DEF IsEntry
  <2> HIDE DEF c, f, files
  <2>6. \A j \in 1..Len(c) : Found(world, files[j], c[j])
    <3>1. \A j \in 1..(Top.i - 1) : Found(world, files[j], c[j])
      BY <1>1, <2>2, <2>4 DEF HasRead, files
    <3> QED
      BY <1>1, <2>1, <2>4, <3>1
  <2>7. c[1] \in Images
    <3>1. CASE Top.i = 1
      BY <1>3, <2>4, <3>1
    <3>2. CASE Top.i # 1
      <4>1. 1 \in 1..(Top.i - 1) /\ Len(Top.contents) # 0 /\ Len(<<>>) = 0
        BY <1>1, <2>2, <3>2
      <4>2. Top.contents[1] \in Images
        BY <1>1, <4>1 DEF HasRead
      <4> QED
        BY <2>4, <4>1, <4>2
    <3> QED
      BY <3>1, <3>2
  <2>8. Len(c) <= Len(files) /\ Len(c) = (Top.i + 1) - 1
    BY <1>1, <2>1, <2>4
  <2>9. HasRead(world, f)
    BY <2>5, <2>6, <2>7, <2>8 DEF HasRead, files
  <2> QED
    BY <1>3, <2>5, <2>9, InPlaceOf, PlacedBecome
<1> QED
  BY <1>2, <1>3 DEF EntryFileRead, Contents

\* Everything has been read.
LEMMA HasReadAll ==
  ASSUME InOrder, AllRead
  PROVE  Len(Top.contents) = Len(FilesIn(world, Top.entry))
<1>1. /\ Top.fn = "handle_boot_entry" /\ Top.at = "files" /\ HasRead(world, Top)
      /\ Top.i \in Nat \ {0} /\ Len(FilesIn(world, Top.entry)) \in Nat \ {0}
      /\ Top.i > Len(FilesIn(world, Top.entry)) /\ Len(Top.contents) \in Nat
  BY TopHasRead DEF AllRead, Runs
<1>2. /\ Len(Top.contents) = Top.i - 1 /\ Len(Top.contents) <= Len(FilesIn(world, Top.entry))
  BY <1>1 DEF HasRead
<1> QED
  BY <1>1, <1>2

\* After that only where it is changes, and what the device path is.
LEMMA EntryReadStays ==
  ASSUME InOrder, Top.fn = "handle_boot_entry",
         Len(Top.contents) = Len(FilesIn(world, Top.entry)),
         NEW at \in {"esp", "load", "confirm", "start"}
  PROVE  /\ InPlace(world, [Top EXCEPT !.at = at])
         /\ \A x : InPlace(world, [Top EXCEPT !.at = at, !.file_path = x])
<1>1. IsEntry(world, Top)
  BY TopHasRead
<1>2. InPlace(world, [Top EXCEPT !.at = at])
  <2> DEFINE f == [Top EXCEPT !.at = at]
  <2>1. /\ f.fn = "handle_boot_entry" /\ f.entry = Top.entry /\ f.contents = Top.contents
        /\ f.at = at
    BY <1>1 DEF IsEntry
  <2> HIDE DEF f
  <2>2. InPlace(world, f)
    BY <2>1, EntryGoesOn
  <2> QED
    BY <2>2 DEF f
<1>3. ASSUME NEW x PROVE InPlace(world, [Top EXCEPT !.at = at, !.file_path = x])
  <2> DEFINE f == [Top EXCEPT !.at = at, !.file_path = x]
  <2>1. /\ f.fn = "handle_boot_entry" /\ f.entry = Top.entry /\ f.contents = Top.contents
        /\ f.at = at
    BY <1>1 DEF IsEntry
  <2> HIDE DEF f
  <2>2. InPlace(world, f)
    BY <2>1, EntryGoesOn
  <2> QED
    BY <2>2 DEF f
<1> QED
  BY <1>2, <1>3

LEMMA EntryKeeps ==
  ASSUME InOrder, AllocatePagesFails \/ FindEsp \/ EspFound \/ LoadImage \/ Confirm,
         started' = started
  PROVE  Keeps
<1>1. Top.fn = "handle_boot_entry" /\ HasRead(world, Top)
  BY TopHasRead DEF AllocatePagesFails, AllRead, FindEsp, EspFound, LoadImage, Confirm, Runs
<1>2. ASSUME Return(Err) PROVE Keeps
  BY <1>1, <1>2, PlacedReturn DEF InOrder, Ordered
<1>3. CASE AllocatePagesFails
  BY <1>2, <1>3 DEF AllocatePagesFails
<1>4. CASE FindEsp
  BY <1>1, <1>4, HasReadAll, EntryReadStays, PlacedBecome DEF FindEsp
<1>5. ASSUME EspFound \/ LoadImage \/ Confirm
      PROVE  Len(Top.contents) = Len(FilesIn(world, Top.entry))
  BY <1>1, <1>5 DEF EspFound, LoadImage, Confirm, HasRead
<1>6. CASE EspFound
  BY <1>1, <1>2, <1>5, <1>6, EntryReadStays, PlacedBecome DEF EspFound
<1>7. CASE LoadImage
  BY <1>1, <1>2, <1>5, <1>7, EntryReadStays, PlacedBecome DEF LoadImage
<1>8. CASE Confirm
  BY <1>1, <1>5, <1>8, EntryReadStays, PlacedBecome, PlacedHalt DEF Confirm
<1> QED
  BY <1>3, <1>4, <1>6, <1>7, <1>8

LEMMA StartImageKeeps == ASSUME InOrder, StartImage PROVE Keeps
<1>1. /\ Top.fn = "handle_boot_entry" /\ Top.at = "start" /\ HasRead(world, Top)
      /\ Len(FilesIn(world, Top.entry)) \in Nat \ {0}
      /\ Top.contents \in Seq(Stored(world))
  BY TopHasRead DEF StartImage, Runs, IsEntry
<1>2. Started(world, started')
  <2> DEFINE x == started'
  <2>1. x.entry = Top.entry /\ x.contents = Top.contents
    BY DEF StartImage
  <2>2. Len(Top.contents) = Len(FilesIn(world, Top.entry))
    BY <1>1 DEF HasRead
  <2>3. Top.contents # <<>> /\ DOMAIN Top.contents = 1..Len(Top.contents)
    <3>1. Len(<<>>) = 0
      OBVIOUS
    <3> QED
      BY <1>1, <2>2, <3>1
  <2> HIDE DEF x
  <2>4. Started(world, x)
    BY <1>1, <2>1, <2>2, <2>3 DEF Started, HasRead
  <2> QED
    BY <2>4 DEF x
<1>3. ASSUME NEW r, Return(r) PROVE Keeps
  BY <1>1, <1>2, <1>3, PlacedReturn
<1>4. ASSUME Halt("booted") PROVE Keeps
  BY <1>2, <1>4 DEF Halt, Keeps, InOrder, Ordered
<1> QED
  BY <1>3, <1>4 DEF StartImage

\* The drives the config knows are outermost ones.
LEMMA UnlockDriveKeeps == ASSUME InOrder, UnlockDrive, started' = started PROVE Keeps
<1>1. /\ Top.fn = "handle_unlock_configured_opal_drives" /\ Top.i <= Len(Top.devices)
      /\ IsUnlockAll(world, Top) /\ Device.bus # "other"
  BY TopInPlace, TopFrame, FrameOfFunction DEF UnlockDrive, AtConfigured, Runs
<1> DEFINE d == Top.devices[Top.i]
<1>2. d \in 1..Len(world.drives) /\ Device = world.drives[d]
  BY <1>1 DEF IsUnlockAll, Device, Drive
<1>3. PICK p \in DOMAIN world.partitions :
         /\ Uuid(world, p) = world.drives[d].serial
         /\ Halt("panic") \/ Call(Top, UnlockOpal(d, Partition(p).keyslot))
  BY <1>2 DEF UnlockDrive, Configured, Partition, Uuid
<1> DEFINE g == UnlockOpal(d, Partition(p).keyslot)
<1>4. CASE Halt("panic")
  BY <1>4, PlacedHalt
<1>5. CASE Call(Top, g)
  <2>1. Parent(world, p) = None
    <3>1. Uuid(world, p) \in SerialsOf(world)
      BY <1>1, <1>2, <1>3 DEF SerialsOf
    <3> QED
      BY <3>1, TopInPlace DEF Orderly
  <2>2. g.fn = "unlock_opal" /\ g.drive = d /\ g.keyslot = world.partitions[p].keyslot
    BY DEF UnlockOpal, Partition
  <2> HIDE DEF g, d
  <2>3. InPlace(world, g)
    BY <1>3, <2>1, <2>2, InPlaceOf DEF UnlockInPlace
  <2> QED
    BY <1>5, <2>3, PlacedCall, TopInPlace
<1> QED
  BY <1>3, <1>4, <1>5

LEMMA UnlockAllKeeps ==
  ASSUME InOrder, SkipDrive \/ DriveFails \/ DriveDone \/ AllUnlocked, started' = started
  PROVE  Keeps
<1>1. /\ Top.fn = "handle_unlock_configured_opal_drives" /\ IsUnlockAll(world, Top)
  BY TopInPlace, TopFrame, FrameOfFunction
     DEF SkipDrive, DriveFails, DriveDone, AllUnlocked, AtConfigured, Runs, Resumes
<1>2. ASSUME NEW r, Return(r) PROVE Keeps
  BY <1>1, <1>2, PlacedReturn DEF InOrder, Ordered
<1> DEFINE f == [Top EXCEPT !.i = @ + 1]
<1>3. f.fn = "handle_unlock_configured_opal_drives"
  BY <1>1 DEF IsUnlockAll
<1> HIDE DEF f
<1>4. InPlace(world, f)
  BY <1>3, InPlaceOf
<1>5. ASSUME Become(f) PROVE Keeps
  BY <1>4, <1>5, PlacedBecome
<1> QED
  BY <1>2, <1>5 DEF SkipDrive, DriveFails, DriveDone, AllUnlocked, f

LEMMA BootKeeps == ASSUME InOrder, BootStep PROVE Keeps
<1>1. CASE StartImage
  BY <1>1, StartImageKeeps
<1>2. CASE LocateConfig \/ ReadConfig \/ DecodeConfig \/ RunFails \/ RunReturns \/ Exit
  <2>1. started' = started
    BY <1>2 DEF LocateConfig, ReadConfig, DecodeConfig, RunFails, RunReturns, Exit
  <2> QED
    BY <1>2, <2>1, MainKeeps
<1>3. CASE RunMenu
  BY <1>3, RunMenuKeeps DEF RunMenu
<1>4. CASE ReadExtra \/ ExtraRead \/ ReadEntryFile \/ EntryFileRead
  <2>1. started' = started
    BY <1>4 DEF ReadExtra, ExtraRead, ReadEntryFile, EntryFileRead
  <2> QED
    BY <1>4, <2>1, ReadExtraKeeps, ExtraReadKeeps, ReadEntryFileKeeps, EntryFileReadKeeps
<1>5. CASE AllocatePagesFails \/ FindEsp \/ EspFound \/ LoadImage \/ Confirm
  <2>1. started' = started
    BY <1>5 DEF AllocatePagesFails, FindEsp, EspFound, LoadImage, Confirm
  <2> QED
    BY <1>5, <2>1, EntryKeeps
<1>6. CASE UnlockDrive
  BY <1>6, UnlockDriveKeeps DEF UnlockDrive
<1>7. CASE SkipDrive \/ DriveFails \/ DriveDone \/ AllUnlocked
  <2>1. started' = started
    BY <1>7 DEF SkipDrive, DriveFails, DriveDone, AllUnlocked
  <2> QED
    BY <1>7, <2>1, UnlockAllKeeps
<1> QED
  BY <1>1, <1>2, <1>3, <1>4, <1>5, <1>6, <1>7 DEF BootStep

LEMMA OrderedStep == ASSUME InOrder, [BootNext]_bootVars PROVE Ordered'
<1>1. Keeps
  <2>1. CASE UNCHANGED bootVars
    BY <2>1, PlacedSame DEF bootVars, vars, calls
  <2>2. CASE FirmwareStep
    BY <2>2, PlacedSame DEF FirmwareStep, vars, calls
  <2>3. CASE SearchStep
    BY <2>3, SearchKeeps DEF SearchStep
  <2>4. CASE BootStep
    BY <2>4, BootKeeps
  <2> QED
    BY <2>1, <2>2, <2>3, <2>4 DEF BootNext
<1>2. world' = world
  BY WorldStays
<1> QED
  BY <1>1, <1>2 DEF Keeps, Ordered, InOrder

LEMMA OrderedInit == ASSUME BootInit, Orderly(world) PROVE Ordered
<1>1. /\ stack = <<[fn |-> "main", at |-> "load"]>> /\ ret = None /\ started = None
  BY DEF BootInit
<1>2. Len(stack) = 1 /\ stack[1].fn = "main"
  BY <1>1
<1>3. Placed(world, stack)
  BY <1>2, InPlaceOf DEF Placed
<1> QED
  BY <1>1, <1>3 DEF Ordered, Delivered, Delivers, Started

\* The same in the words of the properties.
LEMMA PlaceOfPath ==
  \A p : /\ Uuids(PathOf(p)) = UuidsOf(world, Path(world)[p])
         /\ Inner(Uuids(PathOf(p))) = Place(world, p)
<1>1. \A path : Uuids(path) = UuidsOf(world, path)
  BY DEF Uuids, UuidsOf, Partition, Uuid
<1>2. Serials = SerialsOf(world)
  BY DEF Serials, SerialsOf, Drive
<1>3. \A us : Inner(us) = InnerOf(world, us)
  BY <1>2 DEF Inner, InnerOf, NamesDrive
<1>4. \A p : Uuids(PathOf(p)) = UuidsOf(world, Path(world)[p])
  BY <1>1, PathOfPath
<1> QED
  BY <1>3, <1>4 DEF Place

LEMMA CopiesOfFile == \A file, n : IsCopy(world, file, n) => n \in Copies(file)
<1> SUFFICES ASSUME NEW file, NEW n, IsCopy(world, file, n) PROVE n \in Copies(file)
  OBVIOUS
<1>1. ChainOf(n) = Inner(Uuids(PathOf(file.partition)))
  BY ChainOfChain, PlaceOfPath DEF IsCopy
<1>2. DrivesOf(n) # {}
  BY DrivesOfRoot DEF IsCopy, HasDrive
<1> QED
  BY <1>1, <1>2 DEF Copies, IsCopy, Node

LEMMA FoundAmongCopies ==
  ASSUME NEW file, NEW v, Found(world, file, v)
  PROVE  \E n \in Copies(file) : v = Reads(file, n) /\ Reads(file, n) = v
BY CopiesOfFile DEF Found, Reads, Node

\* Whoever waits for a password stands at a drive or a device of the partition whose
\* keyslot it is.
LEMMA AskersAreInPlace == ASSUME InOrder PROVE KeysGoToTheirDevice
<1> SUFFICES ASSUME NEW j \in 2..Len(stack), stack[j].fn = "get_password_of_keyslot"
             PROVE  \E p \in DOMAIN world.partitions :
                      LET asking == stack[j - 1]
                          uuids  == Uuids(PathOf(p))
                      IN  /\ Partition(p).keyslot = stack[j].keyslot
                          /\ \/ /\ asking.fn = "unlock_opal"
                                /\ uuids = <<Drive(asking.drive).serial>>
                             \/ /\ asking.fn = "find_read_file_internal"
                                /\ ChainOf(asking.node) = Inner(uuids)
  BY DEF KeysGoToTheirDevice
<1> DEFINE c == stack[j - 1]
           k == stack[j].keyslot
<1>1. Good /\ world \in Worlds /\ ConfigIsWhole(world) /\ StorageIsNested(world) /\ Orderly(world)
  BY TopInPlace
<1>2. j - 1 \in 1..Len(stack)
  BY <1>1, TopFrame, DepthAssumption
<1>3. Calls(world, c, stack[j]) /\ Frame(world, c) /\ InPlace(world, c)
  BY <1>1, <1>2 DEF Good, StackOK, InOrder, Ordered, Placed
<1>4. \/ c.fn = "unlock_opal" /\ c.keyslot = k
      \/ /\ c.fn = "find_read_file_internal" /\ c.at = "password"
         /\ world.partitions[Head(c.path)].keyslot = k
  BY <1>3 DEF Calls
<1> HIDE DEF c, k
<1>5. ASSUME c.fn = "unlock_opal", c.keyslot = k
      PROVE  \E p \in DOMAIN world.partitions :
               Partition(p).keyslot = k /\ Uuids(PathOf(p)) = <<Drive(c.drive).serial>>
  <2>1. PICK p \in DOMAIN world.partitions :
               /\ world.partitions[p].keyslot = k /\ Parent(world, p) = None
               /\ Uuid(world, p) = world.drives[c.drive].serial
    BY <1>3, <1>5, InPlaceOf DEF UnlockInPlace
  <2>2. UuidsOf(world, Path(world)[p]) = <<Uuid(world, p)>>
    BY <1>1, <2>1, PlaceEquation DEF Orderly
  <2> QED
    BY <2>1, <2>2, PlaceOfPath DEF Partition, Drive
<1>6. ASSUME c.fn = "find_read_file_internal", c.at = "password",
             world.partitions[Head(c.path)].keyslot = k
      PROVE  \E p \in DOMAIN world.partitions :
               Partition(p).keyslot = k /\ ChainOf(c.node) = Inner(Uuids(PathOf(p)))
  <2> DEFINE p == Head(c.path)
             n == c.node
  <2>1. /\ n \in DOMAIN world.nodes /\ n # None /\ world.nodes[n].kind = "luks" /\ c.path # <<>>
        /\ world.nodes[n].uuid = Uuid(world, p)
    BY <1>1, <1>3, <1>6, FrameOfFunction DEF IsProbe, StorageIsNested, Uuid
  <2>2. /\ Along(world, c.path, c.file) /\ Belongs(world, Outside(world, n), p)
    BY <1>3, <1>6, <2>1, InPlaceOf DEF ProbeInPlace
  <2>3. p \in DOMAIN world.partitions
    BY <2>2, AlongTail
  <2>4. Uuid(world, p) \notin SerialsOf(world)
    BY <1>1, <2>1 DEF Orderly
  <2>5. Chain(world)[n] = Append(Outside(world, n), Uuid(world, p))
    <3>1. world.nodes[n].kind # "gpt"
      BY <2>1
    <3> HIDE DEF n, p
    <3>2. Chain(world)[n] = Append(Outside(world, n), world.nodes[n].uuid)
      BY <1>1, <2>1, <3>1, ChainEquation
    <3> QED
      BY <2>1, <3>2
  <2>6. Chain(world)[n] = Place(world, p)
    BY <2>2, <2>4, <2>5 DEF Belongs
  <2>7. Partition(p).keyslot = k /\ ChainOf(n) = Inner(Uuids(PathOf(p)))
    BY <1>6, <2>6, ChainOfChain, PlaceOfPath DEF Partition
  <2> QED
    BY <2>3, <2>7
<1> QED
  BY <1>4, <1>5, <1>6 DEF c, k

\* What is started is what the entry names.
LEMMA StartsWhatIsNamed == ASSUME InOrder PROVE StartedAsConfigured
<1> SUFFICES ASSUME NEW s, s = started, s # None
             PROVE  /\ Len(s.contents) = Len(FilesOf(s.entry))
                    /\ s.contents[1] \in Images
                    /\ \A i \in DOMAIN s.contents :
                          LET file == FilesOf(s.entry)[i]
                          IN  \E n \in Copies(file) : s.contents[i] = Reads(file, n)
  BY DEF StartedAsConfigured
<1>1. /\ Len(s.contents) = Len(FilesIn(world, s.entry)) /\ s.contents[1] \in Images
      /\ \A i \in DOMAIN s.contents : Found(world, FilesIn(world, s.entry)[i], s.contents[i])
  BY DEF InOrder, Ordered, Started
<1>2. FilesOf(s.entry) = FilesIn(world, s.entry)
  BY DEF FilesOf, FilesIn, Entry
<1> QED
  BY <1>1, <1>2, FoundAmongCopies

\* The steps of a search.
LEMMA AtSearch ==
  ASSUME [BootNext]_bootVars, Top.fn = "find_read_file"
  PROVE  stack' = stack \/ NoMoreDevices \/ DeviceFails \/ ProbeDrive \/ DriveUnlocked
                        \/ OpenDevice \/ DeviceSearched
<1>1. CASE UNCHANGED bootVars
  BY <1>1 DEF bootVars, vars, calls
<1>2. CASE FirmwareStep
  BY <1>2 DEF FirmwareStep, vars, calls
<1>3. CASE BootStep
  BY <1>3 DEF BootStep, LocateConfig, ReadConfig, DecodeConfig, RunMenu, RunFails, RunReturns,
     Exit, ReadExtra, ExtraRead, ReadEntryFile, EntryFileRead, AllocatePagesFails, FindEsp, EspFound,
     LoadImage, Confirm, StartImage, SkipDrive, UnlockDrive, DriveFails, DriveDone, AllUnlocked,
     AtConfigured, AllRead, Runs, Resumes
<1>4. CASE SearchStep
  BY <1>4 DEF SearchStep, Next, ProgramStep, ResolveParent, ProbeNothing, ProbeVolume,
     IsVolumeGroup, VolumeSearched, ProbeLuks, LuksPassword, LuksSearched, ProbeFileSystem,
     StartUnlock, TryPassword, UnlockFails, UseBuffered, FindKeyFile, KeyFileRead, KeyFileMissing,
     ReadFails, ShutDown, Type, Prompting, Probes, Runs, Resumes
<1> QED
  BY <1>1, <1>2, <1>3, <1>4 DEF BootNext

\* A search that ends well hands on what the probe returned.
LEMMA SearchFinds ==
  ASSUME InOrder, [BootNext]_bootVars, NEW v, Ok(v) \notin {None, Err},
         Top.fn = "find_read_file", stack' = Front(stack), ret' = Ok(v)
  PROVE  Found(world, Top.file, v)
<1> DEFINE n == Len(stack)
<1>1. /\ IsSequence(stack) /\ stack # <<>> /\ n \in Nat \ {0} /\ Len(Front(stack)) = n - 1
  BY TopInPlace, TopFrame, FrontOf, DepthAssumption DEF IsSequence
<1>2. stack' # stack
  BY <1>1
<1>3. ASSUME NEW f, Become(f) PROVE FALSE
  BY <1>3 DEF Become, Ok
<1>4. DeviceSearched
  <2>1. ~Return(Err)
    BY DEF Return
  <2>2. /\ \A f : ~Become(f) /\ \A g : ~Call(f, g)
        /\ \A how : ~Halt(how)
    BY <1>2 DEF Become, Call, Halt
  <2>3. ~DescendDrive
    BY <2>1, <2>2 DEF DescendDrive
  <2>4. ~NoMoreDevices /\ ~DeviceFails /\ ~DriveUnlocked /\ ~OpenDevice /\ ~ResolveParent
    BY <2>1, <2>2, <2>3 DEF NoMoreDevices, DeviceFails, DriveUnlocked, OpenDevice, ResolveParent
  <2>5. ~ProbeDrive
    BY <2>2, <2>3 DEF ProbeDrive
  <2> QED
    BY <1>2, <2>4, <2>5, AtSearch
<1>5. ret # Err /\ ret = Ok(v) /\ Top.at = "probing"
  BY <1>4, <1>3 DEF DeviceSearched, Return, Resumes
<1> QED
  BY <1>5, TopInPlace DEF Delivers, Reading, TheFile, Ok

LEMMA AlwaysOrdered == BootSpec /\ Orderly(world) => []InOrder
<1>1. BootInit /\ Orderly(world) => Ordered
  BY OrderedInit
<1>2. Typed /\ Ordered /\ [BootNext]_bootVars => Ordered'
  BY OrderedStep DEF InOrder
<1>3. Typed /\ Ordered => InOrder
  BY DEF InOrder
<1> QED
  BY <1>1, <1>2, <1>3, BootTyped, PTL DEF BootSpec

\* On such a machine a key is given only to a device that the config names, where the
\* config says it is, and from the keyslot the config says: whatever else looks the same,
\* and in whatever search within a search the key was needed.
THEOREM KeysGoWhereTheyBelong == BootSpec /\ Orderly(world) => []KeysGoToTheirDevice
BY AlwaysOrdered, AskersAreInPlace, PTL

\* An image is started with the files its entry names, each from its own partition, in
\* the order of the config, and the first one is a PE image.
THEOREM EntriesStartAsConfigured == BootSpec /\ Orderly(world) => []StartedAsConfigured
BY AlwaysOrdered, StartsWhatIsNamed, PTL

\* A file that is found is one of that name, on a file system inside the partitions of
\* its path in their order.
THEOREM FilesAreWhereTheyAreNamed == BootSpec /\ Orderly(world) => FileIsWhereItIsNamed
<1>1. InOrder /\ [BootNext]_bootVars =>
        [\A v \in {r.value : r \in {ret'} \ {None, Err}} :
           stack # <<>> /\ SearchEndsWith(Ok(v)) =>
               \E n \in Copies(Top.file) : Reads(Top.file, n) = v]_vars
  <2> SUFFICES ASSUME InOrder, [BootNext]_bootVars,
                      NEW v \in {r.value : r \in {ret'} \ {None, Err}},
                      stack # <<>>, SearchEndsWith(Ok(v))
               PROVE  \E n \in Copies(Top.file) : Reads(Top.file, n) = v
    OBVIOUS
  <2>1. ret' \notin {None, Err} /\ ret' = Ok(v)
    BY DEF SearchEndsWith
  <2>2. Found(world, Top.file, v)
    BY <2>1, SearchFinds DEF SearchEndsWith
  <2> QED
    BY <2>2, FoundAmongCopies
<1> QED
  BY <1>1, AlwaysOrdered, PTL DEF BootSpec, FileIsWhereItIsNamed

-------------------------------------------------------------------------------
(* What a search that fails has seen. *)

LEMMA BelowEquation ==
  ASSUME NEW w, StorageIsNested(w), NEW n \in DOMAIN w.nodes
  PROVE  /\ n \in Below(w, n)
         /\ \A m \in Below(w, n) : Parts(w, m) \subseteq Below(w, n)
         /\ \A m \in Below(w, n) : m = n \/ \E kid \in Parts(w, n) : m \in Below(w, kid)
<1> DEFINE D == DOMAIN w.nodes
<1>1. \A m \in D : Parts(w, m) \subseteq D
  <2> SUFFICES ASSUME NEW m \in D PROVE Range(w.nodes[m].kids) \subseteq D
    BY DEF Parts
  <2>1. w.nodes[m].kids \in Seq(D)
    BY DEF StorageIsNested
  <2> QED
    BY <2>1 DEF Range
<1>2. ASSUME NEW k \in D
      PROVE  k \in Below(w, k) /\ \A m \in Below(w, k) : Parts(w, m) \subseteq Below(w, k)
  <2>1. k \in Below(w, k)
    BY DEF Below
  <2>2. ASSUME NEW m \in Below(w, k), NEW x \in Parts(w, m) PROVE x \in Below(w, k)
    <3>1. m \in D /\ x \in D
      BY <1>1 DEF Below
    <3>2. ASSUME NEW S \in SUBSET D, k \in S, \A y \in S : Parts(w, y) \subseteq S
          PROVE  x \in S
      <4>1. m \in S
        BY <3>2 DEF Below
      <4> QED
        BY <3>2, <4>1
    <3> QED
      BY <3>1, <3>2 DEF Below
  <2> QED
    BY <2>1, <2>2
<1>3. ASSUME NEW m \in Below(w, n) PROVE m = n \/ \E kid \in Parts(w, n) : m \in Below(w, kid)
  <2> DEFINE S == {n} \cup {x \in D : \E kid \in Parts(w, n) : x \in Below(w, kid)}
  <2>1. ASSUME NEW x \in S PROVE Parts(w, x) \subseteq S
    <3>1. CASE x = n
      BY <1>1, <1>2, <3>1
    <3>2. CASE x # n
      <4>1. PICK kid \in Parts(w, n) : x \in Below(w, kid)
        BY <3>2
      <4>2. kid \in D /\ Parts(w, x) \subseteq Below(w, kid) /\ Parts(w, x) \subseteq D
        BY <1>1, <1>2, <4>1 DEF Below
      <4> QED
        BY <4>2
    <3> QED
      BY <3>1, <3>2
  <2>2. S \in SUBSET D /\ n \in S
    OBVIOUS
  <2> HIDE DEF S
  <2>3. m \in S
    BY <2>1, <2>2 DEF Below
  <2> QED
    BY <2>3 DEF S
<1> QED
  BY <1>2, <1>3

\* Every node is stored in one that is on the drives themselves.
LEMMA BelowRoot ==
  ASSUME NEW w, StorageIsNested(w), NEW n \in DOMAIN w.nodes
  PROVE  Root(w)[n] \in DOMAIN w.nodes /\ n \in Below(w, Root(w)[n])
<1> DEFINE D  == DOMAIN w.nodes
           up == [m \in D |-> IF Holders(w, m) = {} THEN None ELSE Holder(w, m)]
           B  == {m \in D : ~(Root(w)[m] \in D /\ m \in Below(w, Root(w)[m]))}
<1>1. Forest(D, up)
  BY Nesting
<1> SUFFICES ASSUME B # {} PROVE FALSE
  OBVIOUS
<1>2. PICK m \in B : up[m] \notin B
  <2>1. B \in SUBSET D
    OBVIOUS
  <2> HIDE DEF B, up, D
  <2> QED
    BY <1>1, <2>1 DEF Forest
<1>3. CASE Holders(w, m) = {}
  BY <1>2, <1>3, RootEquation, BelowEquation
<1>4. CASE Holders(w, m) # {}
  <2> DEFINE h == Holder(w, m)
  <2>1. h \in D /\ m \in Parts(w, h) /\ up[m] = h
    BY <1>4, Nesting DEF Holders, Parts
  <2>2. Root(w)[m] = Root(w)[h]
    BY <1>4, RootEquation
  <2>3. Root(w)[h] \in D /\ h \in Below(w, Root(w)[h])
    BY <1>2, <2>1
  <2>4. m \in Below(w, Root(w)[h])
    BY <2>1, <2>3, BelowEquation
  <2> QED
    BY <2>2, <2>3, <2>4
<1> QED
  BY <1>3, <1>4

\* A sequence that t begins with.
Begins(s, t) == Len(s) <= Len(t) /\ \A i \in 1..Len(s) : t[i] = s[i]

\* What is in n has the chain of n, and more than that.
LEMMA ChainBelow ==
  ASSUME NEW w, StorageIsNested(w), NEW n \in DOMAIN w.nodes, NEW m \in Below(w, n)
  PROVE  /\ Begins(Outside(w, n), Outside(w, m))
         /\ m = n \/ Begins(Chain(w)[n], Outside(w, m))
<1> DEFINE D == DOMAIN w.nodes
           U == {w.nodes[k].uuid : k \in D}
           S == {k \in D : /\ Begins(Outside(w, n), Outside(w, k))
                           /\ k = n \/ Begins(Chain(w)[n], Outside(w, k))}
<1>1. ASSUME NEW s \in Seq(U) PROVE Begins(s, s) /\ \A u \in U : Begins(s, Append(s, u))
  <2>1. Len(s) \in Nat /\ \A u \in U : /\ Len(Append(s, u)) = Len(s) + 1
                                       /\ \A i \in 1..Len(s) : Append(s, u)[i] = s[i]
    BY AppendProperties
  <2> QED
    BY <2>1 DEF Begins
<1>2. ASSUME NEW r \in Seq(U), NEW s \in Seq(U), NEW t \in Seq(U), Begins(r, s), Begins(s, t)
      PROVE  Begins(r, t)
  BY <1>2 DEF Begins
<1>3. ASSUME NEW k \in D
      PROVE  /\ Outside(w, k) \in Seq(U) /\ Chain(w)[k] \in Seq(U)
             /\ Begins(Outside(w, k), Chain(w)[k])
  <2>1. /\ Outside(w, k) \in Seq(U)
        /\ Chain(w)[k] = Outside(w, k) \/ Chain(w)[k] = Append(Outside(w, k), w.nodes[k].uuid)
    BY ChainEquation
  <2>2. w.nodes[k].uuid \in U
    OBVIOUS
  <2> DEFINE o == Outside(w, k)
             u == w.nodes[k].uuid
  <2> HIDE DEF U
  <2>3. Append(o, u) \in Seq(U) /\ Begins(o, o) /\ Begins(o, Append(o, u))
    BY <1>1, <2>1, <2>2, AppendProperties
  <2> HIDE DEF o, u
  <2> QED
    BY <2>1, <2>3 DEF o, u
<1>4. ASSUME NEW k \in S, NEW kid \in Parts(w, k) PROVE kid \in S
  <2>1. kid \in D
    <3>1. w.nodes[k].kids \in Seq(D)
      BY DEF StorageIsNested
    <3> QED
      BY <3>1 DEF Range, Parts
  <2>2. Outside(w, kid) = Chain(w)[k]
    <3>1. kid \in Range(w.nodes[k].kids)
      BY DEF Parts
    <3>2. Holders(w, kid) # {} /\ Holder(w, kid) = k
      BY <2>1, <3>1, Nesting DEF Holders
    <3> QED
      BY <3>2 DEF Outside
  <2>3. Begins(Outside(w, k), Chain(w)[k]) /\ Chain(w)[k] \in Seq(U) /\ Outside(w, k) \in Seq(U)
    BY <1>3
  <2>4. Chain(w)[n] \in Seq(U) /\ Outside(w, n) \in Seq(U)
    BY <1>3
  <2>5. /\ k \in D /\ Begins(Outside(w, n), Outside(w, k))
        /\ k = n \/ Begins(Chain(w)[n], Outside(w, k))
    OBVIOUS
  <2> HIDE DEF S, U
  <2>6. Begins(Outside(w, n), Chain(w)[k])
    BY <1>2, <2>3, <2>4, <2>5
  <2>7. Begins(Chain(w)[n], Chain(w)[k])
    BY <1>1, <1>2, <2>3, <2>4, <2>5
  <2> QED
    BY <2>1, <2>2, <2>6, <2>7 DEF S
<1>5. n \in S /\ S \in SUBSET D
  BY <1>1, <1>3
<1> HIDE DEF S
<1>6. m \in S
  BY <1>4, <1>5 DEF Below
<1> QED
  BY <1>6 DEF S

\* No file system in n, but for those in hidden, has a file of this name where the path
\* leads to.
Lacks(w, hidden, n, path, name) ==
    n # None =>
        \A m \in Below(w, n) \ hidden :
            w.nodes[m].kind \in {"ext4", "fat"} /\ name \in DOMAIN w.nodes[m].files =>
                Chain(w)[m] # Outside(w, n) \o UuidsOf(w, path)

LEMMA LacksMore ==
  ASSUME NEW w, NEW hidden, NEW more, hidden \subseteq more, NEW n, NEW path, NEW name,
         Lacks(w, hidden, n, path, name)
  PROVE  Lacks(w, more, n, path, name)
BY DEF Lacks

\* The uuids of a path one by one.
LEMMA UuidsOfPath ==
  ASSUME NEW w, NEW path \in Seq(DOMAIN w.partitions),
         NEW U, \A p \in DOMAIN w.partitions : Uuid(w, p) \in U
  PROVE  /\ UuidsOf(w, path) \in Seq(U) /\ Len(UuidsOf(w, path)) = Len(path)
         /\ \A i \in 1..Len(path) : UuidsOf(w, path)[i] = Uuid(w, path[i])
<1>1. Len(path) \in Nat /\ DOMAIN path = 1..Len(path)
      /\ \A i \in 1..Len(path) : path[i] \in DOMAIN w.partitions
  OBVIOUS
<1>2. UuidsOf(w, path) \in [1..Len(path) -> U]
  BY <1>1 DEF UuidsOf
<1>3. UuidsOf(w, path) \in Seq(U) /\ Len(UuidsOf(w, path)) = Len(path)
  BY <1>1, <1>2
<1> QED
  BY <1>1, <1>3 DEF UuidsOf

\* The first uuid of a path goes to what is before it.
LEMMA UuidsShift ==
  ASSUME NEW w, NEW path \in Seq(DOMAIN w.partitions), path # <<>>,
         NEW U, \A p \in DOMAIN w.partitions : Uuid(w, p) \in U, NEW s \in Seq(U)
  PROVE  Append(s, Uuid(w, Head(path))) \o UuidsOf(w, Tail(path)) = s \o UuidsOf(w, path)
<1> DEFINE n == Len(path)
           u == Uuid(w, Head(path))
           t == Tail(path)
           a == UuidsOf(w, path)
           b == UuidsOf(w, t)
           l == Len(s)
           x == Append(s, u)
<1>1. /\ n \in Nat \ {0} /\ l \in Nat /\ t \in Seq(DOMAIN w.partitions) /\ Len(t) = n - 1
      /\ Head(path) = path[1] /\ \A i \in 1..(n - 1) : t[i] = path[i + 1]
  BY HeadTailProperties, EmptySeq
<1>2. u \in U
  BY HeadTailProperties
<1>3. a \in Seq(U) /\ Len(a) = n /\ \A i \in 1..n : a[i] = Uuid(w, path[i])
  BY UuidsOfPath
<1>4. b \in Seq(U) /\ Len(b) = n - 1 /\ \A i \in 1..(n - 1) : b[i] = a[i + 1]
  <2> HIDE DEF t, a, n
  <2>1. b \in Seq(U) /\ Len(b) = Len(t) /\ \A i \in 1..Len(t) : b[i] = Uuid(w, t[i])
    BY <1>1, UuidsOfPath
  <2>2. ASSUME NEW i \in 1..(n - 1) PROVE b[i] = a[i + 1]
    <3>1. i + 1 \in 1..n
      BY <1>1
    <3> QED
      BY <1>1, <1>3, <2>1, <3>1
  <2> QED
    BY <1>1, <2>1, <2>2
<1>5. a[1] = u
  BY <1>1, <1>3
<1>6. x \in Seq(U) /\ Len(x) = l + 1 /\ x[l + 1] = u /\ \A i \in 1..l : x[i] = s[i]
  BY <1>2, AppendProperties
<1> HIDE DEF n, u, t, a, b, l, x
<1>7. /\ x \o b \in Seq(U) /\ Len(x \o b) = l + n
      /\ \A i \in 1..(l + n) : (x \o b)[i] = IF i <= l + 1 THEN x[i] ELSE b[i - (l + 1)]
  <2>1. /\ x \o b \in Seq(U) /\ Len(x \o b) = Len(x) + Len(b)
        /\ \A i \in 1..(Len(x) + Len(b)) : (x \o b)[i] = IF i <= Len(x) THEN x[i] ELSE b[i - Len(x)]
    BY <1>4, <1>6, ConcatProperties
  <2>2. Len(x) = l + 1 /\ Len(x) + Len(b) = l + n
    BY <1>1, <1>4, <1>6
  <2> QED
    BY <2>1, <2>2
<1>8. /\ s \o a \in Seq(U) /\ Len(s \o a) = l + n
      /\ \A i \in 1..(l + n) : (s \o a)[i] = IF i <= l THEN s[i] ELSE a[i - l]
  BY <1>1, <1>3, ConcatProperties DEF l
<1>9. ASSUME NEW i \in 1..(l + n) PROVE (x \o b)[i] = (s \o a)[i]
  <2>1. CASE i <= l
    <3>1. i \in 1..l /\ i <= l + 1
      BY <1>1, <2>1
    <3> QED
      BY <1>6, <1>7, <1>8, <2>1, <3>1
  <2>2. CASE i = l + 1
    <3>1. i - l = 1 /\ ~(i <= l) /\ i <= l + 1
      BY <1>1, <2>2
    <3> QED
      BY <1>5, <1>6, <1>7, <1>8, <2>2, <3>1
  <2>3. CASE i > l + 1
    <3>1. /\ i - (l + 1) \in 1..(n - 1) /\ ~(i <= l + 1) /\ ~(i <= l)
          /\ (i - (l + 1)) + 1 = i - l
      BY <1>1, <2>3
    <3> QED
      BY <1>4, <1>7, <1>8, <3>1
  <2>4. i <= l \/ i = l + 1 \/ i > l + 1
    BY <1>1
  <2> QED
    BY Zenon, <2>1, <2>2, <2>3, <2>4
<1>10. x \o b = s \o a
  BY <1>7, <1>8, <1>9, SeqEqual
<1> QED
  BY <1>10 DEF x, b, a, u, t

\* The uuids of the nodes and those of the config.
AllUuids(w) == {w.nodes[m].uuid : m \in DOMAIN w.nodes} \cup {Uuid(w, p) : p \in DOMAIN w.partitions}

LEMMA ChainsAreUuids ==
  ASSUME NEW w, StorageIsNested(w)
  PROVE  /\ \A n \in DOMAIN w.nodes : Outside(w, n) \in Seq(AllUuids(w))
         /\ \A n \in DOMAIN w.nodes : w.nodes[n].uuid \in AllUuids(w)
         /\ \A p \in DOMAIN w.partitions : Uuid(w, p) \in AllUuids(w)
<1> DEFINE U == {w.nodes[m].uuid : m \in DOMAIN w.nodes}
<1>1. U \subseteq AllUuids(w)
  BY DEF AllUuids
<1>2. ASSUME NEW n \in DOMAIN w.nodes PROVE Outside(w, n) \in Seq(AllUuids(w))
  <2>1. Outside(w, n) \in Seq(U)
    BY ChainEquation
  <2> HIDE DEF U
  <2> QED
    BY <1>1, <2>1, SeqMonotonic
<1> QED
  BY <1>2 DEF AllUuids

\* A node with another uuid, or the end of the path.
LEMMA LacksOther ==
  ASSUME NEW w, StorageIsNested(w), NEW n \in DOMAIN w.nodes, NEW name, NEW hidden,
         NEW path \in Seq(DOMAIN w.partitions),
         \/ path = <<>>
         \/ w.nodes[n].kind # "gpt" /\ w.nodes[n].uuid # Uuid(w, Head(path))
  PROVE  Lacks(w, hidden, n, path, name)
<1> DEFINE U == AllUuids(w)
           o == Outside(w, n)
           us == UuidsOf(w, path)
<1> SUFFICES ASSUME NEW m \in Below(w, n), w.nodes[m].kind \in {"ext4", "fat"},
                    Chain(w)[m] = o \o us
             PROVE  FALSE
  BY DEF Lacks
<1>1. m \in DOMAIN w.nodes
  BY DEF Below
<1>2. o \in Seq(U) /\ Len(o) \in Nat /\ Outside(w, m) \in Seq(U) /\ Len(Outside(w, m)) \in Nat
  <2>1. o \in Seq(U) /\ Outside(w, m) \in Seq(U)
    BY <1>1, ChainsAreUuids
  <2> QED
    BY <2>1
<1>3. /\ Chain(w)[m] = Append(Outside(w, m), w.nodes[m].uuid)
      /\ Len(Chain(w)[m]) = Len(Outside(w, m)) + 1
      /\ \A i \in 1..Len(Outside(w, m)) : Chain(w)[m][i] = Outside(w, m)[i]
      /\ Chain(w)[m][Len(Outside(w, m)) + 1] = w.nodes[m].uuid
  <2>1. Chain(w)[m] = Append(Outside(w, m), w.nodes[m].uuid) /\ w.nodes[m].uuid \in U
    BY <1>1, ChainEquation, ChainsAreUuids
  <2> QED
    BY <1>2, <2>1, AppendProperties
<1>4. /\ us \in Seq(U) /\ Len(us) = Len(path) /\ Len(path) \in Nat
      /\ \A i \in 1..Len(path) : us[i] = Uuid(w, path[i])
  BY ChainsAreUuids, UuidsOfPath
<1>5. /\ Begins(o, Outside(w, m)) /\ (m = n \/ Begins(Chain(w)[n], Outside(w, m)))
  BY ChainBelow
<1>6. /\ Len(Chain(w)[m]) = Len(o) + Len(path)
      /\ \A i \in 1..(Len(o) + Len(path)) :
            Chain(w)[m][i] = IF i <= Len(o) THEN o[i] ELSE us[i - Len(o)]
  <2> HIDE DEF U, o, us
  <2>1. /\ Len(o \o us) = Len(o) + Len(us)
        /\ \A i \in 1..(Len(o) + Len(us)) :
              (o \o us)[i] = IF i <= Len(o) THEN o[i] ELSE us[i - Len(o)]
    <3>1. o \in Seq(U)
      BY <1>2
    <3>2. us \in Seq(U)
      BY <1>4
    <3> QED
      BY <3>1, <3>2, ConcatProperties
  <2>2. Chain(w)[m] = o \o us
    BY DEF o, us
  <2> QED
    BY <1>4, <2>1, <2>2
<1> HIDE DEF U, o, us
<1>7. CASE path = <<>>
  <2>1. Len(path) = 0 /\ Len(o) <= Len(Outside(w, m))
    BY <1>5, <1>7 DEF Begins
  <2> QED
    BY <1>2, <1>3, <1>6, <2>1
<1>8. CASE path # <<>> /\ w.nodes[n].kind # "gpt" /\ w.nodes[n].uuid # Uuid(w, Head(path))
  <2>1. Len(path) >= 1 /\ Head(path) = path[1]
    BY <1>4, <1>8, EmptySeq
  <2>2. /\ Len(o) + 1 \in 1..(Len(o) + Len(path)) /\ ~(Len(o) + 1 <= Len(o))
        /\ (Len(o) + 1) - Len(o) = 1 /\ 1 \in 1..Len(path)
    BY <1>2, <1>4, <2>1
  <2>3. Chain(w)[m][Len(o) + 1] = Uuid(w, Head(path))
    BY <1>4, <1>6, <2>1, <2>2
  <2>4. /\ Len(Chain(w)[n]) = Len(o) + 1 /\ Chain(w)[n][Len(o) + 1] = w.nodes[n].uuid
    <3>1. Chain(w)[n] = Append(o, w.nodes[n].uuid) /\ w.nodes[n].uuid \in U
      BY <1>8, ChainEquation, ChainsAreUuids DEF o, U
    <3> QED
      BY <1>2, <3>1, AppendProperties
  <2>5. m # n
    BY <1>8, <2>3, <2>4
  <2>6. Len(o) + 1 <= Len(Outside(w, m)) /\ Outside(w, m)[Len(o) + 1] = w.nodes[n].uuid
    <3>1. Len(o) + 1 \in 1..(Len(o) + 1)
      BY <1>2
    <3> QED
      BY <1>5, <2>4, <2>5, <3>1 DEF Begins
  <2>7. Len(o) + 1 \in 1..Len(Outside(w, m))
    BY <1>2, <2>6
  <2> QED
    BY <1>3, <1>8, <2>3, <2>6, <2>7
<1> QED
  BY <1>7, <1>8

\* A container in which nothing is found.
LEMMA LacksInside ==
  ASSUME NEW w, StorageIsNested(w), NEW n \in DOMAIN w.nodes, NEW name, NEW hidden,
         NEW path \in Seq(DOMAIN w.partitions), path # <<>>,
         w.nodes[n].kind \in {"lvm", "luks", "gpt"},
         w.nodes[n].kind # "gpt" => w.nodes[n].uuid = Uuid(w, Head(path)),
         NEW inner, inner = IF w.nodes[n].kind = "gpt" THEN path ELSE Tail(path),
         \A kid \in Parts(w, n) : Lacks(w, hidden, kid, inner, name)
  PROVE  Lacks(w, hidden, n, path, name)
<1> SUFFICES ASSUME NEW m \in Below(w, n), m \notin hidden, w.nodes[m].kind \in {"ext4", "fat"},
                    name \in DOMAIN w.nodes[m].files,
                    Chain(w)[m] = Outside(w, n) \o UuidsOf(w, path)
             PROVE  FALSE
  BY DEF Lacks
<1>1. PICK kid \in Parts(w, n) : m \in Below(w, kid)
  BY BelowEquation
<1>2. kid \in DOMAIN w.nodes /\ kid # None
  <2>1. w.nodes[n].kids \in Seq(DOMAIN w.nodes) /\ None \notin DOMAIN w.nodes
    BY DEF StorageIsNested
  <2> QED
    BY <2>1 DEF Parts, Range
<1>3. Outside(w, kid) = Chain(w)[n]
  <2>1. Holders(w, kid) = {n} /\ Holder(w, kid) = n
    BY Zenon, <1>1, <1>2, Nesting
  <2> QED
    BY <2>1 DEF Outside
<1>4. Chain(w)[m] # Outside(w, kid) \o UuidsOf(w, inner)
  BY <1>1, <1>2 DEF Lacks
<1>5. CASE w.nodes[n].kind = "gpt"
  <2>1. Chain(w)[n] = Outside(w, n)
    BY <1>5, ChainEquation
  <2> QED
    BY <1>3, <1>4, <1>5, <2>1
<1>6. CASE w.nodes[n].kind # "gpt"
  <2>1. Chain(w)[n] = Append(Outside(w, n), Uuid(w, Head(path)))
    BY <1>6, ChainEquation
  <2>2. Append(Outside(w, n), Uuid(w, Head(path))) \o UuidsOf(w, Tail(path))
            = Outside(w, n) \o UuidsOf(w, path)
    <3>1. Outside(w, n) \in Seq(AllUuids(w))
      BY ChainsAreUuids
    <3>2. \A p \in DOMAIN w.partitions : Uuid(w, p) \in AllUuids(w)
      BY ChainsAreUuids
    <3> QED
      BY <3>1, <3>2, UuidsShift
  <2> QED
    BY <1>3, <1>4, <1>6, <2>1, <2>2
<1> QED
  BY <1>5, <1>6

\* A file system that is named, but not at the end of the path or without the file.
LEMMA LacksFile ==
  ASSUME NEW w, StorageIsNested(w), NEW n \in DOMAIN w.nodes, NEW name, NEW hidden,
         NEW path \in Seq(DOMAIN w.partitions),
         w.nodes[n].kind \in {"ext4", "fat"}, w.nodes[n].kids = <<>>,
         ~(Len(path) = 1 /\ name \in DOMAIN w.nodes[n].files)
  PROVE  Lacks(w, hidden, n, path, name)
<1> DEFINE o  == Outside(w, n)
           us == UuidsOf(w, path)
<1> SUFFICES ASSUME NEW m \in Below(w, n), name \in DOMAIN w.nodes[m].files,
                    Chain(w)[m] = o \o us
             PROVE  FALSE
  BY DEF Lacks
<1>1. m = n
  <2>1. Parts(w, n) = {}
    BY DEF Parts, Range
  <2> QED
    BY <2>1, BelowEquation
<1>2. /\ o \in Seq(AllUuids(w)) /\ w.nodes[n].uuid \in AllUuids(w) /\ Len(o) \in Nat
      /\ us \in Seq(AllUuids(w)) /\ Len(us) = Len(path) /\ Len(path) \in Nat
  BY ChainsAreUuids, UuidsOfPath
<1>3. Chain(w)[n] = Append(o, w.nodes[n].uuid)
  BY ChainEquation
<1>4. Chain(w)[n] = o \o us
  BY <1>1
<1> HIDE DEF o, us
<1>5. Len(Append(o, w.nodes[n].uuid)) = Len(o) + 1
  BY <1>2, AppendProperties
<1>6. Len(o \o us) = Len(o) + Len(us)
  BY <1>2, ConcatProperties
<1>7. Len(path) = 1
  BY <1>2, <1>3, <1>4, <1>5, <1>6
<1> QED
  BY <1>1, <1>7

\* The uuid that the path of p begins with.
First(w, p) == Head(UuidsOf(w, Path(w)[p]))

\* A partition begins where its parent does.
LEMMA FirstEquation ==
  ASSUME NEW w, ConfigIsWhole(w), PathsEnd(w), NEW p \in DOMAIN w.partitions
  PROVE  /\ Parent(w, p) = None => First(w, p) = Uuid(w, p)
         /\ Parent(w, p) # None => First(w, p) = First(w, Parent(w, p))
<1> DEFINE D == DOMAIN w.partitions
<1>1. CASE Parent(w, p) = None
  <2>1. UuidsOf(w, Path(w)[p]) = <<Uuid(w, p)>>
    BY <1>1, PlaceEquation
  <2> QED
    BY <1>1, <2>1 DEF First
<1>2. CASE Parent(w, p) # None
  <2> DEFINE q == Parent(w, p)
             s == Path(w)[q]
             a == Append(s, p)
             U == {Uuid(w, r) : r \in D}
  <2>1. q \in D /\ s \in Seq(D) \ {<<>>} /\ Path(w)[p] = a
    BY <1>2, PathEquation DEF ConfigIsWhole, Parent
  <2>2. ASSUME NEW t \in Seq(D), t # <<>>
        PROVE  Head(UuidsOf(w, t)) = Uuid(w, Head(t))
    <3>1. \A r \in D : Uuid(w, r) \in U
      OBVIOUS
    <3> HIDE DEF D, U
    <3>2. /\ UuidsOf(w, t) \in Seq(U) /\ Len(UuidsOf(w, t)) = Len(t)
          /\ \A i \in 1..Len(t) : UuidsOf(w, t)[i] = Uuid(w, t[i])
      BY Zenon, <2>2, <3>1, UuidsOfPath DEF D
    <3>3. Len(t) \in Nat \ {0} /\ Head(t) = t[1]
      BY <2>2, EmptySeq
    <3>4. UuidsOf(w, t)[1] = Uuid(w, t[1])
      BY <3>2, <3>3
    <3>5. Len(UuidsOf(w, t)) \in Nat \ {0} /\ UuidsOf(w, t) # <<>>
      BY <3>2, <3>3
    <3> QED
      BY <3>2, <3>3, <3>4, <3>5
  <2> HIDE DEF s
  <2>3. a \in Seq(D) /\ a # <<>> /\ Head(a) = Head(s)
    BY <2>1, HeadOfAppend, AppendProperties
  <2> HIDE DEF a, q
  <2>4. First(w, p) = Uuid(w, Head(a)) /\ First(w, q) = Uuid(w, Head(s))
    BY <2>1, <2>2, <2>3 DEF First, s
  <2> QED
    BY <1>2, <2>3, <2>4 DEF q
<1> QED
  BY <1>1, <1>2

\* Along a path from an outermost partition on everything begins with that.
LEMMA AlongFirst ==
  ASSUME NEW w, ConfigIsWhole(w), PathsEnd(w), NEW path, NEW file, Along(w, path, file)
  PROVE  First(w, file.partition) = First(w, Head(path))
<1> DEFINE n == Len(path)
           D == DOMAIN w.partitions
           B == {i \in 1..n : First(w, path[i]) # First(w, Head(path))}
<1>1. /\ path \in Seq(D) /\ n \in Nat \ {0} /\ path[n] = file.partition /\ Head(path) = path[1]
      /\ \A i \in 1..(n - 1) : Parent(w, path[i + 1]) = path[i]
      /\ \A i \in 1..n : path[i] \in D
  BY EmptySeq DEF Along
<1>2. B = {}
  <2> SUFFICES ASSUME B # {} PROVE FALSE
    OBVIOUS
  <2>1. PICK i \in B : \A j \in B : i <= j
    <3>1. B \in SUBSET Nat
      OBVIOUS
    <3> HIDE DEF B
    <3> QED
      BY <3>1, LeastNumber
  <2>2. i \in 1..n /\ i # 1 /\ First(w, path[i]) # First(w, Head(path))
    BY <1>1
  <2> HIDE DEF n
  <2>3. i - 1 \in 1..(n - 1) /\ i - 1 \in 1..n /\ (i - 1) + 1 = i
    BY <1>1, <2>2
  <2>4. First(w, path[i - 1]) = First(w, Head(path))
    BY <2>1, <2>3
  <2>5. Parent(w, path[i]) = path[i - 1] /\ path[i - 1] \in D /\ path[i] \in D
    BY <1>1, <2>2, <2>3
  <2>6. Parent(w, path[i]) # None
    BY <2>5 DEF ConfigIsWhole
  <2> QED
    BY <2>2, <2>4, <2>5, <2>6, FirstEquation
<1>3. n \in 1..n
  BY <1>1
<1> QED
  BY <1>1, <1>2, <1>3

\* A path that begins at a place of its own is that of the file.
LEMMA AlongPlace ==
  ASSUME NEW w, ConfigIsWhole(w), PathsEnd(w), NEW path, NEW file, Along(w, path, file),
         Place(w, Head(path)) = <<Uuid(w, Head(path))>>
  PROVE  Place(w, file.partition) = UuidsOf(w, path)
<1> DEFINE n == Len(path)
           D == DOMAIN w.partitions
           U == {Uuid(w, p) : p \in D}
           us == UuidsOf(w, path)
           Up(i) == /\ Place(w, path[i]) \in Seq(U) /\ Len(Place(w, path[i])) = i
                    /\ \A j \in 1..i : Place(w, path[i])[j] = us[j]
           B == {i \in 1..n : ~Up(i)}
<1>1. /\ path \in Seq(D) /\ n \in Nat \ {0} /\ path[n] = file.partition /\ Head(path) = path[1]
      /\ \A i \in 1..(n - 1) : Parent(w, path[i + 1]) = path[i]
      /\ \A i \in 1..n : path[i] \in D
  BY EmptySeq DEF Along
<1>2. us \in Seq(U) /\ Len(us) = n /\ \A i \in 1..n : us[i] = Uuid(w, path[i])
  <2>1. \A p \in D : Uuid(w, p) \in U
    OBVIOUS
  <2> HIDE DEF U
  <2> QED
    BY Zenon, <1>1, <2>1, UuidsOfPath
<1> HIDE DEF us
<1>3. Up(1)
  <2>1. path[1] \in D /\ us[1] = Uuid(w, path[1]) /\ Place(w, path[1]) = <<Uuid(w, path[1])>>
    BY <1>1, <1>2
  <2>2. Uuid(w, path[1]) \in U
    BY <2>1
  <2> DEFINE u == Uuid(w, path[1])
  <2> HIDE DEF u, U
  <2>3. <<u>> \in Seq(U) /\ Len(<<u>>) = 1 /\ \A j \in 1..1 : <<u>>[j] = u
    BY <2>2 DEF u
  <2> QED
    BY <2>1, <2>3 DEF u
<1>4. B = {}
  <2> SUFFICES ASSUME B # {} PROVE FALSE
    OBVIOUS
  <2> HIDE DEF Up
  <2>1. PICK i \in B : \A j \in B : i <= j
    <3>1. B \in SUBSET Nat
      OBVIOUS
    <3> HIDE DEF B
    <3> QED
      BY <3>1, LeastNumber
  <2>2. i \in 1..n /\ i # 1 /\ ~Up(i)
    BY <1>3
  <2> HIDE DEF n
  <2>3. i - 1 \in 1..(n - 1) /\ i - 1 \in 1..n /\ (i - 1) + 1 = i
    BY <1>1, <2>2
  <2>4. Up(i - 1)
    BY <2>1, <2>3
  <2>5. Parent(w, path[i]) = path[i - 1] /\ path[i - 1] \in D /\ path[i] \in D
    BY <1>1, <2>2, <2>3
  <2>6. Parent(w, path[i]) # None
    BY <2>5 DEF ConfigIsWhole
  <2>7. Place(w, path[i]) = Append(Place(w, path[i - 1]), Uuid(w, path[i]))
    BY <2>5, <2>6, PlaceEquation
  <2> DEFINE s == Place(w, path[i - 1])
             u == Uuid(w, path[i])
  <2>8. u \in U /\ us[i] = u
    BY <1>2, <2>2, <2>5
  <2>9. s \in Seq(U) /\ Len(s) = i - 1 /\ \A j \in 1..(i - 1) : s[j] = us[j]
    BY <2>4 DEF Up
  <2> HIDE DEF s, u, U
  <2>10. /\ Append(s, u) \in Seq(U) /\ Len(Append(s, u)) = i
         /\ Append(s, u)[i] = u /\ \A j \in 1..(i - 1) : Append(s, u)[j] = s[j]
    BY <2>2, <2>8, <2>9, AppendProperties
  <2>11. \A j \in 1..i : Append(s, u)[j] = us[j]
    BY <2>2, <2>8, <2>9, <2>10
  <2>12. Up(i)
    BY <2>7, <2>10, <2>11 DEF Up, s, u
  <2> QED
    BY <2>2, <2>12
<1>5. Up(n)
  <2>1. n \in 1..n
    BY <1>1
  <2> QED
    BY <1>4, <2>1
<1> HIDE DEF n
<1>6. Place(w, path[n]) = us
  BY <1>2, <1>5, SeqEqual DEF n
<1> QED
  BY <1>1, <1>6 DEF us

\* The drive that the path of the file begins with, if it does, is there for n.
OnItsDrive(w, file, n) ==
    First(w, file.partition) \in SerialsOf(w) =>
        \E e \in 1..Len(w.drives) :
            w.drives[e].root = Root(w)[n] /\ w.drives[e].serial = First(w, file.partition)

\* No copy of the file is on drive d, but for those in hidden.
DriveLacks(w, hidden, file, d) ==
    \A n \in DOMAIN w.nodes \ hidden :
        Root(w)[n] = w.drives[d].root => ~(IsCopy(w, file, n) /\ OnItsDrive(w, file, n))

\* A LUKS device holds one device and a file system none; a drive of another kind has no
\* serial number of those that are looked for; and what is on a drive that the config
\* looks into is on no drive with another serial number.
Exact(w) ==
    /\ \A n \in DOMAIN w.nodes : w.nodes[n].kind = "luks" => Len(w.nodes[n].kids) = 1
    /\ \A n \in DOMAIN w.nodes : w.nodes[n].kind \in {"ext4", "fat"} => w.nodes[n].kids = <<>>
    /\ \A d \in 1..Len(w.drives) :
          w.drives[d].bus \in {"nvme", "ata"} \/ w.drives[d].serial \notin SerialsOf(w)
    /\ \A p \in DOMAIN w.partitions : \A d, e \in 1..Len(w.drives) :
          /\ Parent(w, p) # None /\ Uuid(w, Parent(w, p)) = w.drives[d].serial
          /\ w.drives[d].root = w.drives[e].root /\ w.drives[d].root # None
             => w.drives[d].serial = w.drives[e].serial

\* A file on a drive itself has no copies.
LEMMA NoCopies ==
  ASSUME NEW w, ConfigIsWhole(w), StorageIsNested(w), Orderly(w), NEW path, NEW file,
         Along(w, path, file), Len(path) = 1, Uuid(w, Head(path)) \in SerialsOf(w), NEW n
  PROVE  ~IsCopy(w, file, n)
<1> SUFFICES ASSUME IsCopy(w, file, n) PROVE FALSE
  OBVIOUS
<1> DEFINE p == Head(path)
<1>1. p \in DOMAIN w.partitions /\ file.partition = p
  BY AlongTail
<1>2. Place(w, p) = <<>>
  <2>1. UuidsOf(w, Path(w)[p]) = <<Uuid(w, p)>>
    BY <1>1, PlaceEquation DEF Orderly
  <2> QED
    BY <2>1 DEF Place, InnerOf
<1>3. Chain(w)[n] = Append(Outside(w, n), w.nodes[n].uuid) /\ n \in DOMAIN w.nodes
  BY ChainEquation DEF IsCopy
<1>4. Chain(w)[n] # <<>>
  <2>1. Outside(w, n) \in Seq(AllUuids(w)) /\ w.nodes[n].uuid \in AllUuids(w)
    BY <1>3, ChainsAreUuids
  <2> QED
    BY <1>3, <2>1, AppendProperties
<1> QED
  BY <1>1, <1>2, <1>4 DEF IsCopy

\* A drive with another serial number than the one that is looked for.
LEMMA LacksUnnamed ==
  ASSUME NEW w, ConfigIsWhole(w), StorageIsNested(w), Orderly(w), Exact(w),
         NEW path, NEW file, Along(w, path, file), Uuid(w, Head(path)) \in SerialsOf(w),
         NEW d \in 1..Len(w.drives), w.drives[d].serial # Uuid(w, Head(path)), NEW hidden
  PROVE  DriveLacks(w, hidden, file, d)
<1> DEFINE p == Head(path)
           q == Head(Tail(path))
           u == Uuid(w, p)
<1> SUFFICES ASSUME NEW n \in DOMAIN w.nodes, Root(w)[n] = w.drives[d].root,
                    IsCopy(w, file, n), OnItsDrive(w, file, n)
             PROVE  FALSE
  BY DEF DriveLacks
<1>1. p \in DOMAIN w.partitions /\ Parent(w, p) = None
  BY AlongTail DEF Orderly
<1>2. First(w, file.partition) = u
  BY <1>1, AlongFirst, FirstEquation DEF Orderly
<1>3. PICK e \in 1..Len(w.drives) : w.drives[e].root = Root(w)[n] /\ w.drives[e].serial = u
  BY <1>2 DEF OnItsDrive
<1>4. Len(path) # 1
  BY NoCopies
<1>5. q \in DOMAIN w.partitions /\ Parent(w, q) = p
  BY <1>4, AlongTail
<1>6. Parent(w, q) # None
  BY <1>1, <1>5 DEF ConfigIsWhole
<1>7. w.drives[e].root # None
  <2>1. None \notin DOMAIN w.nodes
    BY DEF StorageIsNested
  <2>2. Root(w)[n] \in DOMAIN w.nodes
    BY BelowRoot
  <2> QED
    BY <1>3, <2>1, <2>2
<1> HIDE DEF p, q, u
<1>8. w.drives[e].serial = w.drives[d].serial
  <2>1. Uuid(w, Parent(w, q)) = w.drives[e].serial
    BY <1>3, <1>5 DEF u
  <2>2. w.drives[e].root = w.drives[d].root
    BY <1>3
  <2> QED
    BY Zenon, <1>3, <1>5, <1>6, <1>7, <2>1, <2>2 DEF Exact
<1> QED
  BY <1>3, <1>8 DEF u, p

\* A drive in which the probe found nothing.
LEMMA LacksProbed ==
  ASSUME NEW w, ConfigIsWhole(w), StorageIsNested(w), Orderly(w), NEW path, NEW file,
         Along(w, path, file), Belongs(w, <<>>, Head(path)), Uuid(w, Head(path)) \notin SerialsOf(w),
         NEW hidden, NEW d \in 1..Len(w.drives),
         Lacks(w, hidden, w.drives[d].root, path, file.file)
  PROVE  DriveLacks(w, hidden, file, d)
<1> DEFINE r  == w.drives[d].root
           us == UuidsOf(w, path)
<1> SUFFICES ASSUME NEW n \in DOMAIN w.nodes, n \notin hidden, Root(w)[n] = r, IsCopy(w, file, n)
             PROVE  FALSE
  BY DEF DriveLacks
<1>1. r \in DOMAIN w.nodes /\ r # None /\ n \in Below(w, r)
  <2>1. None \notin DOMAIN w.nodes
    BY DEF StorageIsNested
  <2>2. Root(w)[n] \in DOMAIN w.nodes /\ n \in Below(w, Root(w)[n])
    BY BelowRoot
  <2> QED
    BY <2>1, <2>2
<1>2. Outside(w, r) = <<>>
  <2>1. DOMAIN w.drives = 1..Len(w.drives)
    <3>1. w.drives \in Seq(Range(w.drives))
      BY DEF StorageIsNested
    <3> QED
      BY <3>1
  <2>2. \A m \in DOMAIN w.nodes : r \notin Parts(w, m)
    BY <2>1 DEF StorageIsNested
  <2>3. Holders(w, r) = {}
    BY <2>2 DEF Holders, Parts
  <2> QED
    BY <2>3 DEF Outside
<1>3. Chain(w)[n] = us
  <2>1. Append(<<>>, Uuid(w, Head(path))) = <<Uuid(w, Head(path))>>
    OBVIOUS
  <2>2. Place(w, Head(path)) = <<Uuid(w, Head(path))>>
    BY <2>1 DEF Belongs
  <2>3. Place(w, file.partition) = us
    BY <2>2, AlongPlace DEF Orderly
  <2> QED
    BY <2>3 DEF IsCopy
<1>4. <<>> \o us = us
  <2>1. us \in Seq(AllUuids(w))
    BY ChainsAreUuids, UuidsOfPath DEF Along
  <2> HIDE DEF us
  <2> QED
    BY <2>1, ConcatEmptySeq
<1> HIDE DEF r, us
<1>5. Lacks(w, hidden, r, path, file.file)
  BY DEF r
<1>6. Chain(w)[n] # Outside(w, r) \o us
  BY <1>1, <1>5 DEF Lacks, IsCopy, us
<1> QED
  BY <1>2, <1>3, <1>4, <1>6

\* What search j could not look into on drive d, and what is stored in it.
Unseen(w, m, j, d) ==
    UNION {Below(w, x) : x \in {y \in DOMAIN w.nodes : <<j, d, y>> \in m}}

\* Every search remembers what it could not look into.
Kept(j, m, more) == \A d, x : <<j, d, x>> \in m => <<j, d, x>> \in more
Grows == \A j \in 1..Len(stack) : stack[j].fn = "find_read_file" => Kept(j, missed, missed')

LEMMA UnseenMore ==
  ASSUME NEW w, NEW m, NEW more, NEW j, Kept(j, m, more), NEW d
  PROVE  Unseen(w, m, j, d) \subseteq Unseen(w, more, j, d)
BY DEF Unseen, Kept

LEMMA DriveLacksMore ==
  ASSUME NEW w, NEW hidden, NEW more, hidden \subseteq more, NEW file, NEW d,
         DriveLacks(w, hidden, file, d)
  PROVE  DriveLacks(w, more, file, d)
BY DEF DriveLacks

\* A drive that could not be looked at.
LEMMA LacksMissed ==
  ASSUME NEW w, StorageIsNested(w), NEW m, NEW j, NEW d, <<j, d, w.drives[d].root>> \in m, NEW file
  PROVE  DriveLacks(w, Unseen(w, m, j, d), file, d)
<1> SUFFICES ASSUME NEW n \in DOMAIN w.nodes, Root(w)[n] = w.drives[d].root
             PROVE  n \in Unseen(w, m, j, d)
  BY DEF DriveLacks
<1> DEFINE r == w.drives[d].root
<1>1. r \in DOMAIN w.nodes /\ n \in Below(w, r)
  BY BelowRoot
<1> HIDE DEF r
<1>2. <<j, d, r>> \in m
  BY DEF r
<1> QED
  BY <1>1, <1>2 DEF Unseen

\* The device that a search is at.  The search that p is part of is in frame j, and what
\* that could not look into on this device is dark to p.
Here(f) == f.devices[f.i]
Within(s, j, p) ==
    s[j].fn = "find_read_file" /\ \A k \in (j + 1)..p : s[k].fn = "find_read_file_internal"
Dark(w, s, m, p) ==
    {n \in DOMAIN w.nodes : \A j \in 1..p : Within(s, j, p) => n \in Unseen(w, m, j, Here(s[j]))}

LEMMA DarkOfSearch ==
  ASSUME NEW w, NEW s, NEW m, NEW p \in Nat \ {0}, s[p].fn = "find_read_file"
  PROVE  Dark(w, s, m, p) = Unseen(w, m, p, Here(s[p]))
<1>1. Within(s, p, p) /\ p \in 1..p
  BY DEF Within
<1>2. ASSUME NEW j \in 1..p, Within(s, j, p) PROVE j = p
  <2>1. j # p => p \in (j + 1)..p
    OBVIOUS
  <2> QED
    BY <1>2, <2>1 DEF Within
<1>3. Unseen(w, m, p, Here(s[p])) \subseteq DOMAIN w.nodes
  BY DEF Unseen, Below
<1> QED
  BY <1>1, <1>2, <1>3 DEF Dark

LEMMA DarkOfProbe ==
  ASSUME NEW w, NEW s, NEW m, NEW p \in Nat, p > 1, s[p].fn = "find_read_file_internal"
  PROVE  Dark(w, s, m, p) = Dark(w, s, m, p - 1)
<1>1. ASSUME NEW j \in 1..p, Within(s, j, p) PROVE j \in 1..(p - 1) /\ Within(s, j, p - 1)
  BY <1>1 DEF Within
<1>2. ASSUME NEW j \in 1..(p - 1), Within(s, j, p - 1) PROVE j \in 1..p /\ Within(s, j, p)
  <2>1. \A k \in (j + 1)..p : k = p \/ k \in (j + 1)..(p - 1)
    OBVIOUS
  <2> QED
    BY <1>2, <2>1 DEF Within
<1> QED
  BY <1>1, <1>2 DEF Dark

LEMMA DarkMore ==
  ASSUME NEW w, NEW s, NEW t, NEW m, NEW more, NEW p \in Nat, \A k \in 1..p : t[k] = s[k],
         \A j \in 1..p : s[j].fn = "find_read_file" => Kept(j, m, more)
  PROVE  Dark(w, s, m, p) \subseteq Dark(w, t, more, p)
<1> SUFFICES ASSUME NEW n \in Dark(w, s, m, p), NEW j \in 1..p, Within(t, j, p)
             PROVE  n \in Unseen(w, more, j, Here(t[j]))
  BY DEF Dark
<1>1. t[j] = s[j] /\ s[j].fn = "find_read_file" /\ Within(s, j, p)
  BY DEF Within
<1>2. n \in Unseen(w, m, j, Here(s[j])) /\ Kept(j, m, more)
  BY <1>1 DEF Dark
<1> QED
  BY <1>1, <1>2, UnseenMore

\* A search has every drive on its list or could not look at it; it has gone through the
\* devices before the one it is at; and none of them is the one that is named, as long as
\* that is looked for.
SearchThorough(w, m, j, f) ==
    /\ \A d \in 1..Len(w.drives) :
          <<j, d, w.drives[d].root>> \in m \/ \E k \in 1..Len(f.devices) : f.devices[k] = d
    /\ \A k \in 1..Len(f.devices) : k < f.i =>
          DriveLacks(w, Unseen(w, m, j, f.devices[k]), f.file, f.devices[k])
    /\ Uuid(w, Head(f.path)) \in SerialsOf(w) =>
          \A k \in 1..Len(f.devices) :
              k < f.i \/ (k = f.i /\ f.at \in {"open", "probing"}) =>
                  w.drives[f.devices[k]].serial # Uuid(w, Head(f.path))

\* What a probe looks at next, and with which path.
Kid(w, f) == IF w.nodes[f.node].kind = "luks" THEN w.nodes[f.node].kids[1]
             ELSE w.nodes[f.node].kids[f.kid]
Deeper(w, f) == IF w.nodes[f.node].kind = "gpt" THEN f.path ELSE Tail(f.path)

\* A probe has gone through the volumes before the one it is at.
ProbeThorough(w, hidden, f) ==
    f.node # None /\ w.nodes[f.node].kind \in {"lvm", "gpt"} =>
        \A j \in DOMAIN w.nodes[f.node].kids : j < f.kid =>
            Lacks(w, hidden, w.nodes[f.node].kids[j], Deeper(w, f), f.file.file)

\* A probe looks at what its caller, in frame q, is at; of a device that is locked that is
\* nothing, and the search knows.
MissedRoot(w, m, q, c) == <<q, Here(c), w.drives[Here(c)].root>> \in m
Leads(w, m, q, c, f) ==
    \/ /\ c.fn = "find_read_file" /\ f.path = c.path
       /\ f.node = w.drives[Here(c)].root \/ (f.node = None /\ MissedRoot(w, m, q, c))
    \/ c.fn = "find_read_file_internal" /\ c.node # None /\ f.path = Deeper(w, c) /\ f.node = Kid(w, c)

ThoroughAt(w, s, m, p) ==
    /\ s[p].fn = "find_read_file" => SearchThorough(w, m, p, s[p])
    /\ s[p].fn = "find_read_file_internal" =>
          ProbeThorough(w, Dark(w, s, m, p), s[p]) /\ Leads(w, m, p - 1, s[p - 1], s[p])

\* Who looks into something and is told of an error: it has no copy, but for what is dark.
ErrSays(w, s, m, p) ==
    /\ s[p].fn = "find_read_file" /\ s[p].at = "probing" =>
          \/ Lacks(w, Dark(w, s, m, p), w.drives[Here(s[p])].root, s[p].path, s[p].file.file)
          \/ MissedRoot(w, m, p, s[p])
    /\ s[p].fn = "find_read_file_internal" /\ s[p].at # "password" =>
          Lacks(w, Dark(w, s, m, p), Kid(w, s[p]), Deeper(w, s[p]), s[p].file.file)

StackThorough(w, s, m, r) ==
    /\ \A p \in 1..Len(s) : ThoroughAt(w, s, m, p)
    /\ r = Err /\ r # None => ErrSays(w, s, m, Len(s))

Thorough == StackThorough(world, stack, missed, ret)
Careful == InOrder /\ Exact(world) /\ Thorough /\ Grows
StaysThorough == StackThorough(world, stack', missed', ret')

LEMMA SearchThoroughMore ==
  ASSUME NEW w, NEW m, NEW more, NEW j, Kept(j, m, more), NEW f, SearchThorough(w, m, j, f)
  PROVE  SearchThorough(w, more, j, f)
<1>1. \A d \in 1..Len(w.drives) :
          <<j, d, w.drives[d].root>> \in more \/ \E k \in 1..Len(f.devices) : f.devices[k] = d
  BY DEF SearchThorough, Kept
<1>2. ASSUME NEW k \in 1..Len(f.devices), k < f.i
      PROVE  DriveLacks(w, Unseen(w, more, j, f.devices[k]), f.file, f.devices[k])
  <2>1. DriveLacks(w, Unseen(w, m, j, f.devices[k]), f.file, f.devices[k])
    BY <1>2 DEF SearchThorough
  <2> QED
    BY <2>1, UnseenMore, DriveLacksMore
<1> QED
  BY <1>1, <1>2 DEF SearchThorough

LEMMA ProbeThoroughMore ==
  ASSUME NEW w, NEW hidden, NEW more, hidden \subseteq more, NEW f, ProbeThorough(w, hidden, f)
  PROVE  ProbeThorough(w, more, f)
BY LacksMore DEF ProbeThorough

LEMMA LeadsMore ==
  ASSUME NEW w, NEW m, NEW more, NEW q, NEW c, c.fn = "find_read_file" => Kept(q, m, more),
         NEW f, Leads(w, m, q, c, f)
  PROVE  Leads(w, more, q, c, f)
BY DEF Leads, Kept, MissedRoot

\* What is said of a frame holds on as long as nothing changes up to there.
LEMMA ThoroughMore ==
  ASSUME NEW w, NEW s, NEW t, NEW m, NEW more, NEW p \in Nat \ {0}, \A k \in 1..p : t[k] = s[k],
         \A j \in 1..p : s[j].fn = "find_read_file" => Kept(j, m, more), s[1].fn = "main",
         ThoroughAt(w, s, m, p)
  PROVE  ThoroughAt(w, t, more, p) /\ (ErrSays(w, s, m, p) => ErrSays(w, t, more, p))
<1>1. t[p] = s[p] /\ p \in 1..p
  OBVIOUS
<1>2. Dark(w, s, m, p) \subseteq Dark(w, t, more, p)
  BY DarkMore
<1>3. s[p].fn = "find_read_file" => SearchThorough(w, more, p, s[p])
  BY <1>1, SearchThoroughMore DEF ThoroughAt
<1>4. ASSUME s[p].fn = "find_read_file_internal"
      PROVE  ProbeThorough(w, Dark(w, t, more, p), s[p]) /\ Leads(w, more, p - 1, t[p - 1], s[p])
  <2>1. ProbeThorough(w, Dark(w, s, m, p), s[p]) /\ Leads(w, m, p - 1, s[p - 1], s[p])
    BY <1>4 DEF ThoroughAt
  <2>2. p - 1 \in 1..p
    BY <1>4
  <2>3. t[p - 1] = s[p - 1] /\ (s[p - 1].fn = "find_read_file" => Kept(p - 1, m, more))
    BY <2>2
  <2>4. ProbeThorough(w, Dark(w, t, more, p), s[p])
    BY <1>2, <2>1, ProbeThoroughMore
  <2>5. Leads(w, more, p - 1, s[p - 1], s[p])
    BY <2>1, <2>3, LeadsMore
  <2> QED
    BY <2>3, <2>4, <2>5
<1>5. ASSUME ErrSays(w, s, m, p) PROVE ErrSays(w, t, more, p)
  <2>1. MissedRoot(w, m, p, s[p]) /\ s[p].fn = "find_read_file" => MissedRoot(w, more, p, s[p])
    BY <1>1 DEF MissedRoot, Kept
  <2>2. \A n, path, name : Lacks(w, Dark(w, s, m, p), n, path, name) =>
            Lacks(w, Dark(w, t, more, p), n, path, name)
    BY <1>2, LacksMore
  <2> QED
    BY <1>1, <1>5, <2>1, <2>2 DEF ErrSays
<1> QED
  BY <1>1, <1>3, <1>4, <1>5 DEF ThoroughAt

\* The running function and those below it.
LEMMA TopThorough ==
  ASSUME Careful
  PROVE  /\ IsSequence(stack) /\ stack # <<>> /\ Top = stack[Len(stack)]
         /\ Len(stack) \in Nat \ {0} /\ Good /\ Frame(world, Top) /\ stack[1].fn = "main"
         /\ Len(stack) > 1 => Calls(world, stack[Len(stack) - 1], Top)
         /\ Top.fn = "main" <=> Len(stack) = 1
         /\ ThoroughAt(world, stack, missed, Len(stack))
         /\ ret = Err /\ ret # None => ErrSays(world, stack, missed, Len(stack))
         /\ StorageIsNested(world) /\ ConfigIsWhole(world)
<1> DEFINE n == Len(stack)
<1>1. /\ IsSequence(stack) /\ stack # <<>> /\ Top = stack[n] /\ n \in Nat \ {0} /\ Good
      /\ Frame(world, Top) /\ (Top.fn = "main" <=> n = 1)
      /\ n > 1 => Calls(world, stack[n - 1], Top)
  BY TopFrame, DepthAssumption DEF Careful, InOrder, Typed
<1>2. n \in 1..n /\ 1 \in 1..n
  BY <1>1
<1>3. stack[1].fn = "main"
  BY <1>1, <1>2 DEF Good, StackOK
<1>4. /\ ThoroughAt(world, stack, missed, n)
      /\ ret = Err /\ ret # None => ErrSays(world, stack, missed, n)
  BY <1>2 DEF Careful, Thorough, StackThorough
<1>5. StorageIsNested(world) /\ ConfigIsWhole(world)
  BY TopInPlace DEF Careful
<1> QED
  BY <1>1, <1>3, <1>4, <1>5

\* The frames below the running one stay as they are.
LEMMA ThoroughBelow ==
  ASSUME Careful, \A j \in 1..(Len(stack) - 1) : stack'[j] = stack[j],
         NEW p \in 1..(Len(stack) - 1)
  PROVE  /\ ThoroughAt(world, stack', missed', p)
         /\ Dark(world, stack, missed, p) \subseteq Dark(world, stack', missed', p)
<1> DEFINE n == Len(stack)
           t == stack'
           more == missed'
<1>1. /\ n \in Nat \ {0} /\ p \in Nat \ {0} /\ p \in 1..n /\ stack[1].fn = "main"
      /\ \A k \in 1..p : k \in 1..(n - 1) /\ k \in 1..n
  BY TopThorough
<1>2. \A k \in 1..p : t[k] = stack[k]
  BY <1>1
<1>3. \A j \in 1..p : stack[j].fn = "find_read_file" => Kept(j, missed, more)
  BY <1>1 DEF Careful, Grows
<1>4. ThoroughAt(world, stack, missed, p)
  BY <1>1 DEF Careful, Thorough, StackThorough
<1> HIDE DEF n, t, more
<1>5. ThoroughAt(world, t, more, p)
  BY <1>1, <1>2, <1>3, <1>4, ThoroughMore
<1>6. Dark(world, stack, missed, p) \subseteq Dark(world, t, more, p)
  BY <1>1, <1>2, <1>3, DarkMore
<1> QED
  BY <1>5, <1>6 DEF t, more

LEMMA ThoroughSame ==
  ASSUME Careful, stack' = stack, ret' \in {ret, None}
  PROVE  StaysThorough
<1> DEFINE n == Len(stack)
           more == missed'
<1>1. n \in Nat \ {0} /\ stack[1].fn = "main"
  BY TopThorough
<1> HIDE DEF n, more
<1>2. ASSUME NEW p \in 1..n
      PROVE  /\ ThoroughAt(world, stack, more, p)
             /\ ErrSays(world, stack, missed, p) => ErrSays(world, stack, more, p)
  <2>1. p \in Nat \ {0} /\ \A k \in 1..p : k \in 1..n
    BY <1>1
  <2>2. \A j \in 1..p : stack[j].fn = "find_read_file" => Kept(j, missed, more)
    BY <2>1 DEF Careful, Grows, n, more
  <2>3. ThoroughAt(world, stack, missed, p)
    BY DEF Careful, Thorough, StackThorough, n
  <2> QED
    BY <1>1, <2>1, <2>2, <2>3, ThoroughMore
<1>3. ret' = Err /\ ret' # None => ErrSays(world, stack, more, n)
  <2>1. n \in 1..n
    BY <1>1
  <2> QED
    BY <1>2, <2>1, TopThorough DEF n
<1> QED
  BY <1>2, <1>3 DEF StaysThorough, StackThorough, n, more

LEMMA ThoroughHalt == ASSUME Careful, NEW how, Halt(how) PROVE StaysThorough
BY ThoroughSame DEF Halt

\* What is said of the running function before it is said of the frame in its place.
Carries(f) ==
    /\ f.fn = "find_read_file" => SearchThorough(world, missed', Len(stack), f)
    /\ f.fn = "find_read_file_internal" =>
          /\ Top.fn = "find_read_file_internal" /\ f.path = Top.path /\ f.node = Top.node
          /\ ProbeThorough(world, Dark(world, stack, missed, Len(stack)), f)

\* What is dark to a probe is dark to its caller too.
LEMMA DarkToCaller ==
  ASSUME Careful, Top.fn = "find_read_file_internal",
         NEW t, \A j \in 1..(Len(stack) - 1) : t[j] = stack[j]
  PROVE  /\ Len(stack) > 1 /\ Len(stack) - 1 \in 1..(Len(stack) - 1)
         /\ Dark(world, stack, missed, Len(stack)) \subseteq Dark(world, t, missed', Len(stack) - 1)
<1> DEFINE n == Len(stack)
           q == n - 1
           more == missed'
<1>1. n \in Nat \ {0} /\ n # 1 /\ Top = stack[n]
  BY TopThorough
<1> HIDE DEF n, more
<1>2. n > 1 /\ q \in 1..q /\ q \in Nat \ {0} /\ \A k \in 1..q : k \in 1..n
  BY <1>1
<1>3. \A k \in 1..q : t[k] = stack[k]
  BY DEF n
<1>4. \A j \in 1..q : stack[j].fn = "find_read_file" => Kept(j, missed, more)
  BY <1>2 DEF Careful, Grows, n, more
<1>5. Dark(world, stack, missed, n) = Dark(world, stack, missed, q)
  BY <1>1, <1>2, DarkOfProbe
<1> HIDE DEF q
<1>6. Dark(world, stack, missed, q) \subseteq Dark(world, t, more, q)
  BY <1>2, <1>3, <1>4, DarkMore
<1> QED
  BY <1>2, <1>5, <1>6 DEF n, q, more

LEMMA TopGoes ==
  ASSUME Careful, NEW f, Carries(f), NEW t, t[Len(stack)] = f,
         \A j \in 1..(Len(stack) - 1) : t[j] = stack[j]
  PROVE  ThoroughAt(world, t, missed', Len(stack))
<1> DEFINE n == Len(stack)
           more == missed'
<1>1. n \in Nat \ {0} /\ Top = stack[n] /\ ThoroughAt(world, stack, missed, n)
  BY TopThorough
<1>2. CASE f.fn = "find_read_file_internal"
  <2>1. /\ Top.fn = "find_read_file_internal" /\ f.path = Top.path /\ f.node = Top.node
        /\ ProbeThorough(world, Dark(world, stack, missed, n), f)
    BY <1>2 DEF Carries
  <2>2. n > 1 /\ n - 1 \in 1..(n - 1)
        /\ Dark(world, stack, missed, n) \subseteq Dark(world, t, more, n - 1)
    BY <2>1, DarkToCaller
  <2>3. t[n - 1] = stack[n - 1] /\ (stack[n - 1].fn = "find_read_file" => Kept(n - 1, missed, more))
    <3>1. n - 1 \in 1..n
      BY <1>1, <2>2
    <3> QED
      BY <2>2, <3>1 DEF Careful, Grows
  <2> HIDE DEF n, more
  <2>4. Dark(world, t, more, n) = Dark(world, t, more, n - 1)
    BY <1>1, <1>2, <2>2, DarkOfProbe DEF n
  <2>5. ProbeThorough(world, Dark(world, t, more, n), f)
    BY <2>1, <2>2, <2>4, ProbeThoroughMore
  <2>6. Leads(world, missed, n - 1, stack[n - 1], Top)
    BY <1>1, <2>1 DEF ThoroughAt
  <2>7. Leads(world, more, n - 1, stack[n - 1], Top)
    BY <2>3, <2>6, LeadsMore
  <2>8. Leads(world, more, n - 1, t[n - 1], f)
    BY <2>1, <2>3, <2>7 DEF Leads
  <2>9. ThoroughAt(world, t, more, n)
    BY <1>2, <2>5, <2>8 DEF ThoroughAt, n
  <2> QED
    BY <2>9 DEF n, more
<1>3. CASE f.fn # "find_read_file_internal"
  BY <1>3 DEF Carries, ThoroughAt
<1> QED
  BY <1>2, <1>3

LEMMA ThoroughBecome ==
  ASSUME Careful, NEW f, Become(f), Carries(f)
  PROVE  StaysThorough
<1> DEFINE n == Len(stack)
           t == stack'
           more == missed'
<1>1. n \in Nat \ {0} /\ Len(t) = n /\ t[n] = f /\ \A j \in 1..(n - 1) : t[j] = stack[j]
  BY TopThorough, BecomeStack
<1>2. ret' = None
  BY DEF Become
<1>3. ThoroughAt(world, t, more, n)
  <2> HIDE DEF t
  <2> QED
    BY <1>1, TopGoes
<1>4. \A p \in 1..(n - 1) : ThoroughAt(world, t, more, p)
  BY <1>1, ThoroughBelow
<1> HIDE DEF n, t, more
<1>5. \A p \in 1..n : p = n \/ p \in 1..(n - 1)
  BY <1>1
<1> QED
  BY <1>1, <1>2, <1>3, <1>4, <1>5 DEF StaysThorough, StackThorough, t, more

LEMMA ThoroughCall ==
  ASSUME Careful, NEW f, NEW g, Call(f, g), Carries(f),
         g.fn = "find_read_file" => SearchThorough(world, missed', Len(stack) + 1, g),
         g.fn = "find_read_file_internal" =>
             (\A hidden : ProbeThorough(world, hidden, g)) /\ Leads(world, missed', Len(stack), f, g)
  PROVE  StaysThorough
<1> DEFINE n == Len(stack)
           t == stack'
           more == missed'
<1>1. CASE ~(n < MaxDepth)
  BY <1>1, ThoroughSame DEF Call
<1>2. CASE n < MaxDepth
  <2>1. /\ n \in Nat \ {0} /\ Len(t) = n + 1 /\ t[n] = f /\ t[n + 1] = g
        /\ \A j \in 1..(n - 1) : t[j] = stack[j]
    BY <1>2, TopThorough, CallStack
  <2>2. ret' = None
    BY DEF Call
  <2>3. ThoroughAt(world, t, more, n)
    <3> HIDE DEF t
    <3> QED
      BY <2>1, TopGoes
  <2>4. \A p \in 1..(n - 1) : ThoroughAt(world, t, more, p)
    BY <2>1, ThoroughBelow
  <2> HIDE DEF n, t, more
  <2>5. ThoroughAt(world, t, more, n + 1)
    <3>1. (n + 1) - 1 = n
      BY <2>1
    <3> QED
      BY <2>1, <3>1 DEF ThoroughAt, n, more
  <2>6. \A p \in 1..(n + 1) : p = n \/ p = n + 1 \/ p \in 1..(n - 1)
    BY <2>1
  <2> QED
    BY <2>1, <2>2, <2>3, <2>4, <2>5, <2>6 DEF StaysThorough, StackThorough, t, more
<1> QED
  BY <1>1, <1>2

\* Only a probe has to tell what its error means.
LEMMA ErrorsOfProbes ==
  ASSUME NEW w, NEW s, NEW m, NEW p, NEW f, Calls(w, s[p], f),
         f.fn = "find_read_file_internal" =>
             Leads(w, m, p, s[p], f) /\ Lacks(w, Dark(w, s, m, p), f.node, f.path, f.file.file)
  PROVE  ErrSays(w, s, m, p)
<1> DEFINE c == s[p]
<1>1. CASE f.fn # "find_read_file_internal"
  BY <1>1 DEF Calls, WaitsFor, ErrSays
<1>2. CASE f.fn = "find_read_file_internal"
  <2>1. /\ Leads(w, m, p, c, f) /\ Lacks(w, Dark(w, s, m, p), f.node, f.path, f.file.file)
        /\ c.file = f.file
    BY <1>2 DEF Calls
  <2>2. CASE c.fn = "find_read_file"
    BY <2>1, <2>2 DEF Leads, ErrSays
  <2>3. CASE c.fn = "find_read_file_internal"
    BY <2>1, <2>3 DEF Leads, ErrSays
  <2> QED
    BY <2>2, <2>3 DEF ErrSays
<1> QED
  BY <1>1, <1>2

LEMMA ThoroughReturn ==
  ASSUME Careful, NEW r, Return(r), Top.fn # "main",
         r = Err /\ Top.fn = "find_read_file_internal" =>
             Lacks(world, Dark(world, stack', missed', Len(stack) - 1), Top.node, Top.path,
                   Top.file.file)
  PROVE  StaysThorough
<1> DEFINE n == Len(stack)
           t == stack'
           more == missed'
           q == ret'
<1>1. /\ n \in Nat \ {0} /\ n # 1 /\ Top = stack[n] /\ ThoroughAt(world, stack, missed, n)
      /\ Len(t) = n - 1 /\ \A j \in 1..(n - 1) : t[j] = stack[j]
  BY TopThorough, ReturnStack
<1>2. q = r
  BY DEF Return
<1>3. \A p \in 1..(n - 1) : ThoroughAt(world, t, more, p)
  BY <1>1, ThoroughBelow
<1>4. n > 1 /\ n - 1 \in 1..(n - 1) /\ n - 1 \in 1..n
  <2> HIDE DEF n
  <2> QED
    BY <1>1
<1>5. Calls(world, t[n - 1], Top)
  BY <1>1, <1>4, TopThorough
<1>6. stack[n - 1].fn = "find_read_file" => Kept(n - 1, missed, more)
  BY <1>4 DEF Careful, Grows
<1>7. r = Err => ErrSays(world, t, more, n - 1)
  <2> SUFFICES ASSUME r = Err PROVE ErrSays(world, t, more, n - 1)
    OBVIOUS
  <2> HIDE DEF n, t, more
  <2>1. ASSUME Top.fn = "find_read_file_internal" PROVE Leads(world, more, n - 1, t[n - 1], Top)
    <3>1. Leads(world, missed, n - 1, stack[n - 1], Top)
      BY <1>1, <2>1 DEF ThoroughAt
    <3>2. Leads(world, more, n - 1, stack[n - 1], Top)
      BY <1>6, <3>1, LeadsMore
    <3> QED
      BY <1>1, <1>4, <3>2
  <2>2. Top.fn = "find_read_file_internal" =>
            Lacks(world, Dark(world, t, more, n - 1), Top.node, Top.path, Top.file.file)
    BY DEF n, t, more
  <2> QED
    BY <1>5, <2>1, <2>2, ErrorsOfProbes
<1> HIDE DEF n, t, more, q
<1>8. StackThorough(world, t, more, q)
  BY <1>1, <1>2, <1>3, <1>7 DEF StackThorough
<1> QED
  BY <1>8 DEF StaysThorough, t, more, q

\* An error, after all of it has been seen.
LEMMA ThoroughError ==
  ASSUME Careful, Return(Err), Top.fn # "main",
         Top.fn = "find_read_file_internal" =>
             Lacks(world, Dark(world, stack, missed, Len(stack)), Top.node, Top.path, Top.file.file)
  PROVE  StaysThorough
<1> DEFINE n == Len(stack)
           t == stack'
           more == missed'
<1>1. \A j \in 1..(n - 1) : t[j] = stack[j]
  BY TopThorough, ReturnStack
<1>2. ASSUME Top.fn = "find_read_file_internal"
      PROVE  Lacks(world, Dark(world, t, more, n - 1), Top.node, Top.path, Top.file.file)
  <2>1. Dark(world, stack, missed, n) \subseteq Dark(world, t, more, n - 1)
    <3> HIDE DEF t
    <3> QED
      BY <1>1, <1>2, DarkToCaller
  <2>2. Lacks(world, Dark(world, stack, missed, n), Top.node, Top.path, Top.file.file)
    BY <1>2
  <2> HIDE DEF n, t, more
  <2> QED
    BY <2>1, <2>2, LacksMore
<1> QED
  BY <1>2, ThoroughReturn

\* An error because something could not be seen.
LEMMA ThoroughMissNode ==
  ASSUME Careful, Return(Err), Top.fn = "find_read_file_internal", MissNode
  PROVE  StaysThorough
<1> DEFINE n == Len(stack)
           t == stack'
           more == missed'
<1>1. /\ n \in Nat \ {0} /\ n # 1 /\ Top = stack[n]
      /\ \A j \in 1..(n - 1) : t[j] = stack[j]
  BY TopThorough, ReturnStack
<1>2. Top.node = None \/ Top.node \in DOMAIN world.nodes
  BY TopProbe DEF Careful, InOrder, Typed, IsProbe
<1>3. more = missed \cup {<<j, stack[j].devices[stack[j].i], Top.node>> : j \in Searching}
  BY DEF MissNode
<1>4. ASSUME NEW j \in 1..(n - 1), Within(t, j, n - 1) PROVE <<j, Here(t[j]), Top.node>> \in more
  <2>1. t[j] = stack[j] /\ j \in 1..n
    BY <1>1, <1>4
  <2>2. \A k \in (j + 1)..n : k = n \/ (k \in (j + 1)..(n - 1) /\ k \in 1..(n - 1))
    BY <1>1, <1>4
  <2>3. \A k \in (j + 1)..n : stack[k].fn = "find_read_file_internal"
    BY <1>1, <1>4, <2>2 DEF Within
  <2>4. j \in Searching
    BY <1>4, <2>1, <2>3 DEF Within, Searching
  <2> QED
    BY <1>3, <2>1, <2>4 DEF Here
<1> HIDE DEF n, t, more
<1>5. ASSUME Top.node # None, NEW x \in Below(world, Top.node) PROVE x \in Dark(world, t, more, n - 1)
  <2>1. x \in DOMAIN world.nodes /\ Top.node \in DOMAIN world.nodes
    BY <1>2, <1>5 DEF Below
  <2>2. ASSUME NEW j \in 1..(n - 1), Within(t, j, n - 1)
        PROVE  x \in Unseen(world, more, j, Here(t[j]))
    BY <1>4, <1>5, <2>1, <2>2 DEF Unseen
  <2> QED
    BY <2>1, <2>2 DEF Dark
<1>6. Lacks(world, Dark(world, t, more, n - 1), Top.node, Top.path, Top.file.file)
  BY <1>5 DEF Lacks
<1>7. Top.fn # "main"
  OBVIOUS
<1> QED
  BY <1>6, <1>7, ThoroughReturn DEF n, t, more

LEMMA ThoroughAnswer ==
  ASSUME Careful, NEW r, Return(r), r # Err, Top.fn # "main" PROVE StaysThorough
BY ThoroughReturn

LEMMA OkIsNoError == \A v : Ok(v) # Err
<1> TAKE v
<1>1. DOMAIN Ok(v) = {"tag", "value"} /\ DOMAIN Err = {"tag"}
  BY DEF Ok, Err
<1> QED
  BY <1>1

\* The functions that look into something; the others have nothing to be thorough about.
SearchFns == {"find_read_file", "find_read_file_internal"}

LEMMA PlainBecome ==
  ASSUME Careful, NEW f, Become(f), f.fn \notin SearchFns PROVE StaysThorough
BY ThoroughBecome DEF SearchFns, Carries

LEMMA PlainCall ==
  ASSUME Careful, NEW f, NEW g, Call(f, g), g.fn \notin SearchFns, Carries(f)
  PROVE  StaysThorough
BY ThoroughCall DEF SearchFns

LEMMA TopCarries == ASSUME Careful PROVE Carries(Top)
<1> DEFINE n == Len(stack)
           more == missed'
<1>1. n \in 1..n /\ Top = stack[n] /\ ThoroughAt(world, stack, missed, n)
  BY TopThorough
<1>2. ASSUME Top.fn = "find_read_file" PROVE SearchThorough(world, more, n, Top)
  <2>1. Kept(n, missed, more)
    BY <1>1, <1>2 DEF Careful, Grows
  <2>2. SearchThorough(world, missed, n, Top)
    BY <1>1, <1>2 DEF ThoroughAt
  <2> HIDE DEF n, more
  <2> QED
    BY <2>1, <2>2, SearchThoroughMore
<1> QED
  BY <1>1, <1>2 DEF Carries, ThoroughAt

LEMMA TopPlainCall ==
  ASSUME Careful, NEW g, Call(Top, g), g.fn \notin SearchFns PROVE StaysThorough
BY PlainCall, TopCarries

\* The running search.
LEMMA SearchDevices ==
  ASSUME Careful, Top.fn = "find_read_file"
  PROVE  /\ SearchThorough(world, missed, Len(stack), Top)
         /\ SearchThorough(world, missed', Len(stack), Top)
         /\ IsSearch(world, Top) /\ Top.i \in Nat \ {0} /\ Len(Top.devices) \in Nat
         /\ Top.i <= Len(Top.devices) => Top.devices[Top.i] \in 1..Len(world.drives)
<1>1. SearchThorough(world, missed, Len(stack), Top)
  BY TopThorough DEF ThoroughAt
<1>2. SearchThorough(world, missed', Len(stack), Top)
  BY TopCarries DEF Carries
<1>3. /\ IsSearch(world, Top)
      /\ Top.i <= Len(Top.devices) => Top.devices[Top.i] \in 1..Len(world.drives)
  BY TopSearch DEF Careful
<1>4. Top.i \in Nat \ {0} /\ Len(Top.devices) \in Nat
  BY <1>3 DEF IsSearch
<1> QED
  BY <1>1, <1>2, <1>3, <1>4

LEMMA SearchBecome ==
  ASSUME Careful, NEW f, Become(f), f.fn = "find_read_file",
         SearchThorough(world, missed', Len(stack), f)
  PROVE  StaysThorough
BY ThoroughBecome DEF Carries

LEMMA SearchAt ==
  ASSUME Careful, Top.fn = "find_read_file", NEW at,
         at \in {"open", "probing"} =>
            \/ Top.at \in {"open", "probing"}
            \/ Uuid(world, Head(Top.path)) \in SerialsOf(world) =>
                  world.drives[Top.devices[Top.i]].serial # Uuid(world, Head(Top.path))
  PROVE  /\ SearchThorough(world, missed', Len(stack), [Top EXCEPT !.at = at])
         /\ [Top EXCEPT !.at = at].fn = "find_read_file"
<1> DEFINE f == [Top EXCEPT !.at = at]
           m == missed'
           n == Len(stack)
<1>1. /\ f.fn = "find_read_file" /\ f.at = at /\ f.devices = Top.devices /\ f.file = Top.file
      /\ f.i = Top.i /\ f.path = Top.path
  BY SearchDevices DEF IsSearch
<1>2. SearchThorough(world, m, n, Top)
  BY SearchDevices
<1> HIDE DEF f, m, n
<1>3. SearchThorough(world, m, n, f)
  BY <1>1, <1>2 DEF SearchThorough
<1> QED
  BY <1>1, <1>3 DEF f, m, n

LEMMA SearchNext ==
  ASSUME Careful, Top.fn = "find_read_file", Top.at \in {"open", "probing"},
         Top.i <= Len(Top.devices) =>
             DriveLacks(world, Unseen(world, missed', Len(stack), Top.devices[Top.i]), Top.file,
                        Top.devices[Top.i])
  PROVE  SearchThorough(world, missed', Len(stack), NextDevice) /\ NextDevice.fn = "find_read_file"
<1> DEFINE f == NextDevice
           m == missed'
           n == Len(stack)
<1>1. /\ f.fn = "find_read_file" /\ f.at = "drive" /\ f.devices = Top.devices /\ f.file = Top.file
      /\ f.i = Top.i + 1 /\ f.path = Top.path
  BY SearchDevices DEF IsSearch, NextDevice
<1>2. SearchThorough(world, m, n, Top) /\ Top.i \in Nat
  BY SearchDevices
<1>3. Top.i <= Len(Top.devices) =>
          DriveLacks(world, Unseen(world, m, n, Top.devices[Top.i]), Top.file, Top.devices[Top.i])
  OBVIOUS
<1> HIDE DEF f, m, n
<1>4. \A k \in 1..Len(f.devices) : k < f.i => k < Top.i \/ (k = Top.i /\ Top.i <= Len(Top.devices))
  BY <1>1, <1>2
<1>5. \A k \in 1..Len(f.devices) : k < f.i =>
          DriveLacks(world, Unseen(world, m, n, f.devices[k]), f.file, f.devices[k])
  BY <1>1, <1>2, <1>3, <1>4 DEF SearchThorough
<1>6. Uuid(world, Head(Top.path)) \in SerialsOf(world) =>
          \A k \in 1..Len(f.devices) :
              k < f.i => world.drives[f.devices[k]].serial # Uuid(world, Head(Top.path))
  BY <1>1, <1>2, <1>4 DEF SearchThorough
<1>7. SearchThorough(world, m, n, f)
  BY <1>1, <1>2, <1>5, <1>6 DEF SearchThorough
<1> QED
  BY <1>1, <1>7 DEF f, m, n

\* The rest of a path is about no drive.
LEMMA SearchDescends ==
  ASSUME Careful, Top.fn = "find_read_file", DescendDrive PROVE StaysThorough
<1> DEFINE t == Tail(Top.path)
           f == [Top EXCEPT !.path = t, !.at = "open"]
           m == missed'
           n == Len(stack)
<1>1. CASE Return(Err)
  BY <1>1, ThoroughError
<1>2. CASE Len(Top.path) # 1 /\ Become(f)
  <2>1. Head(t) \in DOMAIN world.partitions /\ Parent(world, Head(t)) = Head(Top.path)
        /\ Head(Top.path) \in DOMAIN world.partitions
    BY <1>2, AlongTail, TopSearch DEF SearchInPlace, Careful
  <2>2. Uuid(world, Head(t)) \notin SerialsOf(world)
    BY <2>1, TopInPlace DEF Orderly, ConfigIsWhole, Careful
  <2>3. /\ f.fn = "find_read_file" /\ f.path = t /\ f.file = Top.file /\ f.at = "open"
        /\ f.i = Top.i /\ f.devices = Top.devices
    BY SearchDevices DEF IsSearch
  <2>4. SearchThorough(world, m, n, Top)
    BY SearchDevices
  <2> HIDE DEF f, t, m, n
  <2>5. SearchThorough(world, m, n, f)
    BY <2>2, <2>3, <2>4 DEF SearchThorough
  <2> QED
    BY <1>2, <2>3, <2>5, SearchBecome DEF m, n
<1> QED
  BY <1>1, <1>2 DEF DescendDrive

LEMMA DeviceFailsThorough == ASSUME Careful, DeviceFails PROVE StaysThorough
<1>1. Top.fn = "find_read_file"
  BY DEF DeviceFails, AtDevice, Runs
<1>2. Return(Err) \/ Halt("panic")
  BY DEF DeviceFails
<1> QED
  BY <1>1, <1>2, ThoroughError, ThoroughHalt

LEMMA ProbeDriveThorough == ASSUME Careful, ProbeDrive PROVE StaysThorough
<1> DEFINE p == Head(Top.path)
           d == Top.devices[Top.i]
           f == [Top EXCEPT !.at = "unlocking"]
           h == [Top EXCEPT !.at = "open"]
           g == UnlockOpal(d, Partition(p).keyslot)
<1>1. Top.fn = "find_read_file" /\ Top.i <= Len(Top.devices)
  BY DEF ProbeDrive, AtDevice, Runs
<1>2. \/ ~IsNamed /\ Become(h)
      \/ Halt("panic")
      \/ DescendDrive
      \/ Call(f, g)
  BY DEF ProbeDrive
<1>3. CASE ~IsNamed /\ Become(h)
  <2>1. d \in 1..Len(world.drives) /\ Device = world.drives[d]
    BY <1>1, SearchDevices DEF Device, Drive
  <2>2. \/ world.drives[d].bus \notin {"nvme", "ata"}
        \/ world.drives[d].serial # Uuid(world, p)
    BY <1>3, <2>1 DEF IsNamed, Partition, Uuid
  <2>3. Uuid(world, p) \in SerialsOf(world) => world.drives[d].serial # Uuid(world, p)
    BY <2>1, <2>2 DEF Careful, Exact
  <2>4. SearchThorough(world, missed', Len(stack), h) /\ h.fn = "find_read_file"
    BY <1>1, <2>3, SearchAt
  <2> HIDE DEF h
  <2> QED
    BY <1>3, <2>4, SearchBecome
<1>4. CASE Halt("panic")
  BY <1>4, ThoroughHalt
<1>5. CASE DescendDrive
  BY <1>1, <1>5, SearchDescends
<1>6. CASE Call(f, g)
  <2>1. SearchThorough(world, missed', Len(stack), f) /\ f.fn = "find_read_file"
    BY <1>1, SearchAt
  <2>2. g.fn \notin SearchFns
    BY DEF UnlockOpal, SearchFns
  <2> HIDE DEF f, g
  <2>3. Carries(f)
    BY <2>1 DEF Carries
  <2> QED
    BY <1>6, <2>2, <2>3, PlainCall
<1> QED
  BY <1>2, <1>3, <1>4, <1>5, <1>6

LEMMA DriveUnlockedThorough == ASSUME Careful, DriveUnlocked PROVE StaysThorough
<1>1. Top.fn = "find_read_file"
  BY DEF DriveUnlocked, Resumes
<1>2. Return(Err) \/ DescendDrive
  BY DEF DriveUnlocked
<1> QED
  BY <1>1, <1>2, ThoroughError, SearchDescends

\* A probe that begins.
LEMMA NewProbe ==
  ASSUME Careful, NEW node \in DOMAIN world.nodes \cup {None}, NEW path, NEW file,
         NEW g, g = Probe(node, path, file)
  PROVE  /\ g.fn = "find_read_file_internal" /\ g.node = node /\ g.path = path /\ g.file = file
         /\ \A hidden : ProbeThorough(world, hidden, g)
<1>1. /\ g.fn = "find_read_file_internal" /\ g.node = node /\ g.path = path /\ g.file = file
      /\ g.kid = 1
  BY DEF Probe
<1>2. ASSUME node # None
      PROVE  \A j \in DOMAIN world.nodes[node].kids : ~(j < 1)
  <2>1. world.nodes[node].kids \in Seq(DOMAIN world.nodes)
    BY <1>2, TopInPlace DEF Careful, StorageIsNested
  <2> QED
    BY <2>1
<1> QED
  BY <1>1, <1>2 DEF ProbeThorough

LEMMA OpenDeviceThorough == ASSUME Careful, OpenDevice PROVE StaysThorough
<1> DEFINE n == Len(stack)
           d == Top.devices[Top.i]
           root == world.drives[d].root
           visible == IF d \in open THEN Device.root ELSE None
           f == [Top EXCEPT !.at = "probing"]
           g == Probe(visible, Top.path, Top.file)
           m == missed'
<1>1. Top.fn = "find_read_file" /\ Top.i <= Len(Top.devices) /\ Top.at = "open"
  BY DEF OpenDevice, AtDevice, Runs
<1>2. d \in 1..Len(world.drives) /\ Device = world.drives[d] /\ Drive(d) = world.drives[d]
  BY <1>1, SearchDevices DEF Device, Drive
<1>3. m = missed \cup {<<n, x, Drive(x).root>> :
                          x \in IF Device.spurious \/ visible # Device.root THEN {d} ELSE {}}
  BY DEF OpenDevice, MissDrives
<1>4. Device.spurious \/ visible # root => <<n, d, root>> \in m
  <2> HIDE DEF m, visible, n, d
  <2> QED
    BY <1>2, <1>3
<1>5. CASE Device.spurious /\ Become(NextDevice)
  <2>1. <<n, d, root>> \in m /\ StorageIsNested(world)
    BY <1>4, <1>5, TopInPlace DEF Careful
  <2> DEFINE s == Top.file
  <2> HIDE DEF n, d, m, s
  <2>2. DriveLacks(world, Unseen(world, m, n, d), s, d)
    BY <2>1, LacksMissed
  <2>3. SearchThorough(world, missed', Len(stack), NextDevice) /\ NextDevice.fn = "find_read_file"
    BY <1>1, <2>2, SearchNext DEF n, d, m, s
  <2> QED
    BY <1>5, <2>3, SearchBecome
<1>6. CASE Call(f, g)
  <2>1. SearchThorough(world, missed', Len(stack), f) /\ f.fn = "find_read_file"
    BY <1>1, SearchAt
  <2>2. f.path = Top.path /\ Here(f) = d
    BY <1>1, SearchDevices DEF IsSearch, Here
  <2>3. visible \in DOMAIN world.nodes \cup {None} /\ visible \in {root, None}
    <3>1. root \in DOMAIN world.nodes \cup {None}
      BY <1>2, TopInPlace, WorldIsWhole DEF Careful, StorageIsNested
    <3> QED
      BY <1>2, <3>1
  <2> HIDE DEF visible
  <2>4. /\ g.fn = "find_read_file_internal" /\ g.path = Top.path /\ g.node = visible
        /\ \A hidden : ProbeThorough(world, hidden, g)
    BY <2>3, NewProbe
  <2> HIDE DEF f, g, d, m
  <2>5. visible = root \/ MissedRoot(world, m, n, f)
    BY <1>4, <2>2 DEF MissedRoot
  <2>6. Leads(world, m, n, f, g)
    BY <2>1, <2>2, <2>3, <2>4, <2>5 DEF Leads
  <2>7. Carries(f)
    BY <2>1 DEF Carries
  <2> QED
    BY <1>6, <2>4, <2>6, <2>7, ThoroughCall DEF m
<1> QED
  BY <1>5, <1>6 DEF OpenDevice

LEMMA DeviceSearchedThorough == ASSUME Careful, DeviceSearched PROVE StaysThorough
<1> DEFINE n == Len(stack)
           d == Top.devices[Top.i]
           s == Top.file
           hidden == Unseen(world, missed, n, d)
<1>1. Top.fn = "find_read_file" /\ Top.at = "probing" /\ ret # None /\ missed' = missed
  BY DEF DeviceSearched, Resumes
<1>2. CASE ret # Err /\ Return(ret)
  BY <1>1, <1>2, ThoroughAnswer
<1>3. CASE ret = Err /\ Become(NextDevice)
  <2>1. ErrSays(world, stack, missed, n) /\ Top = stack[n] /\ n \in Nat \ {0}
    BY <1>1, <1>3, TopThorough
  <2>2. Here(Top) = d
    BY DEF Here
  <2>3. Dark(world, stack, missed, n) = hidden
    <3> HIDE DEF n
    <3> QED
      BY <1>1, <2>1, <2>2, DarkOfSearch
  <2>4. \/ Lacks(world, hidden, world.drives[d].root, Top.path, s.file)
        \/ <<n, d, world.drives[d].root>> \in missed
    BY <1>1, <2>1, <2>2, <2>3 DEF ErrSays, MissedRoot
  <2>5. ASSUME Top.i <= Len(Top.devices) PROVE DriveLacks(world, hidden, s, d)
    <3>1. /\ Along(world, Top.path, s) /\ Belongs(world, <<>>, Head(Top.path))
          /\ ConfigIsWhole(world) /\ StorageIsNested(world) /\ Orderly(world) /\ Exact(world)
          /\ d \in 1..Len(world.drives)
      BY <1>1, <2>5, TopSearch, TopInPlace DEF SearchInPlace, Careful
    <3>2. CASE <<n, d, world.drives[d].root>> \in missed
      <4> HIDE DEF n, d, s
      <4> QED
        BY <3>1, <3>2, LacksMissed
    <3>3. CASE Uuid(world, Head(Top.path)) \in SerialsOf(world)
      <4>1. SearchThorough(world, missed, n, Top) /\ Top.i \in 1..Len(Top.devices)
        BY <1>1, <2>5, SearchDevices
      <4>2. world.drives[d].serial # Uuid(world, Head(Top.path))
        BY <1>1, <3>3, <4>1 DEF SearchThorough
      <4> HIDE DEF d, s, hidden
      <4> QED
        BY <3>1, <3>3, <4>2, LacksUnnamed
    <3>4. CASE /\ Uuid(world, Head(Top.path)) \notin SerialsOf(world)
               /\ Lacks(world, hidden, world.drives[d].root, Top.path, s.file)
      <4> HIDE DEF d, s, hidden
      <4> QED
        BY <3>1, <3>4, LacksProbed
    <3> QED
      BY <2>4, <3>2, <3>3, <3>4
  <2>6. SearchThorough(world, missed', Len(stack), NextDevice) /\ NextDevice.fn = "find_read_file"
    BY <1>1, <2>5, SearchNext
  <2> QED
    BY <1>3, <2>6, SearchBecome
<1> QED
  BY <1>2, <1>3 DEF DeviceSearched

\* A search that begins: what its list lacks it has missed.
LEMMA NewSearch ==
  ASSUME Careful, NEW dropped, NEW path, NEW file, NEW j, ListWithout(j, dropped),
         NEW g, g = Search(dropped, path, file)
  PROVE  g.fn = "find_read_file" /\ SearchThorough(world, missed', j, g)
<1> DEFINE m == missed'
<1>1. /\ g.fn = "find_read_file" /\ g.devices = block_devices(dropped) /\ g.i = 1
      /\ g.at = "drive"
  BY DEF Search
<1>2. /\ g.devices \in Seq(1..Len(world.drives))
      /\ \A d \in 1..Len(world.drives) :
            d \in dropped \/ \E k \in 1..Len(g.devices) : g.devices[k] = d
  BY <1>1, DevicesAreDrives, TopInPlace DEF Careful
<1>3. \A d \in dropped : <<j, d, world.drives[d].root>> \in m
  BY DEF ListWithout, Drive
<1> HIDE DEF m
<1>4. \A k \in 1..Len(g.devices) : ~(k < g.i)
  BY <1>1, <1>2
<1>5. SearchThorough(world, m, j, g)
  BY <1>1, <1>2, <1>3, <1>4 DEF SearchThorough
<1> QED
  BY <1>1, <1>5 DEF m

LEMMA ResolveParentThorough == ASSUME Careful, ResolveParent PROVE StaysThorough
<1> DEFINE path   == <<Top.current>> \o Top.path
           parent == Partition(Top.current).parent
           f == [Top EXCEPT !.current = parent, !.path = path]
<1>1. IsResolve(world, Top)
  BY TopInPlace, TopFrame, FrameOfFunction DEF ResolveParent, Runs, Careful
<1>2. CASE Halt("memory")
  BY <1>2, ThoroughHalt
<1>3. ASSUME NEW dropped, Become(Search(dropped, path, Top.file)), ListWithout(Len(stack), dropped)
      PROVE  StaysThorough
  <2> DEFINE g == Search(dropped, path, Top.file)
             n == Len(stack)
             file == Top.file
  <2>1. Become(g) /\ ListWithout(n, dropped) /\ g = Search(dropped, path, file)
    BY <1>3
  <2> HIDE DEF g, path, n, file
  <2>2. g.fn = "find_read_file" /\ SearchThorough(world, missed', n, g)
    BY <2>1, NewSearch
  <2> QED
    BY <2>1, <2>2, SearchBecome DEF n
<1>4. CASE Become(f)
  <2>1. f.fn \notin SearchFns
    BY <1>1 DEF IsResolve, SearchFns
  <2> HIDE DEF f
  <2> QED
    BY <1>4, <2>1, PlainBecome
<1> QED
  BY <1>2, <1>3, <1>4 DEF ResolveParent

\* A probe that goes on where it is.
LEMMA ProbeGoes ==
  ASSUME Careful, Top.fn = "find_read_file_internal", NEW f, f.fn = "find_read_file_internal",
         f.path = Top.path, f.node = Top.node, f.file = Top.file, f.kid = Top.kid
  PROVE  Carries(f)
<1>1. ProbeThorough(world, Dark(world, stack, missed, Len(stack)), Top)
  BY TopCarries DEF Carries
<1>2. Deeper(world, f) = Deeper(world, Top)
  BY DEF Deeper
<1> QED
  BY <1>1, <1>2 DEF Carries, ProbeThorough

\* The running probe, and the world it is in.
LEMMA AtProbe ==
  ASSUME Careful, Top.fn = "find_read_file_internal"
  PROVE  /\ IsProbe(world, Top) /\ StorageIsNested(world) /\ None \notin DOMAIN world.nodes
         /\ Top.path \in Seq(DOMAIN world.partitions) /\ Top.kid \in Nat \ {0}
         /\ Kind # "blank" => /\ Top.node \in DOMAIN world.nodes /\ Top.node # None
                              /\ Kind = world.nodes[Top.node].kind
                              /\ Node(Top.node) = world.nodes[Top.node]
                              /\ world.nodes[Top.node].kids \in Seq(DOMAIN world.nodes)
         /\ Top.path # <<>> => Partition(Head(Top.path)).uuid = Uuid(world, Head(Top.path))
         /\ Kind = "blank" => Top.node = None
<1>1. /\ IsProbe(world, Top) /\ StorageIsNested(world)
      /\ Top.path \in Seq(DOMAIN world.partitions) /\ Top.kid \in Nat \ {0}
  BY TopProbe, TopInPlace DEF Careful, IsProbe
<1>2. None \notin DOMAIN world.nodes /\ Top.node \in DOMAIN world.nodes \cup {None}
  BY <1>1 DEF StorageIsNested, IsProbe
<1>3. ASSUME Top.node # None
      PROVE  /\ Kind = world.nodes[Top.node].kind
             /\ Kind # "blank" /\ world.nodes[Top.node].kids \in Seq(DOMAIN world.nodes)
  BY <1>1, <1>2, <1>3 DEF Kind, Node, StorageIsNested
<1>4. Top.node = None => Kind = "blank"
  BY DEF Kind
<1> QED
  BY <1>1, <1>2, <1>3, <1>4 DEF Node, Partition, Uuid

\* What the search that the running probe is part of could not look into.
DarkHere == Dark(world, stack, missed, Len(stack))
LackedHere(n, path) == Lacks(world, DarkHere, n, path, Top.file.file)

LEMMA ProbeError ==
  ASSUME Careful, Top.fn = "find_read_file_internal", Return(Err), LackedHere(Top.node, Top.path)
  PROVE  StaysThorough
BY ThoroughError DEF LackedHere, DarkHere

LEMMA ProbeNothingThorough == ASSUME Careful, ProbeNothing PROVE StaysThorough
<1>1. Top.fn = "find_read_file_internal" /\ Return(Err)
  BY DEF ProbeNothing, Runs
<1>2. LackedHere(Top.node, Top.path)
  <2>1. CASE Top.node = None
    BY <2>1 DEF LackedHere, Lacks
  <2>2. CASE Top.node # None
    <3>1. Kind # "blank"
      BY <1>1, <2>2, AtProbe
    <3>2. \/ Top.path = <<>>
          \/ Kind # "gpt" /\ ~NamedHere
      BY <3>1 DEF ProbeNothing
    <3>3. \/ Top.path = <<>>
          \/ /\ world.nodes[Top.node].kind # "gpt"
             /\ world.nodes[Top.node].uuid # Uuid(world, Head(Top.path))
      BY <1>1, <3>1, <3>2, AtProbe DEF NamedHere
    <3> QED
      BY <1>1, <3>1, <3>3, AtProbe, LacksOther DEF LackedHere
  <2> QED
    BY <2>1, <2>2
<1> QED
  BY <1>1, <1>2, ProbeError

\* A container all of whose devices have been looked at.
LEMMA NothingInside ==
  ASSUME Careful, Top.fn = "find_read_file_internal", Kind \in {"lvm", "luks", "gpt"},
         Top.path # <<>>, Kind # "gpt" => NamedHere,
         \A j \in DOMAIN world.nodes[Top.node].kids :
             LackedHere(world.nodes[Top.node].kids[j], Deeper(world, Top))
  PROVE  LackedHere(Top.node, Top.path)
<1> DEFINE name == Top.file.file
           hidden == DarkHere
<1>1. /\ StorageIsNested(world) /\ Top.path \in Seq(DOMAIN world.partitions)
      /\ Top.node \in DOMAIN world.nodes
      /\ world.nodes[Top.node].kind = Kind
  BY AtProbe
<1>2. world.nodes[Top.node].kind # "gpt" =>
          world.nodes[Top.node].uuid = Uuid(world, Head(Top.path))
  BY <1>1, AtProbe DEF NamedHere
<1>3. \A kid \in Parts(world, Top.node) : Lacks(world, hidden, kid, Deeper(world, Top), name)
  BY DEF Parts, Range, LackedHere
<1>4. Deeper(world, Top) = IF world.nodes[Top.node].kind = "gpt" THEN Top.path ELSE Tail(Top.path)
  BY DEF Deeper
<1> HIDE DEF name, hidden
<1>5. Lacks(world, hidden, Top.node, Top.path, name)
  BY <1>1, <1>2, <1>3, <1>4, LacksInside
<1> QED
  BY <1>5 DEF LackedHere, name, hidden

LEMMA ProbeVolumeThorough == ASSUME Careful, ProbeVolume PROVE StaysThorough
<1> DEFINE kids == Node(Top.node).kids
           g    == Probe(kids[Top.kid], InnerPath, Top.file)
<1>1. /\ Top.fn = "find_read_file_internal" /\ Top.path # <<>>
      /\ (Kind = "lvm" /\ NamedHere) \/ Kind = "gpt"
  BY DEF ProbeVolume, IsVolumeGroup, Probes, Runs, NamedHere
<1>2. /\ Top.node \in DOMAIN world.nodes /\ Top.node # None /\ Top.kid \in Nat \ {0}
      /\ world.nodes[Top.node].kind = Kind /\ kids = world.nodes[Top.node].kids
      /\ kids \in Seq(DOMAIN world.nodes)
  BY <1>1, AtProbe
<1>3. CASE Top.kid > Len(kids) /\ Return(Err)
  <2>1. ProbeThorough(world, DarkHere, Top)
    BY <1>1, TopCarries DEF Carries, DarkHere
  <2>2. \A j \in DOMAIN kids : LackedHere(kids[j], Deeper(world, Top))
    BY <1>1, <1>2, <1>3, <2>1 DEF ProbeThorough, LackedHere
  <2>3. LackedHere(Top.node, Top.path)
    BY <1>1, <1>2, <2>2, NothingInside
  <2> QED
    BY <1>1, <1>3, <2>3, ProbeError
<1>4. CASE ~(Top.kid > Len(kids)) /\ Call(Top, g)
  <2>1. kids[Top.kid] \in DOMAIN world.nodes
    BY <1>2, <1>4
  <2> DEFINE kid == kids[Top.kid]
  <2>2. kid = Kid(world, Top) /\ InnerPath = Deeper(world, Top)
    BY <1>1, <1>2 DEF Kid, Deeper, InnerPath
  <2> HIDE DEF kid, kids
  <2>3. /\ g.fn = "find_read_file_internal" /\ g.node = kid /\ g.path = InnerPath
        /\ \A hidden : ProbeThorough(world, hidden, g)
    BY <2>1, NewProbe DEF kid
  <2> HIDE DEF g
  <2>4. Leads(world, missed', Len(stack), Top, g)
    BY <1>1, <1>2, <2>2, <2>3 DEF Leads
  <2> QED
    BY <1>4, <2>3, <2>4, TopCarries, ThoroughCall
<1> QED
  BY <1>3, <1>4 DEF ProbeVolume

LEMMA VolumeSearchedThorough == ASSUME Careful, VolumeSearched PROVE StaysThorough
<1> DEFINE f == [Top EXCEPT !.kid = Top.kid + 1]
           kids == world.nodes[Top.node].kids
<1>1. Top.fn = "find_read_file_internal" /\ ret # None /\ Kind \in {"lvm", "gpt"}
  BY DEF VolumeSearched, Resumes
<1>2. CASE ret # Err /\ Return(ret)
  BY <1>1, <1>2, ThoroughAnswer
<1>3. CASE ret = Err /\ Become(f)
  <2>1. /\ f.fn = "find_read_file_internal" /\ f.path = Top.path
        /\ f.node = Top.node /\ f.file = Top.file /\ f.kid = Top.kid + 1
    BY <1>1, AtProbe DEF IsProbe
  <2>2. /\ Top.node \in DOMAIN world.nodes /\ Top.node # None /\ Top.kid \in Nat
        /\ world.nodes[Top.node].kind \in {"lvm", "gpt"}
        /\ kids \in Seq(DOMAIN world.nodes)
    BY <1>1, AtProbe
  <2>3. LackedHere(kids[Top.kid], Deeper(world, Top))
    <3>1. ErrSays(world, stack, missed, Len(stack)) /\ Top = stack[Len(stack)]
      BY <1>1, <1>3, TopThorough
    <3>2. Top.at # "password"
      BY <1>1, AtProbe, <2>2 DEF IsProbe
    <3>3. LackedHere(Kid(world, Top), Deeper(world, Top))
      BY <1>1, <3>1, <3>2 DEF ErrSays, LackedHere, DarkHere
    <3> QED
      BY <2>2, <3>3 DEF Kid
  <2>4. ProbeThorough(world, DarkHere, Top)
    BY <1>1, TopCarries DEF Carries, DarkHere
  <2> HIDE DEF f
  <2>5. Deeper(world, f) = Deeper(world, Top)
    BY <2>1 DEF Deeper
  <2>6. \A j \in DOMAIN kids : j < Top.kid + 1 => j < Top.kid \/ j = Top.kid
    BY <2>2
  <2>7. \A j \in DOMAIN kids :
            j < f.kid => Lacks(world, DarkHere, kids[j], Deeper(world, Top), Top.file.file)
    BY <2>1, <2>2, <2>3, <2>4, <2>6 DEF ProbeThorough, LackedHere
  <2>8. ProbeThorough(world, DarkHere, f)
    BY <2>1, <2>5, <2>7 DEF ProbeThorough
  <2>9. Carries(f)
    BY <1>1, <2>1, <2>8 DEF Carries, DarkHere
  <2> QED
    BY <1>3, <2>9, ThoroughBecome
<1> QED
  BY <1>2, <1>3 DEF VolumeSearched

LEMMA EnterLuksThorough ==
  ASSUME Careful, Top.fn = "find_read_file_internal", Kind = "luks", EnterLuks
  PROVE  StaysThorough
<1> DEFINE kid == Node(Top.node).kids[1]
           f   == [Top EXCEPT !.at = "inside"]
           g   == Probe(kid, Tail(Top.path), Top.file)
<1>1. /\ Top.node \in DOMAIN world.nodes /\ Top.node # None
      /\ world.nodes[Top.node].kind = "luks" /\ Node(Top.node) = world.nodes[Top.node]
      /\ Node(Top.node).kids \in Seq(DOMAIN world.nodes) /\ StorageIsNested(world)
  BY AtProbe
<1>2. kid \in DOMAIN world.nodes
  BY <1>1, EmptySeq DEF StorageIsNested
<1>3. /\ f.fn = "find_read_file_internal" /\ f.path = Top.path
      /\ f.node = Top.node /\ f.file = Top.file /\ f.kid = Top.kid
  BY AtProbe DEF IsProbe
<1>4. Call(f, g)
  BY DEF EnterLuks
<1>5. Kid(world, f) = kid /\ Deeper(world, f) = Tail(Top.path)
  BY <1>1, <1>3 DEF Kid, Deeper
<1> HIDE DEF f, kid
<1>6. /\ g.fn = "find_read_file_internal" /\ g.node = kid /\ g.path = Tail(Top.path)
      /\ \A hidden : ProbeThorough(world, hidden, g)
  BY <1>2, NewProbe
<1> HIDE DEF g
<1>7. Leads(world, missed', Len(stack), f, g)
  BY <1>1, <1>3, <1>5, <1>6 DEF Leads
<1> QED
  BY <1>3, <1>4, <1>6, <1>7, ProbeGoes, ThoroughCall

LEMMA ProbeLuksThorough == ASSUME Careful, ProbeLuks PROVE StaysThorough
<1> DEFINE f == [Top EXCEPT !.at = "password"]
           g == Password(Partition(Head(Top.path)).keyslot, "Cached")
<1>1. Top.fn = "find_read_file_internal" /\ Kind = "luks"
  BY DEF ProbeLuks, Probes, Runs
<1>2. (Return(Err) /\ MissNode) \/ EnterLuks \/ Call(f, g)
  BY DEF ProbeLuks
<1>3. CASE Call(f, g)
  <2>1. /\ f.fn = "find_read_file_internal" /\ f.path = Top.path
        /\ f.node = Top.node /\ f.file = Top.file /\ f.kid = Top.kid
    BY <1>1, AtProbe DEF IsProbe
  <2>2. g.fn \notin SearchFns
    BY DEF Password, SearchFns
  <2> HIDE DEF f, g
  <2> QED
    BY <1>1, <1>3, <2>1, <2>2, ProbeGoes, PlainCall
<1> QED
  BY <1>1, <1>2, <1>3, EnterLuksThorough, ThoroughMissNode

LEMMA LuksPasswordThorough == ASSUME Careful, LuksPassword PROVE StaysThorough
<1> DEFINE g == Password(Partition(Head(Top.path)).keyslot, "Discard")
<1>1. Top.fn = "find_read_file_internal" /\ Top.at = "password"
  BY DEF LuksPassword, Resumes
<1>2. Kind = "luks"
  BY <1>1, TopIsLuks, TopInPlace DEF Careful
<1>3. (Return(Err) /\ MissNode) \/ EnterLuks \/ Call(Top, g)
  BY DEF LuksPassword
<1>4. g.fn \notin SearchFns
  BY DEF Password, SearchFns
<1> HIDE DEF g
<1> QED
  BY <1>1, <1>2, <1>3, <1>4, EnterLuksThorough, TopPlainCall, ThoroughMissNode

LEMMA LuksSearchedThorough == ASSUME Careful, LuksSearched PROVE StaysThorough
<1>1. Top.fn = "find_read_file_internal" /\ Top.at = "inside" /\ ret # None /\ Return(ret)
  BY DEF LuksSearched, Resumes
<1>2. CASE ret # Err
  BY <1>1, <1>2, ThoroughAnswer
<1>3. CASE ret = Err
  <2>1. Kind = "luks" /\ Top.path # <<>>
    BY <1>1, TopIsLuks, TopInPlace DEF Careful
  <2>2. NamedHere
    BY <1>1, <2>1, AtProbe DEF IsProbe, NamedHere, Partition
  <2>3. LackedHere(Kid(world, Top), Deeper(world, Top))
    <3>1. ErrSays(world, stack, missed, Len(stack)) /\ Top = stack[Len(stack)]
      BY <1>1, <1>3, TopThorough
    <3> QED
      BY <1>1, <3>1 DEF ErrSays, LackedHere, DarkHere
  <2>4. Len(world.nodes[Top.node].kids) = 1
    BY <1>1, <2>1, AtProbe DEF Careful, Exact
  <2>5. \A j \in DOMAIN world.nodes[Top.node].kids : j = 1
    BY <1>1, <2>1, <2>4, AtProbe
  <2>6. Kid(world, Top) = world.nodes[Top.node].kids[1]
    BY <1>1, <2>1, AtProbe DEF Kid
  <2>7. LackedHere(Top.node, Top.path)
    BY <1>1, <2>1, <2>2, <2>3, <2>5, <2>6, NothingInside
  <2> QED
    BY <1>1, <1>3, <2>7, ProbeError
<1> QED
  BY <1>2, <1>3

LEMMA ProbeFileSystemThorough == ASSUME Careful, ProbeFileSystem PROVE StaysThorough
<1> DEFINE files == Node(Top.node).files
           v     == files[Top.file.file]
<1>1. Top.fn = "find_read_file_internal" /\ Kind \in {"ext4", "fat"} /\ NamedHere
  BY DEF ProbeFileSystem, Probes, Runs
<1>2. CASE ~(Len(Top.path) = 1 /\ Top.file.file \in DOMAIN files) /\ Return(Err)
  <2>1. /\ Top.node \in DOMAIN world.nodes /\ world.nodes[Top.node].kind \in {"ext4", "fat"}
        /\ files = world.nodes[Top.node].files /\ StorageIsNested(world)
        /\ Top.path \in Seq(DOMAIN world.partitions)
    BY <1>1, AtProbe
  <2>2. world.nodes[Top.node].kids = <<>>
    BY <2>1 DEF Careful, Exact
  <2>3. LackedHere(Top.node, Top.path)
    BY <1>2, <2>1, <2>2, LacksFile DEF LackedHere
  <2> QED
    BY <1>1, <1>2, <2>3, ProbeError
<1>3. CASE Return(Ok(v))
  <2> HIDE DEF v
  <2> QED
    BY <1>1, <1>3, OkIsNoError, ThoroughAnswer
<1> QED
  BY <1>2, <1>3 DEF ProbeFileSystem

LEMMA ReadFailsThorough == ASSUME Careful, ReadFails PROVE StaysThorough
<1>1. Top.fn = "find_read_file_internal" /\ MissNode
  BY DEF ReadFails, Runs
<1>2. Return(Err) \/ Halt("panic")
  BY DEF ReadFails
<1> QED
  BY <1>1, <1>2, ThoroughMissNode, ThoroughHalt

\* unlock_opal and get_password_of_keyslot look into nothing themselves.
LEMMA UnlockThorough == ASSUME Careful, StartUnlock \/ TryPassword \/ UnlockFails PROVE StaysThorough
<1> DEFINE g(c) == Password(Top.keyslot, c)
<1>1. /\ Top.fn = "unlock_opal"
      /\ \/ Return(Err) \/ Return(Ok("unlocked")) \/ Halt("reset")
         \/ \E c : Call(Top, g(c))
  BY DEF StartUnlock, TryPassword, UnlockFails, Runs, Resumes
<1>2. \A c : g(c).fn \notin SearchFns
  BY DEF Password, SearchFns
<1> HIDE DEF g
<1> QED
  BY <1>1, <1>2, OkIsNoError, ThoroughError, ThoroughAnswer, ThoroughHalt, TopPlainCall

LEMMA PasswordThorough ==
  ASSUME Careful,
         UseBuffered \/ FindKeyFile \/ KeyFileRead \/ KeyFileMissing \/ ShutDown
            \/ \E key \in Keys : Type(key)
  PROVE  StaysThorough
<1> DEFINE g == Resolve(Source)
<1>1. Top.fn = "get_password_of_keyslot"
  BY DEF UseBuffered, FindKeyFile, KeyFileRead, KeyFileMissing, ShutDown, Type, Prompting, Runs,
     Resumes
<1>2. \/ \E v : Return(Ok(v))
      \/ Return(Err)
      \/ Call(Top, g)
      \/ Halt("shutdown")
  BY DEF UseBuffered, FindKeyFile, KeyFileRead, KeyFileMissing, ShutDown, Type, Obtain
<1>3. g.fn \notin SearchFns
  BY DEF Resolve, SearchFns
<1> HIDE DEF g
<1>4. ASSUME NEW v, Return(Ok(v)) PROVE StaysThorough
  <2> DEFINE r == Ok(v)
  <2>1. r # Err /\ Return(r)
    BY <1>4, OkIsNoError
  <2> HIDE DEF r
  <2> QED
    BY <1>1, <2>1, ThoroughAnswer
<1> QED
  BY <1>1, <1>2, <1>3, <1>4, TopPlainCall, ThoroughHalt, ThoroughError

LEMMA SearchThoroughStep == ASSUME Careful, Next PROVE StaysThorough
<1>1. CASE ResolveParent \/ NoMoreDevices \/ DeviceFails \/ ProbeDrive \/ DriveUnlocked
             \/ OpenDevice \/ DeviceSearched
  <2>1. NoMoreDevices => Top.fn = "find_read_file" /\ Return(Err)
    BY DEF NoMoreDevices, Runs
  <2> QED
    BY <1>1, <2>1, ResolveParentThorough, ThoroughError, DeviceFailsThorough, ProbeDriveThorough,
       DriveUnlockedThorough, OpenDeviceThorough, DeviceSearchedThorough
<1>2. CASE ProbeNothing \/ ProbeVolume \/ VolumeSearched \/ ProbeLuks \/ LuksPassword
             \/ LuksSearched \/ ProbeFileSystem \/ ReadFails
  BY <1>2, ProbeNothingThorough, ProbeVolumeThorough, VolumeSearchedThorough, ProbeLuksThorough,
     LuksPasswordThorough, LuksSearchedThorough, ProbeFileSystemThorough, ReadFailsThorough
<1>3. CASE StartUnlock \/ TryPassword \/ UnlockFails
  BY <1>3, UnlockThorough
<1>4. CASE UseBuffered \/ FindKeyFile \/ KeyFileRead \/ KeyFileMissing \/ ShutDown
             \/ \E key \in Keys : Type(key)
  BY <1>4, PasswordThorough
<1> QED
  BY <1>1, <1>2, <1>3, <1>4 DEF Next, ProgramStep

-------------------------------------------------------------------------------
\* What main and its menu call begins no search, but for an extra partition.
LEMMA MainThorough ==
  ASSUME Careful, LocateConfig \/ ReadConfig \/ DecodeConfig \/ RunMenu \/ RunFails \/ RunReturns
                    \/ Exit
  PROVE  StaysThorough
<1>1. Top.fn = "main" /\ IsMain(world, Top)
  BY TopInPlace, TopFrame, FrameOfFunction
     DEF Careful, LocateConfig, ReadConfig, DecodeConfig, RunMenu, RunFails, RunReturns, Exit, Runs,
         Resumes
<1>2. ASSUME NEW at, Become([Top EXCEPT !.at = at]) PROVE StaysThorough
  <2> DEFINE f == [Top EXCEPT !.at = at]
  <2>1. f.fn \notin SearchFns
    BY <1>1 DEF IsMain, SearchFns
  <2> HIDE DEF f
  <2> QED
    BY <1>2, <2>1, PlainBecome DEF f
<1>3. ASSUME NEW e, Call(Top, BootEntry(e)) PROVE StaysThorough
  <2> DEFINE g == BootEntry(e)
  <2>1. g.fn \notin SearchFns
    BY DEF BootEntry, SearchFns
  <2> HIDE DEF g
  <2> QED
    BY <1>3, <2>1, TopPlainCall DEF g
<1>4. ASSUME NEW dropped, Call(Top, UnlockConfigured(dropped)) PROVE StaysThorough
  <2> DEFINE g == UnlockConfigured(dropped)
  <2>1. g.fn \notin SearchFns
    BY DEF UnlockConfigured, SearchFns
  <2> HIDE DEF g
  <2> QED
    BY <1>4, <2>1, TopPlainCall DEF g
<1> QED
  BY <1>2, <1>3, <1>4, ThoroughHalt
     DEF LocateConfig, ReadConfig, DecodeConfig, RunMenu, RunFails, RunReturns, Exit

LEMMA ReadExtraThorough == ASSUME Careful, ReadExtra PROVE StaysThorough
<1> DEFINE extra == Entry(Top.entry).extra_partitions
           f == [Top EXCEPT !.at = "files", !.i = 1]
           file == [partition |-> extra[Top.i], file |-> Entry(Top.entry).image.file]
           path == <<extra[Top.i]>>
<1>1. Top.fn = "handle_boot_entry" /\ IsEntry(world, Top)
  BY TopHasRead DEF ReadExtra, Runs, Careful
<1>2. CASE Become(f)
  <2>1. f.fn \notin SearchFns
    BY <1>1 DEF IsEntry, SearchFns
  <2> HIDE DEF f
  <2> QED
    BY <1>2, <2>1, PlainBecome
<1>3. ASSUME NEW dropped, Call(Top, Search(dropped, path, file)), ListWithout(Len(stack) + 1, dropped)
      PROVE  StaysThorough
  <2> DEFINE g == Search(dropped, path, file)
             n == Len(stack) + 1
  <2>1. Call(Top, g) /\ ListWithout(n, dropped) /\ g = Search(dropped, path, file)
    BY <1>3
  <2> HIDE DEF g, path, n, file
  <2>2. g.fn = "find_read_file" /\ SearchThorough(world, missed', n, g)
    BY <2>1, NewSearch
  <2> QED
    BY <2>1, <2>2, TopCarries, ThoroughCall DEF n
<1> QED
  BY <1>2, <1>3 DEF ReadExtra

LEMMA EntryThorough ==
  ASSUME Careful, ExtraRead \/ ReadEntryFile \/ EntryFileRead \/ AllocatePagesFails \/ FindEsp
                    \/ EspFound \/ LoadImage \/ Confirm \/ StartImage
  PROVE  StaysThorough
<1>1. Top.fn = "handle_boot_entry" /\ IsEntry(world, Top)
  BY TopHasRead DEF Careful, ExtraRead, ReadEntryFile, EntryFileRead, AllocatePagesFails, AllRead,
     FindEsp, EspFound, LoadImage, Confirm, StartImage, Runs, Resumes
<1>2. ASSUME NEW f, f.fn = "handle_boot_entry", Become(f) PROVE StaysThorough
  <2>1. f.fn \notin SearchFns
    BY <1>2 DEF SearchFns
  <2> QED
    BY <1>2, <2>1, PlainBecome
<1>3. /\ \A i : [Top EXCEPT !.i = i].fn = "handle_boot_entry"
      /\ \A at : [Top EXCEPT !.at = at].fn = "handle_boot_entry"
  BY <1>1 DEF IsEntry
<1>4. ASSUME NEW r, Return(r) PROVE StaysThorough
  <2>1. Top.fn # "main" /\ Top.fn # "find_read_file_internal"
    BY <1>1
  <2> QED
    BY <1>4, <2>1, ThoroughReturn
<1>5. ASSUME ReadEntryFile PROVE StaysThorough
  <2> DEFINE g == Resolve(FilesOf(Top.entry)[Top.i])
  <2>1. g.fn \notin SearchFns
    BY DEF Resolve, SearchFns
  <2>2. Call(Top, g)
    BY <1>5 DEF ReadEntryFile
  <2> HIDE DEF g
  <2> QED
    BY <2>1, <2>2, TopPlainCall
<1>6. CASE ExtraRead
  <2>1. \E i : Become([Top EXCEPT !.i = i])
    BY <1>6 DEF ExtraRead
  <2> QED
    BY <1>2, <1>3, <2>1
<1>7. CASE EntryFileRead
  <2> DEFINE f == [Top EXCEPT !.i = @ + 1, !.contents = Contents]
  <2>1. Return(Err) \/ Become(f)
    BY Zenon, <1>7 DEF EntryFileRead
  <2>2. f.fn = "handle_boot_entry"
    BY <1>1 DEF IsEntry
  <2> HIDE DEF f
  <2> QED
    BY <1>2, <1>4, <2>1, <2>2
<1>8. CASE FindEsp \/ LoadImage \/ Confirm
  <2>1. \/ \E at : Become([Top EXCEPT !.at = at])
        \/ \E r : Return(r)
        \/ \E how : Halt(how)
    BY <1>8 DEF FindEsp, LoadImage, Confirm
  <2> QED
    BY <1>2, <1>3, <1>4, <2>1, ThoroughHalt
<1>9. CASE EspFound
  <2> DEFINE f == [Top EXCEPT !.at = "load", !.file_path = res]
  <2>1. Return(Err) \/ Become(f)
    BY Zenon, <1>9 DEF EspFound
  <2>2. f.fn = "handle_boot_entry"
    BY <1>1 DEF IsEntry
  <2> HIDE DEF f
  <2> QED
    BY <1>2, <1>4, <2>1, <2>2
<1>10. CASE AllocatePagesFails \/ StartImage
  <2>1. (\E r : Return(r)) \/ (\E how : Halt(how))
    BY <1>10 DEF AllocatePagesFails, StartImage
  <2> QED
    BY <1>4, <2>1, ThoroughHalt
<1> QED
  BY <1>5, <1>6, <1>7, <1>8, <1>9, <1>10

LEMMA UnlockAllThorough ==
  ASSUME Careful, SkipDrive \/ UnlockDrive \/ DriveFails \/ DriveDone \/ AllUnlocked
  PROVE  StaysThorough
<1>1. Top.fn = "handle_unlock_configured_opal_drives" /\ IsUnlockAll(world, Top)
  BY TopInPlace, TopFrame, FrameOfFunction
     DEF Careful, SkipDrive, UnlockDrive, DriveFails, DriveDone, AllUnlocked, AtConfigured, Runs,
         Resumes
<1> DEFINE f == [Top EXCEPT !.i = @ + 1]
<1>2. f.fn \notin SearchFns
  BY <1>1 DEF IsUnlockAll, SearchFns
<1>3. ASSUME NEW r, Return(r) PROVE StaysThorough
  <2>1. Top.fn # "main" /\ Top.fn # "find_read_file_internal"
    BY <1>1
  <2> QED
    BY <1>3, <2>1, ThoroughReturn
<1>4. ASSUME NEW d, NEW k, Call(Top, UnlockOpal(d, k)) PROVE StaysThorough
  <2> DEFINE g == UnlockOpal(d, k)
  <2>1. g.fn \notin SearchFns /\ Call(Top, g)
    BY <1>4 DEF UnlockOpal, SearchFns
  <2> HIDE DEF g
  <2> QED
    BY <2>1, TopPlainCall
<1>5. \/ Become(f)
      \/ \E r : Return(r)
      \/ Halt("panic")
      \/ \E d, k : Call(Top, UnlockOpal(d, k))
  BY DEF SkipDrive, UnlockDrive, DriveFails, DriveDone, AllUnlocked
<1> HIDE DEF f
<1> QED
  BY <1>2, <1>3, <1>4, <1>5, PlainBecome, ThoroughHalt

LEMMA BootThorough == ASSUME Careful, BootStep PROVE StaysThorough
BY MainThorough, ReadExtraThorough, EntryThorough, UnlockAllThorough DEF BootStep

LEMMA AlwaysGrows == ASSUME Typed, [BootNext]_bootVars PROVE Grows
<1> SUFFICES ASSUME NEW j \in 1..Len(stack), stack[j].fn = "find_read_file",
                    NEW d, NEW x, <<j, d, x>> \in missed
             PROVE  <<j, d, x>> \in missed'
  BY DEF Grows, Kept
<1>1. Top = stack[Len(stack)] /\ Len(stack) \in Nat
  BY TopFrame DEF Typed
<1>2. j < Len(stack) \/ Top.fn # "resolve_and_read_file"
  BY <1>1
<1> QED
  BY <1>2, MissedStays

LEMMA ThoroughStep ==
  ASSUME InOrder, Exact(world), Thorough, [BootNext]_bootVars PROVE Thorough'
<1>1. Careful
  BY AlwaysGrows DEF Careful, InOrder
<1> SUFFICES StaysThorough
  BY WorldStays DEF Thorough, StaysThorough
<1>2. CASE UNCHANGED bootVars
  BY <1>1, <1>2, ThoroughSame DEF bootVars, vars, calls
<1>3. CASE FirmwareStep
  BY <1>1, <1>3, ThoroughSame DEF FirmwareStep, vars, calls
<1>4. CASE SearchStep
  BY <1>1, <1>4, SearchThoroughStep DEF SearchStep
<1>5. CASE BootStep
  BY <1>1, <1>5, BootThorough
<1> QED
  BY <1>2, <1>3, <1>4, <1>5 DEF BootNext

LEMMA ThoroughInit == ASSUME BootInit PROVE Thorough
<1>1. stack = <<[fn |-> "main", at |-> "load"]>> /\ ret = None
  BY DEF BootInit
<1>2. Len(stack) = 1 /\ stack[1].fn = "main"
  BY <1>1
<1>3. \A k \in 1..Len(stack) : k = 1
  BY <1>2
<1> QED
  BY <1>1, <1>2, <1>3 DEF Thorough, StackThorough, ThoroughAt

LEMMA CopyOnItsDrive ==
  ASSUME NEW file, NEW n \in CopiesOnDrive(file)
  PROVE  IsCopy(world, file, n) /\ OnItsDrive(world, file, n)
<1>1. n \in Copies(file)
  BY DEF CopiesOnDrive
<1>2. DrivesOf(n) = {d \in 1..Len(world.drives) : world.drives[d].root = Root(world)[n]}
  BY DrivesOfRoot
<1>3. Chain(world)[n] = Place(world, file.partition)
  BY <1>1, ChainOfChain, PlaceOfPath DEF Copies
<1>4. IsCopy(world, file, n)
  BY <1>1, <1>2, <1>3 DEF Copies, IsCopy, HasDrive, Node
<1>5. First(world, file.partition) = Head(Uuids(PathOf(file.partition))) /\ Serials = SerialsOf(world)
  BY PlaceOfPath DEF First, Serials, SerialsOf, Drive
<1>6. OnItsDrive(world, file, n)
  BY <1>2, <1>5 DEF CopiesOnDrive, NamesDrive, OnItsDrive, Drive
<1> QED
  BY <1>4, <1>6

\* A search that ends without a file has gone through its list, or remembers the rest of
\* it, or it was for a file on a drive itself.
LEMMA SearchFails ==
  ASSUME Careful, [BootNext]_bootVars,
         Top.fn = "find_read_file", stack' = Front(stack), ret' = Err
  PROVE  \/ \A k \in Top.i..Len(Top.devices) :
               <<Len(stack), Top.devices[k], Drive(Top.devices[k]).root>> \in missed'
         \/ Len(Top.path) = 1 /\ Uuid(world, Head(Top.path)) \in SerialsOf(world)
<1> DEFINE n == Len(stack)
<1>1. /\ IsSequence(stack) /\ stack # <<>> /\ n \in Nat \ {0} /\ Len(Front(stack)) = n - 1
  BY TopThorough, FrontOf DEF IsSequence
<1>2. Len(stack') # n
  BY <1>1
<1>3. /\ \A f : ~Become(f)
      /\ \A f, g : ~Call(f, g)
      /\ \A how : ~Halt(how)
  <2>1. ASSUME NEW f, Become(f) PROVE FALSE
    BY <1>1, <1>2, <2>1, BecomeStack
  <2>2. ASSUME NEW f, NEW g, Call(f, g) PROVE FALSE
    <3>1. CASE n < MaxDepth
      BY <1>1, <2>2, <3>1, CallStack
    <3>2. CASE ~(n < MaxDepth)
      BY <1>2, <2>2, <3>2 DEF Call
    <3> QED
      BY <3>1, <3>2
  <2>3. ASSUME NEW how, Halt(how) PROVE FALSE
    BY <1>2, <2>3 DEF Halt
  <2> QED
    BY <2>1, <2>2, <2>3
<1> HIDE DEF n
<1>4. NoMoreDevices \/ DeviceFails \/ ProbeDrive \/ DriveUnlocked \/ DeviceSearched
  <2>1. stack' # stack
    BY <1>2 DEF n
  <2>2. ~OpenDevice
    BY <1>3 DEF OpenDevice
  <2> QED
    BY <2>1, <2>2, AtSearch
<1>5. CASE NoMoreDevices
  <2>1. Top.i > Len(Top.devices) /\ Top.i \in Nat /\ Len(Top.devices) \in Nat
    BY <1>5, SearchDevices DEF NoMoreDevices
  <2> QED
    BY <2>1
<1>6. ASSUME MissDrives(RestOfList)
      PROVE  \A k \in Top.i..Len(Top.devices) :
                 <<n, Top.devices[k], Drive(Top.devices[k]).root>> \in missed'
  BY <1>6 DEF MissDrives, RestOfList, n
<1>7. ASSUME DescendDrive PROVE Len(Top.path) = 1
  BY <1>3, <1>7 DEF DescendDrive
<1>8. CASE DeviceFails
  BY <1>6, <1>8 DEF DeviceFails, n
<1>9. CASE ProbeDrive
  <2>1. IsNamed /\ DescendDrive /\ Top.i <= Len(Top.devices)
    BY <1>3, <1>9 DEF ProbeDrive, AtDevice
  <2> QED
    BY <1>7, <2>1, NamedDrive DEF Careful
<1>10. CASE DriveUnlocked
  <2>1. Top.at = "unlocking" /\ (DescendDrive \/ MissDrives(RestOfList))
    BY <1>10 DEF DriveUnlocked, Resumes
  <2>2. Uuid(world, Head(Top.path)) \in SerialsOf(world)
    BY <2>1, TopSearch DEF SearchInPlace, Careful
  <2> QED
    BY <1>6, <1>7, <2>1, <2>2 DEF n
<1>11. CASE DeviceSearched
  BY <1>3, <1>11 DEF DeviceSearched, Return
<1> QED
  BY Zenon, <1>4, <1>5, <1>8, <1>9, <1>10, <1>11

LEMMA FailedMeansAbsent ==
  ASSUME Careful, [BootNext]_bootVars,
         Top.fn = "find_read_file", stack' = Front(stack), ret' = Err,
         NEW n \in CopiesOnDrive(Top.file), NEW d \in DrivesOf(n)
  PROVE  \E m \in missed' : m[1] = Len(stack) /\ m[2] = d /\ n \in Below(world, m[3])
<1> DEFINE p    == Len(stack)
           more == missed'
           root == world.drives[d].root
           file == Top.file
<1>1. IsCopy(world, file, n) /\ OnItsDrive(world, file, n) /\ n \in DOMAIN world.nodes
  BY CopyOnItsDrive DEF IsCopy
<1>2. d \in 1..Len(world.drives) /\ root = Root(world)[n] /\ Drive(d) = world.drives[d]
  BY DrivesOfRoot DEF Drive
<1>3. n \in Below(world, root)
  BY <1>1, <1>2, BelowRoot, TopInPlace DEF Careful
<1>4. SearchThorough(world, more, p, Top) /\ Top.i \in Nat /\ Len(Top.devices) \in Nat
  BY SearchDevices
<1>5. ASSUME NEW x, <<p, d, x>> \in more, n \in Below(world, x)
      PROVE  \E m \in more : m[1] = p /\ m[2] = d /\ n \in Below(world, m[3])
  <2>1. <<p, d, x>>[1] = p /\ <<p, d, x>>[2] = d /\ <<p, d, x>>[3] = x
    OBVIOUS
  <2> HIDE DEF p, more
  <2> QED
    BY <1>5, <2>1
<1>6. CASE <<p, d, root>> \in more
  BY <1>3, <1>5, <1>6
<1>7. CASE \E k \in 1..Len(Top.devices) : Top.devices[k] = d
  <2>1. PICK k \in 1..Len(Top.devices) : Top.devices[k] = d
    BY <1>7
  <2>2. CASE k < Top.i
    <3>1. DriveLacks(world, Unseen(world, more, p, d), file, d)
      BY <1>4, <2>1, <2>2 DEF SearchThorough
    <3>2. n \in Unseen(world, more, p, d)
      BY <1>1, <1>2, <3>1 DEF DriveLacks
    <3> QED
      BY <1>5, <3>2 DEF Unseen
  <2>3. CASE ~(k < Top.i)
    <3>1. k \in Top.i..Len(Top.devices)
      BY <1>4, <2>3
    <3>2. CASE \A j \in Top.i..Len(Top.devices) :
                   <<p, Top.devices[j], Drive(Top.devices[j]).root>> \in more
      <4>1. <<p, d, root>> \in more
        BY <1>2, <2>1, <3>1, <3>2
      <4> QED
        BY <1>3, <1>5, <4>1
    <3>3. CASE Len(Top.path) = 1 /\ Uuid(world, Head(Top.path)) \in SerialsOf(world)
      <4>1. Along(world, Top.path, file)
        BY TopSearch DEF SearchInPlace, Careful
      <4>2. ~IsCopy(world, file, n)
        <5> HIDE DEF file
        <5> QED
          BY <3>3, <4>1, NoCopies, TopInPlace DEF Careful
      <4> QED
        BY <1>1, <4>2
    <3> QED
      BY <3>2, <3>3, SearchFails
  <2> QED
    BY <2>2, <2>3
<1> QED
  BY <1>2, <1>4, <1>6, <1>7 DEF SearchThorough

\* On such a machine a search fails only if every copy of its file is stored in something
\* that this very search could not look into: a device that was dropped from its list, that
\* is spurious or locked, or at which it broke off, or a volume that could not be read or
\* opened.  Whatever was asked for, retried or unlocked in the meantime, and whatever the
\* searches around it and within it missed, is no reason.
THEOREM MissingFilesAreAbsent ==
  BootSpec /\ Orderly(world) /\ Exact(world) => NotFoundMeansAbsent
<1>1. BootInit => Thorough
  BY ThoroughInit
<1>2. InOrder /\ (Exact(world) /\ Thorough) /\ [BootNext]_bootVars => (Exact(world) /\ Thorough)'
  BY ThoroughStep, WorldStays
<1>3. InOrder /\ (Exact(world) /\ Thorough) /\ [BootNext]_bootVars =>
        [stack # <<>> /\ SearchEndsWith(Err) =>
             \A n \in CopiesOnDrive(Top.file) : \A d \in DrivesOf(n) :
                 \E m \in missed' : m[1] = Len(stack) /\ m[2] = d /\ n \in Below(world, m[3])]_vars
  <2> SUFFICES ASSUME InOrder, Exact(world), Thorough, [BootNext]_bootVars, SearchEndsWith(Err),
                      NEW n \in CopiesOnDrive(Top.file), NEW d \in DrivesOf(n)
               PROVE  \E m \in missed' : m[1] = Len(stack) /\ m[2] = d /\ n \in Below(world, m[3])
    OBVIOUS
  <2>1. Careful
    BY AlwaysGrows DEF Careful, InOrder
  <2> QED
    BY <2>1, FailedMeansAbsent DEF SearchEndsWith
<1> QED
  BY <1>1, <1>2, <1>3, AlwaysOrdered, PTL DEF BootSpec, NotFoundMeansAbsent

-------------------------------------------------------------------------------
(* The search for the ESP, whatever disks there are, whatever partitions   *)
(* they show and whatever the firmware refuses.                            *)

EspNext == (\E now, before : FindBootPartition(now, before)) \/ EspStep \/ FindEnds

\* Nothing but the search touches what it works on.
LEMMA BootStepIsEspStep ==
  ASSUME [BootNext]_bootVars
  PROVE  [EspNext]_espVars
<1>1. CASE BootStep
  <2>1. CASE FindEsp
    BY <2>1 DEF FindEsp, EspNext
  <2>2. CASE EspFound
    BY <2>2 DEF EspFound, EspNext
  <2>3. CASE LocateConfig \/ ReadConfig \/ DecodeConfig \/ RunMenu \/ RunFails \/ RunReturns \/ Exit
    BY <2>3 DEF LocateConfig, ReadConfig, DecodeConfig, RunMenu, RunFails, RunReturns, Exit, NoEsp
  <2>4. CASE ReadExtra \/ ExtraRead \/ ReadEntryFile \/ EntryFileRead \/ AllocatePagesFails
    BY <2>4 DEF ReadExtra, ExtraRead, ReadEntryFile, EntryFileRead, AllocatePagesFails, NoEsp
  <2>5. CASE LoadImage \/ Confirm \/ StartImage
    BY <2>5 DEF LoadImage, Confirm, StartImage, NoEsp
  <2>6. CASE SkipDrive \/ UnlockDrive \/ DriveFails \/ DriveDone \/ AllUnlocked
    BY <2>6 DEF SkipDrive, UnlockDrive, DriveFails, DriveDone, AllUnlocked, NoEsp
  <2> QED
    BY <1>1, <2>1, <2>2, <2>3, <2>4, <2>5, <2>6 DEF BootStep
<1>2. CASE SearchStep
  BY <1>2 DEF SearchStep
<1>3. CASE FirmwareStep
  BY <1>3 DEF FirmwareStep, EspNext
<1>4. CASE UNCHANGED bootVars
  BY <1>4 DEF bootVars
<1> QED
  BY <1>1, <1>2, <1>3, <1>4 DEF BootNext

-------------------------------------------------------------------------------
(* Handles stay live because only whole disks are reconnected, and those do *)
(* not go.                                                                  *)

LiveInv ==
  /\ phase \in {"idle", "block_devices", "reconnect"} => res = {}
  /\ phase = "block_devices" => devices \subseteq handles /\ \A h \in devices : ~h.logical
  /\ phase = "reconnect" => todo \subseteq handles /\ \A h \in todo : ~h.logical
  /\ phase = "partitions" => todo \subseteq handles
  /\ res \subseteq handles

LEMMA LiveInvStep ==
  ASSUME LiveInv, [EspNext]_espVars
  PROVE  LiveInv'
<1> USE DEF LiveInv
<1>1. ASSUME NEW now, NEW before, FindBootPartition(now, before) PROVE LiveInv'
  BY <1>1 DEF FindBootPartition
<1>2. CASE OpenBlockIo \/ BlockIoStaysShut \/ DevicesListed
  BY <1>2 DEF OpenBlockIo, BlockIoStaysShut, DevicesListed, Without, Listed
<1>3. CASE ReconnectController
  <2>1. PICK h \in todo, off \in BOOLEAN, on \in BOOLEAN :
            /\ phase = "reconnect" /\ phase' = phase /\ res' = res
            /\ handles' = Reconnected(handles, off, on, h.disk) /\ todo' = todo \ {h}
    BY <1>3 DEF ReconnectController
  <2>2. \A g \in handles : ~g.logical => g \in handles'
    BY <2>1 DEF Reconnected, Without
  <2> QED
    BY <2>1, <2>2
<1>4. CASE ListPartitions \/ OpenPartitionInfo \/ PartitionsInspected \/ OpenDevicePath \/ FindFails
  BY <1>4 DEF ListPartitions, OpenPartitionInfo, PartitionsInspected, OpenDevicePath, FindFails,
              Inspect
<1>5. CASE FindEnds
  BY <1>5 DEF FindEnds
<1>6. CASE UNCHANGED espVars
  BY <1>6 DEF espVars
<1> QED
  BY <1>1, <1>2, <1>3, <1>4, <1>5, <1>6 DEF EspNext, EspStep

LEMMA LiveInvariant == BootSpec => []LiveInv
<1>1. BootInit => LiveInv
  BY DEF BootInit, EspInit, LiveInv
<1>2. LiveInv /\ [BootNext]_bootVars => LiveInv'
  BY BootStepIsEspStep, LiveInvStep
<1> QED
  BY <1>1, <1>2, PTL DEF BootSpec

\* No handle is used after it is gone: main.rs:230 reconnects what block_devices
\* listed, and main.rs:243 and 265 open what find_handles gave.
THEOREM HandlesLive == BootSpec => []HandlesAreLive
<1>1. LiveInv => HandlesAreLive
  BY DEF LiveInv, HandlesAreLive
<1> QED
  BY <1>1, LiveInvariant, PTL

-------------------------------------------------------------------------------
(* The search has seen every ESP among the handles, and they are those of   *)
(* the disks as they are now.                                               *)

LEMMA DiskHandles ==
  \A d : ~WholeDisk(d).logical /\ WholeDisk(d).disk = d /\ ~WholeDisk(d).esp
BY DEF WholeDisk

LEMMA PartitionHandles ==
  \A d, table, fresh : \A h \in Partitions(d, table, fresh) : h.logical /\ h.disk = d
BY DEF Partitions

LEMMA AllHandles ==
  ASSUME NEW tables, NEW fresh, NEW h
  PROVE  h \in {WholeDisk(d) : d \in DOMAIN tables}
                \cup UNION {Partitions(d, tables[d], fresh) : d \in DOMAIN tables}
         <=> \E d \in DOMAIN tables : h = WholeDisk(d) \/ h \in Partitions(d, tables[d], fresh)
<1>1. h \in {WholeDisk(d) : d \in DOMAIN tables} <=> \E d \in DOMAIN tables : h = WholeDisk(d)
  OBVIOUS
<1>2. h \in UNION {Partitions(d, tables[d], fresh) : d \in DOMAIN tables}
         <=> \E d \in DOMAIN tables : h \in Partitions(d, tables[d], fresh)
  BY Zenon
<1> QED
  BY <1>1, <1>2

\* A whole disk is no ESP; an ESP that was looked at is in res, and in no list.
EspsSeen ==
  /\ \A h \in handles : h.esp => h.logical
  /\ phase = "partitions" =>
        /\ \A h \in handles : h.logical /\ h \notin todo => (h.esp <=> h \in res)
        /\ \A h \in res : h.logical /\ h.esp /\ h \notin todo /\ \A g \in res : g = h
  /\ phase = "path" =>
        /\ \A h \in handles : h.esp <=> h \in res
        /\ \A h \in res : \A g \in res : g = h
  /\ phase = "Ok" =>
        \A h \in handles : h \in res <=> h.esp /\ \A g \in handles : g.esp => g = h

LEMMA EspsSeenStep ==
  ASSUME LiveInv, EspsSeen, [EspNext]_espVars
  PROVE  EspsSeen'
<1> USE DEF EspsSeen
<1>1. ASSUME NEW now, NEW before, FindBootPartition(now, before) PROVE EspsSeen'
  <2>1. /\ phase' = "block_devices"
        /\ handles' = {WholeDisk(d) : d \in DOMAIN now}
                        \cup UNION {Partitions(d, before[d], FALSE) : d \in DOMAIN now}
    BY <1>1 DEF FindBootPartition
  <2>2. ASSUME NEW h \in handles' PROVE h.esp => h.logical
    <3>1. \E d \in DOMAIN now : h = WholeDisk(d) \/ h \in Partitions(d, before[d], FALSE)
      <4>1. CASE h \in {WholeDisk(d) : d \in DOMAIN now}
        BY <4>1
      <4>2. CASE h \in UNION {Partitions(d, before[d], FALSE) : d \in DOMAIN now}
        BY <4>2, Zenon
      <4> QED
        BY <2>1, <4>1, <4>2
    <3> QED
      BY <3>1, DiskHandles, PartitionHandles
  <2> QED
    BY <2>1, <2>2
<1>2. CASE OpenBlockIo \/ BlockIoStaysShut \/ DevicesListed
  BY <1>2 DEF OpenBlockIo, BlockIoStaysShut, DevicesListed, Without
<1>3. CASE ReconnectController
  <2>1. PICK h \in todo, off \in BOOLEAN, on \in BOOLEAN :
            phase = "reconnect" /\ phase' = phase /\ handles' = Reconnected(handles, off, on, h.disk)
    BY <1>3 DEF ReconnectController
  <2>2. \A g \in handles' : g \in handles \/ g \in Partitions(h.disk, shown[h.disk], TRUE)
    BY <2>1 DEF Reconnected, Without
  <2> QED
    BY <2>1, <2>2, PartitionHandles
<1>4. CASE ListPartitions
  BY <1>4 DEF ListPartitions, LiveInv
<1>5. CASE OpenPartitionInfo
  <2>1. PICK h \in todo \cap handles :
            /\ phase = "partitions" /\ Inspect(h) /\ todo' = todo \ {h} /\ handles' = handles
    BY <1>5 DEF OpenPartitionInfo
  <2>2. CASE h.esp /\ res # {}
    <3>1. PICK g : g \in res
      BY <2>2
    <3>2. g \in handles /\ g.esp /\ g # h
      BY <2>1, <3>1 DEF LiveInv
    <3>3. phase' = "Ok" /\ res' = {}
      BY <2>1, <2>2 DEF Inspect
    <3> QED
      BY <2>1, <2>2, <3>2, <3>3
  <2>3. CASE h.esp /\ res = {}
    <3>1. phase' = phase /\ res' = {h}
      BY <2>1, <2>3 DEF Inspect
    <3> QED
      BY <2>1, <2>3, <3>1
  <2>4. CASE ~h.esp
    <3>1. phase' = phase /\ res' = res
      BY <2>1, <2>4 DEF Inspect
    <3> QED
      BY <2>1, <2>4, <3>1
  <2> QED
    BY <2>2, <2>3, <2>4
<1>6. CASE PartitionsInspected
  BY <1>6 DEF PartitionsInspected, LiveInv
<1>7. CASE OpenDevicePath \/ FindFails \/ FindEnds
  BY <1>7 DEF OpenDevicePath, FindFails, FindEnds, LiveInv
<1>8. CASE UNCHANGED espVars
  BY <1>8 DEF espVars
<1> QED
  BY <1>1, <1>2, <1>3, <1>4, <1>5, <1>6, <1>7, <1>8 DEF EspNext, EspStep

\* As long as nothing failed: every disk was opened, which took its partitions away,
\* or is still to be; and every disk was reconnected, which brought them back, or is
\* still to be.
NothingMissed ==
  /\ phase = "block_devices" /\ ~failed =>
        /\ \A h \in handles : h.disk \in DOMAIN shown
        /\ \A h \in handles : ~h.logical => h = WholeDisk(h.disk)
        /\ \A d \in DOMAIN shown :
              /\ WholeDisk(d) \in handles
              /\ \/ WholeDisk(d) \in todo
                 \/ WholeDisk(d) \in devices /\ \A h \in handles : h.disk = d => ~h.logical
  /\ phase = "reconnect" /\ ~failed =>
        /\ \A h \in todo : h.disk \in DOMAIN shown /\ h = WholeDisk(h.disk)
        /\ \A h : h \in handles <=>
              \E d \in DOMAIN shown :
                  \/ h = WholeDisk(d)
                  \/ WholeDisk(d) \notin todo /\ h \in Partitions(d, shown[d], TRUE)
  /\ phase \in {"partitions", "path", "Ok", "Err"} /\ ~failed => handles = AllConnected

LEMMA NothingMissedStep ==
  ASSUME LiveInv, NothingMissed, [EspNext]_espVars
  PROVE  NothingMissed'
<1> USE DEF NothingMissed
<1>1. ASSUME NEW now, NEW before, FindBootPartition(now, before) PROVE NothingMissed'
  <2>1. /\ phase' = "block_devices" /\ shown' = now /\ todo' = handles'
        /\ handles' = {WholeDisk(d) : d \in DOMAIN now}
                        \cup UNION {Partitions(d, before[d], FALSE) : d \in DOMAIN now}
    BY <1>1 DEF FindBootPartition
  <2>2. ASSUME NEW h \in handles'
        PROVE  h.disk \in DOMAIN now /\ (~h.logical => h = WholeDisk(h.disk))
    <3>1. ASSUME NEW d \in DOMAIN now, h = WholeDisk(d)
          PROVE  h.disk \in DOMAIN now /\ h = WholeDisk(h.disk)
      <4>1. h.disk = d
        BY <3>1, DiskHandles
      <4> QED
        BY <3>1, <4>1
    <3>2. ASSUME NEW d \in DOMAIN now, h \in Partitions(d, before[d], FALSE)
          PROVE  h.disk \in DOMAIN now /\ h.logical
      <4>1. h.logical /\ h.disk = d
        BY <3>2, PartitionHandles
      <4> QED
        BY <3>2, <4>1
    <3>3. \/ h \in {WholeDisk(d) : d \in DOMAIN now}
          \/ h \in UNION {Partitions(d, before[d], FALSE) : d \in DOMAIN now}
      BY <2>1, <2>2
    <3>4. \/ \E d \in DOMAIN now : h = WholeDisk(d)
          \/ \E d \in DOMAIN now : h \in Partitions(d, before[d], FALSE)
      BY <3>3, Zenon
    <3> QED
      BY <3>1, <3>2, <3>4
  <2>3. \A d \in DOMAIN now : WholeDisk(d) \in handles'
    BY <2>1
  <2> QED
    BY <2>1, <2>2, <2>3
<1>2. CASE OpenBlockIo
  <2>1. PICK h \in todo \cap handles :
            /\ phase = "block_devices" /\ phase' = phase /\ UNCHANGED <<shown, failed>>
            /\ handles' = IF h.logical THEN handles ELSE Without(handles, h.disk)
            /\ devices' = IF Listed(h) THEN devices \cup {h} ELSE devices
            /\ todo' = todo \ {h}
    BY <1>2 DEF OpenBlockIo
  <2>2. CASE h.logical
    BY <2>1, <2>2, DiskHandles DEF Listed
  <2>3. CASE ~h.logical
    <3>1. \A g : g \in handles' <=> g \in handles /\ (g.disk = h.disk => ~g.logical)
      BY <2>1, <2>3 DEF Without
    <3>2. devices' = devices \cup {h}
      BY <2>1, <2>3 DEF Listed
    <3> QED
      BY <2>1, <3>1, <3>2, DiskHandles
  <2> QED
    BY <2>2, <2>3
<1>3. CASE BlockIoStaysShut
  BY <1>3 DEF BlockIoStaysShut
<1>4. CASE DevicesListed
  <2> SUFFICES ASSUME ~failed PROVE NothingMissed'
    BY <1>4 DEF DevicesListed
  <2>1. /\ phase = "block_devices" /\ todo = {} /\ phase' = "reconnect" /\ todo' = devices
        /\ UNCHANGED <<shown, handles, failed>>
    BY <1>4 DEF DevicesListed
  <2>2. \A h \in handles : h.disk \in DOMAIN shown /\ h = WholeDisk(h.disk)
    BY <2>1
  <2>3. \A d \in DOMAIN shown : WholeDisk(d) \in handles /\ WholeDisk(d) \in devices
    BY <2>1
  <2> QED
    BY <2>1, <2>2, <2>3 DEF LiveInv
<1>5. CASE ReconnectController
  <2>1. PICK h \in todo, off \in BOOLEAN, on \in BOOLEAN :
            /\ phase = "reconnect" /\ phase' = phase /\ shown' = shown
            /\ handles' = Reconnected(handles, off, on, h.disk)
            /\ todo' = todo \ {h} /\ failed' = (failed \/ ~off \/ ~on)
    BY <1>5 DEF ReconnectController
  <2> SUFFICES ASSUME ~failed' PROVE NothingMissed'
    BY <2>1
  <2>2. ~failed /\ off /\ on
    BY <2>1
  <2> DEFINE d0 == h.disk
  <2>3. d0 \in DOMAIN shown /\ h = WholeDisk(d0)
    BY <2>1, <2>2
  <2>4. ASSUME NEW g \in handles, g.disk = d0 PROVE ~g.logical
    <3>1. PICK d \in DOMAIN shown :
              \/ g = WholeDisk(d)
              \/ WholeDisk(d) \notin todo /\ g \in Partitions(d, shown[d], TRUE)
      BY <2>1, <2>2
    <3>2. g.disk = d
      BY <3>1, DiskHandles, PartitionHandles
    <3>3. d = d0
      BY <2>4, <3>2
    <3> QED
      BY <2>1, <2>3, <3>1, <3>3, DiskHandles
  <2>5. Without(handles, d0) = handles
    BY <2>4 DEF Without
  <2>6. handles' = handles \cup Partitions(d0, shown[d0], TRUE)
    BY <2>1, <2>2, <2>5 DEF Reconnected
  <2>7. \A d : WholeDisk(d) \in todo' <=> WholeDisk(d) \in todo /\ d # d0
    BY <2>1, <2>3, DiskHandles
  <2>8. \A g : g \in handles' <=>
              \E d \in DOMAIN shown :
                  \/ g = WholeDisk(d)
                  \/ WholeDisk(d) \notin todo' /\ g \in Partitions(d, shown[d], TRUE)
    BY <2>1, <2>2, <2>3, <2>6, <2>7
  <2> QED
    BY <2>1, <2>2, <2>8
<1>6. CASE ListPartitions
  <2>1. /\ phase = "reconnect" /\ todo = {} /\ phase' \in {"Err", "partitions"}
        /\ UNCHANGED <<shown, handles, failed>>
    BY <1>6 DEF ListPartitions
  <2>2. ASSUME ~failed PROVE handles = AllConnected
    <3>1. \A h : h \in handles <=>
              \E d \in DOMAIN shown : h = WholeDisk(d) \/ h \in Partitions(d, shown[d], TRUE)
      BY <2>1, <2>2
    <3>2. \A h : h \in AllConnected <=>
              \E d \in DOMAIN shown : h = WholeDisk(d) \/ h \in Partitions(d, shown[d], TRUE)
      BY AllHandles DEF AllConnected
    <3> QED
      BY <3>1, <3>2
  <2>3. AllConnected' = AllConnected
    BY <2>1 DEF AllConnected
  <2> QED
    BY <2>1, <2>2, <2>3
<1>7. CASE OpenPartitionInfo \/ PartitionsInspected \/ OpenDevicePath
  <2>1. /\ phase \in {"partitions", "path"} /\ phase' \in {"partitions", "path", "Ok"}
        /\ UNCHANGED <<shown, handles, failed>>
    BY <1>7 DEF OpenPartitionInfo, Inspect, PartitionsInspected, OpenDevicePath
  <2>2. AllConnected' = AllConnected
    BY <2>1 DEF AllConnected
  <2> QED
    BY <2>1, <2>2
<1>8. CASE FindFails \/ FindEnds
  BY <1>8 DEF FindFails, FindEnds
<1>9. CASE UNCHANGED espVars
  <2>1. UNCHANGED <<phase, shown, handles, todo, devices, failed>>
    BY <1>9 DEF espVars
  <2>2. AllConnected' = AllConnected
    BY <2>1 DEF AllConnected
  <2> QED
    BY <2>1, <2>2
<1> QED
  BY <1>1, <1>2, <1>3, <1>4, <1>5, <1>6, <1>7, <1>8, <1>9 DEF EspNext, EspStep

\* The path load_image gets is that of the only ESP; without a failure, of the only
\* one of all disks as they are after the unlocking, and all of them are connected.
THEOREM EspIsUnique == BootSpec => []EspIsTheOnlyOne
<1>1. BootInit => LiveInv /\ EspsSeen /\ NothingMissed
  BY DEF BootInit, EspInit, LiveInv, EspsSeen, NothingMissed
<1>2. LiveInv /\ EspsSeen /\ NothingMissed /\ [BootNext]_bootVars
        => LiveInv' /\ EspsSeen' /\ NothingMissed'
  BY BootStepIsEspStep, LiveInvStep, EspsSeenStep, NothingMissedStep
<1>3. EspsSeen /\ NothingMissed => EspIsTheOnlyOne
  BY DEF EspsSeen, NothingMissed, EspIsTheOnlyOne
<1> QED
  BY <1>1, <1>2, <1>3, PTL DEF BootSpec
===============================================================================
