-------------------------- MODULE OpalCommand_proofs --------------------------
(***************************************************************************)
(* What is written token by token is cut at the same places by             *)
(* OpalResponse::parse, whatever comes behind it, and the requests of a    *)
(* session mean what they are for: for integers, byte strings, challenges  *)
(* and ranges of every value.                                              *)
(***************************************************************************)
EXTENDS OpalCommand, RecursiveFunctions, SequenceTheorems, TLAPS

-------------------------------------------------------------------------------
(* Tokens one after the other in a sequence of bytes. *)

Tokens == {t \in Seq(Byte) :
              /\ t # <<>> /\ t # <<EMPTYATOM>> /\ t[1] \notin 224..239
              /\ t[1] \in 192..223 => Len(t) >= 2
              /\ \A b2, b3, b4 \in Byte :
                    (Len(t) >= 2 => b2 = t[2]) => TokenLen(t[1], b2, b3, b4) = Len(t)}

\* The tokens begin at these positions of the bytes; the last position is behind them.
Cut(c, ts, bytes) ==
    /\ c \in [1..(Len(ts) + 1) -> 1..(Len(bytes) + 1)]
    /\ c[1] = 1 /\ c[Len(ts) + 1] = Len(bytes) + 1
    /\ \A i \in 1..Len(ts) :
          /\ c[i + 1] = c[i] + Len(ts[i])
          /\ \A j \in 1..Len(ts[i]) : bytes[c[i] + j - 1] = ts[i][j]
WrittenAs(ts, bytes) == \E c : Cut(c, ts, bytes)

LEMMA NothingIsCut == WrittenAs(<<>>, <<>>)
<1> DEFINE c == [i \in 1..1 |-> 1]
<1>1. Cut(c, <<>>, <<>>)
  BY DEF Cut
<1> QED
  BY <1>1 DEF WrittenAs

LEMMA OneIsCut == ASSUME NEW t \in Seq(Byte) PROVE WrittenAs(<<t>>, t)
<1> DEFINE c == [i \in 1..2 |-> IF i = 1 THEN 1 ELSE Len(t) + 1]
<1>1. Cut(c, <<t>>, t)
  <2>1. Len(t) \in Nat /\ Len(<<t>>) = 1 /\ <<t>>[1] = t
    OBVIOUS
  <2>2. c \in [1..2 -> 1..(Len(t) + 1)] /\ c[1] = 1 /\ c[2] = Len(t) + 1
    BY <2>1
  <2> HIDE DEF c
  <2> QED
    BY <2>1, <2>2 DEF Cut
<1> QED
  BY <1>1 DEF WrittenAs

LEMMA Within ==
  ASSUME NEW n \in Nat, NEW x \in 1..(n + 1), NEW y \in Nat, x + y <= n + 1, NEW j \in 1..y
  PROVE  x + j - 1 \in 1..n
OBVIOUS

LEMMA ConcatIsCut ==
  ASSUME NEW ts \in Seq(Seq(Byte)), NEW us \in Seq(Seq(Byte)),
         NEW a \in Seq(Byte), NEW b \in Seq(Byte), WrittenAs(ts, a), WrittenAs(us, b)
  PROVE  WrittenAs(ts \o us, a \o b)
<1>1. PICK c : Cut(c, ts, a)
  BY DEF WrittenAs
<1>2. PICK d : Cut(d, us, b)
  BY DEF WrittenAs
<1> DEFINE m == Len(ts)
           n == Len(us)
           all == ts \o us
           bytes == a \o b
           e == [i \in 1..(m + n + 1) |-> IF i <= m + 1 THEN c[i] ELSE Len(a) + d[i - m]]
<1>3. /\ m \in Nat /\ n \in Nat /\ Len(a) \in Nat /\ Len(b) \in Nat
      /\ Len(all) = m + n /\ Len(bytes) = Len(a) + Len(b)
  BY ConcatProperties
<1>4. /\ \A i \in 1..(m + n) : all[i] = IF i <= m THEN ts[i] ELSE us[i - m]
      /\ \A i \in 1..(Len(a) + Len(b)) : bytes[i] = IF i <= Len(a) THEN a[i] ELSE b[i - Len(a)]
  BY ConcatProperties
<1>5. /\ \A i \in 1..(m + 1) : c[i] \in 1..(Len(a) + 1)
      /\ c[1] = 1 /\ c[m + 1] = Len(a) + 1
      /\ \A i \in 1..m : c[i + 1] = c[i] + Len(ts[i])
      /\ \A i \in 1..m : \A j \in 1..Len(ts[i]) : a[c[i] + j - 1] = ts[i][j]
  BY <1>1 DEF Cut
<1>6. /\ \A i \in 1..(n + 1) : d[i] \in 1..(Len(b) + 1)
      /\ d[1] = 1 /\ d[n + 1] = Len(b) + 1
      /\ \A i \in 1..n : d[i + 1] = d[i] + Len(us[i])
      /\ \A i \in 1..n : \A j \in 1..Len(us[i]) : b[d[i] + j - 1] = us[i][j]
  BY <1>2 DEF Cut
<1>7. /\ \A i \in 1..m : Len(ts[i]) \in Nat
      /\ \A i \in 1..n : Len(us[i]) \in Nat
  OBVIOUS
<1> HIDE DEF m, n, all, bytes
<1>8. /\ \A i \in 1..(m + 1) : e[i] = c[i]
      /\ \A i \in 1..(n + 1) : e[m + i] = Len(a) + d[i]
  <2>1. \A i \in 1..(m + 1) : e[i] = c[i]
    BY <1>3
  <2>2. ASSUME NEW i \in 1..(n + 1) PROVE e[m + i] = Len(a) + d[i]
    <3>1. CASE i = 1
      BY <1>3, <1>5, <1>6, <3>1
    <3>2. CASE i > 1
      BY <1>3, <3>2
    <3> QED
      BY <3>1, <3>2
  <2> QED
    BY <2>1, <2>2
<1>9. e \in [1..(m + n + 1) -> 1..(Len(a) + Len(b) + 1)]
  <2>1. ASSUME NEW i \in 1..(m + n + 1), i <= m + 1
        PROVE  c[i] \in 1..(Len(a) + Len(b) + 1)
    <3>1. c[i] \in 1..(Len(a) + 1)
      BY <1>3, <1>5, <2>1
    <3> QED
      BY <1>3, <3>1
  <2>2. ASSUME NEW i \in 1..(m + n + 1), ~(i <= m + 1)
        PROVE  Len(a) + d[i - m] \in 1..(Len(a) + Len(b) + 1)
    <3>1. i - m \in 1..(n + 1)
      BY <1>3, <2>2
    <3>2. d[i - m] \in 1..(Len(b) + 1)
      BY <1>6, <3>1
    <3> QED
      BY <1>3, <3>2
  <2> QED
    BY <2>1, <2>2
<1> HIDE DEF e
<1>10. e[1] = 1 /\ e[m + n + 1] = Len(a) + Len(b) + 1
  <2>1. 1 \in 1..(m + 1) /\ n + 1 \in 1..(n + 1) /\ m + n + 1 = m + (n + 1)
    BY <1>3
  <2>2. e[1] = c[1] /\ e[m + (n + 1)] = Len(a) + d[n + 1]
    BY <1>8, <2>1
  <2>3. Len(a) + (Len(b) + 1) = Len(a) + Len(b) + 1
    BY <1>3
  <2> QED
    BY <1>5, <1>6, <2>1, <2>2, <2>3
<1>11. ASSUME NEW i \in 1..m
       PROVE  /\ e[i + 1] = e[i] + Len(all[i])
              /\ \A j \in 1..Len(all[i]) : bytes[e[i] + j - 1] = all[i][j]
  <2>0. i \in 1..(m + n) /\ i <= m /\ i \in 1..(m + 1) /\ i + 1 \in 1..(m + 1)
    BY <1>3
  <2>1. all[i] = ts[i] /\ e[i] = c[i] /\ e[i + 1] = c[i + 1]
    BY <1>4, <1>8, <2>0
  <2>2. ASSUME NEW j \in 1..Len(ts[i]) PROVE bytes[c[i] + j - 1] = ts[i][j]
    <3>0. /\ c[i] \in 1..(Len(a) + 1) /\ c[i + 1] \in 1..(Len(a) + 1)
          /\ c[i + 1] = c[i] + Len(ts[i]) /\ Len(ts[i]) \in Nat
      BY <1>5, <1>7, <2>0
    <3>1. c[i] + j - 1 \in 1..Len(a)
      <4>1. c[i] + Len(ts[i]) <= Len(a) + 1
        BY <3>0
      <4> QED
        BY <1>3, <3>0, <4>1, Within
    <3>2. bytes[c[i] + j - 1] = a[c[i] + j - 1]
      BY <1>3, <1>4, <3>1
    <3> QED
      BY <1>5, <3>2
  <2> QED
    BY <1>5, <2>1, <2>2
<1>12. ASSUME NEW k \in 1..n
       PROVE  /\ e[m + k + 1] = e[m + k] + Len(all[m + k])
              /\ \A j \in 1..Len(all[m + k]) : bytes[e[m + k] + j - 1] = all[m + k][j]
  <2>0. /\ m + k \in 1..(m + n) /\ ~(m + k <= m) /\ (m + k) - m = k
        /\ k \in 1..(n + 1) /\ k + 1 \in 1..(n + 1) /\ m + k + 1 = m + (k + 1)
    BY <1>3
  <2>1. all[m + k] = us[k] /\ e[m + k] = Len(a) + d[k] /\ e[m + k + 1] = Len(a) + d[k + 1]
    BY <1>4, <1>8, <2>0
  <2>3. /\ d[k] \in 1..(Len(b) + 1) /\ d[k + 1] \in 1..(Len(b) + 1)
        /\ d[k + 1] = d[k] + Len(us[k]) /\ Len(us[k]) \in Nat
    BY <1>6, <1>7, <2>0
  <2>2. ASSUME NEW j \in 1..Len(us[k]) PROVE bytes[Len(a) + d[k] + j - 1] = us[k][j]
    <3> DEFINE r == d[k] + j - 1
    <3>1. r \in 1..Len(b) /\ Len(a) + d[k] + j - 1 = Len(a) + r
      <4>1. d[k] + Len(us[k]) <= Len(b) + 1
        BY <2>3
      <4>2. r \in 1..Len(b)
        BY <1>3, <2>3, <4>1, Within
      <4>3. Len(a) \in Int /\ d[k] \in Int /\ j \in Int
        BY <1>3, <2>3
      <4> QED
        BY <4>2, <4>3
    <3>2. b[r] = us[k][j]
      BY <1>6
    <3> HIDE DEF r
    <3>3. bytes[Len(a) + r] = b[r]
      <4> DEFINE q == Len(a) + r
      <4>1. q \in 1..(Len(a) + Len(b)) /\ ~(q <= Len(a)) /\ q - Len(a) = r
        BY <1>3, <3>1
      <4> HIDE DEF q
      <4>2. bytes[q] = b[q - Len(a)]
        BY <1>4, <4>1
      <4> QED
        BY <4>1, <4>2 DEF q
    <3> QED
      BY <3>1, <3>2, <3>3
  <2>4. e[m + k + 1] = e[m + k] + Len(all[m + k])
    <3>0. Len(a) \in Int /\ d[k] \in Int /\ Len(us[k]) \in Int
      BY <1>3, <2>3
    <3>1. Len(a) + (d[k] + Len(us[k])) = (Len(a) + d[k]) + Len(us[k])
      BY <3>0
    <3> QED
      BY <2>1, <2>3, <3>1
  <2> QED
    BY <2>1, <2>2, <2>4
<1>13. \A i \in 1..(m + n) :
          /\ e[i + 1] = e[i] + Len(all[i])
          /\ \A j \in 1..Len(all[i]) : bytes[e[i] + j - 1] = all[i][j]
  <2> TAKE i \in 1..(m + n)
  <2>1. CASE i <= m
    <3>1. i \in 1..m
      BY <1>3, <2>1
    <3> QED
      BY <1>11, <3>1
  <2>2. CASE i > m
    <3>1. i - m \in 1..n /\ m + (i - m) = i
      BY <1>3, <2>2
    <3> QED
      BY <1>12, <3>1
  <2> QED
    BY <1>3, <2>1, <2>2
<1>14. Cut(e, all, bytes)
  BY <1>3, <1>9, <1>10, <1>13 DEF Cut
<1> QED
  BY <1>14 DEF WrittenAs, all, bytes

LEMMA AppendIsCut ==
  ASSUME NEW ts \in Seq(Seq(Byte)), NEW a \in Seq(Byte), NEW t \in Seq(Byte), WrittenAs(ts, a)
  PROVE  WrittenAs(Append(ts, t), a \o t)
<1>1. Append(ts, t) = ts \o <<t>> /\ <<t>> \in Seq(Seq(Byte))
  BY AppendIsConcat
<1> QED
  BY <1>1, OneIsCut, ConcatIsCut

LEMMA SplitIsCut ==
  ASSUME NEW a \in Seq(Byte)
  PROVE  Split(a) \in Seq(Seq(Byte)) /\ WrittenAs(Split(a), a)
<1> DEFINE n == Len(a)
           c == [i \in 1..(n + 1) |-> i]
           ts == Split(a)
<1>1. n \in Nat /\ \A i \in 1..n : a[i] \in Byte
  OBVIOUS
<1>2. ts = [i \in 1..n |-> <<a[i]>>] /\ \A i \in 1..n : <<a[i]>> \in Seq(Byte)
  BY <1>1 DEF Split
<1>3. ts \in Seq(Seq(Byte)) /\ Len(ts) = n
  BY <1>1, <1>2
<1>4. \A i \in 1..n : ts[i] = <<a[i]>> /\ Len(ts[i]) = 1 /\ ts[i][1] = a[i]
  BY <1>2
<1> HIDE DEF ts
<1>5. c \in [1..(n + 1) -> 1..(n + 1)] /\ \A i \in 1..(n + 1) : c[i] = i
  BY <1>1
<1> HIDE DEF c
<1>6. \A i \in 1..n : /\ c[i + 1] = c[i] + Len(ts[i])
                     /\ \A j \in 1..Len(ts[i]) : a[c[i] + j - 1] = ts[i][j]
  <2> TAKE i \in 1..n
  <2>1. c[i] = i /\ c[i + 1] = i + 1 /\ i \in Int
    BY <1>1, <1>5
  <2>2. Len(ts[i]) = 1 /\ ts[i][1] = a[i]
    BY <1>4
  <2>3. \A j \in 1..1 : j = 1
    OBVIOUS
  <2> QED
    BY <2>1, <2>2, <2>3
<1>7. Cut(c, ts, a)
  BY <1>1, <1>3, <1>5, <1>6 DEF Cut
<1> QED
  BY <1>3, <1>7 DEF WrittenAs, ts

-------------------------------------------------------------------------------
(* FlattenSeq. *)

Flattened(ss) == CHOOSE f : f = [i \in 1..Len(ss) |->
                     IF i = 1 THEN ss[i] ELSE f[i - 1] \o ss[i]]

LEMMA FlattenIsFlattened ==
  ASSUME NEW ss, Len(ss) # 0 PROVE FlattenSeq(ss) = Flattened(ss)[Len(ss)]
BY DEF FlattenSeq, Flattened

LEMMA FlattenEquation ==
  ASSUME NEW S, NEW ss \in Seq(Seq(S))
  PROVE  \A i \in 1..Len(ss) :
             /\ Flattened(ss)[i] \in Seq(S)
             /\ Flattened(ss)[i] = IF i = 1 THEN ss[i] ELSE Flattened(ss)[i - 1] \o ss[i]
<1> DEFINE D    == 1..Len(ss)
           up   == [i \in D |-> i - 1]
           V    == Seq(S)
           base == [i \in D |-> ss[i]]
           step == [i \in D |-> [s \in V |-> s \o ss[i]]]
           IsFlat(f) == f = [i \in D |-> IF i = 1 THEN ss[i] ELSE f[i - 1] \o ss[i]]
<1>0. Len(ss) \in Nat /\ \A i \in D : ss[i] \in V
  OBVIOUS
<1>1. D \in SUBSET Nat
  BY <1>0
<1>2. Forest(D, up)
  <2> SUFFICES ASSUME NEW T \in SUBSET D, T # {} PROVE \E p \in T : up[p] \notin T
    BY DEF Forest
  <2>1. PICK p \in T : \A q \in T : p <= q
    BY <1>1, LeastNumber
  <2>2. p \in Nat /\ up[p] = p - 1
    BY <1>1
  <2> QED
    BY <2>1, <2>2
<1>3. \A i \in D, s \in V : s \o ss[i] \in V
  BY <1>0, ConcatProperties
<1>4. base \in [D -> V] /\ step \in [D -> [V -> V]]
  BY <1>0, <1>3
<1>5. PICK f \in [D -> V] : Unfolds(f, D, up, base, step)
  <2> HIDE DEF D, up, V, base, step
  <2> QED
    BY <1>2, <1>4, ForestRecursion
<1>6. IsFlat(f)
  <2>1. ASSUME NEW i \in D
        PROVE  f[i] = IF i = 1 THEN ss[i] ELSE f[i - 1] \o ss[i]
    <3>1. CASE i = 1
      <4>1. up[i] \notin D
        BY <3>1
      <4>2. f[i] = base[i]
        BY <1>5, <4>1 DEF Unfolds
      <4> QED
        BY <3>1, <4>2
    <3>2. CASE i # 1
      <4>1. up[i] = i - 1 /\ i - 1 \in D
        BY <1>0, <3>2
      <4>2. f[i - 1] \in V /\ f[i] = step[i][f[i - 1]]
        BY Zenon, <1>5, <4>1 DEF Unfolds
      <4> QED
        BY <3>2, <4>2
    <3> QED
      BY <3>1, <3>2
  <2> QED
    BY <2>1
<1>7. IsFlat(Flattened(ss))
  BY Zenon, <1>6 DEF Flattened
<1> DEFINE F == Flattened(ss)
<1>8. \A i \in D : F[i] = IF i = 1 THEN ss[i] ELSE F[i - 1] \o ss[i]
  BY <1>7, Zenon
<1> HIDE DEF F
<1>9. \A i \in D : F[i] \in V
  <2> DEFINE B == {i \in D : F[i] \notin V}
  <2> SUFFICES ASSUME B # {} PROVE FALSE
    OBVIOUS
  <2>1. PICK p \in B : \A q \in B : p <= q
    BY <1>1, LeastNumber
  <2>2. CASE p = 1
    BY <1>0, <1>8, <2>2
  <2>3. CASE p # 1
    <3>1. p - 1 \in D /\ ~(p <= p - 1)
      BY <1>0, <2>3
    <3>2. F[p - 1] \in V
      BY <2>1, <3>1
    <3>3. F[p] = F[p - 1] \o ss[p]
      BY <1>8, <2>3
    <3> QED
      BY <1>3, <3>2, <3>3
  <2> QED
    BY <2>2, <2>3
<1> QED
  BY <1>8, <1>9 DEF F

LEMMA FlattenIsCut ==
  ASSUME NEW ts \in Seq(Seq(Byte))
  PROVE  FlattenSeq(ts) \in Seq(Byte) /\ WrittenAs(ts, FlattenSeq(ts))
<1> DEFINE n == Len(ts)
           F == Flattened(ts)
           Upto(i) == SubSeq(ts, 1, i)
<1>0. n \in Nat /\ \A i \in 1..n : ts[i] \in Seq(Byte)
  OBVIOUS
<1>1. CASE n = 0
  <2>1. ts = <<>> /\ FlattenSeq(ts) = ts
    BY <1>1 DEF FlattenSeq
  <2>2. WrittenAs(<<>>, <<>>) /\ <<>> \in Seq(Byte)
    BY NothingIsCut
  <2> QED
    BY <2>1, <2>2
<1>2. CASE n # 0
  <2>1. FlattenSeq(ts) = F[n]
    BY <1>2, FlattenIsFlattened
  <2>2. \A i \in 1..n : F[i] \in Seq(Byte) /\ F[i] = IF i = 1 THEN ts[i] ELSE F[i - 1] \o ts[i]
    BY FlattenEquation
  <2> HIDE DEF F
  <2>3. ASSUME NEW i \in 1..n PROVE WrittenAs(Upto(i), F[i])
    <3> DEFINE B == {k \in 1..n : ~WrittenAs(Upto(k), F[k])}
    <3> SUFFICES ASSUME B # {} PROVE FALSE
      OBVIOUS
    <3>0. B \in SUBSET Nat
      BY <1>0
    <3>1. PICK k \in B : \A q \in B : k <= q
      BY <3>0, LeastNumber
    <3>2. CASE k = 1
      <4>0. 1 \in 1..n
        BY <1>0, <1>2
      <4>1. ts[1] \in Seq(Byte) /\ F[1] = ts[1]
        BY <1>0, <2>2, <4>0
      <4>2. Upto(1) = <<ts[1]>>
        <5>1. /\ Upto(1) \in Seq(Seq(Byte)) /\ Len(Upto(1)) = 1
              /\ \A j \in 1..1 : Upto(1)[j] = ts[j]
          BY <1>0, <4>0
        <5>2. /\ <<ts[1]>> \in Seq(Seq(Byte)) /\ Len(<<ts[1]>>) = 1
              /\ \A j \in 1..1 : <<ts[1]>>[j] = ts[j]
          BY <4>1
        <5> HIDE DEF Upto
        <5>3. \A j \in 1..Len(Upto(1)) : Upto(1)[j] = <<ts[1]>>[j]
          BY <5>1, <5>2
        <5> QED
          BY <5>1, <5>2, <5>3, SeqEqual
      <4> QED
        BY <3>1, <3>2, <4>1, <4>2, OneIsCut
    <3>3. CASE k # 1
      <4>1. k - 1 \in 1..n /\ ~(k <= k - 1)
        BY <1>0, <3>3
      <4>2. WrittenAs(Upto(k - 1), F[k - 1])
        BY <3>1, <4>1
      <4>7. /\ F[k] = F[k - 1] \o ts[k] /\ F[k - 1] \in Seq(Byte) /\ ts[k] \in Seq(Byte)
        BY <1>0, <2>2, <3>3, <4>1
      <4>8. Upto(k - 1) \in Seq(Seq(Byte)) /\ <<ts[k]>> \in Seq(Seq(Byte))
        BY <1>0, <4>1, <4>7
      <4>3. /\ F[k] = F[k - 1] \o ts[k] /\ F[k - 1] \in Seq(Byte) /\ ts[k] \in Seq(Byte)
            /\ Upto(k - 1) \in Seq(Seq(Byte)) /\ <<ts[k]>> \in Seq(Seq(Byte))
        BY <4>7, <4>8
      <4>4. Upto(k) = Upto(k - 1) \o <<ts[k]>>
        BY <1>0, <4>1, SubSeqRecursiveSecond
      <4>5. WrittenAs(<<ts[k]>>, ts[k])
        BY <4>3, OneIsCut
      <4> HIDE DEF Upto
      <4>6. WrittenAs(Upto(k), F[k])
        BY <4>2, <4>3, <4>4, <4>5, ConcatIsCut
      <4> QED
        BY <4>6
    <3> QED
      BY <3>2, <3>3
  <2>4. n \in 1..n /\ Upto(n) = ts
    BY <1>0, <1>2
  <2> QED
    BY <2>1, <2>2, <2>3, <2>4
<1> QED
  BY <1>1, <1>2

\* Short sequences of sequences.
LEMMA FlattenNone == FlattenSeq(<<>>) = <<>>
BY DEF FlattenSeq

LEMMA FlattenFirst ==
  ASSUME NEW S, NEW ss \in Seq(Seq(S)), NEW n \in Nat, Len(ss) = n + 1
  PROVE  Flattened(ss)[1] = ss[1]
BY FlattenEquation

LEMMA FlattenNext ==
  ASSUME NEW S, NEW ss \in Seq(Seq(S)), NEW i \in 1..Len(ss), i # 1,
         NEW h, Flattened(ss)[i - 1] = h
  PROVE  Flattened(ss)[i] = h \o ss[i]
BY FlattenEquation

LEMMA FlattenOne ==
  ASSUME NEW S, NEW a \in Seq(S)
  PROVE  FlattenSeq(<<a>>) = a
<1> DEFINE ss == <<a>>
<1>1. ss \in Seq(Seq(S)) /\ Len(ss) = 0 + 1 /\ ss[1] = a
  OBVIOUS
<1> HIDE DEF ss
<1>2. Flattened(ss)[1] = a
  BY <1>1, FlattenFirst
<1>4. FlattenSeq(ss) = Flattened(ss)[1]
  <2>1. Len(ss) # 0 /\ Len(ss) = 1
    BY <1>1
  <2>2. FlattenSeq(ss) = Flattened(ss)[Len(ss)]
    BY <2>1, FlattenIsFlattened, Zenon
  <2> QED
    BY <2>1, <2>2
<1> QED
  BY <1>2, <1>4 DEF ss

LEMMA FlattenTwo ==
  ASSUME NEW S, NEW a \in Seq(S), NEW b \in Seq(S)
  PROVE  FlattenSeq(<<a, b>>) = a \o b
<1> DEFINE ss == <<a, b>>
<1>1. ss \in Seq(Seq(S)) /\ Len(ss) = 2 /\ 2 = 1 + 1 /\ ss[1] = a /\ ss[2] = b
  OBVIOUS
<1> HIDE DEF ss
<1>2. Flattened(ss)[1] = a
  BY <1>1, FlattenFirst
<1>3. Flattened(ss)[2] = a \o ss[2]
  <2>1. Flattened(ss)[2 - 1] = a /\ 2 \in 1..Len(ss) /\ 2 # 1
    BY <1>1, <1>2
  <2> QED
    BY <1>1, <2>1, FlattenNext
<1>4. FlattenSeq(ss) = Flattened(ss)[2]
  <2>1. Len(ss) # 0 /\ Len(ss) = 2
    BY <1>1
  <2>2. FlattenSeq(ss) = Flattened(ss)[Len(ss)]
    BY <2>1, FlattenIsFlattened, Zenon
  <2> QED
    BY <2>1, <2>2
<1> QED
  BY <1>1, <1>3, <1>4 DEF ss

LEMMA FlattenFive ==
  ASSUME NEW S, NEW ss \in Seq(Seq(S)), Len(ss) = 5
  PROVE  FlattenSeq(ss) = (((ss[1] \o ss[2]) \o ss[3]) \o ss[4]) \o ss[5]
<1>1. Len(ss) = 5 /\ 5 = 4 + 1
  OBVIOUS
<1> DEFINE F == Flattened(ss)
<1>2. F[1] = ss[1]
  BY <1>1, FlattenFirst
<1>3. ASSUME NEW i \in 2..5, NEW h, F[i - 1] = h PROVE F[i] = h \o ss[i]
  <2>1. i \in 1..Len(ss) /\ i # 1
    BY <1>1
  <2> QED
    BY <1>1, <1>3, <2>1, FlattenNext
<1> HIDE DEF F
<1>4. F[2] = ss[1] \o ss[2]
  <2>1. 2 \in 2..5 /\ F[2 - 1] = ss[1]
    BY <1>2
  <2> QED
    BY <1>1, <1>3, <2>1
<1>5. F[3] = (ss[1] \o ss[2]) \o ss[3]
  <2>1. 3 \in 2..5 /\ F[3 - 1] = ss[1] \o ss[2]
    BY <1>4
  <2> QED
    BY <1>1, <1>3, <2>1
<1>6. F[4] = ((ss[1] \o ss[2]) \o ss[3]) \o ss[4]
  <2>1. 4 \in 2..5 /\ F[4 - 1] = (ss[1] \o ss[2]) \o ss[3]
    BY <1>5
  <2> QED
    BY <1>1, <1>3, <2>1
<1>7. F[5] = (((ss[1] \o ss[2]) \o ss[3]) \o ss[4]) \o ss[5]
  <2>1. 5 \in 2..5 /\ F[5 - 1] = ((ss[1] \o ss[2]) \o ss[3]) \o ss[4]
    BY <1>6
  <2> QED
    BY <1>1, <1>3, <2>1
<1>8. FlattenSeq(ss) = F[5]
  <2>1. Len(ss) # 0 /\ Len(ss) = 5
    BY <1>1
  <2>2. FlattenSeq(ss) = F[Len(ss)]
    BY <2>1, FlattenIsFlattened, Zenon DEF F
  <2> QED
    BY <2>1, <2>2
<1> QED
  BY <1>7, <1>8

-------------------------------------------------------------------------------
(* What the crate writes are tokens. *)

LEMMA FunctionIsSeq ==
  ASSUME NEW S, NEW n \in Nat, NEW f \in [1..n -> S]
  PROVE  f \in Seq(S) /\ Len(f) = n
<1>1. f = [i \in 1..n |-> f[i]]
  OBVIOUS
<1>2. \A i \in 1..n : f[i] \in S
  OBVIOUS
<1>3. [i \in 1..n |-> f[i]] \in Seq(S)
  BY <1>2
<1>4. Len([i \in 1..n |-> f[i]]) = n
  OBVIOUS
<1> QED
  BY <1>1, <1>3, <1>4

LEMMA OneAndOne ==
  ASSUME NEW S, NEW a \in S, NEW b \in S
  PROVE  <<a>> \o <<b>> = <<a, b>>
<1>1. <<a>> \in Seq(S) /\ <<b>> \in Seq(S) /\ <<a, b>> \in Seq(S)
  OBVIOUS
<1>2. /\ Len(<<a>>) = 1 /\ Len(<<b>>) = 1 /\ Len(<<a, b>>) = 2
      /\ <<a>>[1] = a /\ <<b>>[1] = b /\ <<a, b>>[1] = a /\ <<a, b>>[2] = b
  OBVIOUS
<1> DEFINE l == <<a>>
           r == <<b>>
           t == <<a, b>>
<1> HIDE DEF l, r, t
<1>3. l \o r \in Seq(S) /\ Len(l \o r) = 2 /\ (l \o r)[1] = a /\ (l \o r)[2] = b
  BY <1>1, <1>2, ConcatProperties DEF l, r
<1>4. t \in Seq(S) /\ Len(t) = 2 /\ t[1] = a /\ t[2] = b
  BY <1>1, <1>2 DEF t
<1>5. \A i \in 1..2 : (l \o r)[i] = t[i]
  BY <1>3, <1>4
<1>6. l \o r = t
  BY <1>3, <1>4, <1>5, SeqEqual
<1> QED
  BY <1>6 DEF l, r, t

LEMMA OneAndTwo ==
  ASSUME NEW S, NEW a \in S, NEW b \in S, NEW c \in S
  PROVE  <<a>> \o <<b, c>> = <<a, b, c>>
<1>1. <<a>> \in Seq(S) /\ <<b, c>> \in Seq(S) /\ <<a, b, c>> \in Seq(S)
  OBVIOUS
<1>2. /\ Len(<<a>>) = 1 /\ Len(<<b, c>>) = 2 /\ Len(<<a, b, c>>) = 3
      /\ <<a>>[1] = a /\ <<b, c>>[1] = b /\ <<b, c>>[2] = c
      /\ <<a, b, c>>[1] = a /\ <<a, b, c>>[2] = b /\ <<a, b, c>>[3] = c
  OBVIOUS
<1> DEFINE l == <<a>>
           r == <<b, c>>
           t == <<a, b, c>>
<1> HIDE DEF l, r, t
<1>3. /\ l \o r \in Seq(S) /\ Len(l \o r) = 3
      /\ (l \o r)[1] = a /\ (l \o r)[2] = b /\ (l \o r)[3] = c
  BY <1>1, <1>2, ConcatProperties DEF l, r
<1>4. t \in Seq(S) /\ Len(t) = 3 /\ t[1] = a /\ t[2] = b /\ t[3] = c
  BY <1>1, <1>2 DEF t
<1>5. \A i \in 1..3 : (l \o r)[i] = t[i]
  BY <1>3, <1>4
<1>6. l \o r = t
  BY <1>3, <1>4, <1>5, SeqEqual
<1> QED
  BY <1>6 DEF l, r, t

LEMMA TokenLenCases ==
  ASSUME NEW b1 \in Byte, NEW b2 \in Byte, NEW b3 \in Byte, NEW b4 \in Byte
  PROVE  /\ b1 < 128 \/ b1 >= 240 => TokenLen(b1, b2, b3, b4) = 1
         /\ b1 \in 128..191 => TokenLen(b1, b2, b3, b4) = (b1 % 16) + 1
         /\ b1 \in 192..223 => TokenLen(b1, b2, b3, b4) = ((b1 % 8) * 256) + b2 + 2
BY DEF TokenLen, Byte

LEMMA OneByteIsToken ==
  ASSUME NEW b \in Byte, b < 128 \/ b >= 240, b # EMPTYATOM
  PROVE  <<b>> \in Tokens
<1>1. <<b>> \in Seq(Byte) /\ <<b>> # <<>> /\ <<b>>[1] = b /\ Len(<<b>>) = 1
  OBVIOUS
<1>2. <<b>> # <<EMPTYATOM>> /\ b \notin 224..239 /\ b \notin 192..223
  BY DEF Byte
<1>3. \A b2, b3, b4 \in Byte : TokenLen(b, b2, b3, b4) = 1
  BY TokenLenCases
<1> QED
  BY <1>1, <1>2, <1>3 DEF Tokens

LEMMA ShortIsToken ==
  ASSUME NEW b \in 128..191, NEW s \in Seq(Byte), Len(s) = b % 16
  PROVE  <<b>> \o s \in Tokens
<1> DEFINE t == <<b>> \o s
<1>1. b \in Byte /\ <<b>> \in Seq(Byte) /\ Len(<<b>>) = 1 /\ <<b>>[1] = b /\ Len(s) \in Nat
  BY DEF Byte
<1>2. t \in Seq(Byte) /\ Len(t) = Len(s) + 1 /\ t[1] = b
  BY <1>1, ConcatProperties
<1> HIDE DEF t
<1>3. t # <<>> /\ t # <<EMPTYATOM>>
  <2>1. <<EMPTYATOM>>[1] = 255 /\ Len(<<>>) = 0
    BY DEF EMPTYATOM
  <2> QED
    BY <1>1, <1>2, <2>1
<1>4. \A b2, b3, b4 \in Byte : TokenLen(b, b2, b3, b4) = Len(t)
  BY <1>1, <1>2, TokenLenCases
<1>5. t[1] \notin 224..239 /\ t[1] \notin 192..223
  BY <1>2
<1>6. \A b2, b3, b4 \in Byte : (Len(t) >= 2 => b2 = t[2]) => TokenLen(t[1], b2, b3, b4) = Len(t)
  BY <1>2, <1>4
<1>7. t \in Tokens
  BY <1>2, <1>3, <1>5, <1>6, Zenon DEF Tokens
<1> QED
  BY <1>7 DEF t

LEMMA MediumIsToken ==
  ASSUME NEW q \in 0..7, NEW r \in Byte, NEW s \in Seq(Byte), Len(s) = (q * 256) + r
  PROVE  <<208 + q, r>> \o s \in Tokens
<1> DEFINE b == 208 + q
           h == <<b, r>>
           t == h \o s
<1>1. b \in Byte /\ b \in 192..223 /\ b \notin 224..239 /\ b # 255 /\ b % 8 = q
  <2>1. b \in 208..215
    OBVIOUS
  <2>2. b % 8 = q
    OBVIOUS
  <2> HIDE DEF b
  <2> QED
    BY <2>1, <2>2 DEF Byte
<1> HIDE DEF b
<1>2. h \in Seq(Byte) /\ Len(h) = 2 /\ h[1] = b /\ h[2] = r /\ Len(s) \in Nat
  BY <1>1
<1>3. t \in Seq(Byte) /\ Len(t) = Len(s) + 2 /\ t[1] = b /\ t[2] = r
  BY <1>2, ConcatProperties
<1> HIDE DEF h, t
<1>4. t # <<>> /\ t # <<EMPTYATOM>>
  <2>1. <<EMPTYATOM>>[1] = 255 /\ Len(<<>>) = 0
    BY DEF EMPTYATOM
  <2> QED
    BY <1>1, <1>2, <1>3, <2>1
<1>5. ASSUME NEW b3 \in Byte, NEW b4 \in Byte PROVE TokenLen(b, r, b3, b4) = Len(t)
  <2>1. TokenLen(b, r, b3, b4) = ((b % 8) * 256) + r + 2
    BY <1>1, TokenLenCases
  <2>2. q * 256 \in Nat /\ r \in Nat
    BY DEF Byte
  <2> QED
    BY <1>1, <1>3, <2>1, <2>2
<1>6. Len(t) >= 2
  BY <1>2, <1>3
<1>7. \A b2, b3, b4 \in Byte : (Len(t) >= 2 => b2 = t[2]) => TokenLen(t[1], b2, b3, b4) = Len(t)
  BY <1>3, <1>5, <1>6
<1>8. t \in Tokens
  BY <1>1, <1>3, <1>4, <1>6, <1>7 DEF Tokens
<1> QED
  BY <1>8 DEF t, h, b

LEMMA IntegerIsToken == ASSUME NEW v \in U64 PROVE WriteU64(v) \in Tokens
<1>1. /\ v \in Seq(Byte) /\ Len(v) = 8 /\ \A i \in 1..8 : v[i] \in Byte
  BY FunctionIsSeq DEF U64
<1>0. v[7] \in Byte /\ v[8] \in Byte
  BY <1>1
<1>2. CASE IsZero(v, 1, 7) /\ v[8] < 64
  <2>1. WriteU64(v) = <<v[8]>>
    <3>1. IsZero(v, 1, 6) /\ IsZero(v, 1, 4) /\ v[5] = 0 /\ v[6] = 0 /\ v[7] = 0 /\ ~(v[8] >= 64)
      BY <1>0, <1>2 DEF IsZero, Byte
    <3> QED
      BY <1>2, <3>1, Zenon DEF WriteU64
  <2>2. v[8] \in Byte /\ v[8] < 128 /\ v[8] # EMPTYATOM
    BY <1>0, <1>2 DEF Byte, EMPTYATOM
  <2> QED
    BY <2>1, <2>2, OneByteIsToken
<1>3. CASE IsZero(v, 1, 7) /\ v[8] >= 64
  <2>1. WriteU64(v) = <<129, v[8]>>
    BY <1>0, <1>3 DEF WriteU64, IsZero, Byte
  <2>2. <<v[8]>> \in Seq(Byte) /\ Len(<<v[8]>>) = 129 % 16 /\ 129 \in 128..191
    BY <1>1
  <2>3. <<129>> \o <<v[8]>> \in Tokens
    BY <2>2, ShortIsToken
  <2>4. <<129>> \o <<v[8]>> = <<129, v[8]>>
    <3>1. 129 \in Byte
      BY DEF Byte
    <3> QED
      BY <1>0, <3>1, OneAndOne
  <2> QED
    BY <2>1, <2>3, <2>4
<1>4. CASE IsZero(v, 1, 6) /\ v[7] # 0
  <2>1. WriteU64(v) = <<130, v[7], v[8]>>
    BY <1>4 DEF WriteU64, IsZero
  <2>2. <<v[7], v[8]>> \in Seq(Byte) /\ Len(<<v[7], v[8]>>) = 130 % 16 /\ 130 \in 128..191
    BY <1>1
  <2>3. <<130>> \o <<v[7], v[8]>> \in Tokens
    BY <2>2, ShortIsToken
  <2>4. <<130>> \o <<v[7], v[8]>> = <<130, v[7], v[8]>>
    <3>1. 130 \in Byte
      BY DEF Byte
    <3> QED
      BY <1>0, <3>1, OneAndTwo
  <2> QED
    BY <2>1, <2>3, <2>4
<1>5. CASE IsZero(v, 1, 4) /\ (v[5] # 0 \/ v[6] # 0)
  <2>1. WriteU64(v) = <<132>> \o SubSeq(v, 5, 8)
    BY <1>5 DEF WriteU64, IsZero
  <2>2. SubSeq(v, 5, 8) \in Seq(Byte) /\ Len(SubSeq(v, 5, 8)) = 132 % 16 /\ 132 \in 128..191
    BY <1>1
  <2> QED
    BY <2>1, <2>2, ShortIsToken
<1>6. CASE ~IsZero(v, 1, 4)
  <2>1. WriteU64(v) = <<136>> \o v
    BY <1>6 DEF WriteU64, IsZero
  <2>2. Len(v) = 136 % 16 /\ 136 \in 128..191
    BY <1>1
  <2> QED
    BY <1>1, <2>1, <2>2, ShortIsToken
<1>7. IsZero(v, 1, 4) /\ v[5] = 0 /\ v[6] = 0 => IsZero(v, 1, 6)
  BY DEF IsZero
<1>8. IsZero(v, 1, 6) /\ v[7] = 0 => IsZero(v, 1, 7)
  BY DEF IsZero
<1>9. v[8] < 64 \/ v[8] >= 64
  BY <1>0 DEF Byte
<1> QED
  BY <1>2, <1>3, <1>4, <1>5, <1>6, <1>7, <1>8, <1>9

\* The ranges of lengths, by themselves.
LEMMA LengthCases ==
  ASSUME NEW n \in Nat
  PROVE  /\ n \in 1..15 => n \notin 16..2047 /\ n # 0
         /\ n \in 16..2047 => n \notin 1..15 /\ n # 0
         /\ n = 0 => n \notin 1..15 /\ n \notin 16..2047
         /\ n < 2048 => n = 0 \/ n \in 1..15 \/ n \in 16..2047
OBVIOUS

LEMMA LengthBytes ==
  ASSUME NEW n \in Nat, n < 2048
  PROVE  n \div 256 \in 0..7 /\ n % 256 \in Byte /\ n = ((n \div 256) * 256) + (n % 256)
BY DEF Byte

LEMMA StringIsToken == ASSUME NEW s \in Writable PROVE WriteBytes(s) \in Tokens
<1> DEFINE n == Len(s)
           none   == n = 0
           short  == n \in 1..15
           medium == n \in 16..2047
           b == 160 + n
           q == n \div 256
           r == n % 256
           asShort  == <<b>> \o s
           asMedium == <<208 + q, r>> \o s
<1>1. s \in Seq(Byte)
  BY DEF Writable
<1>2. n \in Nat /\ n < 2048
  BY DEF Writable
<1>3. n = Len(s)
  OBVIOUS
<1>4. WriteBytes(s) = CASE none   -> <<161, 0>>
                        [] short  -> asShort
                        [] medium -> asMedium
                        [] OTHER  -> Panic
  BY Zenon DEF WriteBytes
<1> HIDE DEF n
<1>5. /\ none \/ short \/ medium
      /\ none => ~short /\ ~medium
      /\ short => ~none /\ ~medium
      /\ medium => ~none /\ ~short
  BY <1>2, LengthCases
<1>6. short => b \in 128..191 /\ n = b % 16
  BY <1>2
<1>7. q \in 0..7 /\ r \in Byte /\ n = (q * 256) + r
  BY <1>2, LengthBytes
<1> HIDE DEF none, short, medium, b, q, r
<1>8. <<161, 0>> \in Tokens
  <2>1. 161 \in Byte /\ 0 \in Byte /\ 161 \in 128..191
    BY DEF Byte
  <2>2. <<0>> \in Seq(Byte) /\ Len(<<0>>) = 161 % 16
    BY <2>1
  <2>3. <<161>> \o <<0>> \in Tokens
    BY <2>1, <2>2, ShortIsToken
  <2>4. <<161>> \o <<0>> = <<161, 0>>
    BY <2>1, OneAndOne
  <2> QED
    BY <2>3, <2>4
<1>9. short => asShort \in Tokens
  <2> SUFFICES ASSUME short PROVE <<b>> \o s \in Tokens
    OBVIOUS
  <2>1. b \in 128..191 /\ Len(s) = b % 16
    BY <1>3, <1>6
  <2> QED
    BY <1>1, <2>1, ShortIsToken
<1>10. asMedium \in Tokens \/ ~medium
  <2>1. Len(s) = (q * 256) + r
    BY <1>3, <1>7
  <2> QED
    BY Zenon, <1>1, <1>7, <2>1, MediumIsToken
<1> HIDE DEF asShort, asMedium
<1>11. none => WriteBytes(s) = <<161, 0>>
  BY <1>4, <1>5
<1>12. short => WriteBytes(s) = asShort
  BY <1>4, <1>5
<1>13. medium => WriteBytes(s) = asMedium
  BY <1>4, <1>5
<1> QED
  BY <1>5, <1>8, <1>9, <1>10, <1>11, <1>12, <1>13

-------------------------------------------------------------------------------
(* Parse. *)

LEMMA TokenHasBytes ==
  ASSUME NEW b1 \in Byte, NEW b2 \in Byte, NEW b3 \in Byte, NEW b4 \in Byte
  PROVE  TokenLen(b1, b2, b3, b4) \in Nat /\ TokenLen(b1, b2, b3, b4) >= 1
<1>1. b1 < 128 \/ b1 >= 240 \/ b1 \in 128..191 \/ b1 \in 192..223 \/ b1 \in 224..239
  BY DEF Byte
<1>2. CASE b1 \in 224..239
  <2>1. TokenLen(b1, b2, b3, b4) = (b2 * 65536) + (b3 * 256) + b4 + 4
    BY <1>2 DEF TokenLen, Byte
  <2> QED
    BY <2>1 DEF Byte
<1>3. CASE b1 \in 192..223
  <2>1. TokenLen(b1, b2, b3, b4) = ((b1 % 8) * 256) + b2 + 2
    BY <1>3, TokenLenCases
  <2>2. b1 % 8 \in 0..7
    BY DEF Byte
  <2> QED
    BY <2>1, <2>2 DEF Byte
<1>4. CASE b1 \in 128..191
  <2>1. TokenLen(b1, b2, b3, b4) = (b1 % 16) + 1
    BY <1>4, TokenLenCases
  <2>2. b1 % 16 \in 0..15
    BY DEF Byte
  <2> QED
    BY <2>1, <2>2
<1>5. CASE b1 < 128 \/ b1 >= 240
  BY <1>5, TokenLenCases
<1> QED
  BY <1>1, <1>2, <1>3, <1>4, <1>5

\* What Parse makes of the bytes from a position on, if there is such a function.
ParseAt(bytes, i)     == IF i \in 1..Len(bytes) THEN bytes[i] ELSE 0
ParseSize(bytes, pos) == TokenLen(ParseAt(bytes, pos), ParseAt(bytes, pos + 1),
                                  ParseAt(bytes, pos + 2), ParseAt(bytes, pos + 3))
ParseToken(bytes, pos) == SubSeq(bytes, pos, pos + ParseSize(bytes, pos) - 1)
ParseNext(token, rest) ==
    IF rest = Panic THEN Panic ELSE IF token = <<EMPTYATOM>> THEN rest ELSE <<token>> \o rest
IsParse(f, n, bytes) ==
    f = [pos \in Nat |->
            IF pos > n THEN <<>>
            ELSE IF ~(pos + ParseSize(bytes, pos) - 1 <= Len(bytes)) THEN Panic
            ELSE ParseNext(ParseToken(bytes, pos), f[pos + ParseSize(bytes, pos)])]

LEMMA ParseIsParse ==
  ASSUME NEW n, NEW bytes
  PROVE  Parse(n, bytes) = (CHOOSE f : IsParse(f, n, bytes))[1]
BY Zenon DEF Parse, IsParse, ParseNext, ParseToken, ParseSize, ParseAt

LEMMA ParseAtIsByte ==
  ASSUME NEW bytes \in Seq(Byte), NEW i PROVE ParseAt(bytes, i) \in Byte
<1>1. 0 \in Byte
  BY DEF Byte
<1>2. CASE i \in 1..Len(bytes)
  BY <1>2 DEF ParseAt
<1>3. CASE i \notin 1..Len(bytes)
  BY <1>1, <1>3 DEF ParseAt
<1> QED
  BY <1>2, <1>3

LEMMA ParseSizeIsNat ==
  ASSUME NEW bytes \in Seq(Byte), NEW pos
  PROVE  ParseSize(bytes, pos) \in Nat /\ ParseSize(bytes, pos) >= 1
<1>1. \A i : ParseAt(bytes, i) \in Byte
  BY ParseAtIsByte
<1> QED
  BY <1>1, TokenHasBytes DEF ParseSize

LEMMA ParseExists ==
  ASSUME NEW n \in Nat, NEW bytes \in Seq(Byte)
  PROVE  \E f : IsParse(f, n, bytes)
<1> DEFINE Size(p) == ParseSize(bytes, p)
           Tok(p)  == ParseToken(bytes, p)
           Stop(p) == p > n \/ ~(p + Size(p) - 1 <= Len(bytes))
           up   == [p \in Nat |-> IF Stop(p) THEN -1 ELSE p + Size(p)]
           T    == Seq(Byte) \cup {Tok(p) : p \in Nat}
           V    == Seq(T) \cup {Panic}
           base == [p \in Nat |-> IF p > n THEN <<>> ELSE Panic]
           next == [p \in Nat |-> [rest \in V |-> ParseNext(Tok(p), rest)]]
<1>1. \A p \in Nat : Size(p) \in Nat /\ Size(p) >= 1
  BY ParseSizeIsNat
<1> HIDE DEF Size
<1>2. Forest(Nat, up)
  <2> SUFFICES ASSUME NEW S \in SUBSET Nat, S # {} PROVE \E p \in S : up[p] \notin S
    BY DEF Forest
  <2>1. CASE \E p \in S : p > n
    <3>1. PICK p \in S : p > n
      BY <2>1
    <3>2. up[p] = -1
      BY <3>1
    <3> QED
      BY <3>1, <3>2
  <2>2. CASE \A p \in S : p <= n
    <3> DEFINE U == {k \in Nat : n - k \in S}
    <3>1. U \in SUBSET Nat /\ U # {}
      <4>1. PICK p \in S : TRUE
        OBVIOUS
      <4>2. p \in Nat /\ p <= n
        BY <2>2, <4>1
      <4>3. n - p \in Nat /\ n - (n - p) = p
        BY <4>2
      <4> QED
        BY <4>1, <4>3
    <3>2. PICK k \in U : \A q \in U : k <= q
      <4> HIDE DEF U
      <4> QED
        BY <3>1, LeastNumber
    <3> DEFINE p == n - k
    <3>3. k \in Nat /\ p \in S /\ p \in Nat
      BY <3>2
    <3>4. up[p] \notin S
      <4>1. CASE Stop(p)
        BY <3>3, <4>1
      <4>2. CASE ~Stop(p)
        <5>1. up[p] = p + Size(p)
          BY <3>3, <4>2
        <5>2. SUFFICES ASSUME p + Size(p) \in S PROVE FALSE
          BY <5>1
        <5> DEFINE l == k - Size(p)
        <5>3. Size(p) \in Nat /\ Size(p) >= 1 /\ p + Size(p) <= n
          BY <1>1, <2>2, <3>3, <5>2
        <5>4. l \in Nat /\ n - l = p + Size(p) /\ ~(k <= l)
          BY <3>3, <5>3
        <5> HIDE DEF l
        <5> QED
          BY <3>2, <5>2, <5>4
      <4> QED
        BY <4>1, <4>2
    <3> QED
      BY <3>3, <3>4
  <2> QED
    BY <2>1, <2>2
<1> HIDE DEF Tok
<1>3. base \in [Nat -> V]
  OBVIOUS
<1>4. next \in [Nat -> [V -> V]]
  <2> SUFFICES ASSUME NEW p \in Nat, NEW rest \in V PROVE ParseNext(Tok(p), rest) \in V
    OBVIOUS
  <2>1. Tok(p) \in T
    OBVIOUS
  <2>2. CASE rest = Panic
    BY <2>2 DEF ParseNext
  <2>3. CASE rest # Panic
    <3> DEFINE t == Tok(p)
    <3> HIDE DEF t, T
    <3>1. rest \in Seq(T) /\ <<t>> \in Seq(T)
      BY <2>1, <2>3 DEF t
    <3>2. <<t>> \o rest \in Seq(T)
      BY <3>1, ConcatProperties
    <3>3. ParseNext(t, rest) \in Seq(T)
      BY <2>3, <3>1, <3>2 DEF ParseNext
    <3> QED
      BY <3>3 DEF t
  <2> QED
    BY <2>2, <2>3
<1>5. PICK f \in [Nat -> V] : Unfolds(f, Nat, up, base, next)
  <2> HIDE DEF up, V, base, next
  <2> QED
    BY <1>2, <1>3, <1>4, ForestRecursion
<1>6. ASSUME NEW p \in Nat
      PROVE  f[p] = IF p > n THEN <<>>
                    ELSE IF ~(p + Size(p) - 1 <= Len(bytes)) THEN Panic
                    ELSE ParseNext(Tok(p), f[p + Size(p)])
  <2>1. CASE Stop(p)
    <3>1. up[p] \notin Nat
      BY <2>1
    <3>2. f[p] = base[p]
      BY <1>5, <3>1 DEF Unfolds
    <3> QED
      BY <2>1, <3>2
  <2>2. CASE ~Stop(p)
    <3>0. Size(p) \in Nat
      BY <1>1
    <3>1. up[p] = p + Size(p) /\ p + Size(p) \in Nat
      <4>1. p + Size(p) \in Nat
        BY <3>0
      <4>2. up[p] = IF Stop(p) THEN -1 ELSE p + Size(p)
        OBVIOUS
      <4> HIDE DEF up
      <4> QED
        BY <2>2, <4>1, <4>2
    <3>2. f[p] = next[p][f[up[p]]]
      BY <1>5, <3>1 DEF Unfolds
    <3>3. f[p] = ParseNext(Tok(p), f[p + Size(p)])
      BY <3>1, <3>2
    <3> QED
      BY <2>2, <3>3
  <2> QED
    BY <2>1, <2>2
<1>7. f = [p \in Nat |-> f[p]]
  OBVIOUS
<1>8. IsParse(f, n, bytes)
  BY <1>6, <1>7 DEF IsParse, Size, Tok
<1> QED
  BY <1>8

\* Parts of sequences.
LEMMA CutOut ==
  ASSUME NEW S, NEW s \in Seq(S), NEW p \in Nat, NEW n \in Nat, p >= 1, n >= 1,
         p + n - 1 <= Len(s)
  PROVE  /\ SubSeq(s, p, p + n - 1) \in Seq(S) /\ Len(SubSeq(s, p, p + n - 1)) = n
         /\ \A j \in 1..n : SubSeq(s, p, p + n - 1)[j] = s[p + j - 1]
<1> DEFINE q == p + n - 1
<1>1. q \in Nat /\ q <= Len(s) /\ p <= q /\ q - p + 1 = n
  OBVIOUS
<1>2. p \in 1..Len(s) + 1 /\ q \in (p - 1)..Len(s)
  BY <1>1
<1>3. /\ SubSeq(s, p, q) \in Seq(S) /\ Len(SubSeq(s, p, q)) = q - p + 1
      /\ \A j \in 1..(q - p + 1) : SubSeq(s, p, q)[j] = s[p + j - 1]
  BY <1>1, <1>2, SubSeqProperties
<1> QED
  BY <1>1, <1>3

LEMMA RestIsSeq ==
  ASSUME NEW S, NEW s \in Seq(S), NEW j \in 1..Len(s)
  PROVE  /\ SubSeq(s, j + 1, Len(s)) \in Seq(S) /\ Len(SubSeq(s, j + 1, Len(s))) = Len(s) - j
         /\ \A i \in 1..(Len(s) - j) : SubSeq(s, j + 1, Len(s))[i] = s[i + j]
OBVIOUS

LEMMA RestOfSeq ==
  ASSUME NEW S, NEW s \in Seq(S), NEW j \in 1..Len(s)
  PROVE  SubSeq(s, j, Len(s)) = <<s[j]>> \o SubSeq(s, j + 1, Len(s))
<1> DEFINE r == SubSeq(s, j + 1, Len(s))
           h == <<s[j]>>
           n == Len(s)
           t == SubSeq(s, j, Len(s))
<1>1. n \in Nat /\ j \in 1..n
  OBVIOUS
<1>2. r \in Seq(S) /\ Len(r) = n - j /\ \A i \in 1..(n - j) : r[i] = s[i + j]
  BY RestIsSeq
<1>3. h \in Seq(S) /\ Len(h) = 1 /\ h[1] = s[j]
  OBVIOUS
<1>4. t \in Seq(S) /\ Len(t) = n - j + 1 /\ \A i \in 1..(n - j + 1) : t[i] = s[j + i - 1]
  OBVIOUS
<1> HIDE DEF r, h, n, t
<1>5. /\ h \o r \in Seq(S) /\ Len(h \o r) = n - j + 1
      /\ \A i \in 1..(n - j + 1) : (h \o r)[i] = IF i <= 1 THEN h[i] ELSE r[i - 1]
  <2>1. /\ h \o r \in Seq(S) /\ Len(h \o r) = 1 + (n - j)
        /\ \A i \in 1..(1 + (n - j)) : (h \o r)[i] = IF i <= 1 THEN h[i] ELSE r[i - 1]
    <3>1. /\ h \o r \in Seq(S) /\ Len(h \o r) = Len(h) + Len(r)
          /\ \A i \in 1..(Len(h) + Len(r)) :
                (h \o r)[i] = IF i <= Len(h) THEN h[i] ELSE r[i - Len(h)]
      BY <1>2, <1>3, ConcatProperties
    <3>2. Len(h) + Len(r) = 1 + (n - j) /\ Len(h) = 1
      BY <1>2, <1>3
    <3> QED
      BY <3>1, <3>2
  <2>2. 1 + (n - j) = n - j + 1
    BY <1>1
  <2> QED
    BY <2>1, <2>2
<1>6. ASSUME NEW i \in 1..(n - j + 1) PROVE t[i] = (h \o r)[i]
  <2>1. CASE i = 1
    <3>1. j + i - 1 = j
      BY <1>1, <2>1
    <3> QED
      BY <1>3, <1>4, <1>5, <2>1, <3>1
  <2>2. CASE i # 1
    <3>1. i - 1 \in 1..(n - j) /\ (i - 1) + j = j + i - 1 /\ ~(i <= 1)
      BY <1>1, <2>2
    <3>2. r[i - 1] = s[j + i - 1]
      BY <1>2, <3>1
    <3> QED
      BY <1>4, <1>5, <3>1, <3>2
  <2> QED
    BY <2>1, <2>2
<1>7. t = h \o r
  BY <1>4, <1>5, <1>6, SeqEqual
<1> QED
  BY <1>7 DEF t, h, r, n

LEMMA TokensAreBytes ==
  ASSUME NEW ts \in Seq(Tokens) PROVE ts \in Seq(Seq(Byte))
<1>1. \A i \in 1..Len(ts) : ts[i] \in Seq(Byte)
  BY DEF Tokens
<1> QED
  BY <1>1

\* Bytes that were written token by token are cut at the same places again, whatever
\* comes behind them.
LEMMA ParseCutsTokens ==
  ASSUME NEW ts \in Seq(Tokens), NEW data \in Seq(Byte), WrittenAs(ts, data),
         NEW bytes \in Seq(Byte), Len(data) <= Len(bytes),
         \A i \in 1..Len(data) : bytes[i] = data[i]
  PROVE  Parse(Len(data), bytes) = ts
<1> DEFINE n == Len(data)
           m == Len(ts)
           l == Len(bytes)
           f == CHOOSE g : IsParse(g, n, bytes)
           Size(p) == ParseSize(bytes, p)
           Tok(p)  == ParseToken(bytes, p)
<1>1. n \in Nat /\ m \in Nat /\ l \in Nat /\ n <= l
  OBVIOUS
<1>2. Parse(n, bytes) = f[1]
  BY ParseIsParse
<1>3. IsParse(f, n, bytes)
  BY <1>1, ParseExists
<1> HIDE DEF f
<1>4. ASSUME NEW p \in Nat
      PROVE  f[p] = IF p > n THEN <<>>
                    ELSE IF ~(p + Size(p) - 1 <= l) THEN Panic
                    ELSE ParseNext(Tok(p), f[p + Size(p)])
  BY <1>3 DEF IsParse
<1>5. PICK c : Cut(c, ts, data)
  BY DEF WrittenAs
<1>6. /\ \A k \in 1..(m + 1) : c[k] \in 1..(n + 1)
      /\ c[1] = 1 /\ c[m + 1] = n + 1
      /\ \A k \in 1..m : c[k + 1] = c[k] + Len(ts[k])
      /\ \A k \in 1..m : \A j \in 1..Len(ts[k]) : data[c[k] + j - 1] = ts[k][j]
  BY <1>5 DEF Cut
<1>7. \A k \in 1..m : ts[k] \in Tokens
  OBVIOUS
<1> HIDE DEF n, m, l, Size, Tok
<1>8. ASSUME NEW k \in 1..m
      PROVE  /\ c[k] \in Nat /\ c[k] <= n /\ c[k] + Size(c[k]) = c[k + 1]
             /\ c[k] + Size(c[k]) - 1 <= l /\ Tok(c[k]) = ts[k]
  <2> DEFINE t == ts[k]
             p == c[k]
             s == Len(t)
  <2>0. t \in Tokens
    BY <1>7
  <2>1. t \in Seq(Byte) /\ t \in Tokens /\ s \in Nat /\ t # <<>>
    <3> HIDE DEF t
    <3>1. t \in Seq(Byte) /\ t # <<>>
      BY <2>0 DEF Tokens
    <3> QED
      BY <2>0, <3>1
  <2>2. s >= 1
    BY <2>1
  <2>3. k \in 1..(m + 1) /\ k + 1 \in 1..(m + 1)
    BY <1>1
  <2>4. p \in 1..(n + 1) /\ c[k + 1] \in 1..(n + 1) /\ c[k + 1] = p + s
    BY <1>6, <2>3
  <2>5. \A j \in 1..s : data[p + j - 1] = t[j]
    BY <1>6
  <2>10. \A i \in 1..n : bytes[i] = data[i]
    BY DEF n
  <2>11. bytes \in Seq(Byte) /\ Len(bytes) = l
    BY DEF l
  <2>16. \A b2, b3, b4 \in Byte : (s >= 2 => b2 = t[2]) => TokenLen(t[1], b2, b3, b4) = s
    BY <2>1 DEF Tokens
  <2> HIDE DEF t, p, s
  <2>6. p \in Nat /\ p >= 1 /\ p + s <= n + 1 /\ p <= n /\ p + s - 1 <= l
    BY <1>1, <2>1, <2>2, <2>4
  <2>7. \A j \in 1..s : p + j - 1 \in 1..n
    BY <1>1, <2>1, <2>4, <2>6, Within
  <2>8. \A j \in 1..s : bytes[p + j - 1] = t[j]
    BY <2>5, <2>7, <2>10
  <2>9. ParseAt(bytes, p) = t[1]
    <3>1. 1 \in 1..s /\ p + 1 - 1 = p
      BY <2>1, <2>2, <2>6
    <3>2. bytes[p] = t[1] /\ p \in 1..n
      BY <2>7, <2>8, <3>1
    <3>3. p \in 1..Len(bytes)
      BY <1>1, <2>11, <3>2
    <3> QED
      BY <3>2, <3>3 DEF ParseAt
  <2>12. s >= 2 => ParseAt(bytes, p + 1) = t[2]
    <3> SUFFICES ASSUME s >= 2 PROVE ParseAt(bytes, p + 1) = t[2]
      OBVIOUS
    <3>1. 2 \in 1..s /\ p + 2 - 1 = p + 1
      BY <2>1, <2>6
    <3>2. bytes[p + 1] = t[2] /\ p + 1 \in 1..n
      BY <2>7, <2>8, <3>1
    <3>3. p + 1 \in 1..Len(bytes)
      BY <1>1, <2>11, <3>2
    <3> QED
      BY <3>2, <3>3 DEF ParseAt
  <2>13. \A i : ParseAt(bytes, i) \in Byte
    BY ParseAtIsByte
  <2>14. Size(p) = s
    BY <2>9, <2>12, <2>13, <2>16 DEF Size, ParseSize
  <2>15. Tok(p) = t
    <3>1. Tok(p) = SubSeq(bytes, p, p + s - 1)
      BY <2>14 DEF Tok, ParseToken, Size
    <3> DEFINE u == SubSeq(bytes, p, p + s - 1)
    <3>2. u \in Seq(Byte) /\ Len(u) = s /\ \A j \in 1..s : u[j] = bytes[p + j - 1]
      BY <2>1, <2>2, <2>6, <2>11, CutOut
    <3> HIDE DEF u
    <3>3. t \in Seq(Byte) /\ Len(t) = s
      BY <2>1 DEF s
    <3>4. \A j \in 1..Len(u) : u[j] = t[j]
      BY <2>8, <3>2
    <3>5. u = t
      BY <3>2, <3>3, <3>4, SeqEqual
    <3> QED
      BY <3>1, <3>5 DEF u
  <2>17. p + Size(p) = c[k + 1] /\ p + Size(p) - 1 <= l
    BY <2>4, <2>6, <2>14
  <2> QED
    BY <2>6, <2>15, <2>17 DEF p, t
<1>9. ASSUME NEW k \in 1..(m + 1) PROVE f[c[k]] = SubSeq(ts, k, m)
  <2> DEFINE B == {i \in Nat : i <= m /\ f[c[m + 1 - i]] # SubSeq(ts, m + 1 - i, m)}
  <2>0. B = {}
    <3> SUFFICES ASSUME B # {} PROVE FALSE
      OBVIOUS
    <3>1. PICK i \in B : \A q \in B : i <= q
      <4>1. B \in SUBSET Nat
        OBVIOUS
      <4> HIDE DEF B
      <4> QED
        BY <4>1, LeastNumber
    <3>2. i \in Nat /\ i <= m
      OBVIOUS
    <3>3. CASE i = 0
      <4>1. m + 1 - i = m + 1 /\ m + 1 \in Nat /\ n + 1 \in Nat /\ n + 1 > n
        BY <1>1, <3>3
      <4>2. f[n + 1] = <<>>
        BY <1>4, <4>1
      <4>3. SubSeq(ts, m + 1, m) = <<>>
        BY <1>1
      <4> QED
        BY <1>6, <4>1, <4>2, <4>3
    <3>4. CASE i # 0
      <4> DEFINE j == m + 1 - i
      <4>1. j \in 1..m /\ i - 1 \in Nat /\ i - 1 <= m /\ ~(i <= i - 1) /\ m + 1 - (i - 1) = j + 1
        BY <1>1, <3>2, <3>4
      <4>2. f[c[j + 1]] = SubSeq(ts, j + 1, m)
        BY <3>1, <4>1
      <4> HIDE DEF j
      <4>3. /\ c[j] \in Nat /\ c[j] <= n /\ c[j] + Size(c[j]) = c[j + 1]
            /\ c[j] + Size(c[j]) - 1 <= l /\ Tok(c[j]) = ts[j]
        BY <1>8, <4>1
      <4>4. ~(c[j] > n)
        BY <1>1, <4>3
      <4>5. f[c[j]] = ParseNext(ts[j], f[c[j + 1]])
        BY <1>4, <4>3, <4>4
      <4>6. ts[j] # <<EMPTYATOM>> /\ ts[j] \in Tokens
        BY <1>7, <4>1 DEF Tokens
      <4>7. SubSeq(ts, j + 1, m) # Panic
        <5>1. ts \in Seq(Seq(Byte))
          BY TokensAreBytes
        <5>2. SubSeq(ts, j + 1, m) \in Seq(Seq(Byte))
          BY <1>1, <4>1, <5>1, RestIsSeq DEF m
        <5> QED
          BY <5>2, PanicAssumption
      <4>8. f[c[j]] = <<ts[j]>> \o SubSeq(ts, j + 1, m)
        BY <4>2, <4>5, <4>6, <4>7 DEF ParseNext
      <4>9. SubSeq(ts, j, m) = <<ts[j]>> \o SubSeq(ts, j + 1, m)
        BY <4>1, RestOfSeq DEF m
      <4> QED
        BY <4>8, <4>9 DEF j
    <3> QED
      BY <3>3, <3>4
  <2>1. m + 1 - k \in Nat /\ m + 1 - k <= m /\ m + 1 - (m + 1 - k) = k
    BY <1>1
  <2> QED
    BY <2>0, <2>1
<1>10. 1 \in 1..(m + 1) /\ SubSeq(ts, 1, m) = ts
  BY <1>1 DEF m
<1>11. f[1] = ts
  BY <1>6, <1>9, <1>10
<1> QED
  BY <1>2, <1>11 DEF n

-------------------------------------------------------------------------------
(* Headers. *)

\* b is in the bytes behind the first k.
Holds(bytes, k, b) ==
    k + Len(b) <= Len(bytes) /\ \A j \in 1..Len(b) : bytes[k + j] = b[j]

LEMMA HoldsEnd ==
  ASSUME NEW S, NEW a \in Seq(S), NEW b \in Seq(S), NEW k, k = Len(a)
  PROVE  Holds(a \o b, k, b)
<1> DEFINE m == Len(a)
           n == Len(b)
           c == a \o b
<1>1. m \in Nat /\ n \in Nat /\ Len(c) = m + n
  BY ConcatProperties
<1>2. \A i \in 1..(m + n) : c[i] = IF i <= m THEN a[i] ELSE b[i - m]
  BY ConcatProperties
<1> HIDE DEF m, n, c
<1>3. ASSUME NEW j \in 1..n PROVE c[m + j] = b[j]
  <2>1. m + j \in 1..(m + n) /\ ~(m + j <= m) /\ (m + j) - m = j
    BY <1>1
  <2> QED
    BY <1>2, <2>1
<1>4. m + n <= Len(c)
  BY <1>1
<1> QED
  BY <1>3, <1>4 DEF Holds, m, n, c

LEMMA HoldsFront ==
  ASSUME NEW S, NEW a \in Seq(S), NEW c \in Seq(S), NEW b \in Seq(S), NEW k \in Nat,
         Holds(a, k, b)
  PROVE  Holds(a \o c, k, b)
<1> DEFINE m == Len(a)
           n == Len(b)
           l == Len(c)
           d == a \o c
<1>1. m \in Nat /\ n \in Nat /\ l \in Nat /\ Len(d) = m + l
  BY ConcatProperties
<1>2. \A i \in 1..(m + l) : d[i] = IF i <= m THEN a[i] ELSE c[i - m]
  BY ConcatProperties
<1>3. k + n <= m /\ \A j \in 1..n : a[k + j] = b[j]
  BY DEF Holds
<1> HIDE DEF m, n, l, d
<1>4. ASSUME NEW j \in 1..n PROVE d[k + j] = b[j]
  <2>1. k + j \in 1..(m + l) /\ k + j <= m
    BY <1>1, <1>3
  <2> QED
    BY <1>2, <1>3, <2>1
<1>5. k + n <= Len(d)
  BY <1>1, <1>3
<1> QED
  BY <1>4, <1>5 DEF Holds, m, n, l, d

\* What is in the front of something is in it.
LEMMA HoldsWithin ==
  ASSUME NEW S, NEW a \in Seq(S), NEW b \in Seq(S), NEW k \in Nat, NEW bytes,
         Len(bytes) \in Nat, Holds(bytes, 0, a), Holds(a, k, b)
  PROVE  Holds(bytes, k, b)
<1> DEFINE m == Len(a)
           n == Len(b)
           l == Len(bytes)
<1>1. m \in Nat /\ n \in Nat /\ l \in Nat /\ m <= l /\ k + n <= m
  BY DEF Holds
<1>2. (\A i \in 1..m : bytes[0 + i] = a[i]) /\ \A j \in 1..n : a[k + j] = b[j]
  BY DEF Holds
<1> HIDE DEF m, n, l
<1>3. ASSUME NEW j \in 1..n PROVE bytes[k + j] = b[j]
  <2>1. k + j \in 1..m /\ 0 + (k + j) = k + j
    BY <1>1
  <2> QED
    BY <1>2, <2>1
<1>4. k + n <= l
  BY <1>1
<1> QED
  BY <1>3, <1>4 DEF Holds, n, l

LEMMA HoldsCut ==
  ASSUME NEW S, NEW bytes \in Seq(S), NEW b \in Seq(S), NEW k \in Nat, Holds(bytes, k, b)
  PROVE  SubSeq(bytes, k + 1, k + Len(b)) = b
<1> DEFINE p == k + 1
           q == k + Len(b)
           m == Len(bytes)
           n == Len(b)
           s == SubSeq(bytes, p, q)
<1>1. m \in Nat /\ n \in Nat /\ k + n <= m /\ p = k + 1 /\ q = k + n
  BY DEF Holds
<1>2. \A i \in 1..m : bytes[i] \in S
  OBVIOUS
<1>3. \A j \in 1..n : bytes[k + j] = b[j]
  BY DEF Holds
<1>9. /\ s \in Seq(S) /\ Len(s) = (IF p <= q THEN q - p + 1 ELSE 0)
      /\ \A i \in 1..(q - p + 1) : s[i] = bytes[p + i - 1]
  <2> HIDE DEF m, n
  <2>1. p \in Int /\ q \in Int /\ \A i \in p..q : i \in 1..m
    BY <1>1
  <2>2. \A i \in p..q : bytes[i] \in S
    BY <1>2, <2>1
  <2> QED
    BY <2>1, <2>2, SubSeqProperties
<1> HIDE DEF m, n, s, p, q
<1>4. Len(s) = n /\ q - p + 1 = n
  BY <1>1, <1>9
<1>5. ASSUME NEW i \in 1..n PROVE s[i] = b[i]
  <2>1. p + i - 1 = k + i
    BY <1>1
  <2> QED
    BY <1>3, <1>4, <1>9, <2>1
<1>6. b \in Seq(S) /\ Len(b) = n
  BY DEF n
<1>7. s = b
  BY <1>4, <1>5, <1>6, <1>9, SeqEqual
<1> QED
  BY <1>7 DEF s, p, q

LEMMA HoldsFirst ==
  ASSUME NEW S, NEW a \in Seq(S), NEW b \in Seq(S)
  PROVE  Holds(a \o b, 0, a)
<1>1. Holds(a, 0, a)
  BY DEF Holds
<1>2. 0 \in Nat
  OBVIOUS
<1> QED
  BY <1>1, <1>2, HoldsFront

-------------------------------------------------------------------------------
(* The trailer. *)

\* What build puts behind a payload.
Trailer(eod, list) == IF eod THEN list ELSE <<>>

LEMMA SplitIsTokens ==
  ASSUME NEW s \in Seq(Byte),
         \A i \in 1..Len(s) : (s[i] < 128 \/ s[i] >= 240) /\ s[i] # EMPTYATOM
  PROVE  Split(s) \in Seq(Tokens) /\ Len(Split(s)) = Len(s)
<1> DEFINE n == Len(s)
<1>1. n \in Nat /\ \A i \in 1..n : s[i] \in Byte
  OBVIOUS
<1>2. \A i \in 1..n : <<s[i]>> \in Tokens
  BY <1>1, OneByteIsToken
<1>3. Split(s) = [i \in 1..n |-> <<s[i]>>]
  BY DEF Split
<1> HIDE DEF n
<1>4. Split(s) \in [1..n -> Tokens]
  BY <1>2, <1>3
<1>5. Split(s) \in Seq(Tokens) /\ Len(Split(s)) = n
  BY <1>1, <1>4, FunctionIsSeq
<1> QED
  BY <1>5 DEF n

LEMMA StatusTrailerIs ==
  StatusTrailer \in Seq(Byte) /\ Split(StatusTrailer) \in Seq(Tokens)
<1> DEFINE s == <<249, 240, 0, 0, 0, 241>>
<1>1. StatusTrailer = s
  BY DEF StatusTrailer, ENDOFDATA, STARTLIST, ENDLIST
<1>2. s \in Seq(Byte) /\ Len(s) = 6
  BY DEF Byte
<1>3. \A i \in 1..6 : (s[i] < 128 \/ s[i] >= 240) /\ s[i] # EMPTYATOM
  BY DEF EMPTYATOM
<1> HIDE DEF s
<1>4. Split(s) \in Seq(Tokens)
  BY <1>2, <1>3, SplitIsTokens
<1> QED
  BY <1>1, <1>2, <1>4

LEMMA WithTrailer ==
  ASSUME NEW ts \in Seq(Tokens), NEW bytes \in Seq(Byte), WrittenAs(ts, bytes), NEW eod,
         NEW list \in Seq(Byte), Split(list) \in Seq(Tokens)
  PROVE  /\ bytes \o Trailer(eod, list) \in Seq(Byte)
         /\ ts \o Trailer(eod, Split(list)) \in Seq(Tokens)
         /\ WrittenAs(ts \o Trailer(eod, Split(list)), bytes \o Trailer(eod, list))
<1>1. CASE eod
  <2>1. Trailer(eod, list) = list /\ Trailer(eod, Split(list)) = Split(list)
    BY <1>1 DEF Trailer
  <2>2. ts \in Seq(Seq(Byte)) /\ Split(list) \in Seq(Seq(Byte)) /\ WrittenAs(Split(list), list)
    BY TokensAreBytes, SplitIsCut
  <2>3. WrittenAs(ts \o Split(list), bytes \o list)
    BY <2>2, ConcatIsCut
  <2>4. bytes \o list \in Seq(Byte) /\ ts \o Split(list) \in Seq(Tokens)
    BY ConcatProperties
  <2> QED
    BY <2>1, <2>3, <2>4
<1>2. CASE ~eod
  <2>1. Trailer(eod, list) = <<>> /\ Trailer(eod, Split(list)) = <<>>
    BY <1>2 DEF Trailer
  <2>2. bytes \o <<>> = bytes /\ ts \o <<>> = ts
    BY ConcatEmptySeq
  <2> QED
    BY <2>1, <2>2
<1> QED
  BY <1>1, <1>2

LEMMA ParsePart ==
  ASSUME NEW ts \in Seq(Tokens), NEW data \in Seq(Byte), WrittenAs(ts, data),
         NEW bytes \in Seq(Byte), Holds(bytes, 0, data)
  PROVE  Parse(Len(data), bytes) = ts
<1> DEFINE n == Len(data)
           l == Len(bytes)
<1>1. n \in Nat /\ l \in Nat /\ 0 + n <= l /\ \A j \in 1..n : bytes[0 + j] = data[j]
  BY DEF Holds
<1> HIDE DEF n, l
<1>2. n <= l /\ \A j \in 1..n : bytes[j] = data[j]
  <2>1. \A j \in 1..n : 0 + j = j
    BY <1>1
  <2> QED
    BY <1>1, <2>1
<1> QED
  BY <1>2, ParseCutsTokens DEF n, l

-------------------------------------------------------------------------------
(* The requests of a session. *)

LEMMA FlattenIsSeq ==
  ASSUME NEW S, NEW ss \in Seq(Seq(S))
  PROVE  FlattenSeq(ss) \in Seq(S)
<1>1. CASE Len(ss) = 0
  <2>1. ss = <<>>
    BY <1>1
  <2>2. <<>> \in Seq(S)
    OBVIOUS
  <2>3. FlattenSeq(ss) = <<>>
    BY <2>1, FlattenNone
  <2> QED
    BY <2>2, <2>3
<1>2. CASE Len(ss) # 0
  <2>1. FlattenSeq(ss) = Flattened(ss)[Len(ss)]
    BY <1>2, FlattenIsFlattened
  <2>2. Len(ss) \in 1..Len(ss)
    BY <1>2
  <2> QED
    BY <2>1, <2>2, FlattenEquation
<1> QED
  BY <1>1, <1>2

LEMMA ControlIsToken ==
  ASSUME NEW b \in Byte, b < 128 \/ b >= 240, b # EMPTYATOM
  PROVE  <<b>> \in Tokens /\ Token(b) = <<<<b>>>> /\ Token(b) \in Seq(Tokens)
<1>1. <<b>> \in Tokens
  BY OneByteIsToken
<1> QED
  BY <1>1 DEF Token

LEMMA ControlTokens ==
  /\ Token(STARTLIST) \in Seq(Tokens) /\ Token(ENDLIST) \in Seq(Tokens)
  /\ Token(STARTNAME) \in Seq(Tokens) /\ Token(ENDNAME) \in Seq(Tokens)
  /\ Token(CALL) \in Seq(Tokens) /\ Token(ENDOFSESSION) \in Seq(Tokens)
  /\ \A b \in 0..127 : Token(b) \in Seq(Tokens) /\ <<b>> \in Tokens
  /\ <<STARTNAME>> \in Tokens /\ <<ENDNAME>> \in Tokens
<1>1. ASSUME NEW b \in {STARTLIST, ENDLIST, STARTNAME, ENDNAME, CALL, ENDOFSESSION}
      PROVE  Token(b) \in Seq(Tokens) /\ <<b>> \in Tokens
  <2>1. b \in Byte /\ b >= 240 /\ b # EMPTYATOM
    BY DEF STARTLIST, ENDLIST, STARTNAME, ENDNAME, CALL, ENDOFSESSION, EMPTYATOM, Byte
  <2> QED
    BY <2>1, ControlIsToken
<1>2. ASSUME NEW b \in 0..127 PROVE Token(b) \in Seq(Tokens) /\ <<b>> \in Tokens
  <2>1. b \in Byte /\ b < 128 /\ b # EMPTYATOM
    BY DEF EMPTYATOM, Byte
  <2> QED
    BY <2>1, ControlIsToken
<1> QED
  BY <1>1, <1>2

\* The 8-byte identifiers of objects and methods.
Uids == {s \in Seq(Byte) : Len(s) = 8}

LEMMA UidIsToken ==
  ASSUME NEW s \in Uids
  PROVE  <<168>> \o s \in Tokens /\ BS8(s) = <<<<168>> \o s>> /\ BS8(s) \in Seq(Tokens)
<1>1. s \in Seq(Byte) /\ Len(s) = 168 % 16 /\ 168 \in 128..191
  BY DEF Uids
<1>2. <<168>> \o s \in Tokens
  BY <1>1, ShortIsToken
<1> QED
  BY <1>2 DEF BS8

LEMMA UidsAre ==
  /\ OPAL_SMUID \in Uids /\ OPAL_LOCKINGSP \in Uids /\ OPAL_ADMIN1 \in Uids
  /\ OPAL_LOCKINGRANGE_GLOBAL \in Uids /\ OPAL_MBRCONTROL \in Uids
  /\ StartSessionMethod \in Uids /\ SetMethod \in Uids
<1>1. OPAL_SMUID \in Uids
  BY DEF Uids, Byte, OPAL_SMUID
<1>2. OPAL_LOCKINGSP \in Uids
  BY DEF Uids, Byte, OPAL_LOCKINGSP
<1>3. OPAL_ADMIN1 \in Uids
  BY DEF Uids, Byte, OPAL_ADMIN1
<1>4. OPAL_LOCKINGRANGE_GLOBAL \in Uids
  BY DEF Uids, Byte, OPAL_LOCKINGRANGE_GLOBAL
<1>5. OPAL_MBRCONTROL \in Uids
  BY DEF Uids, Byte, OPAL_MBRCONTROL
<1>6. StartSessionMethod \in Uids
  BY DEF Uids, Byte, StartSessionMethod
<1>7. SetMethod \in Uids
  BY DEF Uids, Byte, SetMethod
<1> QED
  BY <1>1, <1>2, <1>3, <1>4, <1>5, <1>6, <1>7

LEMMA RangeUid ==
  ASSUME NEW n \in Byte
  PROVE  /\ LockingRange(n) \in Uids
         /\ LockingRange(n) = IF n = 0 THEN OPAL_LOCKINGRANGE_GLOBAL
                              ELSE <<0, 0, 8, 2, 0, 3, 0, n>>
<1>1. CASE n = 0
  BY <1>1, UidsAre DEF LockingRange
<1>2. CASE n # 0
  <2>1. LockingRange(n) = <<0, 0, 8, 2, 0, 3, 0, n>>
    BY <1>2 DEF LockingRange, OPAL_LOCKINGRANGE_GLOBAL
  <2>2. <<0, 0, 8, 2, 0, 3, 0, n>> \in Uids
    BY DEF Uids, Byte
  <2> QED
    BY <1>2, <2>1, <2>2
<1> QED
  BY <1>1, <1>2

LEMMA NameIsTokens ==
  ASSUME NEW k \in Seq(Tokens), NEW v \in Seq(Tokens)
  PROVE  TokenName(k, v) \in Seq(Tokens)
<1>1. Token(STARTNAME) \o k \in Seq(Tokens)
  BY ControlTokens, ConcatProperties
<1>2. (Token(STARTNAME) \o k) \o v \in Seq(Tokens)
  BY <1>1, ConcatProperties
<1>3. ((Token(STARTNAME) \o k) \o v) \o Token(ENDNAME) \in Seq(Tokens)
  BY <1>2, ControlTokens, ConcatProperties
<1> QED
  BY <1>3 DEF TokenName

LEMMA ListIsTokens ==
  ASSUME NEW ss \in Seq(Seq(Tokens))
  PROVE  TokenList(ss) \in Seq(Tokens) /\ BareTokenList(ss) \in Seq(Tokens)
<1>1. FlattenSeq(ss) \in Seq(Tokens)
  BY FlattenIsSeq
<1>2. Token(STARTLIST) \o FlattenSeq(ss) \in Seq(Tokens)
  BY <1>1, ControlTokens, ConcatProperties
<1>3. (Token(STARTLIST) \o FlattenSeq(ss)) \o Token(ENDLIST) \in Seq(Tokens)
  BY <1>2, ControlTokens, ConcatProperties
<1> QED
  BY <1>1, <1>3 DEF TokenList, BareTokenList

LEMMA NewIsTokens ==
  ASSUME NEW object \in Uids, NEW method \in Uids
  PROVE  New(object, method) \in Seq(Tokens)
<1>1. Token(CALL) \o BS8(object) \in Seq(Tokens)
  BY ControlTokens, UidIsToken, ConcatProperties
<1>2. (Token(CALL) \o BS8(object)) \o BS8(method) \in Seq(Tokens)
  BY <1>1, UidIsToken, ConcatProperties
<1> QED
  BY <1>2 DEF New

-------------------------------------------------------------------------------
(* Streams between brackets. *)

LEMMA FrontCut ==
  ASSUME NEW S, NEW a \in Seq(S), NEW b \in Seq(S)
  PROVE  SubSeq(a \o b, 1, Len(a)) = a
<1>1. Holds(a \o b, 0, a)
  BY HoldsFirst
<1>2. a \o b \in Seq(S) /\ 0 \in Nat
  BY ConcatProperties
<1>3. SubSeq(a \o b, 0 + 1, 0 + Len(a)) = a
  BY <1>1, <1>2, HoldsCut
<1>4. 0 + 1 = 1 /\ 0 + Len(a) = Len(a)
  OBVIOUS
<1> QED
  BY <1>3, <1>4

LEMMA BackCut ==
  ASSUME NEW S, NEW a \in Seq(S), NEW b \in Seq(S)
  PROVE  SubSeq(a \o b, Len(a) + 1, Len(a) + Len(b)) = b
<1>1. Holds(a \o b, Len(a), b)
  BY HoldsEnd
<1>2. a \o b \in Seq(S) /\ Len(a) \in Nat
  BY ConcatProperties
<1> QED
  BY <1>1, <1>2, HoldsCut

LEMMA PrefixOf ==
  ASSUME NEW S, NEW a \in Seq(S), NEW b \in Seq(S)
  PROVE  IsPrefix(a, a \o b)
<1>1. Len(a \o b) = Len(a) + Len(b) /\ Len(a) \in Nat /\ Len(b) \in Nat
  BY ConcatProperties
<1>2. SubSeq(a \o b, 1, Len(a)) = a
  BY FrontCut
<1>3. SubSeq(a, 1, Len(a)) = a
  BY SubSeqFull
<1>4. Len(a) <= Len(a \o b)
  BY <1>1
<1> QED
  BY <1>2, <1>3, <1>4 DEF IsPrefix

LEMMA ReverseConcat ==
  ASSUME NEW S, NEW a \in Seq(S), NEW b \in Seq(S)
  PROVE  /\ Reverse(a) \in Seq(S) /\ Reverse(b) \in Seq(S)
         /\ Reverse(a \o b) = Reverse(b) \o Reverse(a)
<1> DEFINE m == Len(a)
           n == Len(b)
           c == a \o b
           r == Reverse(b) \o Reverse(a)
<1>1. m \in Nat /\ n \in Nat
  OBVIOUS
<1>2. \A s \in Seq(S) : Reverse(s) \in Seq(S) /\ Len(Reverse(s)) = Len(s)
  <2> SUFFICES ASSUME NEW s \in Seq(S)
               PROVE  Reverse(s) \in Seq(S) /\ Len(Reverse(s)) = Len(s)
    OBVIOUS
  <2> DEFINE k == Len(s)
  <2>1. k \in Nat /\ s \in [1..k -> S]
    OBVIOUS
  <2>2. \A i \in 1..k : s[(k - i) + 1] \in S
    <3> HIDE DEF k
    <3> QED
      BY <2>1
  <2>3. Reverse(s) = [i \in 1..k |-> s[(k - i) + 1]]
    BY DEF Reverse
  <2>4. [i \in 1..k |-> s[(k - i) + 1]] \in [1..k -> S]
    BY <2>2
  <2> HIDE DEF k
  <2>5. Reverse(s) \in Seq(S) /\ Len(Reverse(s)) = k
    BY <2>1, <2>3, <2>4, FunctionIsSeq
  <2> QED
    BY <2>5 DEF k
<1>3. /\ c \in Seq(S) /\ Len(c) = m + n
      /\ \A i \in 1..(m + n) : c[i] = IF i <= m THEN a[i] ELSE b[i - m]
  BY ConcatProperties
<1>4. Reverse(a) \in Seq(S) /\ Reverse(b) \in Seq(S) /\ Len(Reverse(a)) = m /\ Len(Reverse(b)) = n
  BY <1>2
<1>5. /\ r \in Seq(S) /\ Len(r) = n + m
      /\ \A i \in 1..(n + m) : r[i] = IF i <= n THEN Reverse(b)[i] ELSE Reverse(a)[i - n]
  <2> DEFINE x == Reverse(b)
             y == Reverse(a)
  <2> HIDE DEF x, y, m, n
  <2>1. x \in Seq(S) /\ y \in Seq(S) /\ Len(x) = n /\ Len(y) = m
    BY <1>4 DEF x, y
  <2>2. /\ x \o y \in Seq(S) /\ Len(x \o y) = Len(x) + Len(y)
        /\ \A i \in 1..(Len(x) + Len(y)) : (x \o y)[i] = IF i <= Len(x) THEN x[i] ELSE y[i - Len(x)]
    BY <2>1, ConcatProperties
  <2> QED
    BY <2>1, <2>2 DEF r, x, y
<1>6. Reverse(c) \in Seq(S) /\ Len(Reverse(c)) = m + n
  BY <1>2, <1>3
<1>7. /\ \A i \in 1..(m + n) : Reverse(c)[i] = c[((m + n) - i) + 1]
      /\ \A i \in 1..m : Reverse(a)[i] = a[(m - i) + 1]
      /\ \A i \in 1..n : Reverse(b)[i] = b[(n - i) + 1]
  BY <1>3 DEF Reverse
<1> HIDE DEF c, r, m, n
<1>8. ASSUME NEW i \in 1..(m + n) PROVE Reverse(c)[i] = r[i]
  <2>1. i \in Nat /\ ((m + n) - i) + 1 \in 1..(m + n) /\ i \in 1..(n + m)
    BY <1>1
  <2>2. CASE i <= n
    <3>1. i \in 1..n /\ (n - i) + 1 = (((m + n) - i) + 1) - m /\ ~(((m + n) - i) + 1 <= m)
      BY <1>1, <2>1, <2>2
    <3> QED
      BY <1>3, <1>5, <1>7, <2>1, <2>2, <3>1
  <2>3. CASE ~(i <= n)
    <3>1. i - n \in 1..m /\ (m - (i - n)) + 1 = ((m + n) - i) + 1 /\ ((m + n) - i) + 1 <= m
      BY <1>1, <2>1, <2>3
    <3> QED
      BY <1>3, <1>5, <1>7, <2>1, <2>3, <3>1
  <2> QED
    BY <2>2, <2>3
<1>9. Len(r) = m + n
  BY <1>1, <1>5
<1>10. Reverse(c) = r
  BY <1>5, <1>6, <1>8, <1>9, SeqEqual
<1> QED
  BY <1>4, <1>10 DEF c, r

LEMMA SuffixOf ==
  ASSUME NEW S, NEW a \in Seq(S), NEW b \in Seq(S)
  PROVE  IsSuffix(b, a \o b)
<1>1. Reverse(b) \in Seq(S) /\ Reverse(a) \in Seq(S) /\ Reverse(a \o b) = Reverse(b) \o Reverse(a)
  BY ReverseConcat
<1>2. IsPrefix(Reverse(b), Reverse(b) \o Reverse(a))
  BY <1>1, PrefixOf
<1> QED
  BY <1>1, <1>2 DEF IsSuffix

LEMMA BetweenConcat ==
  ASSUME NEW S, NEW o \in Seq(S), NEW m \in Seq(S), NEW c \in Seq(S)
  PROVE  Between((o \o m) \o c, o, c) = m
<1> DEFINE ts == (o \o m) \o c
<1>1. o \o m \in Seq(S) /\ Len(o \o m) = Len(o) + Len(m) /\ m \o c \in Seq(S)
  BY ConcatProperties
<1>2. ts \in Seq(S) /\ Len(ts) = (Len(o) + Len(m)) + Len(c) /\ ts = o \o (m \o c)
  <2>1. ts \in Seq(S) /\ Len(ts) = Len(o \o m) + Len(c)
    BY <1>1, ConcatProperties
  <2>2. ts = o \o (m \o c)
    BY ConcatAssociative
  <2> QED
    BY <1>1, <2>1, <2>2
<1>3. IsPrefix(o, ts)
  BY <1>1, <1>2, PrefixOf
<1>4. IsSuffix(c, ts)
  BY <1>1, SuffixOf
<1>5. Holds(o \o m, Len(o), m)
  BY HoldsEnd
<1>6. Len(o) \in Nat /\ Len(m) \in Nat /\ Len(c) \in Nat
  OBVIOUS
<1>7. Holds(ts, Len(o), m)
  BY <1>1, <1>5, <1>6, HoldsFront
<1>8. SubSeq(ts, Len(o) + 1, Len(o) + Len(m)) = m
  BY <1>2, <1>6, <1>7, HoldsCut
<1> HIDE DEF ts
<1>9. Len(o) + Len(c) <= Len(ts) /\ Len(ts) - Len(c) = Len(o) + Len(m)
  BY <1>2, <1>6
<1>10. Between(ts, o, c) = SubSeq(ts, Len(o) + 1, Len(ts) - Len(c))
  BY <1>3, <1>4, <1>9 DEF Between
<1> QED
  BY <1>8, <1>9, <1>10 DEF ts

-------------------------------------------------------------------------------
(* Method calls. *)

LEMMA Regroup ==
  \A S : \A s, t, u \in Seq(S) : (s \o t) \o u = s \o (t \o u)
BY ConcatAssociative

LEMMA RegroupTokens ==
  \A s, t, u \in Seq(Tokens) : (s \o t) \o u = s \o (t \o u)
BY Regroup

LEMMA MethodCall ==
  ASSUME NEW object \in Uids, NEW method \in Uids, NEW body \in Seq(Seq(Tokens))
  PROVE  /\ New(object, method) \o TokenList(body) \in Seq(Tokens)
         /\ Parameters((New(object, method) \o TokenList(body)) \o Split(StatusTrailer),
                       object, method) = FlattenSeq(body)
<1> DEFINE new == New(object, method)
           start == Token(STARTLIST)
           end   == Token(ENDLIST)
           list  == Split(StatusTrailer)
           flat  == FlattenSeq(body)
<1>1. new \in Seq(Tokens) /\ flat \in Seq(Tokens) /\ TokenList(body) \in Seq(Tokens)
  BY NewIsTokens, ListIsTokens DEF BareTokenList
<1>2. start \in Seq(Tokens) /\ end \in Seq(Tokens) /\ list \in Seq(Tokens)
  BY ControlTokens, StatusTrailerIs
<1>3. TokenList(body) = (start \o flat) \o end
  BY DEF TokenList, BareTokenList
<1>4. Parameters((new \o TokenList(body)) \o list, object, method) =
          Between((new \o TokenList(body)) \o list, new \o start, end \o list)
  BY DEF Parameters, New, BS8
<1> HIDE DEF new, start, end, list, flat
<1>5. new \o start \in Seq(Tokens) /\ end \o list \in Seq(Tokens) /\ start \o flat \in Seq(Tokens)
  BY <1>1, <1>2, ConcatProperties
<1>6. new \o (start \o flat) = (new \o start) \o flat
  <2>1. new \in Seq(Tokens) /\ start \in Seq(Tokens) /\ flat \in Seq(Tokens)
    BY <1>1, <1>2
  <2>2. (new \o start) \o flat = new \o (start \o flat)
    BY Zenon, <2>1, RegroupTokens
  <2> QED
    BY <2>2
<1>7. new \o ((start \o flat) \o end) = (new \o (start \o flat)) \o end
  <2> DEFINE sf == start \o flat
  <2>1. sf \in Seq(Tokens) /\ new \in Seq(Tokens) /\ end \in Seq(Tokens)
    BY <1>1, <1>2, <1>5
  <2> HIDE DEF sf
  <2>2. (new \o sf) \o end = new \o (sf \o end)
    BY Zenon, <2>1, RegroupTokens
  <2> QED
    BY <2>2 DEF sf
<1>8. ((new \o start) \o flat) \in Seq(Tokens)
  BY <1>1, <1>5, ConcatProperties
<1>9. (((new \o start) \o flat) \o end) \o list = ((new \o start) \o flat) \o (end \o list)
  BY <1>2, <1>8, RegroupTokens
<1>10. (new \o TokenList(body)) \o list = ((new \o start) \o flat) \o (end \o list)
  BY <1>3, <1>6, <1>7, <1>9
<1>11. Between(((new \o start) \o flat) \o (end \o list), new \o start, end \o list) = flat
  BY <1>1, <1>5, BetweenConcat
<1>12. new \o TokenList(body) \in Seq(Tokens)
  BY <1>1, ConcatProperties
<1> QED
  BY <1>4, <1>10, <1>11, <1>12 DEF new, list, flat

LEMMA SplitTwoThree ==
  ASSUME NEW a \in Byte, NEW b \in Byte, NEW c \in Byte
  PROVE  Split(<<a, b>>) = <<<<a>>, <<b>>>> /\ Split(<<a, b, c>>) = <<<<a>>, <<b>>, <<c>>>>
<1>1. Split(<<a, b>>) = <<<<a>>, <<b>>>>
  BY DEF Split
<1>2. Split(<<a, b, c>>) = <<<<a>>, <<b>>, <<c>>>>
  BY DEF Split
<1> QED
  BY <1>1, <1>2

\* The rows of a Set.
LEMMA RowOfSet ==
  ASSUME NEW row \in Seq(Tokens)
  PROVE  Between(((Token(STARTNAME) \o Token(VALUES)) \o ((Token(STARTLIST) \o row) \o Token(ENDLIST)))
                    \o Token(ENDNAME),
                 Split(<<STARTNAME, VALUES, STARTLIST>>), Split(<<ENDLIST, ENDNAME>>)) = row
<1> DEFINE s  == Token(STARTNAME)
           v  == Token(VALUES)
           b  == Token(STARTLIST)
           e  == Token(ENDLIST)
           n  == Token(ENDNAME)
           op == Split(<<STARTNAME, VALUES, STARTLIST>>)
           cl == Split(<<ENDLIST, ENDNAME>>)
<1>1. /\ s \in Seq(Tokens) /\ v \in Seq(Tokens) /\ b \in Seq(Tokens)
      /\ e \in Seq(Tokens) /\ n \in Seq(Tokens)
  <2>1. VALUES \in 0..127
    BY DEF VALUES
  <2> QED
    BY <2>1, ControlTokens
<1>2. e \o n = cl
  <2>1. ENDLIST \in Byte /\ ENDNAME \in Byte
    BY DEF ENDLIST, ENDNAME, Byte
  <2>2. <<ENDLIST>> \in Seq(Byte) /\ <<ENDNAME>> \in Seq(Byte)
    BY <2>1
  <2>3. e \o n = <<<<ENDLIST>>, <<ENDNAME>>>>
    BY <2>2, OneAndOne DEF Token
  <2>4. cl = <<<<ENDLIST>>, <<ENDNAME>>>>
    BY <2>1, SplitTwoThree
  <2> QED
    BY <2>3, <2>4
<1>3. (s \o v) \o b = op
  <2>1. STARTNAME \in Byte /\ VALUES \in Byte /\ STARTLIST \in Byte
    BY DEF STARTNAME, VALUES, STARTLIST, Byte
  <2>2. <<STARTNAME>> \in Seq(Byte) /\ <<VALUES>> \in Seq(Byte) /\ <<STARTLIST>> \in Seq(Byte)
    BY <2>1
  <2>3. v \o b = <<<<VALUES>>, <<STARTLIST>>>>
    BY <2>2, OneAndOne DEF Token
  <2>4. s \o (v \o b) = <<<<STARTNAME>>, <<VALUES>>, <<STARTLIST>>>>
    BY <2>2, <2>3, OneAndTwo DEF Token
  <2>5. op = <<<<STARTNAME>>, <<VALUES>>, <<STARTLIST>>>>
    BY <2>1, SplitTwoThree
  <2> HIDE DEF s, v, b, op
  <2>6. (s \o v) \o b = s \o (v \o b)
    <3>1. s \in Seq(Tokens) /\ v \in Seq(Tokens) /\ b \in Seq(Tokens)
      BY <1>1
    <3> QED
      BY Zenon, <3>1, RegroupTokens
  <2> QED
    BY <2>4, <2>5, <2>6
<1> HIDE DEF s, v, b, e, n, op, cl
<1>4. s \o v \in Seq(Tokens) /\ b \o row \in Seq(Tokens) /\ e \o n \in Seq(Tokens)
  BY <1>1, ConcatProperties
<1>5. (s \o v) \o b \in Seq(Tokens)
  BY <1>1, <1>4, ConcatProperties
<1>6. ((s \o v) \o b) \o row \in Seq(Tokens)
  BY <1>5, ConcatProperties
<1>7. (s \o v) \o ((b \o row) \o e) = ((s \o v) \o (b \o row)) \o e
  <2> DEFINE x == s \o v
             y == b \o row
  <2>1. x \in Seq(Tokens) /\ y \in Seq(Tokens) /\ e \in Seq(Tokens)
    BY <1>1, <1>4
  <2> HIDE DEF x, y
  <2>2. (x \o y) \o e = x \o (y \o e)
    BY Zenon, <2>1, RegroupTokens
  <2> QED
    BY <2>2 DEF x, y
<1>8. (s \o v) \o (b \o row) = ((s \o v) \o b) \o row
  <2> DEFINE x == s \o v
  <2>1. x \in Seq(Tokens) /\ b \in Seq(Tokens) /\ row \in Seq(Tokens)
    BY <1>1, <1>4
  <2> HIDE DEF x
  <2>2. (x \o b) \o row = x \o (b \o row)
    BY Zenon, <2>1, RegroupTokens
  <2> QED
    BY <2>2 DEF x
<1>9. ((((s \o v) \o b) \o row) \o e) \o n = (((s \o v) \o b) \o row) \o (e \o n)
  <2> DEFINE x == ((s \o v) \o b) \o row
  <2>1. x \in Seq(Tokens) /\ e \in Seq(Tokens) /\ n \in Seq(Tokens)
    BY <1>1, <1>6
  <2> HIDE DEF x
  <2>2. (x \o e) \o n = x \o (e \o n)
    BY Zenon, <2>1, RegroupTokens
  <2> QED
    BY <2>2 DEF x
<1>10. Between((((s \o v) \o b) \o row) \o (e \o n), (s \o v) \o b, e \o n) = row
  BY <1>4, <1>5, BetweenConcat
<1>11. ((s \o v) \o ((b \o row) \o e)) \o n = (((s \o v) \o b) \o row) \o (e \o n)
  BY <1>7, <1>8, <1>9
<1> QED
  BY <1>2, <1>3, <1>10, <1>11 DEF s, v, b, e, n, op, cl

LEMMA NotRefused ==
  ASSUME NEW ts \in Seq(Tokens) PROVE ts # Refused
BY TokensAreBytes, RefusedAssumption

\* A Set of columns.
SetValues(columns) == <<TokenName(Token(VALUES), TokenList(columns))>>

LEMMA SetIsRead ==
  ASSUME NEW object \in Uids, NEW columns \in Seq(Seq(Tokens)), AreNamed(FlattenSeq(columns))
  PROVE  /\ New(object, SetMethod) \o TokenList(SetValues(columns)) \in Seq(Tokens)
         /\ Columns((New(object, SetMethod) \o TokenList(SetValues(columns))) \o Split(StatusTrailer),
                    object) = FlattenSeq(columns)
         /\ FlattenSeq(columns) # Refused
<1> DEFINE body == SetValues(columns)
           name == TokenName(Token(VALUES), TokenList(columns))
           ts   == (New(object, SetMethod) \o TokenList(body)) \o Split(StatusTrailer)
           row  == FlattenSeq(columns)
<1>1. row \in Seq(Tokens) /\ TokenList(columns) \in Seq(Tokens)
  BY ListIsTokens DEF BareTokenList
<1>2. name \in Seq(Tokens)
  <2>1. Token(VALUES) \in Seq(Tokens)
    BY ControlTokens DEF VALUES
  <2> QED
    BY <1>1, <2>1, NameIsTokens
<1>3. SetMethod \in Uids
  BY UidsAre
<1>4. body \in Seq(Seq(Tokens)) /\ FlattenSeq(body) = name
  <2>1. body = <<name>>
    BY DEF SetValues
  <2> HIDE DEF name, body
  <2>2. <<name>> \in Seq(Seq(Tokens))
    BY <1>2
  <2>3. FlattenSeq(<<name>>) = name
    BY <1>2, FlattenOne
  <2> QED
    BY <2>1, <2>2, <2>3
<1> HIDE DEF body
<1>5. New(object, SetMethod) \o TokenList(body) \in Seq(Tokens) /\ Parameters(ts, object, SetMethod) = name
  BY <1>3, <1>4, MethodCall
<1>6. name # Refused /\ row # Refused
  BY <1>1, <1>2, NotRefused
<1>7. Between(name, Split(<<STARTNAME, VALUES, STARTLIST>>), Split(<<ENDLIST, ENDNAME>>)) = row
  <2>1. name = ((Token(STARTNAME) \o Token(VALUES)) \o ((Token(STARTLIST) \o row) \o Token(ENDLIST)))
                    \o Token(ENDNAME)
    BY DEF TokenName, TokenList, BareTokenList
  <2> QED
    BY <1>1, <2>1, RowOfSet
<1> HIDE DEF name, ts, row
<1>8. AreNamed(row)
  BY DEF row
<1>9. Columns(ts, object) = row
  BY <1>5, <1>6, <1>7, <1>8 DEF Columns
<1> QED
  BY <1>5, <1>6, <1>9 DEF ts, row, body

-------------------------------------------------------------------------------
(* Named values. *)

LEMMA TwoAndOne ==
  ASSUME NEW S, NEW a \in S, NEW b \in S, NEW c \in S
  PROVE  <<a, b>> \o <<c>> = <<a, b, c>>
<1> DEFINE l == <<a, b>>
           r == <<c>>
           t == <<a, b, c>>
<1>1. /\ l \in Seq(S) /\ Len(l) = 2 /\ l[1] = a /\ l[2] = b
      /\ r \in Seq(S) /\ Len(r) = 1 /\ r[1] = c
      /\ t \in Seq(S) /\ Len(t) = 3 /\ t[1] = a /\ t[2] = b /\ t[3] = c
  OBVIOUS
<1> HIDE DEF l, r, t
<1>2. /\ l \o r \in Seq(S) /\ Len(l \o r) = 3
      /\ \A i \in 1..3 : (l \o r)[i] = IF i <= 2 THEN l[i] ELSE r[i - 2]
  <2>1. l \in Seq(S) /\ r \in Seq(S) /\ Len(l) = 2 /\ Len(r) = 1
    BY <1>1
  <2>2. /\ l \o r \in Seq(S) /\ Len(l \o r) = Len(l) + Len(r)
        /\ \A i \in 1..(Len(l) + Len(r)) : (l \o r)[i] = IF i <= Len(l) THEN l[i] ELSE r[i - Len(l)]
    BY <2>1, ConcatProperties
  <2> QED
    BY <2>1, <2>2
<1>3. \A i \in 1..3 : (l \o r)[i] = t[i]
  BY <1>1, <1>2
<1>4. l \o r = t
  BY <1>1, <1>2, <1>3, SeqEqual
<1> QED
  BY <1>4 DEF l, r, t

LEMMA ThreeAndOne ==
  ASSUME NEW S, NEW a \in S, NEW b \in S, NEW c \in S, NEW d \in S
  PROVE  <<a, b, c>> \o <<d>> = <<a, b, c, d>>
<1> DEFINE l == <<a, b, c>>
           r == <<d>>
           t == <<a, b, c, d>>
<1>1. /\ l \in Seq(S) /\ Len(l) = 3 /\ l[1] = a /\ l[2] = b /\ l[3] = c
      /\ r \in Seq(S) /\ Len(r) = 1 /\ r[1] = d
      /\ t \in Seq(S) /\ Len(t) = 4 /\ t[1] = a /\ t[2] = b /\ t[3] = c /\ t[4] = d
  OBVIOUS
<1> HIDE DEF l, r, t
<1>2. /\ l \o r \in Seq(S) /\ Len(l \o r) = 4
      /\ \A i \in 1..4 : (l \o r)[i] = IF i <= 3 THEN l[i] ELSE r[i - 3]
  <2>1. l \in Seq(S) /\ r \in Seq(S) /\ Len(l) = 3 /\ Len(r) = 1
    BY <1>1
  <2>2. /\ l \o r \in Seq(S) /\ Len(l \o r) = Len(l) + Len(r)
        /\ \A i \in 1..(Len(l) + Len(r)) : (l \o r)[i] = IF i <= Len(l) THEN l[i] ELSE r[i - Len(l)]
    BY <2>1, ConcatProperties
  <2> QED
    BY <2>1, <2>2
<1>3. \A i \in 1..4 : (l \o r)[i] = t[i]
  BY <1>1, <1>2
<1>4. l \o r = t
  BY <1>1, <1>2, <1>3, SeqEqual
<1> QED
  BY <1>4 DEF l, r, t

LEMMA NameIs ==
  ASSUME NEW k \in Tokens, NEW v \in Tokens
  PROVE  /\ TokenName(<<k>>, <<v>>) = <<<<STARTNAME>>, k, v, <<ENDNAME>>>>
         /\ TokenName(<<k>>, <<v>>) \in Seq(Tokens)
<1> DEFINE a == <<STARTNAME>>
           d == <<ENDNAME>>
<1>1. a \in Tokens /\ d \in Tokens
  BY ControlTokens
<1>2. TokenName(<<k>>, <<v>>) = ((<<a>> \o <<k>>) \o <<v>>) \o <<d>>
  BY DEF TokenName, Token
<1>3. <<k>> \in Seq(Tokens) /\ <<v>> \in Seq(Tokens)
  OBVIOUS
<1> HIDE DEF a, d
<1>4. <<a>> \o <<k>> = <<a, k>>
  BY <1>1, OneAndOne
<1>5. <<a, k>> \in Seq(Tokens) /\ <<a, k, v>> \in Seq(Tokens)
  BY <1>1
<1>6. <<a, k>> \o <<v>> = <<a, k, v>>
  BY <1>1, TwoAndOne
<1>7. <<a, k, v>> \o <<d>> = <<a, k, v, d>>
  BY <1>1, ThreeAndOne
<1>8. TokenName(<<k>>, <<v>>) = <<a, k, v, d>>
  BY <1>2, <1>4, <1>6, <1>7
<1>9. TokenName(<<k>>, <<v>>) \in Seq(Tokens)
  BY <1>3, NameIsTokens
<1> QED
  BY <1>8, <1>9 DEF a, d

LEMMA NameParts ==
  ASSUME NEW k \in Tokens, NEW v \in Tokens
  PROVE  LET s == TokenName(<<k>>, <<v>>)
         IN  Len(s) = 4 /\ s[1] = <<STARTNAME>> /\ s[2] = k /\ s[3] = v /\ s[4] = <<ENDNAME>>
<1> DEFINE a == <<STARTNAME>>
           d == <<ENDNAME>>
           s == TokenName(<<k>>, <<v>>)
<1>1. s = <<a, k, v, d>>
  BY NameIs
<1> HIDE DEF a, d, s
<1>2. Len(s) = 4 /\ s[1] = a /\ s[2] = k /\ s[3] = v /\ s[4] = d
  BY <1>1
<1> QED
  BY <1>2 DEF a, d, s

LEMMA OneNamed ==
  ASSUME NEW k \in Tokens, NEW v \in Tokens
  PROVE  /\ AreNamed(TokenName(<<k>>, <<v>>))
         /\ NamedValues(TokenName(<<k>>, <<v>>)) = {<<k, v>>}
<1> DEFINE ts == TokenName(<<k>>, <<v>>)
<1>2. Len(ts) = 4 /\ ts[1] = <<STARTNAME>> /\ ts[2] = k /\ ts[3] = v /\ ts[4] = <<ENDNAME>>
  BY NameParts
<1> HIDE DEF ts
<1>3. Len(ts) % 4 = 0 /\ 1..(Len(ts) \div 4) = {1}
  BY <1>2
<1>4. (4 * 1) - 3 = 1 /\ (4 * 1) - 2 = 2 /\ (4 * 1) - 1 = 3 /\ 4 * 1 = 4
  OBVIOUS
<1>5. AreNamed(ts)
  BY <1>2, <1>3, <1>4 DEF AreNamed
<1>6. NamedValues(ts) = {<<k, v>>}
  BY <1>2, <1>3, <1>4 DEF NamedValues
<1> QED
  BY <1>5, <1>6 DEF ts

\* The stream ts names these values.
Names(ts, values) == AreNamed(ts) /\ NamedValues(ts) = values

LEMMA TwoNamed ==
  \A k, v, l, w \in Tokens :
      Names(TokenName(<<k>>, <<v>>) \o TokenName(<<l>>, <<w>>), {<<k, v>>, <<l, w>>})
<1> TAKE k, v, l, w \in Tokens
<1> DEFINE a == TokenName(<<k>>, <<v>>)
           b == TokenName(<<l>>, <<w>>)
           ts == a \o b
<1>1. a \in Seq(Tokens) /\ b \in Seq(Tokens)
  BY NameIs
<1>2. Len(a) = 4 /\ a[1] = <<STARTNAME>> /\ a[2] = k /\ a[3] = v /\ a[4] = <<ENDNAME>>
  BY NameParts
<1>3. Len(b) = 4 /\ b[1] = <<STARTNAME>> /\ b[2] = l /\ b[3] = w /\ b[4] = <<ENDNAME>>
  BY NameParts
<1> HIDE DEF a, b
<1>4. Len(ts) = Len(a) + Len(b) /\
      \A i \in 1..(Len(a) + Len(b)) : ts[i] = IF i <= Len(a) THEN a[i] ELSE b[i - Len(a)]
  BY <1>1, ConcatProperties
<1> HIDE DEF ts
<1>5. Len(ts) = 8 /\ \A i \in 1..8 : ts[i] = IF i <= 4 THEN a[i] ELSE b[i - 4]
  BY <1>2, <1>3, <1>4
<1>6. /\ ts[1] = <<STARTNAME>> /\ ts[2] = k /\ ts[3] = v /\ ts[4] = <<ENDNAME>>
      /\ ts[5] = <<STARTNAME>> /\ ts[6] = l /\ ts[7] = w /\ ts[8] = <<ENDNAME>>
  BY <1>2, <1>3, <1>5
<1>7. Len(ts) % 4 = 0 /\ 1..(Len(ts) \div 4) = {1, 2}
  BY <1>5
<1>8. /\ (4 * 1) - 3 = 1 /\ (4 * 1) - 2 = 2 /\ (4 * 1) - 1 = 3 /\ 4 * 1 = 4
      /\ (4 * 2) - 3 = 5 /\ (4 * 2) - 2 = 6 /\ (4 * 2) - 1 = 7 /\ 4 * 2 = 8
  OBVIOUS
<1>9. AreNamed(ts)
  BY <1>6, <1>7, <1>8 DEF AreNamed
<1>10. NamedValues(ts) = {<<k, v>>, <<l, w>>}
  BY <1>6, <1>7, <1>8 DEF NamedValues
<1> QED
  BY <1>9, <1>10 DEF ts, a, b, Names

-------------------------------------------------------------------------------
(* The requests mean what they are for. *)

LEMMA SmallIsToken ==
  ASSUME NEW b \in 0..127 PROVE <<b>> \in Tokens /\ Token(b) = <<<<b>>>> /\ Token(b) \in Seq(Tokens)
BY ControlTokens DEF Token

LEMMA MbrDoneIsRead ==
  ASSUME NEW done \in BOOLEAN
  PROVE  /\ SetMbrDone(done) \in Seq(Tokens)
         /\ Columns(SetMbrDone(done) \o Split(StatusTrailer), OPAL_MBRCONTROL) # Refused
         /\ NamedValues(Columns(SetMbrDone(done) \o Split(StatusTrailer), OPAL_MBRCONTROL)) =
                {<<<<MBRDONE>>, Bool(done)>>}
<1> DEFINE k == <<MBRDONE>>
           x == IF done THEN OPAL_TRUE ELSE OPAL_FALSE
           name == TokenName(Token(MBRDONE), Token(x))
           columns == <<name>>
<1>1. k \in Tokens /\ <<x>> \in Tokens /\ Token(MBRDONE) = <<k>> /\ Token(x) = <<<<x>>>>
  <2>1. MBRDONE \in 0..127 /\ x \in 0..127
    BY DEF MBRDONE, OPAL_TRUE, OPAL_FALSE
  <2> HIDE DEF x
  <2>2. <<MBRDONE>> \in Tokens /\ Token(MBRDONE) = <<<<MBRDONE>>>>
    BY <2>1, SmallIsToken
  <2>3. <<x>> \in Tokens /\ Token(x) = <<<<x>>>>
    BY <2>1, SmallIsToken
  <2> QED
    BY <2>2, <2>3
<1>2. <<x>> = Bool(done)
  BY DEF Bool, OPAL_TRUE, OPAL_FALSE
<1>3. SetMbrDone(done) = New(OPAL_MBRCONTROL, SetMethod) \o TokenList(SetValues(columns))
  BY DEF SetMbrDone, SetValues
<1> HIDE DEF k, x
<1>4. name \in Seq(Tokens) /\ AreNamed(name) /\ NamedValues(name) = {<<k, <<x>>>>}
  BY <1>1, NameIs, OneNamed
<1> HIDE DEF name
<1>5. columns \in Seq(Seq(Tokens)) /\ FlattenSeq(columns) = name
  BY <1>4, FlattenOne
<1> HIDE DEF columns
<1>6. OPAL_MBRCONTROL \in Uids /\ AreNamed(FlattenSeq(columns))
  BY <1>4, <1>5, UidsAre
<1>7. /\ SetMbrDone(done) \in Seq(Tokens)
      /\ Columns(SetMbrDone(done) \o Split(StatusTrailer), OPAL_MBRCONTROL) = FlattenSeq(columns)
      /\ FlattenSeq(columns) # Refused
  BY <1>3, <1>5, <1>6, SetIsRead
<1> QED
  BY <1>2, <1>4, <1>5, <1>7 DEF k

LEMMA LocksAreRead ==
  ASSUME NEW range \in Byte, NEW state \in LockingStates \ {"ArchiveLocked"}
  PROVE  LET ts      == SetLockingRange(range, state)
             columns == Columns(ts \o Split(StatusTrailer), LockingRange(range))
         IN  /\ ts \in Seq(Tokens) /\ columns # Refused
             /\ <<<<READLOCKED>>, Bool(~MayRead(state))>> \in NamedValues(columns)
             /\ state # "ArchiveUnlocked" =>
                    <<<<WRITELOCKED>>, Bool(~MayWrite(state))>> \in NamedValues(columns)
<1> DEFINE k == <<READLOCKED>>
           l == <<WRITELOCKED>>
           x == ReadLock(state)
           y == WriteLock(state)
           read    == TokenName(Token(READLOCKED), Token(x))
           write   == TokenName(Token(WRITELOCKED), Token(y))
           second  == IF state \in {"ArchiveLocked", "ArchiveUnlocked"} THEN <<>> ELSE write
           columns == <<read, second>>
           object  == LockingRange(range)
           ts      == SetLockingRange(range, state)
           is      == Columns(ts \o Split(StatusTrailer), object)
<1>1. /\ k \in Tokens /\ l \in Tokens /\ <<x>> \in Tokens /\ <<y>> \in Tokens
      /\ Token(READLOCKED) = <<k>> /\ Token(WRITELOCKED) = <<l>>
      /\ Token(x) = <<<<x>>>> /\ Token(y) = <<<<y>>>>
  <2>1. READLOCKED \in 0..127 /\ WRITELOCKED \in 0..127 /\ x \in 0..127 /\ y \in 0..127
    BY DEF READLOCKED, WRITELOCKED, ReadLock, WriteLock, OPAL_TRUE, OPAL_FALSE
  <2> HIDE DEF x, y
  <2>2. <<READLOCKED>> \in Tokens /\ Token(READLOCKED) = <<<<READLOCKED>>>>
    BY <2>1, SmallIsToken
  <2>3. <<WRITELOCKED>> \in Tokens /\ Token(WRITELOCKED) = <<<<WRITELOCKED>>>>
    BY <2>1, SmallIsToken
  <2>4. <<x>> \in Tokens /\ Token(x) = <<<<x>>>>
    BY <2>1, SmallIsToken
  <2>5. <<y>> \in Tokens /\ Token(y) = <<<<y>>>>
    BY <2>1, SmallIsToken
  <2> QED
    BY <2>2, <2>3, <2>4, <2>5
<1>2. <<x>> = Bool(~MayRead(state)) /\ (state # "ArchiveUnlocked" => <<y>> = Bool(~MayWrite(state)))
  BY DEF Bool, MayRead, MayWrite, ReadLock, WriteLock, OPAL_TRUE, OPAL_FALSE, LockingStates
<1>3. ts = New(object, SetMethod) \o TokenList(SetValues(columns))
  BY DEF SetLockingRange, SetValues
<1>4. object \in Uids
  BY RangeUid
<1>5. second = IF state = "ArchiveUnlocked" THEN <<>> ELSE write
  OBVIOUS
<1> HIDE DEF k, l, x, y
<1>6. /\ read \in Seq(Tokens) /\ AreNamed(read) /\ NamedValues(read) = {<<k, <<x>>>>}
      /\ write \in Seq(Tokens)
  BY <1>1, NameIs, OneNamed
<1>7. AreNamed(read \o write) /\ NamedValues(read \o write) = {<<k, <<x>>>>, <<l, <<y>>>>}
  <2> DEFINE v == <<x>>
             w == <<y>>
  <2>1. read = TokenName(<<k>>, <<v>>) /\ write = TokenName(<<l>>, <<w>>)
    BY <1>1
  <2>2. v \in Tokens /\ w \in Tokens /\ k \in Tokens /\ l \in Tokens
    BY <1>1
  <2> HIDE DEF v, w, read, write
  <2>3. Names(TokenName(<<k>>, <<v>>) \o TokenName(<<l>>, <<w>>), {<<k, v>>, <<l, w>>})
    BY Zenon, <2>2, TwoNamed
  <2> QED
    BY <2>1, <2>3 DEF v, w, Names
<1> HIDE DEF read, write, second, object, ts
<1>8. second \in Seq(Tokens)
  BY <1>5, <1>6
<1>9. columns \in Seq(Seq(Tokens)) /\ FlattenSeq(columns) = read \o second
  <2>1. columns \in Seq(Seq(Tokens))
    BY <1>6, <1>8
  <2>2. FlattenSeq(<<read, second>>) = read \o second
    BY <1>6, <1>8, FlattenTwo
  <2> QED
    BY <2>1, <2>2
<1> HIDE DEF columns
<1>10. read \o <<>> = read
  BY <1>6
<1>11. /\ AreNamed(FlattenSeq(columns)) /\ <<k, <<x>>>> \in NamedValues(FlattenSeq(columns))
       /\ state # "ArchiveUnlocked" => <<l, <<y>>>> \in NamedValues(FlattenSeq(columns))
  <2>1. CASE state = "ArchiveUnlocked"
    <3>1. FlattenSeq(columns) = read
      BY <1>5, <1>9, <1>10, <2>1
    <3> QED
      BY <1>6, <2>1, <3>1
  <2>2. CASE state # "ArchiveUnlocked"
    <3>1. FlattenSeq(columns) = read \o write
      BY <1>5, <1>9, <2>2
    <3> QED
      BY <1>7, <3>1
  <2> QED
    BY <2>1, <2>2
<1>12. ts \in Seq(Tokens) /\ is = FlattenSeq(columns) /\ FlattenSeq(columns) # Refused
  BY <1>3, <1>4, <1>9, <1>11, SetIsRead
<1> QED
  BY <1>2, <1>11, <1>12 DEF k, l, ts, object

LEMMA ThreeFirst ==
  ASSUME NEW S, NEW a \in S, NEW b \in S, NEW c \in S, NEW s \in Seq(S)
  PROVE  /\ SubSeq(<<a, b, c>> \o s, 2, 3) = <<b, c>>
         /\ SubSeq(<<a, b, c>> \o s, 4, Len(<<a, b, c>> \o s)) = s
<1> DEFINE f == <<a, b, c>>
           t == f \o s
           g == <<b, c>>
           h == SubSeq(t, 2, 3)
<1>1. /\ f \in Seq(S) /\ Len(f) = 3 /\ f[1] = a /\ f[2] = b /\ f[3] = c
      /\ g \in Seq(S) /\ Len(g) = 2 /\ g[1] = b /\ g[2] = c
  OBVIOUS
<1> HIDE DEF f, g
<1>2. /\ t \in Seq(S) /\ Len(t) = Len(f) + Len(s)
      /\ \A i \in 1..(Len(f) + Len(s)) : t[i] = IF i <= Len(f) THEN f[i] ELSE s[i - Len(f)]
  BY <1>1, ConcatProperties
<1>3. SubSeq(t, Len(f) + 1, Len(f) + Len(s)) = s
  BY <1>1, BackCut
<1> HIDE DEF t
<1>4. SubSeq(t, 4, Len(t)) = s
  BY <1>1, <1>2, <1>3
<1>5. Len(t) \in Nat /\ Len(t) >= 3 /\ t[2] = b /\ t[3] = c
  BY <1>1, <1>2
<1>6. /\ h \in Seq(S) /\ Len(h) = 2 /\ \A j \in 1..2 : h[j] = t[2 + j - 1]
  <2>1. 2 + 2 - 1 = 3 /\ 2 + 2 - 1 <= Len(t)
    BY <1>5
  <2>2. /\ SubSeq(t, 2, 2 + 2 - 1) \in Seq(S) /\ Len(SubSeq(t, 2, 2 + 2 - 1)) = 2
        /\ \A j \in 1..2 : SubSeq(t, 2, 2 + 2 - 1)[j] = t[2 + j - 1]
    BY <1>2, <2>1, CutOut
  <2> QED
    BY <2>1, <2>2
<1> HIDE DEF h
<1>7. h[1] = b /\ h[2] = c
  <2>1. 2 + 1 - 1 = 2 /\ 2 + 2 - 1 = 3 /\ 1 \in 1..2 /\ 2 \in 1..2
    OBVIOUS
  <2>2. h[1] = t[2 + 1 - 1] /\ h[2] = t[2 + 2 - 1]
    BY <1>6, <2>1
  <2> QED
    BY <1>5, <2>1, <2>2
<1>8. \A j \in 1..2 : h[j] = g[j]
  BY <1>1, <1>7
<1>9. h = g
  BY <1>1, <1>6, <1>8, SeqEqual
<1> QED
  BY <1>4, <1>9 DEF h, t, f, g

LEMMA TokensOfStart ==
  /\ WriteU64(<<0, 0, 0, 0, 0, 0, 0, 105>>) \in Tokens
  /\ WriteU64(<<0, 0, 0, 0, 0, 0, 234, 96>>) \in Tokens
  /\ WriteBytes(<<83, 101, 115, 115, 105, 111, 110, 84, 105, 109, 101, 111, 117, 116>>) \in Tokens
<1>1. <<0, 0, 0, 0, 0, 0, 0, 105>> \in U64
  BY DEF U64, Byte
<1>2. <<0, 0, 0, 0, 0, 0, 234, 96>> \in U64
  BY DEF U64, Byte
<1>3. <<83, 101, 115, 115, 105, 111, 110, 84, 105, 109, 101, 111, 117, 116>> \in Writable
  BY DEF Writable, Byte
<1> QED
  BY <1>1, <1>2, <1>3, IntegerIsToken, StringIsToken

\* The parameters of StartSession that may be left out.
Optional(challenge, eprise) ==
    IF eprise
    THEN TokenName(Bytes(<<83, 101, 115, 115, 105, 111, 110, 84, 105, 109, 101, 111, 117, 116>>),
                   Uint(<<0, 0, 0, 0, 0, 0, 234, 96>>))
    ELSE TokenName(Token(0), Bytes(challenge)) \o TokenName(Token(3), BS8(OPAL_ADMIN1))

LEMMA OptionalAreNamed ==
  ASSUME NEW challenge \in Writable, NEW eprise \in BOOLEAN
  PROVE  /\ Optional(challenge, eprise) \in Seq(Tokens) /\ AreNamed(Optional(challenge, eprise))
         /\ ~eprise => NamedValues(Optional(challenge, eprise)) =
                           {<<<<0>>, WriteBytes(challenge)>>, <<<<3>>, <<168>> \o OPAL_ADMIN1>>}
<1> DEFINE o == Optional(challenge, eprise)
<1>1. CASE eprise
  <2> DEFINE k == WriteBytes(<<83, 101, 115, 115, 105, 111, 110, 84, 105, 109, 101, 111, 117, 116>>)
             v == WriteU64(<<0, 0, 0, 0, 0, 0, 234, 96>>)
  <2>1. o = TokenName(<<k>>, <<v>>)
    BY <1>1 DEF Optional, Bytes, Uint
  <2>2. k \in Tokens /\ v \in Tokens
    BY TokensOfStart
  <2> HIDE DEF k, v, o
  <2>3. o \in Seq(Tokens) /\ AreNamed(o)
    BY <2>1, <2>2, NameIs, OneNamed
  <2> QED
    BY <1>1, <2>3 DEF o
<1>2. CASE ~eprise
  <2> DEFINE k == <<0>>
             v == WriteBytes(challenge)
             l == <<3>>
             w == <<168>> \o OPAL_ADMIN1
  <2>1. o = TokenName(<<k>>, <<v>>) \o TokenName(<<l>>, <<w>>)
    BY <1>2 DEF Optional, Bytes, BS8, Token
  <2>2. k \in Tokens /\ v \in Tokens /\ l \in Tokens /\ w \in Tokens
    <3>1. k \in Tokens /\ l \in Tokens
      BY SmallIsToken
    <3>2. v \in Tokens
      BY StringIsToken
    <3>3. w \in Tokens
      BY UidsAre, UidIsToken
    <3> QED
      BY <3>1, <3>2, <3>3
  <2> HIDE DEF k, v, l, w, o
  <2>3. TokenName(<<k>>, <<v>>) \in Seq(Tokens) /\ TokenName(<<l>>, <<w>>) \in Seq(Tokens)
    BY <2>2, NameIs
  <2>4. o \in Seq(Tokens)
    BY <2>1, <2>3, ConcatProperties
  <2>5. Names(TokenName(<<k>>, <<v>>) \o TokenName(<<l>>, <<w>>), {<<k, v>>, <<l, w>>})
    BY Zenon, <2>2, TwoNamed
  <2>6. AreNamed(o) /\ NamedValues(o) = {<<k, v>>, <<l, w>>}
    BY <2>1, <2>5 DEF Names
  <2> QED
    BY <1>2, <2>4, <2>6 DEF o, k, v, l, w
<1> QED
  BY <1>1, <1>2

LEMMA StartIsRead ==
  ASSUME NEW challenge \in Writable, NEW eprise \in BOOLEAN
  PROVE  LET ts == StartSession(challenge, eprise)
             ps == Parameters(ts \o Split(StatusTrailer), OPAL_SMUID, StartSessionMethod)
         IN  /\ ts \in Seq(Tokens) /\ ps # Refused
             /\ SubSeq(ps, 2, 3) = <<<<168>> \o OPAL_LOCKINGSP, <<1>>>>
             /\ SubSeq(ps, 4, Len(ps)) = Optional(challenge, eprise)
<1> DEFINE a1 == WriteU64(<<0, 0, 0, 0, 0, 0, 0, 105>>)
           b1 == <<168>> \o OPAL_LOCKINGSP
           c1 == <<1>>
           d  == IF eprise THEN <<>>
                 ELSE BareTokenList(<<TokenName(Token(0), Bytes(challenge)),
                                      TokenName(Token(3), BS8(OPAL_ADMIN1))>>)
           e  == IF eprise
                 THEN TokenName(Bytes(<<83, 101, 115, 115, 105, 111, 110, 84, 105, 109, 101, 111, 117, 116>>),
                                Uint(<<0, 0, 0, 0, 0, 0, 234, 96>>))
                 ELSE <<>>
           body == <<<<a1>>, <<b1>>, <<c1>>, d, e>>
           ts == StartSession(challenge, eprise)
           ps == Parameters(ts \o Split(StatusTrailer), OPAL_SMUID, StartSessionMethod)
           o  == Optional(challenge, eprise)
<1>1. ts = New(OPAL_SMUID, StartSessionMethod) \o TokenList(body)
  BY DEF StartSession, Uint, BS8, Token
<1>2. a1 \in Tokens /\ b1 \in Tokens /\ c1 \in Tokens
  <2>1. a1 \in Tokens
    BY TokensOfStart
  <2>2. b1 \in Tokens
    BY UidsAre, UidIsToken
  <2>3. c1 \in Tokens
    BY SmallIsToken
  <2> QED
    BY <2>1, <2>2, <2>3
<1>3. o \in Seq(Tokens)
  BY OptionalAreNamed
<1>4. d \o e = o /\ d \in Seq(Tokens) /\ e \in Seq(Tokens)
  <2>1. CASE eprise
    <3>1. d = <<>> /\ e = o
      BY <2>1 DEF Optional
    <3> HIDE DEF d, e, o
    <3>2. <<>> \o o = o /\ <<>> \in Seq(Tokens)
      BY <1>3
    <3> QED
      BY <1>3, <3>1, <3>2
  <2>2. CASE ~eprise
    <3> DEFINE n1 == TokenName(Token(0), Bytes(challenge))
               n2 == TokenName(Token(3), BS8(OPAL_ADMIN1))
    <3>1. n1 \in Seq(Tokens) /\ n2 \in Seq(Tokens)
      <4>1. Token(0) \in Seq(Tokens) /\ Token(3) \in Seq(Tokens)
        BY SmallIsToken
      <4>2. Bytes(challenge) \in Seq(Tokens)
        BY StringIsToken DEF Bytes
      <4>3. BS8(OPAL_ADMIN1) \in Seq(Tokens)
        BY UidsAre, UidIsToken
      <4> QED
        BY <4>1, <4>2, <4>3, NameIsTokens
    <3>2. d = FlattenSeq(<<n1, n2>>) /\ o = n1 \o n2 /\ e = <<>>
      BY <2>2 DEF Optional, BareTokenList
    <3> HIDE DEF d, e, o, n1, n2
    <3>3. d = o
      BY <3>1, <3>2, FlattenTwo
    <3>4. o \o <<>> = o /\ <<>> \in Seq(Tokens)
      BY <1>3
    <3> QED
      BY <1>3, <3>2, <3>3, <3>4
  <2> QED
    BY <2>1, <2>2
<1> HIDE DEF a1, b1, c1, d, e, o, ts
<1>5. <<a1>> \in Seq(Tokens) /\ <<b1>> \in Seq(Tokens) /\ <<c1>> \in Seq(Tokens)
  BY <1>2
<1>6. FlattenSeq(body) = (((<<a1>> \o <<b1>>) \o <<c1>>) \o d) \o e
  <2>1. /\ body \in Seq(Seq(Tokens)) /\ Len(body) = 5
        /\ body[1] = <<a1>> /\ body[2] = <<b1>> /\ body[3] = <<c1>> /\ body[4] = d /\ body[5] = e
    BY <1>4, <1>5
  <2> HIDE DEF body
  <2>2. FlattenSeq(body) = (((body[1] \o body[2]) \o body[3]) \o body[4]) \o body[5]
    BY <2>1, FlattenFive
  <2> QED
    BY <2>1, <2>2
<1>7. (<<a1>> \o <<b1>>) \o <<c1>> = <<a1, b1, c1>>
  <2>1. <<a1>> \o <<b1>> = <<a1, b1>>
    BY <1>2, OneAndOne
  <2>2. <<a1, b1>> \o <<c1>> = <<a1, b1, c1>>
    BY <1>2, TwoAndOne
  <2> QED
    BY <2>1, <2>2
<1>8. <<a1, b1, c1>> \in Seq(Tokens)
  BY <1>2
<1>9. (<<a1, b1, c1>> \o d) \o e = <<a1, b1, c1>> \o (d \o e)
  BY <1>4, <1>8, RegroupTokens
<1>10. FlattenSeq(body) = <<a1, b1, c1>> \o o
  BY <1>4, <1>6, <1>7, <1>9
<1>11. body \in Seq(Seq(Tokens))
  BY <1>4, <1>5
<1> HIDE DEF body
<1>12. OPAL_SMUID \in Uids /\ StartSessionMethod \in Uids
  BY UidsAre
<1>13. ts \in Seq(Tokens) /\ ps = FlattenSeq(body)
  BY <1>1, <1>11, <1>12, MethodCall
<1> HIDE DEF ps
<1>14. ps = <<a1, b1, c1>> \o o /\ ps \in Seq(Tokens)
  BY <1>3, <1>8, <1>10, <1>13, ConcatProperties
<1>15. SubSeq(ps, 2, 3) = <<b1, c1>> /\ SubSeq(ps, 4, Len(ps)) = o
  BY <1>2, <1>3, <1>14, ThreeFirst
<1>16. ps # Refused
  BY <1>14, NotRefused
<1> QED
  BY <1>13, <1>15, <1>16 DEF ts, ps, b1, c1, o

LEMMA RequestIsRead ==
  ASSUME NEW r \in SessionRequests
  PROVE  /\ RequestTokens(r) \in Seq(Tokens)
         /\ MeansRequest(RequestTokens(r) \o Trailer(r.fn # "drop", Split(StatusTrailer)), r)
<1> DEFINE list == Split(StatusTrailer)
           ts   == RequestTokens(r)
           all  == ts \o Trailer(r.fn # "drop", list)
<1>1. CASE r \in [fn : {"start"}, challenge : Writable, eprise : BOOLEAN]
  <2> DEFINE ps == Parameters(ts \o list, OPAL_SMUID, StartSessionMethod)
             o  == Optional(r.challenge, r.eprise)
  <2>1. r.fn = "start" /\ r.challenge \in Writable /\ r.eprise \in BOOLEAN
    BY <1>1
  <2>2. ts = StartSession(r.challenge, r.eprise)
    BY <2>1 DEF RequestTokens
  <2>3. all = ts \o list
    BY <2>1 DEF Trailer
  <2> HIDE DEF ts, all, list
  <2>4. /\ ts \in Seq(Tokens) /\ ps # Refused
        /\ SubSeq(ps, 2, 3) = <<<<168>> \o OPAL_LOCKINGSP, <<1>>>>
        /\ SubSeq(ps, 4, Len(ps)) = o
    BY <2>1, <2>2, StartIsRead DEF list
  <2>5. /\ AreNamed(o)
        /\ ~r.eprise => NamedValues(o) = {<<<<0>>, WriteBytes(r.challenge)>>,
                                          <<<<3>>, <<168>> \o OPAL_ADMIN1>>}
    BY <2>1, OptionalAreNamed
  <2> HIDE DEF ps, o
  <2>6. MeansRequest(all, r)
    <3>1. Parameters(all, OPAL_SMUID, StartSessionMethod) = ps
      BY <2>3 DEF ps
    <3> QED
      BY <2>1, <2>4, <2>5, <3>1 DEF MeansRequest
  <2> QED
    BY <2>4, <2>6 DEF ts, all, list
<1>2. CASE r \in [fn : {"set_locking_range"}, range : Byte,
                  state : LockingStates \ {"ArchiveLocked"}]
  <2> DEFINE object  == IF r.range = 0 THEN OPAL_LOCKINGRANGE_GLOBAL
                        ELSE <<0, 0, 8, 2, 0, 3, 0, r.range>>
             columns == Columns(all, object)
  <2>1. /\ r.fn = "set_locking_range" /\ r.range \in Byte
        /\ r.state \in LockingStates \ {"ArchiveLocked"}
    BY <1>2
  <2>2. ts = SetLockingRange(r.range, r.state)
    BY <2>1 DEF RequestTokens
  <2>3. all = ts \o list
    BY <2>1 DEF Trailer
  <2>4. object = LockingRange(r.range)
    BY <2>1, RangeUid
  <2> HIDE DEF ts, all, list, object
  <2>5. /\ ts \in Seq(Tokens) /\ columns # Refused
        /\ <<<<READLOCKED>>, Bool(~MayRead(r.state))>> \in NamedValues(columns)
        /\ r.state # "ArchiveUnlocked" =>
               <<<<WRITELOCKED>>, Bool(~MayWrite(r.state))>> \in NamedValues(columns)
    BY <2>1, <2>2, <2>3, <2>4, LocksAreRead DEF list
  <2> HIDE DEF columns
  <2>6. MeansRequest(all, r)
    BY <2>1, <2>5 DEF MeansRequest, columns, object
  <2> QED
    BY <2>5, <2>6 DEF ts, all, list
<1>3. CASE r \in [fn : {"set_mbr_done"}, done : BOOLEAN]
  <2>1. r.fn = "set_mbr_done" /\ r.done \in BOOLEAN
    BY <1>3
  <2>2. ts = SetMbrDone(r.done)
    BY <2>1 DEF RequestTokens
  <2>3. all = ts \o list
    BY <2>1 DEF Trailer
  <2> HIDE DEF ts, all, list
  <2>4. /\ ts \in Seq(Tokens) /\ Columns(all, OPAL_MBRCONTROL) # Refused
        /\ NamedValues(Columns(all, OPAL_MBRCONTROL)) = {<<<<MBRDONE>>, Bool(r.done)>>}
    BY <2>1, <2>2, <2>3, MbrDoneIsRead DEF list
  <2>5. MeansRequest(all, r)
    BY <2>1, <2>4 DEF MeansRequest
  <2> QED
    BY <2>4, <2>5 DEF ts, all, list
<1>4. CASE r \in [fn : {"drop"}]
  <2>1. r.fn = "drop"
    BY <1>4
  <2>2. ts = <<<<ENDOFSESSION>>>>
    BY <2>1 DEF RequestTokens, EndOfSession, Token
  <2>3. ts \in Seq(Tokens)
    BY <2>2, ControlTokens DEF Token
  <2>4. Trailer(r.fn # "drop", list) = <<>>
    BY <2>1 DEF Trailer
  <2> HIDE DEF ts, list
  <2>5. ts \o <<>> = ts
    BY <2>3
  <2>6. MeansRequest(all, r)
    BY <2>1, <2>2, <2>4, <2>5 DEF MeansRequest
  <2> QED
    BY <2>3, <2>6 DEF ts, list
<1> QED
  BY <1>1, <1>2, <1>3, <1>4 DEF SessionRequests
===============================================================================
