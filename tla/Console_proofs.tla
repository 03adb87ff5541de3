---------------------------- MODULE Console_proofs ----------------------------
(***************************************************************************)
(* The menu of the console for every screen and every list of options, and *)
(* the keys that were pressed before: what TLC shows for small ones.       *)
(***************************************************************************)
EXTENDS Console, WellFoundedInduction, TLAPS

Keys == [key : Pressed, age : {"new", "old", "late"}]

\* A key pressed before the call is in the queue until it has been drained, and
\* nowhere after that, unless it was late.
NoneOld(keys) == \A i \in DOMAIN keys : keys[i].age # "old"

KeysInv ==
  /\ air \in Seq(Keys) /\ queue \in Seq(Keys) /\ stale = FALSE
  /\ pc \in {"drain", "mark", "keys", "read"} => NoneOld(air)
  /\ pc \in {"mark", "keys", "read"} => NoneOld(queue)

LEMMA AgedKeys ==
  ASSUME NEW keys \in Seq(Keys), NEW age \in {"new", "old", "late"}
  PROVE  Aged(keys, age) \in Seq(Keys) /\ Len(Aged(keys, age)) = Len(keys)
<1>1. \A k \in Keys : [k EXCEPT !.age = age] \in Keys
  BY DEF Keys
<1>2. Aged(keys, age) = [i \in 1..Len(keys) |-> [keys[i] EXCEPT !.age = age]]
  BY DEF Aged
<1>3. \A i \in 1..Len(keys) : keys[i] \in Keys
  OBVIOUS
<1> QED
  BY <1>1, <1>2, <1>3

LEMMA HeadAndTail ==
  ASSUME NEW S, NEW keys \in Seq(S), keys # <<>>
  PROVE  /\ Head(keys) = keys[1] /\ 1 \in DOMAIN keys /\ Head(keys) \in S
         /\ Tail(keys) \in Seq(S)
         /\ \A i \in DOMAIN Tail(keys) : i + 1 \in DOMAIN keys /\ Tail(keys)[i] = keys[i + 1]
OBVIOUS

\* The keys that are late when the sleep ends.
LEMMA AfterSleep ==
  ASSUME air \in Seq(Keys), SleepEnds
  PROVE  air' \in Seq(Keys) /\ Len(air') = Len(air) /\ NoneOld(air')
<1>1. air' = [i \in 1..Len(air) |->
                 IF air[i].age = "old" THEN [air[i] EXCEPT !.age = "late"] ELSE air[i]]
  BY DEF SleepEnds
<1>2. \A i \in 1..Len(air) : air[i] \in Keys
  OBVIOUS
<1>3. \A i \in 1..Len(air) : air'[i] \in Keys /\ air'[i].age # "old"
  BY <1>1, <1>2 DEF Keys
<1>4. DOMAIN air' = 1..Len(air) /\ air' \in Seq(Keys)
  BY <1>1, <1>2 DEF Keys
<1> QED
  BY <1>3, <1>4 DEF NoneOld

LEMMA TailNoneOld ==
  ASSUME NEW keys \in Seq(Keys), keys # <<>>, NoneOld(keys)
  PROVE  NoneOld(Tail(keys)) /\ Head(keys).age # "old"
BY HeadAndTail DEF NoneOld

LEMMA AppendNoneOld ==
  ASSUME NEW keys \in Seq(Keys), NEW k \in Keys, NoneOld(keys), k.age # "old"
  PROVE  NoneOld(Append(keys, k))
BY DEF NoneOld

LEMMA KeysInvStep ==
  ASSUME KeysInv, [Next]_vars
  PROVE  KeysInv'
<1>1. ASSUME NEW k \in Pressed, Press(k) PROVE KeysInv'
  <2> DEFINE new == [key |-> k, age |-> "new"]
  <2>1. new \in Keys /\ new.age # "old"
    BY DEF Keys
  <2>2. air' = Append(air, new) /\ air' \in Seq(Keys)
    BY <1>1, <2>1 DEF Press, KeysInv
  <2>3. UNCHANGED <<pc, queue, stale>>
    BY <1>1 DEF Press
  <2> HIDE DEF new
  <2>4. pc \in {"drain", "mark", "keys", "read"} => NoneOld(air')
    BY <2>1, <2>2, AppendNoneOld DEF KeysInv
  <2> QED
    BY <2>2, <2>3, <2>4 DEF KeysInv
<1>2. CASE Deliver
  <2>1. air # <<>> /\ queue' = Append(queue, Head(air)) /\ air' = Tail(air)
    BY <1>2 DEF Deliver
  <2>2. UNCHANGED <<pc, stale>>
    BY <1>2 DEF Deliver
  <2>3. air \in Seq(Keys) /\ queue \in Seq(Keys)
    BY DEF KeysInv
  <2>4. air' \in Seq(Keys) /\ Head(air) \in Keys /\ queue' \in Seq(Keys)
    BY <2>1, <2>3, HeadAndTail
  <2>5. pc \in {"drain", "mark", "keys", "read"} => NoneOld(air') /\ Head(air).age # "old"
    BY <2>1, <2>3, TailNoneOld DEF KeysInv
  <2>6. pc \in {"mark", "keys", "read"} => NoneOld(queue')
    BY <2>1, <2>3, <2>4, <2>5, AppendNoneOld DEF KeysInv
  <2> QED
    BY <2>2, <2>4, <2>5, <2>6 DEF KeysInv
<1>3. ASSUME NEW c \in {"choose", "read"}, Begin(c) PROVE KeysInv'
  <2>1. pc' = "sleep" /\ air' = Aged(air, "old") /\ queue' = Aged(queue, "old") /\ stale' = stale
    BY <1>3 DEF Begin
  <2>2. air' \in Seq(Keys) /\ queue' \in Seq(Keys)
    BY <2>1, AgedKeys DEF KeysInv
  <2> QED
    BY <2>1, <2>2 DEF KeysInv
<1>4. CASE SleepEnds
  <2>1. air' \in Seq(Keys) /\ NoneOld(air')
    BY <1>4, AfterSleep DEF KeysInv
  <2>2. pc' = "drain" /\ queue' = queue /\ stale' = stale
    BY <1>4 DEF SleepEnds
  <2> QED
    BY <2>1, <2>2 DEF KeysInv
<1>5. CASE Drain
  <2>1. queue \in Seq(Keys) /\ queue # <<>> /\ queue' = Tail(queue)
    BY <1>5 DEF Drain, KeysInv
  <2>2. queue' \in Seq(Keys)
    BY <2>1, HeadAndTail
  <2> QED
    BY <1>5, <2>2 DEF Drain, KeysInv
<1>6. CASE Fails
  BY <1>6 DEF Fails, keyVars, KeysInv
<1>7. CASE DrawMenu \/ StartRead
  <2>1. pc = "drain" /\ queue = <<>> /\ UNCHANGED <<air, queue, stale>>
    BY <1>7 DEF DrawMenu, StartRead, Drained, keyVars
  <2>2. NoneOld(queue)
    BY <2>1 DEF NoneOld
  <2> QED
    BY <2>1, <2>2 DEF KeysInv
<1>8. CASE Mark
  BY <1>8 DEF Mark, keyVars, KeysInv
<1>9. CASE ChooseKey \/ ReadKey
  <2>1. /\ pc \in {"keys", "read"} /\ queue # <<>> /\ queue' = Tail(queue)
        /\ stale' = (stale \/ Head(queue).age = "old") /\ air' = air
    BY <1>9 DEF ChooseKey, ReadKey, Take
  <2>2. pc' \in {"keys", "mark", "away", "read", "off"}
    <3>1. CASE ChooseKey
      BY <3>1 DEF ChooseKey
    <3>2. CASE ReadKey
      BY <3>2 DEF ReadKey
    <3> QED
      BY <1>9, <3>1, <3>2
  <2>3. queue \in Seq(Keys)
    BY DEF KeysInv
  <2>4. queue' \in Seq(Keys) /\ Head(queue) \in Keys
    BY <2>1, <2>3, HeadAndTail
  <2>5. NoneOld(queue') /\ Head(queue).age # "old"
    BY <2>1, <2>3, TailNoneOld DEF KeysInv
  <2>6. stale' = FALSE
    BY <2>1, <2>5 DEF KeysInv
  <2> QED
    BY <2>1, <2>2, <2>4, <2>5, <2>6 DEF KeysInv
<1>10. CASE UNCHANGED vars
  BY <1>10 DEF vars, keyVars, KeysInv
<1> QED
  BY <1>1, <1>2, <1>3, <1>4, <1>5, <1>6, <1>7, <1>8, <1>9, <1>10 DEF Next

-------------------------------------------------------------------------------
(* The menu. *)

LEMMA Least ==
  ASSUME NEW T \in SUBSET Nat, T # {}
  PROVE  \E x \in T : \A y \in T : x <= y
<1> DEFINE R == OpToRel(<, Nat)
<1>1. IsWellFoundedOn(R, Nat)
  BY NatLessThanWellFounded
<1>2. \A x, y \in Nat : y < x => <<y, x>> \in R
  BY DEF OpToRel
<1> HIDE DEF R
<1>3. PICK x \in T : \A y \in T : ~(<<y, x>> \in R)
  BY <1>1, WFMin, Zenon
<1>4. \A y \in T : x <= y
  <2> TAKE y \in T
  <2>1. x \in Nat /\ y \in Nat /\ ~(y < x)
    BY <1>2, <1>3
  <2> QED
    BY <2>1
<1> QED
  BY <1>4

\* The first option that can be chosen.
LEMMA FirstIsSelectable ==
  ASSUME NEW m \in Menus,
         NEW c, c = CHOOSE i \in DOMAIN m : m[i] /\ \A j \in 1..(i - 1) : ~m[j]
  PROVE  c \in DOMAIN m /\ m[c]
<1> DEFINE T == {i \in DOMAIN m : m[i]}
<1>1. m \in Seq(BOOLEAN) /\ T # {}
  BY MenuAssumption
<1>2. T \in SUBSET Nat /\ DOMAIN m = 1..Len(m)
  BY <1>1
<1>3. PICK i \in T : \A j \in T : i <= j
  BY <1>1, <1>2, Least
<1>4. i \in DOMAIN m /\ m[i]
  BY <1>3
<1>5. \A j \in 1..(i - 1) : ~m[j]
  BY <1>2, <1>3
<1> QED
  BY <1>4, <1>5

LEMMA NextIsSelectable ==
  ASSUME menu \in Menus, NEW i \in DOMAIN menu, menu[i], NEW step \in {1, -1}
  PROVE  NextSelectable(i, step) \in DOMAIN menu /\ menu[NextSelectable(i, step)]
<1> DEFINE At(n) == Around(i + n * step)
           T     == {n \in 1..Len(menu) : menu[At(n)]}
<1>1. menu \in Seq(BOOLEAN) /\ DOMAIN menu = 1..Len(menu) /\ Len(menu) \in Nat
  BY MenuAssumption
<1>2. \A n \in 1..Len(menu) : At(n) \in DOMAIN menu
  BY <1>1 DEF Around
<1>3. At(Len(menu)) = i /\ Len(menu) \in 1..Len(menu)
  BY <1>1 DEF Around
<1> HIDE DEF At
<1>4. Len(menu) \in T /\ T \in SUBSET Nat
  BY <1>1, <1>3
<1>5. PICK n \in T : \A k \in T : n <= k
  BY <1>4, Least
<1>6. n \in 1..Len(menu) /\ menu[At(n)] /\ \A k \in 1..(n - 1) : ~menu[At(k)]
  <2>1. n \in 1..Len(menu) /\ menu[At(n)]
    BY <1>5
  <2>2. ASSUME NEW k \in 1..(n - 1), menu[At(k)] PROVE FALSE
    BY <1>1, <1>5, <2>1, <2>2
  <2> QED
    BY <2>1, <2>2
<1> DEFINE m == CHOOSE k \in 1..Len(menu) : menu[At(k)] /\ \A j \in 1..(k - 1) : ~menu[At(j)]
<1>7. m \in 1..Len(menu) /\ menu[At(m)]
  BY <1>6
<1>8. NextSelectable(i, step) = At(m)
  BY DEF NextSelectable, At
<1> HIDE DEF m
<1> QED
  BY <1>2, <1>7, <1>8

Shows(first) ==
  [r \in 0..(Height - 1) |-> IF r - first + 1 \in DOMAIN menu THEN r - first + 1 ELSE 0]

\* How the menu is on the screen: its last row is above next_row, and a menu that does
\* not fit ends one row above the end of the screen.
MenuInv ==
  /\ pc \in {"away", "sleep", "drain", "mark", "keys", "read", "panic", "off"}
  /\ row \in 0..(Height - 1) /\ next_row \in 0..(Height - 1)
  /\ marks \subseteq 0..(Height - 1)
  /\ pc \in {"mark", "keys"} =>
        /\ menu \in Menus /\ chosen \in DOMAIN menu /\ menu[chosen]
        /\ next_row >= Len(menu) \/ next_row = Height - 1
        /\ marks \subseteq {row}
        /\ shown = Shows(FirstRow)
  /\ pc = "keys" => marks = {row} /\ row = FirstRow + chosen - 1
  /\ pc = "panic" => Len(menu) >= Height

LEMMA DrawMenuStep ==
  ASSUME MenuInv, DrawMenu
  PROVE  MenuInv'
<1>1. PICK first \in 0..(Height - 1) :
         LET scrolled == IF first + Len(menu') < Height THEN 0
                                                        ELSE first + Len(menu') - (Height - 1)
         IN  /\ next_row' = first + Len(menu') - scrolled
             /\ shown' = [r \in 0..(Height - 1) |->
                              IF r + scrolled - first + 1 \in DOMAIN menu'
                              THEN r + scrolled - first + 1 ELSE 0]
  BY DEF DrawMenu
<1> DEFINE scrolled == IF first + Len(menu') < Height THEN 0
                                                      ELSE first + Len(menu') - (Height - 1)
<1>2. /\ menu' \in Menus /\ pc' = "mark" /\ row' = next_row' /\ marks' = {}
      /\ chosen' = CHOOSE i \in DOMAIN menu' : menu'[i] /\ \A j \in 1..(i - 1) : ~menu'[j]
  BY DEF DrawMenu
<1>3. chosen' \in DOMAIN menu' /\ menu'[chosen']
  BY <1>2, FirstIsSelectable
<1>4. menu' \in Seq(BOOLEAN) /\ Len(menu') \in Nat /\ Height \in Nat \ {0}
  BY <1>2, MenuAssumption, HeightAssumption
<1>5. scrolled \in Int /\ next_row' = first + Len(menu') - scrolled
  BY <1>1, <1>4
<1>6. next_row' \in 0..(Height - 1) /\ (next_row' >= Len(menu') \/ next_row' = Height - 1)
  BY <1>4, <1>5
<1>7. shown' = Shows(FirstRow)'
  <2>1. shown' = [r \in 0..(Height - 1) |->
                    IF r + scrolled - first + 1 \in DOMAIN menu'
                    THEN r + scrolled - first + 1 ELSE 0]
    BY <1>1
  <2> HIDE DEF scrolled
  <2>2. \A r \in 0..(Height - 1) :
            r + scrolled - first + 1 = r - (next_row' - Len(menu')) + 1
    BY <1>4, <1>5
  <2> QED
    BY <2>1, <2>2 DEF Shows, FirstRow
<1> QED
  BY <1>2, <1>3, <1>6, <1>7 DEF MenuInv

LEMMA MarkStep ==
  ASSUME MenuInv, Mark
  PROVE  MenuInv'
<1>1. pc = "mark" /\ UNCHANGED <<menu, chosen, next_row, shown>>
  BY DEF Mark
<1>2. /\ menu \in Menus /\ chosen \in DOMAIN menu /\ menu[chosen]
      /\ next_row >= Len(menu) \/ next_row = Height - 1
      /\ marks \subseteq {row} /\ shown = Shows(FirstRow)
      /\ row \in 0..(Height - 1) /\ next_row \in 0..(Height - 1)
  BY <1>1 DEF MenuInv
<1>3. Len(menu) \in Nat /\ chosen \in 1..Len(menu) /\ Height \in Nat
  BY <1>2, MenuAssumption, HeightAssumption
<1>4. FirstRow \in Int /\ (FirstRow < 0 => Len(menu) >= Height)
  BY <1>2, <1>3 DEF FirstRow
<1>5. FirstRow' = FirstRow /\ Shows(FirstRow)' = Shows(FirstRow)
  BY <1>1 DEF FirstRow, Shows
<1> DEFINE target == FirstRow + chosen - 1
<1>6. target \in Int /\ target < Height
  BY <1>2, <1>3 DEF FirstRow
<1>7. CASE FirstRow < 0 /\ checks
  <2>1. pc' = "panic" /\ UNCHANGED <<row, marks>>
    BY <1>7 DEF Mark
  <2> QED
    BY <1>1, <1>2, <1>4, <1>7, <2>1 DEF MenuInv
<1>8. CASE ~(FirstRow < 0 /\ checks) /\ target < 0
  <2>1. pc' = "away" /\ UNCHANGED <<row, marks>>
    BY <1>8 DEF Mark
  <2> QED
    BY <1>1, <1>2, <2>1 DEF MenuInv
<1>9. CASE ~(FirstRow < 0 /\ checks) /\ ~(target < 0)
  <2>1. pc' = "keys" /\ row' = target /\ marks' = (marks \ {row}) \cup {target}
    BY <1>9 DEF Mark
  <2>2. target \in 0..(Height - 1)
    BY <1>3, <1>6, <1>9
  <2>3. marks' = {row'}
    BY <1>2, <2>1
  <2>4. row' = FirstRow' + chosen' - 1
    BY <1>1, <1>5, <2>1
  <2> QED
    BY <1>1, <1>2, <1>5, <2>1, <2>2, <2>3, <2>4 DEF MenuInv
<1> QED
  BY <1>7, <1>8, <1>9

LEMMA ChooseKeyStep ==
  ASSUME MenuInv, ChooseKey
  PROVE  MenuInv'
<1>1. pc = "keys" /\ UNCHANGED <<menu, next_row, marks, shown>>
  BY DEF ChooseKey
<1>2. /\ menu \in Menus /\ chosen \in DOMAIN menu /\ menu[chosen]
      /\ next_row >= Len(menu) \/ next_row = Height - 1
      /\ marks = {row} /\ row = FirstRow + chosen - 1 /\ shown = Shows(FirstRow)
      /\ row \in 0..(Height - 1) /\ next_row \in 0..(Height - 1)
  BY <1>1 DEF MenuInv
<1>3. FirstRow' = FirstRow /\ Shows(FirstRow)' = Shows(FirstRow)
  BY <1>1 DEF FirstRow, Shows
<1>4. CASE Key \in {"down", "up"}
  <2>1. /\ chosen' = NextSelectable(chosen, IF Key = "down" THEN 1 ELSE -1)
        /\ pc' = "mark" /\ row' = row
    BY <1>4, Zenon DEF ChooseKey
  <2>2. chosen' \in DOMAIN menu /\ menu[chosen']
    <3>1. CASE Key = "down"
      BY <1>2, <2>1, <3>1, NextIsSelectable
    <3>2. CASE Key # "down"
      BY <1>2, <2>1, <3>2, NextIsSelectable
    <3> QED
      BY <3>1, <3>2
  <2> QED
    BY <1>1, <1>2, <1>3, <2>1, <2>2 DEF MenuInv
<1>5. CASE Key = "enter"
  <2>1. row' = next_row /\ pc' = "away"
    BY <1>5, Zenon DEF ChooseKey
  <2> QED
    BY <1>1, <1>2, <2>1 DEF MenuInv
<1>6. CASE Key \notin {"down", "up", "enter"}
  <2>1. UNCHANGED <<pc, chosen, row>>
    BY <1>6, Zenon DEF ChooseKey
  <2> QED
    BY <1>1, <1>2, <1>3, <2>1 DEF MenuInv
<1> QED
  BY <1>4, <1>5, <1>6

LEMMA MenuInvStep ==
  ASSUME MenuInv, [Next]_vars
  PROVE  MenuInv'
<1> DEFINE Same == UNCHANGED <<menu, chosen, next_row, row, marks, shown>>
<1>1. ASSUME Same, pc' = pc \/ pc' \in {"away", "sleep", "drain", "read", "off"}
      PROVE  MenuInv'
  <2>1. FirstRow' = FirstRow /\ Shows(FirstRow)' = Shows(FirstRow)
    BY <1>1 DEF FirstRow, Shows
  <2> QED
    BY <1>1, <2>1 DEF MenuInv
<1>2. ASSUME NEW k \in Pressed, Press(k) PROVE MenuInv'
  BY <1>1, <1>2 DEF Press, menuVars
<1>3. CASE Deliver \/ Drain
  BY <1>1, <1>3 DEF Deliver, Drain, menuVars
<1>4. ASSUME NEW c \in {"choose", "read"}, Begin(c) PROVE MenuInv'
  BY <1>1, <1>4 DEF Begin, menuVars
<1>5. CASE SleepEnds \/ Fails \/ StartRead
  BY <1>1, <1>5 DEF SleepEnds, Fails, StartRead, menuVars
<1>6. CASE ReadKey
  <2>1. pc = "read" /\ pc' \in {"read", "away", "off"}
    BY <1>6, Zenon DEF ReadKey
  <2>2. Same
    BY <1>6 DEF ReadKey, menuVars
  <2> QED
    BY <1>1, <2>1, <2>2
<1>7. CASE UNCHANGED vars
  BY <1>1, <1>7 DEF vars, menuVars
<1> QED
  BY <1>2, <1>3, <1>4, <1>5, <1>6, <1>7, DrawMenuStep, MarkStep, ChooseKeyStep DEF Next

LEMMA MenuInvShows ==
  ASSUME MenuInv
  PROVE  MarkIsOnChosen
<1>1. ASSUME pc = "keys"
      PROVE  menu[chosen] /\ \E r \in DOMAIN shown : marks = {r} /\ shown[r] = chosen
  <2>1. /\ menu \in Menus /\ chosen \in DOMAIN menu /\ menu[chosen]
        /\ marks = {row} /\ row = FirstRow + chosen - 1 /\ row \in 0..(Height - 1)
        /\ shown = Shows(FirstRow) /\ next_row \in 0..(Height - 1)
    BY <1>1 DEF MenuInv
  <2>2. Len(menu) \in Nat /\ chosen \in 1..Len(menu) /\ Height \in Nat
    BY <2>1, MenuAssumption, HeightAssumption
  <2>3. row - FirstRow + 1 = chosen
    BY <2>1, <2>2 DEF FirstRow
  <2>4. row \in DOMAIN shown /\ shown[row] = chosen
    BY <2>1, <2>3 DEF Shows
  <2> QED
    BY <2>1, <2>4
<1> QED
  BY <1>1 DEF MarkIsOnChosen, MenuInv

-------------------------------------------------------------------------------
(* The bounds of the queues and of the line. *)

SizeInv ==
  /\ air \in Seq(Keys) /\ queue \in Seq(Keys) /\ Len(air) + Len(queue) <= MaxKeys
  /\ data \in Seq(Pressed) /\ Len(data) <= MaxData

LEMMA TailShorter ==
  ASSUME NEW S, NEW s \in Seq(S), s # <<>>
  PROVE  Tail(s) \in Seq(S) /\ Len(Tail(s)) = Len(s) - 1 /\ Len(s) \in Nat
OBVIOUS

LEMMA AppendLonger ==
  ASSUME NEW S, NEW s \in Seq(S), NEW e \in S
  PROVE  Append(s, e) \in Seq(S) /\ Len(Append(s, e)) = Len(s) + 1 /\ Len(s) \in Nat
OBVIOUS

LEMMA ButLastShorter ==
  ASSUME NEW S, NEW s \in Seq(S), Len(s) # 0
  PROVE  Len(SubSeq(s, 1, Len(s) - 1)) = Len(s) - 1
<1> DEFINE n == Len(s) - 1
<1>1. n \in Nat /\ n <= Len(s)
  OBVIOUS
<1> HIDE DEF n
<1>2. Len(SubSeq(s, 1, n)) = n
  BY <1>1
<1> QED
  BY <1>2 DEF n

LEMMA SizeInvStep ==
  ASSUME SizeInv, [Next]_vars
  PROVE  SizeInv'
<1>0. Len(air) \in Nat /\ Len(queue) \in Nat /\ MaxKeys \in Nat /\ MaxData \in Nat
  BY BoundsAssumption DEF SizeInv
<1>1. ASSUME NEW k \in Pressed, Press(k) PROVE SizeInv'
  <2>1. [key |-> k, age |-> "new"] \in Keys
    BY DEF Keys
  <2>2. /\ Len(air) + Len(queue) < MaxKeys
        /\ air' = Append(air, [key |-> k, age |-> "new"])
        /\ UNCHANGED <<queue, data>>
    BY <1>1 DEF Press
  <2>3. air' \in Seq(Keys) /\ Len(air') = Len(air) + 1
    BY <2>1, <2>2, AppendLonger DEF SizeInv
  <2> QED
    BY <1>0, <2>2, <2>3 DEF SizeInv
<1>2. CASE Deliver
  <2>1. /\ air # <<>> /\ queue' = Append(queue, Head(air)) /\ air' = Tail(air)
        /\ data' = data
    BY <1>2 DEF Deliver
  <2>2. Head(air) \in Keys
    BY <2>1, HeadAndTail DEF SizeInv
  <2>3. air' \in Seq(Keys) /\ Len(air') = Len(air) - 1
    BY <2>1, TailShorter DEF SizeInv
  <2>4. queue' \in Seq(Keys) /\ Len(queue') = Len(queue) + 1
    BY <2>1, <2>2, AppendLonger DEF SizeInv
  <2> QED
    BY <1>0, <2>1, <2>3, <2>4 DEF SizeInv
<1>3. ASSUME queue # <<>>, queue' = Tail(queue), air' = air,
             data' \in Seq(Pressed), Len(data') <= MaxData
      PROVE  SizeInv'
  <2>1. queue' \in Seq(Keys) /\ Len(queue') = Len(queue) - 1
    BY <1>3, TailShorter DEF SizeInv
  <2> QED
    BY <1>0, <1>3, <2>1 DEF SizeInv
<1>4. CASE Drain \/ ChooseKey
  BY <1>3, <1>4 DEF Drain, ChooseKey, Take, SizeInv
<1>5. CASE ReadKey
  <2>1. queue # <<>> /\ queue' = Tail(queue) /\ air' = air
    BY <1>5 DEF ReadKey, Take
  <2>2. Key \in Pressed
    <3>1. Head(queue) \in Keys
      BY <2>1, HeadAndTail DEF SizeInv
    <3> QED
      BY <3>1 DEF Key, Keys
  <2>3. \/ data' = data
        \/ data' = SubSeq(data, 1, Len(data) - 1)
        \/ Len(data) < MaxData /\ data' = Append(data, Key)
    BY <1>5, Zenon DEF ReadKey
  <2>4. data' \in Seq(Pressed) /\ Len(data') <= MaxData
    <3>1. CASE data' = data
      BY <3>1 DEF SizeInv
    <3>2. CASE data' = SubSeq(data, 1, Len(data) - 1)
      <4>1. data \in Seq(Pressed) /\ Len(data) \in Nat /\ Len(data) <= MaxData
        BY DEF SizeInv
      <4>2. CASE Len(data) = 0
        BY <1>0, <3>2, <4>1, <4>2
      <4>3. CASE Len(data) # 0
        <5>1. data' \in Seq(Pressed)
          BY <3>2, <4>1, <4>3
        <5>2. Len(data') = Len(data) - 1
          BY <3>2, <4>1, <4>3, ButLastShorter
        <5> QED
          BY <1>0, <4>1, <5>1, <5>2
      <4> QED
        BY <4>2, <4>3
    <3>3. CASE Len(data) < MaxData /\ data' = Append(data, Key)
      <4>1. data' \in Seq(Pressed) /\ Len(data') = Len(data) + 1 /\ Len(data) \in Nat
        BY <2>2, <3>3, AppendLonger DEF SizeInv
      <4> QED
        BY <1>0, <3>3, <4>1
    <3> QED
      BY <2>3, <3>1, <3>2, <3>3
  <2> QED
    BY <1>3, <2>1, <2>4
<1>6. CASE StartRead
  BY <1>0, <1>6 DEF StartRead, keyVars, SizeInv
<1>7. CASE Fails \/ DrawMenu \/ Mark
  BY <1>7 DEF Fails, DrawMenu, Mark, keyVars, SizeInv
<1>8. ASSUME NEW c \in {"choose", "read"}, Begin(c) PROVE SizeInv'
  <2>1. air' = Aged(air, "old") /\ queue' = Aged(queue, "old") /\ data' = data
    BY <1>8 DEF Begin
  <2>2. /\ air' \in Seq(Keys) /\ Len(air') = Len(air)
        /\ queue' \in Seq(Keys) /\ Len(queue') = Len(queue)
    BY <2>1, AgedKeys DEF SizeInv
  <2> QED
    BY <2>1, <2>2 DEF SizeInv
<1>10. CASE SleepEnds
  <2>1. air' \in Seq(Keys) /\ Len(air') = Len(air)
    BY <1>10, AfterSleep DEF SizeInv
  <2>2. queue' = queue /\ data' = data
    BY <1>10 DEF SleepEnds
  <2> QED
    BY <2>1, <2>2 DEF SizeInv
<1>9. CASE UNCHANGED vars
  BY <1>9 DEF vars, keyVars, SizeInv
<1> QED
  BY <1>1, <1>2, <1>4, <1>5, <1>6, <1>7, <1>8, <1>9, <1>10 DEF Next

LEMMA InitIsRight ==
  ASSUME Init
  PROVE  KeysInv /\ MenuInv /\ SizeInv
<1>1. KeysInv
  <2>1. air = <<>> /\ queue = <<>> /\ stale = FALSE /\ pc = "away"
    BY DEF Init
  <2>2. <<>> \in Seq(Keys)
    OBVIOUS
  <2> QED
    BY <2>1, <2>2 DEF KeysInv
<1>2. MenuInv
  BY HeightAssumption DEF Init, MenuInv
<1>3. SizeInv
  BY BoundsAssumption DEF Init, SizeInv
<1> QED
  BY <1>1, <1>2, <1>3

-------------------------------------------------------------------------------
(* The theorems. *)

\* No key that was pressed before a menu or a prompt was called for answers it, not even
\* one pressed while an earlier call was still reading; the only ones that can are those
\* the firmware queues later than the 10 ms that consume_old_keypresses sleeps.
THEOREM NoOldKeyAnswers == Spec => []OldKeysAreNoAnswer
<1>1. KeysInv => OldKeysAreNoAnswer
  BY DEF KeysInv, OldKeysAreNoAnswer
<1> QED
  BY <1>1, InitIsRight, KeysInvStep, PTL DEF Spec

\* The only `>` is on the row of the option that Enter chooses, and choose panics over
\* no menu that fits on the screen, whatever the height of the screen and the options.
THEOREM MarkIsRight == Spec => []MarkIsOnChosen
  BY InitIsRight, MenuInvStep, MenuInvShows, PTL DEF Spec

\* The chosen option exists, and the cursor is on the screen.
THEOREM ConsoleTypeCorrect == Spec => []TypeOK
<1>1. MenuInv /\ SizeInv => TypeOK
  BY DEF MenuInv, SizeInv, TypeOK
<1> QED
  BY <1>1, InitIsRight, MenuInvStep, SizeInvStep, PTL DEF Spec
===============================================================================
