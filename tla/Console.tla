------------------------------ MODULE Console ------------------------------
(***************************************************************************)
(* The console of src/ui.rs: the boot menu (choose) and the prompts        *)
(* (password and line, which differ in the echo only).  Both throw away    *)
(* the keys that were pressed before, and then wait for keys one by one.   *)
(*                                                                         *)
(* A key is pressed, is some time later put into the queue of the firmware *)
(* and some time later read.  Of the screen the model has what matters to  *)
(* the menu: the row an option was written to and the rows with a `>`.     *)
(***************************************************************************)
EXTENDS Integers, Sequences, FiniteSets

CONSTANTS None,
          Menus,      \* sequences of: can the option be selected
          Height,     \* rows of the screen
          Chars,      \* keys with a character that is not a line end or a backspace
          MaxKeys,    \* keys that wait for the program, at most
          MaxData     \* length of a line, at most

\* run() adds an option to those of the config, and every option can be selected;
\* choose asserts the one and hangs without the other.
ASSUME MenuAssumption == \A m \in Menus : m \in Seq(BOOLEAN) /\ \E i \in DOMAIN m : m[i]
ASSUME HeightAssumption == Height \in Nat \ {0}
ASSUME BoundsAssumption == MaxKeys \in Nat /\ MaxData \in Nat

VARIABLES
    pc,        \* where the program is: "away", "sleep", "drain", "mark", "keys", "read"
               \* or how it ended: "panic", "off"
    call,      \* the call in progress, or the last one: "choose" or "read"
    checks,    \* whether the build has overflow checks
    menu, chosen, next_row, row,   \* locals of choose; row is that of the cursor
    marks,     \* rows with a `>`
    shown,     \* the option that each row of the screen shows, or 0
    data,      \* the local of read
    result,    \* of the call that returned last
    air,       \* keys on their way to the queue, each with its age (history)
    queue,     \* keys the firmware has for read_key, in the same way
    stale      \* history: an "old" key was taken for an answer

menuVars == <<menu, chosen, next_row, row, marks, shown>>
keyVars  == <<air, queue>>
vars     == <<pc, call, checks, menuVars, data, result, keyVars, stale>>

Pressed == {"down", "up", "escape", "other", "enter", "backspace"} \cup Chars

-------------------------------------------------------------------------------
(* The keyboard.  A key is "new" when it is pressed and "old" for a call that   *)
(* begins after that, wherever it is by then; an old one that has not reached   *)
(* the queue when the 10 ms of the call are over is "late".                     *)

Aged(keys, age) == [i \in DOMAIN keys |-> [keys[i] EXCEPT !.age = age]]

Press(k) ==
    /\ Len(air) + Len(queue) < MaxKeys
    /\ air' = Append(air, [key |-> k, age |-> "new"])
    /\ UNCHANGED <<pc, call, checks, menuVars, data, result, queue, stale>>

Deliver ==
    /\ air # <<>>
    /\ queue' = Append(queue, Head(air)) /\ air' = Tail(air)
    /\ UNCHANGED <<pc, call, checks, menuVars, data, result, stale>>

-------------------------------------------------------------------------------
(* consume_old_keypresses *)

Begin(c) ==
    /\ pc = "away"
    /\ pc' = "sleep" /\ call' = c /\ result' = None
    /\ air' = Aged(air, "old") /\ queue' = Aged(queue, "old")
    /\ UNCHANGED <<checks, menuVars, data, stale>>

\* The sleep is there to let the firmware queue what was pressed before; what it has
\* not queued by now comes after the queue was drained, or while it is.
SleepEnds ==
    /\ pc = "sleep"
    /\ pc' = "drain"
    /\ air' = [i \in DOMAIN air |->
                   IF air[i].age = "old" THEN [air[i] EXCEPT !.age = "late"] ELSE air[i]]
    /\ UNCHANGED <<call, checks, menuVars, data, result, queue, stale>>

Drain ==
    /\ pc = "drain" /\ queue # <<>>
    /\ queue' = Tail(queue)
    /\ UNCHANGED <<pc, call, checks, menuVars, data, result, air, stale>>

\* Mutant: what is in the queue may stay there.
DrainedEarly == TRUE

\* read_key has nothing left.
Drained == queue = <<>>

\* Reading a key fails, or moving the cursor: an Err.
Fails ==
    /\ pc \in {"drain", "mark", "keys", "read"}
    /\ pc' = "away" /\ result' = "Err"
    /\ UNCHANGED <<call, checks, menuVars, data, keyVars, stale>>

-------------------------------------------------------------------------------
(* choose *)

\* Mutant: no way around the ends.
NextSelectableOff(i, step) == i + step

\* next_selectable: the next one in that direction, around the ends.
Around(i) == IF i > Len(menu) THEN i - Len(menu) ELSE IF i < 1 THEN i + Len(menu) ELSE i
NextSelectable(i, step) ==
    LET At(n) == Around(i + n * step)
        n     == CHOOSE k \in 1..Len(menu) : menu[At(k)] /\ \A j \in 1..(k - 1) : ~menu[At(j)]
    IN  At(n)

\* Mutant: the row above the menu counts as one of it.
FirstRowAbove == next_row - Len(menu) - 1

\* The row of the first option, which is above the screen if it has scrolled out.
FirstRow == next_row - Len(menu)

\* The menu is written below whatever was logged; the screen scrolls.
DrawMenu ==
    /\ pc = "drain" /\ call = "choose" /\ Drained
    /\ menu' \in Menus
    /\ chosen' = CHOOSE i \in DOMAIN menu' : menu'[i] /\ \A j \in 1..(i - 1) : ~menu'[j]
    /\ \E first \in 0..(Height - 1) :
          LET scrolled == IF first + Len(menu') < Height THEN 0
                                                        ELSE first + Len(menu') - (Height - 1)
          IN  /\ next_row' = first + Len(menu') - scrolled
              /\ shown' = [r \in 0..(Height - 1) |->
                              IF r + scrolled - first + 1 \in DOMAIN menu'
                              THEN r + scrolled - first + 1 ELSE 0]
    /\ row' = next_row' /\ marks' = {}
    /\ pc' = "mark"
    /\ UNCHANGED <<call, checks, data, result, keyVars, stale>>

\* Replace the `>`.  The subtraction is one of usize: below zero it panics or
\* wraps around, to a row there is none of unless the addition brings it back.
Mark ==
    /\ pc = "mark"
    /\ LET target == FirstRow + chosen - 1
       IN  IF FirstRow < 0 /\ checks
           THEN pc' = "panic" /\ UNCHANGED <<row, marks, result>>
           ELSE IF target < 0 THEN pc' = "away" /\ result' = "Err" /\ UNCHANGED <<row, marks>>
           ELSE /\ row' = target /\ marks' = (marks \ {row}) \cup {target}
                /\ pc' = "keys" /\ UNCHANGED result
    /\ UNCHANGED <<call, checks, menu, chosen, next_row, shown, data, keyVars, stale>>

\* key() hands out the next key.
Take == queue # <<>> /\ queue' = Tail(queue) /\ stale' = (stale \/ Head(queue).age = "old")
Key  == Head(queue).key

ChooseKey ==
    /\ pc = "keys" /\ Take
    /\ CASE Key \in {"down", "up"} ->
              /\ chosen' = NextSelectable(chosen, IF Key = "down" THEN 1 ELSE -1)
              /\ pc' = "mark" /\ UNCHANGED <<row, result>>
         [] Key = "enter" ->
              row' = next_row /\ result' = chosen /\ pc' = "away" /\ UNCHANGED chosen
         [] OTHER -> UNCHANGED <<pc, chosen, row, result>>
    /\ UNCHANGED <<call, checks, menu, next_row, marks, shown, data, air>>

-------------------------------------------------------------------------------
(* read *)

StartRead ==
    /\ pc = "drain" /\ call = "read" /\ Drained
    /\ pc' = "read" /\ data' = <<>>
    /\ UNCHANGED <<call, checks, menuVars, result, keyVars, stale>>

\* The arms of the match in their order: a line end is one only if there is
\* something before it, and a printable key like any other if not.
ReadKey ==
    /\ pc = "read" /\ Take
    /\ CASE Key = "enter" /\ data # <<>> ->
              pc' = "away" /\ result' = data /\ UNCHANGED data
         [] Key = "backspace" ->
              data' = SubSeq(data, 1, Len(data) - 1) /\ UNCHANGED <<pc, result>>
         [] Key \in Chars \/ (Key = "enter" /\ data = <<>>) ->
              Len(data) < MaxData /\ data' = Append(data, Key) /\ UNCHANGED <<pc, result>>
         [] Key = "escape" -> pc' = "off" /\ UNCHANGED <<data, result>>
         [] OTHER -> UNCHANGED <<pc, data, result>>
    /\ UNCHANGED <<call, checks, menuVars, air>>

-------------------------------------------------------------------------------

Init ==
    /\ pc = "away" /\ call = "choose" /\ checks \in BOOLEAN
    /\ menu = <<>> /\ chosen = 1 /\ next_row = 0 /\ row = 0 /\ marks = {}
    /\ shown = [r \in 0..(Height - 1) |-> 0]
    /\ data = <<>> /\ result = None
    /\ air = <<>> /\ queue = <<>> /\ stale = FALSE

Next ==
    \/ \E k \in Pressed : Press(k)
    \/ Deliver
    \/ \E c \in {"choose", "read"} : Begin(c)
    \/ SleepEnds \/ Drain \/ Fails
    \/ DrawMenu \/ Mark \/ ChooseKey
    \/ StartRead \/ ReadKey

Spec == Init /\ [][Next]_vars

-------------------------------------------------------------------------------
(* Correctness. *)

TypeOK ==
    /\ pc \in {"away", "sleep", "drain", "mark", "keys", "read", "panic", "off"}
    /\ pc \in {"mark", "keys"} => chosen \in DOMAIN menu
    /\ marks \subseteq 0..(Height - 1) /\ row \in 0..(Height - 1)
    /\ Len(air) + Len(queue) <= MaxKeys /\ Len(data) <= MaxData

\* While the menu waits there is one `>`, on a row that shows the option Enter
\* would choose, and that option can be chosen.  A menu that leaves a row of the screen
\* free gets there, wherever on the screen it begins.
MarkIsOnChosen ==
    /\ pc = "keys" => menu[chosen] /\ \E r \in DOMAIN shown : marks = {r} /\ shown[r] = chosen
    /\ pc = "panic" => Len(menu) >= Height

\* A key pressed before the menu or the prompt was called for does not answer it,
\* pressed between two calls or while an earlier one was reading, queued before the
\* sleep or within it.  The one exception is a key that was late: the firmware took
\* longer to queue it than the 10 ms that the call gives it.
OldKeysAreNoAnswer == ~stale

\* The arm of read with the comment `cr / lf`: a line end ends the line and is
\* never part of it.
LineEndsEndLines == \A i \in DOMAIN data : data[i] # "enter"
===============================================================================
