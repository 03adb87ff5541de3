---------------------------- MODULE MCCommandWire ----------------------------
(* CommandWire on integers at the edges of every width, byte strings at the *)
(* edges of every length class, and the requests of a session.              *)
EXTENDS CommandWire

U64Of(a, b, c, d) == <<0, 0, 0, 0, a, b, c, d>>
MCUints == {U64Of(0, 0, 0, 63), U64Of(0, 0, 0, 105), U64Of(0, 0, 255, 255),
            U64Of(255, 249, 240, 241), <<0, 0, 0, 1, 2, 3, 4, 5>>}
MCStrings == {<<>>, [i \in 1..15 |-> 240], [i \in 1..16 |-> 255], [i \in 1..500 |-> i % 256]}

MCRequests ==
    {[fn |-> "start", challenge |-> [i \in 1..32 |-> 240 + (i % 16)], eprise |-> e] :
        e \in BOOLEAN}
    \cup {[fn |-> "set_locking_range", range |-> n, state |-> s] :
            n \in {0, 1, 255}, s \in LockingStates \ {"ArchiveLocked"}}
    \cup {[fn |-> "set_mbr_done", done |-> d] : d \in BOOLEAN}
    \cup {[fn |-> "drop"]}

MCDriveSerial == [i \in 1..20 |-> 64 + i]
MCSessions    == {<<<<0, 0, 16, 1>>, <<0, 0, 0, 105>>>>}
===============================================================================
