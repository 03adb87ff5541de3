---------------------------- MODULE BootPartition ----------------------------
(***************************************************************************)
(* find_random_esp_path, find_boot_partition and block_devices against the *)
(* handle database of the firmware.  A block device is a handle; the       *)
(* partitions the partition driver finds on a disk are handles of their    *)
(* own, and they are there only while that driver is.  Whoever opens a     *)
(* disk exclusively stops it, which block_devices does to every disk it    *)
(* lists; reconnecting a disk starts it again, and the partitions that     *)
(* come back have new handles.                                             *)
(*                                                                         *)
(* A table is what the driver would find on a disk: for each partition,    *)
(* whether its type is that of an EFI system partition.  A list of handles *)
(* is a set: the firmware promises no order.                               *)
(***************************************************************************)
EXTENDS Naturals

VARIABLES
    phase,     \* where find_random_esp_path is, or "Ok" and "Err" when it is done
    shown,     \* the firmware: the table each disk would show now
    handles,   \* the firmware: the handles there are
    todo,      \* the handles of the list in use that are still to come
    devices,   \* what block_devices returns
    res,       \* the ESP, if any: as a set of at most one handle
    failed     \* history: the firmware refused something

espVars == <<phase, shown, handles, todo, devices, res, failed>>

WholeDisk(d) == [disk |-> d, logical |-> FALSE, part |-> 0, esp |-> FALSE, fresh |-> FALSE]
Partitions(d, table, fresh) ==
    {[disk |-> d, logical |-> TRUE, part |-> i, esp |-> table[i], fresh |-> fresh] :
        i \in DOMAIN table}

\* The handles without those of the partitions of a disk.
Without(hs, d) == {h \in hs : h.disk = d => ~h.logical}

\* All there is to see if every disk is connected.
AllConnected ==
    {WholeDisk(d) : d \in DOMAIN shown}
        \cup UNION {Partitions(d, shown[d], TRUE) : d \in DOMAIN shown}

\* The list of the block devices is made.  What searches left of the partitions, or
\* what there was before a drive was unlocked, may still have handles.
FindBootPartition(now, before) ==
    /\ phase = "idle" /\ phase' = "block_devices"
    /\ shown' = now
    /\ handles' = {WholeDisk(d) : d \in DOMAIN now}
                    \cup UNION {Partitions(d, before[d], FALSE) : d \in DOMAIN now}
    /\ todo' = handles' /\ devices' = {} /\ res' = {} /\ failed' = FALSE

-------------------------------------------------------------------------------
(* block_devices *)

\* Mutant: partitions are block devices, too.
ListedAll(h) == TRUE

\* is_logical_partition decides.
Listed(h) == ~h.logical

OpenBlockIo ==
    \E h \in todo \cap handles :
        /\ phase = "block_devices"
        /\ handles' = IF h.logical THEN handles ELSE Without(handles, h.disk)
        /\ devices' = IF Listed(h) THEN devices \cup {h} ELSE devices
        /\ todo' = todo \ {h}
        /\ UNCHANGED <<phase, shown, res, failed>>

\* The error is dropped, and the device with it: a partition that went with its disk,
\* or a device that something else holds.
BlockIoStaysShut ==
    \E h \in todo :
        /\ phase = "block_devices"
        /\ todo' = todo \ {h}
        /\ failed' = (failed \/ h \in handles)
        /\ UNCHANGED <<phase, shown, handles, devices, res>>

DevicesListed ==
    /\ phase = "block_devices" /\ todo = {}
    /\ phase' = "reconnect" /\ todo' = devices
    /\ UNCHANGED <<shown, handles, devices, res, failed>>

-------------------------------------------------------------------------------
(* find_boot_partition *)

\* Mutant: the other way round.
ReconnectBackwards(left, off, on, d) ==
    LET connected == IF on THEN left \cup Partitions(d, shown[d], TRUE) ELSE left
    IN  IF off THEN Without(connected, d) ELSE connected

\* disconnect_controller, then connect_controller; the driver does not look again as
\* long as it runs.
Reconnected(left, off, on, d) ==
    LET rest == IF off THEN Without(left, d) ELSE left
    IN  IF on /\ Without(rest, d) = rest THEN rest \cup Partitions(d, shown[d], TRUE) ELSE rest

\* Nobody asks how the one ended, and the other one's error is only logged.
ReconnectController ==
    \E h \in todo, off, on \in BOOLEAN :
        /\ phase = "reconnect"
        /\ handles' = Reconnected(handles, off, on, h.disk)
        /\ todo' = todo \ {h}
        /\ failed' = (failed \/ ~off \/ ~on)
        /\ UNCHANGED <<phase, shown, devices, res>>

\* find_handles returns an error rather than an empty list.
ListPartitions ==
    /\ phase = "reconnect" /\ todo = {}
    /\ todo' = {h \in handles : h.logical}
    /\ phase' = IF todo' = {} THEN "Err" ELSE "partitions"
    /\ UNCHANGED <<shown, handles, devices, res, failed>>

\* With a second ESP there is none.
Inspect(h) ==
    IF h.esp /\ res # {} THEN phase' = "Ok" /\ res' = {}
    ELSE phase' = phase /\ res' = IF h.esp THEN {h} ELSE res

OpenPartitionInfo ==
    \E h \in todo \cap handles :
        /\ phase = "partitions"
        /\ Inspect(h)
        /\ todo' = todo \ {h}
        /\ UNCHANGED <<shown, handles, devices, failed>>

PartitionsInspected ==
    /\ phase = "partitions" /\ todo = {}
    /\ phase' = IF res = {} THEN "Ok" ELSE "path"
    /\ UNCHANGED <<shown, handles, todo, devices, res, failed>>

-------------------------------------------------------------------------------
(* find_random_esp_path: the path is a copy and outlives the handle. *)

OpenDevicePath ==
    /\ phase = "path" /\ res \subseteq handles
    /\ phase' = "Ok"
    /\ UNCHANGED <<shown, handles, todo, devices, res, failed>>

\* A list, a PartitionInfo or a DevicePath that the firmware does not give away is
\* the end of the search.
FindFails ==
    /\ \/ phase = "block_devices" /\ devices = {}
       \/ phase \in {"partitions", "path"}
    /\ phase' = "Err" /\ res' = {} /\ failed' = TRUE
    /\ UNCHANGED <<shown, handles, todo, devices>>

-------------------------------------------------------------------------------

EspInit ==
    /\ phase = "idle" /\ shown = <<>> /\ handles = {} /\ todo = {}
    /\ devices = {} /\ res = {} /\ failed = FALSE

\* The caller takes the result.
FindEnds ==
    /\ phase \in {"Ok", "Err"} /\ phase' = "idle"
    /\ shown' = <<>> /\ handles' = {} /\ todo' = {}
    /\ devices' = {} /\ res' = {} /\ failed' = FALSE

EspStep ==
    \/ OpenBlockIo \/ BlockIoStaysShut \/ DevicesListed
    \/ ReconnectController \/ ListPartitions
    \/ OpenPartitionInfo \/ PartitionsInspected
    \/ OpenDevicePath \/ FindFails

-------------------------------------------------------------------------------
(* Correctness. *)

\* Every handle that is still to be reconnected, opened or named is one the firmware
\* has: the list was made before opening and reconnecting took handles away, and that
\* a handle is gone would only be logged.
HandlesAreLive ==
    /\ phase \in {"reconnect", "partitions"} => todo \subseteq handles
    /\ res \subseteq handles

\* The image is told to come from an ESP if, and only if, that is the only one.  If
\* nothing failed, it is the only one of all disks as they are now, those unlocked a
\* moment ago included, and not one that is left from a shadow MBR: whoever is started
\* finds every partition connected again.
EspIsTheOnlyOne ==
    /\ phase = "Ok" =>
          \A h \in handles : h \in res <=> h.esp /\ \A g \in handles : g.esp => g = h
    /\ phase \in {"partitions", "path", "Ok", "Err"} /\ ~failed => handles = AllConnected
===============================================================================
