---------------------------- MODULE MCDiscovery ----------------------------
(* Discovery with a buffer that the longest answers fill. *)
EXTENDS Discovery

Feature(code, len, data) == [code |-> code, len |-> len, data |-> data]
Shared == {Feature("ENTERPRISE", 20, "comE"), Feature("OPAL_V2", 16, "comO"),
           Feature("OPAL_V2", 4, "comO"),
           Feature("OTHER", 12, None), Feature("OTHER", 0, None)}
MCDescriptors == Shared \cup
    {Feature("LOCKING", 12, {"LOCKING_SUPPORTED", "LOCKING_ENABLED", "LOCKED"}),
     Feature("LOCKING", 4, {"LOCKED"}), Feature("LOCKING", 12, {"LOCKING_SUPPORTED"})}
\* Byte 4 of the Locking feature has eight bits; 0x40 has no name in LockingFlags.
MCNewerDescriptors == Shared \cup {Feature("LOCKING", 12, {"LOCKED", "0x40"})}
===============================================================================
