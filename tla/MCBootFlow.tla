----------------------------- MODULE MCBootFlow -----------------------------
(* The machines of MCFileSearch with a boot menu. *)
EXTENDS MCFileSearch, BootFlow

MCImages == {"linux", "old", "other", "junk"}

EntryOf(w) ==
    [image |-> w.file, extra_partitions |-> <<>>, initrd |-> <<>>,
     additional_initrd_files |-> <<>>]
WithMenu(w) ==
    w @@ [entries |-> <<EntryOf(w)>>, esps |-> {"esp"}, shadow |-> <<TRUE>>, debug |-> FALSE]

\* The second entry of config-example.toml.
Initrd(w) == WithMenu([w EXCEPT !.nodes.system.files = @ @@ [img |-> "img", ucode |-> "ucode"]])
ExampleMenu(w) ==
    [Initrd(w) EXCEPT
        !.entries[1].initrd = <<F("system", "img"), F("system", "ucode")>>,
        !.entries[1].additional_initrd_files = <<F("keys", "lvm")>>,
        !.debug = TRUE]

\* An extra partition that is a drive, and an image that is none.
Extra(w) == [WithMenu(w) EXCEPT !.entries[1].extra_partitions = <<"drive">>,
                                !.entries[1].image.partition = "system"]
KeyAsImage(w) == [WithMenu(w) EXCEPT !.entries[1].image = F("keys", "lvm")]

\* Two drives the config knows, behind one it does not.
ThreeDrives ==
    [WithMenu(Encrypted("nvme", [efi |-> "linux"], <<>>)) EXCEPT
        !.drives = <<Disk("ata", "X", None, "copy"), @[1], Disk("ata", "B", "k1", "copy")>>,
        !.partitions = @ @@ [second |-> P(None, "B", "pw")]]
NoKeyslot == [ThreeDrives EXCEPT !.partitions.second.keyslot = None]

BootWorlds ==
    {WithMenu(w) : w \in MCWorlds} \cup {ExampleMenu(w) : w \in ExampleWorlds}
        \cup {Extra(w) : w \in EncryptedWorlds} \cup {KeyAsImage(w) : w \in ExampleWorlds}
        \cup {ThreeDrives, NoKeyslot}
===============================================================================
