---------------------------- MODULE MCFileSearch ----------------------------
(* Machines and configs for FileSearch. *)
EXTENDS FileSearch

NoFiles == [f \in {} |-> None]
Container(kind, uuid, key, kids) ==
    [kind |-> kind, uuid |-> uuid, key |-> key, kids |-> kids, files |-> NoFiles]
Gpt(kids)            == Container("gpt", None, None, kids)
Lvm(uuid, lvs)       == Container("lvm", uuid, None, lvs)
Luks(uuid, key, kid) == Container("luks", uuid, key, <<kid>>)
Fs(kind, uuid, files) ==
    [kind |-> kind, uuid |-> uuid, key |-> None, kids |-> <<>>, files |-> files]

Disk(bus, serial, key, root) ==
    [bus |-> bus, controller |-> bus, serial |-> serial, opal |-> TRUE, key |-> key,
     spurious |-> FALSE, root |-> root]
P(parent, uuid, keyslot) == [parent |-> parent, uuid |-> uuid, keyslot |-> keyslot]
F(partition, file) == [partition |-> partition, file |-> file]

\* config-example.toml: the key of an LVM is a file on an encrypted partition.
Example(drives) ==
    [drives |-> drives,
     nodes |-> [table |-> Gpt(<<"esp", "keysEnc">>), esp |-> Fs("fat", "E", NoFiles),
                keysEnc |-> Luks("K", "k1", "keys"), keys |-> Fs("ext4", "KF", [lvm |-> "k2"]),
                sam |-> Luks("S", "k2", "vg"), vg |-> Lvm("V", <<"home", "system">>),
                home |-> Fs("ext4", "H", [efi |-> "other"]),
                system |-> Fs("ext4", "Y", [efi |-> "linux"])],
     partitions |-> [keysEnc |-> P(None, "K", "pw"), keys |-> P("keysEnc", "KF", None),
                     sam |-> P(None, "S", "file"), lvm |-> P("sam", "V", None),
                     system |-> P("lvm", "Y", None)],
     keyslots |-> [pw |-> Stdin, file |-> F("keys", "lvm")],
     file |-> F("system", "efi")]
DiskA == Disk("nvme", "A", None, "table")
DiskB == Disk("other", None, None, "sam")
ExampleWorlds == {Example(<<DiskA, DiskB>>), Example(<<DiskB, DiskA>>)}

\* The key file is on the disk that it is for, which is held meanwhile.
SameDisk ==
    [Example(<<Disk("nvme", "A", None, "both")>>) EXCEPT
        !.nodes = @ @@ [both |-> Gpt(<<"table", "sam">>)]]

\* Two LUKS layers with one keyslot.
Layers(inner) ==
    [drives |-> <<Disk("nvme", "A", None, "outer")>>,
     nodes |-> [outer |-> Luks("O", "k1", "vg"), vg |-> Lvm("V", <<"decoy", "inner">>),
                decoy |-> Luks("D", "k2", "junk"), junk |-> Fs("ext4", "Y", [efi |-> "junk"]),
                inner |-> Luks("I", inner, "system"),
                system |-> Fs("ext4", "Y", [efi |-> "linux"])],
     partitions |-> [outer |-> P(None, "O", "pw"), lvm |-> P("outer", "V", None),
                     inner |-> P("lvm", "I", "pw"), decoy |-> P("lvm", "D", "unused"),
                     system |-> P("inner", "Y", None)],
     keyslots |-> [pw |-> Stdin, unused |-> Stdin],
     file |-> F("system", "efi")]

\* A self-encrypting drive and an older copy of its file system on another disk.
Encrypted(bus, efi, others) ==
    [drives |-> <<Disk(bus, "A", "k1", "table")>> \o others,
     nodes |-> [table |-> Gpt(<<"esp", "sys">>), esp |-> Fs("fat", "E", NoFiles),
                sys |-> Fs("ext4", "Y", efi), copy |-> Fs("ext4", "Y", [efi |-> "old"])],
     partitions |-> [drive |-> P(None, "A", "pw"), system |-> P("drive", "Y", None)],
     keyslots |-> [pw |-> Stdin],
     file |-> F("system", "efi")]
CopyDisk == Disk("other", None, None, "copy")
EncryptedWorlds ==
    {Encrypted("nvme", [efi |-> "linux"], <<>>),
     Encrypted("ata", [efi |-> "linux"], <<CopyDisk>>),
     [Encrypted("nvme", [efi |-> "linux"], <<>>) EXCEPT !.partitions.drive.keyslot = None],
     [Encrypted("nvme", [efi |-> "linux"], <<CopyDisk>>) EXCEPT !.file.partition = "drive"],
     [Encrypted("nvme", [efi |-> "linux"], <<CopyDisk>>) EXCEPT !.drives[1].spurious = TRUE],
     [Encrypted("nvme", [efi |-> "linux"], <<>>) EXCEPT !.drives[1].opal = FALSE],
     [Encrypted("ata", [efi |-> "linux"], <<>>) EXCEPT !.drives[1].opal = FALSE]}
CopyWorlds == {Encrypted("nvme", NoFiles, <<CopyDisk>>)}

\* An encrypted drive whose key is a file on another drive, or on itself.
KeyOnDrive(bus, controller, holder) ==
    [Encrypted(bus, [efi |-> "linux", key |-> "k1"],
               <<[Disk(bus, "B", None, "copy") EXCEPT !.controller = controller]>>) EXCEPT
        !.nodes.copy = Fs("fat", "F", [key |-> "k1"]),
        !.partitions = @ @@ [stick |-> P(None, "F", None)],
        !.keyslots.pw = F(holder, "key")]
KeyOnDriveWorlds ==
    {KeyOnDrive("nvme", "nvme", "stick"), KeyOnDrive("ata", "ata", "stick"),
     KeyOnDrive("ata", "ata2", "stick"), KeyOnDrive("nvme", "nvme", "system")}

\* Configs that cannot work: parents in a circle, a key file with the wrong key,
\* and no keyslot for a LUKS partition.
Broken ==
    {[Example(<<DiskA, DiskB>>) EXCEPT !.partitions.sam.parent = "lvm"],
     [Example(<<DiskA, DiskB>>) EXCEPT !.nodes.keys.files = [lvm |-> "k1"]],
     [Example(<<DiskA, DiskB>>) EXCEPT !.partitions.sam.keyslot = None]}

\* Two copies of a LUKS device whose passwords have been changed since.
Copied ==
    [drives |-> <<Disk("nvme", "A", None, "first"), Disk("other", None, None, "second")>>,
     nodes |-> [first |-> Luks("O", "k1", "empty"), empty |-> Fs("ext4", "Y", NoFiles),
                second |-> Luks("O", "k2", "full"), full |-> Fs("ext4", "Y", [efi |-> "linux"])],
     partitions |-> [outer |-> P(None, "O", "pw"), system |-> P("outer", "Y", None)],
     keyslots |-> [pw |-> Stdin],
     file |-> F("system", "efi")]

MCWorlds == ExampleWorlds \cup {SameDisk, Layers("k1"), Layers("k2"), Copied} \cup EncryptedWorlds
                \cup CopyWorlds \cup KeyOnDriveWorlds \cup Broken
===============================================================================
