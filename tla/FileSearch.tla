----------------------------- MODULE FileSearch -----------------------------
(***************************************************************************)
(* How the greeter finds a file: resolve_and_read_file walks up the config *)
(* to the outermost partition, find_read_file goes through the block       *)
(* devices and unlocks the drive that is named, find_read_file_internal    *)
(* descends through LVM, LUKS and GPT to a file system, and                *)
(* get_password_of_keyslot, which all of them need, may have to find a     *)
(* file first.  The functions call each other; the model has their frames  *)
(* on a stack and one action per step of the function on top.              *)
(*                                                                         *)
(* A world is a machine with its config: drives, what is on them, the      *)
(* partitions and keyslots of config.toml, and the file that is wanted.    *)
(* What a LUKS device, a file system or a partition table looks like to    *)
(* the libraries that parse it is its kind, its uuid and its children; the *)
(* volume key of a LUKS device goes by its uuid, copies of it included.    *)
(***************************************************************************)
EXTENDS Naturals, SequencesExt, FiniteSets

CONSTANTS None,
          Stdin,     \* KeyslotSource::Stdin; the other sources are files
          Worlds,
          Keys,      \* what a user may type at a prompt
          MaxDepth   \* frames that fit into the stack the firmware provides

ASSUME DepthAssumption == MaxDepth \in Nat /\ MaxDepth > 1

\* The names in a config resolve; one that does not is a panic at the first use.
Files(w) == [partition : DOMAIN w.partitions, file : STRING]

ConfigIsWhole(w) ==
    /\ None \notin DOMAIN w.partitions \cup DOMAIN w.keyslots
    /\ \A p \in DOMAIN w.partitions :
          /\ w.partitions[p].parent \in DOMAIN w.partitions \cup {None}
          /\ w.partitions[p].keyslot \in DOMAIN w.keyslots \cup {None}
    /\ \A k \in DOMAIN w.keyslots : w.keyslots[k] \in Files(w) \cup {Stdin}

Parts(w, n) == Range(w.nodes[n].kids)

\* What is stored lies inside one thing, and in the end on the drives themselves.
StorageIsNested(w) ==
    /\ w.drives \in Seq(Range(w.drives))
    /\ None \notin DOMAIN w.nodes
    /\ \A n \in DOMAIN w.nodes :
          /\ w.nodes[n].kids \in Seq(DOMAIN w.nodes)
          /\ w.nodes[n].kind \in {"lvm", "luks", "gpt", "ext4", "fat"}
          /\ w.nodes[n].kind = "luks" => w.nodes[n].kids # <<>>
          /\ \A f \in DOMAIN w.nodes[n].files : w.nodes[n].files[f] # None
    /\ \A m, n \in DOMAIN w.nodes : Parts(w, m) \cap Parts(w, n) # {} => m = n
    /\ \A S \in SUBSET DOMAIN w.nodes :
          S # {} => \E n \in S : \A m \in S : n \notin Parts(w, m)
    /\ \A d \in DOMAIN w.drives :
          /\ w.drives[d].root \in DOMAIN w.nodes \cup {None}
          /\ \A n \in DOMAIN w.nodes : w.drives[d].root \notin Parts(w, n)

ASSUME WorldsAssumption == \A w \in Worlds : ConfigIsWhole(w) /\ StorageIsNested(w)
ASSUME KeysAssumption == None \notin Keys

VARIABLES
    world,
    stack,           \* the frames, the running function last
    ret,             \* what the function that ended last returned, until its caller looks
    halted,          \* how the program ended without returning, or None
    open,            \* the drives that are not locked
    keyslot_buffer,  \* config.keyslot_buffer: keyslot -> key or None
    masterkeys,      \* the uuids in config.luks_masterkey_buffer
    asked,           \* history: how often the user was asked for each keyslot
    refused,         \* history: a device refused a key
    missed           \* history: <<j, d, n>> if the search in frame j could not look into
                     \* node n of drive d

calls  == <<stack, ret, halted>>
config == <<keyslot_buffer, masterkeys>>
user   == <<asked, refused>>
vars   == <<world, calls, open, config, user, missed>>

AskedBound == 2

Partition(p) == world.partitions[p]
Drive(d)     == world.drives[d]
Node(n)      == world.nodes[n]
Keyslots     == DOMAIN world.keyslots

Ok(v) == [tag |-> "Ok", value |-> v]
Err   == [tag |-> "Err"]

-------------------------------------------------------------------------------
(* The stack. *)

Top == Last(stack)
Runs(fn)    == halted = None /\ stack # <<>> /\ ret = None /\ Top.fn = fn
Resumes(fn) == halted = None /\ stack # <<>> /\ ret # None /\ Top.fn = fn

Become(frame) ==
    stack' = Append(Front(stack), frame) /\ ret' = None /\ UNCHANGED halted

Return(r) == stack' = Front(stack) /\ ret' = r /\ UNCHANGED halted

\* The running function waits as frame `me` for the function it calls.
Call(me, callee) ==
    /\ ret' = None
    /\ IF Len(stack) < MaxDepth
       THEN stack' = Front(stack) \o <<me, callee>> /\ UNCHANGED halted
       ELSE halted' = "overflow" /\ UNCHANGED stack

Halt(how) == halted' = how /\ UNCHANGED <<stack, ret>>

\* find_read_file holds the BlockIO of the device it searches, unlock_opal the
\* pass-through of the controller of an ATA drive.  The firmware opens neither
\* a second time.
Frames(fn) == {stack[j] : j \in {i \in 1..Len(stack) : stack[i].fn = fn}}
HeldDrives == {f.devices[f.i] : f \in {g \in Frames("find_read_file") : g.at = "probing"}}
HeldControllers ==
    {Drive(f.drive).controller : f \in {g \in Frames("unlock_opal") : Drive(g.drive).bus = "ata"}}

\* The handles with a BlockIO that opens.  One that the program holds does not, and
\* any other may be refused: those are dropped, and nobody is told.
Refusals == {S \in SUBSET (1..Len(world.drives)) : HeldDrives \subseteq S}
block_devices(dropped) ==
    LET listed[d \in 0..Len(world.drives)] ==
            IF d = 0 THEN <<>>
            ELSE IF d \in dropped THEN listed[d - 1] ELSE Append(listed[d - 1], d)
    IN  listed[Len(world.drives)]

Resolve(file) ==
    [fn |-> "resolve_and_read_file", file |-> file, current |-> file.partition, path |-> <<>>]
Search(dropped, path, file) ==
    [fn |-> "find_read_file", file |-> file, path |-> path,
     devices |-> block_devices(dropped), i |-> 1, at |-> "drive"]
Probe(node, path, file) ==
    [fn |-> "find_read_file_internal", node |-> node, path |-> path, file |-> file,
     kid |-> 1, at |-> "start"]
UnlockOpal(drive, keyslot) == [fn |-> "unlock_opal", drive |-> drive, keyslot |-> keyslot]
Password(keyslot, cached) ==
    [fn |-> "get_password_of_keyslot", keyslot |-> keyslot, cached |-> cached]

\* History: frame j begins with a list of devices; a frame goes on after one it called;
\* and what a search cannot look at: some of its devices, or the node that the running
\* function is at, which is part of the search.
ListWithout(j, dropped) ==
    missed' = {m \in missed : m[1] < j} \cup {<<j, d, Drive(d).root>> : d \in dropped}
ForgetCallees == missed' = {m \in missed : m[1] <= Len(stack)}
MissDrives(ds) == missed' = missed \cup {<<Len(stack), d, Drive(d).root>> : d \in ds}
RestOfList == {Top.devices[k] : k \in Top.i..Len(Top.devices)}
Searching ==
    {j \in 1..Len(stack) :
        /\ stack[j].fn = "find_read_file"
        /\ \A k \in (j + 1)..Len(stack) : stack[k].fn = "find_read_file_internal"}
MissNode == missed' = missed \cup {<<j, stack[j].devices[stack[j].i], Top.node>> : j \in Searching}

-------------------------------------------------------------------------------
(* resolve_and_read_file *)

\* One turn of the loop up to the outermost partition.  Parents that form a
\* circle fill the memory.
ResolveParent ==
    /\ Runs("resolve_and_read_file")
    /\ LET path   == <<Top.current>> \o Top.path
           parent == Partition(Top.current).parent
       IN  IF Len(path) > Cardinality(DOMAIN world.partitions)
           THEN Halt("memory") /\ UNCHANGED missed
           ELSE IF parent # None
           THEN Become([Top EXCEPT !.current = parent, !.path = path]) /\ UNCHANGED missed
           ELSE \E dropped \in Refusals :
                    /\ Become(Search(dropped, path, Top.file))
                    /\ ListWithout(Len(stack), dropped)
    /\ UNCHANGED <<world, open, config, user>>

-------------------------------------------------------------------------------
(* find_read_file *)

AtDevice(at) == Runs("find_read_file") /\ Top.at = at /\ Top.i <= Len(Top.devices)
Device == Drive(Top.devices[Top.i])
NextDevice == [Top EXCEPT !.i = @ + 1, !.at = "drive"]

NoMoreDevices ==
    /\ Runs("find_read_file") /\ Top.at = "drive" /\ Top.i > Len(Top.devices)
    /\ Return(Err)
    /\ UNCHANGED <<world, open, config, user, missed>>

\* The pass-through of an ATA drive cannot be opened, or it has no OPAL; both
\* errors leave the whole search.
AtaFails == Device.bus = "ata" /\ (Device.controller \in HeldControllers \/ ~Device.opal)

IsNamed == Device.bus \in {"nvme", "ata"} /\ Device.serial = Partition(Head(Top.path)).uuid

\* Probing a device or opening it again fails, and with it the whole search; the
\* discovery of a drive that is named is unwrapped.  To a search in which the handles
\* are not found at all the list is as empty as if all of them were dropped.
DeviceFails ==
    /\ AtDevice("drive") \/ AtDevice("open")
    /\ \/ Return(Err)
       \/ /\ AtDevice("drive") /\ IsNamed /\ Device.bus = "nvme"
          /\ Partition(Head(Top.path)).keyslot # None
          /\ Halt("panic")
    /\ MissDrives(RestOfList)
    /\ UNCHANGED <<world, open, config, user>>

\* Mutant: the path may run out.
DescendDriveAlways == Become([Top EXCEPT !.path = Tail(@), !.at = "open"])

\* The drive that was looked for is there: go on with the rest of the path, on
\* this device and on those after it.
DescendDrive ==
    IF Len(Top.path) = 1 THEN Return(Err)
    ELSE Become([Top EXCEPT !.path = Tail(@), !.at = "open"])

ProbeDrive ==
    /\ AtDevice("drive") /\ ~AtaFails
    /\ LET keyslot == Partition(Head(Top.path)).keyslot
       IN  IF ~IsNamed THEN Become([Top EXCEPT !.at = "open"])
           ELSE IF keyslot = None THEN DescendDrive
           ELSE IF ~Device.opal THEN Halt("panic")     \* the unwrap of OpalDrive::new
           ELSE Call([Top EXCEPT !.at = "unlocking"], UnlockOpal(Top.devices[Top.i], keyslot))
    /\ UNCHANGED <<world, open, config, user, missed>>

DriveUnlocked ==
    /\ Resumes("find_read_file") /\ Top.at = "unlocking"
    /\ IF ret = Err THEN Return(Err) /\ MissDrives(RestOfList)
                    ELSE DescendDrive /\ UNCHANGED missed
    /\ UNCHANGED <<world, open, config, user>>

\* A locked drive shows its shadow MBR, with nothing on it that is looked for.
OpenDevice ==
    /\ AtDevice("open")
    /\ LET visible == IF Top.devices[Top.i] \in open THEN Device.root ELSE None
       IN  /\ IF Device.spurious THEN Become(NextDevice)
              ELSE Call([Top EXCEPT !.at = "probing"], Probe(visible, Top.path, Top.file))
           /\ MissDrives(IF Device.spurious \/ visible # Device.root
                         THEN {Top.devices[Top.i]} ELSE {})
    /\ UNCHANGED <<world, open, config, user>>

DeviceSearched ==
    /\ Resumes("find_read_file") /\ Top.at = "probing"
    /\ IF ret = Err THEN Become(NextDevice) ELSE Return(ret)
    /\ UNCHANGED <<world, open, config, user, missed>>

-------------------------------------------------------------------------------
(* find_read_file_internal *)

Kind == IF Top.node = None THEN "blank" ELSE Node(Top.node).kind
Probes(kind) == Runs("find_read_file_internal") /\ Kind = kind
\* Mutant: no uuid is compared.
NamedAnyhow == Top.path # <<>>

NamedHere == Top.path # <<>> /\ Node(Top.node).uuid = Partition(Head(Top.path)).uuid

\* Nothing here is what the path goes on with.  The match against a GPT is the
\* last one and asks for no uuid.
ProbeNothing ==
    /\ Runs("find_read_file_internal")
    /\ \/ Top.path = <<>>
       \/ Kind = "blank"
       \/ Kind \in {"lvm", "luks", "ext4", "fat"} /\ ~NamedHere
    /\ Return(Err)
    /\ UNCHANGED <<world, open, config, user, missed>>

\* The logical volumes of LVM are inside the partition that was named, the
\* partitions of a GPT are where the search was before.
InnerPath == IF Kind = "lvm" THEN Tail(Top.path) ELSE Top.path
IsVolumeGroup == (Probes("lvm") /\ NamedHere) \/ (Probes("gpt") /\ Top.path # <<>>)

ProbeVolume ==
    /\ IsVolumeGroup
    /\ IF Top.kid > Len(Node(Top.node).kids) THEN Return(Err)
       ELSE Call(Top, Probe(Node(Top.node).kids[Top.kid], InnerPath, Top.file))
    /\ UNCHANGED <<world, open, config, user, missed>>

\* Mutant: the first volume decides.
VolumeSearchedOnce ==
    /\ Resumes("find_read_file_internal") /\ Kind \in {"lvm", "gpt"}
    /\ Return(ret)
    /\ UNCHANGED <<world, open, config, user, missed>>

VolumeSearched ==
    /\ Resumes("find_read_file_internal") /\ Kind \in {"lvm", "gpt"}
    /\ IF ret = Err THEN Become([Top EXCEPT !.kid = @ + 1]) ELSE Return(ret)
    /\ UNCHANGED <<world, open, config, user, missed>>

EnterLuks ==
    Call([Top EXCEPT !.at = "inside"], Probe(Node(Top.node).kids[1], Tail(Top.path), Top.file))

ProbeLuks ==
    /\ Probes("luks") /\ NamedHere
    /\ LET keyslot == Partition(Head(Top.path)).keyslot
       IN  IF keyslot = None THEN Return(Err) /\ MissNode
           ELSE /\ UNCHANGED missed
                /\ IF Node(Top.node).uuid \in masterkeys THEN EnterLuks
                   ELSE Call([Top EXCEPT !.at = "password"], Password(keyslot, "Cached"))
    /\ UNCHANGED <<world, open, config, user>>

\* A password for the LUKS device; there is none, or the device fails in another way
\* than by refusing it.
LuksPassword ==
    /\ Resumes("find_read_file_internal") /\ Top.at = "password"
    /\ LET node == Node(Top.node)
       IN  \/ Return(Err) /\ MissNode /\ UNCHANGED <<masterkeys, refused>>
           \/ /\ ret = Ok(node.key)
              /\ EnterLuks /\ masterkeys' = masterkeys \cup {node.uuid}
              /\ UNCHANGED <<refused, missed>>
           \/ /\ ret \notin {Err, Ok(node.key)}
              /\ Call(Top, Password(Partition(Head(Top.path)).keyslot, "Discard"))
              /\ refused' = TRUE /\ UNCHANGED <<masterkeys, missed>>
    /\ UNCHANGED <<world, open, keyslot_buffer, asked>>

LuksSearched ==
    /\ Resumes("find_read_file_internal") /\ Top.at = "inside"
    /\ Return(ret)
    /\ UNCHANGED <<world, open, config, user, missed>>

\* A file system has to be the end of the path.
ProbeFileSystem ==
    /\ (Probes("ext4") \/ Probes("fat")) /\ NamedHere
    /\ LET files == Node(Top.node).files
       IN  Return(IF Len(Top.path) = 1 /\ Top.file.file \in DOMAIN files
                  THEN Ok(files[Top.file.file]) ELSE Err)
    /\ UNCHANGED <<world, open, config, user, missed>>

\* Reading a device fails: an error anywhere but in the data of an ext4 file.
ReadFails ==
    /\ Runs("find_read_file_internal") /\ Kind # "blank"
    /\ \/ Return(Err)
       \/ Kind = "ext4" /\ NamedHere /\ Len(Top.path) = 1 /\ Halt("panic")
    /\ MissNode
    /\ UNCHANGED <<world, open, config, user>>

-------------------------------------------------------------------------------
(* unlock_opal, as far as the search sees it; UnlockOpal has the rest. *)

StartUnlock ==
    /\ Runs("unlock_opal")
    /\ IF Top.drive \in open THEN Return(Ok("unlocked"))
       ELSE Call(Top, Password(Top.keyslot, "Cached"))
    /\ UNCHANGED <<world, open, config, user, missed>>

TryPassword ==
    /\ Resumes("unlock_opal")
    /\ CASE ret = Err -> Return(Err) /\ UNCHANGED <<open, refused>>
         [] ret = Ok(Drive(Top.drive).key) ->
              Return(Ok("unlocked")) /\ open' = open \cup {Top.drive} /\ UNCHANGED refused
         [] ret \notin {Err, Ok(Drive(Top.drive).key)} ->
              /\ \/ Call(Top, Password(Top.keyslot, "Discard"))
                 \/ Halt("reset")                       \* AUTHORITY_LOCKED_OUT
              /\ refused' = TRUE /\ UNCHANGED open
    /\ UNCHANGED <<world, config, asked, missed>>

\* Any other error, before or after the drive opened its locking range.
UnlockFails ==
    /\ Resumes("unlock_opal") /\ ret # Err
    /\ Return(Err)
    /\ open' \in {open, IF ret = Ok(Drive(Top.drive).key) THEN open \cup {Top.drive} ELSE open}
    /\ UNCHANGED <<world, config, user, missed>>

-------------------------------------------------------------------------------
(* get_password_of_keyslot *)

\* Mutant: the buffer is used whatever the caller asks for.
BufferedAlways == keyslot_buffer[Top.keyslot] # None

Buffered == Top.cached = "Cached" /\ keyslot_buffer[Top.keyslot] # None
Source   == world.keyslots[Top.keyslot]

UseBuffered ==
    /\ Runs("get_password_of_keyslot") /\ Buffered
    /\ Return(Ok(keyslot_buffer[Top.keyslot]))
    /\ UNCHANGED <<world, open, config, user, missed>>

\* Mutant: the buffer is not filled.
ObtainForgetful(key) ==
    /\ Return(Ok(key))
    /\ UNCHANGED <<world, open, config, refused, missed>>

Obtain(key) ==
    /\ keyslot_buffer' = [keyslot_buffer EXCEPT ![Top.keyslot] = key]
    /\ Return(Ok(key))
    /\ UNCHANGED <<world, open, masterkeys, refused, missed>>

Prompting == Runs("get_password_of_keyslot") /\ ~Buffered /\ Source = Stdin

Type(key) ==
    /\ Prompting
    /\ Obtain(key)
    /\ asked' = [asked EXCEPT ![Top.keyslot] = IF @ < AskedBound THEN @ + 1 ELSE @]

\* Escape at the prompt.
ShutDown ==
    /\ Prompting
    /\ Halt("shutdown")
    /\ UNCHANGED <<world, open, config, user, missed>>

FindKeyFile ==
    /\ Runs("get_password_of_keyslot") /\ ~Buffered /\ Source # Stdin
    /\ Call(Top, Resolve(Source))
    /\ UNCHANGED <<world, open, config, user, missed>>

KeyFileRead ==
    /\ Resumes("get_password_of_keyslot") /\ ret # Err
    /\ Obtain(ret.value)
    /\ UNCHANGED asked

KeyFileMissing ==
    /\ Resumes("get_password_of_keyslot") /\ ret = Err
    /\ Return(Err)
    /\ UNCHANGED <<world, open, config, user, missed>>

-------------------------------------------------------------------------------

\* Drives whose locking range has no key are open from the start.
StartState ==
    /\ open = {d \in 1..Len(world.drives) : Drive(d).key = None}
    /\ keyslot_buffer = [k \in Keyslots |-> None] /\ masterkeys = {}
    /\ asked = [k \in Keyslots |-> 0] /\ refused = FALSE /\ missed = {}

Init ==
    /\ world \in Worlds
    /\ stack = <<Resolve(world.file)>> /\ ret = None /\ halted = None
    /\ StartState

ProgramStep ==
    \/ ResolveParent
    \/ NoMoreDevices \/ DeviceFails \/ ProbeDrive \/ DriveUnlocked \/ OpenDevice \/ DeviceSearched
    \/ ProbeNothing \/ ProbeVolume \/ VolumeSearched \/ ProbeLuks \/ LuksPassword
    \/ LuksSearched \/ ProbeFileSystem
    \/ StartUnlock \/ TryPassword
    \/ UseBuffered \/ FindKeyFile \/ KeyFileRead \/ KeyFileMissing

Next == ProgramStep \/ ReadFails \/ UnlockFails \/ ShutDown \/ \E key \in Keys : Type(key)

\* The device that waits for the password, and the key that opens it.
Caller == stack[Len(stack) - 1]
RightKey == IF Caller.fn = "unlock_opal" THEN Drive(Caller.drive).key ELSE Node(Caller.node).key
TypeRightKey == \E key \in Keys : key = RightKey /\ Type(key)

\* The program runs, and a user who is asked again and again gets it right.
Fairness == WF_vars(ProgramStep) /\ SF_vars(Prompting /\ TypeRightKey)

Spec == Init /\ [][Next]_vars /\ Fairness
-------------------------------------------------------------------------------
(* What a machine with its config says, without searching. *)

PathOf(partition) ==
    LET path[p \in DOMAIN world.partitions] ==
            IF Partition(p).parent = None THEN <<p>> ELSE Append(path[Partition(p).parent], p)
    IN  path[partition]
Uuids(path) == [i \in DOMAIN path |-> Partition(path[i]).uuid]

Above(n) == {m \in DOMAIN world.nodes : n \in Range(Node(m).kids)}

\* The uuids from the outermost container to n; a GPT has none.
ChainOf(n) ==
    LET chain[m \in DOMAIN world.nodes] ==
            LET above == IF Above(m) = {} THEN <<>> ELSE chain[CHOOSE a \in Above(m) : TRUE]
            IN  IF Node(m).kind = "gpt" THEN above ELSE Append(above, Node(m).uuid)
    IN  chain[n]
DrivesOf(n) ==
    LET root[m \in DOMAIN world.nodes] ==
            IF Above(m) = {} THEN m ELSE root[CHOOSE a \in Above(m) : TRUE]
    IN  {d \in 1..Len(world.drives) : Drive(d).root = root[n]}

Serials == {Drive(d).serial : d \in {e \in 1..Len(world.drives) : Drive(e).bus # "other"}}
NamesDrive(path) == Head(path) \in Serials

\* The uuids of a path without the drive it may begin with.
Inner(path) == IF NamesDrive(path) THEN Tail(path) ELSE path

Copies(file) ==
    {n \in DOMAIN world.nodes :
        /\ Node(n).kind \in {"ext4", "fat"} /\ file.file \in DOMAIN Node(n).files
        /\ ChainOf(n) = Inner(Uuids(PathOf(file.partition))) /\ DrivesOf(n) # {}}
CopiesOnDrive(file) ==
    {n \in Copies(file) :
        LET uuids == Uuids(PathOf(file.partition))
        IN  NamesDrive(uuids) => \E d \in DrivesOf(n) : Drive(d).serial = Head(uuids)}
Reads(file, n) == Node(n).files[file.file]

\* Keyslots that are needed to read a file, and those needed for a keyslot.
KeyslotsOn(file) == {Partition(p).keyslot : p \in Range(PathOf(file.partition))} \ {None}
Deps(k) == IF world.keyslots[k] = Stdin THEN {} ELSE KeyslotsOn(world.keyslots[k])
ParentsEnd == \A P \in SUBSET DOMAIN world.partitions :
                  P # {} => \E p \in P : Partition(p).parent \notin P
KeyslotsEnd == \A S \in SUBSET Keyslots : S # {} => \E k \in S : Deps(k) \cap S = {}

\* Every copy of a key file opens what its keyslot is for.
LuksDevices(uuid) == {n \in DOMAIN world.nodes : Node(n).kind = "luks" /\ Node(n).uuid = uuid}
KeysOf(uuid) ==
    {Node(n).key : n \in LuksDevices(uuid)}
        \cup {Drive(d).key : d \in {e \in 1..Len(world.drives) : Drive(e).serial = uuid}}
KeyFilesOpen ==
    \A p \in DOMAIN world.partitions :
        LET k == Partition(p).keyslot
        IN  k # None /\ world.keyslots[k] # Stdin =>
                \A n \in Copies(world.keyslots[k]) :
                    KeysOf(Partition(p).uuid) \subseteq {Reads(world.keyslots[k], n)}
Sane == ParentsEnd /\ KeyslotsEnd /\ KeyFilesOpen

-------------------------------------------------------------------------------
(* Correctness. *)

Functions == {"resolve_and_read_file", "find_read_file", "find_read_file_internal",
              "unlock_opal", "get_password_of_keyslot"}
Callers == {"main", "handle_boot_entry", "handle_unlock_configured_opal_drives"}  \* BootFlow

\* The stack has frames of these functions and does not exceed its bound;
\* find_read_file always has a partition left to look at (partitions[0]).
TypeOK ==
    /\ \A j \in 1..Len(stack) : stack[j].fn \in Functions \cup Callers
    /\ Len(stack) <= MaxDepth
    /\ \A f \in Frames("find_read_file") : f.path # <<>>
    /\ halted \in {None, "overflow", "memory", "panic", "reset", "shutdown", "booted"}
    /\ open \subseteq 1..Len(world.drives)
    /\ asked \in [Keyslots -> 0..AskedBound]

SearchEndsWith(r) == Top.fn = "find_read_file" /\ stack' = Front(stack) /\ ret' = r

\* A file that is found is one of that name, on a file system that is reached
\* through the partitions of its path in their order; if the path begins with a
\* drive, that may be skipped, see FileIsFromItsDrive.
FileIsWhereItIsNamed ==
    [][\A v \in {r.value : r \in {ret'} \ {None, Err}} :
          stack # <<>> /\ SearchEndsWith(Ok(v)) =>
              \E n \in Copies(Top.file) : Reads(Top.file, n) = v]_vars

\* n and what is stored in it.
Below(w, n) == {m \in DOMAIN w.nodes : \A S \in SUBSET DOMAIN w.nodes :
                   n \in S /\ (\A x \in S : Parts(w, x) \subseteq S) => m \in S}

\* A search fails only if each copy of the file lies in something that this search
\* could not look into: a device that was dropped from its list, is spurious or locked,
\* or came after one at which the search broke off, or a volume that could not be read
\* or opened.  What another search missed, one it is nested in or one nested in it, is
\* no excuse, and neither is trouble with anything the copy does not lie in.
NotFoundMeansAbsent ==
    [][stack # <<>> /\ SearchEndsWith(Err) =>
          \A n \in CopiesOnDrive(Top.file) : \A d \in DrivesOf(n) :
              \E m \in missed' : m[1] = Len(stack) /\ m[2] = d /\ n \in Below(world, m[3])]_vars

\* As long as the user makes no mistake, a password is asked for once, however
\* many devices need it and however many searches go on at the same time.
AskedOnce == ~refused => \A k \in Keyslots : asked[k] <= 1

\* A key is given only to a device that the config names, at the place where the
\* config says it is, with the keyslot the config says.
KeysGoToTheirDevice ==
    ParentsEnd =>
        \A j \in 2..Len(stack) : stack[j].fn = "get_password_of_keyslot" =>
            \E p \in DOMAIN world.partitions :
                LET asking == stack[j - 1]
                    uuids  == Uuids(PathOf(p))
                IN  /\ Partition(p).keyslot = stack[j].keyslot
                    /\ \/ asking.fn = "unlock_opal" /\ uuids = <<Drive(asking.drive).serial>>
                       \/ /\ asking.fn = "find_read_file_internal"
                          /\ ChainOf(asking.node) = Inner(uuids)

\* What readme.md says: the application comes from the drive that was unlocked.
FileIsFromItsDrive ==
    [][\A v \in {r.value : r \in {ret'} \ {None, Err}} :
          stack # <<>> /\ SearchEndsWith(Ok(v)) =>
              \E n \in CopiesOnDrive(Top.file) : Reads(Top.file, n) = v]_vars
===============================================================================
