------------------------------ MODULE BootFlow ------------------------------
(***************************************************************************)
(* main, run and what a choice in the boot menu leads to, on top of the    *)
(* searches of FileSearch: handle_boot_entry reads the image and the parts *)
(* of its initramfs and starts it, handle_unlock_configured_opal_drives    *)
(* unlocks every drive the config knows.  An Ok leads back to the menu, an *)
(* error to a reset.                                                       *)
(*                                                                         *)
(* An entry of the config has the sequences extra_partitions, initrd and   *)
(* additional_initrd_files beside its image.  A world says which file      *)
(* systems are ESPs, what the shadow MBR of a locked drive is partitioned  *)
(* into, and whether the log level is Debug.                               *)
(***************************************************************************)
EXTENDS FileSearch, BootPartition

CONSTANT Images     \* contents that begin like a PE image

\* The menu and what the entries name.
MenuIsWhole(w) ==
    \A e \in DOMAIN w.entries :
        /\ w.entries[e].image \in Files(w)
        /\ w.entries[e].extra_partitions \in Seq(DOMAIN w.partitions)
        /\ w.entries[e].initrd \in Seq(Files(w))
        /\ w.entries[e].additional_initrd_files \in Seq(Files(w))

ASSUME MenusAssumption == \A w \in Worlds : MenuIsWhole(w)

VARIABLE started    \* what the last image was started with, and the entry it is of

bootVars == <<vars, espVars, started>>

Entry(e) == world.entries[e]

\* The files of an entry in the order they are read.
FilesOf(e) == <<Entry(e).image>> \o Entry(e).initrd \o Entry(e).additional_initrd_files

BootEntry(e) ==
    [fn |-> "handle_boot_entry", entry |-> e, at |-> "extra", i |-> 1, contents |-> <<>>,
     file_path |-> {}]
UnlockConfigured(dropped) ==
    [fn |-> "handle_unlock_configured_opal_drives", devices |-> block_devices(dropped), i |-> 1]

Rest == UNCHANGED <<world, open, config, user>>
NoEsp == UNCHANGED espVars

-------------------------------------------------------------------------------
(* main and run *)

\* The file system the greeter was loaded from, and config.toml on it.
LocateConfig ==
    /\ Runs("main") /\ Top.at = "load"
    /\ \E at \in {"read", "exit"} : Become([Top EXCEPT !.at = at])
    /\ Rest /\ NoEsp /\ UNCHANGED <<missed, started>>

\* A file that does not open, has no size, is no file or cannot be read whole.
ReadConfig ==
    /\ Runs("main") /\ Top.at = "read"
    /\ \E at \in {"decode", "exit"} : Become([Top EXCEPT !.at = at])
    /\ Rest /\ NoEsp /\ UNCHANGED <<missed, started>>

DecodeConfig ==
    /\ Runs("main") /\ Top.at = "decode"
    /\ \E at \in {"run", "exit"} : Become([Top EXCEPT !.at = at])
    /\ Rest /\ NoEsp /\ UNCHANGED <<missed, started>>

RunMenu ==
    /\ Runs("main") /\ Top.at = "run"
    /\ \/ (\E e \in DOMAIN world.entries : Call(Top, BootEntry(e))) /\ UNCHANGED missed
       \/ \E dropped \in Refusals :
             Call(Top, UnlockConfigured(dropped)) /\ ListWithout(Len(stack) + 1, dropped)
    /\ Rest /\ NoEsp /\ UNCHANGED started

\* The console or the watchdog fails, or the devices to unlock cannot be listed.
RunFails ==
    /\ Runs("main") /\ Top.at = "run"
    /\ Become([Top EXCEPT !.at = "exit"])
    /\ Rest /\ NoEsp /\ UNCHANGED <<missed, started>>

RunReturns ==
    /\ Resumes("main")
    /\ Become([Top EXCEPT !.at = IF ret = Err THEN "exit" ELSE "run"])
    /\ ForgetCallees
    /\ Rest /\ NoEsp /\ UNCHANGED started

\* The error is shown until a line is entered.
Exit ==
    /\ Runs("main") /\ Top.at = "exit"
    /\ Halt("reset") \/ Halt("shutdown")
    /\ Rest /\ NoEsp /\ UNCHANGED <<missed, started>>

-------------------------------------------------------------------------------
(* handle_boot_entry and construct_initramfs *)

\* The drives among extra_partitions are unlocked by looking for the image there;
\* nobody asks how that ended.
ReadExtra ==
    /\ Runs("handle_boot_entry") /\ Top.at = "extra"
    /\ LET extra == Entry(Top.entry).extra_partitions
           file  == [partition |-> extra[Top.i], file |-> Entry(Top.entry).image.file]
       IN  IF Top.i > Len(extra)
           THEN Become([Top EXCEPT !.at = "files", !.i = 1]) /\ UNCHANGED missed
           ELSE \E dropped \in Refusals :
                    /\ Call(Top, Search(dropped, <<extra[Top.i]>>, file))
                    /\ ListWithout(Len(stack) + 1, dropped)
    /\ Rest /\ NoEsp /\ UNCHANGED started

ExtraRead ==
    /\ Resumes("handle_boot_entry") /\ Top.at = "extra"
    /\ Become([Top EXCEPT !.i = @ + 1])
    /\ ForgetCallees
    /\ Rest /\ NoEsp /\ UNCHANGED started

ReadEntryFile ==
    /\ Runs("handle_boot_entry") /\ Top.at = "files" /\ Top.i <= Len(FilesOf(Top.entry))
    /\ Call(Top, Resolve(FilesOf(Top.entry)[Top.i]))
    /\ Rest /\ NoEsp /\ UNCHANGED <<missed, started>>

\* Mutant: the initramfs is put together from the last file on.
ContentsReversed == <<ret.value>> \o Top.contents

Contents == Append(Top.contents, ret.value)

\* The first file is the image and has to be one.
EntryFileRead ==
    /\ Resumes("handle_boot_entry") /\ Top.at = "files"
    /\ IF ret = Err \/ (Top.i = 1 /\ ret.value \notin Images) THEN Return(Err)
       ELSE Become([Top EXCEPT !.i = @ + 1, !.contents = Contents])
    /\ ForgetCallees
    /\ Rest /\ NoEsp /\ UNCHANGED started

AllRead == Runs("handle_boot_entry") /\ Top.at = "files" /\ Top.i > Len(FilesOf(Top.entry))

\* No pages for the initramfs.
AllocatePagesFails ==
    /\ AllRead
    /\ Entry(Top.entry).initrd \o Entry(Top.entry).additional_initrd_files # <<>>
    /\ Return(Err)
    /\ Rest /\ NoEsp /\ UNCHANGED <<missed, started>>

\* The table of a drive that is not encrypted or was unlocked is its own, the one of
\* a locked drive is that of its shadow MBR.
Table(d) ==
    LET root == Drive(d).root
    IN  IF d \notin open THEN world.shadow
        ELSE IF root # None /\ Node(root).kind = "gpt"
             THEN [i \in DOMAIN Node(root).kids |-> Node(root).kids[i] \in world.esps]
             ELSE <<>>
Now == [d \in DOMAIN world.drives |-> Table(d)]
Earlier(d) == {<<>>, Table(d)} \cup (IF Drive(d).key = None THEN {} ELSE {world.shadow})

FindEsp ==
    /\ AllRead
    /\ Become([Top EXCEPT !.at = "esp"])
    /\ \E before \in [DOMAIN world.drives -> UNION {Earlier(d) : d \in DOMAIN world.drives}] :
          /\ \A d \in DOMAIN before : before[d] \in Earlier(d)
          /\ FindBootPartition(Now, before)
    /\ Rest /\ UNCHANGED <<missed, started>>

EspFound ==
    /\ Runs("handle_boot_entry") /\ Top.at = "esp"
    /\ \/ phase = "Ok" /\ Become([Top EXCEPT !.at = "load", !.file_path = res])
       \/ phase = "Err" /\ Return(Err)
    /\ FindEnds
    /\ Rest /\ UNCHANGED <<missed, started>>

\* The image and its options; at Debug the greeter then waits for a word.
LoadImage ==
    /\ Runs("handle_boot_entry") /\ Top.at = "load"
    /\ \/ Become([Top EXCEPT !.at = IF world.debug THEN "confirm" ELSE "start"])
       \/ Return(Err)
    /\ Rest /\ NoEsp /\ UNCHANGED <<missed, started>>

\* Another word changes nothing, an error of the console is unwrapped.
Confirm ==
    /\ Runs("handle_boot_entry") /\ Top.at = "confirm"
    /\ Become([Top EXCEPT !.at = "start"]) \/ Halt("shutdown") \/ Halt("panic")
    /\ Rest /\ NoEsp /\ UNCHANGED <<missed, started>>

\* start_image, which may come back.
StartImage ==
    /\ Runs("handle_boot_entry") /\ Top.at = "start"
    /\ started' = [entry |-> Top.entry, contents |-> Top.contents, file_path |-> Top.file_path]
    /\ Return(Ok("returned")) \/ Return(Err) \/ Halt("booted")
    /\ Rest /\ NoEsp /\ UNCHANGED missed

-------------------------------------------------------------------------------
(* handle_unlock_configured_opal_drives *)

Configured(serial) == {p \in DOMAIN world.partitions : Partition(p).uuid = serial}

AtConfigured ==
    Runs("handle_unlock_configured_opal_drives") /\ Top.i <= Len(Top.devices)

\* Mutant: a drive the config does not know ends the loop.
SkipDriveAndLeave ==
    /\ AtConfigured
    /\ Device.bus = "other" \/ (~AtaFails /\ Configured(Device.serial) = {})
    /\ Return(Ok("unlocked"))
    /\ Rest /\ NoEsp /\ UNCHANGED <<missed, started>>

SkipDrive ==
    /\ AtConfigured
    /\ Device.bus = "other" \/ (~AtaFails /\ Configured(Device.serial) = {})
    /\ Become([Top EXCEPT !.i = @ + 1])
    /\ Rest /\ NoEsp /\ UNCHANGED <<missed, started>>

\* The keyslot of a partition that has the serial of a drive is unwrapped.
UnlockDrive ==
    /\ AtConfigured /\ Device.bus # "other" /\ ~AtaFails
    /\ \E p \in Configured(Device.serial) :
          IF Partition(p).keyslot = None THEN Halt("panic")
          ELSE Device.opal /\ Call(Top, UnlockOpal(Top.devices[Top.i], Partition(p).keyslot))
    /\ Rest /\ NoEsp /\ UNCHANGED <<missed, started>>

\* A drive cannot be opened or has no OPAL.
DriveFails ==
    /\ AtConfigured /\ Device.bus # "other"
    /\ Return(Err)
    /\ Rest /\ NoEsp /\ UNCHANGED <<missed, started>>

DriveDone ==
    /\ Resumes("handle_unlock_configured_opal_drives")
    /\ IF ret = Err THEN Return(Err) ELSE Become([Top EXCEPT !.i = @ + 1])
    /\ Rest /\ NoEsp /\ UNCHANGED <<missed, started>>

AllUnlocked ==
    /\ Runs("handle_unlock_configured_opal_drives") /\ Top.i > Len(Top.devices)
    /\ Return(Ok("unlocked"))
    /\ Rest /\ NoEsp /\ UNCHANGED <<missed, started>>

-------------------------------------------------------------------------------

BootInit ==
    /\ world \in Worlds
    /\ stack = <<[fn |-> "main", at |-> "load"]>> /\ ret = None /\ halted = None
    /\ StartState /\ EspInit
    /\ started = None

BootStep ==
    \/ LocateConfig \/ ReadConfig \/ DecodeConfig
    \/ RunMenu \/ RunFails \/ RunReturns \/ Exit
    \/ ReadExtra \/ ExtraRead \/ ReadEntryFile \/ EntryFileRead \/ AllocatePagesFails
    \/ FindEsp \/ EspFound \/ LoadImage \/ Confirm \/ StartImage
    \/ SkipDrive \/ UnlockDrive \/ DriveFails \/ DriveDone \/ AllUnlocked

SearchStep == Next /\ UNCHANGED <<espVars, started>>
FirmwareStep == EspStep /\ UNCHANGED <<vars, started>>

BootNext == SearchStep \/ FirmwareStep \/ BootStep

\* The program runs, and a user who is asked again and again gets it right.
BootFairness ==
    /\ WF_bootVars((ProgramStep /\ UNCHANGED <<espVars, started>>) \/ FirmwareStep \/ BootStep)
    /\ SF_bootVars(Prompting /\ TypeRightKey /\ UNCHANGED <<espVars, started>>)

BootSpec == BootInit /\ [][BootNext]_bootVars /\ BootFairness

-------------------------------------------------------------------------------
(* Correctness. *)

\* An image is started with the files its entry names, each from its own
\* partition and all in the order of the config, whatever key files were read and
\* whatever was retried in between.
StartedAsConfigured ==
    \A s \in {started} \ {None} :
        /\ Len(s.contents) = Len(FilesOf(s.entry))
        /\ s.contents[1] \in Images
        /\ \A i \in DOMAIN s.contents :
              LET file == FilesOf(s.entry)[i]
              IN  \E n \in Copies(file) : s.contents[i] = Reads(file, n)

\* After "Unlock configured opal drives" went well, every drive the config knows by
\* its serial number is open, but for those whose BlockIO the firmware refused to open
\* when the list was made: they are skipped, and the Ok does not tell.
ConfiguredDrivesAreOpen ==
    [][stack # <<>> /\ Top.fn = "handle_unlock_configured_opal_drives"
           /\ stack' = Front(stack) /\ ret' # Err =>
          \A d \in DOMAIN world.drives :
              Drive(d).bus # "other" /\ Configured(Drive(d).serial) # {} =>
                  d \in open' \/ <<Len(stack), d, Drive(d).root>> \in missed]_bootVars

\* With a config that has no circles and key files that fit, every choice in the
\* menu leads to an image, back to the menu or to a reset: no search goes on forever,
\* and none runs out of stack.
MenuComesBack ==
    Sane => []<>(halted \notin {None, "overflow", "memory"} \/ (stack # <<>> /\ Top.fn = "main"))
===============================================================================
