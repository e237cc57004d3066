----------------------------- MODULE FatLabel -----------------------------
(***************************************************************************)
(* src/Task_20/vol_label.patch: the ioctl that changes the label of a FAT  *)
(* volume in three places, its root directory, its boot sector and the     *)
(* backup of that, and the two programs that call it.                      *)
(*                                                                         *)
(* An entry of the root directory has a kind and a name.  fat_get_entry()  *)
(* returns the deleted ones too, and a slot of a long name has the         *)
(* attribute ATTR_VOLUME just as a label has; both keep it when they are   *)
(* deleted, which only changes the first byte of the name.  The buffer     *)
(* cache, write-back and mounting are modelled from how the patch uses     *)
(* them; a buffer reaches the disk at any time or never.  Time stamps and  *)
(* the volume id are left out.                                             *)
(***************************************************************************)
EXTENDS Integers, FiniteSets

CONSTANTS
  Procs,      \* the processes; the label p sets is p
  SLOTS,      \* the number of entries of the root directory
  Old,        \* the name of everything before
  None,       \* no process
  MaxCrashes  \* bound on the number of crashes

ASSUME FatLabelAssumption ==
  /\ SLOTS \in Nat /\ MaxCrashes \in Nat
  /\ Old \notin Procs /\ None \notin Procs

VARIABLES
  mem,         \* root directory, boot sector and backup in the buffer cache
  disk,        \* the same on the disk
  fat_bits,    \* 16 or 32; only 32 has a backup
  rdonly,      \* sb->s_flags & MS_RDONLY
  shadowed,    \* was a deleted label in front of the label at first? (history)
  dirty,       \* sbi->dirty: the volume was not unmounted properly last time
  s_lock,      \* the process that died with sbi->s_lock, or None
  pc,          \* pc[p]: where the program or the ioctl of p is
  slot,        \* slot[p]: the entry fat_find_volume_label() has found, or 0
  said,        \* said[p]: what the program has printed
  crashes,     \* how often the system has crashed
  ioerr,       \* has an I/O error been passed over? (history)
  overlapped,  \* have two calls been under way together? (history)
  last         \* the process that last changed the boot sector (history)

volVars == <<fat_bits, rdonly, shadowed>>
history == <<crashes, overlapped>>
vars == <<mem, disk, volVars, dirty, s_lock, pc, slot, said, ioerr, last, history>>

Slots == 1 .. SLOTS
Kinds == {"free", "short", "long", "deleted_long", "label", "deleted_label"}
Labels(root) == {k \in Slots : root[k].kind = "label"}

(* The entries with ATTR_VOLUME, those with IS_FREE(), and the first one.  *)
AttrVolume(root) ==
  {k \in Slots : root[k].kind \in {"long", "deleted_long", "label", "deleted_label"}}
IsFree(root) == {k \in Slots : root[k].kind \in {"free", "deleted_long", "deleted_label"}}
First(S) == CHOOSE k \in S : \A j \in S : k <= j

(* There is a label, but the first entry with ATTR_VOLUME is a deleted one. *)
Shadows(root) ==
  /\ Labels(root) # {}
  /\ root[First(AttrVolume(root))].kind = "deleted_label"

Init ==
  /\ mem \in [root : [Slots -> [kind : Kinds, name : {Old}]], boot : {Old}, backup : {Old}]
  /\ Cardinality(Labels(mem.root)) <= 1
  /\ disk = mem
  /\ fat_bits \in {16, 32}
  /\ rdonly \in BOOLEAN
  /\ shadowed = Shadows(mem.root)
  /\ dirty \in BOOLEAN
  /\ s_lock = None
  /\ pc = [p \in Procs |-> "start"]
  /\ slot = [p \in Procs |-> 0]
  /\ said = [p \in Procs |-> "nothing"]
  /\ crashes = 0
  /\ ioerr = FALSE
  /\ overlapped = FALSE
  /\ last = None

Active(p) == pc[p] \notin {"start", "done", "oops"}
Goto(p, here, there) == pc[p] = here /\ pc' = [pc EXCEPT ![p] = there]

(* The ioctl returns, and the program prints how it went. *)
Return(p, here, message) ==
  /\ Goto(p, here, "done")
  /\ said' = [said EXCEPT ![p] = message]

-----------------------------------------------------------------------------
Call(p) ==
  /\ Goto(p, "start", "copy")
  /\ overlapped' = (overlapped \/ \E q \in Procs : Active(q))
  /\ UNCHANGED <<mem, disk, volVars, dirty, s_lock, slot, said, ioerr, last, crashes>>

(* main() of fat_ioctl.c: it exits if it cannot open the file or get the   *)
(* volume id; the file may be none that knows the ioctl.                   *)
FatIoctl(p) ==
  \/ Call(p)
  \/ /\ \E message \in {"nothing", "set volume failed"} : Return(p, "start", message)
     /\ UNCHANGED <<mem, disk, volVars, dirty, s_lock, slot, ioerr, last, history>>

(* main() of fat_vol.c: its test of the file descriptor lets -1 pass, for  *)
(* which the ioctl fails at once.                                          *)
FatVol(p) ==
  \/ Call(p)
  \/ /\ Return(p, "start", "set volume failed")
     /\ UNCHANGED <<mem, disk, volVars, dirty, s_lock, slot, ioerr, last, history>>

(* fat_ioctl_set_volume_label(): copy_from_user(), or -EFAULT *)
CopyFromUser(p) ==
  /\ \/ Goto(p, "copy", "find") /\ UNCHANGED said
     \/ Return(p, "copy", "set volume failed")
  /\ UNCHANGED <<mem, disk, volVars, dirty, s_lock, slot, ioerr, last, history>>

(* The entry fat_find_volume_label() finds: the first with ATTR_VOLUME. *)
Found == IF AttrVolume(mem.root) = {} THEN 0 ELSE First(AttrVolume(mem.root))

(* Mutant: the search stops before the last entry. *)
FindVolumeLabelShort(p) ==
  /\ Goto(p, "find", "entry")
  /\ slot' = [slot EXCEPT ![p] = IF Found = SLOTS THEN 0 ELSE Found]
  /\ UNCHANGED <<mem, disk, volVars, dirty, s_lock, said, ioerr, last, history>>

(* fat_find_volume_label(), without the lock; a directory that cannot be   *)
(* read looks like one without a label.                                    *)
FindVolumeLabel(p) ==
  /\ Goto(p, "find", "entry")
  /\ \/ /\ slot' = [slot EXCEPT ![p] = Found]
        /\ UNCHANGED ioerr
     \/ slot' = [slot EXCEPT ![p] = 0] /\ ioerr' = TRUE
  /\ UNCHANGED <<mem, disk, volVars, dirty, s_lock, said, last, history>>

(* The entry found gets the new name, under s_lock, which brings a deleted *)
(* one back.  If fat_build_inode() fails its error pointer is used all the *)
(* same: the process dies and the mutex stays locked.                      *)
RenameEntry(p) ==
  /\ slot[p] # 0
  /\ s_lock = None
  /\ mem' = [mem EXCEPT !.root[slot[p]] =
               [kind |-> IF @.kind \in {"long", "deleted_long"} THEN "long" ELSE "label",
                name |-> p]]
  /\ \/ Goto(p, "entry", "state") /\ UNCHANGED s_lock
     \/ Goto(p, "entry", "oops") /\ s_lock' = p
  /\ UNCHANGED <<disk, volVars, dirty, slot, said, ioerr, last, history>>

(* Mutant: the error path of fat_add_entries() keeps s_lock. *)
AddEntryKeepsLock(p) ==
  /\ slot[p] = 0
  /\ s_lock = None
  /\ \/ /\ IsFree(mem.root) # {}
        /\ mem' = [mem EXCEPT !.root[First(IsFree(mem.root))] = [kind |-> "label", name |-> p]]
        /\ Goto(p, "entry", "state") /\ UNCHANGED <<said, s_lock>>
     \/ Return(p, "entry", "set volume failed") /\ s_lock' = p /\ UNCHANGED mem
  /\ UNCHANGED <<disk, volVars, dirty, slot, ioerr, last, history>>

(* fat_add_entries() under s_lock, or its error *)
AddEntry(p) ==
  /\ slot[p] = 0
  /\ s_lock = None
  /\ \/ /\ IsFree(mem.root) # {}
        /\ mem' = [mem EXCEPT !.root[First(IsFree(mem.root))] = [kind |-> "label", name |-> p]]
        /\ Goto(p, "entry", "state") /\ UNCHANGED said
     \/ Return(p, "entry", "set volume failed") /\ UNCHANGED mem
  /\ UNCHANGED <<disk, volVars, dirty, s_lock, slot, ioerr, last, history>>

(* Mutant: the state of the volume is looked at after the boot sector has  *)
(* been changed.                                                           *)
CheckStateLate(p) ==
  /\ \/ (rdonly \/ dirty) /\ Return(p, "state", "set volume failed") /\ mem' = [mem EXCEPT !.boot = p]
     \/ ~(rdonly \/ dirty) /\ Goto(p, "state", "boot") /\ UNCHANGED <<said, mem>>
     \/ ~(rdonly \/ dirty) /\ Return(p, "state", "set volume failed") /\ UNCHANGED mem
  /\ UNCHANGED <<disk, volVars, dirty, s_lock, slot, ioerr, last, history>>

(* -ENOTTY if the volume is read-only or was dirty when it was mounted, or *)
(* if the boot sector cannot be read: the directory has been changed then. *)
CheckState(p) ==
  /\ \/ (rdonly \/ dirty) /\ Return(p, "state", "set volume failed")
     \/ ~(rdonly \/ dirty) /\ Goto(p, "state", "boot") /\ UNCHANGED said
     \/ ~(rdonly \/ dirty) /\ Return(p, "state", "set volume failed")
  /\ UNCHANGED <<mem, disk, volVars, dirty, s_lock, slot, ioerr, last, history>>

(* The label in the buffer of the boot sector, and sb_bread() of the       *)
(* backup, which may fail.                                                 *)
ChangeBoot(p) ==
  /\ mem' = [mem EXCEPT !.boot = p]
  /\ last' = p
  /\ \/ fat_bits = 32 /\ Goto(p, "boot", "backup") /\ UNCHANGED ioerr
     \/ fat_bits = 32 /\ Goto(p, "boot", "sync") /\ ioerr' = TRUE
     \/ fat_bits = 16 /\ Goto(p, "boot", "sync") /\ UNCHANGED ioerr
  /\ UNCHANGED <<disk, volVars, dirty, s_lock, slot, said, history>>

(* The label in the buffer of the backup. *)
ChangeBackup(p) ==
  /\ Goto(p, "backup", "sync_backup")
  /\ mem' = [mem EXCEPT !.backup = p]
  /\ UNCHANGED <<disk, volVars, dirty, s_lock, slot, said, ioerr, last, history>>

(* sync_dirty_buffer(): whether it succeeds is not looked at. *)
SyncDirtyBuffer(sector) ==
  \/ disk' = [disk EXCEPT ![sector] = mem[sector]] /\ UNCHANGED ioerr
  \/ ioerr' = TRUE /\ UNCHANGED disk

SyncBackup(p) ==
  /\ Goto(p, "sync_backup", "sync")
  /\ SyncDirtyBuffer("backup")
  /\ UNCHANGED <<mem, volVars, dirty, s_lock, slot, said, last, history>>

(* Mutant: the boot sector is only marked dirty. *)
SyncBootNever(p) ==
  /\ Return(p, "sync", "successfully changed label")
  /\ UNCHANGED <<mem, disk, volVars, dirty, s_lock, slot, ioerr, last, history>>

SyncBoot(p) ==
  /\ Return(p, "sync", "successfully changed label")
  /\ SyncDirtyBuffer("boot")
  /\ UNCHANGED <<mem, volVars, dirty, s_lock, slot, last, history>>

-----------------------------------------------------------------------------
(* A dirty buffer is written back, that of a sector perhaps before the     *)
(* ioctl syncs it.                                                         *)
WriteBack ==
  /\ \E place \in {"root", "boot", "backup"} : disk' = [disk EXCEPT ![place] = mem[place]]
  /\ UNCHANGED <<mem, volVars, dirty, s_lock, pc, slot, said, ioerr, last, history>>

(* The system crashes and the volume is mounted again; it is dirty if it   *)
(* had been mounted for writing.                                           *)
Crash ==
  /\ crashes < MaxCrashes
  /\ crashes' = crashes + 1
  /\ mem' = disk
  /\ dirty' = (dirty \/ ~rdonly)
  /\ s_lock' = None
  /\ pc' = [p \in Procs |-> IF Active(p) \/ pc[p] = "oops" THEN "done" ELSE pc[p]]
  /\ UNCHANGED <<disk, volVars, slot, said, ioerr, overlapped, last>>

IoctlStep(p) ==
  \/ CopyFromUser(p) \/ FindVolumeLabel(p) \/ RenameEntry(p) \/ AddEntry(p) \/ CheckState(p)
  \/ ChangeBoot(p) \/ ChangeBackup(p) \/ SyncBackup(p) \/ SyncBoot(p)

Next ==
  \/ \E p \in Procs : FatIoctl(p) \/ FatVol(p) \/ IoctlStep(p)
  \/ WriteBack
  \/ Crash

Spec == Init /\ [][Next]_vars

(* A call that can go on does so; nothing has to be written back. *)
FairSpec == Spec /\ \A p \in Procs : WF_vars(IoctlStep(p))

-----------------------------------------------------------------------------
(* When a program says that it has changed the label, the boot sector on   *)
(* the disk has it, also after a crash, and so has the backup if calls     *)
(* have not overlapped (two that do may leave their labels in one each);   *)
(* unless there was an I/O error, which the ioctl passes over, and until   *)
(* another call changes the boot sector.                                   *)
SuccessIsOnDisk ==
  \A p \in Procs :
    said[p] = "successfully changed label" /\ last = p /\ ~ioerr =>
      /\ disk.boot = p
      /\ fat_bits = 32 /\ ~overlapped => disk.backup = p

(* A call that failed has not touched the boot sector or the backup,       *)
(* though it may have changed the directory.                               *)
FailureLeavesBoot ==
  \A p \in Procs :
    said[p] = "set volume failed" => p \notin {mem.boot, mem.backup, disk.boot, disk.backup}

(* The root directory gets a second label only if two calls overlap, each  *)
(* having found none, or if it could not be read, or if the label was      *)
(* behind a deleted one in the first place, which the search takes for the *)
(* label and the new name brings back.                                     *)
OneLabel == Cardinality(Labels(mem.root)) <= 1 \/ overlapped \/ ioerr \/ shadowed

(* Every call returns, unless fat_build_inode() has failed for one. *)
CallReturns ==
  \A p \in Procs : Active(p) ~> (~Active(p) \/ \E q \in Procs : pc[q] = "oops")
=============================================================================
