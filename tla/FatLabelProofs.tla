--------------------------- MODULE FatLabelProofs ---------------------------
(***************************************************************************)
(* What success and failure of the label ioctl mean for the boot sectors,  *)
(* and that the directory keeps to one label, for every number of          *)
(* processes, directory entries and crashes.                               *)
(*                                                                         *)
(* The boot sector in memory is that of the last call to change it         *)
(* (BufferInv), as only a volume that is writable and clean gets that far, *)
(* and a crash leaves a dirty one.  So whoever syncs the buffer writes the *)
(* label of that call.  The two buffers have no such common owner: for the *)
(* backup the argument needs that at most one call is under way            *)
(* (BackupInv).  So it does for the directory: what a call has found must  *)
(* still be there when it changes an entry or adds one, and no deleted     *)
(* label may come to stand in front of the label (LabelInv).               *)
(***************************************************************************)
EXTENDS FatLabel, FiniteSetTheorems, WellFoundedInduction, TLAPS

Names == Procs \cup {Old}
Volumes == [root : [Slots -> [kind : Kinds, name : Names]], boot : Names, backup : Names]
Ok == "successfully changed label"
Failed == "set volume failed"
InBoot == {"boot", "backup", "sync_backup", "sync"}
Pcs == {"start", "copy", "find", "entry", "state", "boot", "backup", "sync_backup", "sync", "done", "oops"}

(* The values the variables take. *)
FTypeOK ==
  /\ mem \in Volumes /\ disk \in Volumes
  /\ pc \in [Procs -> Pcs]
  /\ said \in [Procs -> {"nothing", Ok, Failed}]
  /\ last \in Procs \cup {None}
  /\ ioerr \in BOOLEAN /\ overlapped \in BOOLEAN /\ dirty \in BOOLEAN /\ rdonly \in BOOLEAN

(* A label is in a boot sector or its buffer only if its call got there. *)
FailureInv ==
  \A p \in Procs :
    p \in {mem.boot, mem.backup, disk.boot, disk.backup} =>
      pc[p] \in {"backup", "sync_backup", "sync", "done"} /\ said[p] # Failed

(* Whose label the buffer of the boot sector has, and the sector itself. *)
BufferInv ==
  /\ \A p \in Procs : pc[p] \in InBoot => ~dirty /\ ~rdonly
  /\ \A p \in Procs : said[p] # "nothing" => pc[p] = "done"
  /\ rdonly => last = None
  /\ last # None /\ ~dirty => mem.boot = last
  /\ dirty => mem.boot = disk.boot
  /\ \A p \in Procs : said[p] = Ok /\ last = p /\ ~ioerr => disk.boot = p

(* The backup, while at most one call is under way. *)
BackupInv ==
  ~overlapped =>
    /\ \A p, q \in Procs : Active(p) /\ Active(q) => p = q
    /\ \A p \in Procs : pc[p] \in InBoot \ {"boot"} => last = p
    /\ fat_bits = 32 /\ ~ioerr => \A p \in Procs :
         /\ pc[p] = "sync_backup" => mem.backup = p
         /\ pc[p] = "sync" => mem.backup = p /\ disk.backup = p
         /\ said[p] = Ok /\ last = p => mem.backup = p /\ disk.backup = p

FInv == FTypeOK /\ FailureInv /\ BufferInv /\ BackupInv

(* Only the buffer of the directory may change from v to w. *)
SameSectors(v, w) == w \in Volumes /\ w.boot = v.boot /\ w.backup = v.backup

(* A step of p that comes before the boot sector is changed. *)
EarlyMove(p, to, message) ==
  /\ pc[p] \in {"start", "copy", "find", "entry", "state"}
  /\ to \notin {"start", "backup", "sync_backup", "sync"}
  /\ to = "boot" => ~dirty /\ ~rdonly
  /\ message # "nothing" => to = "done" /\ message = Failed
  /\ pc' = [pc EXCEPT ![p] = to]
  /\ said' = [said EXCEPT ![p] = message]
  /\ SameSectors(mem, mem')
  /\ ioerr' \in BOOLEAN /\ (ioerr => ioerr')
  /\ overlapped' \in BOOLEAN /\ (overlapped => overlapped')
  /\ pc[p] = "start" /\ ~overlapped' => to = "done" \/ \A q \in Procs : ~Active(q)
  /\ UNCHANGED <<disk, fat_bits, rdonly, dirty, last>>

-----------------------------------------------------------------------------
(* Every volume that is mounted before the first call satisfies FInv. *)
LEMMA FInit == Init => FInv
<1> SUFFICES ASSUME Init PROVE FInv
  OBVIOUS
<1> USE FatLabelAssumption DEF Init
<1>1. FTypeOK
  <2>1. mem \in Volumes
    BY DEF Volumes, Names
  <2>2. dirty \in BOOLEAN /\ rdonly \in BOOLEAN /\ ioerr \in BOOLEAN /\ overlapped \in BOOLEAN
    BY Zenon
  <2> QED
    BY <2>1, <2>2 DEF FTypeOK, Pcs
<1>2. FailureInv
  BY DEF FailureInv
<1>3. BufferInv
  BY DEF BufferInv, InBoot, Ok
<1>4. BackupInv
  BY DEF BackupInv, InBoot, Active, Ok
<1> QED
  BY <1>1, <1>2, <1>3, <1>4 DEF FInv

(* The steps of main() and of the ioctl before it changes the boot sector  *)
(* preserve FInv.                                                          *)
LEMMA EarlyMoves ==
  ASSUME FInv, NEW p \in Procs, NEW to \in Pcs, NEW message \in {"nothing", Ok, Failed},
         EarlyMove(p, to, message)
  PROVE  FInv'
<1> USE DEF EarlyMove
<1>1. /\ \A q \in Procs : pc'[q] = IF q = p THEN to ELSE pc[q]
      /\ \A q \in Procs : said'[q] = IF q = p THEN message ELSE said[q]
      /\ mem'.boot = mem.boot /\ mem'.backup = mem.backup
      /\ message # Ok
  BY DEF FInv, FTypeOK, SameSectors, Ok, Failed
<1>2. FTypeOK'
  BY DEF FInv, FTypeOK, SameSectors
<1>3. FailureInv'
  BY <1>1 DEF FInv, FailureInv
<1>4. BufferInv'
  BY <1>1 DEF FInv, BufferInv, FailureInv, InBoot
<1>5. BackupInv'
  BY <1>1 DEF FInv, FTypeOK, BackupInv, InBoot, Active
<1> QED
  BY <1>2, <1>3, <1>4, <1>5 DEF FInv

(* Every step of a program, of the ioctl or of the system preserves FInv. *)
LEMMA FNext == FInv /\ [Next]_vars => FInv'
<1> SUFFICES ASSUME FInv, [Next]_vars PROVE FInv'
  OBVIOUS
<1>0. /\ mem \in Volumes /\ SameSectors(mem, mem)
      /\ \A p \in Procs : pc[p] # "done" => said[p] = "nothing" /\ said = [said EXCEPT ![p] = "nothing"]
  BY DEF FInv, FTypeOK, BufferInv, SameSectors
<1> USE <1>0 DEF Goto, Return, volVars, history
<1>1. ASSUME NEW p \in Procs, Call(p) PROVE FInv'
  <2>1. EarlyMove(p, "copy", "nothing")
    BY <1>1 DEF Call, EarlyMove, FInv, FTypeOK
  <2> QED
    BY <2>1, EarlyMoves DEF Pcs
<1>2. ASSUME NEW p \in Procs, FatIoctl(p) \/ FatVol(p) PROVE FInv'
  <2>1. CASE Call(p)
    BY <1>1, <2>1
  <2>2. ASSUME NEW message \in {"nothing", Failed}, Return(p, "start", message),
               UNCHANGED <<mem, disk, volVars, dirty, s_lock, slot, ioerr, last, history>>
        PROVE  FInv'
    <3>1. EarlyMove(p, "done", message)
      BY <2>2 DEF EarlyMove, FInv, FTypeOK
    <3> QED
      BY <3>1, EarlyMoves DEF Pcs
  <2> QED
    BY <1>2, <2>1, <2>2 DEF FatIoctl, FatVol, Failed
<1>3. ASSUME NEW p \in Procs, CopyFromUser(p) PROVE FInv'
  <2>1. EarlyMove(p, "find", "nothing") \/ EarlyMove(p, "done", Failed)
    BY <1>3 DEF CopyFromUser, EarlyMove, FInv, FTypeOK, Failed
  <2> QED
    BY <2>1, EarlyMoves DEF Pcs
<1>4. ASSUME NEW p \in Procs, FindVolumeLabel(p) PROVE FInv'
  <2>1. EarlyMove(p, "entry", "nothing")
    BY <1>4 DEF FindVolumeLabel, EarlyMove, FInv, FTypeOK
  <2> QED
    BY <2>1, EarlyMoves DEF Pcs
<1>5. ASSUME NEW p \in Procs, RenameEntry(p) PROVE FInv'
  <2>1. SameSectors(mem, mem')
    BY <1>5 DEF RenameEntry, SameSectors, Volumes, Names, Kinds
  <2>2. EarlyMove(p, "state", "nothing") \/ EarlyMove(p, "oops", "nothing")
    BY <1>5, <2>1 DEF RenameEntry, EarlyMove, FInv, FTypeOK
  <2> QED
    BY <2>2, EarlyMoves DEF Pcs
<1>6. ASSUME NEW p \in Procs, AddEntry(p) PROVE FInv'
  <2>1. SameSectors(mem, mem')
    <3>1. ASSUME NEW k, mem' = [mem EXCEPT !.root[k] = [kind |-> "label", name |-> p]]
          PROVE  SameSectors(mem, mem')
      BY <3>1 DEF SameSectors, Volumes, Names, Kinds
    <3> QED
      BY <1>6, <3>1 DEF AddEntry
  <2>2. EarlyMove(p, "state", "nothing") \/ EarlyMove(p, "done", Failed)
    BY <1>6, <2>1 DEF AddEntry, EarlyMove, FInv, FTypeOK, Failed
  <2> QED
    BY <2>2, EarlyMoves DEF Pcs
<1>7. ASSUME NEW p \in Procs, CheckState(p) PROVE FInv'
  <2>1. EarlyMove(p, "boot", "nothing") \/ EarlyMove(p, "done", Failed)
    BY <1>7 DEF CheckState, EarlyMove, FInv, FTypeOK, Failed
  <2> QED
    BY <2>1, EarlyMoves DEF Pcs
<1>8. ASSUME NEW p \in Procs, ChangeBoot(p) PROVE FInv'
  <2>1. /\ mem' \in Volumes /\ mem'.boot = p /\ mem'.backup = mem.backup
        /\ pc' \in [Procs -> Pcs] /\ ioerr' \in BOOLEAN /\ (ioerr => ioerr')
        /\ \A q \in Procs : q # p => pc'[q] = pc[q]
        /\ pc[p] = "boot"
        /\ pc'[p] \in {"backup", "sync"}
        /\ pc'[p] = "sync" => ioerr' \/ fat_bits = 16
        /\ UNCHANGED <<disk, said, fat_bits, rdonly, dirty, overlapped>>
        /\ last' = p
    BY <1>8 DEF ChangeBoot, Names, FInv, FTypeOK, Volumes, Pcs, Ok
  <2>2. FTypeOK'
    BY <2>1 DEF FInv, FTypeOK
  <2>3. FailureInv'
    BY <2>1 DEF FInv, FailureInv, BufferInv, Ok, Failed
  <2>4. BufferInv'
    <3>1. ~dirty /\ ~rdonly /\ said[p] = "nothing"
      BY <2>1 DEF FInv, BufferInv, InBoot
    <3>2. \A q \in Procs : pc'[q] \in InBoot => ~dirty /\ ~rdonly
      BY <3>1
    <3>3. \A q \in Procs : said[q] # "nothing" => pc'[q] = "done"
      BY <2>1, <3>1 DEF FInv, BufferInv
    <3>4. \A q \in Procs : ~(said[q] = Ok /\ last' = q)
      BY <2>1, <3>1 DEF Ok
    <3> QED
      BY <2>1, <3>1, <3>2, <3>3, <3>4 DEF BufferInv
  <2>5. BackupInv'
    <3> SUFFICES ASSUME ~overlapped PROVE BackupInv'
      BY <2>1 DEF BackupInv
    <3>1. \A q \in Procs : q # p => ~Active(q)
      BY <2>1 DEF FInv, BackupInv, Active
    <3>2. \A q \in Procs : Active(q)' => q = p
      BY <2>1, <3>1 DEF Active
    <3>3. \A q \in Procs : pc'[q] \in InBoot \ {"boot"} => last' = q
      BY <2>1, <3>2 DEF FInv, BackupInv, InBoot, Active
    <3>4. ASSUME fat_bits = 32, ~ioerr', NEW q \in Procs
          PROVE  /\ pc'[q] = "sync_backup" => mem'.backup = q
                 /\ pc'[q] = "sync" => mem'.backup = q /\ disk'.backup = q
                 /\ said'[q] = Ok /\ last' = q => mem'.backup = q /\ disk'.backup = q
      <4>1. said[p] = "nothing"
        BY <2>1
      <4>2. pc'[q] # "sync_backup"
        BY <2>1, <3>2 DEF Active
      <4>3. pc'[q] # "sync"
        BY <2>1, <3>2, <3>4 DEF Active
      <4> QED
        BY <2>1, <4>1, <4>2, <4>3 DEF Ok
    <3> QED
      BY <2>1, <3>2, <3>3, <3>4 DEF BackupInv
  <2> QED
    BY <2>2, <2>3, <2>4, <2>5 DEF FInv
<1>9. ASSUME NEW p \in Procs, ChangeBackup(p) PROVE FInv'
  <2>1. /\ mem' \in Volumes /\ mem'.boot = mem.boot /\ mem'.backup = p
        /\ pc' \in [Procs -> Pcs]
        /\ \A q \in Procs : pc'[q] = IF q = p THEN "sync_backup" ELSE pc[q]
        /\ pc[p] = "backup"
        /\ UNCHANGED <<disk, said, ioerr, last, fat_bits, rdonly, dirty, overlapped>>
    BY <1>9 DEF ChangeBackup, Names, FInv, FTypeOK, Volumes, Pcs, Ok
  <2>2. FTypeOK'
    BY <2>1 DEF FInv, FTypeOK
  <2>3. FailureInv'
    BY <2>1 DEF FInv, FailureInv, BufferInv, Ok, Failed
  <2>4. BufferInv'
    BY <2>1 DEF FInv, BufferInv, InBoot, Ok
  <2>5. BackupInv'
    <3> SUFFICES ASSUME ~overlapped PROVE BackupInv'
      BY <2>1 DEF BackupInv
    <3>1. \A q \in Procs : q # p => ~Active(q)
      BY <2>1 DEF FInv, BackupInv, Active
    <3>2. \A q \in Procs : Active(q)' => q = p
      BY <2>1, <3>1 DEF Active
    <3>3. \A q \in Procs : pc'[q] \in InBoot \ {"boot"} => last' = q
      BY <2>1, <3>2 DEF FInv, BackupInv, InBoot, Active
    <3>4. ASSUME fat_bits = 32, ~ioerr', NEW q \in Procs
          PROVE  /\ pc'[q] = "sync_backup" => mem'.backup = q
                 /\ pc'[q] = "sync" => mem'.backup = q /\ disk'.backup = q
                 /\ said'[q] = Ok /\ last' = q => mem'.backup = q /\ disk'.backup = q
      <4>1. ~ioerr
        BY <2>1, <3>4
      <4>2. CASE q = p
        BY <2>1, <3>4, <4>1, <4>2 DEF FInv, BackupInv, Ok
      <4>3. CASE q # p
        BY <2>1, <3>2, <3>3, <3>4, <4>1, <4>3 DEF FInv, BackupInv, InBoot, Active, Ok
      <4> QED
        BY <4>2, <4>3
    <3> QED
      BY <2>1, <3>2, <3>3, <3>4 DEF BackupInv
  <2> QED
    BY <2>2, <2>3, <2>4, <2>5 DEF FInv
<1>10. ASSUME NEW p \in Procs, SyncBackup(p) PROVE FInv'
  <2>1. /\ disk' \in Volumes /\ disk'.boot = disk.boot
        /\ \/ disk'.backup = mem.backup
           \/ disk'.backup = disk.backup /\ ioerr'
        /\ ioerr' \in BOOLEAN /\ (ioerr => ioerr')
        /\ pc' \in [Procs -> Pcs]
        /\ \A q \in Procs : pc'[q] = IF q = p THEN "sync" ELSE pc[q]
        /\ pc[p] = "sync_backup"
        /\ UNCHANGED <<mem, said, last, fat_bits, rdonly, dirty, overlapped>>
    BY <1>10 DEF SyncBackup, SyncDirtyBuffer, FInv, FTypeOK, Volumes, Pcs, Ok
  <2>2. FTypeOK'
    BY <2>1 DEF FInv, FTypeOK
  <2>3. FailureInv'
    BY <2>1 DEF FInv, FailureInv, BufferInv, Ok, Failed
  <2>4. BufferInv'
    BY <2>1 DEF FInv, BufferInv, InBoot, Ok
  <2>5. BackupInv'
    <3> SUFFICES ASSUME ~overlapped PROVE BackupInv'
      BY <2>1 DEF BackupInv
    <3>1. \A q \in Procs : q # p => ~Active(q)
      BY <2>1 DEF FInv, BackupInv, Active
    <3>2. \A q \in Procs : Active(q)' => q = p
      BY <2>1, <3>1 DEF Active
    <3>3. \A q \in Procs : pc'[q] \in InBoot \ {"boot"} => last' = q
      BY <2>1, <3>2 DEF FInv, BackupInv, InBoot, Active
    <3>4. ASSUME fat_bits = 32, ~ioerr', NEW q \in Procs
          PROVE  /\ pc'[q] = "sync_backup" => mem'.backup = q
                 /\ pc'[q] = "sync" => mem'.backup = q /\ disk'.backup = q
                 /\ said'[q] = Ok /\ last' = q => mem'.backup = q /\ disk'.backup = q
      <4>1. ~ioerr
        BY <2>1, <3>4
      <4>2. CASE q = p
        BY <2>1, <3>4, <4>1, <4>2 DEF FInv, BackupInv, Ok
      <4>3. CASE q # p
        BY <2>1, <3>2, <3>3, <3>4, <4>1, <4>3 DEF FInv, BackupInv, InBoot, Active, Ok
      <4> QED
        BY <4>2, <4>3
    <3> QED
      BY <2>1, <3>2, <3>3, <3>4 DEF BackupInv
  <2> QED
    BY <2>2, <2>3, <2>4, <2>5 DEF FInv
<1>11. ASSUME NEW p \in Procs, SyncBoot(p) PROVE FInv'
  <2>1. /\ disk' \in Volumes /\ disk'.backup = disk.backup
        /\ \/ disk'.boot = mem.boot
           \/ disk'.boot = disk.boot /\ ioerr'
        /\ ioerr' \in BOOLEAN /\ (ioerr => ioerr')
        /\ pc' \in [Procs -> Pcs]
        /\ \A q \in Procs : pc'[q] = IF q = p THEN "done" ELSE pc[q]
        /\ pc[p] = "sync"
        /\ said' \in [Procs -> {"nothing", Ok, Failed}]
        /\ \A q \in Procs : said'[q] = IF q = p THEN Ok ELSE said[q]
        /\ UNCHANGED <<mem, last, fat_bits, rdonly, dirty, overlapped>>
    BY <1>11 DEF SyncBoot, SyncDirtyBuffer, FInv, FTypeOK, Volumes, Pcs, Ok
  <2>2. FTypeOK'
    BY <2>1 DEF FInv, FTypeOK
  <2>3. FailureInv'
    BY <2>1 DEF FInv, FailureInv, BufferInv, Ok, Failed
  <2>4. BufferInv'
    <3>1. ~dirty
      BY <2>1 DEF FInv, BufferInv, InBoot
    <3>2. ASSUME NEW q \in Procs, last = q, said'[q] = Ok, ~ioerr' PROVE disk'.boot = q
      BY <2>1, <3>1, <3>2, FatLabelAssumption DEF FInv, BufferInv
    <3>3. \A q \in Procs : pc'[q] \in InBoot => pc[q] \in InBoot
      BY <2>1 DEF InBoot
    <3>4. \A q \in Procs : said'[q] # "nothing" => pc'[q] = "done"
      BY <2>1 DEF FInv, BufferInv
    <3> QED
      BY <2>1, <3>2, <3>3, <3>4 DEF FInv, BufferInv
  <2>5. BackupInv'
    <3> SUFFICES ASSUME ~overlapped PROVE BackupInv'
      BY <2>1 DEF BackupInv
    <3>1. \A q \in Procs : q # p => ~Active(q)
      BY <2>1 DEF FInv, BackupInv, Active
    <3>2. \A q \in Procs : Active(q)' => q = p
      BY <2>1, <3>1 DEF Active
    <3>3. \A q \in Procs : pc'[q] \in InBoot \ {"boot"} => last' = q
      BY <2>1, <3>2 DEF FInv, BackupInv, InBoot, Active
    <3>4. ASSUME fat_bits = 32, ~ioerr', NEW q \in Procs
          PROVE  /\ pc'[q] = "sync_backup" => mem'.backup = q
                 /\ pc'[q] = "sync" => mem'.backup = q /\ disk'.backup = q
                 /\ said'[q] = Ok /\ last' = q => mem'.backup = q /\ disk'.backup = q
      <4>1. ~ioerr /\ pc'[q] \notin {"sync_backup", "sync"}
        BY <2>1, <3>2, <3>4 DEF Active
      <4>2. CASE q = p
        BY <2>1, <3>4, <4>1, <4>2 DEF FInv, BackupInv
      <4>3. CASE q # p
        BY <2>1, <3>4, <4>1, <4>3 DEF FInv, BackupInv
      <4> QED
        BY <4>2, <4>3
    <3> QED
      BY <2>1, <3>2, <3>3, <3>4 DEF BackupInv
  <2> QED
    BY <2>2, <2>3, <2>4, <2>5 DEF FInv
<1>12. CASE WriteBack
  <2>1. /\ disk' \in Volumes
        /\ disk'.boot \in {disk.boot, mem.boot} /\ disk'.backup \in {disk.backup, mem.backup}
        /\ UNCHANGED <<mem, pc, said, last, ioerr, fat_bits, rdonly, dirty, overlapped>>
    BY <1>12 DEF WriteBack, FInv, FTypeOK, Volumes
  <2>2. FTypeOK'
    BY <2>1 DEF FInv, FTypeOK
  <2>3. FailureInv'
    BY <2>1 DEF FInv, FailureInv
  <2>4. BufferInv'
    <3>1. dirty => disk'.boot = disk.boot
      BY <2>1 DEF FInv, BufferInv
    <3>2. ASSUME NEW q \in Procs, said[q] = Ok, last = q, ~ioerr PROVE disk'.boot = q
      BY <2>1, <3>1, <3>2, FatLabelAssumption DEF FInv, BufferInv
    <3> QED
      BY <2>1, <3>1, <3>2 DEF FInv, BufferInv
  <2>5. BackupInv'
    BY <2>1 DEF FInv, BackupInv, Active
  <2> QED
    BY <2>2, <2>3, <2>4, <2>5 DEF FInv
<1>13. CASE Crash
  <2>1. \A p \in Procs :
          pc'[p] \in {"start", "done"} /\ (pc[p] \in {"start", "done"} => pc'[p] = pc[p])
                                     /\ (pc[p] # "start" => pc'[p] = "done")
    BY <1>13 DEF Crash, Active
  <2>2. FTypeOK'
    BY <1>13, <2>1 DEF Crash, FInv, FTypeOK, Pcs
  <2>3. FailureInv' /\ BufferInv'
    BY <1>13, <2>1 DEF Crash, FInv, FTypeOK, FailureInv, BufferInv, InBoot
  <2>4. BackupInv'
    BY <1>13, <2>1 DEF Crash, FInv, BackupInv, Active, InBoot
  <2> QED
    BY <2>2, <2>3, <2>4 DEF FInv
<1>14. CASE UNCHANGED vars
  BY <1>14 DEF vars, FInv, FTypeOK, FailureInv, BufferInv, BackupInv, Active
<1> QED
  BY <1>2, <1>3, <1>4, <1>5, <1>6, <1>7, <1>8, <1>9, <1>10, <1>11, <1>12, <1>13, <1>14
     DEF Next, IoctlStep

(* FInv is an invariant of the ioctl and its callers. *)
LEMMA FInvariant == Spec => []FInv
BY FInit, FNext, PTL DEF Spec

(* A call for which the program prints "successfully changed label" has    *)
(* its label in the boot sector on the disk, and in the backup if calls    *)
(* have not overlapped, after every crash too.                             *)
THEOREM SuccessSurvives == Spec => []SuccessIsOnDisk
<1>1. FInv => SuccessIsOnDisk
  BY DEF FInv, BufferInv, BackupInv, SuccessIsOnDisk, Ok
<1> QED
  BY <1>1, FInvariant, PTL

(* A call for which the program prints "set volume failed" has left the    *)
(* boot sector and the backup alone, in memory and on the disk.            *)
THEOREM FailureIsClean == Spec => []FailureLeavesBoot
<1>1. FInv => FailureLeavesBoot
  BY DEF FInv, FailureInv, FailureLeavesBoot, Failed
<1> QED
  BY <1>1, FInvariant, PTL

-----------------------------------------------------------------------------
(* No two entries of the directory are labels. *)
AtMostOne(root) == \A j, k \in Labels(root) : j = k

(* A directory in which a search finds the label if there is one, or a     *)
(* slot of a long name, and not a deleted label in front of it.            *)
Sound(root) == AtMostOne(root) /\ ~Shadows(root)

(* The directory, while at most one call is under way and no I/O error has *)
(* been passed over: it is sound if it was so at first, and a call that    *)
(* has searched it is right about what there is.                           *)
LabelInv ==
  /\ slot \in [Procs -> Nat]
  /\ ~overlapped /\ ~ioerr /\ ~shadowed =>
       /\ Sound(mem.root)
       /\ Sound(disk.root)
       /\ \A p \in Procs : pc[p] = "entry" => slot[p] = Found

(* A step after which the directory is what it was, in memory and, unless  *)
(* it is written back, on the disk, and no call has just looked for the    *)
(* label.                                                                  *)
DirectoryKept ==
  /\ mem'.root = mem.root /\ disk'.root \in {disk.root, mem.root} /\ slot' = slot
  /\ shadowed' = shadowed
  /\ overlapped => overlapped'
  /\ ioerr => ioerr'
  /\ \A p \in Procs : pc'[p] = "entry" => pc[p] = "entry"

(* Counting the labels of a directory comes to comparing them: its entries *)
(* are finitely many.                                                      *)
LEMMA LabelCount ==
  ASSUME NEW root
  PROVE  Cardinality(Labels(root)) <= 1 <=> AtMostOne(root)
<1> DEFINE S == Labels(root)
<1>1. IsFiniteSet(S)
  <2>1. IsFiniteSet(Slots)
    BY FatLabelAssumption, FS_Interval DEF Slots
  <2>2. S \in SUBSET Slots
    BY DEF Labels
  <2> QED
    BY <2>1, <2>2, FS_Subset
<1>2. Cardinality(S) \in Nat
  BY <1>1, FS_CardinalityType
<1>3. Cardinality(S) <= 1 <=> Cardinality(S) = 0 \/ Cardinality(S) = 1
  BY <1>2
<1>4. Cardinality(S) <= 1 <=> S = {} \/ \E k : S = {k}
  BY <1>1, <1>3, FS_EmptySet, FS_Singleton
<1> QED
  BY <1>4 DEF AtMostOne

(* The first entry of a kind is one of that kind. *)
LEMMA FirstOf ==
  ASSUME NEW S, S \subseteq Slots, S # {}
  PROVE  First(S) \in S
<1>1. Slots \subseteq Nat
  BY FatLabelAssumption DEF Slots
<1> DEFINE R == OpToRel(<, Nat)
<1>2. IsWellFoundedOn(R, Nat)
  BY NatLessThanWellFounded
<1>3. ASSUME NEW x \in Nat, NEW y \in Nat, y < x PROVE <<y, x>> \in R
  BY <1>3, Zenon DEF OpToRel
<1> HIDE DEF R
<1>4. PICK x \in S : \A y \in S : ~(<<y, x>> \in R)
  BY <1>1, <1>2, WFMin
<1>5. ASSUME NEW y \in S PROVE x <= y
  <2>1. x \in Nat /\ y \in Nat
    BY <1>1
  <2>2. ~(y < x)
    BY <1>3, <1>4, <2>1
  <2> QED
    BY <2>1, <2>2
<1> QED
  BY <1>5 DEF First

(* The new name of the entry found leaves a sound directory sound: when a  *)
(* deleted label is brought back there is no other.                        *)
LEMMA RenameSound ==
  ASSUME mem \in Volumes, Sound(mem.root), Found # 0, NEW n,
         mem' = [mem EXCEPT !.root[Found] =
                   [kind |-> IF @.kind \in {"long", "deleted_long"} THEN "long" ELSE "label",
                    name |-> n]]
  PROVE  Sound(mem'.root)
<1> DEFINE A == AttrVolume(mem.root)
<1>1. A # {} /\ Found = First(A)
  BY DEF Found
<1>2. Found \in A /\ Found \in Slots
  BY <1>1, FirstOf DEF AttrVolume
<1>3. /\ \A k \in Slots : k # Found => mem'.root[k] = mem.root[k]
      /\ mem'.root[Found].kind =
           IF mem.root[Found].kind \in {"long", "deleted_long"} THEN "long" ELSE "label"
  BY <1>2 DEF Volumes
<1> HIDE DEF A
<1>4. AttrVolume(mem'.root) = A
  BY <1>2, <1>3 DEF A, AttrVolume
<1>5. ~Shadows(mem'.root)
  BY <1>1, <1>3, <1>4 DEF Shadows
<1>6. AtMostOne(mem'.root)
  <2>1. CASE mem.root[Found].kind = "deleted_label"
    <3>1. Labels(mem.root) = {}
      BY <1>1, <2>1 DEF Sound, Shadows, A
    <3>2. Labels(mem'.root) \subseteq {Found}
      BY <1>3, <3>1 DEF Labels
    <3> QED
      BY <3>2 DEF AtMostOne
  <2>2. CASE mem.root[Found].kind # "deleted_label"
    <3>1. Labels(mem'.root) \subseteq Labels(mem.root)
      BY <1>2, <1>3, <2>2 DEF A, AttrVolume, Labels
    <3> QED
      BY <3>1 DEF Sound, AtMostOne
  <2> QED
    BY <2>1, <2>2
<1> QED
  BY <1>5, <1>6 DEF Sound

(* A label that is added where a search has found nothing is the only one, *)
(* and there is no deleted one in front of it.                             *)
LEMMA AddSound ==
  ASSUME mem \in Volumes, Sound(mem.root), Found = 0, NEW n,
         \/ mem' = mem
         \/ /\ IsFree(mem.root) # {}
            /\ mem' = [mem EXCEPT !.root[First(IsFree(mem.root))] = [kind |-> "label", name |-> n]]
  PROVE  Sound(mem'.root)
<1>1. AttrVolume(mem.root) = {}
  <2>1. AttrVolume(mem.root) # {} => Found \in Slots
    BY FirstOf DEF Found, AttrVolume
  <2> QED
    BY <2>1, FatLabelAssumption DEF Slots
<1>2. CASE mem' = mem
  BY <1>2
<1>3. CASE mem' # mem
  <2> DEFINE k == First(IsFree(mem.root))
  <2>1. k \in Slots
    BY <1>3, FirstOf DEF IsFree
  <2>2. /\ \A j \in Slots : j # k => mem'.root[j] = mem.root[j]
        /\ mem'.root[k].kind = "label"
    BY <1>3, <2>1 DEF Volumes
  <2> HIDE DEF k
  <2>3. AttrVolume(mem'.root) = {k}
    BY <1>1, <2>1, <2>2 DEF AttrVolume
  <2>4. Labels(mem'.root) \subseteq {k}
    BY <2>3 DEF AttrVolume, Labels
  <2>5. First({k}) = k
    BY <2>1, FirstOf
  <2>6. ~Shadows(mem'.root)
    BY <2>2, <2>3, <2>5 DEF Shadows
  <2> QED
    BY <2>4, <2>6 DEF Sound, AtMostOne
<1> QED
  BY <1>2, <1>3

(* What leaves the directory alone preserves LabelInv. *)
LEMMA LabelKept == LabelInv /\ DirectoryKept => LabelInv'
BY DEF LabelInv, DirectoryKept, Found

(* Neither the search for the label nor the change of an entry disturbs    *)
(* LabelInv, nor does anything that happens later or to the whole system.  *)
LEMMA LabelNext == FInv /\ LabelInv /\ [Next]_vars => LabelInv'
<1> SUFFICES ASSUME FInv, LabelInv, [Next]_vars PROVE LabelInv'
  OBVIOUS
<1>0. mem \in Volumes /\ disk \in Volumes /\ pc \in [Procs -> Pcs] /\ slot \in [Procs -> Nat]
  BY DEF FInv, FTypeOK, LabelInv
<1> USE DEF Goto, Return, volVars, history
<1>1. ASSUME NEW p \in Procs, FatIoctl(p) \/ FatVol(p) \/ CopyFromUser(p) \/ CheckState(p)
      PROVE  LabelInv'
  <2>1. /\ mem' = mem /\ disk' = disk /\ slot' = slot /\ ioerr' = ioerr /\ shadowed' = shadowed
        /\ \A q \in Procs : pc'[q] = "entry" => pc[q] = "entry"
    BY <1>0, <1>1 DEF FatIoctl, FatVol, Call, CopyFromUser, CheckState
  <2>2. overlapped => overlapped'
    BY <1>1, Zenon DEF FatIoctl, FatVol, Call, CopyFromUser, CheckState
  <2>3. DirectoryKept
    BY <2>1, <2>2 DEF DirectoryKept
  <2> QED
    BY <2>3, LabelKept
<1>2. ASSUME NEW p \in Procs, FindVolumeLabel(p) PROVE LabelInv'
  <2>1. /\ mem' = mem /\ disk' = disk /\ overlapped' = overlapped /\ shadowed' = shadowed
        /\ \A q \in Procs : q # p => pc'[q] = pc[q] /\ slot'[q] = slot[q]
    BY <1>0, <1>2 DEF FindVolumeLabel
  <2>2. Found \in Nat
    BY FirstOf, FatLabelAssumption DEF Found, AttrVolume, Slots
  <2>3. slot' \in [Procs -> Nat]
    BY <1>0, <1>2, <2>2 DEF FindVolumeLabel
  <2>4. ~ioerr' => ~ioerr /\ slot'[p] = Found
    BY <1>0, <1>2 DEF FindVolumeLabel
  <2>5. Found' = Found
    BY <2>1 DEF Found
  <2> QED
    BY <2>1, <2>3, <2>4, <2>5 DEF LabelInv
<1>3. ASSUME NEW p \in Procs, RenameEntry(p) \/ AddEntry(p) PROVE LabelInv'
  <2>1. /\ disk' = disk /\ slot' = slot /\ ioerr' = ioerr
        /\ overlapped' = overlapped /\ shadowed' = shadowed
        /\ pc[p] = "entry" /\ pc'[p] # "entry" /\ \A q \in Procs : q # p => pc'[q] = pc[q]
    BY <1>0, <1>3 DEF RenameEntry, AddEntry
  <2>2. ~overlapped => \A q \in Procs : pc'[q] # "entry"
    BY <2>1 DEF FInv, BackupInv, Active
  <2>3. ASSUME Sound(mem.root), slot[p] = Found PROVE Sound(mem'.root)
    <3>1. CASE RenameEntry(p)
      BY <1>0, <2>3, <3>1, RenameSound DEF RenameEntry
    <3>2. CASE AddEntry(p)
      BY <1>0, <2>3, <3>2, AddSound DEF AddEntry
    <3> QED
      BY <1>3, <3>1, <3>2
  <2> QED
    BY <2>1, <2>2, <2>3 DEF LabelInv
<1>4. ASSUME NEW p \in Procs, ChangeBoot(p) \/ ChangeBackup(p) PROVE LabelInv'
  <2>1. DirectoryKept
    BY <1>0, <1>4 DEF ChangeBoot, ChangeBackup, DirectoryKept, Volumes
  <2> QED
    BY <2>1, LabelKept
<1>5. ASSUME NEW p \in Procs, SyncBackup(p) \/ SyncBoot(p) PROVE LabelInv'
  <2>1. DirectoryKept
    <3>1. mem' = mem /\ slot' = slot /\ overlapped' = overlapped /\ shadowed' = shadowed
      BY <1>5 DEF SyncBackup, SyncBoot
    <3>2. disk'.root = disk.root
      BY <1>0, <1>5 DEF SyncBackup, SyncBoot, SyncDirtyBuffer, Volumes
    <3>3. ioerr => ioerr'
      BY <1>5 DEF SyncBackup, SyncBoot, SyncDirtyBuffer
    <3>4. \A q \in Procs : pc'[q] = "entry" => pc[q] = "entry"
      BY <1>0, <1>5 DEF SyncBackup, SyncBoot
    <3> QED
      BY <3>1, <3>2, <3>3, <3>4 DEF DirectoryKept
  <2> QED
    BY <2>1, LabelKept
<1>6. CASE WriteBack
  <2>1. DirectoryKept
    BY <1>0, <1>6 DEF WriteBack, DirectoryKept, Volumes
  <2> QED
    BY <2>1, LabelKept
<1>7. CASE Crash
  <2>1. /\ mem' = disk /\ disk' = disk /\ slot' = slot /\ ioerr' = ioerr
        /\ overlapped' = overlapped /\ shadowed' = shadowed
        /\ \A p \in Procs : pc'[p] # "entry"
    BY <1>0, <1>7 DEF Crash, Active
  <2> QED
    BY <2>1 DEF LabelInv
<1>8. CASE UNCHANGED vars
  <2>1. DirectoryKept
    BY <1>8 DEF vars, DirectoryKept
  <2> QED
    BY <2>1, LabelKept
<1> QED
  BY <1>1, <1>2, <1>3, <1>4, <1>5, <1>6, <1>7, <1>8 DEF Next, IoctlStep

(* The root directory never has two labels, unless two calls overlapped or *)
(* the directory could not be read, when a call may add a label without    *)
(* knowing of the one that is there, or a deleted label stood in front of  *)
(* the label when the volume was mounted, which a call may bring back.     *)
THEOREM LabelsStayUnique == Spec => []OneLabel
<1>1. Init => LabelInv
  BY LabelCount, FatLabelAssumption DEF Init, LabelInv, Sound
<1>2. LabelInv => OneLabel
  BY LabelCount DEF LabelInv, Sound, OneLabel
<1> QED
  BY <1>1, <1>2, FInvariant, LabelNext, PTL DEF Spec
=============================================================================
