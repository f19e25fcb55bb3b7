------------------------------ MODULE SdInstall ------------------------------
(***************************************************************************)
(* Installing the root file system on the SD card (initdir/sbin/sdinstall) *)
(* and choosing the root at boot (initdir/init, then etc/init.d/rcS, which *)
(* mounts what etc/fstab names). Power may be lost between any two steps.  *)
(*                                                                         *)
(* What the running system sees is cache; disk is what is on the card.     *)
(* Written files reach the card in any order and in part (ext2 orders      *)
(* nothing), all of them at sync and umount. mkfs writes the partition     *)
(* itself: on the card when it ends, in part while it runs.                *)
(***************************************************************************)
EXTENDS Naturals, Sequences, SequencesExt

CONSTANTS
  MaxLosses,  \* bound: losses of power while the board runs
  MaxFaults   \* bound: steps of sdinstall that fail

ASSUME BoundAssumption == MaxLosses \in Nat /\ MaxFaults \in Nat

\* Mutant: sbin first.
CopyOrderSwapped == <<"sbin", "bin", "etc", "dev", "links", "fstab">>

\* What sdinstall puts on the root partition, in its order. lib and usr go with etc,
\* /init and the mount points with dev; links are the names of the applets in bin and
\* those in sbin, where init is replaced by a link of the same content.
CopyOrder == <<"bin", "sbin", "etc", "dev", "links", "fstab">>

Items == ToSet(CopyOrder)

\* Mutant: no copy is checked.
NoneChecked == {}

\* The copies whose failure ends sdinstall.
Checked == {"bin", "sbin", "etc"}

Tables == [Items -> {"no", "part", "whole"}]

Cards == [root : {"none", "mkfs", "ext2"}, data : BOOLEAN, file : Tables]

VARIABLES
  pc,      \* what runs: a step of init or of sdinstall, the shell, or nothing
  root,    \* the root the shell runs on
  probed,  \* the MMC core has found the card
  tries,   \* n of init, gone when it execs
  mounts,  \* where the card is mounted: "root" for / and /mnt/root, "sd" for /mnt/sd
  said,    \* the last run of sdinstall: none yet, begun, or ended with "done"
  failed,  \* the steps of that run that failed, noticed or not
  cache, disk,
  botched, \* mkfs.ext2 or the writing out failed, and mkfs.ext2 was not repeated
  losses, faults

vars == <<pc, root, probed, tries, mounts, said, failed, cache, disk, botched, losses, faults>>

Formatting == {"partition", "mkfs_root", "mkfs_data", "mount_root"}

TypeOK ==
  /\ pc \in Formatting \cup Items
           \cup {"sync", "off", "mount", "test", "rcS", "shell", "panic"}
  /\ failed \subseteq Formatting \cup Items \cup {"sync", "umount"}
  /\ root \in {"initramfs", "sd"}
  /\ probed \in BOOLEAN /\ tries \in 0 .. 5
  /\ mounts \subseteq {"root", "sd"} /\ said \in {"nothing", "begun", "done"}
  /\ cache \in Cards /\ disk \in Cards /\ botched \in BOOLEAN
  /\ losses \in 0 .. MaxLosses /\ faults \in 0 .. MaxFaults

\* A blank card, or one that was installed before.
Init ==
  /\ pc = "off" /\ root = "initramfs" /\ probed = FALSE /\ tries = 0
  /\ mounts = {} /\ said = "nothing" /\ failed = {} /\ botched = FALSE /\ losses = 0 /\ faults = 0
  /\ disk \in {[root |-> "none", data |-> FALSE, file |-> [i \in Items |-> "no"]],
               [root |-> "ext2", data |-> TRUE, file |-> [i \in Items |-> "whole"]]}
  /\ cache = disk

-----------------------------------------------------------------------------
(* init                                                                     *)

\* Mutant: sdroot=off is not looked at.
AfterKnobIgnored(k) == "mount"

AfterKnob(k) == IF k = "off" THEN "rcS" ELSE "mount"

\* k is the sdroot= of the command line.
Boot(k) ==
  /\ pc = "off"
  /\ pc' = AfterKnob(k)
  /\ root' = "initramfs" /\ tries' = 0
  /\ UNCHANGED <<probed, mounts, said, failed, cache, disk, botched, losses, faults>>

\* The card is found some time after the start, or never.
Probe ==
  /\ pc # "off" /\ ~probed
  /\ probed' = TRUE
  /\ UNCHANGED <<pc, root, tries, mounts, said, failed, cache, disk, botched, losses, faults>>

Mountable == probed /\ cache.root = "ext2"

InitMount ==
  /\ pc = "mount" /\ Mountable
  /\ mounts' = {"root"} /\ pc' = "test"
  /\ UNCHANGED <<root, probed, tries, said, failed, cache, disk, botched, losses, faults>>

MoreTries(n) == n < 5

InitMountFails ==
  /\ pc = "mount" /\ ~Mountable
  /\ tries' = tries + 1
  /\ pc' = IF MoreTries(tries + 1) THEN "mount" ELSE "test"
  /\ UNCHANGED <<root, probed, mounts, said, failed, cache, disk, botched, losses, faults>>

\* [ -x ] of a file of this item: a file written in part may have its mode already.
Executable(i) ==
  CASE cache.file[i] = "whole" -> {TRUE}
    [] cache.file[i] = "part"  -> BOOLEAN
    [] OTHER                   -> {FALSE}

\* The new /sbin/init is bin/busybox: a part of it may not start.
InitSwitch ==
  /\ pc = "test" /\ "root" \in mounts
  /\ TRUE \in Executable("sbin") /\ TRUE \in Executable("bin")
  /\ root' = "sd" /\ tries' = 0
  /\ pc' \in {"rcS"} \cup (IF cache.file["bin"] = "part" THEN {"panic"} ELSE {})
  /\ UNCHANGED <<probed, mounts, said, failed, cache, disk, botched, losses, faults>>

InitStays ==
  /\ pc = "test"
  /\ "root" \in mounts => FALSE \in Executable("sbin") \cup Executable("bin")
  /\ mounts' = {} /\ pc' = "rcS" /\ tries' = 0
  /\ UNCHANGED <<root, probed, said, failed, cache, disk, botched, losses, faults>>

\* mount -a. The fstab of the initramfs, and the copy of it in etc before sdinstall
\* writes its own, names the first partition; sdinstall's names the second.
FstabMounts ==
  IF root = "initramfs" THEN Mountable
  ELSE CASE cache.file["fstab"] = "whole" -> cache.data
         [] cache.file["fstab"] = "part"  -> FALSE
         [] OTHER                         -> cache.file["etc"] = "whole"

RcS ==
  /\ pc = "rcS"
  /\ mounts' = IF FstabMounts THEN mounts \cup {"sd"} ELSE mounts
  /\ pc' = "shell"
  /\ UNCHANGED <<root, probed, tries, said, failed, cache, disk, botched, losses, faults>>

-----------------------------------------------------------------------------
(* sdinstall                                                                *)

\* The tests before anything is changed: the size of the card is known, and it is not
\* mounted.
MayInstall == pc = "shell" /\ probed /\ mounts = {}

Begin ==
  /\ MayInstall
  /\ said' = "begun" /\ failed' = {} /\ pc' = "partition"
  /\ UNCHANGED <<root, probed, tries, mounts, cache, disk, botched, losses, faults>>

\* What a partition may hold when mkfs did not end: nothing that mounts, or the old
\* file system with some of its files damaged or gone.
Torn(card) ==
  {[card EXCEPT !.root = "none"]} \cup
  {[card EXCEPT !.root = "ext2", !.file = f] :
     f \in {g \in Tables : \A i \in Items : g[i] \in {"no", "part", card.file[i]}
                                            /\ (card.file[i] = "no" => g[i] = "no")}}

\* A step fails: die() leaves everything as it is.
Die ==
  /\ pc \in Formatting /\ faults < MaxFaults
  /\ faults' = faults + 1 /\ failed' = failed \cup {pc} /\ pc' = "shell"
  /\ cache' \in IF pc = "mkfs_root" THEN Torn(cache) ELSE {cache}
  /\ disk' = cache'
  /\ botched' = (botched \/ pc = "mkfs_root")
  /\ UNCHANGED <<root, probed, tries, mounts, said, losses>>

\* The first partition begins where it did; the second one moves. mkfs.ext2 starts.
Partition ==
  /\ pc = "partition"
  /\ cache' = [cache EXCEPT !.root = "mkfs", !.data = FALSE]
  /\ disk' = cache'
  /\ pc' = "mkfs_root"
  /\ UNCHANGED <<root, probed, tries, mounts, said, failed, botched, losses, faults>>

MkfsRoot ==
  /\ pc = "mkfs_root"
  /\ cache' = [cache EXCEPT !.root = "ext2", !.file = [i \in Items |-> "no"]]
  /\ disk' = cache' /\ botched' = FALSE
  /\ pc' = "mkfs_data"
  /\ UNCHANGED <<root, probed, tries, mounts, said, failed, losses, faults>>

MkfsData ==
  /\ pc = "mkfs_data"
  /\ cache' = [cache EXCEPT !.data = TRUE]
  /\ disk' = cache'
  /\ pc' = "mount_root"
  /\ UNCHANGED <<root, probed, tries, mounts, said, failed, botched, losses, faults>>

MountRoot ==
  /\ pc = "mount_root"
  /\ mounts' = {"root"} /\ pc' = Head(CopyOrder)
  /\ UNCHANGED <<root, probed, tries, said, failed, cache, disk, botched, losses, faults>>

AfterCopy(i) ==
  IF i = Last(CopyOrder) THEN "sync"
  ELSE CopyOrder[CHOOSE n \in DOMAIN CopyOrder : n > 1 /\ CopyOrder[n - 1] = i]

Copy(i) ==
  /\ pc = i
  /\ cache' = [cache EXCEPT !.file[i] = "whole"]
  /\ pc' = AfterCopy(i)
  /\ UNCHANGED <<root, probed, tries, mounts, said, failed, disk, botched, losses, faults>>

\* What a failing step leaves. ln -sf takes the old link away first: when it fails,
\* there may be no /sbin/init any more.
Damaged(i) ==
  {[cache.file EXCEPT ![i] = "part"]} \cup
  {[cache.file EXCEPT ![i] = "part", !["sbin"] = "no"] : x \in {i} \cap {"links"}}

CopyFails(i) ==
  /\ pc = i /\ faults < MaxFaults
  /\ faults' = faults + 1 /\ failed' = failed \cup {i}
  /\ \E f \in Damaged(i) : cache' = [cache EXCEPT !.file = f]
  /\ pc' = IF i \in Checked THEN "shell" ELSE AfterCopy(i)
  /\ UNCHANGED <<root, probed, tries, mounts, said, disk, botched, losses>>

\* Mutant: "done" without sync and umount.
FinishUnwritten ==
  /\ pc = "sync"
  /\ said' = "done" /\ pc' = "shell"
  /\ UNCHANGED <<root, probed, tries, mounts, failed, cache, disk, botched, losses, faults>>

\* sync, umount, "done".
Finish ==
  /\ pc = "sync"
  /\ disk' = cache /\ mounts' = {} /\ said' = "done" /\ pc' = "shell"
  /\ UNCHANGED <<root, probed, tries, failed, cache, botched, losses, faults>>

\* A block cannot be written: sync does not say so, and after umount it is gone.
SyncFails ==
  /\ pc = "sync" /\ faults < MaxFaults
  /\ faults' = faults + 1 /\ failed' = failed \cup {"sync"}
  /\ \E i \in Items : disk' = [cache EXCEPT !.file[i] = "part"]
  /\ cache' = disk' /\ botched' = TRUE
  /\ mounts' = {} /\ said' = "done" /\ pc' = "shell"
  /\ UNCHANGED <<root, probed, tries, losses>>

\* umount fails and nobody looks.
UmountFails ==
  /\ pc = "sync" /\ faults < MaxFaults
  /\ faults' = faults + 1 /\ failed' = failed \cup {"umount"}
  /\ disk' = cache /\ said' = "done" /\ pc' = "shell"
  /\ UNCHANGED <<root, probed, tries, mounts, cache, botched, losses>>

-----------------------------------------------------------------------------
(* The user, the kernel and the power supply (external).                    *)

Umount ==
  /\ pc = "shell" /\ root = "initramfs" /\ mounts # {}
  /\ mounts' = {} /\ disk' = cache
  /\ UNCHANGED <<pc, root, probed, tries, said, failed, cache, botched, losses, faults>>

\* reboot unmounts; after a panic only the reset button is left.
Reboot ==
  /\ pc \in {"shell", "panic"}
  /\ pc' = "off" /\ mounts' = {} /\ probed' = FALSE /\ root' = "initramfs"
  /\ disk' = cache
  /\ UNCHANGED <<tries, said, failed, cache, botched, losses, faults>>

Writeback(i) ==
  /\ "root" \in mounts /\ disk.file[i] # cache.file[i]
  /\ \E s \in {"part", cache.file[i]} : disk' = [disk EXCEPT !.file[i] = s]
  /\ UNCHANGED <<pc, root, probed, tries, mounts, said, failed, cache, botched, losses, faults>>

PowerLoss ==
  /\ pc \notin {"off", "panic"} /\ losses < MaxLosses
  /\ losses' = losses + 1
  /\ pc' = "off" /\ mounts' = {} /\ probed' = FALSE /\ root' = "initramfs"
  /\ disk' \in IF disk.root = "mkfs" THEN Torn(disk) ELSE {disk}
  /\ cache' = disk' /\ tries' = 0
  /\ UNCHANGED <<said, failed, botched, faults>>

-----------------------------------------------------------------------------
InitScript == InitMount \/ InitMountFails \/ InitSwitch \/ InitStays \/ RcS

InstallScript ==
  Partition \/ MkfsRoot \/ MkfsData \/ MountRoot \/ (\E i \in Items : Copy(i)) \/ Finish

Next ==
  \/ \E k \in {"on", "off"} : Boot(k)
  \/ Probe \/ InitScript
  \/ Begin \/ Die \/ InstallScript \/ (\E i \in Items : CopyFails(i)) \/ SyncFails \/ UmountFails
  \/ Umount \/ Reboot \/ (\E i \in Items : Writeback(i)) \/ PowerLoss

Spec == Init /\ [][Next]_vars

\* The scripts run on; a card is in the slot; the user keeps trying, with sdroot=off
\* too, waits for the card, unmounts what is mounted, and reboots a board that is of no
\* use to him.
FairSpec ==
  /\ Spec
  /\ SF_vars(Probe /\ pc = "shell" /\ root = "initramfs") /\ WF_vars(InitScript) /\ WF_vars(InstallScript)
  /\ SF_vars(Boot("off")) /\ SF_vars(Umount) /\ SF_vars(Begin) /\ WF_vars(Reboot)

-----------------------------------------------------------------------------
\* The steps of sdinstall whose exit status nobody looks at.
Unchecked == {"dev", "links", "fstab", "sync", "umount"}

\* No failed step of the last run touched this item.
Spared(i) ==
  /\ {i, "sync"} \cap failed = {}
  /\ i = "sbin" => "links" \notin failed

\* After "done. Reboot to start from the SD card." the card on its own, without what
\* was cached, has a root of which everything is whole that no failed step was to
\* write, device nodes, links and fstab included, and only steps that sdinstall does not
\* look at have failed, whatever was lost or failed in the runs before and happens to
\* the board after. In particular, when no step failed the whole root is there.
DoneBoots ==
  said = "done" =>
    /\ failed \subseteq Unchecked
    /\ disk.root = "ext2" /\ \A i \in Items : Spared(i) => disk.file[i] = "whole"

\* init passes over a card that sdinstall has finished without a failed step only if it
\* was not there in five tries: no loss of power after "done", and no state that an
\* earlier run has left, makes such a card look incomplete.
DoneIsUsed ==
  [][InitStays /\ said = "done" /\ failed = {} => tries = 5]_vars

\* A root that cannot be started is left only by a loss of power, by a mkfs.ext2 that
\* failed half-way or by blocks that could not be written, never by a copy that failed:
\* bin is copied before sbin, and a failed copy of it ends the installation. After "done"
\* only the last of the three is possible.
PanicHasCause ==
  pc = "panic" => /\ losses > 0 \/ botched
                  /\ said = "done" => "sync" \in failed

\* However often power fails or a step fails, the board can be brought to finish an
\* installation of which every step succeeds: a half-written root never locks the user
\* out.
Recovers == <>(said = "done" /\ failed = {})

\* init's advice "run 'sdinstall' to put one there", and sdinstall's own "boot with
\* sdroot=off": on a freshly booted initramfs the card is not mounted.
AdviceWorks ==
  (pc = "shell" /\ root = "initramfs" /\ "root" \notin mounts) => mounts = {}
=============================================================================
