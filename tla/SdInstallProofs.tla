--------------------------- MODULE SdInstallProofs ---------------------------
(***************************************************************************)
(* Proofs about the installation of the root file system in SdInstall, for *)
(* any number of power losses and of failing steps.                        *)
(***************************************************************************)
EXTENDS SdInstall, TLAPS

Installing == Formatting \cup Items \cup {"sync"}

(* sdinstall has begun and not ended, and no step has failed that it looks  *)
(* at; init stops trying in time, and not before.                           *)
Stages ==
  /\ pc \in Installing => said = "begun" /\ failed \subseteq {"dev", "links", "fstab"}
  /\ pc = "mount" => tries < 5
  /\ pc = "test" => "root" \in mounts \/ tries = 5

(* What is on the root partition at each step: nothing after mkfs, and what *)
(* is copied from then on is there when the next copy starts, unless a step *)
(* failed that nobody looks at.                                             *)
CopiedSoFar ==
  /\ pc \in {"mkfs_data", "mount_root", "sync"} \cup Items => cache.root = "ext2"
  /\ pc \in {"mkfs_data", "mount_root", "bin"} => cache.file["sbin"] = "no"
  /\ pc \in {"sbin", "etc", "dev", "links", "fstab", "sync"} => cache.file["bin"] = "whole"
  /\ pc \in {"etc", "dev", "links", "fstab", "sync"} =>
       cache.file["sbin"] = "whole" \/ "links" \in failed
  /\ pc \in {"dev", "links", "fstab", "sync"} => cache.file["etc"] = "whole"
  /\ pc \in {"links", "fstab", "sync"} => cache.file["dev"] = "whole" \/ "dev" \in failed
  /\ pc \in {"fstab", "sync"} => cache.file["links"] = "whole" \/ "links" \in failed
  /\ pc = "sync" => cache.file["fstab"] = "whole" \/ "fstab" \in failed

(* Once sdinstall has said "done" nothing is left to be written.            *)
NothingCached == said = "done" => cache = disk

(* A root with an incomplete bin that init would switch to has a cause.     *)
BadRootHasCause ==
  cache.file["bin"] = "part" /\ cache.file["sbin"] # "no" => losses > 0 \/ botched

IInv ==
  /\ TypeOK /\ Stages /\ CopiedSoFar /\ NothingCached /\ BadRootHasCause
  /\ DoneBoots /\ PanicHasCause

-----------------------------------------------------------------------------
(* The order of the copies.                                                 *)

LEMMA CopyOrderValues ==
  /\ Len(CopyOrder) = 6 /\ DOMAIN CopyOrder = 1 .. 6
  /\ CopyOrder[1] = "bin" /\ CopyOrder[2] = "sbin" /\ CopyOrder[3] = "etc"
  /\ CopyOrder[4] = "dev" /\ CopyOrder[5] = "links" /\ CopyOrder[6] = "fstab"
  BY DEF CopyOrder

LEMMA ItemsAre == Items = {"bin", "sbin", "etc", "dev", "links", "fstab"}
<1>1. \A n \in 1 .. 6 : n = 1 \/ n = 2 \/ n = 3 \/ n = 4 \/ n = 5 \/ n = 6
  OBVIOUS
<1> QED BY <1>1, CopyOrderValues DEF Items, ToSet

LEMMA CopyOrderIs ==
  /\ Head(CopyOrder) = "bin"
  /\ AfterCopy("bin") = "sbin" /\ AfterCopy("sbin") = "etc" /\ AfterCopy("etc") = "dev"
  /\ AfterCopy("dev") = "links" /\ AfterCopy("links") = "fstab" /\ AfterCopy("fstab") = "sync"
<1>1. Last(CopyOrder) = "fstab" /\ Head(CopyOrder) = "bin"
  BY CopyOrderValues DEF Last, CopyOrder
<1>2. ASSUME NEW k \in 1 .. 5
      PROVE  AfterCopy(CopyOrder[k]) = CopyOrder[k + 1]
  <2> DEFINE P(n) == n > 1 /\ CopyOrder[n - 1] = CopyOrder[k]
             m == CHOOSE n \in DOMAIN CopyOrder : P(n)
  <2>1. \A n \in 1 .. 6 : P(n) <=> n = k + 1
    BY CopyOrderValues
  <2>2. k + 1 \in DOMAIN CopyOrder /\ P(k + 1)
    BY CopyOrderValues, <2>1
  <2>3. m \in DOMAIN CopyOrder /\ P(m)
    BY <2>2
  <2>4. m = k + 1
    BY CopyOrderValues, <2>1, <2>3
  <2>5. CopyOrder[k] # Last(CopyOrder)
    BY CopyOrderValues, <1>1
  <2> QED BY <2>4, <2>5 DEF AfterCopy
<1>3. AfterCopy("fstab") = "sync"
  BY <1>1 DEF AfterCopy
<1>4. /\ AfterCopy(CopyOrder[1]) = CopyOrder[1 + 1] /\ AfterCopy(CopyOrder[2]) = CopyOrder[2 + 1]
      /\ AfterCopy(CopyOrder[3]) = CopyOrder[3 + 1] /\ AfterCopy(CopyOrder[4]) = CopyOrder[4 + 1]
      /\ AfterCopy(CopyOrder[5]) = CopyOrder[5 + 1]
  BY <1>2
<1> QED BY CopyOrderValues, <1>1, <1>3, <1>4

(* A damaged partition is still a card.                                     *)
LEMMA TornType ==
  ASSUME NEW card \in Cards
  PROVE  Torn(card) \subseteq Cards
<1>1. [card EXCEPT !.root = "none"] \in Cards
  BY DEF Cards
<1>2. ASSUME NEW f \in Tables
      PROVE  [card EXCEPT !.root = "ext2", !.file = f] \in Cards
  BY DEF Cards
<1> QED BY <1>1, <1>2 DEF Torn

-----------------------------------------------------------------------------
(* Every step preserves the invariant: first init and the choice of root.   *)

LEMMA BootStep ==
  ASSUME IInv, NEW k \in {"on", "off"}, Boot(k)
  PROVE  IInv'
<1>1. /\ pc' \in {"rcS", "mount"} /\ tries' = 0 /\ root' = "initramfs"
      /\ UNCHANGED <<probed, mounts, said, failed, cache, disk, botched, losses, faults>>
  BY DEF Boot, AfterKnob
<1>2. TypeOK'
  BY <1>1 DEF IInv, TypeOK
<1> QED BY <1>1, <1>2, ItemsAre
        DEF IInv, Stages, Installing, Formatting, CopiedSoFar, NothingCached, BadRootHasCause,
            DoneBoots, Spared, PanicHasCause

LEMMA ProbeStep == IInv /\ Probe => IInv'
  BY DEF Probe, IInv, TypeOK, Stages, CopiedSoFar, NothingCached, BadRootHasCause,
         DoneBoots, Spared, PanicHasCause

LEMMA InitScriptStep == IInv /\ InitScript => IInv'
<1> SUFFICES ASSUME IInv, InitScript PROVE IInv'
  OBVIOUS
<1> USE ItemsAre
<1>1. /\ pc \in {"mount", "test", "rcS"}
      /\ pc' \in {"mount", "test", "rcS", "shell", "panic"}
      /\ mounts' \subseteq {"root", "sd"} /\ root' \in {"initramfs", "sd"}
      /\ UNCHANGED <<probed, said, failed, cache, disk, botched, losses, faults>>
  <2>1. CASE InitMount \/ InitMountFails
    BY <2>1 DEF InitMount, InitMountFails, IInv, TypeOK
  <2>2. CASE InitSwitch
    BY <2>2 DEF InitSwitch, IInv, TypeOK
  <2>3. CASE InitStays
    BY <2>3 DEF InitStays, IInv, TypeOK
  <2>4. CASE RcS
    <3>1. mounts \subseteq {"root", "sd"} /\ root \in {"initramfs", "sd"}
      BY DEF IInv, TypeOK
    <3>2. mounts' \subseteq {"root", "sd"}
      BY <2>4, <3>1 DEF RcS
    <3> QED BY <2>4, <3>1, <3>2 DEF RcS
  <2> QED BY <2>1, <2>2, <2>3, <2>4 DEF InitScript
<1>2. /\ tries' \in 0 .. 5 /\ (pc' = "mount" => tries' < 5)
      /\ pc' = "test" => "root" \in mounts' \/ tries' = 5
  <2>1. tries \in 0 .. 5 /\ (pc = "mount" => tries < 5)
    BY DEF IInv, TypeOK, Stages
  <2>2. CASE InitMountFails
    BY <2>1, <2>2 DEF InitMountFails, MoreTries
  <2>3. CASE InitMount
    BY <2>1, <2>3 DEF InitMount
  <2>4. CASE InitSwitch \/ InitStays
    <3>1. tries' = 0 /\ pc' \notin {"mount", "test"}
      BY <2>4 DEF InitSwitch, InitStays
    <3> QED BY <3>1
  <2>5. CASE RcS
    BY <2>1, <2>5 DEF RcS
  <2> QED BY <2>2, <2>3, <2>4, <2>5 DEF InitScript
<1>3. TypeOK'
  BY <1>1, <1>2 DEF IInv, TypeOK
<1>4. Stages' /\ CopiedSoFar' /\ NothingCached' /\ BadRootHasCause' /\ DoneBoots'
  BY <1>1, <1>2 DEF IInv, Stages, Installing, Formatting, CopiedSoFar, NothingCached,
                    BadRootHasCause, DoneBoots, Spared
<1>5. ASSUME pc' = "panic" PROVE (losses > 0 \/ botched) /\ (said = "done" => "sync" \in failed)
  <2>1. InitSwitch /\ cache.file["bin"] = "part" /\ TRUE \in Executable("sbin")
    BY <1>5 DEF InitScript, InitMount, InitMountFails, InitSwitch, InitStays, RcS
  <2>2. cache.file["sbin"] # "no"
    BY <2>1 DEF Executable
  <2>3. said = "done" => "sync" \in failed
    <3>1. said = "done" => cache = disk /\ "bin" \notin failed /\ ~Spared("bin")
      BY <2>1 DEF IInv, NothingCached, DoneBoots, Unchecked
    <3> QED BY <3>1 DEF Spared
  <2> QED BY <2>1, <2>2, <2>3 DEF IInv, BadRootHasCause
<1>6. PanicHasCause'
  BY <1>1, <1>5 DEF PanicHasCause
<1> QED BY <1>3, <1>4, <1>6 DEF IInv

-----------------------------------------------------------------------------
(* sdinstall.                                                               *)

LEMMA BeginStep == IInv /\ Begin => IInv'
<1> SUFFICES ASSUME IInv, Begin PROVE IInv'
  OBVIOUS
<1>1. /\ pc' = "partition" /\ said' = "begun" /\ failed' = {}
      /\ UNCHANGED <<root, probed, tries, mounts, cache, disk, botched, losses, faults>>
  BY DEF Begin, MayInstall
<1>2. TypeOK'
  BY <1>1 DEF IInv, TypeOK, Formatting
<1> QED BY <1>1, <1>2, ItemsAre
        DEF IInv, Stages, Installing, Formatting, CopiedSoFar, NothingCached, BadRootHasCause,
            DoneBoots, Spared, PanicHasCause

(* The partition table and the two file systems, or the end of sdinstall.   *)
LEMMA FormatStep == IInv /\ (Partition \/ MkfsRoot \/ MkfsData) => IInv'
<1> SUFFICES ASSUME IInv, Partition \/ MkfsRoot \/ MkfsData PROVE IInv'
  OBVIOUS
<1> USE ItemsAre
<1>1. cache \in Cards /\ disk \in Cards
  BY DEF IInv, TypeOK
<1>2. /\ pc \in Formatting /\ said = "begun" /\ failed \subseteq {"dev", "links", "fstab"}
      /\ pc' \in {"mkfs_root", "mkfs_data", "mount_root"}
      /\ UNCHANGED <<root, probed, tries, mounts, said, failed, losses, faults>>
      /\ botched' \in BOOLEAN
  BY DEF Partition, MkfsRoot, MkfsData, IInv, TypeOK, Stages, Formatting, Installing
<1>3. /\ cache' \in Cards /\ disk' = cache'
      /\ pc' = "mkfs_root" => cache'.file = cache.file /\ botched' = botched
      /\ pc' = "mkfs_data" => cache'.root = "ext2" /\ cache'.file = [i \in Items |-> "no"]
      /\ pc' = "mount_root" => /\ pc = "mkfs_data" /\ cache'.root = cache.root
                               /\ cache'.file = cache.file /\ botched' = botched
  <2>1. CASE Partition
    BY <1>1, <2>1 DEF Partition, Cards
  <2>2. CASE MkfsRoot
    <3>1. [i \in Items |-> "no"] \in Tables
      BY DEF Tables
    <3> QED BY <1>1, <2>2, <3>1 DEF MkfsRoot, Cards
  <2>3. CASE MkfsData
    BY <1>1, <2>3 DEF MkfsData, Cards
  <2> QED BY <2>1, <2>2, <2>3
<1>4. TypeOK'
  BY <1>2, <1>3 DEF IInv, TypeOK, Formatting
<1>5. Stages' /\ NothingCached' /\ DoneBoots' /\ PanicHasCause'
  BY <1>2, <1>3 DEF IInv, Stages, NothingCached, DoneBoots, PanicHasCause
<1>6. pc' \in {"mkfs_data", "mount_root"} =>
        cache'.root = "ext2" /\ cache'.file["sbin"] = "no"
  BY <1>3 DEF IInv, CopiedSoFar
<1>7. CopiedSoFar'
  BY <1>2, <1>6 DEF CopiedSoFar
<1>8. BadRootHasCause'
  BY <1>2, <1>3, <1>6 DEF IInv, BadRootHasCause
<1> QED BY <1>4, <1>5, <1>7, <1>8 DEF IInv

LEMMA DieStep == IInv /\ Die => IInv'
<1> SUFFICES ASSUME IInv, Die PROVE IInv'
  OBVIOUS
<1> USE ItemsAre
<1>1. /\ pc \in Formatting /\ pc' = "shell" /\ disk' = cache' /\ faults' = faults + 1
      /\ faults < MaxFaults
      /\ cache' \in IF pc = "mkfs_root" THEN Torn(cache) ELSE {cache}
      /\ botched' = (botched \/ pc = "mkfs_root") /\ failed' = failed \cup {pc}
      /\ UNCHANGED <<root, probed, tries, mounts, said, losses>>
  BY DEF Die
<1>2. said = "begun"
  BY <1>1 DEF IInv, Stages, Installing
<1>3. cache' \in Cards
  BY <1>1, TornType DEF IInv, TypeOK
<1>4. faults' \in 0 .. MaxFaults
  BY <1>1, BoundAssumption DEF IInv, TypeOK
<1>5. botched' \in BOOLEAN
  BY <1>1
<1>6. TypeOK'
  BY <1>1, <1>3, <1>4, <1>5 DEF IInv, TypeOK
<1>7. BadRootHasCause'
  <2>1. CASE pc = "mkfs_root"
    BY <1>1, <2>1 DEF BadRootHasCause
  <2>2. CASE pc # "mkfs_root"
    BY <1>1, <2>2 DEF IInv, BadRootHasCause
  <2> QED BY <2>1, <2>2
<1>8. Stages' /\ CopiedSoFar' /\ NothingCached' /\ DoneBoots' /\ PanicHasCause'
  BY <1>1, <1>2 DEF Stages, Installing, Formatting, CopiedSoFar, NothingCached, DoneBoots,
                    PanicHasCause
<1> QED BY <1>6, <1>7, <1>8 DEF IInv

LEMMA MountRootStep == IInv /\ MountRoot => IInv'
<1> SUFFICES ASSUME IInv, MountRoot PROVE IInv'
  OBVIOUS
<1> USE ItemsAre
<1>1. /\ pc = "mount_root" /\ pc' = "bin" /\ mounts' = {"root"}
      /\ UNCHANGED <<root, probed, tries, said, failed, cache, disk, botched, losses, faults>>
  BY CopyOrderIs DEF MountRoot
<1>2. TypeOK'
  BY <1>1 DEF IInv, TypeOK
<1> QED BY <1>1, <1>2
        DEF IInv, Stages, Installing, Formatting, CopiedSoFar, NothingCached, BadRootHasCause,
            DoneBoots, Spared, PanicHasCause

(* A copy that succeeds.                                                    *)
LEMMA CopyStep ==
  ASSUME IInv, NEW i \in Items, Copy(i)
  PROVE  IInv'
<1> USE ItemsAre
<1>1. /\ pc = i /\ cache' = [cache EXCEPT !.file[i] = "whole"] /\ pc' = AfterCopy(i)
      /\ UNCHANGED <<root, probed, tries, mounts, said, failed, disk, botched, losses, faults>>
  BY DEF Copy
<1>2. pc' \in {"sbin", "etc", "dev", "links", "fstab", "sync"}
  BY <1>1, CopyOrderIs
<1>3. cache \in Cards /\ cache.file \in Tables
  BY DEF IInv, TypeOK, Cards
<1>4. /\ cache' \in Cards /\ cache'.root = cache.root
      /\ cache'.file = [cache.file EXCEPT ![i] = "whole"]
  <2>1. [cache.file EXCEPT ![i] = "whole"] \in Tables
    BY <1>3 DEF Tables
  <2> QED BY <1>1, <1>3, <2>1 DEF Cards
<1>5. \A j \in Items : cache'.file[j] = IF j = i THEN "whole" ELSE cache.file[j]
  BY <1>3, <1>4 DEF Tables
<1>6. TypeOK'
  BY <1>1, <1>2, <1>4 DEF IInv, TypeOK
<1>7. said = "begun" /\ cache.root = "ext2" /\ failed \subseteq {"dev", "links", "fstab"}
  BY <1>1 DEF IInv, Stages, Installing, CopiedSoFar
<1>8. Stages' /\ NothingCached' /\ DoneBoots' /\ PanicHasCause'
  BY <1>1, <1>2, <1>7 DEF Stages, NothingCached, DoneBoots, PanicHasCause
<1>9. CopiedSoFar'
  BY <1>1, <1>2, <1>4, <1>5, <1>7, CopyOrderIs DEF IInv, CopiedSoFar
<1>10. BadRootHasCause'
  <2>1. CASE i = "bin"
    BY <1>5, <2>1 DEF BadRootHasCause
  <2>2. CASE i # "bin"
    BY <1>1, <1>5, <2>2 DEF IInv, CopiedSoFar, BadRootHasCause
  <2> QED BY <2>1, <2>2
<1> QED BY <1>6, <1>8, <1>9, <1>10 DEF IInv

(* A copy that fails, noticed or not. The links may take sbin/init along.   *)
LEMMA CopyFailsStep ==
  ASSUME IInv, NEW i \in Items, CopyFails(i)
  PROVE  IInv'
<1> USE ItemsAre
<1>1. /\ pc = i /\ faults < MaxFaults /\ faults' = faults + 1 /\ failed' = failed \cup {i}
      /\ pc' = IF i \in {"bin", "sbin", "etc"} THEN "shell" ELSE AfterCopy(i)
      /\ UNCHANGED <<root, probed, tries, mounts, said, disk, botched, losses>>
  BY DEF CopyFails, Checked
<1>2. PICK f \in Damaged(i) : cache' = [cache EXCEPT !.file = f]
  BY DEF CopyFails
<1>3. pc' \in {"links", "fstab", "sync", "shell"}
  BY <1>1, CopyOrderIs
<1>4. cache \in Cards /\ cache.file \in Tables
  BY DEF IInv, TypeOK, Cards
<1>5. /\ f \in Tables
      /\ \A j \in Items \ {i, "sbin"} : f[j] = cache.file[j]
      /\ i \notin {"sbin", "links"} => f["sbin"] = cache.file["sbin"]
  <2>1. CASE f = [cache.file EXCEPT ![i] = "part"]
    BY <1>4, <2>1 DEF Tables
  <2>2. CASE i = "links" /\ f = [cache.file EXCEPT ![i] = "part", !["sbin"] = "no"]
    BY <1>4, <2>2 DEF Tables
  <2> QED BY <2>1, <2>2 DEF Damaged
<1>6. cache' \in Cards /\ cache'.root = cache.root /\ cache'.file = f
  BY <1>2, <1>4, <1>5 DEF Cards
<1>7. faults' \in 0 .. MaxFaults
  BY <1>1, BoundAssumption DEF IInv, TypeOK
<1>8. TypeOK'
  BY <1>1, <1>3, <1>6, <1>7 DEF IInv, TypeOK
<1>9. said = "begun" /\ cache.root = "ext2" /\ failed \subseteq {"dev", "links", "fstab"}
  BY <1>1 DEF IInv, Stages, Installing, CopiedSoFar
<1>10. pc' # "shell" => i \in {"dev", "links", "fstab"}
  BY <1>1
<1>11. Stages' /\ NothingCached' /\ DoneBoots' /\ PanicHasCause'
  BY <1>1, <1>3, <1>9, <1>10
     DEF Stages, Installing, Formatting, NothingCached, DoneBoots, PanicHasCause
<1>12. CopiedSoFar'
  BY <1>1, <1>3, <1>5, <1>6, <1>9, CopyOrderIs DEF IInv, CopiedSoFar
<1>13. BadRootHasCause'
  <2>1. CASE i = "bin"
    BY <1>1, <1>5, <1>6, <2>1 DEF IInv, CopiedSoFar, BadRootHasCause
  <2>2. CASE i # "bin"
    BY <1>1, <1>5, <1>6, <2>2 DEF IInv, CopiedSoFar, BadRootHasCause
  <2> QED BY <2>1, <2>2
<1> QED BY <1>8, <1>11, <1>12, <1>13 DEF IInv

(* sync and umount, which may fail, and "done".                             *)
LEMMA FinishStep == IInv /\ (Finish \/ SyncFails \/ UmountFails) => IInv'
<1> SUFFICES ASSUME IInv, Finish \/ SyncFails \/ UmountFails PROVE IInv'
  OBVIOUS
<1> USE ItemsAre
<1>1. /\ pc = "sync" /\ pc' = "shell" /\ said' = "done" /\ cache' = disk'
      /\ mounts' \in {mounts, {}} /\ failed' \in {failed, failed \cup {"sync"}, failed \cup {"umount"}}
      /\ UNCHANGED <<root, probed, tries, losses>>
  BY DEF Finish, SyncFails, UmountFails
<1>2. faults' \in 0 .. MaxFaults
  BY BoundAssumption DEF Finish, SyncFails, UmountFails, IInv, TypeOK
<1>3. \/ cache' = cache /\ botched' = botched
      \/ /\ "sync" \in failed' /\ botched'
         /\ \E i \in Items : cache' = [cache EXCEPT !.file[i] = "part"]
  BY DEF Finish, SyncFails, UmountFails
<1>4. cache \in Cards /\ cache.file \in Tables /\ cache.root = "ext2"
  BY <1>1 DEF IInv, TypeOK, Cards, CopiedSoFar
<1>5. cache' \in Cards /\ cache'.root = "ext2" /\ botched' \in BOOLEAN
  <2>1. ASSUME NEW i \in Items, cache' = [cache EXCEPT !.file[i] = "part"]
        PROVE  cache' \in Cards /\ cache'.root = "ext2"
    <3>1. [cache.file EXCEPT ![i] = "part"] \in Tables
      BY <1>4 DEF Tables
    <3> QED BY <1>4, <2>1, <3>1 DEF Cards
  <2> QED BY <1>3, <1>4, <2>1 DEF Finish, SyncFails, UmountFails, IInv, TypeOK
<1>6. TypeOK'
  BY <1>1, <1>2, <1>5 DEF IInv, TypeOK
<1>7. failed \subseteq {"dev", "links", "fstab"}
  BY <1>1 DEF IInv, Stages, Installing
<1>8. DoneBoots'
  <2>1. failed' \subseteq Unchecked
    BY <1>1, <1>7 DEF Unchecked
  <2>2. ASSUME NEW i \in Items, Spared(i)' PROVE disk'.file[i] = "whole"
    <3>1. i \notin failed /\ (i = "sbin" => "links" \notin failed) /\ "sync" \notin failed'
      BY <1>1, <2>2 DEF Spared
    <3>2. disk' = cache
      BY <1>1, <1>3, <3>1
    <3> QED BY <1>1, <3>1, <3>2 DEF IInv, CopiedSoFar
  <2> QED BY <1>1, <1>5, <2>1, <2>2 DEF DoneBoots
<1>9. BadRootHasCause'
  BY <1>1, <1>3 DEF IInv, BadRootHasCause
<1> QED BY <1>1, <1>6, <1>8, <1>9
        DEF IInv, Stages, Installing, Formatting, CopiedSoFar, NothingCached, PanicHasCause

-----------------------------------------------------------------------------
(* The user, the kernel and the power supply.                               *)

LEMMA UmountStep == IInv /\ (Umount \/ Reboot) => IInv'
<1> SUFFICES ASSUME IInv, Umount \/ Reboot PROVE IInv'
  OBVIOUS
<1> USE ItemsAre
<1>1. /\ pc' \in {"shell", "off"} /\ mounts' = {} /\ disk' = cache
      /\ root' = "initramfs" /\ probed' \in BOOLEAN
      /\ UNCHANGED <<tries, said, failed, cache, botched, losses, faults>>
  BY DEF Umount, Reboot, IInv, TypeOK
<1>2. TypeOK'
  BY <1>1 DEF IInv, TypeOK
<1> QED BY <1>1, <1>2
        DEF IInv, Stages, Installing, Formatting, CopiedSoFar, NothingCached, BadRootHasCause,
            DoneBoots, Spared, PanicHasCause

LEMMA WritebackStep ==
  ASSUME IInv, NEW i \in Items, Writeback(i)
  PROVE  IInv'
<1>1. /\ disk.file[i] # cache.file[i]
      /\ UNCHANGED <<pc, root, probed, tries, mounts, said, failed, cache, botched, losses, faults>>
  BY DEF Writeback
<1>2. PICK s \in {"part", cache.file[i]} : disk' = [disk EXCEPT !.file[i] = s]
  BY DEF Writeback
<1>3. cache \in Cards /\ disk \in Cards /\ cache.file \in Tables /\ disk.file \in Tables
  BY DEF IInv, TypeOK, Cards
<1>4. s \in {"no", "part", "whole"}
  BY <1>2, <1>3 DEF Tables
<1>5. [disk.file EXCEPT ![i] = s] \in Tables
  BY <1>3, <1>4 DEF Tables
<1>6. disk' \in Cards
  BY <1>2, <1>3, <1>5 DEF Cards
<1>7. said # "done"
  BY <1>1 DEF IInv, NothingCached
<1>8. TypeOK'
  BY <1>1, <1>6 DEF IInv, TypeOK
<1> QED BY <1>1, <1>7, <1>8
        DEF IInv, Stages, CopiedSoFar, NothingCached, BadRootHasCause,
            DoneBoots, Spared, PanicHasCause

LEMMA PowerLossStep == IInv /\ PowerLoss => IInv'
<1> SUFFICES ASSUME IInv, PowerLoss PROVE IInv'
  OBVIOUS
<1> USE ItemsAre
<1>1. /\ losses < MaxLosses /\ losses' = losses + 1 /\ pc' = "off" /\ mounts' = {}
      /\ probed' = FALSE /\ root' = "initramfs"
      /\ disk' \in IF disk.root = "mkfs" THEN Torn(disk) ELSE {disk}
      /\ cache' = disk' /\ tries' = 0
      /\ UNCHANGED <<said, failed, botched, faults>>
  BY DEF PowerLoss
<1>2. disk' \in Cards
  BY <1>1, TornType DEF IInv, TypeOK
<1>3. losses' \in 0 .. MaxLosses /\ losses' > 0 /\ tries' \in 0 .. 5
  BY <1>1, BoundAssumption DEF IInv, TypeOK
<1>4. TypeOK'
  BY <1>1, <1>2, <1>3 DEF IInv, TypeOK
<1>5. said = "done" => disk' = disk
  BY <1>1 DEF IInv, DoneBoots
<1>6. DoneBoots' /\ NothingCached'
  BY <1>1, <1>5 DEF IInv, DoneBoots, Spared, NothingCached
<1>7. Stages' /\ CopiedSoFar' /\ BadRootHasCause' /\ PanicHasCause'
  BY <1>1, <1>3 DEF Stages, Installing, Formatting, CopiedSoFar, BadRootHasCause, PanicHasCause
<1> QED BY <1>4, <1>6, <1>7 DEF IInv

LEMMA IdleStep == IInv /\ UNCHANGED vars => IInv'
  BY DEF vars, IInv, TypeOK, Stages, CopiedSoFar, NothingCached, BadRootHasCause,
         DoneBoots, Spared, PanicHasCause

LEMMA StepIInv == IInv /\ [Next]_vars => IInv'
  BY BootStep, ProbeStep, InitScriptStep, BeginStep, FormatStep, DieStep, MountRootStep, CopyStep,
     CopyFailsStep, FinishStep, UmountStep, WritebackStep, PowerLossStep, IdleStep
     DEF Next, InstallScript

LEMMA InitIInv == Init => IInv
<1> SUFFICES ASSUME Init PROVE IInv
  OBVIOUS
<1> USE ItemsAre
<1>1. /\ pc = "off" /\ root = "initramfs" /\ probed = FALSE /\ tries = 0
      /\ mounts = {} /\ said = "nothing" /\ failed = {} /\ botched = FALSE /\ losses = 0 /\ faults = 0
  BY DEF Init
<1>2. disk \in Cards /\ cache = disk /\ cache.file["bin"] # "part"
  <2>1. [i \in Items |-> "no"] \in Tables /\ [i \in Items |-> "whole"] \in Tables
    BY DEF Tables
  <2>2. CASE disk = [root |-> "none", data |-> FALSE, file |-> [i \in Items |-> "no"]]
    BY <2>1, <2>2 DEF Init, Cards
  <2>3. CASE disk = [root |-> "ext2", data |-> TRUE, file |-> [i \in Items |-> "whole"]]
    BY <2>1, <2>3 DEF Init, Cards
  <2> QED BY <2>2, <2>3 DEF Init
<1>3. 0 \in 0 .. MaxLosses /\ 0 \in 0 .. MaxFaults
  BY BoundAssumption
<1>4. TypeOK
  <2>1. cache \in Cards /\ tries \in 0 .. 5
    BY <1>1, <1>2
  <2> QED BY <1>1, <1>2, <1>3, <2>1 DEF TypeOK
<1> QED BY <1>1, <1>2, <1>4
        DEF IInv, Stages, Installing, Formatting, CopiedSoFar, NothingCached, BadRootHasCause,
            DoneBoots, Spared, PanicHasCause

-----------------------------------------------------------------------------
(* The invariant holds in every state of an installation.                   *)
THEOREM Invariance == Spec => []IInv
  BY InitIInv, StepIInv, PTL DEF Spec

(* Scripts, card and cache keep their types.                                *)
THEOREM TypeCorrect == Spec => []TypeOK
<1>1. IInv => TypeOK
  BY DEF IInv
<1> QED BY <1>1, Invariance, PTL

(* After "done" only unchecked steps have failed, and the card alone has    *)
(* everything whole that they were not to write, whatever number of power   *)
(* losses and failed steps came before or come after.                       *)
THEOREM DoneMeansBootable == Spec => []DoneBoots
<1>1. IInv => DoneBoots
  BY DEF IInv
<1> QED BY <1>1, Invariance, PTL

(* A card that was finished without a failed step is passed over by init    *)
(* only when five tries did not find it.                                    *)
THEOREM DoneCardIsUsed == Spec => DoneIsUsed
<1>1. IInv /\ [Next]_vars => [InitStays /\ said = "done" /\ failed = {} => tries = 5]_vars
  <2> SUFFICES ASSUME IInv, InitStays, said = "done", failed = {}, tries # 5
               PROVE  FALSE
    OBVIOUS
  <2>1. pc = "test" /\ "root" \in mounts
    BY DEF InitStays, IInv, Stages
  <2>2. cache.file["sbin"] = "whole" /\ cache.file["bin"] = "whole"
    <3>1. Spared("sbin") /\ Spared("bin")
      BY DEF Spared
    <3> QED BY <3>1, ItemsAre DEF IInv, DoneBoots, NothingCached
  <2>3. Executable("sbin") = {TRUE} /\ Executable("bin") = {TRUE}
    BY <2>2 DEF Executable
  <2> QED BY <2>1, <2>3 DEF InitStays
<1> QED BY <1>1, Invariance, PTL DEF Spec, DoneIsUsed

(* A root that panics at boot was left by a loss of power, by a mkfs.ext2   *)
(* that failed half-way or by blocks that could not be written, never by a  *)
(* copy that failed.                                                        *)
THEOREM PanicIsExplained == Spec => []PanicHasCause
<1>1. IInv => PanicHasCause
  BY DEF IInv
<1> QED BY <1>1, Invariance, PTL
=============================================================================
