------------------------- MODULE SoftwareUpgradeProofs -------------------------
(***************************************************************************)
(* What sw-upgrade.sh does to the boot files, with any versions and any    *)
(* number of attempts, failures and losses of power.                       *)
(***************************************************************************)
EXTENDS SoftwareUpgrade, TLAPS

Files == Versions \cup {None, Broken}
Sound == Versions \cup {None}
Partition == [cur : [PartSet -> Files], old : [PartSet -> Files]]

Counts == [attempts : 0..MaxAttempts, faults : 0..MaxFaults, losses : 0..MaxLosses, stuck : Nat]

Labels == {"idle", "mount", "download", "untar", "verify", "run", "aside", "in",
           "back", "sync", "bricked"}
Codes == {0, 1, 202, 204, 206, 207, 208, 220, 221, 222, 223, CurlError, Pending, Lost}

TypeOK ==
    /\ media \in {"sd", "mmc", "net"}
    /\ mounted \in BOOLEAN
    /\ tar \in Tars \cup {None}
    /\ shar \in Shars \cup {None}
    /\ fs \in Partition
    /\ card \in Partition
    /\ pc \in Labels
    /\ step \in 1..4
    /\ revert \in [moves : {0, 1, 3}, code : {220, 221, 222, 223, Pending}]
    /\ rc \in Codes
    /\ target \in Versions \cup {None}
    /\ before \in [PartSet -> Files]
    /\ stuck \subseteq PartSet
    /\ used \in Counts

\* The place of a boot file among the moves there, and among the moves back.
Rank == [p \in PartSet |-> CASE p = "u-boot.img" -> 1
                             [] p = "uImage" -> 2
                             [] p = "spondoolies.dtb" -> 3]
BackRank == [p \in PartSet |-> CASE p = "uImage" -> 1
                                 [] p = "u-boot.img" -> 2
                                 [] p = "spondoolies.dtb" -> 3]

\* What is fetched is there when it is used.
FetchInv ==
    /\ pc = "untar" => tar \in Tars
    /\ pc \in {"verify", "run"} => shar \in Shars
    /\ pc \in {"aside", "in", "sync"} => target \in Versions
    /\ pc \in {"aside", "in"} => step <= 3

\* The moves are counted from one.
StartInv == pc \in {"idle", "mount", "download", "untar", "verify", "run", "sync", "bricked"}
            => step = 1

\* Every boot file the upgrade found was one, and is aside.
AllAside == (\A p \in PartSet : before[p] # None) /\ fs.old = before

\* How far the moves aside and in have come.
AsideInv ==
    pc = "aside" => \A p \in PartSet :
        IF Rank[p] < step
        THEN before[p] # None /\ fs.cur[p] = None /\ fs.old[p] = before[p]
        ELSE fs.cur[p] = before[p]

InInv ==
    pc = "in" => /\ AllAside
                 /\ \A p \in PartSet : fs.cur[p] = IF Rank[p] < step THEN target ELSE None

InPlace(files) == files.cur = [p \in PartSet |-> target] /\ files.old = before
SyncInv ==
    /\ pc = "sync" => InPlace(fs)
    /\ pc = "idle" /\ rc = 0 /\ target # None => InPlace(fs) /\ InPlace(card)

\* How far a revert has come.  The reverts of a failed copy move all files
\* back, the device tree, which is not the new one, last.
BackInv ==
    /\ pc = "back" => revert.code # Pending
    /\ pc = "back" /\ revert.code \in {222, 223} =>
         /\ revert.moves = 3
         /\ \A p \in PartSet :
              /\ before[p] # None
              /\ IF BackRank[p] < step /\ p \notin stuck THEN fs.cur[p] = before[p]
                 ELSE fs.old[p] = before[p]
         /\ step <= 3 => fs.cur["spondoolies.dtb"] \in {None, Broken}
    /\ pc = "back" /\ revert.code \in {220, 221} =>
         /\ revert.moves <= 1
         /\ fs.cur["u-boot.img"] = None \/ (revert.moves = 0 /\ fs.cur = before)
         /\ revert.moves = 1 /\ step = 1 =>
              fs.old["uImage"] = before["uImage"] /\ before["uImage"] # None
    /\ pc = "idle" /\ rc \in {222, 223} =>
         \A p \in PartSet : IF p \in stuck THEN fs.old[p] = before[p] ELSE fs.cur[p] = before[p]

\* What is stuck could not be moved back by the upgrade that is under way.
StuckInv ==
    /\ stuck # {} => used.stuck # 0
    /\ pc \in {"aside", "in", "sync"} => stuck = {}
    /\ pc = "back" => \A p \in stuck : BackRank[p] < step

\* What an upgrade found is in place or aside.
KeptInv == \A p \in PartSet : fs.cur[p] = before[p] \/ fs.old[p] = before[p]

\* As long as no power was lost and every part could be moved back, no file is
\* cut short but the one a failed copy left, and that one only until it is.
Uniform(cur) == (\A p \in PartSet : cur[p] \in Versions) => \A p, q \in PartSet : cur[p] = cur[q]

SoundInv ==
    used.losses = 0 /\ used.stuck = 0 =>
        /\ \A p \in PartSet : before[p] \in Sound /\ fs.old[p] \in Sound
        /\ \A p \in PartSet : fs.cur[p] \in Versions \/ fs.old[p] \in Versions
        /\ Uniform(before)
        /\ ~(pc = "back" /\ revert.code \in {222, 223}) =>
              \A p \in PartSet : fs.cur[p] \in Sound

\* What the properties of the partition rest on.
CardInv == StuckInv /\ KeptInv /\ SoundInv /\ NeverMixed

Inv ==
    /\ TypeOK /\ FetchInv /\ StartInv /\ AsideInv /\ InInv /\ SyncInv /\ BackInv
    /\ CardInv
-------------------------------------------------------------------------------
LEMMA PartsRank ==
  /\ \A s \in 1..3 : Parts[s] \in PartSet /\ \A p \in PartSet : p = Parts[s] <=> Rank[p] = s
  /\ \A s \in 1..3 : BackOrder[s] \in PartSet
                     /\ \A p \in PartSet : p = BackOrder[s] <=> BackRank[p] = s
  /\ \A p \in PartSet : Rank[p] \in 1..3 /\ BackRank[p] \in 1..3
<1>1. /\ Rank["u-boot.img"] = 1 /\ Rank["uImage"] = 2 /\ Rank["spondoolies.dtb"] = 3
      /\ BackRank["uImage"] = 1 /\ BackRank["u-boot.img"] = 2
      /\ BackRank["spondoolies.dtb"] = 3
  BY DEF Rank, BackRank, PartSet
<1>2. /\ Parts[1] = "u-boot.img" /\ Parts[2] = "uImage" /\ Parts[3] = "spondoolies.dtb"
      /\ BackOrder[1] = "uImage" /\ BackOrder[2] = "u-boot.img"
      /\ BackOrder[3] = "spondoolies.dtb"
  BY DEF Parts, BackOrder
<1>3. \A s \in 1..3 : s = 1 \/ s = 2 \/ s = 3
  OBVIOUS
<1> QED
  BY <1>1, <1>2, <1>3 DEF PartSet

LEMMA InvInit == Init => Inv
<1> SUFFICES ASSUME Init PROVE Inv
  OBVIOUS
<1>0. ShippedCard \in Partition /\ ShippedCard.cur \in [PartSet -> Files]
  BY ShippedAssumption DEF Partition, Files, ShippedCard
<1>a. used \in Counts
  BY BoundsAssumption DEF Init, Counts
<1>b. revert \in [moves : {0, 1, 3}, code : {220, 221, 222, 223, Pending}]
  BY DEF Init, NoRevert
<1>c. fs \in Partition /\ card \in Partition /\ before \in [PartSet -> Files]
  BY <1>0, Zenon DEF Init
<1>d. mounted \in BOOLEAN /\ media \in {"sd", "mmc", "net"}
  BY Zenon DEF Init
<1>1. TypeOK
  BY <1>a, <1>b, <1>c, <1>d DEF Init, TypeOK, Labels, Codes
<1>2. FetchInv /\ StartInv /\ AsideInv /\ InInv /\ SyncInv /\ BackInv
  BY DEF Init, FetchInv, StartInv, AsideInv, InInv, SyncInv, BackInv
<1>3. fs.cur = [p \in PartSet |-> Shipped] /\ fs.old = [p \in PartSet |-> None] /\ before = fs.cur
  BY DEF Init, ShippedCard
<1>4. StuckInv
  BY DEF Init, StuckInv
<1>5. KeptInv /\ SoundInv /\ NeverMixed
  BY <1>3, ShippedAssumption DEF KeptInv, SoundInv, NeverMixed, Uniform, Sound
<1> QED
  BY <1>1, <1>2, <1>4, <1>5 DEF Inv, CardInv

\* What does not touch the boot files, nor begins or ends an attempt at them,
\* leaves what the properties rest on.
LEMMA CardQuiet ==
  ASSUME CardInv, fs' = fs, before' = before, stuck' = stuck,
         used'.losses = used.losses, used'.stuck = used.stuck,
         pc = "back" => pc' = "back" /\ revert' = revert,
         StuckInv'
  PROVE  CardInv'
<1>1. KeptInv'
  BY DEF CardInv, KeptInv
<1>2. SoundInv'
  BY DEF CardInv, SoundInv, Uniform
<1>3. NeverMixed'
  BY DEF CardInv, NeverMixed, Bootable
<1> QED
  BY <1>1, <1>2, <1>3 DEF CardInv

(***************************************************************************)
(* The types, action by action.                                            *)
(***************************************************************************)
LEMMA FaultType ==
  ASSUME TypeOK, Fault \/ NoFault
  PROVE  used' \in Counts /\ used'.losses = used.losses /\ used'.stuck = used.stuck
  BY BoundsAssumption DEF TypeOK, Fault, NoFault, Counts

LEMMA StuckType ==
  ASSUME used \in Counts, used.faults < MaxFaults,
         used' = [used EXCEPT !.faults = @ + 1, !.stuck = @ + 1]
  PROVE  used' \in Counts /\ used'.losses = used.losses /\ used'.stuck # 0
<1>1. MaxFaults \in Nat /\ used.stuck \in Nat /\ used.faults \in 0..MaxFaults
  BY BoundsAssumption DEF Counts
<1>2. used.faults + 1 \in 0..MaxFaults /\ used.stuck + 1 \in Nat /\ used.stuck + 1 # 0
  BY <1>1
<1>3. used' = [attempts |-> used.attempts, faults |-> used.faults + 1,
               losses |-> used.losses, stuck |-> used.stuck + 1]
  BY DEF Counts
<1> QED
  BY <1>2, <1>3 DEF Counts

LEMMA FetchTyped ==
  ASSUME Inv,
         Begin \/ MountBootPartition \/ DownloadSoftware \/ Untar \/ VerifyShar
  PROVE  /\ TypeOK' /\ FetchInv' /\ StartInv'
         /\ fs' = fs /\ card' = card /\ before' = before /\ stuck' = stuck
         /\ used'.losses = used.losses /\ used'.stuck = used.stuck
         /\ pc \in {"idle", "mount", "download", "untar", "verify"}
         /\ pc' \in {"idle", "mount", "download", "untar", "verify", "run"}
         /\ pc' = "idle" => rc' \notin {0, 222, 223}
<1> USE DEF Inv, Goto, Exit, Labels, Codes
<1>1. CASE Begin
  BY <1>1, BoundsAssumption DEF Begin, TypeOK, FetchInv, StartInv, Counts
<1>2. CASE MountBootPartition
  <2>1. mounted' \in BOOLEAN
    BY <1>2, Zenon DEF MountBootPartition, TypeOK
  <2>2. Fault \/ NoFault
    BY <1>2 DEF MountBootPartition
  <2> QED
    BY <1>2, <2>1, <2>2, FaultType DEF MountBootPartition, TypeOK, FetchInv, StartInv
<1>3. CASE DownloadSoftware
  BY <1>3, FaultType DEF DownloadSoftware, TypeOK, FetchInv, StartInv, CurlError
<1>4. CASE Untar
  <2>1. tar \in Tars /\ shar \in Shars \cup {None}
    BY <1>4 DEF Untar, TypeOK, FetchInv, StartInv
  <2>2. CASE tar.kind = "garbage"
    BY <1>4, <2>1, <2>2 DEF Untar, TypeOK, FetchInv, StartInv
  <2>3. CASE tar.kind = "incomplete"
    BY <1>4, <2>1, <2>3 DEF Untar, TypeOK, FetchInv, StartInv
  <2>4. CASE tar.kind = "bundle"
    <3>1. tar.shar \in Shars
      BY <2>1, <2>4 DEF Tars
    <3> QED
      BY <1>4, <3>1, <2>4 DEF Untar, TypeOK, FetchInv, StartInv
  <2> QED
    BY <2>1, <2>2, <2>3, <2>4 DEF Tars
<1>5. CASE VerifyShar
  BY <1>5 DEF VerifyShar, TypeOK, FetchInv, StartInv
<1> QED
  BY <1>1, <1>2, <1>3, <1>4, <1>5

\* Until the .shar runs, the boot files are nobody's business.
LEMMA FetchKeeps ==
  ASSUME Inv,
         Begin \/ MountBootPartition \/ DownloadSoftware \/ Untar \/ VerifyShar
  PROVE  Inv'
<1>1. /\ TypeOK' /\ FetchInv' /\ StartInv'
      /\ fs' = fs /\ card' = card /\ before' = before /\ stuck' = stuck
      /\ used'.losses = used.losses /\ used'.stuck = used.stuck
      /\ pc \in {"idle", "mount", "download", "untar", "verify"}
      /\ pc' \in {"idle", "mount", "download", "untar", "verify", "run"}
      /\ pc' = "idle" => rc' \notin {0, 222, 223}
  BY FetchTyped
<1>2. AsideInv' /\ InInv' /\ SyncInv' /\ BackInv'
  BY <1>1 DEF AsideInv, InInv, SyncInv, BackInv
<1>3. StuckInv'
  BY <1>1 DEF Inv, CardInv, StuckInv
<1>4. CardInv'
  BY <1>1, <1>3, CardQuiet DEF Inv
<1> QED
  BY <1>1, <1>2, <1>4 DEF Inv

LEMMA RunSharKeeps ==
  ASSUME Inv, RunShar
  PROVE  Inv'
<1>1. shar \in Shars /\ fs' = fs /\ card' = card /\ used' = used /\ step' = step
  BY DEF Inv, FetchInv, RunShar
<1>2. CASE shar.version = "latest"
  <2>1. pc' = "idle" /\ rc' = 1 /\ target' = target /\ before' = before
    BY <1>2 DEF RunShar, Exit
  <2>s. stuck' = stuck /\ pc = "run"
    BY <1>2 DEF RunShar
  <2>2. TypeOK' /\ FetchInv' /\ StartInv'
    BY <1>1, <2>1, <2>s DEF RunShar, Inv, TypeOK, FetchInv, StartInv, Labels, Codes
  <2>3. AsideInv' /\ InInv' /\ SyncInv' /\ BackInv'
    BY <2>1 DEF AsideInv, InInv, SyncInv, BackInv
  <2>4. StuckInv'
    BY <1>1, <2>1, <2>s DEF Inv, CardInv, StuckInv
  <2>5. CardInv'
    BY <1>1, <2>1, <2>s, <2>4, CardQuiet DEF Inv
  <2> QED
    BY <2>2, <2>3, <2>5 DEF Inv
<1>3. CASE shar.version # "latest"
  <2>1. /\ pc' = "aside" /\ rc' = rc /\ target' \in Versions /\ before' = fs.cur
        /\ step' = 1 /\ stuck' = {}
    BY <1>1, <1>3 DEF RunShar, Goto, Shars, Inv, StartInv
  <2>2. TypeOK' /\ FetchInv' /\ StartInv'
    BY <1>1, <2>1 DEF RunShar, Inv, TypeOK, FetchInv, StartInv, Labels, Partition
  <2>3. AsideInv'
    BY <1>1, <2>1, PartsRank DEF AsideInv
  <2>4. InInv' /\ SyncInv' /\ BackInv'
    BY <2>1 DEF InInv, SyncInv, BackInv
  <2>5. StuckInv' /\ KeptInv'
    BY <1>1, <2>1 DEF StuckInv, KeptInv
  <2>6. Bootable(fs) => (\A f, g \in PartSet : fs.cur[f] = fs.cur[g])
                        \/ used.losses # 0 \/ used.stuck # 0
    BY DEF Inv, CardInv, NeverMixed, StuckInv
  <2>7. NeverMixed'
    BY <1>1, <2>1, <2>6 DEF NeverMixed, Bootable
  <2>8. pc = "run"
    BY DEF RunShar
  <2>9. SoundInv'
    BY <1>1, <2>1, <2>6, <2>8 DEF Inv, CardInv, SoundInv, Uniform, Bootable
  <2> QED
    BY <2>2, <2>3, <2>4, <2>5, <2>7, <2>9 DEF Inv, CardInv
<1> QED
  BY <1>2, <1>3

(***************************************************************************)
(* do_upgrade                                                              *)
(***************************************************************************)
LEMMA MoveAsideKeeps ==
  ASSUME Inv, MoveAside
  PROVE  Inv'
<1> DEFINE p == Parts[step]
<1>1. /\ pc = "aside" /\ step \in 1..3 /\ p \in PartSet /\ Rank[p] = step
      /\ card' = card /\ before' = before /\ target' = target /\ target \in Versions
      /\ \A q \in PartSet : Rank[q] = step => q = p
  BY PartsRank DEF MoveAside, Inv, TypeOK, FetchInv, StartInv
<1>2. /\ fs \in Partition /\ before \in [PartSet -> Files]
      /\ \A q \in PartSet :
           IF Rank[q] < step
           THEN before[q] # None /\ fs.cur[q] = None /\ fs.old[q] = before[q]
           ELSE fs.cur[q] = before[q]
  BY <1>1 DEF Inv, TypeOK, AsideInv
<1>3. used' \in Counts /\ used'.losses = used.losses /\ used'.stuck = used.stuck
  BY FaultType DEF Inv, MoveAside
<1>s. stuck' = {} /\ stuck = {}
  BY <1>1 DEF MoveAside, Inv, CardInv, StuckInv
<1>4. CASE fs.cur[p] # None /\ NextMove("in") /\ revert' = revert
           /\ fs' = [fs EXCEPT !.old[p] = fs.cur[p], !.cur[p] = None]
  <2>1. /\ fs' \in Partition
        /\ fs'.cur[p] = None /\ fs'.old[p] = before[p] /\ before[p] # None
        /\ \A q \in PartSet \ {p} : fs'.cur[q] = fs.cur[q] /\ fs'.old[q] = fs.old[q]
    BY <1>1, <1>2, <1>4, Zenon DEF Partition, Files
  <2>2. \/ step < 3 /\ step' = step + 1 /\ pc' = "aside" /\ rc' = rc
        \/ step = 3 /\ step' = 1 /\ pc' = "in" /\ rc' = rc
    BY <1>1, <1>4 DEF NextMove, Goto
  <2>3. TypeOK' /\ FetchInv' /\ StartInv'
    BY <1>1, <1>3, <1>4, <2>1, <2>2 DEF MoveAside, Inv, TypeOK, FetchInv, StartInv, Labels
  <2>4. \A q \in PartSet : Rank[q] <= step =>
            before[q] # None /\ fs'.cur[q] = None /\ fs'.old[q] = before[q]
    BY <1>1, <1>2, <2>1, PartsRank
  <2>5. AsideInv'
    BY <1>1, <1>2, <2>1, <2>2, <2>4, PartsRank DEF AsideInv
  <2>6. InInv'
    <3> SUFFICES ASSUME pc' = "in" PROVE InInv'
      BY DEF InInv
    <3>1. \A q \in PartSet : before[q] # None /\ fs'.cur[q] = None /\ fs'.old[q] = before[q]
      BY <2>2, <2>4, PartsRank
    <3>2. fs'.old = before
      BY <1>2, <2>1, <3>1 DEF Partition
    <3> QED
      BY <1>1, <2>2, <3>1, <3>2, PartsRank DEF InInv, AllAside
  <2>7. SyncInv' /\ BackInv'
    BY <2>2 DEF SyncInv, BackInv
  <2>8. StuckInv' /\ KeptInv'
    <3>1. StuckInv'
      BY <1>s, <2>2 DEF StuckInv
    <3>2. KeptInv'
      BY <1>1, <2>1 DEF Inv, CardInv, KeptInv
    <3> QED
      BY <3>1, <3>2
  <2>9. SoundInv'
    BY <1>1, <1>2, <1>3, <2>1, <2>2
    DEF Inv, CardInv, SoundInv, Uniform, Sound
  <2>10. NeverMixed'
    BY <1>1, <2>1, NoneBrokenAssumption DEF NeverMixed, Bootable
  <2> QED
    BY <2>3, <2>5, <2>6, <2>7, <2>8, <2>9, <2>10 DEF Inv, CardInv
<1>5. CASE Fail(AsideFails[step]) /\ fs' = fs
  <2>1. /\ AsideFails[step] \in [moves : {0, 1, 3}, code : {220, 221, 222, 223, Pending}]
        /\ AsideFails[step].code \in {220, 221} /\ AsideFails[step].moves \in {0, 1}
        /\ AsideFails[step].moves = 1 => step = 3
    BY <1>1 DEF AsideFails
  <2>2. pc' = "back" /\ revert' = AsideFails[step] /\ step' = 1 /\ rc' = rc
    BY <1>5 DEF Fail
  <2>3. TypeOK' /\ FetchInv' /\ StartInv'
    BY <1>1, <1>3, <1>5, <2>1, <2>2 DEF MoveAside, Inv, TypeOK, FetchInv, StartInv, Labels
  <2>4. AsideInv' /\ InInv' /\ SyncInv'
    BY <2>2 DEF AsideInv, InInv, SyncInv
  <2>5. fs.cur["u-boot.img"] = None \/ (step = 1 /\ fs.cur = before)
    <3>1. "u-boot.img" \in PartSet /\ Rank["u-boot.img"] = 1
      BY DEF PartSet, Rank
    <3>2. CASE step = 1
      BY <1>2, <3>2, PartsRank DEF Partition
    <3> QED
      BY <1>1, <1>2, <3>1, <3>2
  <2>a. step = 3 => fs.old["uImage"] = before["uImage"] /\ before["uImage"] # None
    <3>1. "uImage" \in PartSet /\ Rank["uImage"] = 2
      BY DEF PartSet, Rank
    <3> QED
      BY <1>2, <3>1
  <2>6. BackInv'
    BY <1>1, <1>5, <2>1, <2>2, <2>5, <2>a DEF BackInv, Pending
  <2>7. StuckInv'
    BY <1>s, <2>2 DEF StuckInv
  <2>8. CardInv'
    BY <1>1, <1>3, <1>s, <1>5, <2>7, CardQuiet DEF Inv
  <2> QED
    BY <2>3, <2>4, <2>6, <2>8 DEF Inv
<1> QED
  BY <1>4, <1>5 DEF MoveAside, part

LEMMA MoveInKeeps ==
  ASSUME Inv, MoveIn
  PROVE  Inv'
<1> DEFINE p == Parts[step]
<1>1. /\ pc = "in" /\ step \in 1..3 /\ p \in PartSet /\ Rank[p] = step
      /\ card' = card /\ before' = before /\ target' = target /\ target \in Versions
      /\ \A q \in PartSet : Rank[q] = step => q = p
  BY PartsRank DEF MoveIn, Inv, TypeOK, FetchInv
<1>2. /\ fs \in Partition /\ before \in [PartSet -> Files]
      /\ \A q \in PartSet : before[q] # None
      /\ fs.old = before
      /\ \A q \in PartSet : fs.cur[q] = IF Rank[q] < step THEN target ELSE None
  BY <1>1 DEF Inv, TypeOK, InInv, AllAside
<1>3. used' \in Counts /\ used'.losses = used.losses /\ used'.stuck = used.stuck
  BY FaultType DEF Inv, MoveIn
<1>s. stuck' = {} /\ stuck = {}
  BY <1>1 DEF MoveIn, Inv, CardInv, StuckInv
<1>4. CASE NextMove("sync") /\ revert' = revert
           /\ fs' = [fs EXCEPT !.cur[p] = target]
  <2>1. /\ fs' \in Partition /\ fs'.cur[p] = target /\ fs'.old = fs.old
        /\ \A q \in PartSet \ {p} : fs'.cur[q] = fs.cur[q]
    BY <1>1, <1>2, <1>4 DEF Partition, Files
  <2>2. \/ step < 3 /\ step' = step + 1 /\ pc' = "in" /\ rc' = rc
        \/ step = 3 /\ step' = 1 /\ pc' = "sync" /\ rc' = rc
    BY <1>1, <1>4 DEF NextMove, Goto
  <2>3. TypeOK' /\ FetchInv' /\ StartInv'
    BY <1>1, <1>3, <1>4, <2>1, <2>2 DEF MoveIn, Inv, TypeOK, FetchInv, StartInv, Labels
  <2>4. /\ \A q \in PartSet : Rank[q] <= step => fs'.cur[q] = target
        /\ \A q \in PartSet : Rank[q] > step => fs'.cur[q] = None
    BY <1>1, <1>2, <2>1, PartsRank
  <2>5. AsideInv' /\ BackInv'
    BY <2>2 DEF AsideInv, BackInv
  <2>6. InInv'
    BY <1>1, <1>2, <2>1, <2>2, <2>4, PartsRank DEF InInv, AllAside
  <2>7. SyncInv'
    <3> SUFFICES ASSUME pc' = "sync" PROVE InPlace(fs)'
      BY <2>2 DEF SyncInv
    <3>1. \A q \in PartSet : fs'.cur[q] = target
      BY <2>2, <2>4, PartsRank
    <3>2. fs'.cur = [q \in PartSet |-> target']
      BY <1>1, <2>1, <3>1 DEF Partition
    <3> QED
      BY <1>1, <1>2, <2>1, <3>2 DEF InPlace
  <2>8. StuckInv' /\ KeptInv'
    BY <1>1, <1>2, <1>s, <2>1, <2>2 DEF StuckInv, KeptInv
  <2>a. SoundInv'
    BY <1>1, <1>2, <1>3, <2>1, <2>2
    DEF Inv, CardInv, SoundInv, Uniform, Sound
  <2>9. NeverMixed'
    <3>1. \A q \in PartSet : fs'.cur[q] \in Versions => fs'.cur[q] = target
      BY <1>1, <2>4, PartsRank, NoneBrokenAssumption
    <3> QED
      BY <3>1 DEF NeverMixed, Bootable
  <2> QED
    BY <2>3, <2>5, <2>6, <2>7, <2>8, <2>a, <2>9 DEF Inv, CardInv
<1>5. CASE Fail(InFails[step]) /\ fs' \in {fs, [fs EXCEPT !.cur[p] = Broken]}
  <2>1. /\ InFails[step] \in [moves : {0, 1, 3}, code : {220, 221, 222, 223, Pending}]
        /\ InFails[step].code \in {222, 223} /\ InFails[step].moves = 3
    BY <1>1 DEF InFails
  <2>2. pc' = "back" /\ revert' = InFails[step] /\ step' = 1 /\ rc' = rc
    BY <1>5 DEF Fail
  <2>3. /\ fs' \in Partition /\ fs'.old = fs.old
        /\ \A q \in PartSet \ {p} : fs'.cur[q] = fs.cur[q]
        /\ fs'.cur[p] \in {fs.cur[p], Broken}
    BY <1>1, <1>2, <1>5 DEF Partition, Files
  <2>4. TypeOK' /\ FetchInv' /\ StartInv'
    BY <1>1, <1>3, <2>1, <2>2, <2>3 DEF MoveIn, Inv, TypeOK, FetchInv, StartInv, Labels
  <2>5. AsideInv' /\ InInv' /\ SyncInv'
    BY <2>2 DEF AsideInv, InInv, SyncInv
  <2>6. "spondoolies.dtb" \in PartSet /\ fs'.cur["spondoolies.dtb"] \in {None, Broken}
    <3>1. "spondoolies.dtb" \in PartSet /\ Rank["spondoolies.dtb"] = 3
      BY DEF PartSet, Rank
    <3> QED
      BY <1>1, <1>2, <2>3, <3>1
  <2>7. BackInv'
    BY <1>1, <1>2, <2>1, <2>2, <2>3, <2>6, PartsRank DEF BackInv, Pending
  <2>8. StuckInv' /\ KeptInv'
    BY <1>1, <1>2, <1>s, <2>2, <2>3 DEF StuckInv, KeptInv
  <2>a. SoundInv'
    BY <1>1, <1>2, <1>3, <2>1, <2>2, <2>3
    DEF Inv, CardInv, SoundInv, Uniform, Sound
  <2>9. NeverMixed'
    BY <2>6, NoneBrokenAssumption DEF NeverMixed, Bootable
  <2> QED
    BY <2>4, <2>5, <2>7, <2>8, <2>a, <2>9 DEF Inv, CardInv
<1> QED
  BY <1>4, <1>5 DEF MoveIn, part

LEMMA MoveBackKeeps ==
  ASSUME Inv, MoveBack
  PROVE  Inv'
<1> DEFINE p == BackOrder[step]
           Moved == /\ used' = used /\ stuck' = stuck
                    /\ fs' = [fs EXCEPT !.cur[p] = fs.old[p], !.old[p] = None]
           Stays == /\ used' \in Counts /\ used'.losses = used.losses /\ used'.stuck # 0
                    /\ stuck' = stuck \cup {p} /\ fs' = fs
<1>1. /\ pc = "back" /\ step <= revert.moves /\ step \in 1..3
      /\ p \in PartSet /\ BackRank[p] = step
      /\ \A q \in PartSet : BackRank[q] = step => q = p
  BY PartsRank DEF MoveBack, Inv, TypeOK
<1>2. /\ step' = step + 1 /\ pc' = pc /\ revert' = revert /\ rc' = rc
      /\ target' = target /\ before' = before /\ card' = card
  BY DEF MoveBack
<1>3. /\ fs \in Partition /\ before \in [PartSet -> Files] /\ used \in Counts
      /\ stuck \subseteq PartSet /\ p \notin stuck
      /\ stuck # {} => used.stuck # 0
  BY <1>1 DEF Inv, TypeOK, CardInv, StuckInv
<1>4. revert.code \in {220, 221, 222, 223}
  BY <1>1 DEF Inv, BackInv, TypeOK
<1>5. fs.old[p] = before[p] /\ before[p] # None
  <2>1. CASE revert.code \in {222, 223}
    BY <1>1, <2>1 DEF Inv, BackInv
  <2>2. CASE revert.code \in {220, 221}
    <3>1. step = 1 /\ revert.moves = 1
      BY <1>1, <2>2 DEF Inv, BackInv, TypeOK
    <3>2. p = "uImage"
      BY <3>1 DEF BackOrder
    <3> QED
      BY <1>1, <2>2, <3>1, <3>2 DEF Inv, BackInv
  <2> QED
    BY <1>4, <2>1, <2>2
<1>6. Moved \/ Stays
  <2>1. CASE /\ NoFault
             /\ fs' = IF fs.old[p] = None THEN fs
                      ELSE [fs EXCEPT !.cur[p] = fs.old[p], !.old[p] = None]
             /\ UNCHANGED stuck
    BY <1>5, <2>1 DEF NoFault
  <2>2. CASE /\ used.faults < MaxFaults
             /\ used' = [used EXCEPT !.faults = @ + 1, !.stuck = @ + 1]
             /\ stuck' = stuck \cup {p}
             /\ UNCHANGED fs
    BY <2>2, <1>3, StuckType
  <2> QED
    BY <2>1, <2>2 DEF MoveBack
<1>7. /\ fs' \in Partition
      /\ \A q \in PartSet \ {p} : fs'.cur[q] = fs.cur[q] /\ fs'.old[q] = fs.old[q]
      /\ Moved => fs'.cur[p] = before[p] /\ fs'.old[p] = None
  <2>1. CASE Moved
    BY <1>1, <1>3, <1>5, <2>1, Zenon DEF Partition, Files
  <2>2. CASE Stays
    BY <1>1, <1>3, <1>5, <2>2, NoneBrokenAssumption
  <2> QED
    BY <1>6, <2>1, <2>2
<1>8. used' \in Counts /\ used'.losses = used.losses /\ stuck' \subseteq PartSet
  BY <1>1, <1>3, <1>6
<1>9. TypeOK' /\ FetchInv' /\ StartInv'
  BY <1>1, <1>2, <1>7, <1>8 DEF MoveBack, Inv, TypeOK, FetchInv, StartInv, Labels
<1>10. AsideInv' /\ InInv' /\ SyncInv'
  BY <1>1, <1>2 DEF AsideInv, InInv, SyncInv
<1>11. StuckInv'
  <2>1. \A q \in stuck' : BackRank[q] < step'
    <3>1. \A q \in stuck : BackRank[q] < step
      BY <1>1 DEF Inv, CardInv, StuckInv
    <3>2. \A q \in PartSet : BackRank[q] \in 1..3
      BY PartsRank
    <3> QED
      BY <1>1, <1>2, <1>3, <1>6, <3>1, <3>2
  <2>2. stuck' # {} => used'.stuck # 0
    BY <1>3, <1>6
  <2> QED
    BY <1>1, <1>2, <2>1, <2>2 DEF StuckInv
<1>12. KeptInv'
  <2>1. \A q \in PartSet \ {p} : fs'.cur[q] = before[q] \/ fs'.old[q] = before[q]
    BY <1>7 DEF Inv, CardInv, KeptInv
  <2>2. fs'.cur[p] = before[p] \/ fs'.old[p] = before[p]
    BY <1>5, <1>6, <1>7
  <2> QED
    BY <1>2, <2>1, <2>2 DEF KeptInv
<1>13. SoundInv'
  <2> SUFFICES ASSUME used'.losses = 0, used'.stuck = 0 PROVE SoundInv'
    BY DEF SoundInv
  <2>1. Moved
    BY <1>6
  <2>2. used.losses = 0 /\ used.stuck = 0
    BY <2>1
  <2>3. /\ \A q \in PartSet : before[q] \in Sound /\ fs.old[q] \in Sound
        /\ \A q \in PartSet : fs.cur[q] \in Versions \/ fs.old[q] \in Versions
        /\ Uniform(before)
        /\ revert.code \notin {222, 223} => \A q \in PartSet : fs.cur[q] \in Sound
    BY <2>2 DEF Inv, CardInv, SoundInv
  <2>4. fs'.cur[p] \in Versions /\ fs'.old[p] \in Sound
    BY <1>1, <1>5, <1>7, <2>1, <2>3 DEF Sound
  <2>5. /\ \A q \in PartSet : fs'.old[q] \in Sound
        /\ \A q \in PartSet : fs'.cur[q] \in Versions \/ fs'.old[q] \in Versions
        /\ revert.code \notin {222, 223} => \A q \in PartSet : fs'.cur[q] \in Sound
    BY <1>7, <2>3, <2>4 DEF Sound
  <2> QED
    BY <1>1, <1>2, <2>3, <2>5 DEF SoundInv, Uniform
<1>14. CASE revert.code \in {222, 223}
  <2>1. /\ revert.moves = 3
        /\ \A q \in PartSet :
             /\ before[q] # None
             /\ IF BackRank[q] < step /\ q \notin stuck THEN fs.cur[q] = before[q]
                ELSE fs.old[q] = before[q]
        /\ fs.cur["spondoolies.dtb"] \in {None, Broken}
    BY <1>1, <1>14 DEF Inv, BackInv
  <2>2. "spondoolies.dtb" \in PartSet /\ BackRank["spondoolies.dtb"] = 3
    BY DEF PartSet, BackRank
  <2>3. step' <= 3 => fs'.cur["spondoolies.dtb"] \in {None, Broken}
    BY <1>1, <1>2, <1>7, <2>1, <2>2
  <2>4. \A q \in PartSet : IF BackRank[q] < step' /\ q \notin stuck'
                           THEN fs'.cur[q] = before[q] ELSE fs'.old[q] = before[q]
    <3>1. IF p \notin stuck' THEN fs'.cur[p] = before[p] ELSE fs'.old[p] = before[p]
      BY <1>3, <1>5, <1>6, <1>7
    <3>2. ASSUME NEW q \in PartSet \ {p}
          PROVE  (BackRank[q] < step' <=> BackRank[q] < step) /\ (q \in stuck' <=> q \in stuck)
      <4>1. BackRank[q] \in 1..3 /\ BackRank[q] # step
        BY <1>1, PartsRank
      <4> QED
        BY <1>1, <1>2, <1>6, <4>1
    <3>3. \A q \in PartSet \ {p} : IF BackRank[q] < step' /\ q \notin stuck'
                                   THEN fs'.cur[q] = before[q] ELSE fs'.old[q] = before[q]
      BY <1>7, <2>1, <3>2
    <3>4. BackRank[p] < step'
      BY <1>1, <1>2
    <3> QED
      BY <3>1, <3>3, <3>4
  <2>5. BackInv'
    BY <1>1, <1>2, <1>14, <2>1, <2>3, <2>4 DEF BackInv, Pending
  <2>6. NeverMixed'
    <3>1. CASE step' <= 3
      BY <2>2, <2>3, <3>1, NoneBrokenAssumption DEF NeverMixed, Bootable
    <3>2. CASE step = 3 /\ stuck' # {}
      BY <3>2 DEF NeverMixed
    <3>3. CASE step = 3 /\ stuck' = {}
      <4>1. \A q \in PartSet : fs'.cur[q] = before[q]
        BY <1>2, <2>4, <3>3, PartsRank
      <4>2. fs'.cur = before'
        BY <1>2, <1>3, <1>7, <4>1 DEF Partition
      <4>3. used'.losses = 0 /\ used'.stuck = 0 => Uniform(before')
        BY <1>13 DEF SoundInv, Uniform
      <4> QED
        BY <4>2, <4>3 DEF Uniform, NeverMixed, Bootable
    <3> QED
      BY <1>1, <1>2, <3>1, <3>2, <3>3
  <2> QED
    BY <1>9, <1>10, <1>11, <1>12, <1>13, <2>5, <2>6 DEF Inv, CardInv
<1>15. CASE revert.code \in {220, 221}
  <2>1. step = 1 /\ revert.moves = 1 /\ fs.cur["u-boot.img"] = None
    BY <1>1, <1>15 DEF Inv, BackInv, TypeOK
  <2>2. "u-boot.img" \in PartSet /\ BackRank["u-boot.img"] = 2
    BY DEF PartSet, BackRank
  <2>3. fs'.cur["u-boot.img"] = None
    BY <1>1, <1>7, <2>1, <2>2
  <2>4. BackInv'
    BY <1>1, <1>2, <1>15, <2>1, <2>3 DEF BackInv, Pending
  <2>5. NeverMixed'
    BY <2>2, <2>3, NoneBrokenAssumption DEF NeverMixed, Bootable
  <2> QED
    BY <1>9, <1>10, <1>11, <1>12, <1>13, <2>4, <2>5 DEF Inv, CardInv
<1> QED
  BY <1>4, <1>14, <1>15

LEMMA ExitsKeep ==
  ASSUME Inv, ExitFailed \/ Sync
  PROVE  Inv'
<1>1. CASE ExitFailed
  <2>1. /\ pc = "back" /\ step > revert.moves /\ pc' = "idle" /\ rc' = revert.code
        /\ fs' = fs /\ card' = card /\ before' = before /\ target' = target
        /\ used' = used /\ stuck' = stuck /\ step' = 1 /\ revert' = NoRevert
    BY <1>1 DEF ExitFailed, Exit
  <2>2. revert.code \in {220, 221, 222, 223}
    BY <2>1 DEF Inv, BackInv, TypeOK
  <2>3. NoRevert \in [moves : {0, 1, 3}, code : {220, 221, 222, 223, Pending}]
    BY DEF NoRevert
  <2>4. TypeOK' /\ FetchInv' /\ StartInv'
    BY <1>1, <2>1, <2>2, <2>3 DEF ExitFailed, Inv, TypeOK, FetchInv, StartInv, Labels, Codes
  <2>5. AsideInv' /\ InInv' /\ SyncInv'
    BY <2>1, <2>2 DEF AsideInv, InInv, SyncInv
  <2>6. revert.code \in {222, 223} =>
          \A q \in PartSet : IF q \in stuck THEN fs.old[q] = before[q] ELSE fs.cur[q] = before[q]
    <3> SUFFICES ASSUME revert.code \in {222, 223}, NEW q \in PartSet
                 PROVE  IF q \in stuck THEN fs.old[q] = before[q] ELSE fs.cur[q] = before[q]
      OBVIOUS
    <3>1. revert.moves = 3 /\ (IF BackRank[q] < step /\ q \notin stuck
                              THEN fs.cur[q] = before[q] ELSE fs.old[q] = before[q])
      BY <2>1 DEF Inv, BackInv
    <3>2. step \in 1..4 /\ BackRank[q] \in 1..3
      BY PartsRank DEF Inv, TypeOK
    <3> QED
      BY <2>1, <3>1, <3>2
  <2>7. BackInv'
    BY <2>1, <2>6 DEF BackInv
  <2>8. StuckInv' /\ KeptInv' /\ NeverMixed'
    BY <2>1 DEF Inv, CardInv, StuckInv, KeptInv, NeverMixed, Bootable
  <2>9. SoundInv'
    <3> SUFFICES ASSUME used.losses = 0, used.stuck = 0 PROVE SoundInv'
      BY <2>1 DEF SoundInv
    <3>1. stuck = {}
      BY DEF Inv, CardInv, StuckInv
    <3>2. /\ \A q \in PartSet : before[q] \in Sound /\ fs.old[q] \in Sound
          /\ \A q \in PartSet : fs.cur[q] \in Versions \/ fs.old[q] \in Versions
          /\ Uniform(before)
          /\ revert.code \notin {222, 223} => \A q \in PartSet : fs.cur[q] \in Sound
      BY DEF Inv, CardInv, SoundInv
    <3>3. \A q \in PartSet : fs.cur[q] \in Sound
      BY <2>6, <3>1, <3>2
    <3> QED
      BY <2>1, <3>2, <3>3 DEF SoundInv, Uniform
  <2> QED
    BY <2>4, <2>5, <2>7, <2>8, <2>9 DEF Inv, CardInv
<1>2. CASE Sync
  <2>1. /\ pc = "sync" /\ pc' = "idle" /\ rc' = 0 /\ fs' = fs /\ card' = fs
        /\ before' = before /\ target' = target /\ used' = used /\ step' = step
        /\ stuck' = stuck
    BY <1>2 DEF Sync, Exit
  <2>2. TypeOK' /\ FetchInv' /\ StartInv'
    BY <1>2, <2>1 DEF Sync, Inv, TypeOK, FetchInv, StartInv, Labels, Codes
  <2>3. AsideInv' /\ InInv' /\ SyncInv' /\ BackInv'
    BY <2>1 DEF Inv, AsideInv, InInv, SyncInv, BackInv, InPlace
  <2>4. StuckInv'
    BY <2>1 DEF Inv, CardInv, StuckInv
  <2>5. CardInv'
    BY <2>1, <2>4, CardQuiet DEF Inv
  <2> QED
    BY <2>2, <2>3, <2>5 DEF Inv
<1> QED
  BY <1>1, <1>2

(***************************************************************************)
(* The kernel, the power and the boot                                      *)
(***************************************************************************)
\* What the kernel writes back of an upgrade that succeeded is there already.
LEMMA WritebackKeeps ==
  ASSUME Inv, Writeback
  PROVE  Inv'
<1>1. /\ fs' = fs /\ pc' = pc /\ rc' = rc /\ target' = target /\ before' = before
      /\ step' = step /\ revert' = revert /\ used' = used /\ stuck' = stuck
  BY DEF Writeback
<1>2. card' \in Partition /\ (card = fs => card' = fs)
  <2>1. card \in Partition /\ fs \in Partition
    BY DEF Inv, TypeOK
  <2> QED
    BY <2>1 DEF Writeback, Partition
<1>3. TypeOK' /\ FetchInv' /\ StartInv'
  BY <1>1, <1>2 DEF Writeback, Inv, TypeOK, FetchInv, StartInv
<1>4. AsideInv' /\ InInv' /\ BackInv'
  BY <1>1 DEF Inv, AsideInv, InInv, BackInv, AllAside
<1>5. SyncInv'
  <2>1. pc = "sync" => InPlace(fs)
    BY DEF Inv, SyncInv
  <2>2. pc = "idle" /\ rc = 0 /\ target # None => InPlace(fs) /\ card = fs
    BY DEF Inv, SyncInv, InPlace, TypeOK, Partition
  <2> QED
    BY <1>1, <1>2, <2>1, <2>2 DEF SyncInv, InPlace
<1>6. StuckInv'
  BY <1>1 DEF Inv, CardInv, StuckInv
<1>7. CardInv'
  BY <1>1, <1>6, CardQuiet DEF Inv
<1> QED
  BY <1>3, <1>4, <1>5, <1>7 DEF Inv

LEMMA ComeUpKeeps ==
  ASSUME Inv, NEW c \in Partition, ComeUp(c), rc' = Lost,
         used' \in Counts,
         used'.losses # 0 \/ (used' = used /\ pc = "idle" /\ c = fs)
  PROVE  Inv'
<1>1. /\ fs' = c /\ card' = c /\ before' = c.cur /\ target' = None /\ step' = 1
      /\ pc' \in {"idle", "bricked"} /\ media' = media
      /\ mounted' = FALSE /\ tar' = None /\ shar' = None /\ revert' = NoRevert
      /\ stuck' = {}
  BY DEF ComeUp
<1>2. mounted' \in BOOLEAN
  BY <1>1
<1>3. NoRevert \in [moves : {0, 1, 3}, code : {220, 221, 222, 223, Pending}]
  BY DEF NoRevert
<1>4. TypeOK' /\ FetchInv' /\ StartInv'
  BY <1>1, <1>2, <1>3
  DEF Inv, TypeOK, FetchInv, StartInv, Labels, Codes, Partition
<1>5. AsideInv' /\ InInv' /\ SyncInv' /\ BackInv'
  BY <1>1 DEF AsideInv, InInv, SyncInv, BackInv, Lost
<1>6. StuckInv' /\ KeptInv'
  BY <1>1 DEF StuckInv, KeptInv
<1>7. Bootable(fs) => (\A f, g \in PartSet : fs.cur[f] = fs.cur[g])
                      \/ used.losses # 0 \/ used.stuck # 0
  BY DEF Inv, CardInv, NeverMixed, StuckInv
<1>8. NeverMixed'
  BY <1>1, <1>7 DEF NeverMixed, Bootable
<1>9. SoundInv'
  <2> SUFFICES ASSUME used' = used, pc = "idle", c = fs, used.losses = 0, used.stuck = 0
               PROVE  SoundInv'
    BY DEF SoundInv
  <2>1. /\ \A p \in PartSet : fs.old[p] \in Sound /\ fs.cur[p] \in Sound
        /\ \A p \in PartSet : fs.cur[p] \in Versions \/ fs.old[p] \in Versions
    BY DEF Inv, CardInv, SoundInv
  <2>2. Uniform(fs.cur)
    BY <1>7 DEF Uniform, Bootable
  <2> QED
    BY <1>1, <2>1, <2>2 DEF SoundInv, Uniform
<1> QED
  BY <1>4, <1>5, <1>6, <1>8, <1>9 DEF Inv, CardInv

LEMMA DownKeeps ==
  ASSUME Inv, PowerLoss \/ Reboot
  PROVE  Inv'
<1>1. fs \in Partition /\ card \in Partition
  BY DEF Inv, TypeOK
<1>2. CASE PowerLoss
  <2>1. /\ used' \in Counts
        /\ used'.losses # 0
    BY <1>2, BoundsAssumption DEF PowerLoss, Inv, TypeOK, Counts
  <2> QED
    BY <1>1, <1>2, <2>1, ComeUpKeeps DEF PowerLoss
<1>3. CASE Reboot
  BY <1>1, <1>3, ComeUpKeeps DEF Reboot, Inv, TypeOK
<1> QED
  BY <1>2, <1>3

-------------------------------------------------------------------------------
\* Where an upgrade stands, what the partition holds: the files moved so far are
\* aside, those copied so far are the target's, those moved back are as before.
THEOREM Invariance == Spec => []Inv
<1>1. ASSUME Inv, [Next]_vars PROVE Inv'
  <2>1. CASE UNCHANGED vars
    <3>1. TypeOK' /\ FetchInv' /\ StartInv'
      BY <1>1, <2>1 DEF vars, Inv, TypeOK, FetchInv, StartInv
    <3>2. AsideInv' /\ InInv' /\ SyncInv' /\ BackInv'
      BY <1>1, <2>1 DEF vars, Inv, AsideInv, InInv, AllAside, SyncInv, InPlace, BackInv
    <3>3. StuckInv'
      BY <1>1, <2>1 DEF vars, Inv, CardInv, StuckInv
    <3>4. CardInv'
      BY <1>1, <2>1, <3>3, CardQuiet DEF vars, Inv
    <3> QED
      BY <3>1, <3>2, <3>4 DEF Inv
  <2> QED
    BY <1>1, <2>1, FetchKeeps, RunSharKeeps, MoveAsideKeeps, MoveInKeeps, MoveBackKeeps,
       ExitsKeep, WritebackKeeps, DownKeeps
    DEF Next, Upgrade
<1> QED
  BY <1>1, InvInit, PTL DEF Spec

\* The variables of the upgrade keep their types, however many upgrades are
\* attempted.
THEOREM Typed == Spec => []TypeOK
<1>1. Inv => TypeOK
  BY DEF Inv
<1> QED
  BY <1>1, Invariance, PTL

\* An upgrade that exits with 0 has put its three boot files on the card and
\* those it found beside them: the moves of do_upgrade and the sync at its end.
THEOREM SuccessIsOnTheCardAlways == Spec => []SuccessIsOnTheCard
<1>1. Inv => SuccessIsOnTheCard
  BY DEF Inv, SyncInv, InPlace, SuccessIsOnTheCard
<1> QED
  BY <1>1, Invariance, PTL

\* An upgrade that exits with 222 or 223 leaves each boot file it found in place,
\* wherever the copy failed, or aside if it could not be moved back: the moves
\* back of do_upgrade, of which any may fail.
THEOREM RevertRestoresAlways == Spec => []RevertRestores
<1>1. Inv => RevertRestores
  BY DEF Inv, BackInv, RevertRestores
<1> QED
  BY <1>1, Invariance, PTL

\* An upgrade makes no partition that boots with files of two versions, in the
\* middle of the moves there and back included, unless a move back failed; it
\* may have found one, after a loss of power or such an upgrade.
THEOREM NeverMixedAlways == Spec => []NeverMixed
<1>1. Inv => NeverMixed
  BY DEF Inv, CardInv
<1> QED
  BY <1>1, Invariance, PTL

\* What was whole when an upgrade began is in place or aside, whole, at each of
\* its steps, whatever fails; and all files are, as long as no power was lost and
\* no move back failed.
THEOREM NothingIsLostAlways == Spec => []NothingIsLost
<1>1. Inv => NothingIsLost
  <2>1. KeptInv /\ SoundInv => NothingIsLost
    BY DEF KeptInv, SoundInv, NothingIsLost
  <2> QED
    BY <2>1 DEF Inv, CardInv
<1> QED
  BY <1>1, Invariance, PTL
===============================================================================
