--------------------------- MODULE SoftwareUpgrade ---------------------------
(***************************************************************************)
(* The software upgrade of one miner: upgrade-software.sh (and its twin    *)
(* upgrade-software-from-file.sh) fetches a tar ball, takes spon.shar out  *)
(* of it, verifies its signature and runs it; the sw-upgrade.sh inside     *)
(* moves the boot files of the mounted boot partition aside and the new    *)
(* ones in.  The partition is a vfat mounted without sync: what a command  *)
(* writes reaches the card when the kernel pleases (Writeback) or at sync, *)
(* and a loss of power keeps what did.                                     *)
(***************************************************************************)
EXTENDS Naturals, Sequences

CONSTANTS
    Versions,    \* software versions
    Shipped,     \* the one on the card
    None,        \* no file
    Broken,      \* a file that was copied in part
    MaxAttempts, \* bound on the upgrades attempted
    MaxFaults,   \* bound on the commands that fail
    MaxLosses    \* bound on the losses of power

ASSUME ShippedAssumption == Shipped \in Versions
ASSUME NoneBrokenAssumption ==
    None \notin Versions /\ Broken \notin Versions /\ None # Broken
ASSUME BoundsAssumption == {MaxAttempts, MaxFaults, MaxLosses} \subseteq Nat

\* The boot files, in the order sw-upgrade.sh moves them aside and in.
Parts   == <<"u-boot.img", "uImage", "spondoolies.dtb">>
PartSet == {"u-boot.img", "uImage", "spondoolies.dtb"}

\* spon.shar: the version inside, or the script that only says that there is
\* nothing to upgrade, and whether its signature fits.
Shars == [version : Versions \cup {"latest"}, signed : BOOLEAN]

\* What the server delivers: something tar cannot read to its end, a tar
\* without spon.shar, or a bundle.
Tars == [kind : {"garbage", "incomplete"}, shar : {None}]
        \cup [kind : {"bundle"}, shar : Shars]

VARIABLES
    media,    \* bootfrom=, as the kernel was booted
    mounted,  \* the boot partition is in /proc/mounts
    tar,      \* the tar ball in /tmp
    shar,     \* spon.shar in /tmp, which nothing removes
    fs,       \* the boot partition as the commands see it
    card,     \* the boot partition as it is on the card
    pc,       \* where the upgrade stands
    step,     \* the move of do_upgrade, there or back, under way
    revert,   \* how many parts a failed upgrade moves back, and its exit code
    rc,       \* the exit code of the last upgrade, or pending
    target,   \* the version in the .shar that runs
    before,   \* the boot files when do_upgrade began
    stuck,    \* the parts it could not move back
    used      \* attempts, faults and losses so far, and the moves back that failed

vars == <<media, mounted, tar, shar, fs, card, pc, step, revert, rc, target,
          before, stuck, used>>

\* Exit codes, CurlError for any of curl's; Pending while an upgrade runs and
\* Lost after the system went down.
CurlError == 22
Pending == 256
Lost == 257

NoRevert == [moves |-> 0, code |-> Pending]

ShippedCard == [cur |-> [p \in PartSet |-> Shipped], old |-> [p \in PartSet |-> None]]

Init ==
    /\ media \in {"sd", "mmc", "net"}
    /\ mounted = FALSE
    /\ tar = None
    /\ shar = None
    /\ fs = ShippedCard
    /\ card = ShippedCard
    /\ pc = "idle"
    /\ step = 1
    /\ revert = NoRevert
    /\ rc = 0
    /\ target = None
    /\ before = fs.cur
    /\ stuck = {}
    /\ used = [attempts |-> 0, faults |-> 0, losses |-> 0, stuck |-> 0]

(***************************************************************************)
(* upgrade-software.sh: each function goes on or exits with its code.      *)
(***************************************************************************)
Goto(l) == pc' = l /\ UNCHANGED rc
Exit(code) == pc' = "idle" /\ rc' = code

\* A command fails although nothing in the model makes it fail.
Fault == used.faults < MaxFaults /\ used' = [used EXCEPT !.faults = @ + 1]
NoFault == UNCHANGED used

\* parse_args, detect_boot_source and is_upgradeable
Begin ==
    /\ pc = "idle"
    /\ used.attempts < MaxAttempts
    /\ used' = [used EXCEPT !.attempts = @ + 1]
    /\ IF media = "net" THEN Exit(202) ELSE pc' = "mount" /\ rc' = Pending
    /\ target' = None
    /\ UNCHANGED <<media, mounted, tar, shar, fs, card, step, revert, before, stuck>>

MountBootPartition ==
    /\ pc = "mount"
    /\ \/ NoFault /\ mounted' = TRUE /\ Goto("download")
       \/ ~mounted /\ Fault /\ Exit(204) /\ UNCHANGED mounted
    /\ UNCHANGED <<media, tar, shar, fs, card, step, revert, target, before, stuck>>

DownloadSoftware ==
    /\ pc = "download"
    /\ \/ NoFault /\ tar' \in Tars /\ Goto("untar")
       \/ Fault /\ Exit(CurlError) /\ UNCHANGED tar
    /\ UNCHANGED <<media, mounted, shar, fs, card, step, revert, target, before, stuck>>

\* A tar that holds no spon.shar passes the test of [ -f spon.shar ] if an
\* earlier upgrade left one in /tmp.
Untar ==
    /\ pc = "untar"
    /\ CASE tar.kind = "garbage" ->
              /\ shar' \in {shar} \cup {s \in Shars : ~s.signed}
              /\ Exit(206)
              /\ UNCHANGED tar
         [] tar.kind = "incomplete" /\ shar = None -> Exit(208) /\ UNCHANGED <<tar, shar>>
         [] OTHER ->
              /\ shar' = IF tar.kind = "incomplete" THEN shar ELSE tar.shar
              /\ tar' = None
              /\ Goto("verify")
    /\ UNCHANGED <<media, mounted, fs, card, step, revert, target, before, stuck, used>>

VerifyShar ==
    /\ pc = "verify"
    /\ IF shar.signed THEN Goto("run") ELSE Exit(207)
    /\ UNCHANGED <<media, mounted, tar, shar, fs, card, step, revert, target, before, stuck, used>>

\* sh spon.shar unpacks into a directory of its own and runs sw-upgrade.sh.
RunShar ==
    /\ pc = "run"
    /\ IF shar.version = "latest"
       THEN Exit(1) /\ UNCHANGED <<target, before, stuck>>
       ELSE /\ target' = shar.version
            /\ before' = fs.cur
            /\ stuck' = {}
            /\ Goto("aside")
    /\ UNCHANGED <<media, mounted, tar, shar, fs, card, step, revert, used>>

(***************************************************************************)
(* do_upgrade of sw-upgrade.sh.                                            *)
(***************************************************************************)
part == Parts[step]

\* From one move to the next, and to the next group after the third.
NextMove(l) ==
    IF step < 3 THEN step' = step + 1 /\ UNCHANGED <<pc, rc>>
    ELSE step' = 1 /\ Goto(l)

\* How many parts, in the order of BackOrder, the script moves back before it
\* exits, and its code, when it could not move a part aside or in.
\* Variant: the boot loader is not moved back.
BackOrderNoUBoot == <<"uImage", "spondoolies.dtb", "spondoolies.dtb">>
BackOrder == <<"uImage", "u-boot.img", "spondoolies.dtb">>

AsideFails == <<[moves |-> 0, code |-> 220],
                [moves |-> 0, code |-> 220],
                [moves |-> 1, code |-> 221]>>
\* Variant: a failed copy of uImage moves back uImage alone.
InFailsPartly == <<[moves |-> 3, code |-> 222],
                   [moves |-> 1, code |-> 222],
                   [moves |-> 3, code |-> 223]>>
InFails    == <<[moves |-> 3, code |-> 222],
                [moves |-> 3, code |-> 222],
                [moves |-> 3, code |-> 223]>>

Fail(how) == pc' = "back" /\ revert' = how /\ step' = 1 /\ UNCHANGED rc

\* Variant: the old file is removed, not moved.
MoveAsideRemoves ==
    /\ pc = "aside"
    /\ fs.cur[part] # None
    /\ NoFault
    /\ fs' = [fs EXCEPT !.cur[part] = None]
    /\ NextMove("in")
    /\ UNCHANGED <<media, mounted, tar, shar, card, revert, target, before, stuck>>

\* mv -f <part> <part>.old, which also fails if there is no <part>.
MoveAside ==
    /\ pc = "aside"
    /\ \/ /\ fs.cur[part] # None
          /\ NoFault
          /\ fs' = [fs EXCEPT !.old[part] = fs.cur[part], !.cur[part] = None]
          /\ NextMove("in")
          /\ UNCHANGED revert
       \/ /\ IF fs.cur[part] = None THEN NoFault ELSE Fault
          /\ Fail(AsideFails[step])
          /\ UNCHANGED fs
    /\ UNCHANGED <<media, mounted, tar, shar, card, target, before, stuck>>

\* mv -f ${curdir}/<part> <part>: a copy from another file system, which may
\* stop half-way.
MoveIn ==
    /\ pc = "in"
    /\ \/ /\ NoFault
          /\ fs' = [fs EXCEPT !.cur[part] = target]
          /\ NextMove("sync")
          /\ UNCHANGED revert
       \/ /\ Fault
          /\ fs' \in {fs, [fs EXCEPT !.cur[part] = Broken]}
          /\ Fail(InFails[step])
    /\ UNCHANGED <<media, mounted, tar, shar, card, target, before, stuck>>

\* mv <part>.old <part>, which nothing tests: the script goes on when it
\* fails, also for want of a <part>.old, and exits with the code it was to.
MoveBack ==
    /\ pc = "back"
    /\ step <= revert.moves
    /\ LET p == BackOrder[step]
       IN  \/ /\ NoFault
              /\ fs' = IF fs.old[p] = None THEN fs
                       ELSE [fs EXCEPT !.cur[p] = fs.old[p], !.old[p] = None]
              /\ UNCHANGED stuck
           \/ /\ used.faults < MaxFaults
              /\ used' = [used EXCEPT !.faults = @ + 1, !.stuck = @ + 1]
              /\ stuck' = stuck \cup {p}
              /\ UNCHANGED fs
    /\ step' = step + 1
    /\ UNCHANGED <<media, mounted, tar, shar, card, pc, revert, rc, target, before>>

ExitFailed ==
    /\ pc = "back"
    /\ step > revert.moves
    /\ Exit(revert.code)
    /\ revert' = NoRevert
    /\ step' = 1
    /\ UNCHANGED <<media, mounted, tar, shar, fs, card, target, before, stuck, used>>

\* Variant: no sync.
SyncMissing ==
    /\ pc = "sync"
    /\ Exit(0)
    /\ UNCHANGED <<media, mounted, tar, shar, fs, card, step, revert, target, before, stuck, used>>

Sync ==
    /\ pc = "sync"
    /\ card' = fs
    /\ Exit(0)
    /\ UNCHANGED <<media, mounted, tar, shar, fs, step, revert, target, before, stuck, used>>

(***************************************************************************)
(* The kernel, the power and the boot.                                     *)
(***************************************************************************)
\* The kernel writes one file of the cache back, in any order.
Writeback ==
    /\ mounted
    /\ \E p \in PartSet :
         \/ card.cur[p] # fs.cur[p] /\ card' = [card EXCEPT !.cur[p] = fs.cur[p]]
         \/ card.old[p] # fs.old[p] /\ card' = [card EXCEPT !.old[p] = fs.old[p]]
    /\ UNCHANGED <<media, mounted, tar, shar, fs, pc, step, revert, rc, target, before, stuck, used>>

\* The boot loader needs all three files, whole.
Bootable(p) == \A f \in PartSet : p.cur[f] \in Versions

\* What is left after the system goes down with the card in state c: /tmp is
\* empty, and the miner comes up again if the card lets it.
ComeUp(c) ==
    /\ card' = c
    /\ fs' = c
    /\ pc' = IF Bootable(c) \/ media = "net" THEN "idle" ELSE "bricked"
    /\ mounted' = FALSE /\ tar' = None /\ shar' = None
    /\ step' = 1 /\ revert' = NoRevert /\ target' = None /\ before' = c.cur
    /\ stuck' = {}
    /\ UNCHANGED media

PowerLoss ==
    /\ pc # "bricked"
    /\ used.losses < MaxLosses
    /\ used' = [used EXCEPT !.losses = @ + 1]
    /\ rc' = Lost
    /\ ComeUp(card)

\* ``Please reboot the miner.''  An orderly reboot unmounts the partition.
Reboot ==
    /\ pc = "idle"
    /\ rc # Lost
    /\ rc' = Lost
    /\ ComeUp(fs)
    /\ UNCHANGED used

Upgrade == \/ Begin \/ MountBootPartition \/ DownloadSoftware \/ Untar
           \/ VerifyShar \/ RunShar \/ MoveAside \/ MoveIn \/ MoveBack
           \/ ExitFailed \/ Sync

Next == Upgrade \/ Writeback \/ PowerLoss \/ Reboot

Spec == Init /\ [][Next]_vars

-----------------------------------------------------------------------------
\* An upgrade that says it succeeded has put the version it was given on the
\* card, all three files of it, with the one that ran before beside it.
SuccessIsOnTheCard ==
    pc = "idle" /\ rc = 0 /\ target # None =>
        /\ card.cur = [p \in PartSet |-> target]
        /\ card.old = before

\* ``revert to the old version'' (codes 222 and 223): wherever a copy failed,
\* each boot file is what the upgrade found.  A file that could not be moved back
\* itself is still aside, and hinders no other.
RevertRestores ==
    pc = "idle" /\ rc \in {222, 223} =>
        \A p \in PartSet : IF p \in stuck THEN fs.old[p] = before[p] ELSE fs.cur[p] = before[p]

\* At every moment of an upgrade and of its revert, a partition the boot loader
\* would boot holds one version, or is as the upgrade found it; and it finds a
\* mixture only after a loss of power or after an upgrade that could not move a
\* part back.  (That one may leave a mixture: README.)
NeverMixed ==
    Bootable(fs) =>
        \/ \A f, g \in PartSet : fs.cur[f] = fs.cur[g]
        \/ stuck # {}
        \/ fs.cur = before /\ (used.losses # 0 \/ used.stuck # 0)

\* A boot file that was whole when an upgrade began is in place or aside at every
\* step of the upgrade and its revert, whatever fails.  As long as no power was
\* lost and no move back failed, all are, after any number of failed upgrades.
NothingIsLost ==
    \A p \in PartSet :
        before[p] \in Versions \/ (used.losses = 0 /\ used.stuck = 0) =>
            fs.cur[p] \in Versions \/ fs.old[p] \in Versions
=============================================================================
