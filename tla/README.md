# A verification of the miner software

This directory holds TLA+ models of the software of a Spondoolies miner
(`src/sw`), the TLC configurations that check them, and TLAPS proofs. The
repository is not one program but what goes on one machine: shell scripts that
supervise the mining daemons and upgrade the software, a host library for an FPGA
board, a kernel module for `/dev/crypto`, and the player of Jam programs that
configures an FPGA over JTAG. Each is modelled on its own; where one relies on
another (the upgrade reboots what the scripts then start) the interface is narrow
and the model has it as a step of the environment.

Run everything from this directory:

    tlc -workers 2 -config SpondLib.cfg SpondLib      # a model
    tlapm MinerSupervisorProofs.tla                   # the proofs, also of
                                                      # SoftwareUpgrade, SpondLib,
                                                      # CryptoSessions, CryptoAsync,
                                                      # CryptoCalls, JamTap, JamExec

`PROJECT.json` lists the runs, the mutants every property is tried against, the
lines of source each definition stands for, the hazards and the theorems.

## Inventory

Paths are relative to `src/sw`.

| Part | State | Operations | Talks to | What is hard |
|---|---|---|---|---|
| Miner supervision: `vladik/add-ons/fs/usr/local/bin/{spond-runner, spond-manager, miner_starter_simple}` | pid files and the flag `spond-manager.running` in /var/run, `/etc/mining_status`, processes | start, stop, restart; the poll loop; the watchdog subshell | each other through files, signals | every command is a step of its own, nothing locks; processes die at any time |
| Software upgrade: `vladik/provisioning`, `vladik/shar` | boot partition (cached), files in /tmp | mount, download, untar, verify, move aside, move in, move back, sync | server, boot loader | failing commands, loss of power, what earlier upgrades left |
| Host library: `old/host_sw/spond_lib.cpp` | works_map, free slots, the command under way, leading zeroes | connect, give work, drop work, poll thread | board over a serial line, application threads and a callback | answers race their waiters, ids are reused, the board outlives the process |
| Crypto device: `vladik/cryptodev-linux-1.6` | the list of sessions of an open file, a mutex per session, page arrays, job lists, hash state | session create/finish/info, crypt, auth-crypt, asynchronous crypt/fetch/poll, close | threads of a program, a kernel work queue, the kernel's crypto API, user memory | two levels of locks, memory that is freed, partial failures, numeric edges of pages and padding |
| Jam player, JTAG side: `vladik/jtag/jam/jamjtag.c` | belief of the TAP state, stop states, padding buffers | scans, moves, waits, padding | the chain, which it cannot see | belief against truth; tables; bits between padding and target |
| Jam player, interpreter: `vladik/jtag/jam/{jamexec,jamstack,jamsym,jamheap}.c` | file position, stack, symbol table, phase | statements, procedures, blocks | the above | nested execution, scopes, limits |
| Jam player, data: `vladik/jtag/jam/{jamarray,jamcomp,jamcrc,jamnote,jamutil}.c`, the declarations, assignments and scans of `jamexec.c` | types, places and values of symbols; the file | declare, read from the statement or from the file, decompress, assign, capture, compare | interpreter, JTAG side | two readers of one text, two versions with opposite orders, ranges, redeclaration |
| Jam player, expressions: `vladik/jtag/jam/jamexp.c` | the parser's stack; `jam_return_code`, `jam_array_symbol_rec`, `jam_expression_type` | read, reduce, evaluate | symbol table | globals that the lexer and the evaluation share, types, overflow |
| Jam player, vectors: VMAP and VECTOR in `jamexec.c`, `jam_vector_map` and `jam_vector_io` in `jamstub.c` | which signal has which place, the pins | name, set, read, compare | a serial port | order of the names, inputs and outputs in one vector |
| Start of a miner: `etc/init.d/*`, `miner_starter`, `ifup-requester`, `hotplug.sh`, `eeprom-provisioning.sh`, `mining_watchdog`, `wifi-conf-create.sh`, `fans.sh`, `reset_i2c.sh` | mounts, interfaces, `/var/run/dont_reboot` | boot-time configuration, reboot when nothing is mined | supervision | the mining watchdog against an upgrade |
| Others: `ipaddr_state`, `scripts/perform_asics_test.sh`, `old/host_sw/spond_lib_fake.cpp`, `usefull-stuff/*` (an operator's loops over many miners), `recovery*`, `tools`, `scripts` (images and cards), `old/SW_TEST_MINER` (SHA-256 in C++), `extras/eng_cryptodev.c` (OpenSSL), `memtester-4.3.0`, configuration and binaries | - | - | - | see `PROJECT.json`, components |

What makes each part correct, in a sentence:

* *Supervision*: one watchdog at most; whatever runs can be stopped; a stop is
  over when the flag says so; mining runs in the end whenever it is wanted.
* *Upgrade*: "success" means the card boots the new version; a failure leaves the
  old one; never a mixture, never the only copy lost.
* *Host library*: the board is never overfilled; an answer is taken for the work it
  is about; every work is finished.
* *Crypto device*: no use after free, a session is worked on by one thread, jobs
  keep their order and none is lost, pages are unpinned once each, records are
  opened if and only if they are what was sent, digests are of the message.
* *Jam player*: the player knows where the TAP is, and scans move the bits the
  program asked for; a call comes back to where it was made, data blocks are executed
  once and before they are used, and what is there is found; an array has the value
  its text means, an assignment and a capture change the bits they name and no other,
  and an expression that has a value is evaluated to it.

## Modules

| Module | Models | Extends / instantiates |
|---|---|---|
| `MinerSupervisor` | spond-runner, spond-manager, the poll loop of miner_starter_simple | implements `MiningService` |
| `MiningService` | abstract: mining is claimed, up, down, off, with one instance | |
| `MinerSupervisorProofs` | theorems about `MinerSupervisor` | `TLAPS` |
| `MCMinerSupervisor` | the set of pids for TLC | |
| `SoftwareUpgrade` | upgrade-software.sh and the sw-upgrade.sh in the bundle | |
| `SoftwareUpgradeProofs` | theorems about `SoftwareUpgrade` | `TLAPS` |
| `SpondLib` | the host library with its threads, and the board (external) | |
| `SpondLibProofs` | theorems about `SpondLib` | `TLAPS` |
| `CryptoSessions` | sessions of an open file, their mutexes | implements `SessionStore` |
| `SessionStore` | abstract: a store of sessions, one user each, freed when out of it | |
| `CryptoSessionsProofs` | theorems about `CryptoSessions` | `TLAPS` |
| `CryptoAsync` | the asynchronous calls and the work queue | implements `AsyncQueue` |
| `AsyncQueue` | abstract: a bounded queue whose jobs are done in order | |
| `CryptoAsyncProofs` | theorems about `CryptoAsync` | `TLAPS` |
| `CryptoPages` | pages of a call's buffers: counted, pinned, listed, released | extends `ScatterList` |
| `ScatterList` | the scatterlist helpers of util.c and zc.c as operators | |
| `CryptoRecords` | TLS and SRTP records | |
| `CryptoDigest` | digests over several calls | |
| `CryptoCalls` | what the calls of a session do with data, one of the three concerns at a time | extends `CryptoPages`, instantiates `CryptoRecords`, `CryptoDigest` |
| `CryptoCallsProofs` | theorems about pages, lists, records and digests in `CryptoCalls` | `TLAPS` |
| `JamTap` | the JTAG side of the Jam player with the chain | |
| `JamTapProofs` | theorems about `JamTap` | `TLAPS` |
| `JamExec` | the interpreter of the Jam player: control, calls, stack, symbols | |
| `JamExecProofs` | theorems about `JamExec` | `TLAPS` |
| `JamLiterals` | the texts of arrays: statement buffer, file, representations, decompression | |
| `JamArrays` | declarations, array arguments, assignment, the data of scans | extends `JamLiterals` |
| `JamVectors` | VMAP and VECTOR, the pins | extends `JamArrays` |
| `JamExpressions` | the parser's stack and globals, the operators | |
| `MCCryptoSessions`, `MCJamTap`, `MCJamExec`, `MCJamData`, `MCJamExpressions` | symmetry, programs, expressions and values for TLC; the two of the data also what a text and an expression mean | |

The type invariant of `MinerSupervisor` is checked and proved, those of `CryptoSessions`,
`SoftwareUpgrade`, `SpondLib`, `CryptoAsync`, `JamTap` and `JamExec` (in the modules of the proofs)
are proved; the other modules have none of their own, their invariants break if a value is out of its type.

### How state and actions correspond to the code

**MinerSupervisor.** A variable per file (`status` is /etc/mining_status, `runFlag`
is spond-manager.running, `pidFile` the three pid files), a set of processes per
kind of daemon, the watchdog subshells with their program counter, and per shell
that runs spond-runner its program counter and shell variables (`caller`). One
action is one command of a script: `StartCheck` is the `[ -e ... ]` of start_mg,
`StartFlag` the touch, `StartFork` the `&`, `StartWrite` the `echo $! >`. A test
and the command it guards are different steps, which is where the races are.
`Crash` and `IpChange` are the environment. A forked process takes the lowest free
pid; a pid is used again after its process is gone, which the pid files do not know.

**SoftwareUpgrade.** `fs` is the boot partition as commands see it, `card` what a
loss of power would leave; `Writeback` moves one file's entry at a time, `Sync` all.
Every command may fail (`MaxFaults`), each with the exit code of the script. So may the
moves back of a revert; the script does not test those, goes on to the next and exits with
the code it was to. `stuck` is the set of the parts a move back of which failed in this
upgrade, `used.stuck` counts such failures over all upgrades. Both
scripts of `vladik/provisioning` are covered: they differ in the download.

**SpondLib.** Threads are program counters through `send_cmd_to_board` (lock pm,
write, arm the timed wait, wait, wake), the poll thread handles one line of the
board at a time, the board takes commands from `toBoard` and answers on `toHost`.
An assert that fails sets `aborted`; the process can be started anew (`Restart`)
while the board goes on. `FreeSlots` decodes the word of CHIPSTATE. The application
numbers works as spond_test does, with a new id on every attempt, also on those that
spond_give_work refuses (`RefuseWork`), so that between two works any number of ids may
go by, and works_map[id] may still hold an earlier work, which `GiveWork` overwrites. The
history variable `used.reused` says that this has happened to a work underway, that is, one
that the board has, has still to hear of, or has told of in lines not read, or whose call has not
returned. (Each work has a SPOND_WORK of its own here; spond_test fills in the same
one again for each, of which the library keeps the pointer.)

**CryptoSessions.** What runs with fcr->sem held and does not block is one action;
waiting for a session's mutex with fcr->sem held is a program counter of its own,
because it is there that everybody else is made to wait. `crypto_run` looks a
session up twice (once for the size of the initialisation vector), which are two
actions. Freed sessions are memory that may be used again.

**CryptoAsync.** The lists are lengths or sequences of job contents, a thread in the
middle of a call has the item in hand; the work queue is `pending` and `worker`.

**CryptoPages.** One call at a time (the session's mutex). `slots` keeps what
earlier calls left in ses->pages; `refs` counts the references the driver has to a
page; pinning may get some pages only. Pages have two bytes.

**CryptoRecords, CryptoDigest.** Cipher and hash are ideal: a cipher text says what
it encrypts, a tag what it covers.

**JamTap.** One action per statement. `chain` is a TAP controller of IEEE 1149.1
with one data and one instruction register; every TMS and TDI bit of the player goes
through `ClockChain`. `jam_jtag_state` is the player's belief. The tables
(`jam_jtag_state_transitions`, `jam_jtag_path_map`) are the code's, to the bit.

**JamExec.** A program is a sequence of statements with labels, a file position the
number of a statement. `jam_execute`, `jam_process_action`, `jam_call_procedure` and
`jam_process_uses_item` call each other; `frames` are those C calls with their local
variables (what is left of a list, where to return to, the stack, block and phase they
found, the statement that an IF left in the buffer). `stack` is `jam_stack`. There is an
action per statement; a call takes several: look in the table (`Enter`), read on through
the file and declare what is met (`SearchBlock`), go through the USES list (`Used`),
execute a data block (`BlockFound`), begin (`ProcedureBegins`), be left (`Return`,
`Leave`). `Error` finds what is wrong with the next statement in the order the code does;
`Fail` stops there, and the frames stay as they were.

**CryptoCalls.** Chooses at the start which of the three (`concern`) a behaviour is
about; they share no state but the session's mutex, which a call holds throughout.

**JamLiterals.** Pure operators. A character is a number, a text a sequence of them, so
that digits, marks, spaces and comments can be told apart and no more. `Buffer` is what
jam_get_statement keeps of a statement; if the end is not in it, the reader of the file
(`DataPosition`, `RealChars`) looks for the same data again with rules of its own. There
is one operator per extract and read function, with the order of the bits that each has.

**JamArrays.** `symbols` is the symbol table: a name's type, the position of its
declaration, its dimension and its value, in whole words of bits. A program is a set of
statements and the order in which they are executed, each with the phase it is executed
in: `JamExec` is about how they come into that order, so a DATA block executed twice is an
order with a statement twice. One action per statement; a statement that fails ends the
program. The chain answers a scan with any bits.

**JamVectors.** `vector_list` is the list of signals with their places, `pins` what the
port was last told, `levels` what it last answered. Without a port jam_vector_io takes
what was written for what was read, and so does `Seen`.

**JamExpressions.** An expression is a syntax tree and `Work` the order in which yacc's
parser reads its tokens and reduces its productions; an action is one token or one
reduction. `jam_exp_eval` gives the set of outcomes the code can have: one, unless C
leaves open what happens (a shift by more than a long has, an overflow whose test the
compiler may drop, bits an array does not have).

## Runs

| Run | Asks | Bounds, and why they are enough |
|---|---|---|
| `supervisor` | Is there one watchdog, can it be stopped, is a stop complete, does mining stop in the end; does all this implement `MiningService`? | Five steps of the environment (a user's start or stop, an address that comes or goes, a crash). A start, a stop and a second start use three and leave two for deaths in between, so every command of the three scripts meets a death or a change of mind; nine pids, so that a fork never waits for one (with more, TLC finds the same states). |
| `supervisor_restart` | Does mining boot itself also with a concurrent `spond-manager restart`? | One restart and one event: the restart interleaves with every command of a start. |
| `lost_watchdog` | Violation: see Findings. | |
| `upgrade` | What does success, a revert, any failure leave on card and partition? | Three upgrades: a failed one, one that meets what it left, and one that repairs it. Two faults: a command, and a move back of the revert or a command of the next upgrade. One loss of power: a second only meets the same states. Two versions. |
| `spond_lib` | Are works finished, answers taken right, the board never overfilled? | Three ids, a board of two slots and three works: refused attempts, of which there may be any number, let ids come round while the board is full. One thread that gives and one that drops works; one drop, restart or spurious wake-up. (Restarts in a row: see Observations. With four works TLC takes too long for the liveness; the two invariants hold in their 10.8 million states too.) |
| `crypto_sessions` | Do the two levels of locks protect the sessions? | Two threads, the work queue and the closer over two sessions: who waits, who holds and who frees are different threads. Two vector sizes. |
| `crypto_async` | Are jobs kept, in order, done, and pollers woken? | Ring of one growing to three; two threads; two different jobs. |
| `crypto_calls` | Are exactly the buffers listed and exactly the pinned pages put? Is a record opened if and only if it is what was sent? Is a digest that of its message? | Pages of two bytes, five of them, buffers that overlap, share a page and cross one; any number of calls, of which one may leave references astray. Records of up to one byte, one block and beyond; every byte changed, every block cut. Messages of up to four blocks, in calls of up to two, with the sets of flags in `FlagSets` (none, UPDATE, FINAL, UPDATE with RESET), not all combinations. |
| `jam_tap` | Does the player know the TAP state, and do scans deliver? | Two statements that change settings and two that clock the chain, started in two TAP states: a move can begin in every state the first statement can leave, in all sixteen by STATE. Words of two bits, so that padding crosses words with three. |
| `jam_exec` | Do calls return, are data blocks ready, is what is undefined not there? | 36 000 programs of Jam 2.0 (three statements of ten kinds in the first procedure, two USES lists, a procedure that calls on or not, three actions and initialisation lists, three orders of the blocks in the file, so that blocks are met before, after and while they are needed) and 1000 of Jam 1.x (a subroutine, three statements of ten kinds). A stack of five records: an action, a recursive call, a loop and a value fill it, and a FOR, a PUSH, a call of a procedure, a call of a label and a return each meet it full. |
| `jam_data` | Does a declared array have the value its text means, does an assignment copy what it names, do scans and vectors move the named bits, has an expression its value? | Words of 8 bits for 32, 12 characters of statement buffer for 1024, 4 bytes to look back for 8192: the arrays of 4, 8, 10, 14, 40 and 72 bits are within a word, one, across two and many, and their texts fit, end at the limit and do not fit. Every representation, with spaces and comments or not, right and wrong (too long, too short, digits of no base); declared once, twice, in between, in DATA blocks and in the wrong phase. Assignments between all ranges of two arrays and of one. Scans of three bits with every answer, vectors with every level. Expressions of up to three operators, every operator on two sides, with a long of 6 bits, in which every overflow happens. |
| `jam_expression_failure` | Violation: see Findings. | |

`jam_data` and `crypto_calls` take a choice at the start between parts that share no
state, so that a behaviour is in one of them and the numbers of states add up and are
not multiplied.

Two invariants of earlier versions are parts of stronger ones: that the library's idea of
the leading zeroes is right is part of `AnswersMeanTheWork`, that an instruction
stays while data is scanned part of `ScansDeliver`.

Deadlock is checked but where something really ends: an upgrade may be the last one
(`upgrade`), a process that failed an assert stops (`spond_lib`), a Jam program or an
expression ends (`jam_tap`, `jam_exec`, `jam_data`, `jam_expression_failure`).

### Fairness

* `MinerSupervisor`: weak fairness of each script and watchdog (the kernel runs
  processes) and of the end of a daemon that was sent SIGTERM. Nothing is asked of
  users, addresses or crashes.
* `SpondLib`: weak fairness of each thread, of the time-out of two seconds, of the
  poll thread and of the board's taking commands and finishing works. Winning is
  not fair, and mutexes are not either.
* `CryptoAsync`: weak fairness of the work queue and of the steps of a call that has
  begun; nobody has to begin a call.

The other specifications state no fairness: their properties are safety ones.

### Symmetry

`crypto_sessions` takes users and sessions for interchangeable. No definition tells
them apart, the properties do not either, and they are safety properties (the
refinement is: `SessionStore` states no fairness), for which symmetry is sound.

## Proofs

`MinerSupervisorProofs` proves, for every set of pids and every length of run:

* `TypeCorrect`: `Spec => []TypeOK`, with any number of concurrent restarts.
* `WatchdogIsUnique`, `WatchdogIsNamed`, `StopIsClean`, `NamedDaemonNeverDoubled`,
  `SupervisorRefinesService`: under `Restarters = {}`, that is, when the poll loop
  alone runs spond-runner. The assumption is needed: the run `lost_watchdog` shows
  what happens without it.

None of the invariants is inductive alone. That there is one watchdog depends on the
flag being there whenever one lives, which depends on stop_mg having killed it before
it removes the flag, which depends on the pid it read being the one in the file, and
on that naming the watchdog. `Inv` therefore says for each place in start_mg and
stop_mg what flag, pid files and processes look like (`StartInv`, `StopInv`), and for
each watchdog what it knows of the file it has read (`WatchdogInv`: after the test the
pid it has is still that of the file, because only it writes there). The proof
goes one action at a time; the theorems follow from `Inv` and, for the action
properties and the refinement, from `Inv` and one step. The assumptions used are
those of the module (`None` is no pid, `Poll` is not a restarter).

`CryptoSessionsProofs` proves every property the run `crypto_sessions` checks, for any
number of threads, sessions, identifiers and jobs: `TypeCorrect`, `NeverUsedAfterFree`,
`AlwaysDestroyedAlone`, `IvAlwaysCopied`, `LockedIsAlwaysWorkedOn`, and with
`SessionsAreAStore` that the calls, the work queue and the close implement
`SessionStore`. The properties speak of a session's memory and of its mutex; what makes
them inductive is how the two kinds of lock go together:

* `ListInv`: `fcr->sem` is held by exactly the thread that is between a lookup and the
  lock of what it found, or that ends a session (`HasList`). At most one thread is.
* `LockInv`, `LockedIsWorkedOn`: a session's mutex is held by exactly the thread that
  works on it or frees it.
* `HandInv`: what state the session in a thread's hand is in. A thread that waits for
  the mutex of a session has found it in the list, and nobody can take it out, as the
  thread has `fcr->sem`; one that works on it may see it leave the list but not freed,
  as who frees it needs the mutex.
* `BuiltInv`, `SidInv`: a session that is built is known to one thread, and one in the
  list is alone under its identifier. The latter is what the refinement rests on.
* `IvInv`: bytes of the vector are counted only from crypto_run's work to its end.
* `CloserInv`: nothing of an earlier close goes on while the file is open.

The steps are sorted by what they do: those that keep the sessions (`Kept`) and those
that change one (`Changed`), and for each lock whether they take it, keep it or give it
back (`ListMove`, `LockMove`); one lemma per action says which. In the refinement Insert
is `Enter`, LockSession `Start`, PutFilled and Put `Stop`, FinishLookup and
FinishAllNext `Leave`, Kfree `Free`; every other step is a stutter. The proof uses the
module's assumptions: threads and `None` differ, vector sizes are numbers, there is an
identifier. That there are as many identifiers as sessions is needed only for `Insert` to be
possible.

`SoftwareUpgradeProofs` proves the four invariants the run `upgrade` checks, for any
versions, contents of tar balls and bundles, and any number of attempts, failures, also of
the moves back, and losses of power: `Typed`,
`SuccessIsOnTheCardAlways`, `RevertRestoresAlways`, `NeverMixedAlways`,
`NothingIsLostAlways`. What success or a revert leaves follows from where each of the
moves stands: `Inv` says for every place in do_upgrade which boot files are aside, which
are in place and whose they are (`AsideInv`, `InInv`, `SyncInv`), and for a revert which
are back (`BackInv`; the order of the moves back is not that of the moves there, hence
`Rank` and `BackRank`), but for those in `stuck`, which are still aside (`StuckInv`).
`KeptInv` says that what was whole when an upgrade began is in place or aside while it runs,
`SoundInv` carries that across upgrades as long as no power is lost and no move back
fails, and `CardInv` says what the card may hold meanwhile, which a loss of power leaves.

`SpondLibProofs` proves the two invariants of the run `spond_lib`, for any capacity below
65536 (the answer to CHIPSTATE has 16 bits for it), any number of ids, works, refused attempts,
drops, wake-ups and restarts, and any number of threads that drop works:
`NeverNoSpaceAlways`, `AnswersMeanTheWorkAlways`, and `Typed`. `OneGiver` is a hypothesis of
the theorems: one thread calls spond_give_work, as in spond_test.cpp; with two the
properties do not hold (see Observations). `Inv` has these parts:

* `ThreadInv`: which command each thread is in, what it returns to, and that a work that
  has its place in works_map but is not on the line yet (`InHand`) is the last one given.
* `LineInv`, `OrderInv`: works pass the line to the board, its queue and the line back in the
  order they are given.
* `CleanInv`: what the board may still report or has to hear of (`Live`) has its place in
  works_map (`Keeps`), as long as no id came round to a work underway (`~used.reused`). Nothing
  is assumed of the ids themselves, which refused attempts use up too. So the works on the line
  and in the queue are no more than works_map counts, and fit (`RoomInv`), and NO_SPACE would
  need one more in the queue than there is room for (`NoSpaceIsFull`).
* `StateInv`: while a process connects, an answer that tells of an idle board with room
  (`Clear`) means that nothing is live behind it. Its premise, no work behind a CHIPSTATE
  on the line, has to hold when the next process starts: `AloneInv` says why for the
  first process (its command is alone on the line), `SecondInv` for one that found commands of
  another (its CHIPSTATE is alone, and what answers its STOP comes after every old
  CHIPSTATE). A third such process may be told by the answer to an earlier CHIPSTATE, hence
  the bound `used.hasty <= 2` in the properties.
* `LeadInv`: a work on the line will find the board set to what it asks for, by the last
  LEADING0 in front of it (`LeadIn`), and what leading0 says is what the next command finds.

`CryptoAsyncProofs` proves that of `crypto_async` what is not liveness, for any finite
set of threads, any jobs and any size of the ring: `ItemsAreAlwaysSomewhere`, and
`ListsAreAQueue`, that the calls and the work queue implement `AsyncQueue`. The invariant
ties the items in hand to the threads that have a job (`HandInv`; their number changes by
one as a thread takes an item or gives it back, `HandsMove`) and says that
cryptask_routine keeps jobs in `tmp` only while it runs them. In the refinement
the abstract queue is the done list, what cryptask_routine has taken and the todo list,
one after the other: crypto_async_run's queueing is `Give`, the splice at the end of
cryptask_routine `Finish`, a fetch `Fetch`, the close `Close`, and taking the todo list a
stutter.

`CryptoCallsProofs` is about the run `crypto_calls`:

* `PagesAreAlwaysReleased`: the action property `PagesAreReleased`, for buffers of any
  length at any offset, pages of any size and any number of calls. `PagesInv` says at
  each place of a call how many pages are pinned (`CountsInv`), that the references are
  those of the pages listed (`Held`), and what of them the cipher has written
  (`WrittenInv`); that the array of pages has room (`ArrayInv`) needs that doubling
  ends, which is shown by induction on a set. `PowersDouble` is a hypothesis of the
  theorem and a law of arithmetic, 2^(k+1) = 2 * 2^k for k in Nat: the provers know
  nothing of `^`.
* `ListsAreAlwaysTheBuffers`: the invariant `ListsAreTheBuffers`, for the same buffers and pages.
  `ListsFrom(sg, a, U)` says that the entries of `sg` are the bytes from address `a` on, `U[i]` of
  them up to the i-th; then `SgLength` is the last of `U` and `Bytes` those bytes
  (`LengthOfList`, `BytesOfList`). What __get_userbuf makes is such a list of
  the whole buffer (`UserSgLists`), sg_copy of one is one of its first bytes (`CopyOfList`), sg_advance of
  one is one of all but its first bytes (`AdvanceOfList`). Folds are recursive functions:
  that the one a fold chooses exists, and that it is what it looks like, is shown by
  induction on a set. `ListsInv` says what is listed at each place of a call and that it has room.
* `AcceptedIsAlwaysSent`: with any data, headers, lengths of blocks and of tags, what a
  receiver is given is what was sent, padding included. `RecordsInv` says that the record
  on the wire is what was sent but for the one change, the lemmas that every change of a
  byte or loss of a block is met by the tag or by one of the tests of
  verify_tls_record_pad.
* `HonestIsAlwaysAccepted`: a record nobody changed is opened. Its hypothesis `TagFits`
  says that SRTP data are at least as long as their tag: authenc.c:495 does not test it
  (see Observations), and the run has data that satisfy it only.
* `DigestIsAlwaysOfTheMessage`, for messages of any length in calls of any flags but
  COP_FLAG_NO_ZC alone (`FlagsAreSaid`; main.c:203, see Observations).

`JamTapProofs` proves all that the run `jam_tap` checks, for every chain, that is, data and
instruction registers of any length captured as anything, words of any number of bits,
programs of any length with any patterns, paddings, stop states, waits and moves:

* `BeliefIsAlwaysTap`, `NeverLostAlways`. The player's table of transitions is the standard's
  (`TablesAgree`), and its bit table of paths is right in all 240 cases (`WayKeeps`): `Distance`
  is the number of clocks from each state to each other, at most nine, and every
  step the bit table asks for comes one closer (`Closer`). What is true of the chain at
  the start of a way and kept by a step is therefore true at its end (`Goto`), the belief
  first of all.
* `ScansAlwaysDeliver`. A register is a queue that scans push bits through (`ShiftRegister`):
  after it the register holds the last bits of the line and what came out are the first.
  What is then latched depends on the way to the stop state. A way comes one closer with
  each step, and from the update state every other state is as far as it is (`Distance`
  again), so that the way passes the update state once and no shift state before it
  (`OutOfDataScan`, `OutOfInstructionScan`). That the padding around the target is
  what the program asked for is `PaddingOK` of the invariant: a buffer has room
  for its count (`WordsEnough`) and, when the bits began at a word of their array, `Place` puts
  bit i at i (`PlaceIs`, `StoredIs`).

`Inv` is `PortOK` (the chain is one, its belief right), `StopsOK`, `PaddingOK` and
`NeverLost`; TLC checked it on the instance of `jam_tap`. `PaddingOK` speaks of a program that has not failed: an
allocation that fails leaves a count without a buffer (jamjtag.c:240), and the
program ends with it.

`JamExecProofs` proves the invariant `UsedDataIsReady` and the action property
`CallsReturn` of the run `jam_exec` for every program,
of any length and with its statements in any order, and every depth of the stack. A program is
one whose calls name procedures or labels (`ProgramAssumption`: the player would take another
symbol's value for a list's address) and may otherwise jump into blocks, come to an end where it
should not, or declare a procedure and a data block of one name. `Inv` has three parts beside
the program:

* `StateInv`: what is in the symbol table is declared so in the text (`DeclaredAs`), and the
  stack is made of whole records.
* `FramesInv`: each C call is in one of the places of its function (`IsFrame`), with the list and
  phase of that place; what is in the statement buffer is behind the THEN of the IF at the
  current position (`BufferOK`), which is how an ENDPROC cannot be in it; and between the place where a
  procedure looks through its USES list and its end, what it has looked at is ready (`UsedOK`).
* `RanInv`: a data block was executed as often as its value says, plus the loop under way:
  once, as none is called from inside another (the phase is DATA, in which there is no CALL).

The lemmas say what a statement may do to the table (`Grows`: symbols are added and keep what
they are, and no statement but the end of a data block gives one a value) and to the frames.
With the proof, `UsedDataIsReady` says of all used blocks, not of the data only, that they are
known before the procedure starts. It asks a data block's execution only of a symbol that is one: of a
procedure and a data block of one name the one met first counts, and the other is never executed.

`CallsAlwaysReturn` proves the action property `CallsReturn`, under the hypothesis `[]Nested`: that
no data block comes to an ENDPROC and no procedure to an ENDDATA. Not every program is so: a GOTO
to a label in a data block leaves its ENDDATA to the procedure's loop, which pops the procedure's way
back and goes on without one. All programs of the run are (TLC checked `Nested` on its
instance), with all their jumps, loops and values left on the stack. `CallInv` says of each frame
what the one above it found, or what there is now (`CallIs`): before its loop the stack,
the block and the phase are as they were found, and in its loop the stack is what was found, the way
back, and records of the loop's own of which none is a way back (`Based`). So the only CALL record a
RETURN, ENDPROC or ENDDATA can find is that way back (`BasedEnds`), and with it the stack is what it
was (`ReturnEnds`). After an EXIT the loops of procedures leave the stack
as it is, and `CallInv` says nothing of it.

The proofs need assumptions on constants that say no more than what kind of value each
is: threads are a finite set (`ThreadsAssumption`), addresses, lengths, headers and sizes
are numbers, texts are lists (`BuffersAssumption`, `PacketsAssumption`, `TextAssumption`), the
arguments of PADDING are four numbers and a mask of COMPARE is a list of bits
(`CountsAssumption`: jam_process_padding refuses others; `ComparedAssumption`).

Only model-checked, and why:

* Liveness (`BootsItself`, `StopsInTheEnd`, `WorksFinish`, `JobsAreDone`, `PollersWake`):
  out of the provers' reach.
* `JamData` and `MCJamExpressions`: their readers and evaluations are recursive operators
  over texts and syntax trees, so that nothing is proved in them or what extends them.
* `JamExec`'s `UndefinedIsUndefined` is not true of all programs: a name declared twice ends a
  search before it comes to what it is for, and no search looks behind a THEN. The run's
  programs declare none twice and no block behind a THEN.

## Findings

`lost_watchdog` (a violation run): "Mining manager not running" (spond-runner:58) is
said when the running flag is missing. With a `spond-manager restart` beside the poll
loop, the restart's stop may come between `miner_gate_arm_watchdog &` (line 48) and
the echo of its pid (line 49): it reads no pid, kills nothing, removes the flag and
the pid files. The watchdog runs on, the poll loop then writes its pid into a file of a
system that is "not running", and starts a second one.

`jam_expression_failure` (a violation run): jamexp.c:1308 (1321 in an editor that ends lines
at form feeds too) says of
jam_evaluate_expression "status = for returning TRUE if evaluation was successful. FALSE
if not." In `INT(I[]) + n`, with an array I of integers, the part in INT( ) has no value:
jam_exp_eval sets TYPE_MISMATCH and leaves 0. INT makes an Integer of it, and when the
lexer comes to n it assigns the result of the search, SUCCESS, to the same
jam_return_code (line 1235). The expression is evaluated with success to n. The
property of `jam_data`, `ExpressionsMean`, excepts expressions with such a name or element
after an INT( ), and shows that in all others the failure is seen: an operand without a type
makes every operator above it fail again.

### Observations

Where code and comment, or code and plain intention, differ and no run of its own
is spent on it. The models have the code's behaviour; the properties say in their
comment what they except.

* spond-runner:25: the same gap as above, for the daemons: a stop between the fork of
  a daemon and the echo of its pid leaves it running.
* sw-upgrade.sh:45: when moving the third file aside fails, only one of the two moved
  before is moved back (code 221); the next upgrade finds u-boot.img aside.
* sw-upgrade.sh:47, 51-53, 59-61, 66-68: no move back is tested. When one fails the script
  exits with 222 or 223 all the same, although the old version is not back as its message
  says. New files that were not replaced may then stand beside old ones, a mixture that
  boots; and when the file in place is a broken copy, the next upgrade moves
  it over the good one aside (`mv -f`, line 39). `RevertRestores`, `NeverMixed`
  and `NothingIsLost` except what follows from a failed move back, and only that.
* upgrade-software.sh: exit code 220 of sw-upgrade.sh (nothing moved) is reported as
  any other failure although the system is as before.
* upgrade-software.sh:140: spon.shar of an earlier upgrade in /tmp is run when the tar
  ball has none.
* spond_lib.cpp:329: the answer may come before the thread waits on the condition;
  the assert two seconds later ends the process. Line 338: a spurious wake-up is
  taken for an answer.
* spond_test.cpp:25: a refused attempt uses up an id, so that while the board is full the 256
  values of an id come round within seconds (spond_lib.cpp:404), possibly to that of a work on the
  board, whose entry of works_map the next work overwrites (line 409). works_map then
  counts one work too few, and the DONE of the older finishes the younger.
  `NeverNoSpace`, the first part of `AnswersMeanTheWork` and `WorksFinish` except what follows
  (`used.reused`). Without the exception TLC violates all three, with two slots and three
  ids: the first with four works, the others with three.
* spond_lib.cpp:213: dropping works leaves them in works_map.
* spond_lib.cpp:457: two indices tell apart the answers to two CHIPSTATEs, and a process
  starts with the first again. When three processes end with commands on the line
  (`used.hasty`) the third's successor may take the answer to the first's STOP for its
  own, and then that to an earlier CHIPSTATE; it believes in an idle board while works
  are on their way there. `NeverNoSpace` and `AnswersMeanTheWork` except it. Without the
  exception TLC violates both, with one slot, two ids, three works and three restarts;
  with it they hold there in all 7.5 million states.
* spond_lib.cpp:403: `leading0` is used without a mutex, right for one giving thread.
  Line 410: the work of one thread may be passed by that of another, so that with few
  more ids than slots an id is used again before its work is finished: TLC violates
  `NeverNoSpace` with two giving threads, two slots and three ids (of the 256 that
  spond_test has).
* spond_lib_fake.cpp:106: returns with its mutex locked.
* ioctl.c:363: finishing a session that is not there returns 0. ioctl.c:310: sop->ses
  is read after the list is unlocked.
* ioctl.c:562: an item is counted before it is allocated; a failure shrinks the ring.
* zc.c:65 and 211: references of a partly pinned buffer are not put. zc.c:171 and 172:
  an in-place AEAD encryption of no bytes, and the room for its tag.
* authenc.c:495: SRTP data shorter than the tag.
* main.c:203: COP_FLAG_NO_ZC alone does not count as "no flags", and a message given
  with it goes on from the last.
* jamjtag.c:927, 1435: "jam_jtag_drscan() always ends in DRPAUSE state", but a scan of
  no bits leaves the TAP in the shift state.
* jamjtag.c:280: padding taken from a slice that does not start at a word of its array is
  stored rotated within the word (`bit & 0x1f` of `i + start_index` in word `i >> 5`).
* jamexec.c:8339: "If end state was specified, go there", but an end state IDLE is taken
  for none.
* jamjtag.c:968: an instruction scan that begins in IRPAUSE shifts on without a capture.
* jamstack.c:162, 199: a record in the last place of the stack can be pushed but neither
  seen nor popped, although the comment (l. 145) has NULL for an empty stack only.
* jamsym.c:408: a block is taken to belong to the procedure that is running when the
  interpreter first meets it, not to where it stands. With an action that calls p, q
  (OPTIONAL, not asked for) and r, where p calls q and q uses r, r is met on the call of
  q, while p is running, and the action's own call of r fails with a scope error; without the call of
  q in p it does not. `UndefinedIsUndefined` excepts this; without the exception TLC shows
  it.
* jamexec.c:3965: the range of an EXIT code is checked also when the expression failed
  (`&&` binds before `||`).
* jamexec.c:3055: a GOTO to a name that is not a label does nothing.
* jamexec.c:2696: after an EXIT in one procedure of an action the loop goes on to the
  next ones, whose data blocks are run.
* jamexec.c:5430: a range copied onto a later one of the same array, over bits still to
  be copied, is the first bits repeated. `AssignedIsSource` excepts it.
* jamarray.c:1434: for a text that does not fit the statement buffer the file is searched
  for a space after the equals sign; without one the data are not found and the array is
  read from the start of the file. Digits of HEX data beyond the array are refused in the
  statement and ignored in the file. `DeclarationsMean` says nothing of either.
* jamarray.c:494: a block of run-length data may be longer than what is left of the array;
  that is seen after it has been written.
* jamsym.c:324: an array with initial data that is declared again by a jump back or a second
  call of its procedure is a REDEFINED_SYMBOL; only in a DATA block is it taken for the
  same. jamexec.c:4705: an array of integers declared again there is a SYNTAX_ERROR.
* jamexec.c:7921: VECTOR looks at the arrays of its arguments from their first bit,
  wherever the range begins. jamexec.c:7751: VECTOR COMPARE looks at all the bits the mask
  names, of which jam_vector_io sets the inputs' only; the others are what the memory
  held. jamstub.c:676: without a port an input reads as what was written.
* jamexp.c:718: CEIL tests whether a division was exact by multiplying the operands, and
  rounds an exact quotient up. Line 748: FLOOR has one operand and tests two, so it is a
  TYPE_MISMATCH always.
* jamexp.c:468: MOD does not look at its divisor. Line 409: the sum of the lowest number
  and itself is not seen to overflow; its negative (line 395) is not tested.
* jamexp.c:305: the square root of a number of 2^30 or more shifts by the width of a long.
* jamexp.c:970: a hexadecimal literal that has a letter after a digit is read as a name.
* jamexp.c:817: a range is taken of the array that was named last, which an element in
  its bounds changes.
* jamstub.c:1306: a CRC that does not match is printed, and the file executed.
* perform_asics_test.sh stops mining without waiting for a start under way.

## Not modelled, and why

* The data side of the crypto API and SHA-256 (`hashblock.cpp`): arithmetic without
  state. Ciphers and hashes are ideal.
* Start-up scripts, cards, images, fleet scripts: run once or by hand; what they do to
  a running miner they do through the scripts that are modelled.
* Vendored programs (memtester, OpenSSL engine) and configuration.
* Of the Jam player: PRINT, EXPORT and FREQUENCY, which change nothing in it; CRC and
  NOTE fields, which are printed; the option -m, a workspace of fixed size; the tables of
  yacc and the characters of a token; the line number of an error.
* Time: a sleep orders nothing, except the three seconds of stop_mg (`Wait3`), which
  are taken to suffice for a daemon to end.

## Plan

1. Supervision, with proofs - done. It is what decides whether a miner mines.
2. Upgrade - done. It is what can brick one.
3. Host library, crypto device - done, the sessions with proofs.
4. Jam player: JTAG side, the control of the interpreter, the data with its expressions and
   vectors - done.
5. Proofs: `CryptoSessions`, `SoftwareUpgrade`, `SpondLib`, `CryptoAsync`, `CryptoPages`, the
   records and digests of `CryptoCalls`, `JamTap`, `JamExec` (`UsedDataIsReady`, `CallsReturn`)
   - done. What is left is out of the provers' reach or not true of all programs (see Proofs).
6. `mining_watchdog` against an upgrade and a restart, as an extension of
   `MinerSupervisor`.
