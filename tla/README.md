# A TLA+ verification of ntprof

ntprof times NVMe-oF commands: BPF programs on the host and on the target
stamp a record per sampled command (or SPDK does, and its probes hand the times
over), user space joins the two records of a command and splits its latency
into stages. This directory holds a model of its concurrent and stateful parts,
the TLC configurations that check it on small instances, and TLAPS proofs about
the joiner, the recording loop, the record table, the queue counts, the data phase
of reads, the stage model, SPDK's gates and the supervisor.

## 1. The system and what models it

| Part (source) | State | Operations | Hard behaviour | Module |
|---|---|---|---|---|
| Joiner (`src/join.c`) | two tables keyed by (cntlid, qid, cid), statistics | add/match (offline), host/target arrives (online), release, expire | recurring cids, either order of arrival, eviction | `Joiner` |
| Recording loop (`src/record.c: record()`) | ring buffer, next tick, drain deadline, file | on_record, tick, disarm, drain, final release | full ring, ticks racing late records | `Recording` |
| Offline report (`src/offline.c`) | records of a file, unbounded joiner | read a record, match the hosts | must agree with the online join | `OfflineReport` |
| Record file (`src/trace_file.c`, `close_writer()`) | stdio's buffer, the file, the reader's union | open, add, close, read header, read record | failed flushes, a killed writer, older versions, reading while it is written | `TraceFile` |
| Supervisor (`src/record.c: cmd_record()`, `src/loader.c`) | parent, up to two children, grandchild, pipe, signals, SPDK gate | fork, attach, arm, tell, test, poll, read byte, kill, restart, detach | deadline vs. late byte, signals before and in poll(), orphans | `Supervisor` |
| Loader's hooks (`src/loader.c`) | objects, programs to load, links, worker threads, what is attached | open_one, attach_usdt, attach_all, close | threads, any attachment or `pthread_create` failing, stand-ins and flavours | `Loader` |
| Arming and gates (`src/loader.c`, `src/spdk.c`) | ntp_armed per object, gate per SPDK process, commands | open, disarm, close as lists of stores | stores interleaved with commands, failure half-way, a closing store that fails, gates left open | `Gating` |
| Record tables (`bpf/common.bpf.h`, `ntprof.h`) | direct-mapped slots, in-flight count, counters, output | claim, stamp, emit | slot collisions, full ring | `RecordTable` |
| One slot, store by store (`bpf/host.bpf.h`) | the slot, ntp_inflight, a program counter per CPU | the stores of setup_cmd, nvme_done, blk_done | two CPUs in one slot | `SlotClaim` |
| Target side (`bpf/target.bpf.h`) | tqstat, tcounted | flush and claim at arrival, uncount | missed last event, reused nvmet_req, full map | `TargetRecords` |
| TCP target (`bpf/nvme_tcp_target.bpf.c`) | the above per nvmet_req, and whether the queue is in tqueues | one action per hook, eviction | missed hooks, disconnection, disarming, LRU eviction | `TcpTarget` |
| A write's data on the TCP target | tcp_rx per CPU, skbs, the write's times | copy, copy's end, PDU header, execute | migration, preemption, missed hooks | `WriteData` |
| RDMA target (`bpf/nvme_rdma_target.bpf.c`) | + the two ends of a response | one action per hook, a late posting's `uncount()` in two steps | send completion before the posting's return, on a reused rsp | `RdmaTarget` |
| TCP host (`bpf/host.bpf.h`, `nvme_tcp_host.bpf.c`) | reqs, cid_idx, receive context, sender | one action per hook | late sender, retries, timeouts, shared cid index | `TcpHost` |
| RDMA host (`bpf/host.bpf.h`, `nvme_rdma_host.bpf.c`) | + pending note, postings | one action per hook | late or failed posting, stale note, three completions in any order | `RdmaHost` |
| Exact host queue counts (`bpf/host.bpf.h`) | qstat, counted | queue_rq, uncount split into read and write | two threads without a lock, BUSY, full map | `HostQueues` |
| Read data phase (`on_copy`, `host_data_done`) | receive context, busy times, clock | open, copy, complete, exit, tick | several reads in one call | `ReadData` |
| SPDK over TCP (`bpf/spdk.bpf.h`, `spdk_tcp_*.bpf.c`, the patch) | rings of reads and sends per CPU, struct ntprof_times | recvmsg, copy, parse, queue, sendmsg, write completion, probe | rings that wrap and change hands, 32-bit times, migration | `SpdkSockets` |
| SPDK over RDMA (`spdk_rdma_*.bpf.c`, the patch) | the list of postings, the poll time, struct ntprof_times | submit, flush, poll, handle a completion, probe | full list, reused requests, the gate closing and opening | `SpdkRdma` |
| Stage model (`src/model.c`) | none (pure) | breakdown, stages | missing events, fallbacks, two clocks | `StageModel`, `Breakdown` |
| Groups, report, comparison (`src/stats.c`, `src/report.c`, `src/offline.c`) | groups of two runs | add records, rows, folding, comparing | groups of unlike records | `Report` |

`RecordTable` and `TargetRecords` are libraries of pure operators on a table
record; `TcpTarget`, `RdmaTarget`, `TcpHost` and `RdmaHost` build actions from
them. `Recording` EXTENDS `Joiner`; its actions contain the joiner's. Then
`OfflineReport` EXTENDS `Recording` and runs a second joiner
(`O == INSTANCE Joiner WITH MaxPerKey <- 0`) over the file a run leaves.
`Report` builds on `StageModel`. `MC*` modules give constant operators (slots,
cids, keys, programs, observations) their values. Some put components that do
not share state side by side: an initial choice (`part`, `transport`, `side`)
says which one moves, so that one run asks the same question of both. What
those components do to each other is not composed, except where a module says so.

### How state is abstracted

* A command is a number in start order. Its *key* (queue and cid) and its *id*
  (what `same_command()` compares) are constant operators, so that ids recur.
* In the hook modules a time stamp is the number of the command whose event it
  is (0: not set). That is what the properties need: an event in a record is
  the record's own, an earlier or a later command's. Times as numbers are in
  `ReadData`, `WriteData`, `SpdkSockets`, `SpdkRdma` and `Breakdown`.
* A hook either runs or is missed (`Hook`), up to a bound. The kernel's own
  path of a command (`Path`, `Backend`) is external and fixes the order in
  which hooks are met.
* Filters and sampling are one nondeterministic `sampled`.
* In `Breakdown` the two sides' clocks start apart; only differences of one
  side's times may matter, which `ClocksIrrelevant` checks by shifting one.
* `uncount()` is two steps where it can overlap another hook's: on the host
  (`HostQueues`), and in `RdmaTarget` at the return of a posting. On the TCP
  target one thread (`io_work`) runs all the hooks of a queue and it is one step.
  In `SlotClaim` every load and store of a slot is a step, seen in program order;
  other hooks are one step each.
* `next_byte()` tests `interrupts`, then sleeps in `poll()`; `Supervisor` keeps
  the two apart (`polling`), as a signal may come between them.
* A freed slot of `RecordTable` holds nothing: no hook reads the contents of a slot
  without an owner, and a claim clears them first.
* A file is a sequence of words; a record is its header and one word per group
  of fields that a file version added. Record contents are otherwise opaque.
* Observers (`real`, `log`, `both`, `raced`, `half`, `hole`, `cut` ...) note what
  really happened; no guard reads them.

## 2. Runs

Deadlock is checked except where the system may stop: `DataPhase`,
`SpdkAndLoader`, `Reports` (and the report's two runs that end in a violation)
follow a bounded input to its end. Elsewhere an explicit `Rest` (or `Done`)
step stands for the idle system.

| Run | What it checks |
|---|---|
| `RecordAndReport` | Three commands, two with one id, a ring of two. `JoinInv` is the inductive invariant of section 3. `PairsAreOneCommand`: if nothing was dropped, released, expired or evicted, order alone pairs recurring ids correctly. `OnlineSpec`: the loop refines the joiner. `OfflineAgrees`, `OfflineJoinsNoFewer`: the report of the file agrees with what the run printed when nothing was lost, and never joins fewer. `DrainEnds` (liveness). |
| `KernelTargets` | TCP: five kinds of command (read, read with success flag, inline write, R2T write, failure), colliding slots, one missed hook, disconnection, disarming, eviction from `tqueues`, a `tcounted` of one entry. RDMA: either order of the two ends of a response, late postings, a missed hook, and three reads without one. `TargetTables` (counters and slots; queue counts, exact on RDMA until an `uncount()` overlaps another and then off by at most one per overlap), `TargetRecordsPure`, `TargetRecordsComplete`. |
| `KernelHosts` | TCP: three requests, two of which share a slot; two commands of four kinds with one entry of `cid_idx` for all and one disturbance (missed hook, late sender, timeout or retry), and three reads whose entry is their cid's generation, undisturbed. RDMA: two requests, two commands with up to two disturbances (also a failed posting) and three with none. `HostTables`, `HostRecordsPure`, `HostRecordsComplete`. |
| `HostShared` | Two requests of one slot with two commands each, store by store: `NoHalfClaimFound` (no hook takes a slot for its own that another claim is filling, unless two claims meet) and `ExactUnlessRaced` (without overlap, records and `ntp_inflight` are as if hooks were atomic). Three requests, four dispatches, a timeout and a `counted` of two: `InflightCovers`. |
| `DataPhase` | Two reads, two copies each, five instants: `BusyInsideSpan`, `PhaseInOrder`, `NoInstantTwice`. A write of one or two PDUs on two CPUs, one missed hook: `WriteTimed`. |
| `Supervisor` | Automatic, forced fentry and forced kprobes, up to three signals: `ExitTellsOutcome`, `GateHeld`, and that two interrupts leave (`TwoInterruptsLeave`, but for one that falls between the test and the `poll()`), a finished report returns and a child's end is noticed (liveness). |
| `SpdkAndLoader` | Rings of two entries: `FindIsLatest` (the binary search against a scan), `ArrivalOfItsRead`, `SentByItsCall` (times modulo 4). Two RDMA requests, a list of one: `RdmaTimesReal`. Two host processes, one target process, two commands, any opening or closing store failing: `HostHasTarget`, `GatesRestored`. Nine programs of two objects on three kernels, 24 configurations, two worker threads beside the caller: `RequiredHooked`, `HooksTakenBack`. |
| `Reports` | Every pair of records with one missed event per side and busy times inside and beyond the span: `ComponentsSum`, `StagesSum`, `ClocksIrrelevant`, `NoNegative`. Up to three additions, single or in bursts of 120, of thirteen kinds of observation (of the kernel and of SPDK, joined or not, complete or not), grouped by type, size and session, by type and size, or not at all: `UniformRowsAddUp`, `RecordsAccounted`. Files of versions 2 to 6 with up to four records: `SavedIsRead`, `OnlyWholeRecords`. |
| `TcpTargetDisarmed`, `HostQueuesRace`, `RowsAddUp`, `CompareRuns` | Expected to be violated, see below. |

### Disagreements with comments and documentation

Four runs are expected to end in a violation; PROJECT.json quotes the sentence.

* `TcpTargetDisarmed` (`RecordsPure`): design.md says `nvmet_req_init` emits a
  record still open before anything of a new command can reach it. While
  draining it does not: the flush is behind the armed check.
* `HostQueuesRace` (`EveryDecrementMatches`): the sending and the completing
  thread both drop the unsent bit, and the counter goes negative (what a record
  takes from it is clamped to 0).
* `RowsAddUp`: report.c and the docs say a group's rows add up to its
  end-to-end latency. With joined and unjoined records in a group they are
  means over different records. A group can also hold SPDK's and the kernel's
  records (not grouped by session): one of SPDK's is enough to leave the block
  layer's row out for all. `UniformRowsAddUp` is what holds: the rows add up if
  all of the group's records are SPDK's or none is, and its complete ones are all
  joined or none is.
* `CompareRuns` (`NoneInBothIsTrue`): when all the groups two runs share are
  folded, the comparison says that no group is present in both.

Other sentences the code does not keep are stated as definitions beside the
property that holds in their place. TLC shows the counterexample when the
definition is added to the cfg of the run (in an `MC` module that instantiates
the component, through its instance).

| Definition (run) | Sentence | What happens |
|---|---|---|
| `HostRecordsReported` (`RecordAndReport`) | join.h: a host record waits "until its target record arrives or it is released" | One evicted from a full bucket is neither joined nor reported. |
| `EmittedAtLaterEnd` of `RdmaTarget` (`KernelTargets`) | nvme_rdma_target.bpf.c: "emitted at the later of the posting's return and the send completion" | A posting that returns after the rsp was reused ends the next command's record. |
| `NoRecordOfAnother` of `TcpHost` (`KernelHosts`) | common.bpf.h: one compare tells that "the command has no record" | An unsampled retry writes into its first attempt's record. |
| `DepthAtArrival` of `HostQueues` (`HostShared`) | ntprof.h: q_inflight is "commands of this queue not yet completed, at arrival" | A request dispatched again after BUSY records 0. |
| `InflightSeesRecord` (`HostShared`) | common.bpf.h:42-45: a collision keeps `ntp_inflight` above 0, "only the shortcut is lost" | A claim that read the old owner just before that owner's completion freed the slot does not count itself: the slot holds a record and the count is 0, so its hooks return at once. |
| `BusyAlwaysInside` (`DataPhase`) | model.c: periods "inside [@first, @done]" | When another read completes in a call, the call's beginning counts twice for the read copied before and after; the stage model clips the excess. |
| `EveryDecrementMatches` of `RdmaTarget` (`KernelTargets`) | target.bpf.h:45: "so every decrement matches an increment" | A posting that returns after the rsp was reused takes the next command's flags, while that command's own hooks drop them too. |
| `SecondInterruptLeaves` (`Supervisor`) | design.md:156, reference.md:186: "a second Ctrl-C leaves a stuck attach behind" | The test of `interrupts` (record.c:443) and the `poll()` (record.c:450) are not atomic: a second Ctrl-C handled between them is seen when `poll()` returns, which without a timeout takes a byte or a third Ctrl-C. |
| `KilledNeverArmed` (`Supervisor`) | design.md: "its programs were never armed" | The child is killed between arming and its byte. |
| `InterruptStops` (`Supervisor`) | reference.md: without `-d`, Ctrl-C stops | A Ctrl-C delivered to the child about to be killed is lost. |
| `LeftEndsUngated` (`Supervisor`) | record.c: a child left behind "ends by itself" | It dies of SIGPIPE at its first message, with SPDK's gate on. |
| `StopsHostFirst` of `Gating` (`SpdkAndLoader`) | loader.c:907: hosts first when stopping, "so that a command a host samples is sampled by its target too" | A kernel target is disarmed before the SPDK host's gate closes, and a command in between is reported by the host alone. |
| `MigratedGetsParseTime` (`SpdkAndLoader`) | design.md:489: "a reactor that migrated gets the parse time as arrival" | One that leaves its CPU inside a read and comes back files the arrival of a later skb of that read. |
| `TimedWhenTaken` of `SpdkRdma` (`SpdkAndLoader`) | design.md:509: a completion is timed "when the poller took it" | A completion polled with the gate closed gets an older poll's time, though never one before SUBMIT (`RdmaTimesReal`). |

`HostRecordsComplete` has one exception beside missed and late hooks: a read whose
entry of `cid_idx` another command in flight took (`displaced`) is no longer found
by its cid, and its record lacks the times of its data.

A per-CPU context is likewise found again by a thread that migrates away and
comes back (`WriteData`'s `returned`; common.bpf.h says such an event is "lost
rather than misattributed"). And `close_writer()` counts failed additions as
"records lost", but not what a failed flush at the close loses; its exit status
is right (`SavedIsRead`).

### Bounds, and why they are enough

* Two requests and two or three commands (`FewCmds`, `MoreCmds`): a stray event
  needs an earlier and a later command on one request and, for collisions, one
  more request. The TCP host has a third, with a slot of its own: two requests
  of one slot never have records at once, so only it can take an entry of
  `cid_idx` from a record that is still open. The generation in a cid wraps after
  two commands here (16 in nvme).
* One missed or late hook per behaviour (`MaxMiss`, `MaxMisses`, `TcpTrouble`), and
  two disturbances on the RDMA host (`RdmaTrouble`): each documented recovery is for
  a single lost event. Other combinations of two are not covered by these runs.
* `MaxSignals = 3`: a second Ctrl-C that `poll()` sleeps through, and one more.
* A ring of two records and three commands: full, empty, and both orders of a
  pair. `MaxPerKey = 2` with three commands makes eviction possible.
* `MaxTime` leaves room for a tick, a host's wait, an expiry and the drain; in
  `SpdkSockets` for a target's command with two other events (`MaxExtra`).
* `Ring = 2` with up to four reads wraps the ring, and
  `Low = 4` lets the 32 bits wrap; `Posts = 1` with two requests fills the list.
* `BufferWords = 5` makes a flush fall inside a record and between two.
  `Versions` has every version that can be read, and a later one.
* `Bursts = {1, 120}`: the smallest number that puts one record under 1 %.
* `MaxDispatches`, `MaxTimeouts`, `MaxCopies`, `MaxGates`,
  `MaxSubmits`, `MaxAdds`, `MaxRecords` bound inputs; every action is still
  taken in every order within them.
* In `Recording` a record may stay in the ring while the loop goes round, longer
  than in the code, where a poll takes all it finds. Safety properties shown of
  the model hold of the code a fortiori; a bound on a host record's wait would
  not, and none is claimed. (The code releases waiting hosts at ticks of the
  report interval only, so they can wait longer than the 100 ms of design.md.)
* Symmetry exchanges requests, reads, CPUs or commands that no operator orders
  or computes with, and only in runs without liveness.

### Fairness

`Recording!Fairness` is weak fairness of the loop's own steps and of the clock:
`record()` polls with a timeout and always returns to its loop. Nothing is
assumed of the commands. `Supervisor!Fairness` is weak fairness of the steps of
processes that are scheduled. A child that attaches or removes fentry programs
is not assumed to get on (a busy CPU can hold it up); one with kprobes is. The
grandchild is not assumed to end, nor a user to press Ctrl-C.

## 3. Proofs

`JoinerProofs` proves `JoinerCorrect`, `OnlineSpec => []JoinInv`, for any set
of commands, any keys and ids, any set of integer times and any limit.
`JoinInv` is inductive: it joins the type invariant, the two accounting
equations, `NoMutualWait`, `UsedOnce`, `PairsAgree`, `BucketsBounded` and
`OneEntryPerRecord`. The last is the strengthening. The equations count
entries by cardinality, so removing an entry must remove one record, which
needs each record to have at most one entry, and an entry's record to be among
those that arrived.

`RecordingProofs` first proves the loop's own invariant (`RingAndClock`: what is
in the ring are records of commands, and the clock stays in its range), and
from it `RecordingImplementsJoiner`, `Spec => OnlineSpec`. The joiner's
variables are the loop's, so the mapping is the identity and every step is a
joiner step or leaves them alone. `RecordsAccounted`, `RecordsUsedOnce` and
`MemoryBounded` then follow from `JoinerCorrect`.

It also proves `PairsAreRight`, `Spec => []PairsAreOneCommand`, for any commands,
keys and ids, any ring size, waiting times and limit. Commands of one id differ in
nothing but the order of their records, so the invariant (`PairInv`, inductive with
`JoinInv` and `RingAndClock`) follows that order all the way. A command starts
after the earlier ones of its key completed on the host (`KeysInTurn`). The
records of each kind pass the ring in the order of the commands of a key, and with
a command the joiner has seen all earlier ones of its key (`Stream`). Waiting
records of an id are numbered in that order (`Numbered`), and a record that came
either waits or is in its own command's pair (`WaitsOrPaired`). The argument is in
`TakenIsOwn`: of the records of the id that wait, an earlier command's cannot be
there, as its counterpart came before and would have taken it, and a later
command's is newer than the command's own. All of it is stated as long as nothing
was lost; `LossStays` shows that the counters that say so never go back.

`SlotClaimProofs` proves `ClaimsHidden`, `Spec => []NoHalfClaimFound`, for any
number of requests that hash to the slot and any number of commands. The
inductive `ClaimInv` adds to it that, while two claims never met, at most one
request is claiming and the slot has no owner while it is filled: a hook that
compares the owner with its own request cannot then find a half-written record.
`ExactWithoutRaces`, `Spec => []ExactUnlessRaced`, needs more (`ExactInv`): what
the slot holds at each step of a claim (`Filling`), that it holds its owner's id
and times from then on (`Owned`, `Copied`), and that `ntp_inflight` is the number
of completions that have still to decrement it, plus one for an owner or a claim
that has counted. Each of these holds while `raced` is false, and a step that
keeps it false ends in a state with one claim and no other user, which is what
the proof of every store uses.

`HostQueuesProofs` proves `InflightNeverTooSmall`,
`Spec => [](TypeOK /\ InflightCovers)`, for any set of requests and
any bounds on dispatches and timeouts. `InflightCovers` equates a counter with a
cardinality. The strengthening says that what the two `uncount()`s have read of
an element still has INFLIGHT in it, so that the sender's write, wherever its
pointer has come to point, never takes that bit away from a request.

`ReadDataProofs` proves `ReadBusyInside` (`BusyInsideSpan`) and
`ReadPhaseInOrder` (`PhaseInOrder`) for any finite set of reads, any number of
copies and any times. Neither is inductive. `PhaseInv` says where the current
call stands with respect to each read: what it counts for a read begins after
all that was counted for that read before, because a call counts from its start
only before any other read's data or completion in it. `DataDone` states what
`host_data_done()` does to a read once, and each action's lemma uses it.

`BreakdownProofs` proves the four properties of the stage model for every kind of
command and any times: `LatencyIsAccounted`, `StagesAreAccounted` and
`ClocksAreIrrelevant` first as facts about any two records, whatever times they
lack, and `ComponentsNotNegative` from `RecordsFilledInOrder`. Its invariant
`FillInv` gives every event a rank and says that the times present are in the
order of the ranks and not after the clock, that the events to come are in order
too, and that an RDMA read's data and response carry one time. The hypotheses are
`Span \in Nat`, `Busies \subseteq Nat` and, for the clocks, `Offsets \subseteq Nat`.

`GatingProofs` proves `GatesAreRestored` and `HostRecordsHaveTarget` for any
commands and any finite sets of processes. What the loader has still to store is
part of the state, so the invariants `GateInv` and `TargetInv` say in which order
it will come: `GuardedBy(todo, A, b)` is that every store of A in `todo` comes
after the store b. Opening an object's gates is guarded by marking it as gated,
and unmarking it by closing each of them. A closing store that fails leaves its
process in `stuck`, which `GatesAreRestored` excepts: `ungate()` goes on to the next
process, so no other gate stays open. A host's gate is guarded by each
target's, and closing a target's by disarming the host's object.
`HostRecordsHaveTarget` assumes in addition that no process is on both sides
(`HostProcs \cap TargetProcs = {}`). The code does not look: `ntp_spdk_find()`
runs once per side, each with its own list of files. A process on both sides has
one gate, which is opened with the first target's and closed with the host's, and
the proof stops at exactly those two stores without the hypothesis. No such
process is in the runs either.

`SupervisorProofs` proves `ExitIsTheOutcome` (`ExitTellsOutcome`) and `GateIsHeld`
(`GateHeld`) for any number of signals. The inductive `SupInv` ties each child's
state to where it is in `record()` (armed, its file, what it will return), and
the parent's to the bytes and the status it has read; a lemma per action shows
that the action keeps both.

The assumptions are the named ASSUMEs of `Joiner`, `Recording`, `SlotClaim`,
`ReadData`, `StageModel` and `Supervisor` on their constants (integer times that
include what the loop computes with its clock, a limit that is a natural number,
0 meaning none, a drain that ends within `MaxTime`, a model value that is no
request, no read and no record, finitely many reads, a number of signals); TLC
evaluates them in the runs that extend these modules. What the others need of
their constants is a hypothesis of the theorem: natural numbers for the bounds of
`HostQueues` and the times of `Breakdown`, finitely many processes in `Gating`.

Only model-checked: liveness (`DrainEnds`, `TwoInterruptsLeave`,
`ReportReturns`, `EndedChildNoticed`), which the prover does not reach.
`FindIsLatest`, whose binary search would need an induction over its steps.
`NoInstantTwice`, `UniformRowsAddUp` and the report's `RecordsAccounted`, which
speak of sums over sets and sequences of records: what a fold computes needs an
induction over data. The two properties of the offline report, the hooks of the
kernel's hosts and targets, `WriteTimed`, SPDK's times, the loader's hooks and
the record file, for which no inductive invariant has been worked out.

## 4. Not modelled

* Options and the configuration file (`main.c`, `config.c`), utilities, and the
  kernel types: parsing, formatting and declarations without state. What the
  options choose is a constant or an initial choice of a module.
* How SPDK processes, the gate's address and a module's BTF are found
  (`spdk.c`, `loader.c`): parsing of /proc and ELF files.
* Layout of reports, JSON output, percentiles, the throughput line and
  the dump of records as CSV.
* The counters of SPDK's probes, and SPDK commands that are not sampled, are
  reads over RDMA on the target or use in-capsule data there.
* Memory reordering between CPUs in `SlotClaim`: stores are seen in program
  order, as on x86.
* Two ntprofs on one SPDK process, and more SPDK processes than
  `NTP_MAX_PIDS`: the code makes no promise about either.
* A child killed from outside while it records: only its parent's SIGKILL while it
  attaches, SIGPIPE and Ctrl-C are. SPDK's gates would stay open, as after any
  SIGKILL of an armed child.
* Commands in flight in SPDK when recording stops: their probes find the object
  disarmed and report nothing (in `Gating`), so the drain has only the kernel's.
* Several components at once where they meet only through records: the hooks
  deliver to `Recording` whatever records it is given, in any order.
