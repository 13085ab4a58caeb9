----------------------------- MODULE Recording ------------------------------
(***************************************************************************)
(* `ntprof record --role both` around the joiner: commands run on a host   *)
(* and a target of one machine, their records go through the shared ring   *)
(* buffer, and the main loop of record() (src/record.c) reads the ring,    *)
(* ticks once per report interval, and at the end disarms, drains and      *)
(* releases. Time is counted in rounds of the loop's 100 ms poll.          *)
(***************************************************************************)
EXTENDS Joiner, Sequences

CONSTANTS
  RingSize,       \* records the ring buffer holds
  Interval,       \* interval_s, in poll rounds
  HostWait,       \* HOST_WAIT_NS, in poll rounds
  TargetExpiry,   \* TARGET_EXPIRY_NS, in poll rounds
  Drain,          \* DRAIN_NS, in poll rounds
  MaxTime         \* bound on the clock

ASSUME RecordingAssumption ==
  /\ Cmds \subseteq Nat \ {0}
  /\ {RingSize, Interval, HostWait, TargetExpiry, Drain, MaxTime} \subseteq Nat
  /\ -TargetExpiry .. MaxTime \subseteq Times
  /\ -HostWait .. MaxTime \subseteq Times
  /\ Drain <= MaxTime

VARIABLES
  now,            \* CLOCK_MONOTONIC
  checked,        \* the loop has read the clock since it last moved
  nextTick,       \* next_tick
  phase,          \* "run"; "drain" (disarmed); "done" (reported)
  until,          \* when draining ends
  startedAt,      \* started command -> its T_CMD_ARR
  hostDone,       \* commands completed on the host (record output or dropped)
  targetDone,     \* commands whose target record was output or dropped
  ring,           \* the ring buffer `events`
  drops,          \* NTP_CNT_RB_DROPS
  file            \* the records written by ntp_writer_add(), in order

loopVars == <<now, checked, nextTick, phase, until>>
kernelVars == <<startedAt, hostDone, targetDone>>
vars == <<joinVars, loopVars, kernelVars, ring, drops, file>>

Started == DOMAIN startedAt

\* What on_record() reads of a record in the ring.
RingRec == [kind : {"host", "target"}, cmd : Cmds, ts : 0..MaxTime]

Earlier(c) == {d \in Cmds : d < c}
SameKey(c) == {d \in Cmds : KeyOf(d) = KeyOf(c)}

-----------------------------------------------------------------------------
(* The commands. Numbers are start order; a key (a cid of a queue) is used *)
(* again once its command completed on the host.                           *)

\* A sampled command reaches its target: only while armed (ntp_t_req_init()).
Start(c) ==
  /\ phase = "run"
  /\ c \notin Started /\ Earlier(c) \subseteq Started
  /\ Earlier(c) \cap SameKey(c) \subseteq hostDone
  /\ startedAt' = [d \in Started \cup {c} |-> IF d = c THEN now ELSE startedAt[d]]
  /\ UNCHANGED <<joinVars, loopVars, hostDone, targetDone, ring, drops, file>>

\* bpf_ringbuf_output(): the record is appended, or dropped when there is no room.
Output(kind, c, ts) ==
  IF Len(ring) < RingSize
  THEN ring' = Append(ring, [kind |-> kind, cmd |-> c, ts |-> ts]) /\ UNCHANGED drops
  ELSE drops' = drops + 1 /\ UNCHANGED ring

\* The target emits a command's record once its response was sent, in order
\* for the commands of one key.
TargetEmits(c) ==
  /\ phase # "done"
  /\ c \in Started \ targetDone
  /\ Earlier(c) \cap SameKey(c) \subseteq targetDone
  /\ targetDone' = targetDone \cup {c}
  /\ Output("target", c, startedAt[c])
  /\ UNCHANGED <<joinVars, loopVars, startedAt, hostDone, file>>

\* The host emits it when the request completes (ntp_h_blk_done()); the
\* target's record may come before or, with SPDK, after it.
HostEmits(c) ==
  /\ phase # "done"
  /\ c \in Started \ hostDone
  /\ hostDone' = hostDone \cup {c}
  /\ Output("host", c, now)
  /\ UNCHANGED <<joinVars, loopVars, startedAt, targetDone, file>>

-----------------------------------------------------------------------------
(* record()'s loop.                                                        *)

\* Mutant: draining polls the ring and consumes nothing.
OnRecord_RunOnly ==
  /\ ring # <<>>
  /\ \/ phase = "drain" /\ UNCHANGED vars
     \/ /\ phase = "run"
        /\ ring' = Tail(ring)
        /\ file' = Append(file, Head(ring))
        /\ \/ Head(ring).kind = "host" /\ HostArrives(Head(ring).cmd, Head(ring).ts)
           \/ Head(ring).kind = "target" /\ TargetArrives(Head(ring).cmd, Head(ring).ts)
        /\ UNCHANGED <<loopVars, kernelVars, drops>>

\* ring_buffer__poll() hands the next record to on_record().
OnRecord ==
  /\ phase \in {"run", "drain"}
  /\ ring # <<>>
  /\ ring' = Tail(ring)
  /\ file' = Append(file, Head(ring))
  /\ \/ Head(ring).kind = "host" /\ HostArrives(Head(ring).cmd, Head(ring).ts)
     \/ Head(ring).kind = "target" /\ TargetArrives(Head(ring).cmd, Head(ring).ts)
  /\ UNCHANGED <<loopVars, kernelVars, drops>>

\* The rest of a loop iteration: nothing before next_tick, else the tick.
Iterate ==
  /\ phase = "run" /\ ~ checked
  /\ checked' = TRUE
  /\ \/ /\ now < nextTick
        /\ UNCHANGED <<nextTick, joinVars>>
     \/ /\ now >= nextTick
        /\ nextTick' = nextTick + Interval
        /\ Tick(now - HostWait, now - TargetExpiry)
  /\ UNCHANGED <<now, phase, until, kernelVars, ring, drops, file>>

\* A signal, the duration or a poll error ends the loop; ntp_loader_disarm().
Stop ==
  /\ phase = "run"
  /\ phase' = "drain" /\ until' = now + Drain
  /\ UNCHANGED <<joinVars, now, checked, nextTick, kernelVars, ring, drops, file>>

\* Mutant: the joiner is freed with hosts still waiting in it.
Finish_NoRelease ==
  /\ phase = "drain" /\ now >= until /\ ring = <<>>
  /\ phase' = "done"
  /\ hosts' = {}
  /\ UNCHANGED <<targets, hostsSeen, targetsSeen, st, reported>>
  /\ UNCHANGED <<now, checked, nextTick, until, kernelVars, ring, drops, file>>

\* The drain time is over and the ring is empty: release every waiting host
\* and report.
Finish ==
  /\ phase = "drain" /\ now >= until /\ ring = <<>>
  /\ phase' = "done"
  /\ ReleaseAll
  /\ UNCHANGED <<now, checked, nextTick, until, kernelVars, ring, drops, file>>

\* The clock moves; the poll's timeout makes the loop look at it each round.
Elapse ==
  /\ \/ phase = "run" /\ checked /\ now + Drain < MaxTime
     \/ phase = "drain" /\ now < until
  /\ now' = now + 1 /\ checked' = FALSE
  /\ UNCHANGED <<joinVars, nextTick, phase, until, kernelVars, ring, drops, file>>

Done == phase = "done" /\ UNCHANGED vars

-----------------------------------------------------------------------------
Init ==
  /\ JoinInit
  /\ now = 0 /\ checked = TRUE /\ nextTick = Interval /\ phase = "run" /\ until = 0
  /\ startedAt = [c \in {} |-> 0] /\ hostDone = {} /\ targetDone = {}
  /\ ring = <<>> /\ drops = 0 /\ file = <<>>

Next ==
  \/ \E c \in Cmds : Start(c) \/ TargetEmits(c) \/ HostEmits(c)
  \/ OnRecord \/ Iterate \/ Stop \/ Finish \/ Elapse \/ Done

Spec == Init /\ [][Next]_vars

\* The reader polls and the clock moves; a recording need not be stopped.
Fairness ==
  /\ WF_vars(OnRecord) /\ WF_vars(Iterate) /\ WF_vars(Finish) /\ WF_vars(Elapse)

FairSpec == Spec /\ Fairness

-----------------------------------------------------------------------------
\* The types of the loop's and the kernel's state; the ring never holds more
\* than fits.
TypeOK ==
  /\ JoinTypeOK
  /\ now \in 0..MaxTime /\ checked \in BOOLEAN
  /\ nextTick \in Nat /\ until \in Nat /\ drops \in Nat
  /\ phase \in {"run", "drain", "done"}
  /\ startedAt \in [Started -> 0..MaxTime] /\ Started \subseteq Cmds
  /\ hostDone \subseteq Started /\ targetDone \subseteq Started
  /\ ring \in Seq(RingRec) /\ Len(ring) <= RingSize

\* No record left the joiner, or the ring, without its counterpart.
NothingLost ==
  drops = 0 /\ st.evicted = 0 /\ st.expired = 0 /\ st.unmatched = 0

\* Commands of the same id (a recurring cid reading the same blocks) are told
\* apart only by order. As long as no record was lost, every joined pair is of
\* one command, however host and target records interleave in the ring.
PairsAreOneCommand ==
  NothingLost => \A p \in reported : p[1] = p[2]

\* The report at the end, and the released hosts: what came as a host record
\* was reported, joined or not.
HostRecordsReported ==
  phase = "done" => \A c \in hostsSeen : \E p \in reported : p[1] = c

\* What the refinement of OnlineSpec rests on: the ring holds records of
\* commands, and the clock stays in its bounds until the drain time is over.
RingAndClock ==
  /\ ring \in Seq(RingRec)
  /\ now \in 0..MaxTime /\ until \in 0..MaxTime
  /\ phase = "run" => now + Drain <= MaxTime
  /\ Started \subseteq Cmds /\ \A c \in Started : startedAt[c] \in 0..MaxTime

\* Draining ends: sampling has stopped, so the ring runs dry.
DrainEnds == phase = "drain" ~> phase = "done"

=============================================================================
