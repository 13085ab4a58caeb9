---------------------------- MODULE RecordTable -----------------------------
(***************************************************************************)
(* The direct-mapped tables of records under construction (`reqs` of       *)
(* bpf/host.bpf.h, `treqs` of bpf/target.bpf.h), ntp_inflight, the         *)
(* counters and the output, which the host and the target side share in    *)
(* bpf/common.bpf.h. This module has no actions: it gives each helper as   *)
(* an operator from the table before to the table after, and the modules   *)
(* of the transports make a hook of it.                                    *)
(*                                                                         *)
(* A timestamp is abstracted to the command whose execution set it (0: not *)
(* set), which is what tells a record apart that another command wrote to. *)
(***************************************************************************)
EXTENDS Integers, FiniteSets

CONSTANTS
  Reqs,           \* addresses of struct request (host), struct nvmet_req (target)
  NoReq,          \* e->rq = 0, e->req = 0: a free slot
  Slots,          \* indices of the table
  SlotOf(_),      \* ntp_slot() of an address
  Events,         \* the events that are timestamped
  Parts           \* the ends of a response that must be seen (RDMA target)

ASSUME ReqsAssumption == NoReq \notin Reqs
ASSUME SlotsAssumption == IsFiniteSet(Slots) /\ \A r \in Reqs : SlotOf(r) \in Slots

\* hdr.flags, without NTP_F_QUEUES and NTP_F_SPDK, which are the same in every record.
RecFlags == {"WRITE", "INLINE_DATA", "R2T", "DATA_SUCCESS", "MULTI_R2T", "RDMA_READ", "REUSED"}

Rec == [cmd : Nat, flags : SUBSET RecFlags, ts : [Events -> Nat]]
Entry == [req : Reqs \cup {NoReq}, parts : SUBSET Parts, rec : Rec]
Counters == [sampled : Nat, emitted : Nat, drops : Nat, stale : Nat]

\* The table, ntp_inflight, the per-CPU counters (summed) and what was output.
Table == [slot : [Slots -> Entry], inflight : Nat, cnt : Counters, out : SUBSET Rec]

NoStamps == [e \in Events |-> 0]
FreeEntry == [req |-> NoReq, parts |-> {}, rec |-> [cmd |-> 0, flags |-> {}, ts |-> NoStamps]]

EmptyTable ==
  [slot |-> [s \in Slots |-> FreeEntry], inflight |-> 0, out |-> {},
   cnt |-> [sampled |-> 0, emitted |-> 0, drops |-> 0, stale |-> 0]]

Open(T) == {s \in Slots : T.slot[s].req # NoReq}

\* host_entry(r) # NULL, tgt_entry(r) # NULL
HasRec(T, r) == T.slot[SlotOf(r)].req = r
RecOf(T, r) == T.slot[SlotOf(r)].rec

-----------------------------------------------------------------------------
(* ntp_stamp_once(), and a plain assignment, of command c's event e.       *)
StampOnce(T, r, e, c) ==
  IF HasRec(T, r) /\ RecOf(T, r).ts[e] = 0
  THEN [T EXCEPT !.slot[SlotOf(r)].rec.ts[e] = c] ELSE T

Stamp(T, r, e, c) ==
  IF HasRec(T, r) THEN [T EXCEPT !.slot[SlotOf(r)].rec.ts[e] = c] ELSE T

Flag(T, r, f) ==
  IF HasRec(T, r) THEN [T EXCEPT !.slot[SlotOf(r)].rec.flags = @ \cup {f}] ELSE T

\* Mutant: a dropped record is taken off ntp_inflight twice.
Emit_DropTwice(T, r, room) ==
  IF ~ HasRec(T, r) THEN T
  ELSE [slot |-> [T.slot EXCEPT ![SlotOf(r)] = FreeEntry],
        inflight |-> T.inflight - (IF room THEN 1 ELSE 2),
        cnt |-> IF room THEN [T.cnt EXCEPT !.emitted = @ + 1]
                        ELSE [T.cnt EXCEPT !.drops = @ + 1],
        out |-> IF room THEN T.out \cup {RecOf(T, r)} ELSE T.out]

(* ntp_h_blk_done() and tgt_emit(): output the record, or count a drop when *)
(* the ring is full, and free the slot (what a free slot still holds, no    *)
(* hook reads before a claim has cleared it).                               *)
Emit(T, r, room) ==
  IF ~ HasRec(T, r) THEN T
  ELSE [slot |-> [T.slot EXCEPT ![SlotOf(r)] = FreeEntry],
        inflight |-> T.inflight - 1,
        cnt |-> IF room THEN [T.cnt EXCEPT !.emitted = @ + 1]
                        ELSE [T.cnt EXCEPT !.drops = @ + 1],
        out |-> IF room THEN T.out \cup {RecOf(T, r)} ELSE T.out]

\* Mutant: ntp_inflight counts a record that replaces another.
Claim_CountsReplaced(T, r, c, flags, first) ==
  [T EXCEPT !.slot[SlotOf(r)] =
              [req |-> r, parts |-> {},
               rec |-> [cmd |-> c, flags |-> flags,
                        ts |-> [e \in Events |-> IF e \in first THEN c ELSE 0]]],
            !.inflight = @ + 1,
            !.cnt.stale = IF T.slot[SlotOf(r)].req # NoReq THEN @ + 1 ELSE @,
            !.cnt.sampled = @ + 1]

(* ntp_h_setup_cmd() and ntp_t_req_init() take the slot for a sampled      *)
(* command, whose first events are `first`. A record that is still in the  *)
(* slot, the request's own or another's, is lost.                          *)
Claim(T, r, c, flags, first) ==
  LET taken == T.slot[SlotOf(r)].req # NoReq
  IN  [slot |-> [T.slot EXCEPT ![SlotOf(r)] =
                   [req |-> r, parts |-> {},
                    rec |-> [cmd |-> c, flags |-> flags,
                             ts |-> [e \in Events |-> IF e \in first THEN c ELSE 0]]]],
       inflight |-> IF taken THEN T.inflight ELSE T.inflight + 1,
       cnt |-> [T.cnt EXCEPT !.stale = IF taken THEN @ + 1 ELSE @, !.sampled = @ + 1],
       out |-> T.out]

-----------------------------------------------------------------------------
(* What the table promises.                                                *)

\* Every sampled command's record was output, dropped at a full ring, replaced
\* in its slot, or is still open: the counters that `record -v` prints add up.
Accounted(T) ==
  T.cnt.sampled = T.cnt.emitted + T.cnt.drops + T.cnt.stale + Cardinality(Open(T))

\* ntp_inflight is the number of open records, so a timestamp-only hook that
\* returns early while it is 0 misses nothing.
InflightExact(T) == T.inflight = Cardinality(Open(T))

\* A record is only ever found under the request it belongs to: each open slot
\* holds a request that hashes to it.
InItsSlot(T) == \A s \in Open(T) : SlotOf(T.slot[s].req) = s

\* No command's record is output twice, and none is output while still open.
OutputOnce(T) ==
  /\ Cardinality(T.out) = T.cnt.emitted
  /\ \A a, b \in T.out : a.cmd = b.cmd => a = b
  /\ \A s \in Open(T) : \A a \in T.out : a.cmd # T.slot[s].rec.cmd

TableInv(T) == Accounted(T) /\ InflightExact(T) /\ InItsSlot(T) /\ OutputOnce(T)

Records(T) == T.out \cup {T.slot[s].rec : s \in Open(T)}

\* A record never holds an event of a command that came after its own.
NoLaterEvent(T) == \A a \in Records(T) : \A e \in Events : a.ts[e] <= a.cmd
=============================================================================
