--------------------------- MODULE TargetRecords ----------------------------
(***************************************************************************)
(* The target side's records and queue counts (bpf/target.bpf.h), common   *)
(* to NVMe/TCP and NVMe/RDMA.                                              *)
(***************************************************************************)
EXTENDS RecordTable

CONSTANT CountedMax   \* max_entries of tcounted

ASSUME CountedMaxAssumption == CountedMax \in Nat

(* ntp_t_req_init(), up to the filters: the req's previous command is over, *)
(* so a record still open is emitted before this command's events reach it. *)
Flush(T, r, room) ==
  IF T.inflight # 0 THEN Emit(Flag(T, r, "REUSED"), r, room) ELSE T

\* Mutant: the previous command's record is only replaced, never emitted.
ReqInit_NoFlush(T, r, c, flags, sampled, room) ==
  IF sampled THEN Claim(T, r, c, flags, {"CMD_ARR", "CMD_PROC"}) ELSE T

(* ntp_t_req_init(), once armed: what it does to the records.              *)
ReqInit(T, r, c, flags, sampled, room) ==
  IF sampled THEN Claim(Flush(T, r, room), r, c, flags, {"CMD_ARR", "CMD_PROC"})
  ELSE Flush(T, r, room)

-----------------------------------------------------------------------------
(* Exact queue counts (filter.track_queues): one queue's tqstat, and what  *)
(* tcounted holds of its commands. When tcounted is full the insertion     *)
(* fails, unnoticed.                                                       *)

CountBits == {"OUTSTANDING", "RESP_QUEUED"}      \* CNT_*

\* flags: the flags of tcounted's elements, by their keys; failed: insertions
\* that failed.
Occupancy == [outstanding : Int, resp : Int, failed : Nat,
              flags : UNION {[K -> SUBSET CountBits] : K \in SUBSET Reqs}]
NoOccupancy == [outstanding |-> 0, resp |-> 0, failed |-> 0, flags |-> [r \in {} |-> {}]]

Keys(Q) == DOMAIN Q.flags
With(Q, bit) == {r \in Keys(Q) : bit \in Q.flags[r]}

\* uncount(req, both bits, forget): the counters lose the flags it read, the
\* element both flags, and the key its element. One step for nvmet-tcp, whose
\* io_work both sends responses and receives commands; RdmaTarget takes it apart.
Drop(Q, read) ==
  [Q EXCEPT !.outstanding = IF "OUTSTANDING" \in read THEN @ - 1 ELSE @,
            !.resp = IF "RESP_QUEUED" \in read THEN @ - 1 ELSE @]
Cleared(Q, r) == [Q EXCEPT !.flags = [k \in DOMAIN @ |-> IF k = r THEN {} ELSE @[k]]]
Forget(Q, r) == [Q EXCEPT !.flags = [k \in DOMAIN @ \ {r} |-> @[k]]]

uncount(Q, r) == IF r \in Keys(Q) THEN Forget(Drop(Q, Q.flags[r]), r) ELSE Q

\* bpf_map_update_elem(&tcounted, ...), whose result nobody looks at.
Insert(Q, r) ==
  IF r \in Keys(Q) \/ Cardinality(Keys(Q)) < CountedMax
  THEN [Q EXCEPT !.flags = [k \in DOMAIN @ \cup {r} |-> IF k = r THEN {"OUTSTANDING"} ELSE @[k]]]
  ELSE [Q EXCEPT !.failed = @ + 1]

\* The counting part of ntp_t_req_init(), once the key's previous command left
\* the counts: the new one is counted.
Arrives(Q, r) == [Insert(Q, r) EXCEPT !.outstanding = @ + 1]

\* The whole of it: the previous command leaves if its response was never seen.
count_arrival(Q, r) == Arrives(uncount(Q, r), r)

count_resp_queued(Q, r) ==
  IF r \in Keys(Q) \ With(Q, "RESP_QUEUED")
  THEN [Q EXCEPT !.flags[r] = @ \cup {"RESP_QUEUED"}, !.resp = @ + 1] ELSE Q

-----------------------------------------------------------------------------
\* Each counter is within k of the number of commands flagged for it, those whose
\* insertion into tcounted failed included: they stay in `outstanding` for good.
OccupancyWithin(Q, k) ==
  /\ Q.resp - Cardinality(With(Q, "RESP_QUEUED")) \in -k..k
  /\ Q.outstanding - Cardinality(With(Q, "OUTSTANDING")) - Q.failed \in -k..k

\* No decrement goes without its increment, so neither is ever negative.
OccupancyExact(Q) == OccupancyWithin(Q, 0) /\ With(Q, "OUTSTANDING") = Keys(Q)
=============================================================================
