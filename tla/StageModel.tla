----------------------------- MODULE StageModel -----------------------------
(***************************************************************************)
(* The stage model (src/model.c): one host record, and the target record   *)
(* joined to it if there is one, become latency components that add up to  *)
(* the end-to-end time. A pure function of the two records; a component    *)
(* that does not apply is 0 and not in `valid`, as after the memset() of   *)
(* ntp_breakdown().                                                        *)
(*                                                                         *)
(* Timestamps are nanoseconds since boot, far below 2^63: the casts of d() *)
(* never wrap, and are left out.                                           *)
(***************************************************************************)
EXTENDS Integers

CONSTANT None     \* no target record (t = NULL)

HostEvents == {"START", "QUEUE_RQ", "CMD_SENT", "R2T_ARR", "R2T_PROC", "DATA_START",
               "C2H_ARR", "C2H_PROC", "C2H_DONE", "RSP_ARR", "RSP_PROC", "NVME_DONE", "BLK_DONE"}
TgtEvents == {"CMD_ARR", "CMD_PROC", "R2T_SENT", "DATA_ARR", "DATA_PROC", "DATA_DONE", "EXEC",
              "BE_ISSUE", "BE_DONE", "COMPLETE", "C2H_SENT", "RSP_SENT", "SEND_DONE"}

HostRec == [rdma : BOOLEAN, write : BOOLEAN, r2t : BOOLEAN,
            ts : [HostEvents -> Nat], busy : Nat]
\* fetch: NTP_F_RDMA_READ
TgtRec == [rdma : BOOLEAN, write : BOOLEAN, r2t : BOOLEAN, fetch : BOOLEAN,
           ts : [TgtEvents -> Nat], busy : Nat]

ASSUME NoneAssumption == None \notin TgtRec

-----------------------------------------------------------------------------
(* Classes and the events each needs.                                      *)

io_class(h) == IF ~ h.write THEN "read" ELSE IF h.r2t THEN "write_r2t" ELSE "write_inline"

have_all(ts, events) == \A e \in events : ts[e] # 0

host_req(class) ==
  {"QUEUE_RQ", "CMD_SENT", "RSP_PROC", "BLK_DONE"} \cup
  (CASE class = "read"         -> {"C2H_ARR", "C2H_PROC"}
     [] class = "write_inline" -> {"RSP_ARR"}
     [] class = "write_r2t"    -> {"R2T_ARR", "R2T_PROC", "DATA_START", "RSP_ARR"})

tgt_req(class) ==
  {"CMD_ARR", "CMD_PROC", "EXEC", "COMPLETE"} \cup
  (CASE class = "read"         -> {"C2H_SENT"}
     [] class = "write_inline" -> {"RSP_SENT"}
     [] class = "write_r2t"    -> {"R2T_SENT", "DATA_ARR", "DATA_PROC", "RSP_SENT"})

host_req_rdma == {"QUEUE_RQ", "CMD_SENT", "RSP_ARR", "RSP_PROC", "BLK_DONE"}
tgt_req_rdma == {"CMD_ARR", "CMD_PROC", "EXEC", "COMPLETE"}

host_complete(h) ==
  have_all(h.ts, IF h.rdma THEN host_req_rdma ELSE host_req(io_class(h)))

-----------------------------------------------------------------------------
\* Mutant: the wait is the whole span.
data_phase_WaitWhole(first, done, next, busy) ==
  LET span == done - first
      ok   == busy # 0 /\ done # 0 /\ done >= first /\ done <= next
      own  == IF busy > span THEN span ELSE busy
  IN  [ok |-> ok, busy |-> IF ok THEN own ELSE 0, wait |-> IF ok THEN span ELSE 0]

\* Mutant: the busy time is not bounded by the span.
data_phase_Unbounded(first, done, next, busy) ==
  LET ok == busy # 0 /\ done # 0 /\ done >= first /\ done <= next
  IN  [ok |-> ok, busy |-> IF ok THEN busy ELSE 0, wait |-> IF ok THEN done - first - busy ELSE 0]

(* data_phase(): the receiver's own time on the data, and its wait, in the *)
(* span from its first work on the data to its last.                       *)
data_phase(first, done, next, busy) ==
  LET span == done - first
      ok   == busy # 0 /\ done # 0 /\ done >= first /\ done <= next
      own  == IF busy > span THEN span ELSE busy
  IN  [ok |-> ok, busy |-> IF ok THEN own ELSE 0, wait |-> IF ok THEN span - own ELSE 0]

read_data_phase(h) ==
  data_phase(h.ts["C2H_PROC"], h.ts["C2H_DONE"], h.ts["RSP_PROC"], h.busy)

write_data_phase(t) ==
  data_phase(t.ts["DATA_PROC"], t.ts["DATA_DONE"], t.ts["EXEC"], t.busy)

-----------------------------------------------------------------------------
(* common_host(), host_side(), rdma_host_side(): the host's components.    *)

HasStart(h) == h.ts["START"] # 0 /\ h.ts["START"] <= h.ts["QUEUE_RQ"]
OneTrip(h) == h.rdma \/ io_class(h) = "write_inline"   \* both have the same components

HostComps(h) ==
  LET H  == h.ts
      ph == read_data_phase(h)
      rd == ~ h.rdma /\ io_class(h) = "read"
      r2 == ~ h.rdma /\ io_class(h) = "write_r2t"
  IN  [BLK_SUB   |-> IF HasStart(h) THEN H["QUEUE_RQ"] - H["START"] ELSE 0,
       TR_SUB    |-> H["CMD_SENT"] - H["QUEUE_RQ"]
                     + IF r2 THEN H["DATA_START"] - H["R2T_PROC"] ELSE 0,
       REMOTE    |-> IF rd THEN H["C2H_ARR"] - H["CMD_SENT"]
                     ELSE IF r2 THEN (H["R2T_ARR"] - H["CMD_SENT"])
                                     + (H["RSP_ARR"] - H["DATA_START"])
                     ELSE H["RSP_ARR"] - H["CMD_SENT"],
       HOST_RX   |-> IF rd THEN H["C2H_PROC"] - H["C2H_ARR"]
                     ELSE IF r2 THEN (H["R2T_PROC"] - H["R2T_ARR"])
                                     + (H["RSP_PROC"] - H["RSP_ARR"])
                     ELSE H["RSP_PROC"] - H["RSP_ARR"],
       HOST_DATA |-> IF rd THEN ph.busy ELSE 0,
       HOST_WAIT |-> IF rd THEN ph.wait ELSE 0,
       TR_CMPL   |-> IF ~ rd THEN 0
                     ELSE H["RSP_PROC"] - IF ph.ok THEN H["C2H_DONE"] ELSE H["C2H_PROC"],
       BLK_CMPL  |-> H["BLK_DONE"] - H["RSP_PROC"],
       CMPL_IPI  |-> IF H["NVME_DONE"] # 0 THEN H["NVME_DONE"] - H["RSP_PROC"] ELSE 0,
       E2E       |-> H["BLK_DONE"] - IF HasStart(h) THEN H["START"] ELSE H["QUEUE_RQ"]]

HostValid(h) ==
  {"TR_SUB", "REMOTE", "HOST_RX", "TR_CMPL", "BLK_CMPL", "E2E"}
  \cup (IF HasStart(h) THEN {"BLK_SUB"} ELSE {})
  \cup (IF ~ h.rdma /\ ~ h.write /\ read_data_phase(h).ok
        THEN {"HOST_DATA", "HOST_WAIT"} ELSE {})
  \cup (IF h.ts["NVME_DONE"] # 0 THEN {"CMPL_IPI"} ELSE {})

-----------------------------------------------------------------------------
(* rdma_target_side(), first half: which posting time counts. One after    *)
(* the send completion is taken for another command's; without one, the    *)
(* completion stands in, if the send completion was seen.                  *)

\* Mutant: a posting that was not seen counts.
posting_ok_Unseen(t) == ~ (t.ts["SEND_DONE"] # 0 /\ t.ts["RSP_SENT"] > t.ts["SEND_DONE"])

posting_ok(t) ==
  t.ts["RSP_SENT"] # 0 /\ ~ (t.ts["SEND_DONE"] # 0 /\ t.ts["RSP_SENT"] > t.ts["SEND_DONE"])

rdma_rsp_sent(t) == IF posting_ok(t) THEN t.ts["RSP_SENT"] ELSE t.ts["COMPLETE"]
rdma_c2h_sent(t) == IF posting_ok(t) THEN t.ts["C2H_SENT"] ELSE t.ts["COMPLETE"]

rdma_target_complete(t) ==
  /\ have_all(t.ts, tgt_req_rdma)
  /\ t.fetch => t.ts["R2T_SENT"] # 0 /\ t.ts["DATA_PROC"] # 0
  /\ posting_ok(t) \/ t.ts["SEND_DONE"] # 0

\* ntp_breakdown(): the target record can be used.
target_usable(h, t) ==
  /\ t # None
  /\ IF h.rdma
     THEN t.write = h.write /\ t.rdma /\ rdma_target_complete(t)
     ELSE t.r2t = (io_class(h) = "write_r2t") /\ have_all(t.ts, tgt_req(io_class(h)))

-----------------------------------------------------------------------------
(* target_side() and rdma_target_side(): the target's components, and its  *)
(* residence, which is subtracted from the host's wait.                    *)

TargetComps(class, t) ==
  LET T  == t.ts
      r2 == class = "write_r2t"
      ph == write_data_phase(t)
      sent == IF class = "read" THEN T["C2H_SENT"] ELSE T["RSP_SENT"]
  IN  [TGT_RX   |-> T["CMD_PROC"] - T["CMD_ARR"]
                    + IF r2 THEN T["DATA_PROC"] - T["DATA_ARR"] ELSE 0,
       TGT_SUB  |-> IF r2 THEN (T["R2T_SENT"] - T["CMD_PROC"])
                               + (T["EXEC"] - IF ph.ok THEN T["DATA_DONE"] ELSE T["DATA_PROC"])
                    ELSE T["EXEC"] - T["CMD_PROC"],
       TGT_DATA |-> IF r2 THEN ph.busy ELSE 0,
       TGT_WAIT |-> IF r2 THEN ph.wait ELSE 0,
       TGT_BE   |-> T["COMPLETE"] - T["EXEC"],
       TGT_CMPL |-> sent - T["COMPLETE"],
       residence |-> IF r2 THEN (T["R2T_SENT"] - T["CMD_ARR"]) + (sent - T["DATA_ARR"])
                     ELSE sent - T["CMD_ARR"]]

RdmaTargetComps(t) ==
  LET T     == t.ts
      sent  == rdma_rsp_sent(t)
      fetch == IF t.fetch THEN T["DATA_PROC"] - T["R2T_SENT"] ELSE 0
  IN  [TGT_RX   |-> T["CMD_PROC"] - T["CMD_ARR"],
       TGT_SUB  |-> IF t.fetch THEN (T["R2T_SENT"] - T["CMD_PROC"])
                                    + (T["EXEC"] - T["DATA_PROC"])
                    ELSE T["EXEC"] - T["CMD_PROC"],
       TGT_DATA |-> 0,
       TGT_WAIT |-> 0,
       TGT_BE   |-> T["COMPLETE"] - T["EXEC"],
       TGT_CMPL |-> sent - T["COMPLETE"],
       residence |-> (sent - T["CMD_ARR"]) - fetch]

NoTargetComps ==
  [TGT_RX |-> 0, TGT_SUB |-> 0, TGT_DATA |-> 0, TGT_WAIT |-> 0, TGT_BE |-> 0,
   TGT_CMPL |-> 0, residence |-> 0]

\* backend_details() applies: a drive completion after nvmet_req_complete()
\* belongs to another command.
HasBackend(t) ==
  t.ts["BE_ISSUE"] # 0 /\ t.ts["BE_DONE"] # 0 /\ t.ts["BE_DONE"] <= t.ts["COMPLETE"]

backend_details(t) ==
  [TGT_BE_SUB  |-> t.ts["BE_ISSUE"] - t.ts["EXEC"],
   TGT_DEV     |-> t.ts["BE_DONE"] - t.ts["BE_ISSUE"],
   TGT_BE_CMPL |-> t.ts["COMPLETE"] - t.ts["BE_DONE"]]

\* NTP_C_NET_DATA: the data over the network, as an RDMA target times it.
HasNetData(t) ==
  t.fetch \/ (~ t.write /\ rdma_c2h_sent(t) # 0 /\ t.ts["SEND_DONE"] # 0)
net_data(t) ==
  IF ~ t.write /\ rdma_c2h_sent(t) # 0 /\ t.ts["SEND_DONE"] # 0
  THEN t.ts["SEND_DONE"] - rdma_c2h_sent(t)
  ELSE t.ts["DATA_PROC"] - t.ts["R2T_SENT"]

-----------------------------------------------------------------------------
(* ntp_breakdown() of a complete host record.                              *)

target_comps(h, t) ==
  IF ~ target_usable(h, t) THEN NoTargetComps
  ELSE IF h.rdma THEN RdmaTargetComps(t) ELSE TargetComps(io_class(h), t)

ntp_breakdown(h, t) ==
  LET joined == target_usable(h, t)
      hc     == HostComps(h)
      tc     == target_comps(h, t)
  IN  [err    |-> IF t = None \/ joined THEN "ok" ELSE "incomplete_target",
       joined |-> joined,
       class  |-> IF joined /\ h.rdma /\ t.fetch THEN "write_r2t" ELSE io_class(h),
       host   |-> [hc EXCEPT !.REMOTE = IF joined THEN 0 ELSE hc.REMOTE],
       tgt    |-> tc,
       NET    |-> IF joined THEN hc.REMOTE - tc.residence ELSE 0,
       valid  |-> IF ~ joined THEN HostValid(h)
                  ELSE (HostValid(h) \ {"REMOTE"})
                       \cup {"NET", "TGT_RX", "TGT_SUB", "TGT_BE", "TGT_CMPL"}
                       \cup (IF ~ h.rdma /\ io_class(h) = "write_r2t" /\ write_data_phase(t).ok
                             THEN {"TGT_DATA", "TGT_WAIT"} ELSE {})
                       \cup (IF HasBackend(t) THEN {"TGT_BE_SUB", "TGT_DEV", "TGT_BE_CMPL"} ELSE {})
                       \cup (IF h.rdma /\ HasNetData(t) THEN {"NET_DATA"} ELSE {})]

(* stages(): the parts each needs, and its sum with the extras present.    *)
stage_parts ==
  [S1 |-> {"BLK_SUB", "BLK_CMPL"}, S2 |-> {"TR_SUB", "TR_CMPL"},
   S3_S5 |-> {"NET", "TGT_RX", "HOST_RX"}, S6 |-> {"TGT_SUB", "TGT_CMPL"}, S7_S9 |-> {"TGT_BE"}]

stage_valid(b) == {s \in DOMAIN stage_parts : stage_parts[s] \subseteq b.valid}

\* Mutant: the waits are in no stage.
stages_NoWaits(b) ==
  [S1    |-> b.host.BLK_SUB + b.host.BLK_CMPL,
   S2    |-> b.host.TR_SUB + b.host.TR_CMPL + b.host.HOST_DATA,
   S3_S5 |-> b.NET + b.tgt.TGT_RX + b.host.HOST_RX,
   S6    |-> b.tgt.TGT_SUB + b.tgt.TGT_CMPL + b.tgt.TGT_DATA,
   S7_S9 |-> b.tgt.TGT_BE]

stages(b) ==
  [S1    |-> b.host.BLK_SUB + b.host.BLK_CMPL,
   S2    |-> b.host.TR_SUB + b.host.TR_CMPL + b.host.HOST_DATA,
   S3_S5 |-> b.NET + b.tgt.TGT_RX + b.host.HOST_RX + b.host.HOST_WAIT + b.tgt.TGT_WAIT,
   S6    |-> b.tgt.TGT_SUB + b.tgt.TGT_CMPL + b.tgt.TGT_DATA,
   S7_S9 |-> b.tgt.TGT_BE]

-----------------------------------------------------------------------------
(* What the model promises of a complete host record and any target record *)
(* or none.                                                                *)

CompSum(b) ==
  b.host.BLK_SUB + b.host.TR_SUB + b.NET + b.tgt.TGT_RX + b.tgt.TGT_SUB + b.tgt.TGT_WAIT
  + b.tgt.TGT_DATA + b.tgt.TGT_BE + b.tgt.TGT_CMPL + b.host.HOST_RX + b.host.HOST_WAIT
  + b.host.HOST_DATA + b.host.TR_CMPL + b.host.BLK_CMPL + b.host.REMOTE

\* "Their sum is the end-to-end latency": whichever events are missing, whether
\* or not the target record can be used, nothing is lost and nothing is counted
\* twice.
AddsUp(h, t) == host_complete(h) => CompSum(ntp_breakdown(h, t)) = HostComps(h).E2E

\* When all five stages are reported they add up to the end-to-end latency too.
StagesAddUp(h, t) ==
  LET b == ntp_breakdown(h, t)
      s == stages(b)
  IN  host_complete(h) /\ stage_valid(b) = DOMAIN stage_parts =>
        s.S1 + s.S2 + s.S3_S5 + s.S6 + s.S7_S9 = b.host.E2E

\* The details split the storage component without a remainder.
DetailsAddUp(h, t) ==
  target_usable(h, t) /\ HasBackend(t) =>
    LET d == backend_details(t)
    IN  d.TGT_BE_SUB + d.TGT_DEV + d.TGT_BE_CMPL = ntp_breakdown(h, t).tgt.TGT_BE

\* The same target record from a machine whose clock is k ahead.
Shift(t, k) ==
  [t EXCEPT !.ts = [e \in TgtEvents |-> IF t.ts[e] = 0 THEN 0 ELSE t.ts[e] + k]]

\* "Only differences between timestamps of the same machine are taken": the
\* two machines' clocks need not agree.
ClocksIndependent(h, t, k) ==
  host_complete(h) /\ t # None => ntp_breakdown(h, Shift(t, k)) = ntp_breakdown(h, t)
=============================================================================
