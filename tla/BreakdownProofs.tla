-------------------------- MODULE BreakdownProofs ---------------------------
(***************************************************************************)
(* The stage model for any two records, with any times and any events      *)
(* missing: the components telescope to the end-to-end time, and no two    *)
(* machines' clocks are compared.  Then, for records whose events happened *)
(* in their order, no component is negative.                               *)
(***************************************************************************)
EXTENDS Breakdown, TLAPS

\* A host record's times and busy time are numbers.
LEMMA HostFields ==
  ASSUME NEW x \in HostRec
  PROVE  /\ x.ts \in [HostEvents -> Nat] /\ x.busy \in Nat
         /\ \A e \in HostEvents : x.ts[e] \in Nat
  BY DEF HostRec

\* So are a target record's.
LEMMA TgtFields ==
  ASSUME NEW y \in TgtRec
  PROVE  /\ y.ts \in [TgtEvents -> Nat] /\ y.busy \in Nat
         /\ \A e \in TgtEvents : y.ts[e] \in Nat
  BY DEF TgtRec

\* data_phase() splits the span of the data into two, or gives up.
Splits(ph, first, done, next) ==
  /\ ph.busy \in Nat /\ ph.wait \in Nat
  /\ ph.ok => ph.busy + ph.wait = done - first /\ done >= first /\ done <= next
  /\ ~ ph.ok => ph.busy = 0 /\ ph.wait = 0

\* data_phase(): busy and wait time together are the phase, unless it is dropped.
LEMMA DataPhaseSplits ==
  ASSUME NEW first \in Nat, NEW done \in Nat, NEW next \in Nat, NEW busy \in Nat
  PROVE  Splits(data_phase(first, done, next, busy), first, done, next)
  <1> DEFINE ok == busy # 0 /\ done # 0 /\ done >= first /\ done <= next
             own == IF busy > done - first THEN done - first ELSE busy
             ph == data_phase(first, done, next, busy)
  <1>1. /\ ph.ok <=> ok
        /\ ph.busy = IF ok THEN own ELSE 0
        /\ ph.wait = IF ok THEN (done - first) - own ELSE 0
    BY DEF data_phase
  <1> HIDE DEF ph
  <1>2. /\ ph.busy \in Nat /\ ph.wait \in Nat
        /\ ph.ok => ph.busy + ph.wait = done - first /\ done >= first /\ done <= next
        /\ ~ ph.ok => ph.busy = 0 /\ ph.wait = 0
    <2>1. CASE ok
      BY <1>1, <2>1
    <2>2. CASE ~ ok
      <3> HIDE DEF ok
      <3>1. QED  BY <1>1, <2>2
    <2>3. QED  BY <2>1, <2>2
  <1>3. QED  BY <1>2 DEF ph, Splits

\* The host's components, with its whole wait for the other side, are the
\* end-to-end time.
HostSums(hc) ==
  /\ hc.BLK_SUB \in Int /\ hc.TR_SUB \in Int /\ hc.REMOTE \in Int /\ hc.HOST_RX \in Int
  /\ hc.HOST_DATA \in Int /\ hc.HOST_WAIT \in Int /\ hc.TR_CMPL \in Int
  /\ hc.BLK_CMPL \in Int
  /\ hc.BLK_SUB + hc.TR_SUB + hc.REMOTE + hc.HOST_RX + hc.HOST_DATA + hc.HOST_WAIT
     + hc.TR_CMPL + hc.BLK_CMPL = hc.E2E

\* The host's components (host_side) telescope: they add up to the latency,
\* whichever times are missing.
LEMMA HostTelescopes ==
  ASSUME NEW x \in HostRec
  PROVE  HostSums(HostComps(x))
  <1> DEFINE H == x.ts
             ph == read_data_phase(x)
             rd == ~ x.rdma /\ io_class(x) = "read"
             r2 == ~ x.rdma /\ io_class(x) = "write_r2t"
             hc == HostComps(x)
  <1>1. \A e \in HostEvents : H[e] \in Nat
    BY HostFields
  <1>2. /\ H["START"] \in Nat /\ H["QUEUE_RQ"] \in Nat /\ H["CMD_SENT"] \in Nat
        /\ H["R2T_ARR"] \in Nat /\ H["R2T_PROC"] \in Nat /\ H["DATA_START"] \in Nat
        /\ H["C2H_ARR"] \in Nat /\ H["C2H_PROC"] \in Nat /\ H["C2H_DONE"] \in Nat
        /\ H["RSP_ARR"] \in Nat /\ H["RSP_PROC"] \in Nat /\ H["NVME_DONE"] \in Nat
        /\ H["BLK_DONE"] \in Nat
    BY <1>1 DEF HostEvents
  <1>3. /\ ph.busy \in Nat /\ ph.wait \in Nat
        /\ ph.ok => ph.busy + ph.wait = H["C2H_DONE"] - H["C2H_PROC"]
        /\ ~ ph.ok => ph.busy = 0 /\ ph.wait = 0
    <2>1. x.busy \in Nat
      BY HostFields
    <2>2. Splits(ph, H["C2H_PROC"], H["C2H_DONE"], H["RSP_PROC"])
      BY <1>2, <2>1, DataPhaseSplits DEF read_data_phase
    <2> HIDE DEF ph, H
    <2>3. QED  BY <2>2 DEF Splits
  <1> HIDE DEF ph
  <1>4. /\ hc.BLK_SUB = IF HasStart(x) THEN H["QUEUE_RQ"] - H["START"] ELSE 0
        /\ hc.E2E = H["BLK_DONE"] - IF HasStart(x) THEN H["START"] ELSE H["QUEUE_RQ"]
        /\ hc.BLK_CMPL = H["BLK_DONE"] - H["RSP_PROC"]
    BY DEF HostComps
  <1>5. /\ rd => /\ hc.TR_SUB = H["CMD_SENT"] - H["QUEUE_RQ"] /\ hc.REMOTE = H["C2H_ARR"] - H["CMD_SENT"]
                 /\ hc.HOST_RX = H["C2H_PROC"] - H["C2H_ARR"]
                 /\ hc.HOST_DATA = ph.busy /\ hc.HOST_WAIT = ph.wait
                 /\ hc.TR_CMPL = H["RSP_PROC"] - IF ph.ok THEN H["C2H_DONE"] ELSE H["C2H_PROC"]
        /\ r2 => /\ hc.TR_SUB = H["CMD_SENT"] - H["QUEUE_RQ"] + (H["DATA_START"] - H["R2T_PROC"])
                 /\ hc.REMOTE = (H["R2T_ARR"] - H["CMD_SENT"]) + (H["RSP_ARR"] - H["DATA_START"])
                 /\ hc.HOST_RX = (H["R2T_PROC"] - H["R2T_ARR"]) + (H["RSP_PROC"] - H["RSP_ARR"])
                 /\ hc.HOST_DATA = 0 /\ hc.HOST_WAIT = 0 /\ hc.TR_CMPL = 0
        /\ ~ rd /\ ~ r2 =>
                 /\ hc.TR_SUB = H["CMD_SENT"] - H["QUEUE_RQ"] /\ hc.REMOTE = H["RSP_ARR"] - H["CMD_SENT"]
                 /\ hc.HOST_RX = H["RSP_PROC"] - H["RSP_ARR"]
                 /\ hc.HOST_DATA = 0 /\ hc.HOST_WAIT = 0 /\ hc.TR_CMPL = 0
    <2>1. ~ (rd /\ r2)
      BY DEF io_class
    <2>2. /\ hc.TR_SUB = H["CMD_SENT"] - H["QUEUE_RQ"]
                         + IF r2 THEN H["DATA_START"] - H["R2T_PROC"] ELSE 0
          /\ hc.REMOTE = IF rd THEN H["C2H_ARR"] - H["CMD_SENT"]
                         ELSE IF r2 THEN (H["R2T_ARR"] - H["CMD_SENT"])
                                         + (H["RSP_ARR"] - H["DATA_START"])
                         ELSE H["RSP_ARR"] - H["CMD_SENT"]
          /\ hc.HOST_RX = IF rd THEN H["C2H_PROC"] - H["C2H_ARR"]
                          ELSE IF r2 THEN (H["R2T_PROC"] - H["R2T_ARR"])
                                          + (H["RSP_PROC"] - H["RSP_ARR"])
                          ELSE H["RSP_PROC"] - H["RSP_ARR"]
          /\ hc.HOST_DATA = IF rd THEN ph.busy ELSE 0
          /\ hc.HOST_WAIT = IF rd THEN ph.wait ELSE 0
          /\ hc.TR_CMPL = IF ~ rd THEN 0
                          ELSE H["RSP_PROC"] - IF ph.ok THEN H["C2H_DONE"] ELSE H["C2H_PROC"]
      BY DEF HostComps, ph
    <2> HIDE DEF hc, rd, r2
    <2>3. QED  BY <1>2, <2>1, <2>2
  <1> HIDE DEF hc, rd, r2, H
  <1>6. /\ hc.BLK_SUB \in Int
        /\ hc.BLK_SUB + (H["BLK_DONE"] - H["QUEUE_RQ"]) = hc.E2E
    BY <1>2, <1>4
  <1>7. /\ hc.TR_SUB \in Int /\ hc.REMOTE \in Int /\ hc.HOST_RX \in Int /\ hc.HOST_DATA \in Int
        /\ hc.HOST_WAIT \in Int /\ hc.TR_CMPL \in Int
        /\ hc.TR_SUB + hc.REMOTE + hc.HOST_RX + hc.HOST_DATA + hc.HOST_WAIT + hc.TR_CMPL
           = H["RSP_PROC"] - H["QUEUE_RQ"]
    <2>1. CASE rd
      <3>1. CASE ph.ok
        BY <1>2, <1>3, <1>5, <2>1, <3>1
      <3>2. CASE ~ ph.ok
        BY <1>2, <1>3, <1>5, <2>1, <3>2
      <3>3. QED  BY <3>1, <3>2
    <2>2. CASE r2
      BY <1>2, <1>5, <2>2
    <2>3. CASE ~ rd /\ ~ r2
      BY <1>2, <1>5, <2>3
    <2>4. QED  BY <2>1, <2>2, <2>3
  <1>8. HostSums(hc)
    BY <1>2, <1>4, <1>6, <1>7 DEF HostSums
  <1>9. QED  BY <1>8 DEF hc

\* The target's components are its residence.
TgtSums(tc) ==
  /\ tc.TGT_RX \in Int /\ tc.TGT_SUB \in Int /\ tc.TGT_DATA \in Int /\ tc.TGT_WAIT \in Int
  /\ tc.TGT_BE \in Int /\ tc.TGT_CMPL \in Int
  /\ tc.TGT_RX + tc.TGT_SUB + tc.TGT_DATA + tc.TGT_WAIT + tc.TGT_BE + tc.TGT_CMPL = tc.residence

\* The times of a target record.
LEMMA TgtTimes ==
  ASSUME NEW y \in TgtRec
  PROVE  /\ y.ts["CMD_ARR"] \in Nat /\ y.ts["CMD_PROC"] \in Nat /\ y.ts["R2T_SENT"] \in Nat
         /\ y.ts["DATA_ARR"] \in Nat /\ y.ts["DATA_PROC"] \in Nat /\ y.ts["DATA_DONE"] \in Nat
         /\ y.ts["EXEC"] \in Nat /\ y.ts["BE_ISSUE"] \in Nat /\ y.ts["BE_DONE"] \in Nat
         /\ y.ts["COMPLETE"] \in Nat /\ y.ts["C2H_SENT"] \in Nat /\ y.ts["RSP_SENT"] \in Nat
         /\ y.ts["SEND_DONE"] \in Nat
  <1>1. \A e \in TgtEvents : y.ts[e] \in Nat
    BY TgtFields
  <1>2. QED  BY <1>1 DEF TgtEvents

\* The TCP target's components add up to its residence time.
LEMMA TargetTelescopes ==
  ASSUME NEW y \in TgtRec, NEW class
  PROVE  TgtSums(TargetComps(class, y))
  <1> DEFINE T == y.ts
             r2 == class = "write_r2t"
             ph == write_data_phase(y)
             sent == IF class = "read" THEN T["C2H_SENT"] ELSE T["RSP_SENT"]
             tc == TargetComps(class, y)
  <1>1. /\ T["CMD_ARR"] \in Nat /\ T["CMD_PROC"] \in Nat /\ T["R2T_SENT"] \in Nat
        /\ T["DATA_ARR"] \in Nat /\ T["DATA_PROC"] \in Nat /\ T["DATA_DONE"] \in Nat
        /\ T["EXEC"] \in Nat /\ T["COMPLETE"] \in Nat /\ sent \in Nat
    BY TgtTimes
  <1>2. Splits(ph, T["DATA_PROC"], T["DATA_DONE"], T["EXEC"])
    BY <1>1, TgtFields, DataPhaseSplits DEF write_data_phase
  <1>3. /\ tc.TGT_RX = T["CMD_PROC"] - T["CMD_ARR"] + IF r2 THEN T["DATA_PROC"] - T["DATA_ARR"] ELSE 0
        /\ tc.TGT_SUB = IF r2 THEN (T["R2T_SENT"] - T["CMD_PROC"])
                                   + (T["EXEC"] - IF ph.ok THEN T["DATA_DONE"] ELSE T["DATA_PROC"])
                        ELSE T["EXEC"] - T["CMD_PROC"]
        /\ tc.TGT_DATA = IF r2 THEN ph.busy ELSE 0
        /\ tc.TGT_WAIT = IF r2 THEN ph.wait ELSE 0
        /\ tc.TGT_BE = T["COMPLETE"] - T["EXEC"]
        /\ tc.TGT_CMPL = sent - T["COMPLETE"]
        /\ tc.residence = IF r2 THEN (T["R2T_SENT"] - T["CMD_ARR"]) + (sent - T["DATA_ARR"])
                          ELSE sent - T["CMD_ARR"]
    BY DEF TargetComps
  <1> HIDE DEF T, r2, ph, sent, tc
  <1>4. TgtSums(tc)
    <2>1. CASE r2
      <3>1. CASE ph.ok
        <4>1. /\ ph.busy \in Nat /\ ph.wait \in Nat
              /\ ph.busy + ph.wait = T["DATA_DONE"] - T["DATA_PROC"]
          BY <1>2, <3>1 DEF Splits
        <4>2. /\ tc.TGT_RX = T["CMD_PROC"] - T["CMD_ARR"] + (T["DATA_PROC"] - T["DATA_ARR"])
              /\ tc.TGT_SUB = (T["R2T_SENT"] - T["CMD_PROC"]) + (T["EXEC"] - T["DATA_DONE"])
              /\ tc.TGT_DATA = ph.busy /\ tc.TGT_WAIT = ph.wait
              /\ tc.residence = (T["R2T_SENT"] - T["CMD_ARR"]) + (sent - T["DATA_ARR"])
          BY <1>3, <2>1, <3>1
        <4>3. QED  BY <1>1, <1>3, <4>1, <4>2 DEF TgtSums
      <3>2. CASE ~ ph.ok
        BY <1>1, <1>2, <1>3, <2>1, <3>2 DEF TgtSums, Splits
      <3>3. QED  BY <3>1, <3>2
    <2>2. CASE ~ r2
      BY <1>1, <1>3, <2>2 DEF TgtSums
    <2>3. QED  BY <2>1, <2>2
  <1>5. QED  BY <1>4 DEF tc

\* So do the RDMA target's.
LEMMA RdmaTargetTelescopes ==
  ASSUME NEW y \in TgtRec
  PROVE  TgtSums(RdmaTargetComps(y))
  <1> DEFINE T == y.ts
             sent == rdma_rsp_sent(y)
             tc == RdmaTargetComps(y)
  <1>1. /\ T["CMD_ARR"] \in Nat /\ T["CMD_PROC"] \in Nat /\ T["R2T_SENT"] \in Nat
        /\ T["DATA_PROC"] \in Nat /\ T["EXEC"] \in Nat /\ T["COMPLETE"] \in Nat
        /\ T["RSP_SENT"] \in Nat
    BY TgtTimes
  <1>2. sent \in Nat
    BY <1>1 DEF rdma_rsp_sent
  <1>3. /\ tc.TGT_RX = T["CMD_PROC"] - T["CMD_ARR"]
        /\ tc.TGT_SUB = IF y.fetch THEN (T["R2T_SENT"] - T["CMD_PROC"]) + (T["EXEC"] - T["DATA_PROC"])
                        ELSE T["EXEC"] - T["CMD_PROC"]
        /\ tc.TGT_DATA = 0 /\ tc.TGT_WAIT = 0
        /\ tc.TGT_BE = T["COMPLETE"] - T["EXEC"]
        /\ tc.TGT_CMPL = sent - T["COMPLETE"]
        /\ tc.residence = (sent - T["CMD_ARR"])
                          - IF y.fetch THEN T["DATA_PROC"] - T["R2T_SENT"] ELSE 0
    BY DEF RdmaTargetComps
  <1> HIDE DEF T, sent, tc
  <1>4. TgtSums(tc)
    <2>1. CASE y.fetch
      BY <1>1, <1>2, <1>3, <2>1 DEF TgtSums
    <2>2. CASE ~ y.fetch
      BY <1>1, <1>2, <1>3, <2>2 DEF TgtSums
    <2>3. QED  BY <2>1, <2>2
  <1>5. QED  BY <1>4 DEF tc

\* "Their sum is the end-to-end latency", for any host record and any target
\* record or none.
LEMMA BreakdownAddsUp ==
  ASSUME NEW x \in HostRec, NEW y \in TgtRec \cup {None}
  PROVE  /\ TgtSums(target_comps(x, y))
         /\ CompSum(ntp_breakdown(x, y)) = HostComps(x).E2E
  <1> DEFINE hc == HostComps(x)
             tc == target_comps(x, y)
             b == ntp_breakdown(x, y)
             joined == target_usable(x, y)
  <1>1. HostSums(hc)
    BY HostTelescopes
  <1>2. TgtSums(tc)
    <2>1. CASE joined
      <3>1. y \in TgtRec
        BY <2>1 DEF target_usable
      <3>2. QED  BY <2>1, <3>1, TargetTelescopes, RdmaTargetTelescopes DEF target_comps
    <2>2. CASE ~ joined
      BY <2>2 DEF target_comps, NoTargetComps, TgtSums
    <2>3. QED  BY <2>1, <2>2
  <1>3. ~ joined => tc = NoTargetComps
    BY DEF target_comps
  <1>4. /\ b.tgt = tc /\ b.NET = (IF joined THEN hc.REMOTE - tc.residence ELSE 0)
        /\ b.host = [hc EXCEPT !.REMOTE = IF joined THEN 0 ELSE hc.REMOTE]
    BY DEF ntp_breakdown
  <1>5. /\ b.host.REMOTE = (IF joined THEN 0 ELSE hc.REMOTE)
        /\ b.host.BLK_SUB = hc.BLK_SUB /\ b.host.TR_SUB = hc.TR_SUB /\ b.host.HOST_RX = hc.HOST_RX
        /\ b.host.HOST_DATA = hc.HOST_DATA /\ b.host.HOST_WAIT = hc.HOST_WAIT
        /\ b.host.TR_CMPL = hc.TR_CMPL /\ b.host.BLK_CMPL = hc.BLK_CMPL /\ b.host.E2E = hc.E2E
    BY <1>4 DEF HostComps
  <1> HIDE DEF hc, tc, b, joined
  <1>6. CompSum(b) = hc.E2E
    <2>1. CASE joined
      <3>1. b.host.REMOTE = 0 /\ b.NET = hc.REMOTE - tc.residence
        BY <1>4, <1>5, <2>1
      <3>2. tc.residence \in Int
        BY <1>2 DEF TgtSums
      <3>3. QED  BY <1>1, <1>2, <1>4, <1>5, <3>1, <3>2 DEF CompSum, HostSums, TgtSums
    <2>2. CASE ~ joined
      <3>1. /\ tc.TGT_RX = 0 /\ tc.TGT_SUB = 0 /\ tc.TGT_DATA = 0 /\ tc.TGT_WAIT = 0
            /\ tc.TGT_BE = 0 /\ tc.TGT_CMPL = 0
        BY <1>3, <2>2 DEF NoTargetComps
      <3>2. QED  BY <1>1, <1>4, <1>5, <2>2, <3>1 DEF CompSum, HostSums
    <2>3. QED  BY <2>1, <2>2
  <1>7. QED  BY <1>2, <1>6 DEF hc, tc, b

\* When all five stages are reported, the target record was used, and the stages
\* hold every component.
LEMMA StagesTelescope ==
  ASSUME NEW x \in HostRec, NEW y \in TgtRec \cup {None}
  PROVE  StagesAddUp(x, y)
  <1> DEFINE hc == HostComps(x)
             tc == target_comps(x, y)
             b == ntp_breakdown(x, y)
             s == stages(b)
  <1>1. SUFFICES ASSUME stage_valid(b) = DOMAIN stage_parts
                 PROVE  s.S1 + s.S2 + s.S3_S5 + s.S6 + s.S7_S9 = b.host.E2E
    BY DEF StagesAddUp
  <1>2. "NET" \in b.valid
    <2>1. "S3_S5" \in DOMAIN stage_parts /\ "NET" \in stage_parts["S3_S5"]
      BY DEF stage_parts
    <2>2. QED  BY <1>1, <2>1 DEF stage_valid
  <1>3. target_usable(x, y)
    <2>1. ~ target_usable(x, y) => b.valid = HostValid(x)
      BY DEF ntp_breakdown
    <2>2. "NET" \notin HostValid(x)
      BY DEF HostValid
    <2>3. QED  BY <1>2, <2>1, <2>2
  <1>4. HostSums(hc) /\ TgtSums(tc) /\ CompSum(b) = hc.E2E
    BY HostTelescopes, BreakdownAddsUp
  <1>5. /\ b.tgt = tc /\ b.NET = hc.REMOTE - tc.residence
        /\ b.host = [hc EXCEPT !.REMOTE = 0]
    BY <1>3 DEF ntp_breakdown
  <1>6. /\ b.host.REMOTE = 0
        /\ b.host.BLK_SUB = hc.BLK_SUB /\ b.host.TR_SUB = hc.TR_SUB /\ b.host.HOST_RX = hc.HOST_RX
        /\ b.host.HOST_DATA = hc.HOST_DATA /\ b.host.HOST_WAIT = hc.HOST_WAIT
        /\ b.host.TR_CMPL = hc.TR_CMPL /\ b.host.BLK_CMPL = hc.BLK_CMPL /\ b.host.E2E = hc.E2E
    BY <1>5 DEF HostComps
  <1> HIDE DEF b
  <1>7. /\ s.S1 = b.host.BLK_SUB + b.host.BLK_CMPL
        /\ s.S2 = b.host.TR_SUB + b.host.TR_CMPL + b.host.HOST_DATA
        /\ s.S3_S5 = b.NET + b.tgt.TGT_RX + b.host.HOST_RX + b.host.HOST_WAIT + b.tgt.TGT_WAIT
        /\ s.S6 = b.tgt.TGT_SUB + b.tgt.TGT_CMPL + b.tgt.TGT_DATA
        /\ s.S7_S9 = b.tgt.TGT_BE
    BY DEF stages
  <1> HIDE DEF hc, tc, s
  <1>8. tc.residence \in Int
    BY <1>4 DEF TgtSums
  <1>9. /\ b.host.BLK_SUB \in Int /\ b.host.TR_SUB \in Int /\ b.host.HOST_RX \in Int
        /\ b.host.HOST_DATA \in Int /\ b.host.HOST_WAIT \in Int /\ b.host.TR_CMPL \in Int
        /\ b.host.BLK_CMPL \in Int /\ b.NET \in Int
    BY <1>4, <1>5, <1>6, <1>8 DEF HostSums
  <1>10. /\ b.tgt.TGT_RX \in Int /\ b.tgt.TGT_SUB \in Int /\ b.tgt.TGT_DATA \in Int
         /\ b.tgt.TGT_WAIT \in Int /\ b.tgt.TGT_BE \in Int /\ b.tgt.TGT_CMPL \in Int
    BY <1>4, <1>5 DEF TgtSums
  <1>11. CompSum(b) = b.host.E2E /\ b.host.REMOTE = 0
    BY <1>4, <1>6
  <1> DEFINE bs == b.host.BLK_SUB   ts == b.host.TR_SUB   n == b.NET   rx == b.tgt.TGT_RX
             sb == b.tgt.TGT_SUB   tw == b.tgt.TGT_WAIT   td == b.tgt.TGT_DATA
             be == b.tgt.TGT_BE   cm == b.tgt.TGT_CMPL   hr == b.host.HOST_RX
             hw == b.host.HOST_WAIT   hd == b.host.HOST_DATA   tr == b.host.TR_CMPL
             bc == b.host.BLK_CMPL   e2e == b.host.E2E
  <1>12. /\ bs + ts + n + rx + sb + tw + td + be + cm + hr + hw + hd + tr + bc + 0 = e2e
         /\ bs \in Int /\ ts \in Int /\ n \in Int /\ rx \in Int /\ sb \in Int /\ tw \in Int
         /\ td \in Int /\ be \in Int /\ cm \in Int /\ hr \in Int /\ hw \in Int /\ hd \in Int
         /\ tr \in Int /\ bc \in Int
    BY <1>9, <1>10, <1>11 DEF CompSum
  <1>13. /\ s.S1 = bs + bc /\ s.S2 = ts + tr + hd /\ s.S3_S5 = n + rx + hr + hw + tw
         /\ s.S6 = sb + cm + td /\ s.S7_S9 = be
    BY <1>7
  <1> HIDE DEF bs, ts, n, rx, sb, tw, td, be, cm, hr, hw, hd, tr, bc, e2e
  <1>14. s.S1 + s.S2 + s.S3_S5 + s.S6 + s.S7_S9 = e2e
    BY <1>12, <1>13
  <1>15. QED  BY <1>14 DEF e2e

\* backend_details() splits the storage component.
LEMMA DetailsTelescope ==
  ASSUME NEW x \in HostRec, NEW y \in TgtRec
  PROVE  DetailsAddUp(x, y)
  <1> DEFINE T == y.ts
             d == backend_details(y)
             b == ntp_breakdown(x, y)
  <1>1. SUFFICES ASSUME target_usable(x, y)
                 PROVE  d.TGT_BE_SUB + d.TGT_DEV + d.TGT_BE_CMPL = b.tgt.TGT_BE
    BY DEF DetailsAddUp
  <1>2. T["EXEC"] \in Nat /\ T["BE_ISSUE"] \in Nat /\ T["BE_DONE"] \in Nat /\ T["COMPLETE"] \in Nat
    BY TgtTimes
  <1>3. /\ d.TGT_BE_SUB = T["BE_ISSUE"] - T["EXEC"] /\ d.TGT_DEV = T["BE_DONE"] - T["BE_ISSUE"]
        /\ d.TGT_BE_CMPL = T["COMPLETE"] - T["BE_DONE"]
    BY DEF backend_details
  <1>4. b.tgt = (IF x.rdma THEN RdmaTargetComps(y) ELSE TargetComps(io_class(x), y))
    BY <1>1 DEF ntp_breakdown, target_comps
  <1>5. b.tgt.TGT_BE = T["COMPLETE"] - T["EXEC"]
    BY <1>4 DEF RdmaTargetComps, TargetComps
  <1> HIDE DEF T, d, b
  <1>6. QED  BY <1>2, <1>3, <1>5

-----------------------------------------------------------------------------
(* Clocks.                                                                  *)

\* A record from a clock that is ahead: the same events are missing, and the
\* differences of the others are the same.
LEMMA ShiftedTimes ==
  ASSUME NEW y \in TgtRec, NEW k \in Nat
  PROVE  /\ Shift(y, k) \in TgtRec
         /\ Shift(y, k).rdma = y.rdma /\ Shift(y, k).write = y.write /\ Shift(y, k).r2t = y.r2t
         /\ Shift(y, k).fetch = y.fetch /\ Shift(y, k).busy = y.busy
         /\ \A e \in TgtEvents :
              Shift(y, k).ts[e] = IF y.ts[e] = 0 THEN 0 ELSE y.ts[e] + k
  <1> DEFINE u == [e \in TgtEvents |-> IF y.ts[e] = 0 THEN 0 ELSE y.ts[e] + k]
  <1>1. u \in [TgtEvents -> Nat]
    BY TgtFields
  <1>2. Shift(y, k) = [y EXCEPT !.ts = u]
    BY DEF Shift
  <1>3. \A e \in TgtEvents : u[e] = IF y.ts[e] = 0 THEN 0 ELSE y.ts[e] + k
    OBVIOUS
  <1> HIDE DEF u
  <1>4. QED  BY <1>1, <1>2, <1>3 DEF TgtRec

\* What ntp_breakdown() asks of two times of the target, it answers the same for
\* the shifted ones.
LEMMA ShiftedPairs ==
  ASSUME NEW y \in TgtRec, NEW k \in Nat, NEW e \in TgtEvents, NEW f \in TgtEvents
  PROVE  /\ Shift(y, k).ts[e] = 0 <=> y.ts[e] = 0
         /\ y.ts[e] # 0 /\ y.ts[f] # 0 =>
              /\ Shift(y, k).ts[e] - Shift(y, k).ts[f] = y.ts[e] - y.ts[f]
              /\ Shift(y, k).ts[e] <= Shift(y, k).ts[f] <=> y.ts[e] <= y.ts[f]
              /\ Shift(y, k).ts[e] > Shift(y, k).ts[f] <=> y.ts[e] > y.ts[f]
  <1>1. y.ts[e] \in Nat /\ y.ts[f] \in Nat
    BY TgtFields
  <1>2. /\ Shift(y, k).ts[e] = IF y.ts[e] = 0 THEN 0 ELSE y.ts[e] + k
        /\ Shift(y, k).ts[f] = IF y.ts[f] = 0 THEN 0 ELSE y.ts[f] + k
    BY ShiftedTimes
  <1>3. QED  BY <1>1, <1>2

\* Shifting a target's clock loses and makes up no event (have_all).
LEMMA ShiftedHaveAll ==
  ASSUME NEW y \in TgtRec, NEW k \in Nat, NEW S \in SUBSET TgtEvents
  PROVE  have_all(Shift(y, k).ts, S) <=> have_all(y.ts, S)
  <1>1. \A e \in S : Shift(y, k).ts[e] = 0 <=> y.ts[e] = 0
    BY ShiftedPairs
  <1>2. QED  BY <1>1 DEF have_all

\* tgt_req[] names events of the target's record.
LEMMA RequiredAreEvents ==
  ASSUME NEW x \in HostRec
  PROVE  tgt_req_rdma \in SUBSET TgtEvents /\ tgt_req(io_class(x)) \in SUBSET TgtEvents
  <1>1. io_class(x) \in {"read", "write_r2t", "write_inline"}
    BY DEF io_class
  <1>2. QED  BY <1>1 DEF tgt_req, tgt_req_rdma, TgtEvents

\* The check on the order of posting and completion compares two of one clock.
LEMMA ShiftedPosting ==
  ASSUME NEW y \in TgtRec, NEW k \in Nat
  PROVE  posting_ok(Shift(y, k)) <=> posting_ok(y)
  <1>1. "RSP_SENT" \in TgtEvents /\ "SEND_DONE" \in TgtEvents
    BY DEF TgtEvents
  <1>2. /\ Shift(y, k).ts["RSP_SENT"] = 0 <=> y.ts["RSP_SENT"] = 0
        /\ Shift(y, k).ts["SEND_DONE"] = 0 <=> y.ts["SEND_DONE"] = 0
        /\ y.ts["RSP_SENT"] # 0 /\ y.ts["SEND_DONE"] # 0 =>
             (Shift(y, k).ts["RSP_SENT"] > Shift(y, k).ts["SEND_DONE"]
              <=> y.ts["RSP_SENT"] > y.ts["SEND_DONE"])
    BY <1>1, ShiftedPairs
  <1>3. QED  BY <1>2 DEF posting_ok

\* Whether a target record can be used does not depend on its clock.
LEMMA ShiftedUsable ==
  ASSUME NEW x \in HostRec, NEW y \in TgtRec, NEW k \in Nat
  PROVE  target_usable(x, Shift(y, k)) <=> target_usable(x, y)
  <1> DEFINE z == Shift(y, k)
  <1>1. /\ z # None /\ y # None /\ (z.rdma <=> y.rdma) /\ z.write = y.write /\ z.r2t = y.r2t
        /\ z.fetch <=> y.fetch
    BY ShiftedTimes, NoneAssumption
  <1>2. /\ have_all(z.ts, tgt_req_rdma) <=> have_all(y.ts, tgt_req_rdma)
        /\ have_all(z.ts, tgt_req(io_class(x))) <=> have_all(y.ts, tgt_req(io_class(x)))
    BY ShiftedHaveAll, RequiredAreEvents
  <1>3. posting_ok(z) <=> posting_ok(y)
    BY ShiftedPosting
  <1>4. \A e \in TgtEvents : z.ts[e] = 0 <=> y.ts[e] = 0
    BY ShiftedPairs
  <1>5. /\ z.ts["R2T_SENT"] = 0 <=> y.ts["R2T_SENT"] = 0
        /\ z.ts["DATA_PROC"] = 0 <=> y.ts["DATA_PROC"] = 0
        /\ z.ts["SEND_DONE"] = 0 <=> y.ts["SEND_DONE"] = 0
    BY <1>4 DEF TgtEvents
  <1> HIDE DEF z
  <1>6. rdma_target_complete(z) <=> rdma_target_complete(y)
    BY <1>1, <1>2, <1>3, <1>5 DEF rdma_target_complete
  <1>7. target_usable(x, z) <=> target_usable(x, y)
    BY <1>1, <1>2, <1>6 DEF target_usable
  <1>8. QED  BY <1>7 DEF z

\* data_phase() of the shifted times, the first and the last of which are there.
LEMMA ShiftedDataPhase ==
  ASSUME NEW y \in TgtRec, NEW k \in Nat, y.ts["DATA_PROC"] # 0, y.ts["EXEC"] # 0
  PROVE  write_data_phase(Shift(y, k)) = write_data_phase(y)
  <1> DEFINE z == Shift(y, k)
             ok(r) == /\ r.busy # 0 /\ r.ts["DATA_DONE"] # 0
                      /\ r.ts["DATA_DONE"] >= r.ts["DATA_PROC"] /\ r.ts["DATA_DONE"] <= r.ts["EXEC"]
  <1>1. {"DATA_PROC", "DATA_DONE", "EXEC"} \subseteq TgtEvents
    BY DEF TgtEvents
  <1>2. /\ y.ts["DATA_DONE"] \in Nat /\ y.ts["DATA_PROC"] \in Nat /\ y.ts["EXEC"] \in Nat
        /\ z.ts["DATA_DONE"] \in Nat /\ z.ts["DATA_PROC"] \in Nat /\ z.ts["EXEC"] \in Nat
        /\ z.busy = y.busy /\ y.busy \in Nat
    BY TgtTimes, TgtFields, ShiftedTimes
  <1>3. /\ z.ts["DATA_DONE"] = 0 <=> y.ts["DATA_DONE"] = 0
        /\ y.ts["DATA_DONE"] # 0 =>
             /\ z.ts["DATA_DONE"] - z.ts["DATA_PROC"] = y.ts["DATA_DONE"] - y.ts["DATA_PROC"]
             /\ z.ts["DATA_DONE"] <= z.ts["EXEC"] <=> y.ts["DATA_DONE"] <= y.ts["EXEC"]
             /\ z.ts["DATA_PROC"] <= z.ts["DATA_DONE"] <=> y.ts["DATA_PROC"] <= y.ts["DATA_DONE"]
    BY <1>1, ShiftedPairs
  <1> HIDE DEF z
  <1>4. ok(z) <=> ok(y)
    BY <1>2, <1>3
  <1>5. ok(y) => z.ts["DATA_DONE"] - z.ts["DATA_PROC"] = y.ts["DATA_DONE"] - y.ts["DATA_PROC"]
    BY <1>3
  <1>6. \A r : /\ ok(r) => write_data_phase(r) =
                    LET span == r.ts["DATA_DONE"] - r.ts["DATA_PROC"]
                        own  == IF r.busy > span THEN span ELSE r.busy
                    IN  [ok |-> TRUE, busy |-> own, wait |-> span - own]
               /\ ~ ok(r) => write_data_phase(r) = [ok |-> FALSE, busy |-> 0, wait |-> 0]
    BY DEF write_data_phase, data_phase
  <1> HIDE DEF ok
  <1>7. write_data_phase(z) = write_data_phase(y)
    <2>1. CASE ok(y)
      BY <1>2, <1>4, <1>5, <1>6, <2>1
    <2>2. CASE ~ ok(y)
      BY <1>4, <1>6, <2>2
    <2>3. QED  BY <2>1, <2>2
  <1>8. QED  BY <1>7 DEF z

\* The target's components of a record that can be used.
LEMMA ShiftedTcp ==
  ASSUME NEW y \in TgtRec, NEW k \in Nat, NEW class \in {"read", "write_inline", "write_r2t"},
         have_all(y.ts, tgt_req(class))
  PROVE  TargetComps(class, Shift(y, k)) = TargetComps(class, y)
  <1> DEFINE z == Shift(y, k)
  <1>1. \A e \in tgt_req(class) : y.ts[e] # 0
    BY DEF have_all
  <1>2. /\ y.ts["CMD_ARR"] # 0 /\ y.ts["CMD_PROC"] # 0 /\ y.ts["EXEC"] # 0 /\ y.ts["COMPLETE"] # 0
        /\ class = "read" => y.ts["C2H_SENT"] # 0
        /\ class # "read" => y.ts["RSP_SENT"] # 0
        /\ class = "write_r2t" =>
             y.ts["R2T_SENT"] # 0 /\ y.ts["DATA_ARR"] # 0 /\ y.ts["DATA_PROC"] # 0
    BY <1>1 DEF tgt_req
  <1>3. \A e, f \in TgtEvents : y.ts[e] # 0 /\ y.ts[f] # 0 => z.ts[e] - z.ts[f] = y.ts[e] - y.ts[f]
    BY ShiftedPairs
  <1>4. {"CMD_ARR", "CMD_PROC", "EXEC", "COMPLETE", "C2H_SENT", "RSP_SENT", "R2T_SENT", "DATA_ARR",
         "DATA_PROC", "DATA_DONE"} \subseteq TgtEvents
    BY DEF TgtEvents
  <1>5. /\ z.ts["CMD_PROC"] - z.ts["CMD_ARR"] = y.ts["CMD_PROC"] - y.ts["CMD_ARR"]
        /\ z.ts["EXEC"] - z.ts["CMD_PROC"] = y.ts["EXEC"] - y.ts["CMD_PROC"]
        /\ z.ts["COMPLETE"] - z.ts["EXEC"] = y.ts["COMPLETE"] - y.ts["EXEC"]
    BY <1>2, <1>3, <1>4
  <1>6. class = "read" =>
        /\ z.ts["C2H_SENT"] - z.ts["COMPLETE"] = y.ts["C2H_SENT"] - y.ts["COMPLETE"]
        /\ z.ts["C2H_SENT"] - z.ts["CMD_ARR"] = y.ts["C2H_SENT"] - y.ts["CMD_ARR"]
    BY <1>2, <1>3, <1>4
  <1>7. class # "read" =>
        /\ z.ts["RSP_SENT"] - z.ts["COMPLETE"] = y.ts["RSP_SENT"] - y.ts["COMPLETE"]
        /\ z.ts["RSP_SENT"] - z.ts["CMD_ARR"] = y.ts["RSP_SENT"] - y.ts["CMD_ARR"]
    BY <1>2, <1>3, <1>4
  <1>8. class = "write_r2t" =>
        /\ z.ts["DATA_PROC"] - z.ts["DATA_ARR"] = y.ts["DATA_PROC"] - y.ts["DATA_ARR"]
        /\ z.ts["R2T_SENT"] - z.ts["CMD_PROC"] = y.ts["R2T_SENT"] - y.ts["CMD_PROC"]
        /\ z.ts["R2T_SENT"] - z.ts["CMD_ARR"] = y.ts["R2T_SENT"] - y.ts["CMD_ARR"]
        /\ z.ts["EXEC"] - z.ts["DATA_PROC"] = y.ts["EXEC"] - y.ts["DATA_PROC"]
        /\ z.ts["RSP_SENT"] - z.ts["DATA_ARR"] = y.ts["RSP_SENT"] - y.ts["DATA_ARR"]
    BY <1>2, <1>3, <1>4
  <1>9. class = "write_r2t" =>
        /\ write_data_phase(z) = write_data_phase(y)
        /\ write_data_phase(y).ok =>
             z.ts["EXEC"] - z.ts["DATA_DONE"] = y.ts["EXEC"] - y.ts["DATA_DONE"]
    <2>1. write_data_phase(y).ok => y.ts["DATA_DONE"] # 0
      BY DEF write_data_phase, data_phase
    <2>2. QED  BY <1>2, <1>3, <1>4, <2>1, ShiftedDataPhase
  <1> HIDE DEF z
  <1>10. TargetComps(class, z) = TargetComps(class, y)
    <2>1. CASE class = "read"
      BY <1>5, <1>6, <2>1 DEF TargetComps
    <2>2. CASE class = "write_inline"
      BY <1>5, <1>7, <2>2 DEF TargetComps
    <2>3. CASE class = "write_r2t"
      BY <1>5, <1>7, <1>8, <1>9, <2>3 DEF TargetComps
    <2>4. QED  BY <2>1, <2>2, <2>3
  <1>11. QED  BY <1>10 DEF z

\* An RDMA target's components and network data do not depend on its clock.
LEMMA ShiftedRdma ==
  ASSUME NEW y \in TgtRec, NEW k \in Nat, rdma_target_complete(y)
  PROVE  /\ RdmaTargetComps(Shift(y, k)) = RdmaTargetComps(y)
         /\ HasNetData(Shift(y, k)) <=> HasNetData(y)
  <1> DEFINE z == Shift(y, k)
  <1>1. \A e \in tgt_req_rdma : y.ts[e] # 0
    BY DEF rdma_target_complete, have_all
  <1>2. /\ y.ts["CMD_ARR"] # 0 /\ y.ts["CMD_PROC"] # 0 /\ y.ts["EXEC"] # 0 /\ y.ts["COMPLETE"] # 0
        /\ y.fetch => y.ts["R2T_SENT"] # 0 /\ y.ts["DATA_PROC"] # 0
        /\ posting_ok(y) => y.ts["RSP_SENT"] # 0
    BY <1>1 DEF tgt_req_rdma, rdma_target_complete, posting_ok
  <1>3. /\ \A e, f \in TgtEvents :
             y.ts[e] # 0 /\ y.ts[f] # 0 => z.ts[e] - z.ts[f] = y.ts[e] - y.ts[f]
        /\ \A e \in TgtEvents : z.ts[e] = 0 <=> y.ts[e] = 0
    BY ShiftedPairs
  <1>4. {"CMD_ARR", "CMD_PROC", "EXEC", "COMPLETE", "C2H_SENT", "RSP_SENT", "R2T_SENT",
         "DATA_PROC", "SEND_DONE"} \subseteq TgtEvents
    BY DEF TgtEvents
  <1>5. posting_ok(z) <=> posting_ok(y)
    BY ShiftedPosting
  <1>6. (z.fetch <=> y.fetch) /\ (z.write <=> y.write)
    BY ShiftedTimes
  <1>7. /\ z.ts["CMD_PROC"] - z.ts["CMD_ARR"] = y.ts["CMD_PROC"] - y.ts["CMD_ARR"]
        /\ z.ts["EXEC"] - z.ts["CMD_PROC"] = y.ts["EXEC"] - y.ts["CMD_PROC"]
        /\ z.ts["COMPLETE"] - z.ts["EXEC"] = y.ts["COMPLETE"] - y.ts["EXEC"]
    BY <1>2, <1>3, <1>4
  <1>8. y.fetch =>
        /\ z.ts["DATA_PROC"] - z.ts["R2T_SENT"] = y.ts["DATA_PROC"] - y.ts["R2T_SENT"]
        /\ z.ts["R2T_SENT"] - z.ts["CMD_PROC"] = y.ts["R2T_SENT"] - y.ts["CMD_PROC"]
        /\ z.ts["EXEC"] - z.ts["DATA_PROC"] = y.ts["EXEC"] - y.ts["DATA_PROC"]
    BY <1>2, <1>3, <1>4
  <1>9. /\ rdma_rsp_sent(z) - z.ts["COMPLETE"] = rdma_rsp_sent(y) - y.ts["COMPLETE"]
        /\ rdma_rsp_sent(z) - z.ts["CMD_ARR"] = rdma_rsp_sent(y) - y.ts["CMD_ARR"]
    <2>1. CASE posting_ok(y)
      <3>1. rdma_rsp_sent(z) = z.ts["RSP_SENT"] /\ rdma_rsp_sent(y) = y.ts["RSP_SENT"]
        BY <1>5, <2>1 DEF rdma_rsp_sent
      <3>2. QED  BY <1>2, <1>3, <1>4, <2>1, <3>1
    <2>2. CASE ~ posting_ok(y)
      <3>1. rdma_rsp_sent(z) = z.ts["COMPLETE"] /\ rdma_rsp_sent(y) = y.ts["COMPLETE"]
        BY <1>5, <2>2 DEF rdma_rsp_sent
      <3>2. QED  BY <1>2, <1>3, <1>4, <3>1
    <2>3. QED  BY <2>1, <2>2
  <1>10. /\ rdma_c2h_sent(z) = 0 <=> rdma_c2h_sent(y) = 0
         /\ z.ts["SEND_DONE"] = 0 <=> y.ts["SEND_DONE"] = 0
    BY <1>3, <1>4, <1>5 DEF rdma_c2h_sent
  <1> HIDE DEF z
  <1>11. HasNetData(z) <=> HasNetData(y)
    BY <1>6, <1>10 DEF HasNetData
  <1>12. RdmaTargetComps(z) = RdmaTargetComps(y)
    <2>1. CASE y.fetch
      BY <1>6, <1>7, <1>8, <1>9, <2>1 DEF RdmaTargetComps
    <2>2. CASE ~ y.fetch
      BY <1>6, <1>7, <1>9, <2>2 DEF RdmaTargetComps
    <2>3. QED  BY <2>1, <2>2
  <1>13. QED  BY <1>11, <1>12 DEF z

\* Nor does whether it knows its backend's time.
LEMMA ShiftedBackend ==
  ASSUME NEW y \in TgtRec, NEW k \in Nat, y.ts["COMPLETE"] # 0
  PROVE  HasBackend(Shift(y, k)) <=> HasBackend(y)
  <1>1. "BE_ISSUE" \in TgtEvents /\ "BE_DONE" \in TgtEvents /\ "COMPLETE" \in TgtEvents
    BY DEF TgtEvents
  <1>2. /\ Shift(y, k).ts["BE_ISSUE"] = 0 <=> y.ts["BE_ISSUE"] = 0
        /\ Shift(y, k).ts["BE_DONE"] = 0 <=> y.ts["BE_DONE"] = 0
        /\ y.ts["BE_DONE"] # 0 => (Shift(y, k).ts["BE_DONE"] <= Shift(y, k).ts["COMPLETE"]
                                   <=> y.ts["BE_DONE"] <= y.ts["COMPLETE"])
    BY <1>1, ShiftedPairs
  <1>3. QED  BY <1>2 DEF HasBackend

\* "Only differences between timestamps of the same machine are taken", for any
\* two records and any difference of the clocks.
LEMMA BreakdownIgnoresClocks ==
  ASSUME NEW x \in HostRec, NEW y \in TgtRec, NEW k \in Nat
  PROVE  ntp_breakdown(x, Shift(y, k)) = ntp_breakdown(x, y)
  <1> DEFINE z == Shift(y, k)
             joined == target_usable(x, y)
  <1>1. z \in TgtRec /\ z # None /\ y # None /\ (z.fetch <=> y.fetch)
    BY ShiftedTimes, NoneAssumption
  <1>2. target_usable(x, z) <=> joined
    BY ShiftedUsable
  <1>3. CASE ~ joined
    <2>1. target_comps(x, z) = NoTargetComps /\ target_comps(x, y) = NoTargetComps
      BY <1>2, <1>3 DEF target_comps
    <2>2. target_usable(x, z) = FALSE /\ target_usable(x, y) = FALSE
      BY <1>2, <1>3 DEF target_usable
    <2> HIDE DEF z, joined
    <2>3. ntp_breakdown(x, z) = ntp_breakdown(x, y)
      BY <1>1, <2>1, <2>2 DEF ntp_breakdown
    <2>4. QED  BY <2>3 DEF z
  <1>4. CASE joined
    <2>1. target_usable(x, z) = TRUE /\ target_usable(x, y) = TRUE
      BY <1>2, <1>4 DEF target_usable
    <2>2. io_class(x) \in {"read", "write_inline", "write_r2t"}
      BY DEF io_class
    <2>3. /\ x.rdma => rdma_target_complete(y)
          /\ ~ x.rdma => have_all(y.ts, tgt_req(io_class(x)))
      BY <1>4 DEF target_usable
    <2>4. target_comps(x, z) = target_comps(x, y)
      <3>1. CASE x.rdma
        BY <2>1, <2>3, <3>1, ShiftedRdma DEF target_comps
      <3>2. CASE ~ x.rdma
        BY <2>1, <2>2, <2>3, <3>2, ShiftedTcp DEF target_comps
      <3>3. QED  BY <3>1, <3>2
    <2>5. y.ts["COMPLETE"] # 0
      BY <2>3 DEF rdma_target_complete, have_all, tgt_req_rdma, tgt_req
    <2>6. HasBackend(z) <=> HasBackend(y)
      BY <2>5, ShiftedBackend
    <2>7. x.rdma => (HasNetData(z) <=> HasNetData(y))
      BY <2>3, ShiftedRdma
    <2>8. ~ x.rdma /\ io_class(x) = "write_r2t" => write_data_phase(z) = write_data_phase(y)
      <3>1. ~ x.rdma /\ io_class(x) = "write_r2t" => y.ts["DATA_PROC"] # 0 /\ y.ts["EXEC"] # 0
        BY <2>3 DEF have_all, tgt_req
      <3>2. QED  BY <3>1, ShiftedDataPhase
    <2> HIDE DEF z, joined
    <2>9. ntp_breakdown(x, z).valid = ntp_breakdown(x, y).valid
      BY <2>1, <2>6, <2>7, <2>8 DEF ntp_breakdown
    <2>10. ntp_breakdown(x, z) = ntp_breakdown(x, y)
      BY <1>1, <2>1, <2>4, <2>9 DEF ntp_breakdown
    <2>11. QED  BY <2>10 DEF z
  <1>5. QED  BY <1>3, <1>4

-----------------------------------------------------------------------------
(* Events in their order.                                                   *)

\* Where an event comes in a command of any transport and class; the last ones
\* of an RDMA target come in any order.
HostRank ==
  [e \in HostEvents |->
     CASE e = "START" -> 1      [] e = "QUEUE_RQ" -> 2   [] e = "CMD_SENT" -> 3
       [] e = "R2T_ARR" -> 4    [] e = "R2T_PROC" -> 5   [] e = "DATA_START" -> 6
       [] e = "C2H_ARR" -> 7    [] e = "C2H_PROC" -> 8   [] e = "C2H_DONE" -> 9
       [] e = "RSP_ARR" -> 10   [] e = "RSP_PROC" -> 11  [] e = "NVME_DONE" -> 12
       [] e = "BLK_DONE" -> 13]

TgtSteps == TgtEvents \cup {"POSTED"}

TgtRank ==
  [e \in TgtSteps |->
     CASE e = "CMD_ARR" -> 1    [] e = "CMD_PROC" -> 2   [] e = "R2T_SENT" -> 3
       [] e = "DATA_ARR" -> 4   [] e = "DATA_PROC" -> 5  [] e = "DATA_DONE" -> 6
       [] e = "EXEC" -> 7       [] e = "BE_ISSUE" -> 8   [] e = "BE_DONE" -> 9
       [] e = "COMPLETE" -> 10  [] OTHER -> 11]

\* A sequence of E's events in their order.
InOrder(s, E, rank) ==
  /\ s \in Seq(E)
  /\ \A i \in 1..Len(s) : i + 1 \in 1..Len(s) => rank[s[i]] <= rank[s[i + 1]]

Ordered(ts, rank) ==
  \A e, f \in DOMAIN ts : ts[e] # 0 /\ ts[f] # 0 /\ rank[e] < rank[f] => ts[e] <= ts[f]

\* Two ordered runs of events, the second from where the first ended.
LEMMA InOrderConcat ==
  ASSUME NEW E, NEW rank, NEW s \in Seq(E), NEW u \in Seq(E), s # <<>>, u # <<>>,
         InOrder(s, E, rank), InOrder(u, E, rank), rank[s[Len(s)]] <= rank[u[1]]
  PROVE  InOrder(s \o u, E, rank) /\ (s \o u)[Len(s \o u)] = u[Len(u)] /\ (s \o u) # <<>>
  <1> DEFINE c == s \o u
  <1>1. /\ c \in Seq(E) /\ Len(c) = Len(s) + Len(u) /\ Len(s) \in Nat /\ Len(u) \in Nat
        /\ Len(s) > 0 /\ Len(u) > 0
    OBVIOUS
  <1>2. \A i \in 1..Len(c) : c[i] = IF i <= Len(s) THEN s[i] ELSE u[i - Len(s)]
    OBVIOUS
  <1> HIDE DEF c
  <1>3. ASSUME NEW i \in 1..Len(c), i + 1 \in 1..Len(c) PROVE rank[c[i]] <= rank[c[i + 1]]
    <2>0. i \in Int
      OBVIOUS
    <2>1. CASE i < Len(s)
      <3>1. c[i] = s[i] /\ c[i + 1] = s[i + 1] /\ i \in 1..Len(s) /\ i + 1 \in 1..Len(s)
        BY <1>1, <1>2, <1>3, <2>0, <2>1
      <3>2. QED  BY <3>1 DEF InOrder
    <2>2. CASE i = Len(s)
      <3>1. c[i] = s[Len(s)] /\ c[i + 1] = u[1]
        BY <1>1, <1>2, <1>3, <2>2
      <3>2. QED  BY <3>1
    <2>3. CASE i > Len(s)
      <3> DEFINE n == i - Len(s)
      <3>1. n \in 1..Len(u) /\ n + 1 \in 1..Len(u) /\ (i + 1) - Len(s) = n + 1
        BY <1>1, <1>3, <2>0, <2>3
      <3>2. c[i] = u[n] /\ c[i + 1] = u[n + 1]
        BY <1>1, <1>2, <1>3, <2>0, <2>3, <3>1
      <3> HIDE DEF n
      <3>3. QED  BY <3>1, <3>2 DEF InOrder
    <2>4. QED  BY <1>1, <2>0, <2>1, <2>2, <2>3
  <1>4. c[Len(c)] = u[Len(u)]
    BY <1>1, <1>2
  <1>5. QED  BY <1>1, <1>3, <1>4 DEF c, InOrder

\* The places of the host's events.
LEMMA HostRanks ==
  /\ HostRank["START"] = 1 /\ HostRank["QUEUE_RQ"] = 2 /\ HostRank["CMD_SENT"] = 3
  /\ HostRank["R2T_ARR"] = 4 /\ HostRank["R2T_PROC"] = 5 /\ HostRank["DATA_START"] = 6
  /\ HostRank["C2H_ARR"] = 7 /\ HostRank["C2H_PROC"] = 8 /\ HostRank["C2H_DONE"] = 9
  /\ HostRank["RSP_ARR"] = 10 /\ HostRank["RSP_PROC"] = 11 /\ HostRank["NVME_DONE"] = 12
  /\ HostRank["BLK_DONE"] = 13
  /\ HostRank \in [HostEvents -> Nat]
  <1>1. \A e \in HostEvents : HostRank[e] \in Nat
    BY DEF HostEvents, HostRank
  <1>2. QED  BY <1>1 DEF HostRank, HostEvents

\* The places of the target's events; the ends of a command come last, together.
LEMMA TgtRanks ==
  /\ TgtRank["CMD_ARR"] = 1 /\ TgtRank["CMD_PROC"] = 2 /\ TgtRank["R2T_SENT"] = 3
  /\ TgtRank["DATA_ARR"] = 4 /\ TgtRank["DATA_PROC"] = 5 /\ TgtRank["DATA_DONE"] = 6
  /\ TgtRank["EXEC"] = 7 /\ TgtRank["BE_ISSUE"] = 8 /\ TgtRank["BE_DONE"] = 9
  /\ TgtRank["COMPLETE"] = 10 /\ TgtRank["C2H_SENT"] = 11 /\ TgtRank["RSP_SENT"] = 11
  /\ TgtRank["SEND_DONE"] = 11 /\ TgtRank["POSTED"] = 11
  /\ TgtRank \in [TgtSteps -> Nat]
  <1>1. \A e \in TgtSteps : TgtRank[e] \in Nat
    BY DEF TgtEvents, TgtSteps, TgtRank
  <1>2. /\ TgtRank["CMD_ARR"] = 1 /\ TgtRank["CMD_PROC"] = 2 /\ TgtRank["R2T_SENT"] = 3
        /\ TgtRank["DATA_ARR"] = 4 /\ TgtRank["DATA_PROC"] = 5 /\ TgtRank["DATA_DONE"] = 6
        /\ TgtRank["EXEC"] = 7 /\ TgtRank["BE_ISSUE"] = 8 /\ TgtRank["BE_DONE"] = 9
    BY DEF TgtRank, TgtEvents, TgtSteps
  <1>3. /\ TgtRank["COMPLETE"] = 10 /\ TgtRank["C2H_SENT"] = 11 /\ TgtRank["RSP_SENT"] = 11
        /\ TgtRank["SEND_DONE"] = 11 /\ TgtRank["POSTED"] = 11
    BY DEF TgtRank, TgtEvents, TgtSteps
  <1>4. QED  BY <1>1, <1>2, <1>3 DEF TgtRank

\* Every command ends with its completion on the host.
LEMMA WithDone ==
  ASSUME NEW s \in Seq(HostEvents), s # <<>>, InOrder(s, HostEvents, HostRank),
         s[Len(s)] = "RSP_PROC"
  PROVE  InOrder(s \o Done, HostEvents, HostRank)
  <1>1. Done \in Seq(HostEvents) /\ Done # <<>> /\ Done[1] = "NVME_DONE"
    BY DEF Done, HostEvents
  <1>2. InOrder(Done, HostEvents, HostRank)
    BY <1>1, HostRanks DEF InOrder, Done
  <1>3. HostRank[s[Len(s)]] <= HostRank[Done[1]]
    BY <1>1, HostRanks
  <1>4. QED  BY <1>1, <1>2, <1>3, InOrderConcat

\* The backend is called and done before the target completes the command.
LEMMA BackendInOrder == InOrder(Backend, TgtSteps, TgtRank)
  <1>1. Backend \in Seq(TgtSteps)
    BY DEF Backend, TgtSteps, TgtEvents
  <1>2. QED  BY <1>1, TgtRanks DEF InOrder, Backend

\* The target's events before the backend, the backend's, and the ends.
LEMMA WithBackend ==
  ASSUME NEW a \in Seq(TgtSteps), NEW c \in Seq(TgtSteps), a # <<>>, c # <<>>,
         InOrder(a, TgtSteps, TgtRank), InOrder(c, TgtSteps, TgtRank),
         TgtRank[a[Len(a)]] <= 7, TgtRank[c[1]] = 11
  PROVE  InOrder(a \o Backend \o c, TgtSteps, TgtRank)
  <1>1. Backend \in Seq(TgtSteps) /\ Backend # <<>> /\ Backend[1] = "EXEC" /\ Backend[Len(Backend)] = "COMPLETE"
    BY DEF Backend, TgtSteps, TgtEvents
  <1>2. InOrder(Backend, TgtSteps, TgtRank)
    BY BackendInOrder
  <1>3. /\ InOrder(a \o Backend, TgtSteps, TgtRank) /\ (a \o Backend) # <<>>
        /\ (a \o Backend)[Len(a \o Backend)] = "COMPLETE"
    <2>1. TgtRank[a[Len(a)]] <= TgtRank[Backend[1]]
      BY <1>1, TgtRanks
    <2>2. QED  BY <1>1, <1>2, <2>1, InOrderConcat
  <1>4. a \o Backend \in Seq(TgtSteps)
    BY <1>1
  <1>5. TgtRank[(a \o Backend)[Len(a \o Backend)]] <= TgtRank[c[1]]
    BY <1>3, TgtRanks
  <1> DEFINE ab == a \o Backend
  <1> HIDE DEF ab
  <1>6. InOrder(ab \o c, TgtSteps, TgtRank)
    BY <1>3, <1>4, <1>5, InOrderConcat DEF ab
  <1>7. QED  BY <1>6 DEF ab

\* Every kind of command goes through the host's events in their order.
LEMMA KindsHost ==
  ASSUME NEW k \in DOMAIN Kinds
  PROVE  InOrder(Kinds[k].host, HostEvents, HostRank)
  <1> DEFINE rd == <<"START", "QUEUE_RQ", "CMD_SENT", "C2H_ARR", "C2H_PROC", "C2H_DONE",
                     "RSP_ARR", "RSP_PROC">>
             one == <<"START", "QUEUE_RQ", "CMD_SENT", "RSP_ARR", "RSP_PROC">>
             r2 == <<"START", "QUEUE_RQ", "CMD_SENT", "R2T_ARR", "R2T_PROC", "DATA_START",
                     "RSP_ARR", "RSP_PROC">>
  <1>1. Kinds[k].host \in {rd \o Done, one \o Done, r2 \o Done}
    <2>1. k \in {"tcp_read", "tcp_inline", "tcp_r2t", "rdma_read", "rdma_late", "rdma_fetch"}
      BY DEF Kinds
    <2>2. Kinds["tcp_read"].host = rd \o Done
      BY DEF Kinds
    <2>3. Kinds["tcp_inline"].host = one \o Done
      BY DEF Kinds
    <2>4. Kinds["tcp_r2t"].host = r2 \o Done
      BY DEF Kinds
    <2>5. Kinds["rdma_read"].host = one \o Done
      BY DEF Kinds
    <2>6. Kinds["rdma_late"].host = one \o Done
      BY DEF Kinds
    <2>7. Kinds["rdma_fetch"].host = one \o Done
      BY DEF Kinds
    <2> HIDE DEF rd, one, r2
    <2>8. QED  BY <2>1, <2>2, <2>3, <2>4, <2>5, <2>6, <2>7
  <1>2. /\ rd \in Seq(HostEvents) /\ one \in Seq(HostEvents) /\ r2 \in Seq(HostEvents)
        /\ rd # <<>> /\ one # <<>> /\ r2 # <<>>
    BY DEF HostEvents
  <1>3. rd[Len(rd)] = "RSP_PROC" /\ one[Len(one)] = "RSP_PROC" /\ r2[Len(r2)] = "RSP_PROC"
    OBVIOUS
  <1>4. InOrder(rd, HostEvents, HostRank)
    BY <1>2, HostRanks DEF InOrder
  <1>5. InOrder(one, HostEvents, HostRank)
    BY <1>2, HostRanks DEF InOrder
  <1>6. InOrder(r2, HostEvents, HostRank)
    BY <1>2, HostRanks DEF InOrder
  <1> HIDE DEF rd, one, r2
  <1>7. QED  BY <1>1, <1>2, <1>3, <1>4, <1>5, <1>6, WithDone

\* The two times of an RDMA read's response are stamped together.
Together == TgtSteps \ {"C2H_SENT", "RSP_SENT"}

\* And through the target's; an RDMA read's data and response are posted together.
LEMMA KindsTgt ==
  ASSUME NEW k \in DOMAIN Kinds
  PROVE  /\ InOrder(Kinds[k].tgt, TgtSteps, TgtRank)
         /\ Kinds[k].rdma /\ ~ Kinds[k].write => Kinds[k].tgt \in Seq(Together)
  <1> DEFINE a1 == <<"CMD_ARR", "CMD_PROC">>
             a2 == <<"CMD_ARR", "CMD_PROC", "R2T_SENT", "DATA_ARR", "DATA_PROC", "DATA_DONE">>
             a3 == <<"CMD_ARR", "CMD_PROC", "R2T_SENT", "DATA_PROC">>
             c1 == <<"C2H_SENT", "RSP_SENT">>
             c2 == <<"RSP_SENT">>
             c3 == <<"POSTED", "SEND_DONE">>
             c4 == <<"SEND_DONE", "POSTED">>
             c5 == <<"RSP_SENT", "SEND_DONE">>
  <1>1. /\ Kinds[k].tgt \in {a1 \o Backend \o c1, a1 \o Backend \o c2, a2 \o Backend \o c2,
                             a1 \o Backend \o c3, a1 \o Backend \o c4, a3 \o Backend \o c5}
        /\ Kinds[k].rdma /\ ~ Kinds[k].write =>
             Kinds[k].tgt \in {a1 \o Backend \o c3, a1 \o Backend \o c4}
    <2>1. k \in {"tcp_read", "tcp_inline", "tcp_r2t", "rdma_read", "rdma_late", "rdma_fetch"}
      BY DEF Kinds
    <2>2. Kinds["tcp_read"].tgt = a1 \o Backend \o c1 /\ Kinds["tcp_read"].rdma = FALSE
      BY DEF Kinds
    <2>3. Kinds["tcp_inline"].tgt = a1 \o Backend \o c2 /\ Kinds["tcp_inline"].rdma = FALSE
      BY DEF Kinds
    <2>4. Kinds["tcp_r2t"].tgt = a2 \o Backend \o c2 /\ Kinds["tcp_r2t"].rdma = FALSE
      BY DEF Kinds
    <2>5. Kinds["rdma_read"].tgt = a1 \o Backend \o c3
      BY DEF Kinds
    <2>6. Kinds["rdma_late"].tgt = a1 \o Backend \o c4
      BY DEF Kinds
    <2>7. Kinds["rdma_fetch"].tgt = a3 \o Backend \o c5 /\ Kinds["rdma_fetch"].write = TRUE
      BY DEF Kinds
    <2> HIDE DEF a1, a2, a3, c1, c2, c3, c4, c5
    <2>8. CASE k \in {"tcp_read", "tcp_inline", "tcp_r2t"}
      BY <2>2, <2>3, <2>4, <2>8
    <2>9. CASE k \in {"rdma_read", "rdma_late", "rdma_fetch"}
      BY <2>5, <2>6, <2>7, <2>9
    <2>10. QED  BY <2>1, <2>8, <2>9
  <1>2. /\ a1 \in Seq(TgtSteps) /\ a2 \in Seq(TgtSteps) /\ a3 \in Seq(TgtSteps)
        /\ c1 \in Seq(TgtSteps) /\ c2 \in Seq(TgtSteps) /\ c3 \in Seq(TgtSteps)
        /\ c4 \in Seq(TgtSteps) /\ c5 \in Seq(TgtSteps)
    BY DEF TgtSteps, TgtEvents
  <1>3. /\ a1 # <<>> /\ a2 # <<>> /\ a3 # <<>> /\ c1 # <<>> /\ c2 # <<>> /\ c3 # <<>> /\ c4 # <<>>
        /\ c5 # <<>>
    OBVIOUS
  <1>4. /\ TgtRank[a1[Len(a1)]] <= 7 /\ TgtRank[a2[Len(a2)]] <= 7 /\ TgtRank[a3[Len(a3)]] <= 7
        /\ TgtRank[c1[1]] = 11 /\ TgtRank[c2[1]] = 11 /\ TgtRank[c3[1]] = 11
        /\ TgtRank[c4[1]] = 11 /\ TgtRank[c5[1]] = 11
    BY TgtRanks
  <1>5. InOrder(a1, TgtSteps, TgtRank)
    BY <1>2, TgtRanks DEF InOrder
  <1>6. InOrder(a2, TgtSteps, TgtRank)
    BY <1>2, TgtRanks DEF InOrder
  <1>7. InOrder(a3, TgtSteps, TgtRank)
    BY <1>2, TgtRanks DEF InOrder
  <1>8. InOrder(c1, TgtSteps, TgtRank) /\ InOrder(c2, TgtSteps, TgtRank)
    BY <1>2, TgtRanks DEF InOrder
  <1>9. InOrder(c3, TgtSteps, TgtRank) /\ InOrder(c4, TgtSteps, TgtRank)
    BY <1>2, TgtRanks DEF InOrder
  <1>10. InOrder(c5, TgtSteps, TgtRank)
    BY <1>2, TgtRanks DEF InOrder
  <1>12. /\ a1 \in Seq(Together) /\ c3 \in Seq(Together) /\ c4 \in Seq(Together)
         /\ Backend \in Seq(Together)
    BY DEF Together, TgtSteps, TgtEvents, Backend
  <1> HIDE DEF a1, a2, a3, c1, c2, c3, c4, c5
  <1>13. InOrder(Kinds[k].tgt, TgtSteps, TgtRank)
    BY <1>1, <1>2, <1>3, <1>4, <1>5, <1>6, <1>7, <1>8, <1>9, <1>10, WithBackend
  <1>14. a1 \o Backend \o c3 \in Seq(Together) /\ a1 \o Backend \o c4 \in Seq(Together)
    BY <1>12
  <1>15. QED  BY <1>1, <1>13, <1>14

-----------------------------------------------------------------------------
(* What a machine has stamped while it takes a command through its events.  *)

\* The times are in the order of their events and, while events are still to
\* come, none is later than the clock c or of a later event than the next one.
Filled(ts, rank, todo, c) ==
  /\ Ordered(ts, rank)
  /\ todo # <<>> => \A e \in DOMAIN ts : /\ ts[e] <= c
                                         /\ ts[e] # 0 => rank[e] <= rank[Head(todo)]

\* The rest of a sequence in order is in order, and does not begin with an
\* earlier event.
LEMMA TailInOrder ==
  ASSUME NEW E, NEW rank \in [E -> Nat], NEW todo, InOrder(todo, E, rank), todo # <<>>
  PROVE  /\ InOrder(Tail(todo), E, rank)
         /\ Head(todo) \in E
         /\ Tail(todo) # <<>> => Head(Tail(todo)) \in E /\ rank[Head(todo)] <= rank[Head(Tail(todo))]
  <1>1. /\ todo \in Seq(E) /\ Tail(todo) \in Seq(E) /\ Head(todo) \in E /\ Head(todo) = todo[1]
        /\ Len(Tail(todo)) = Len(todo) - 1 /\ Len(todo) \in Nat /\ Len(todo) > 0
    BY DEF InOrder
  <1>2. \A i \in 1..Len(Tail(todo)) : Tail(todo)[i] = todo[i + 1]
    BY <1>1
  <1>3. ASSUME NEW i \in 1..Len(Tail(todo)), i + 1 \in 1..Len(Tail(todo))
        PROVE  rank[Tail(todo)[i]] <= rank[Tail(todo)[i + 1]]
    <2>1. i + 1 \in 1..Len(todo) /\ (i + 1) + 1 \in 1..Len(todo)
      BY <1>1, <1>3
    <2>2. rank[todo[i + 1]] <= rank[todo[(i + 1) + 1]]
      BY <2>1 DEF InOrder
    <2>3. QED  BY <1>2, <1>3, <2>2
  <1>4. ASSUME Tail(todo) # <<>>
        PROVE  Head(Tail(todo)) \in E /\ rank[Head(todo)] <= rank[Head(Tail(todo))]
    <2>1. Head(Tail(todo)) \in E /\ Head(Tail(todo)) = Tail(todo)[1] /\ 1 \in 1..Len(Tail(todo))
      BY <1>1, <1>4
    <2>2. Tail(todo)[1] = todo[2] /\ 1 \in 1..Len(todo) /\ 2 \in 1..Len(todo)
      BY <1>1, <1>2, <2>1
    <2>3. rank[todo[1]] <= rank[todo[1 + 1]]
      BY <2>2 DEF InOrder
    <2>4. QED  BY <1>1, <2>1, <2>2, <2>3
  <1>5. QED  BY <1>1, <1>3, <1>4 DEF InOrder

\* An event's times, of the next event's rank, are stamped with the clock and the
\* clock moves on (Seen() of HostEvent and TgtEvent): the times stay in order.
LEMMA StampKeeps ==
  ASSUME NEW S, NEW E, E \subseteq S, NEW rank \in [S -> Nat],
         NEW ts \in [E -> Nat], NEW todo, InOrder(todo, S, rank), todo # <<>>,
         clock \in Nat, NEW d \in Nat, clock <= d, Filled(ts, rank, todo, clock),
         NEW ev \in SUBSET E, \A e \in ev : rank[e] = rank[Head(todo)]
  PROVE  Seen(ts, ev) \in [E -> Nat] /\ Filled(Seen(ts, ev), rank, Tail(todo), d)
  <1> DEFINE new == Seen(ts, ev)
             r == rank[Head(todo)]
  <1>1. /\ new \in [E -> Nat] /\ DOMAIN new = E /\ DOMAIN ts = E
        /\ \A e \in E : new[e] = IF e \in ev THEN clock ELSE ts[e]
    BY DEF Seen
  <1>2. Head(todo) \in S /\ r \in Nat
    BY TailInOrder
  <1>3. \A e \in E : rank[e] \in Nat /\ ts[e] \in Nat /\ ts[e] <= clock /\ (ts[e] # 0 => rank[e] <= r)
    BY <1>1 DEF Filled
  <1>4. \A e \in E : new[e] <= clock /\ (new[e] # 0 => rank[e] <= r)
    BY <1>1, <1>2, <1>3
  <1>5. \A e, f \in E : ts[e] # 0 /\ ts[f] # 0 /\ rank[e] < rank[f] => ts[e] <= ts[f]
    BY <1>1 DEF Filled, Ordered
  <1>6. \A e \in ev : rank[e] = r
    OBVIOUS
  <1>7. Tail(todo) # <<>> => rank[Head(Tail(todo))] \in Nat /\ r <= rank[Head(Tail(todo))]
    BY TailInOrder
  <1> HIDE DEF new, r
  <1>8. \A e, f \in E : new[e] # 0 /\ new[f] # 0 /\ rank[e] < rank[f] => new[e] <= new[f]
    <2> SUFFICES ASSUME NEW e \in E, NEW f \in E, new[e] # 0, new[f] # 0, rank[e] < rank[f]
                 PROVE  new[e] <= new[f]
      OBVIOUS
    <2>1. CASE f \in ev
      BY <1>1, <1>4, <2>1
    <2>2. CASE f \notin ev
      <3>1. e \notin ev
        BY <1>1, <1>2, <1>3, <1>6, <2>2
      <3>2. QED  BY <1>1, <1>5, <2>2, <3>1
    <2>3. QED  BY <2>1, <2>2
  <1>9. Tail(todo) # <<>> => \A e \in E : new[e] <= d /\ (new[e] # 0 => rank[e] <= rank[Head(Tail(todo))])
    <2> SUFFICES ASSUME Tail(todo) # <<>>, NEW e \in E
                 PROVE  new[e] <= d /\ (new[e] # 0 => rank[e] <= rank[Head(Tail(todo))])
      OBVIOUS
    <2>1. new[e] \in Nat /\ new[e] <= clock
      BY <1>1, <1>4
    <2>2. new[e] <= d
      BY <2>1
    <2> DEFINE n == rank[Head(Tail(todo))]
    <2>3. n \in Nat /\ r <= n
      BY <1>7
    <2> HIDE DEF n
    <2>4. new[e] # 0 => rank[e] <= n
      BY <1>2, <1>3, <1>4, <2>3
    <2>5. QED  BY <2>2, <2>4 DEF n
  <1>10. Filled(new, rank, Tail(todo), d)
    BY <1>1, <1>8, <1>9 DEF Filled, Ordered
  <1>11. QED  BY <1>1, <1>10 DEF new

\* An event that no hook saw leaves the times in order as well.
LEMMA MissKeeps ==
  ASSUME NEW S, NEW E, E \subseteq S, NEW rank \in [S -> Nat],
         NEW ts \in [E -> Nat], NEW todo, InOrder(todo, S, rank), todo # <<>>,
         clock \in Nat, NEW d \in Nat, clock <= d, Filled(ts, rank, todo, clock)
  PROVE  Filled(ts, rank, Tail(todo), d)
  <1>1. Seen(ts, {}) = ts
    BY DEF Seen
  <1>2. Filled(Seen(ts, {}), rank, Tail(todo), d)
    BY StampKeeps
  <1>3. QED  BY <1>1, <1>2

\* Each record is filled in its machine's order; the target's is empty until the
\* host is done, and an RDMA read's two response times are stamped together.
FillInv ==
  /\ h \in HostRec /\ t \in TgtRec /\ clock \in Nat
  /\ InOrder(hostTodo, HostEvents, HostRank) /\ Filled(h.ts, HostRank, hostTodo, clock)
  /\ InOrder(tgtTodo, TgtSteps, TgtRank) /\ Filled(t.ts, TgtRank, tgtTodo, clock)
  /\ hostTodo # <<>> => \A e \in TgtEvents : t.ts[e] = 0
  /\ t.rdma /\ ~ t.write => t.ts["C2H_SENT"] = t.ts["RSP_SENT"] /\ tgtTodo \in Seq(Together)

\* What kind of command it is.
LEMMA KindsFlags ==
  ASSUME NEW k \in DOMAIN Kinds
  PROVE  Kinds[k].rdma \in BOOLEAN /\ Kinds[k].write \in BOOLEAN /\ Kinds[k].r2t \in BOOLEAN
  <1>1. k \in {"tcp_read", "tcp_inline", "tcp_r2t", "rdma_read", "rdma_late", "rdma_fetch"}
    BY DEF Kinds
  <1>2. /\ Kinds["tcp_read"].rdma = FALSE /\ Kinds["tcp_read"].write = FALSE
        /\ Kinds["tcp_read"].r2t = FALSE
    BY DEF Kinds
  <1>3. /\ Kinds["tcp_inline"].rdma = FALSE /\ Kinds["tcp_inline"].write = TRUE
        /\ Kinds["tcp_inline"].r2t = FALSE
    BY DEF Kinds
  <1>4. /\ Kinds["tcp_r2t"].rdma = FALSE /\ Kinds["tcp_r2t"].write = TRUE
        /\ Kinds["tcp_r2t"].r2t = TRUE
    BY DEF Kinds
  <1>5. /\ Kinds["rdma_read"].rdma = TRUE /\ Kinds["rdma_read"].write = FALSE
        /\ Kinds["rdma_read"].r2t = FALSE
    BY DEF Kinds
  <1>6. /\ Kinds["rdma_late"].rdma = TRUE /\ Kinds["rdma_late"].write = FALSE
        /\ Kinds["rdma_late"].r2t = FALSE
    BY DEF Kinds
  <1>7. /\ Kinds["rdma_fetch"].rdma = TRUE /\ Kinds["rdma_fetch"].write = TRUE
        /\ Kinds["rdma_fetch"].r2t = FALSE
    BY DEF Kinds
  <1>8. QED  BY <1>1, <1>2, <1>3, <1>4, <1>5, <1>6, <1>7

\* A command starts with two empty records.
LEMMA FillInit ==
  ASSUME Busies \subseteq Nat, Init  PROVE FillInv
  <1>1. PICK k \in DOMAIN Kinds :
          \E hb \in IF k = "tcp_read" THEN Busies ELSE {0},
             tb \in IF k = "tcp_r2t" THEN Busies ELSE {0} :
            /\ h = [rdma |-> Kinds[k].rdma, write |-> Kinds[k].write, r2t |-> Kinds[k].r2t,
                    ts |-> [e \in HostEvents |-> 0], busy |-> hb]
            /\ t = [rdma |-> Kinds[k].rdma, write |-> Kinds[k].write, r2t |-> Kinds[k].r2t,
                    fetch |-> k = "rdma_fetch", ts |-> [e \in TgtEvents |-> 0], busy |-> tb]
            /\ hostTodo = Kinds[k].host /\ tgtTodo = Kinds[k].tgt
            /\ clock = 1 /\ misses = 0
    BY DEF Init
  <1>2. PICK hb \in Nat, tb \in Nat :
            /\ h = [rdma |-> Kinds[k].rdma, write |-> Kinds[k].write, r2t |-> Kinds[k].r2t,
                    ts |-> [e \in HostEvents |-> 0], busy |-> hb]
            /\ t = [rdma |-> Kinds[k].rdma, write |-> Kinds[k].write, r2t |-> Kinds[k].r2t,
                    fetch |-> k = "rdma_fetch", ts |-> [e \in TgtEvents |-> 0], busy |-> tb]
            /\ hostTodo = Kinds[k].host /\ tgtTodo = Kinds[k].tgt
            /\ clock = 1 /\ misses = 0
    <2>1. /\ (IF k = "tcp_read" THEN Busies ELSE {0}) \subseteq Nat
          /\ (IF k = "tcp_r2t" THEN Busies ELSE {0}) \subseteq Nat
      OBVIOUS
    <2> DEFINE HB == IF k = "tcp_read" THEN Busies ELSE {0}
               TB == IF k = "tcp_r2t" THEN Busies ELSE {0}
    <2>2. PICK hb \in HB, tb \in TB :
            /\ h = [rdma |-> Kinds[k].rdma, write |-> Kinds[k].write, r2t |-> Kinds[k].r2t,
                    ts |-> [e \in HostEvents |-> 0], busy |-> hb]
            /\ t = [rdma |-> Kinds[k].rdma, write |-> Kinds[k].write, r2t |-> Kinds[k].r2t,
                    fetch |-> k = "rdma_fetch", ts |-> [e \in TgtEvents |-> 0], busy |-> tb]
            /\ hostTodo = Kinds[k].host /\ tgtTodo = Kinds[k].tgt
            /\ clock = 1 /\ misses = 0
      BY <1>1
    <2>3. hb \in Nat /\ tb \in Nat
      BY <2>1
    <2>4. QED  BY <2>2, <2>3
  <1>3. Kinds[k].rdma \in BOOLEAN /\ Kinds[k].write \in BOOLEAN /\ Kinds[k].r2t \in BOOLEAN
    BY KindsFlags
  <1>4. h \in HostRec /\ h.ts = [e \in HostEvents |-> 0]
    BY <1>2, <1>3 DEF HostRec
  <1>5. t \in TgtRec /\ t.ts = [e \in TgtEvents |-> 0]
        /\ t.rdma = Kinds[k].rdma /\ t.write = Kinds[k].write
    BY <1>2, <1>3 DEF TgtRec
  <1>6. Filled(h.ts, HostRank, hostTodo, clock)
    <2>1. \A e \in DOMAIN h.ts : h.ts[e] = 0
      BY <1>4
    <2>2. clock = 1
      BY <1>2
    <2>3. \A e \in DOMAIN h.ts : h.ts[e] <= clock
      BY <2>1, <2>2
    <2>4. QED  BY <2>1, <2>3 DEF Filled, Ordered
  <1>7. Filled(t.ts, TgtRank, tgtTodo, clock)
    <2>1. \A e \in DOMAIN t.ts : t.ts[e] = 0
      BY <1>5
    <2>2. clock = 1
      BY <1>2
    <2>3. \A e \in DOMAIN t.ts : t.ts[e] <= clock
      BY <2>1, <2>2
    <2>4. QED  BY <2>1, <2>3 DEF Filled, Ordered
  <1>8. "C2H_SENT" \in TgtEvents /\ "RSP_SENT" \in TgtEvents
    BY DEF TgtEvents
  <1>9. InOrder(hostTodo, HostEvents, HostRank) /\ InOrder(tgtTodo, TgtSteps, TgtRank)
    BY <1>2, KindsHost, KindsTgt
  <1>10. t.rdma /\ ~ t.write => tgtTodo \in Seq(Together)
    BY <1>2, <1>5, KindsTgt
  <1>11. QED  BY <1>2, <1>4, <1>5, <1>6, <1>7, <1>8, <1>9, <1>10 DEF FillInv

\* A host event, seen by its hook or missed (HostEvent), keeps the records in order.
LEMMA HostEventKeeps ==
  ASSUME Span \in Nat, FillInv, HostEvent  PROVE FillInv'
  <1> DEFINE e == Head(hostTodo)
  <1>1. /\ h \in HostRec /\ t \in TgtRec /\ clock \in Nat /\ t' = t /\ tgtTodo' = tgtTodo
        /\ hostTodo # <<>> /\ hostTodo' = Tail(hostTodo)
    BY DEF FillInv, HostEvent
  <1>2. InOrder(hostTodo, HostEvents, HostRank) /\ Filled(h.ts, HostRank, hostTodo, clock)
    BY DEF FillInv
  <1>3. clock' \in Nat /\ (hostTodo' # <<>> => clock <= clock')
    BY <1>1 DEF HostEvent
  <1>4. InOrder(hostTodo', HostEvents, HostRank) /\ e \in HostEvents
    BY <1>1, <1>2, HostRanks, TailInOrder
  <1>5. h.ts \in [HostEvents -> Nat]
    BY <1>1 DEF HostRec
  <1>6. h' \in HostRec /\ h'.ts \in {h.ts, Seen(h.ts, {e})}
    <2>1. Seen(h.ts, {e}) \in [HostEvents -> Nat]
      BY <1>1, <1>5 DEF Seen
    <2>2. h' \in {h, [h EXCEPT !.ts = Seen(h.ts, {e})]}
      BY DEF HostEvent
    <2>3. QED  BY <1>1, <2>1, <2>2 DEF HostRec
  <1>7. Filled(h'.ts, HostRank, hostTodo', clock')
    <2>1. PICK d \in Nat : clock <= d /\ (hostTodo' # <<>> => d = clock')
      <3>1. clock \in Nat /\ clock <= clock
        BY <1>1
      <3>2. CASE hostTodo' = <<>>
        BY <3>1, <3>2
      <3>3. CASE hostTodo' # <<>>
        BY <1>3, <3>3
      <3>4. QED  BY <3>2, <3>3
    <2>2. Filled(Seen(h.ts, {e}), HostRank, Tail(hostTodo), d)
      <3>1. {e} \in SUBSET HostEvents /\ \A f \in {e} : HostRank[f] = HostRank[Head(hostTodo)]
        BY <1>4
      <3> HIDE DEF e
      <3>2. QED  BY <1>1, <1>2, <1>5, <2>1, <3>1, HostRanks, StampKeeps
    <2>3. Filled(h.ts, HostRank, Tail(hostTodo), d)
      BY <1>1, <1>2, <1>5, <2>1, HostRanks, MissKeeps
    <2>4. Filled(h'.ts, HostRank, hostTodo', d)
      BY <1>1, <1>6, <2>2, <2>3
    <2>5. QED  BY <2>1, <2>4 DEF Filled
  <1>8. \A f \in TgtEvents : t'.ts[f] = 0
    BY <1>1 DEF FillInv
  <1>9. DOMAIN t'.ts = TgtEvents
    BY <1>1 DEF TgtRec
  <1>10. Filled(t'.ts, TgtRank, tgtTodo', clock')
    BY <1>3, <1>8, <1>9 DEF Filled, Ordered
  <1>11. InOrder(tgtTodo', TgtSteps, TgtRank)
    BY <1>1 DEF FillInv
  <1>12. t'.rdma /\ ~ t'.write => t'.ts["C2H_SENT"] = t'.ts["RSP_SENT"] /\ tgtTodo' \in Seq(Together)
    BY <1>1 DEF FillInv
  <1>13. t' \in TgtRec
    BY <1>1
  <1>14. QED  BY <1>3, <1>4, <1>6, <1>7, <1>8, <1>10, <1>11, <1>12, <1>13 DEF FillInv

\* So does a target event (TgtEvent).
LEMMA TgtEventKeeps ==
  ASSUME Span \in Nat, FillInv, TgtEvent  PROVE FillInv'
  <1> DEFINE e == Head(tgtTodo)
             ev == Stamps(e)
  <1>1. /\ h \in HostRec /\ t \in TgtRec /\ clock \in Nat /\ h' = h /\ hostTodo' = hostTodo
        /\ hostTodo = <<>> /\ tgtTodo # <<>> /\ tgtTodo' = Tail(tgtTodo)
    BY DEF FillInv, TgtEvent
  <1>2. InOrder(tgtTodo, TgtSteps, TgtRank) /\ Filled(t.ts, TgtRank, tgtTodo, clock)
    BY DEF FillInv
  <1>3. clock' \in Nat /\ clock <= clock'
    BY <1>1 DEF TgtEvent
  <1>4. InOrder(tgtTodo', TgtSteps, TgtRank) /\ e \in TgtSteps
    BY <1>1, <1>2, TgtRanks, TailInOrder
  <1>5. t.ts \in [TgtEvents -> Nat]
    BY <1>1 DEF TgtRec
  <1>6. ev \in SUBSET TgtEvents /\ \A f \in ev : TgtRank[f] = TgtRank[e]
    <2>1. "C2H_SENT" \in TgtEvents /\ "RSP_SENT" \in TgtEvents
      BY DEF TgtEvents
    <2>2. CASE e = "POSTED"
      <3> HIDE DEF e
      <3>1. QED  BY <2>1, <2>2, TgtRanks DEF Stamps
    <2>3. CASE e # "POSTED"
      <3> HIDE DEF e
      <3>1. e \in TgtEvents
        BY <1>4, <2>3 DEF TgtSteps
      <3>2. QED  BY <2>3, <3>1 DEF Stamps
    <2>4. QED  BY <2>2, <2>3
  <1>7. t' \in {t, [t EXCEPT !.ts = Seen(t.ts, ev)]}
    BY DEF TgtEvent
  <1>8. TgtEvents \subseteq TgtSteps
    BY DEF TgtSteps
  <1>9. Seen(t.ts, ev) \in [TgtEvents -> Nat] /\ Filled(Seen(t.ts, ev), TgtRank, Tail(tgtTodo), clock')
    <2> HIDE DEF ev
    <2>1. \A f \in ev : TgtRank[f] = TgtRank[Head(tgtTodo)]
      BY <1>6
    <2>2. QED  BY <1>1, <1>2, <1>3, <1>5, <1>6, <1>8, <2>1, TgtRanks, StampKeeps
  <1>10. Filled(t.ts, TgtRank, Tail(tgtTodo), clock')
    BY <1>1, <1>2, <1>3, <1>5, <1>8, TgtRanks, MissKeeps
  <1> HIDE DEF ev
  <1>11. /\ t' \in TgtRec /\ t'.ts \in {t.ts, Seen(t.ts, ev)}
         /\ t'.rdma = t.rdma /\ t'.write = t.write
    BY <1>1, <1>7, <1>9 DEF TgtRec
  <1>12. Filled(t'.ts, TgtRank, tgtTodo', clock')
    BY <1>1, <1>9, <1>10, <1>11
  <1>13. ASSUME t'.rdma /\ ~ t'.write
         PROVE  t'.ts["C2H_SENT"] = t'.ts["RSP_SENT"] /\ tgtTodo' \in Seq(Together)
    <2>1. t.ts["C2H_SENT"] = t.ts["RSP_SENT"] /\ tgtTodo \in Seq(Together)
      BY <1>11, <1>13 DEF FillInv
    <2>2. Tail(tgtTodo) \in Seq(Together) /\ e \in Together
      BY <1>1, <2>1
    <2>3. "C2H_SENT" \in TgtEvents /\ "RSP_SENT" \in TgtEvents
      BY DEF TgtEvents
    <2> HIDE DEF e
    <2>4. "C2H_SENT" \in ev <=> "RSP_SENT" \in ev
      BY <2>2 DEF ev, Stamps, Together
    <2>5. Seen(t.ts, ev)["C2H_SENT"] = Seen(t.ts, ev)["RSP_SENT"]
      BY <1>5, <2>1, <2>3, <2>4 DEF Seen
    <2>6. QED  BY <1>1, <1>11, <2>1, <2>2, <2>5
  <1>14. InOrder(hostTodo', HostEvents, HostRank)
    BY <1>1 DEF FillInv
  <1>15. Filled(h'.ts, HostRank, hostTodo', clock')
    BY <1>1 DEF FillInv, Filled
  <1>16. hostTodo' = <<>> /\ h' \in HostRec
    BY <1>1
  <1>17. QED  BY <1>3, <1>4, <1>11, <1>12, <1>13, <1>14, <1>15, <1>16 DEF FillInv

\* Whatever hooks are missed, the times a record has are in the order of the
\* events (ntp_h_* and ntp_t_* stamp them as they happen), for any clock steps.
THEOREM RecordsFilledInOrder ==
  ASSUME Span \in Nat, Busies \subseteq Nat
  PROVE  Spec => []FillInv
  <1>1. Init => FillInv
    BY FillInit
  <1>2. FillInv /\ [Next]_vars => FillInv'
    <2> SUFFICES ASSUME FillInv, [Next]_vars PROVE FillInv'
      OBVIOUS
    <2>1. CASE HostEvent
      BY <2>1, HostEventKeeps
    <2>2. CASE TgtEvent
      BY <2>2, TgtEventKeeps
    <2>3. CASE UNCHANGED vars
      <3>1. UNCHANGED <<h, t, hostTodo, tgtTodo, clock>>
        BY <2>3 DEF vars
      <3>2. QED  BY <3>1 DEF FillInv
    <2>4. QED  BY <2>1, <2>2, <2>3 DEF Next
  <1>3. QED  BY <1>1, <1>2, PTL DEF Spec

-----------------------------------------------------------------------------
(* Times in the order of their events give no negative component.           *)

\* What the order says of the times the host's components subtract.
LEMMA HostPairs ==
  ASSUME NEW x \in HostRec, Ordered(x.ts, HostRank),
         x.ts["QUEUE_RQ"] # 0, x.ts["CMD_SENT"] # 0, x.ts["RSP_PROC"] # 0, x.ts["BLK_DONE"] # 0
  PROVE  /\ x.ts["QUEUE_RQ"] <= x.ts["CMD_SENT"] /\ x.ts["QUEUE_RQ"] <= x.ts["RSP_PROC"]
         /\ x.ts["RSP_PROC"] <= x.ts["BLK_DONE"]
         /\ x.ts["NVME_DONE"] # 0 => x.ts["RSP_PROC"] <= x.ts["NVME_DONE"]
         /\ x.ts["C2H_ARR"] # 0 => x.ts["CMD_SENT"] <= x.ts["C2H_ARR"]
         /\ x.ts["R2T_ARR"] # 0 => x.ts["CMD_SENT"] <= x.ts["R2T_ARR"]
         /\ x.ts["RSP_ARR"] # 0 => /\ x.ts["CMD_SENT"] <= x.ts["RSP_ARR"]
                                   /\ x.ts["RSP_ARR"] <= x.ts["RSP_PROC"]
         /\ x.ts["C2H_PROC"] # 0 => x.ts["C2H_PROC"] <= x.ts["RSP_PROC"]
         /\ x.ts["C2H_ARR"] # 0 /\ x.ts["C2H_PROC"] # 0 => x.ts["C2H_ARR"] <= x.ts["C2H_PROC"]
         /\ x.ts["R2T_ARR"] # 0 /\ x.ts["R2T_PROC"] # 0 => x.ts["R2T_ARR"] <= x.ts["R2T_PROC"]
         /\ x.ts["R2T_PROC"] # 0 /\ x.ts["DATA_START"] # 0 => x.ts["R2T_PROC"] <= x.ts["DATA_START"]
         /\ x.ts["DATA_START"] # 0 /\ x.ts["RSP_ARR"] # 0 => x.ts["DATA_START"] <= x.ts["RSP_ARR"]
  <1> DEFINE H == x.ts
  <1>1. DOMAIN H = HostEvents
    BY HostFields
  <1>2. \A e, f \in HostEvents : H[e] # 0 /\ H[f] # 0 /\ HostRank[e] < HostRank[f] => H[e] <= H[f]
    BY <1>1 DEF Ordered
  <1>3. /\ "QUEUE_RQ" \in HostEvents /\ "CMD_SENT" \in HostEvents /\ "RSP_PROC" \in HostEvents
        /\ "BLK_DONE" \in HostEvents /\ "NVME_DONE" \in HostEvents /\ "C2H_ARR" \in HostEvents
        /\ "R2T_ARR" \in HostEvents /\ "RSP_ARR" \in HostEvents /\ "C2H_PROC" \in HostEvents
        /\ "R2T_PROC" \in HostEvents /\ "DATA_START" \in HostEvents
    BY DEF HostEvents
  <1>4. H["QUEUE_RQ"] # 0 /\ H["CMD_SENT"] # 0 /\ H["RSP_PROC"] # 0 /\ H["BLK_DONE"] # 0
    OBVIOUS
  <1> HIDE DEF H
  <1>5. /\ H["QUEUE_RQ"] <= H["CMD_SENT"] /\ H["QUEUE_RQ"] <= H["RSP_PROC"]
        /\ H["RSP_PROC"] <= H["BLK_DONE"]
        /\ H["NVME_DONE"] # 0 => H["RSP_PROC"] <= H["NVME_DONE"]
    BY <1>2, <1>3, <1>4, HostRanks
  <1>6. /\ H["C2H_ARR"] # 0 => H["CMD_SENT"] <= H["C2H_ARR"]
        /\ H["R2T_ARR"] # 0 => H["CMD_SENT"] <= H["R2T_ARR"]
        /\ H["RSP_ARR"] # 0 => H["CMD_SENT"] <= H["RSP_ARR"] /\ H["RSP_ARR"] <= H["RSP_PROC"]
        /\ H["C2H_PROC"] # 0 => H["C2H_PROC"] <= H["RSP_PROC"]
    <2>1. /\ HostRank["CMD_SENT"] < HostRank["C2H_ARR"] /\ HostRank["CMD_SENT"] < HostRank["R2T_ARR"]
          /\ HostRank["CMD_SENT"] < HostRank["RSP_ARR"] /\ HostRank["RSP_ARR"] < HostRank["RSP_PROC"]
          /\ HostRank["C2H_PROC"] < HostRank["RSP_PROC"]
      BY HostRanks
    <2>2. /\ H["C2H_ARR"] # 0 => H["CMD_SENT"] <= H["C2H_ARR"]
          /\ H["R2T_ARR"] # 0 => H["CMD_SENT"] <= H["R2T_ARR"]
      BY <1>2, <1>3, <1>4, <2>1
    <2>3. /\ H["RSP_ARR"] # 0 => H["CMD_SENT"] <= H["RSP_ARR"] /\ H["RSP_ARR"] <= H["RSP_PROC"]
          /\ H["C2H_PROC"] # 0 => H["C2H_PROC"] <= H["RSP_PROC"]
      BY <1>2, <1>3, <1>4, <2>1
    <2>4. QED  BY <2>2, <2>3
  <1>7. /\ H["C2H_ARR"] # 0 /\ H["C2H_PROC"] # 0 => H["C2H_ARR"] <= H["C2H_PROC"]
        /\ H["R2T_ARR"] # 0 /\ H["R2T_PROC"] # 0 => H["R2T_ARR"] <= H["R2T_PROC"]
        /\ H["R2T_PROC"] # 0 /\ H["DATA_START"] # 0 => H["R2T_PROC"] <= H["DATA_START"]
        /\ H["DATA_START"] # 0 /\ H["RSP_ARR"] # 0 => H["DATA_START"] <= H["RSP_ARR"]
    BY <1>2, <1>3, HostRanks
  <1>8. QED  BY <1>5, <1>6, <1>7 DEF H

\* The events host_complete() asks for.
LEMMA HostRequired ==
  ASSUME NEW x \in HostRec, host_complete(x)
  PROVE  /\ x.ts["QUEUE_RQ"] # 0 /\ x.ts["CMD_SENT"] # 0 /\ x.ts["RSP_PROC"] # 0
         /\ x.ts["BLK_DONE"] # 0
         /\ ~ x.rdma /\ io_class(x) = "read" => x.ts["C2H_ARR"] # 0 /\ x.ts["C2H_PROC"] # 0
         /\ ~ x.rdma /\ io_class(x) = "write_r2t" =>
              x.ts["R2T_ARR"] # 0 /\ x.ts["R2T_PROC"] # 0 /\ x.ts["DATA_START"] # 0
         /\ x.rdma \/ io_class(x) # "read" => x.ts["RSP_ARR"] # 0
  <1>1. io_class(x) \in {"read", "write_inline", "write_r2t"}
    BY DEF io_class
  <1>2. CASE x.rdma
    BY <1>2 DEF host_complete, have_all, host_req_rdma
  <1>3. CASE ~ x.rdma /\ io_class(x) = "read"
    BY <1>3 DEF host_complete, have_all, host_req
  <1>4. CASE ~ x.rdma /\ io_class(x) = "write_inline"
    BY <1>4 DEF host_complete, have_all, host_req
  <1>5. CASE ~ x.rdma /\ io_class(x) = "write_r2t"
    BY <1>5 DEF host_complete, have_all, host_req
  <1>6. QED  BY <1>1, <1>2, <1>3, <1>4, <1>5

HostNotNegative(hc) ==
  /\ hc.BLK_SUB >= 0 /\ hc.TR_SUB >= 0 /\ hc.REMOTE >= 0 /\ hc.HOST_RX >= 0
  /\ hc.HOST_DATA >= 0 /\ hc.HOST_WAIT >= 0 /\ hc.TR_CMPL >= 0 /\ hc.BLK_CMPL >= 0
  /\ hc.CMPL_IPI >= 0 /\ hc.E2E >= 0

\* From times in order, no component of a complete host record is negative.
LEMMA HostInOrder ==
  ASSUME NEW x \in HostRec, Ordered(x.ts, HostRank), host_complete(x)
  PROVE  HostNotNegative(HostComps(x))
  <1> DEFINE H == x.ts
             ph == read_data_phase(x)
             rd == ~ x.rdma /\ io_class(x) = "read"
             r2 == ~ x.rdma /\ io_class(x) = "write_r2t"
             hc == HostComps(x)
             start == HasStart(x)
  <1>1. \A e \in HostEvents : H[e] \in Nat
    BY HostFields
  <1>2. /\ H["START"] \in Nat /\ H["QUEUE_RQ"] \in Nat /\ H["CMD_SENT"] \in Nat
        /\ H["R2T_ARR"] \in Nat /\ H["R2T_PROC"] \in Nat /\ H["DATA_START"] \in Nat
        /\ H["C2H_ARR"] \in Nat /\ H["C2H_PROC"] \in Nat /\ H["C2H_DONE"] \in Nat
        /\ H["RSP_ARR"] \in Nat /\ H["RSP_PROC"] \in Nat /\ H["NVME_DONE"] \in Nat
        /\ H["BLK_DONE"] \in Nat
    BY <1>1 DEF HostEvents
  <1>3. /\ ph.busy \in Nat /\ ph.wait \in Nat
        /\ ph.ok => H["C2H_DONE"] <= H["RSP_PROC"]
    <2>1. x.busy \in Nat
      BY HostFields
    <2>2. Splits(ph, H["C2H_PROC"], H["C2H_DONE"], H["RSP_PROC"])
      BY <1>2, <2>1, DataPhaseSplits DEF read_data_phase
    <2> HIDE DEF ph, H
    <2>3. QED  BY <2>2 DEF Splits
  <1> HIDE DEF ph
  <1>4. /\ hc.BLK_SUB = IF start THEN H["QUEUE_RQ"] - H["START"] ELSE 0
        /\ hc.E2E = H["BLK_DONE"] - IF start THEN H["START"] ELSE H["QUEUE_RQ"]
        /\ hc.BLK_CMPL = H["BLK_DONE"] - H["RSP_PROC"]
        /\ hc.CMPL_IPI = IF H["NVME_DONE"] # 0 THEN H["NVME_DONE"] - H["RSP_PROC"] ELSE 0
    BY DEF HostComps
  <1>5. start => H["START"] <= H["QUEUE_RQ"]
    BY DEF HasStart
  <1>6. ~ (rd /\ r2)
    BY DEF io_class
  <1>7. /\ hc.TR_SUB = H["CMD_SENT"] - H["QUEUE_RQ"]
                       + IF r2 THEN H["DATA_START"] - H["R2T_PROC"] ELSE 0
        /\ hc.REMOTE = IF rd THEN H["C2H_ARR"] - H["CMD_SENT"]
                       ELSE IF r2 THEN (H["R2T_ARR"] - H["CMD_SENT"])
                                       + (H["RSP_ARR"] - H["DATA_START"])
                       ELSE H["RSP_ARR"] - H["CMD_SENT"]
        /\ hc.HOST_RX = IF rd THEN H["C2H_PROC"] - H["C2H_ARR"]
                        ELSE IF r2 THEN (H["R2T_PROC"] - H["R2T_ARR"])
                                        + (H["RSP_PROC"] - H["RSP_ARR"])
                        ELSE H["RSP_PROC"] - H["RSP_ARR"]
        /\ hc.HOST_DATA = IF rd THEN ph.busy ELSE 0
        /\ hc.HOST_WAIT = IF rd THEN ph.wait ELSE 0
        /\ hc.TR_CMPL = IF ~ rd THEN 0
                        ELSE H["RSP_PROC"] - IF ph.ok THEN H["C2H_DONE"] ELSE H["C2H_PROC"]
    BY DEF HostComps, ph
  <1>8. /\ rd => H["C2H_ARR"] # 0 /\ H["C2H_PROC"] # 0
        /\ r2 => H["R2T_ARR"] # 0 /\ H["R2T_PROC"] # 0 /\ H["DATA_START"] # 0
        /\ ~ rd => H["RSP_ARR"] # 0
        /\ H["QUEUE_RQ"] # 0 /\ H["CMD_SENT"] # 0 /\ H["RSP_PROC"] # 0 /\ H["BLK_DONE"] # 0
    BY HostRequired
  <1>9. /\ H["QUEUE_RQ"] <= H["CMD_SENT"] /\ H["QUEUE_RQ"] <= H["RSP_PROC"]
        /\ H["RSP_PROC"] <= H["BLK_DONE"]
        /\ H["NVME_DONE"] # 0 => H["RSP_PROC"] <= H["NVME_DONE"]
        /\ rd => /\ H["CMD_SENT"] <= H["C2H_ARR"] /\ H["C2H_ARR"] <= H["C2H_PROC"]
                 /\ H["C2H_PROC"] <= H["RSP_PROC"]
        /\ r2 => /\ H["CMD_SENT"] <= H["R2T_ARR"] /\ H["R2T_ARR"] <= H["R2T_PROC"]
                 /\ H["R2T_PROC"] <= H["DATA_START"] /\ H["DATA_START"] <= H["RSP_ARR"]
        /\ ~ rd => H["CMD_SENT"] <= H["RSP_ARR"] /\ H["RSP_ARR"] <= H["RSP_PROC"]
    BY <1>6, <1>8, HostPairs
  <1> HIDE DEF hc, rd, r2, H, start
  <1>10. hc.BLK_SUB >= 0 /\ hc.E2E >= 0 /\ hc.BLK_CMPL >= 0 /\ hc.CMPL_IPI >= 0
    BY <1>2, <1>4, <1>5, <1>9
  <1>11. /\ hc.TR_SUB >= 0 /\ hc.REMOTE >= 0 /\ hc.HOST_RX >= 0 /\ hc.HOST_DATA >= 0
         /\ hc.HOST_WAIT >= 0 /\ hc.TR_CMPL >= 0
    <2>1. CASE rd
      BY <1>2, <1>3, <1>6, <1>7, <1>9, <2>1
    <2>2. CASE r2
      BY <1>2, <1>6, <1>7, <1>9, <2>2
    <2>3. CASE ~ rd /\ ~ r2
      BY <1>2, <1>7, <1>9, <2>3
    <2>4. QED  BY <2>1, <2>2, <2>3
  <1>12. QED  BY <1>10, <1>11 DEF HostNotNegative, hc

\* What the order says of the times the target's components subtract, where the
\* events of every class were seen.
TgtOrder(T) ==
  /\ T["CMD_ARR"] <= T["CMD_PROC"] /\ T["CMD_PROC"] <= T["EXEC"] /\ T["EXEC"] <= T["COMPLETE"]
  /\ T["R2T_SENT"] # 0 => T["CMD_PROC"] <= T["R2T_SENT"]
  /\ T["DATA_PROC"] # 0 => T["DATA_PROC"] <= T["EXEC"]
  /\ T["DATA_ARR"] # 0 /\ T["DATA_PROC"] # 0 => T["DATA_ARR"] <= T["DATA_PROC"]
  /\ T["R2T_SENT"] # 0 /\ T["DATA_PROC"] # 0 => T["R2T_SENT"] <= T["DATA_PROC"]
  /\ T["BE_ISSUE"] # 0 => T["EXEC"] <= T["BE_ISSUE"]
  /\ T["BE_ISSUE"] # 0 /\ T["BE_DONE"] # 0 => T["BE_ISSUE"] <= T["BE_DONE"]
  /\ T["C2H_SENT"] # 0 => T["COMPLETE"] <= T["C2H_SENT"]
  /\ T["RSP_SENT"] # 0 => T["COMPLETE"] <= T["RSP_SENT"]
  /\ T["SEND_DONE"] # 0 => T["COMPLETE"] <= T["SEND_DONE"]

\* The pairs of target times that are subtracted are in order.
LEMMA TgtPairs ==
  ASSUME NEW y \in TgtRec, Ordered(y.ts, TgtRank),
         y.ts["CMD_ARR"] # 0, y.ts["CMD_PROC"] # 0, y.ts["EXEC"] # 0, y.ts["COMPLETE"] # 0
  PROVE  TgtOrder(y.ts)
  <1> DEFINE T == y.ts
  <1>1. DOMAIN T = TgtEvents
    BY TgtFields
  <1>2. \A e, f \in TgtEvents : T[e] # 0 /\ T[f] # 0 /\ TgtRank[e] < TgtRank[f] => T[e] <= T[f]
    BY <1>1 DEF Ordered
  <1>3. /\ "CMD_ARR" \in TgtEvents /\ "CMD_PROC" \in TgtEvents /\ "EXEC" \in TgtEvents
        /\ "COMPLETE" \in TgtEvents /\ "R2T_SENT" \in TgtEvents /\ "DATA_PROC" \in TgtEvents
        /\ "DATA_ARR" \in TgtEvents /\ "BE_ISSUE" \in TgtEvents /\ "BE_DONE" \in TgtEvents
        /\ "C2H_SENT" \in TgtEvents /\ "RSP_SENT" \in TgtEvents /\ "SEND_DONE" \in TgtEvents
    BY DEF TgtEvents
  <1>4. T["CMD_ARR"] # 0 /\ T["CMD_PROC"] # 0 /\ T["EXEC"] # 0 /\ T["COMPLETE"] # 0
    OBVIOUS
  <1> HIDE DEF T
  <1>5. /\ T["CMD_ARR"] <= T["CMD_PROC"] /\ T["CMD_PROC"] <= T["EXEC"] /\ T["EXEC"] <= T["COMPLETE"]
        /\ T["R2T_SENT"] # 0 => T["CMD_PROC"] <= T["R2T_SENT"]
        /\ T["DATA_PROC"] # 0 => T["DATA_PROC"] <= T["EXEC"]
    BY <1>2, <1>3, <1>4, TgtRanks
  <1>6. /\ T["DATA_ARR"] # 0 /\ T["DATA_PROC"] # 0 => T["DATA_ARR"] <= T["DATA_PROC"]
        /\ T["R2T_SENT"] # 0 /\ T["DATA_PROC"] # 0 => T["R2T_SENT"] <= T["DATA_PROC"]
        /\ T["BE_ISSUE"] # 0 => T["EXEC"] <= T["BE_ISSUE"]
        /\ T["BE_ISSUE"] # 0 /\ T["BE_DONE"] # 0 => T["BE_ISSUE"] <= T["BE_DONE"]
    BY <1>2, <1>3, <1>4, TgtRanks
  <1>7. /\ T["C2H_SENT"] # 0 => T["COMPLETE"] <= T["C2H_SENT"]
        /\ T["RSP_SENT"] # 0 => T["COMPLETE"] <= T["RSP_SENT"]
        /\ T["SEND_DONE"] # 0 => T["COMPLETE"] <= T["SEND_DONE"]
    BY <1>2, <1>3, <1>4, TgtRanks
  <1>8. TgtOrder(T)
    BY <1>5, <1>6, <1>7 DEF TgtOrder
  <1>9. QED  BY <1>8 DEF T

TgtNotNegative(tc) ==
  /\ tc.TGT_RX >= 0 /\ tc.TGT_SUB >= 0 /\ tc.TGT_DATA >= 0 /\ tc.TGT_WAIT >= 0
  /\ tc.TGT_BE >= 0 /\ tc.TGT_CMPL >= 0 /\ tc.residence >= 0

\* No component of a usable TCP target record is negative.
LEMMA TcpTargetInOrder ==
  ASSUME NEW y \in TgtRec, Ordered(y.ts, TgtRank),
         NEW class \in {"read", "write_inline", "write_r2t"}, have_all(y.ts, tgt_req(class))
  PROVE  TgtNotNegative(TargetComps(class, y)) /\ TgtOrder(y.ts)
  <1> DEFINE T == y.ts
             r2 == class = "write_r2t"
             ph == write_data_phase(y)
             sent == IF class = "read" THEN T["C2H_SENT"] ELSE T["RSP_SENT"]
             tc == TargetComps(class, y)
  <1>1. /\ T["CMD_ARR"] \in Nat /\ T["CMD_PROC"] \in Nat /\ T["R2T_SENT"] \in Nat
        /\ T["DATA_ARR"] \in Nat /\ T["DATA_PROC"] \in Nat /\ T["DATA_DONE"] \in Nat
        /\ T["EXEC"] \in Nat /\ T["COMPLETE"] \in Nat /\ sent \in Nat
    BY TgtTimes
  <1>2. Splits(ph, T["DATA_PROC"], T["DATA_DONE"], T["EXEC"])
    BY <1>1, TgtFields, DataPhaseSplits DEF write_data_phase
  <1>3. /\ T["CMD_ARR"] # 0 /\ T["CMD_PROC"] # 0 /\ T["EXEC"] # 0 /\ T["COMPLETE"] # 0
        /\ sent # 0
        /\ r2 => T["R2T_SENT"] # 0 /\ T["DATA_ARR"] # 0 /\ T["DATA_PROC"] # 0
    <2>1. CASE class = "read"
      BY <2>1 DEF have_all, tgt_req
    <2>2. CASE class = "write_inline"
      BY <2>2 DEF have_all, tgt_req
    <2>3. CASE r2
      BY <2>3 DEF have_all, tgt_req
    <2>4. QED  BY <2>1, <2>2, <2>3
  <1>4. TgtOrder(T)
    BY <1>3, TgtPairs
  <1>5. T["COMPLETE"] <= sent
    BY <1>3, <1>4 DEF TgtOrder
  <1>6. /\ T["CMD_ARR"] <= T["CMD_PROC"] /\ T["CMD_PROC"] <= T["EXEC"]
        /\ T["EXEC"] <= T["COMPLETE"]
        /\ r2 => /\ T["CMD_PROC"] <= T["R2T_SENT"] /\ T["DATA_PROC"] <= T["EXEC"]
                 /\ T["DATA_ARR"] <= T["DATA_PROC"]
    BY <1>3, <1>4 DEF TgtOrder
  <1>7. /\ tc.TGT_RX = T["CMD_PROC"] - T["CMD_ARR"] + IF r2 THEN T["DATA_PROC"] - T["DATA_ARR"] ELSE 0
        /\ tc.TGT_SUB = IF r2 THEN (T["R2T_SENT"] - T["CMD_PROC"])
                                   + (T["EXEC"] - IF ph.ok THEN T["DATA_DONE"] ELSE T["DATA_PROC"])
                        ELSE T["EXEC"] - T["CMD_PROC"]
        /\ tc.TGT_DATA = IF r2 THEN ph.busy ELSE 0
        /\ tc.TGT_WAIT = IF r2 THEN ph.wait ELSE 0
        /\ tc.TGT_BE = T["COMPLETE"] - T["EXEC"]
        /\ tc.TGT_CMPL = sent - T["COMPLETE"]
        /\ tc.residence = IF r2 THEN (T["R2T_SENT"] - T["CMD_ARR"]) + (sent - T["DATA_ARR"])
                          ELSE sent - T["CMD_ARR"]
    BY DEF TargetComps
  <1>8. /\ ph.busy \in Nat /\ ph.wait \in Nat
        /\ ph.ok => T["DATA_DONE"] <= T["EXEC"]
    <2> HIDE DEF T, ph
    <2>1. QED  BY <1>2 DEF Splits
  <1> HIDE DEF T, r2, ph, sent, tc
  <1>9. TgtNotNegative(tc)
    <2>1. CASE r2
      <3>1. tc.TGT_SUB >= 0
        BY <1>1, <1>6, <1>7, <1>8, <2>1
      <3>2. QED  BY <1>1, <1>5, <1>6, <1>7, <1>8, <2>1, <3>1 DEF TgtNotNegative
    <2>2. CASE ~ r2
      BY <1>1, <1>5, <1>6, <1>7, <2>2 DEF TgtNotNegative
    <2>3. QED  BY <2>1, <2>2
  <1>10. QED  BY <1>4, <1>9 DEF tc, T

\* Nor of an RDMA target record, nor its network data.
LEMMA RdmaTargetInOrder ==
  ASSUME NEW y \in TgtRec, Ordered(y.ts, TgtRank), rdma_target_complete(y),
         ~ y.write => y.ts["C2H_SENT"] = y.ts["RSP_SENT"]
  PROVE  /\ TgtNotNegative(RdmaTargetComps(y)) /\ TgtOrder(y.ts)
         /\ HasNetData(y) => net_data(y) >= 0
  <1> DEFINE T == y.ts
             sent == rdma_rsp_sent(y)
             tc == RdmaTargetComps(y)
  <1>1. /\ T["CMD_ARR"] \in Nat /\ T["CMD_PROC"] \in Nat /\ T["R2T_SENT"] \in Nat
        /\ T["DATA_PROC"] \in Nat /\ T["EXEC"] \in Nat /\ T["COMPLETE"] \in Nat
        /\ T["RSP_SENT"] \in Nat /\ T["C2H_SENT"] \in Nat /\ T["SEND_DONE"] \in Nat
    BY TgtTimes
  <1>2. /\ T["CMD_ARR"] # 0 /\ T["CMD_PROC"] # 0 /\ T["EXEC"] # 0 /\ T["COMPLETE"] # 0
        /\ y.fetch => T["R2T_SENT"] # 0 /\ T["DATA_PROC"] # 0
    BY DEF rdma_target_complete, have_all, tgt_req_rdma
  <1>3. TgtOrder(T)
    BY <1>2, TgtPairs
  <1>4. /\ T["CMD_ARR"] <= T["CMD_PROC"] /\ T["CMD_PROC"] <= T["EXEC"]
        /\ T["EXEC"] <= T["COMPLETE"]
        /\ y.fetch => /\ T["CMD_PROC"] <= T["R2T_SENT"] /\ T["DATA_PROC"] <= T["EXEC"]
                      /\ T["R2T_SENT"] <= T["DATA_PROC"]
        /\ T["RSP_SENT"] # 0 => T["COMPLETE"] <= T["RSP_SENT"]
        /\ T["SEND_DONE"] # 0 => T["COMPLETE"] <= T["SEND_DONE"]
    BY <1>2, <1>3 DEF TgtOrder
  <1>5. sent \in Nat /\ T["COMPLETE"] <= sent
    <2>1. CASE posting_ok(y)
      BY <1>1, <1>4, <2>1 DEF rdma_rsp_sent, posting_ok
    <2>2. CASE ~ posting_ok(y)
      BY <1>1, <2>2 DEF rdma_rsp_sent
    <2>3. QED  BY <2>1, <2>2
  <1>6. HasNetData(y) => net_data(y) >= 0
    <2>1. CASE ~ y.write /\ rdma_c2h_sent(y) # 0 /\ T["SEND_DONE"] # 0
      <3>1. net_data(y) = T["SEND_DONE"] - rdma_c2h_sent(y)
        BY <2>1 DEF net_data
      <3>2. rdma_c2h_sent(y) \in Nat /\ rdma_c2h_sent(y) <= T["SEND_DONE"]
        <4>1. CASE posting_ok(y)
          <5>1. rdma_c2h_sent(y) = T["C2H_SENT"] /\ T["C2H_SENT"] = T["RSP_SENT"]
            BY <2>1, <4>1 DEF rdma_c2h_sent
          <5>2. ~ (T["RSP_SENT"] > T["SEND_DONE"])
            BY <2>1, <4>1 DEF posting_ok
          <5>3. QED  BY <1>1, <5>1, <5>2
        <4>2. CASE ~ posting_ok(y)
          BY <1>1, <1>4, <2>1, <4>2 DEF rdma_c2h_sent
        <4>3. QED  BY <4>1, <4>2
      <3>3. QED  BY <1>1, <3>1, <3>2
    <2>2. CASE ~ (~ y.write /\ rdma_c2h_sent(y) # 0 /\ T["SEND_DONE"] # 0)
      <3>1. net_data(y) = T["DATA_PROC"] - T["R2T_SENT"]
        BY <2>2 DEF net_data
      <3>2. HasNetData(y) => y.fetch
        BY <2>2 DEF HasNetData
      <3>3. HasNetData(y) => T["R2T_SENT"] <= T["DATA_PROC"]
        BY <1>4, <3>2
      <3> DEFINE a == T["R2T_SENT"]
                 b == T["DATA_PROC"]
      <3>4. a \in Nat /\ b \in Nat /\ net_data(y) = b - a /\ (HasNetData(y) => a <= b)
        BY <1>1, <3>1, <3>3
      <3> HIDE DEF a, b
      <3>5. CASE HasNetData(y)
        BY <3>4, <3>5
      <3>6. QED  BY <3>5
    <2>3. QED  BY <2>1, <2>2
  <1>7. /\ tc.TGT_RX = T["CMD_PROC"] - T["CMD_ARR"]
        /\ tc.TGT_SUB = IF y.fetch THEN (T["R2T_SENT"] - T["CMD_PROC"]) + (T["EXEC"] - T["DATA_PROC"])
                        ELSE T["EXEC"] - T["CMD_PROC"]
        /\ tc.TGT_DATA = 0 /\ tc.TGT_WAIT = 0
        /\ tc.TGT_BE = T["COMPLETE"] - T["EXEC"]
        /\ tc.TGT_CMPL = sent - T["COMPLETE"]
        /\ tc.residence = (sent - T["CMD_ARR"])
                          - IF y.fetch THEN T["DATA_PROC"] - T["R2T_SENT"] ELSE 0
    BY DEF RdmaTargetComps
  <1> HIDE DEF T, sent, tc
  <1>8. TgtNotNegative(tc)
    <2> DEFINE arr == T["CMD_ARR"]
               proc == T["CMD_PROC"]
               r2t == T["R2T_SENT"]
               data == T["DATA_PROC"]
               exec == T["EXEC"]
               compl == T["COMPLETE"]
    <2>1. /\ arr \in Nat /\ proc \in Nat /\ r2t \in Nat /\ data \in Nat /\ exec \in Nat
          /\ compl \in Nat /\ sent \in Nat
      BY <1>1, <1>5
    <2>2. arr <= proc /\ proc <= exec /\ exec <= compl /\ compl <= sent
      BY <1>4, <1>5
    <2>3. /\ tc.TGT_RX = proc - arr /\ tc.TGT_DATA = 0 /\ tc.TGT_WAIT = 0
          /\ tc.TGT_BE = compl - exec /\ tc.TGT_CMPL = sent - compl
      BY <1>7
    <2>4. y.fetch => /\ proc <= r2t /\ r2t <= data /\ data <= exec
                     /\ tc.TGT_SUB = (r2t - proc) + (exec - data)
                     /\ tc.residence = (sent - arr) - (data - r2t)
      BY <1>4, <1>7
    <2>5. ~ y.fetch => tc.TGT_SUB = exec - proc /\ tc.residence = (sent - arr) - 0
      BY <1>7
    <2> HIDE DEF arr, proc, r2t, data, exec, compl
    <2>6. /\ tc.TGT_RX >= 0 /\ tc.TGT_DATA >= 0 /\ tc.TGT_WAIT >= 0
          /\ tc.TGT_BE >= 0 /\ tc.TGT_CMPL >= 0
      BY <2>1, <2>2, <2>3
    <2>7. CASE y.fetch
      <3>1. tc.TGT_SUB >= 0 /\ tc.residence >= 0
        BY <2>1, <2>2, <2>4, <2>7
      <3>2. QED  BY <2>6, <3>1 DEF TgtNotNegative
    <2>8. CASE ~ y.fetch
      <3>1. tc.TGT_SUB >= 0 /\ tc.residence >= 0
        BY <2>1, <2>2, <2>5, <2>8
      <3>2. QED  BY <2>6, <3>1 DEF TgtNotNegative
    <2>9. QED  BY <2>7, <2>8
  <1>9. QED  BY <1>3, <1>6, <1>8 DEF tc, T

\* The host's components, named.
LEMMA HostDomain ==
  ASSUME NEW x
  PROVE  /\ DOMAIN HostComps(x) = {"BLK_SUB", "TR_SUB", "REMOTE", "HOST_RX", "HOST_DATA", "HOST_WAIT",
                                   "TR_CMPL", "BLK_CMPL", "CMPL_IPI", "E2E"}
         /\ HostNotNegative(HostComps(x)) => \A c \in DOMAIN HostComps(x) : HostComps(x)[c] >= 0
  <1>1. DOMAIN HostComps(x) = {"BLK_SUB", "TR_SUB", "REMOTE", "HOST_RX", "HOST_DATA", "HOST_WAIT",
                               "TR_CMPL", "BLK_CMPL", "CMPL_IPI", "E2E"}
    BY DEF HostComps
  <1>2. QED  BY <1>1 DEF HostNotNegative

TgtCompNames == {"TGT_RX", "TGT_SUB", "TGT_DATA", "TGT_WAIT", "TGT_BE", "TGT_CMPL", "residence"}

\* The target's components, named; without a usable record they are all there, zero.
LEMMA TgtDomain ==
  ASSUME NEW x, NEW y
  PROVE  DOMAIN target_comps(x, y) = TgtCompNames
  <1>1. DOMAIN NoTargetComps = TgtCompNames
    BY DEF NoTargetComps, TgtCompNames
  <1>2. DOMAIN RdmaTargetComps(y) = TgtCompNames
    BY DEF RdmaTargetComps, TgtCompNames
  <1>3. DOMAIN TargetComps(io_class(x), y) = TgtCompNames
    BY DEF TargetComps, TgtCompNames
  <1>4. QED  BY <1>1, <1>2, <1>3 DEF target_comps

\* Whatever target record a host record is joined with: none of its components is
\* negative.
LEMMA TargetInOrder ==
  ASSUME NEW x \in HostRec, NEW y \in TgtRec, Ordered(y.ts, TgtRank),
         y.rdma /\ ~ y.write => y.ts["C2H_SENT"] = y.ts["RSP_SENT"]
  PROVE  /\ TgtNotNegative(target_comps(x, y))
         /\ target_usable(x, y) => TgtOrder(y.ts)
         /\ target_usable(x, y) /\ x.rdma /\ HasNetData(y) => net_data(y) >= 0
  <1>1. CASE ~ target_usable(x, y)
    <2>1. target_comps(x, y) = NoTargetComps
      BY <1>1 DEF target_comps
    <2>2. TgtNotNegative(NoTargetComps)
      BY DEF NoTargetComps, TgtNotNegative
    <2>3. QED  BY <1>1, <2>1, <2>2
  <1>2. CASE target_usable(x, y) /\ x.rdma
    <2>1. rdma_target_complete(y) /\ y.rdma
      BY <1>2 DEF target_usable
    <2>2. /\ TgtNotNegative(RdmaTargetComps(y)) /\ TgtOrder(y.ts)
          /\ HasNetData(y) => net_data(y) >= 0
      BY <2>1, RdmaTargetInOrder
    <2>3. target_comps(x, y) = RdmaTargetComps(y)
      BY <1>2 DEF target_comps
    <2>4. QED  BY <2>2, <2>3
  <1>3. CASE target_usable(x, y) /\ ~ x.rdma
    <2>1. have_all(y.ts, tgt_req(io_class(x)))
      BY <1>3 DEF target_usable
    <2>2. io_class(x) \in {"read", "write_inline", "write_r2t"}
      BY DEF io_class
    <2>3. TgtNotNegative(TargetComps(io_class(x), y)) /\ TgtOrder(y.ts)
      BY <2>1, <2>2, TcpTargetInOrder
    <2>4. target_comps(x, y) = TargetComps(io_class(x), y)
      BY <1>3 DEF target_comps
    <2>5. QED  BY <1>3, <2>3, <2>4
  <1>4. QED  BY <1>1, <1>2, <1>3

\* What the report computes from records in order is not negative.
LEMMA NothingNegative ==
  ASSUME FillInv  PROVE NoNegative
  <1> DEFINE b == ntp_breakdown(h, t)
             hc == HostComps(h)
             tc == target_comps(h, t)
             d == backend_details(t)
  <1>1. SUFFICES ASSUME host_complete(h)
                 PROVE  /\ \A c \in DOMAIN b.host : b.host[c] >= 0
                        /\ \A c \in DOMAIN b.tgt : b.tgt[c] >= 0
                        /\ b.joined /\ HasBackend(t) => \A c \in DOMAIN d : d[c] >= 0
                        /\ "NET_DATA" \in b.valid => net_data(t) >= 0
    BY DEF NoNegative
  <1>2. h \in HostRec /\ t \in TgtRec /\ Ordered(h.ts, HostRank) /\ Ordered(t.ts, TgtRank)
    BY DEF FillInv, Filled
  <1>3. t.rdma /\ ~ t.write => t.ts["C2H_SENT"] = t.ts["RSP_SENT"]
    BY DEF FillInv
  <1>4. HostNotNegative(hc)
    BY <1>1, <1>2, HostInOrder
  <1>5. /\ TgtNotNegative(tc)
        /\ target_usable(h, t) => TgtOrder(t.ts)
        /\ target_usable(h, t) /\ h.rdma /\ HasNetData(t) => net_data(t) >= 0
    BY <1>2, <1>3, TargetInOrder
  <1>6. \A c \in DOMAIN b.host : b.host[c] >= 0
    <2>1. b.host = [hc EXCEPT !.REMOTE = IF target_usable(h, t) THEN 0 ELSE hc.REMOTE]
      BY DEF ntp_breakdown
    <2>2. \A c \in DOMAIN hc : hc[c] >= 0
      BY <1>4, HostDomain
    <2>3. "REMOTE" \in DOMAIN hc
      BY HostDomain
    <2> HIDE DEF hc, b
    <2>4. QED  BY <2>1, <2>2, <2>3
  <1>7. \A c \in DOMAIN b.tgt : b.tgt[c] >= 0
    <2>1. b.tgt = tc /\ DOMAIN tc = TgtCompNames
      BY TgtDomain DEF ntp_breakdown
    <2> HIDE DEF tc, b
    <2>2. QED  BY <1>5, <2>1 DEF TgtNotNegative, TgtCompNames
  <1>8. b.joined /\ HasBackend(t) => \A c \in DOMAIN d : d[c] >= 0
    <2>1. SUFFICES ASSUME b.joined, HasBackend(t) PROVE \A c \in DOMAIN d : d[c] >= 0
      OBVIOUS
    <2>2. TgtOrder(t.ts)
      BY <1>5, <2>1 DEF ntp_breakdown
    <2>3. /\ t.ts["EXEC"] <= t.ts["BE_ISSUE"] /\ t.ts["BE_ISSUE"] <= t.ts["BE_DONE"]
          /\ t.ts["BE_DONE"] <= t.ts["COMPLETE"]
      BY <2>1, <2>2 DEF TgtOrder, HasBackend
    <2>4. /\ t.ts["EXEC"] \in Nat /\ t.ts["BE_ISSUE"] \in Nat /\ t.ts["BE_DONE"] \in Nat
          /\ t.ts["COMPLETE"] \in Nat
      BY <1>2, TgtTimes
    <2>5. QED  BY <2>3, <2>4 DEF backend_details
  <1>9. "NET_DATA" \in b.valid => net_data(t) >= 0
    <2>1. "NET_DATA" \in b.valid => target_usable(h, t) /\ h.rdma /\ HasNetData(t)
      BY DEF ntp_breakdown, HostValid
    <2>2. QED  BY <1>5, <2>1
  <1>10. QED  BY <1>6, <1>7, <1>8, <1>9

-----------------------------------------------------------------------------
(* The theorems.                                                            *)

\* ntp_breakdown()'s components add up to the end-to-end latency for every
\* record the two machines can write, with the target record and without.
THEOREM LatencyIsAccounted ==
  ASSUME Span \in Nat, Busies \subseteq Nat
  PROVE  Spec => []ComponentsSum
  <1>1. FillInv => ComponentsSum
    <2>1. SUFFICES ASSUME FillInv PROVE AddsUp(h, t) /\ AddsUp(h, None)
      BY DEF ComponentsSum
    <2>2. h \in HostRec /\ t \in TgtRec
      BY <2>1 DEF FillInv
    <2>3. QED  BY <2>2, BreakdownAddsUp DEF AddsUp
  <1>2. QED  BY <1>1, RecordsFilledInOrder, PTL

\* The five stages of stages(), when all are reported, add up to the end-to-end
\* latency, and backend_details() splits the storage component.
THEOREM StagesAreAccounted ==
  ASSUME Span \in Nat, Busies \subseteq Nat
  PROVE  Spec => []StagesSum
  <1>1. FillInv => StagesSum
    <2>1. SUFFICES ASSUME FillInv PROVE StagesAddUp(h, t) /\ DetailsAddUp(h, t)
      BY DEF StagesSum
    <2>2. h \in HostRec /\ t \in TgtRec
      BY <2>1 DEF FillInv
    <2>3. QED  BY <2>2, StagesTelescope, DetailsTelescope
  <1>2. QED  BY <1>1, RecordsFilledInOrder, PTL

\* ntp_breakdown() gives the same result whatever the two machines' clocks differ by.
THEOREM ClocksAreIrrelevant ==
  ASSUME Span \in Nat, Busies \subseteq Nat, Offsets \subseteq Nat
  PROVE  Spec => []ClocksIrrelevant
  <1>1. FillInv => ClocksIrrelevant
    <2>1. SUFFICES ASSUME FillInv, NEW k \in Offsets PROVE ClocksIndependent(h, t, k)
      BY DEF ClocksIrrelevant
    <2>2. h \in HostRec /\ t \in TgtRec /\ k \in Nat
      BY <2>1 DEF FillInv
    <2>3. QED  BY <2>2, BreakdownIgnoresClocks DEF ClocksIndependent
  <1>2. QED  BY <1>1, RecordsFilledInOrder, PTL

\* Whichever events were missed, the required ones and the fallbacks of
\* host_side(), target_side() and rdma_target_side() never pair two times the
\* wrong way round: no component is negative.
THEOREM ComponentsNotNegative ==
  ASSUME Span \in Nat, Busies \subseteq Nat
  PROVE  Spec => []NoNegative
  BY NothingNegative, RecordsFilledInOrder, PTL
=============================================================================
