------------------------------ MODULE MCReport ------------------------------
(* Report on a few records: TCP reads and writes, RDMA and SPDK, some with *)
(* events missing.                                                         *)
EXTENDS Report

\* Times that grow by gap from one event to the next.
Times(events, order, gap, missing) ==
  [e \in events |->
     IF e \in missing \/ ~ \E i \in DOMAIN order : order[i] = e THEN 0
     ELSE 1 + gap * (CHOOSE i \in DOMAIN order : order[i] = e)]

HostOrder == <<"START", "QUEUE_RQ", "CMD_SENT", "R2T_ARR", "R2T_PROC", "DATA_START", "C2H_ARR",
               "C2H_PROC", "C2H_DONE", "RSP_ARR", "RSP_PROC", "NVME_DONE", "BLK_DONE">>
TgtOrder == <<"CMD_ARR", "CMD_PROC", "R2T_SENT", "DATA_ARR", "DATA_PROC", "DATA_DONE", "EXEC",
              "BE_ISSUE", "BE_DONE", "COMPLETE", "C2H_SENT", "RSP_SENT", "SEND_DONE">>

Host(rdma, write, r2t, gap, busy, missing) ==
  [rdma |-> rdma, write |-> write, r2t |-> r2t, busy |-> busy,
   ts |-> Times(HostEvents, HostOrder, gap, missing)]
Tgt(rdma, write, r2t, missing) ==
  [rdma |-> rdma, write |-> write, r2t |-> r2t, fetch |-> FALSE, busy |-> IF r2t THEN 1 ELSE 0,
   ts |-> Times(TgtEvents, TgtOrder, 1, missing)]

Obs(h, t) == [h |-> h, t |-> t, spdk |-> FALSE, bytes |-> 4096, disk |-> <<1, 1>>]

Read(gap) == Host(FALSE, FALSE, FALSE, gap, 1, {})
Spdk == [Read(2) EXCEPT !.ts["START"] = Read(2).ts["QUEUE_RQ"],
                        !.ts["NVME_DONE"] = Read(2).ts["RSP_PROC"],
                        !.ts["BLK_DONE"] = Read(2).ts["RSP_PROC"]]

\* A record of SPDK's initiator: its namespaces are not the kernel's.
BySpdk(o) == [o EXCEPT !.spdk = TRUE, !.disk = <<2, 1>>]

MCObservations ==
  {Obs(Read(2), Tgt(FALSE, FALSE, FALSE, {})),                      \* joined
   Obs(Read(3), None),                                              \* not joined
   Obs(Read(2), Tgt(FALSE, FALSE, FALSE, {"EXEC"})),                \* incomplete target
   Obs(Host(FALSE, FALSE, FALSE, 2, 1, {"CMD_SENT"}), None),        \* incomplete host
   Obs(Host(FALSE, FALSE, FALSE, 2, 1, {"START"}), Tgt(FALSE, FALSE, FALSE, {})),
   Obs(Host(FALSE, FALSE, FALSE, 2, 0, {}), None),                  \* no data phase
   Obs(Host(FALSE, TRUE, TRUE, 2, 0, {}), Tgt(FALSE, TRUE, TRUE, {})),
   Obs(Host(TRUE, TRUE, FALSE, 2, 0, {}), Tgt(TRUE, TRUE, FALSE, {"RSP_SENT"})),
   BySpdk(Obs(Spdk, Tgt(FALSE, FALSE, FALSE, {}))),
   BySpdk(Obs(Spdk, None)),
   BySpdk(Obs([Spdk EXCEPT !.ts["CMD_SENT"] = 0], None)),           \* incomplete host
   [Obs(Read(2), None) EXCEPT !.disk = <<1, 2>>],                   \* another path
   [Obs(Read(2), None) EXCEPT !.bytes = 8192]}

\* Two reads of a device, of which one found its target record.
PartlyJoined ==
  {Obs(Read(2), Tgt(FALSE, FALSE, FALSE, {})), Obs(Read(3), None)}

\* By everything; across devices, where kernel and SPDK records share groups;
\* and all in one group.
AllGroupings == {{"type", "size", "session"}, {"type", "size"}, {}}
FullGrouping == {{"type", "size", "session"}}
=============================================================================
