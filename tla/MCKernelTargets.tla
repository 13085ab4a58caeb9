-------------------------- MODULE MCKernelTargets ---------------------------
(* The kernel's targets: a machine's nvmet-tcp (TcpTarget.tla) or its      *)
(* nvmet-rdma (RdmaTarget.tla), each with the BPF object that serves it.   *)
EXTENDS MCTcpTarget

CONSTANT
  MoreCmds            \* bound: commands that arrive when no hook is missed

VARIABLES
  transport,          \* whose object is loaded
  posting, leaving, overlaps, unseen     \* RdmaTarget's own

\* RSP_POSTED and RSP_SEND_DONE, and the events the hooks stamp.
ASSUME PartsAssumption == Parts = {"POSTED", "SEND_DONE"}
ASSUME EventsAssumption ==
  {"CMD_ARR", "CMD_PROC", "R2T_QUEUED", "R2T_SENT", "DATA_ARR", "DATA_PROC", "DATA_DONE",
   "EXEC", "BE_ISSUE", "BE_DONE", "COMPLETE", "RSP_QUEUED", "C2H_SENT", "RSP_SENT",
   "SEND_DONE"} \subseteq Events

\* More commands, of one class and with every hook run: three are the fewest in
\* which the counters of one request meet an element taken by another.
Rdma == INSTANCE RdmaTarget WITH Classes <- {"read", "inline", "fetch"}
RdmaMore == INSTANCE RdmaTarget
              WITH Classes <- {"read"}, MaxCmds <- MoreCmds, MaxMiss <- 0

MCInit ==
  \/ transport = "tcp" /\ Init /\ posting = {} /\ unseen = 0
                          /\ leaving = {} /\ overlaps = 0
  \/ transport \in {"rdma", "rdma more"} /\ Rdma!Init /\ known = FALSE

MCNext ==
  \/ transport = "tcp" /\ Next /\ UNCHANGED <<transport, posting, leaving, overlaps, unseen>>
  \/ transport = "rdma" /\ Rdma!Next /\ UNCHANGED <<transport, known>>
  \/ transport = "rdma more" /\ RdmaMore!Next /\ UNCHANGED <<transport, known>>

MCSpec == MCInit /\ [][MCNext]_<<vars, transport, posting, leaving, overlaps, unseen>>

\* Whatever hooks are missed, however late a posting returns, whatever falls out
\* of tqueues and whichever requests share a slot: the counters account for every
\* sampled command, ntp_inflight is the number of open records, each record is in
\* its request's slot and none is output twice, and the queue's counters are off
\* by exactly the insertions into tcounted that failed (target.bpf.h) and, with
\* RDMA, by at most one for every uncount() that another hook came between.
TargetTables ==
  CASE transport = "tcp"       -> TargetTable /\ CountsExact
    [] transport = "rdma"      -> Rdma!TargetTable
    [] transport = "rdma more" -> RdmaMore!TargetTable

\* While armed, what ntp_t_req_init() emits first keeps a later command's events
\* out of a record. An RDMA record can hold an earlier command's late posting and
\* nothing else of another command, while every arrival is seen.
TargetRecordsPure ==
  IF transport = "tcp" THEN ArmedRecordsPure ELSE Rdma!OnlyPostingsStray

\* As long as no hook is missed and the queue stays in tqueues, the record of an
\* executed TCP command has, of its own, every event the stage model needs of its
\* class; an RDMA record not cut short by the reuse of its request was emitted
\* with its own send completion and with some posting's time.
TargetRecordsComplete ==
  IF transport = "tcp" THEN ExecutedComplete ELSE Rdma!EmittedWithBothEnds
=============================================================================
