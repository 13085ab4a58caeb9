--------------------------- MODULE MCKernelHosts ----------------------------
(* The kernel's hosts: nvme-tcp (TcpHost.tla) or nvme-rdma (RdmaHost.tla), *)
(* each with the BPF object that serves it, and with the requests and cids *)
(* of a queue of its own. Of the three TCP requests two share a slot of    *)
(* reqs; the RDMA requests have a slot each. A queue either has a few      *)
(* commands of every class, and hooks missed, late or timed out, or, when  *)
(* nothing goes wrong, more of them, so that cids come again: reads only   *)
(* for TCP.                                                                *)
EXTENDS RecordTable, TLC

CONSTANTS
  TcpReqs, RdmaReqs,                       \* the requests of the two queues
  CidSlots,                                \* indices of cid_idx
  OneCidSlot(_), GenCidSlot(_),            \* cid_slot_of() of a queue
  Classes, FewCmds, MoreCmds,              \* the bounds of TcpHost and RdmaHost
  TcpTrouble, RdmaTrouble,
  Sharing                                  \* the requests that share a slot

ASSUME QueuesAssumption == TcpReqs \subseteq Reqs /\ RdmaReqs \subseteq Reqs
ASSUME CidSlotsAssumption ==
  \A r \in Reqs, g \in {0, 1} :
    /\ OneCidSlot([tag |-> r, gen |-> g]) \in CidSlots
    /\ GenCidSlot([tag |-> r, gen |-> g]) \in CidSlots
ASSUME ClassesAssumption == Classes \subseteq {"read", "success", "inline", "r2t", "r2t2"}
ASSUME BoundsAssumption ==
  FewCmds \in Nat /\ MoreCmds \in Nat /\ TcpTrouble \in Nat /\ RdmaTrouble \in Nat
ASSUME EventsAssumption ==
  {"QUEUE_RQ", "CMD_SENT", "R2T_PROC", "DATA_START", "DATA_SENT", "SEND_DONE", "C2H_PROC",
   "C2H_LAST_ARR", "C2H_DONE", "RSP_ARR", "RSP_PROC", "NVME_DONE", "BLK_DONE"} \subseteq Events

VARIABLES
  transport,                                            \* whose object is loaded, and
                                                        \* how many commands it sees
  tab, cidx, armed, rx, cmdOn, ncmds, displaced,        \* of both
  classOn, todo, sender, lost, retries,                 \* TcpHost's own
  pend, stage, waits, posting, trouble                  \* RdmaHost's own

MCReqs == TcpReqs \cup RdmaReqs
MCSlotOf(r) == IF r \in Sharing THEN 0 ELSE r
MCSlots == {MCSlotOf(r) : r \in MCReqs}
MCOneCidSlot(cid) == 0
MCGenCidSlot(cid) == cid.gen
MCEvents == {"QUEUE_RQ", "CMD_SENT", "R2T_PROC", "DATA_START", "DATA_SENT", "SEND_DONE",
             "C2H_PROC", "C2H_LAST_ARR", "C2H_DONE", "RSP_ARR", "RSP_PROC", "NVME_DONE",
             "BLK_DONE"}

Tcp == INSTANCE TcpHost WITH
         Reqs <- TcpReqs, CidSlotOf <- OneCidSlot, MaxCmds <- FewCmds, MaxTrouble <- TcpTrouble
TcpReads == INSTANCE TcpHost WITH
         Reqs <- TcpReqs, CidSlotOf <- GenCidSlot, Classes <- {"read"},
         MaxCmds <- MoreCmds, MaxTrouble <- 0
Rdma == INSTANCE RdmaHost WITH
         Reqs <- RdmaReqs, CidSlotOf <- GenCidSlot, MaxCmds <- FewCmds, MaxTrouble <- RdmaTrouble
RdmaMore == INSTANCE RdmaHost WITH
         Reqs <- RdmaReqs, CidSlotOf <- GenCidSlot, MaxCmds <- MoreCmds, MaxTrouble <- 0

\* No request is special, but for sharing a slot: the two that share one can be
\* exchanged, and, as only one transport runs, the two of RDMA with them.
Exchanges ==
  {p \in Permutations(Sharing \cup RdmaReqs) :
     /\ \A r \in Sharing : p[r] \in Sharing
     /\ (\E r \in DOMAIN p : p[r] = r) => \A r \in DOMAIN p : p[r] = r}

both == <<tab, cidx, armed, rx, cmdOn, ncmds, displaced>>
tcpOnly == <<classOn, todo, sender, lost, retries>>
rdmaOnly == <<pend, stage, waits, posting, trouble>>

MCInit ==
  \/ /\ transport \in {"tcp", "tcp reads"} /\ Tcp!Init
     /\ pend = 0 /\ stage = 0 /\ waits = 0 /\ posting = 0 /\ trouble = 0
  \/ /\ transport \in {"rdma", "rdma more"} /\ Rdma!Init
     /\ classOn = 0 /\ todo = 0 /\ sender = 0 /\ lost = 0 /\ retries = 0

MCNext ==
  \/ transport = "tcp" /\ Tcp!Next /\ UNCHANGED <<transport, rdmaOnly>>
  \/ transport = "tcp reads" /\ TcpReads!Next /\ UNCHANGED <<transport, rdmaOnly>>
  \/ transport = "rdma" /\ Rdma!Next /\ UNCHANGED <<transport, tcpOnly>>
  \/ transport = "rdma more" /\ RdmaMore!Next /\ UNCHANGED <<transport, tcpOnly>>

MCSpec == MCInit /\ [][MCNext]_<<transport, both, tcpOnly, rdmaOnly>>

\* Whatever hooks are missed or late, whichever requests share a slot, and
\* whatever is retried, turned away or times out: the counters account for every
\* sampled command, ntp_inflight is the number of open records, each record is in
\* its request's slot and none is output twice (host.bpf.h).
HostTables ==
  CASE transport = "tcp"       -> Tcp!HostTable
    [] transport = "tcp reads" -> TcpReads!HostTable
    [] transport = "rdma"      -> Rdma!HostTable
    [] transport = "rdma more" -> RdmaMore!HostTable

\* A record's events are its own command's, except for what a sender or a posting
\* held up past the completion, a missed completion hook or an RDMA command that
\* was turned away left in it of an earlier command on the same struct request;
\* no response is taken for another command's, though its cid wraps around.
HostRecordsPure ==
  CASE transport = "tcp"       -> Tcp!OnlyLateHooksStray
    [] transport = "tcp reads" -> TcpReads!OnlyLateHooksStray
    [] transport = "rdma"      -> Rdma!OnlyNotesAndPostingsStray
    [] transport = "rdma more" -> RdmaMore!OnlyNotesAndPostingsStray

\* As long as no hook is missed or late and nothing is retried, every record that
\* is emitted has, of its own command, every event the stage model needs: neither
\* the shortcuts for "nothing in flight" nor the order in which a command's
\* completions are handled loses one. Only what is found by a cid is missed by a
\* command whose entry of cid_idx another one took.
HostRecordsComplete ==
  CASE transport = "tcp"       -> Tcp!EmittedComplete
    [] transport = "tcp reads" -> TcpReads!EmittedComplete
    [] transport = "rdma"      -> Rdma!EmittedComplete
    [] transport = "rdma more" -> RdmaMore!EmittedComplete
=============================================================================
