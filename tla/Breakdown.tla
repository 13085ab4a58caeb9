----------------------------- MODULE Breakdown ------------------------------
(***************************************************************************)
(* Records as the two machines write them, given to the stage model: each  *)
(* machine takes a command through its events in order, on its own clock,  *)
(* and may miss some of them; then the records are joined and broken down. *)
(***************************************************************************)
EXTENDS StageModel, Sequences

CONSTANTS
  Span,           \* bound: how far a machine's clock moves during a command
  MaxMiss,        \* bound: events missed
  Busies,         \* data processing times a record may hold
  Offsets         \* clock differences between the machines

VARIABLES
  h, t,           \* the two records, as far as they are filled
  hostTodo,       \* host events still to come, in order
  tgtTodo,        \* target events still to come, in order
  clock,          \* of the machine at work
  misses          \* events missed

vars == <<h, t, hostTodo, tgtTodo, clock, misses>>

(* The events of a command (external: nvme-tcp, nvmet-tcp, nvme-rdma and   *)
(* nvmet-rdma), by transport and class. The send completion of an RDMA     *)
(* response can be handled before or after its posting returns.            *)

Backend == <<"EXEC", "BE_ISSUE", "BE_DONE", "COMPLETE">>
Done == <<"NVME_DONE", "BLK_DONE">>

Kinds ==
  [tcp_read  |-> [rdma |-> FALSE, write |-> FALSE, r2t |-> FALSE,
                  host |-> <<"START", "QUEUE_RQ", "CMD_SENT", "C2H_ARR", "C2H_PROC", "C2H_DONE",
                             "RSP_ARR", "RSP_PROC">> \o Done,
                  tgt  |-> <<"CMD_ARR", "CMD_PROC">> \o Backend \o <<"C2H_SENT", "RSP_SENT">>],
   tcp_inline |-> [rdma |-> FALSE, write |-> TRUE, r2t |-> FALSE,
                  host |-> <<"START", "QUEUE_RQ", "CMD_SENT", "RSP_ARR", "RSP_PROC">> \o Done,
                  tgt  |-> <<"CMD_ARR", "CMD_PROC">> \o Backend \o <<"RSP_SENT">>],
   tcp_r2t   |-> [rdma |-> FALSE, write |-> TRUE, r2t |-> TRUE,
                  host |-> <<"START", "QUEUE_RQ", "CMD_SENT", "R2T_ARR", "R2T_PROC", "DATA_START",
                             "RSP_ARR", "RSP_PROC">> \o Done,
                  tgt  |-> <<"CMD_ARR", "CMD_PROC", "R2T_SENT", "DATA_ARR", "DATA_PROC",
                             "DATA_DONE">> \o Backend \o <<"RSP_SENT">>],
   rdma_read |-> [rdma |-> TRUE, write |-> FALSE, r2t |-> FALSE,
                  host |-> <<"START", "QUEUE_RQ", "CMD_SENT", "RSP_ARR", "RSP_PROC">> \o Done,
                  tgt  |-> <<"CMD_ARR", "CMD_PROC">> \o Backend \o <<"POSTED", "SEND_DONE">>],
   rdma_late |-> [rdma |-> TRUE, write |-> FALSE, r2t |-> FALSE,
                  host |-> <<"START", "QUEUE_RQ", "CMD_SENT", "RSP_ARR", "RSP_PROC">> \o Done,
                  tgt  |-> <<"CMD_ARR", "CMD_PROC">> \o Backend \o <<"SEND_DONE", "POSTED">>],
   rdma_fetch |-> [rdma |-> TRUE, write |-> TRUE, r2t |-> FALSE,
                  host |-> <<"START", "QUEUE_RQ", "CMD_SENT", "RSP_ARR", "RSP_PROC">> \o Done,
                  tgt  |-> <<"CMD_ARR", "CMD_PROC", "R2T_SENT", "DATA_PROC">> \o Backend
                           \o <<"RSP_SENT", "SEND_DONE">>]]

Init ==
  \E k \in DOMAIN Kinds :
  \E hb \in IF k = "tcp_read" THEN Busies ELSE {0}, tb \in IF k = "tcp_r2t" THEN Busies ELSE {0} :
    /\ h = [rdma |-> Kinds[k].rdma, write |-> Kinds[k].write, r2t |-> Kinds[k].r2t,
            ts |-> [e \in HostEvents |-> 0], busy |-> hb]
    /\ t = [rdma |-> Kinds[k].rdma, write |-> Kinds[k].write, r2t |-> Kinds[k].r2t,
            fetch |-> k = "rdma_fetch", ts |-> [e \in TgtEvents |-> 0], busy |-> tb]
    /\ hostTodo = Kinds[k].host /\ tgtTodo = Kinds[k].tgt
    /\ clock = 1 /\ misses = 0

\* A read's posting stamps both of the response's times (on_queue_resp_exit()).
Stamps(e) == IF e = "POSTED" THEN {"C2H_SENT", "RSP_SENT"} ELSE {e}

(* The next event of the machine at work happens, seen or missed; then its *)
(* clock moves on.                                                         *)
Seen(ts, events) == [e \in DOMAIN ts |-> IF e \in events THEN clock ELSE ts[e]]

HostEvent ==
  /\ hostTodo # <<>>
  /\ hostTodo' = Tail(hostTodo)
  /\ \/ h' = [h EXCEPT !.ts = Seen(@, {Head(hostTodo)})] /\ UNCHANGED misses
     \/ misses < MaxMiss /\ misses' = misses + 1 /\ UNCHANGED h
  /\ IF hostTodo' = <<>> THEN clock' = 1                 \* over to the target's clock
                         ELSE clock' \in clock..(1 + Span)
  /\ UNCHANGED <<t, tgtTodo>>

TgtEvent ==
  /\ hostTodo = <<>> /\ tgtTodo # <<>>
  /\ tgtTodo' = Tail(tgtTodo)
  /\ \/ t' = [t EXCEPT !.ts = Seen(@, Stamps(Head(tgtTodo)))] /\ UNCHANGED misses
     \/ misses < MaxMiss /\ misses' = misses + 1 /\ UNCHANGED t
  /\ IF tgtTodo' = <<>> THEN clock' = clock ELSE clock' \in clock..(1 + Span)
  /\ UNCHANGED <<h, hostTodo>>

Ended == hostTodo = <<>> /\ tgtTodo = <<>>

Next == HostEvent \/ TgtEvent

Spec == Init /\ [][Next]_vars

-----------------------------------------------------------------------------
\* ntp_breakdown()'s components add up to the end-to-end latency, with the
\* target record and without.
ComponentsSum == Ended => AddsUp(h, t) /\ AddsUp(h, None)

\* So do the stages, when all five are reported, and the details of the back
\* end add up to the storage component.
StagesSum == Ended => StagesAddUp(h, t) /\ DetailsAddUp(h, t)

\* The breakdown does not depend on how far apart the two clocks are.
ClocksIrrelevant == Ended => \A k \in Offsets : ClocksIndependent(h, t, k)

\* Events in their order give no negative component, the computed network share
\* apart, whichever of them were missed: the required events, and the fallbacks
\* for the others, never pair two times the wrong way round.
NoNegative ==
  Ended /\ host_complete(h) =>
    LET b == ntp_breakdown(h, t)
    IN  /\ \A c \in DOMAIN b.host : b.host[c] >= 0
        /\ \A c \in DOMAIN b.tgt : b.tgt[c] >= 0
        /\ b.joined /\ HasBackend(t) => \A c \in DOMAIN backend_details(t) :
                                          backend_details(t)[c] >= 0
        /\ "NET_DATA" \in b.valid => net_data(t) >= 0
=============================================================================
