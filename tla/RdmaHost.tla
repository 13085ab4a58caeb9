------------------------------ MODULE RdmaHost ------------------------------
(***************************************************************************)
(* The NVMe/RDMA host: the hooks of bpf/nvme_rdma_host.bpf.c and of        *)
(* bpf/host.bpf.h, driven by nvme-rdma's handling of the requests of one   *)
(* queue (external).                                                       *)
(*                                                                         *)
(* Nothing tells nvme_setup_cmd's hook that a request is nvme-rdma's, so a *)
(* hook on ->queue_rq() leaves it a note (`pend`). A request completes in  *)
(* the handler of whichever comes last of its send completion, its         *)
(* response and, when the memory must be invalidated locally, the          *)
(* completion of that; the return of its posting can come later still.     *)
(* Retries are in TcpHost.tla (one that follows a failed posting is like   *)
(* any other), the counting of queues in HostQueues.tla.                   *)
(***************************************************************************)
EXTENDS RecordTable

CONSTANTS
  CidSlots,       \* indices of cid_idx
  CidSlotOf(_),   \* cid_slot_of() of the queue and a cid
  MaxCmds,        \* bound: commands submitted
  MaxTrouble      \* bound: hooks missed or late, timeouts, requests turned away
                  \* or not posted

VARIABLES
  tab,            \* reqs, ntp_inflight, counters, output (RecordTable)
  cidx,           \* cid_idx
  armed,          \* ntp_armed
  pend,           \* pend of the submitting CPU: a request, the command noted
  rx,             \* the completion handler that runs, and rx_ctx
  cmdOn,          \* request -> the command using it, 0 when it is free
  stage,          \* request -> how far nvme-rdma is with it
  waits,          \* request -> the completions to come
  posting,        \* request -> a command whose posting has not returned
  ncmds,          \* commands submitted
  trouble,        \* of the kinds MaxTrouble bounds
  displaced       \* commands whose entry of cid_idx another command took

kernelVars == <<cmdOn, stage, waits, posting, ncmds>>
vars == <<tab, cidx, armed, pend, rx, kernelVars, trouble, displaced>>

CidOf(r, c) == [tag |-> r, gen |-> c % 2]
NoPend == [rq |-> NoReq, cmd |-> 0]
NoRx == [rq |-> NoReq, known |-> FALSE]

Active(table) == IF tab.inflight # 0 THEN table ELSE tab

Strain == trouble < MaxTrouble /\ trouble' = trouble + 1

\* The hook runs, or is missed.
Hook(table) == \/ tab' = table /\ UNCHANGED trouble
               \/ Strain /\ UNCHANGED tab

-----------------------------------------------------------------------------
(* host_queue_rq(): a command arrives on a free request, or on one that    *)
(* was turned away.                                                        *)
queue_rq(r) ==
  /\ \/ /\ stage[r] = "free" /\ ncmds < MaxCmds
        /\ ncmds' = ncmds + 1 /\ cmdOn' = [cmdOn EXCEPT ![r] = ncmds']
     \/ stage[r] = "busy" /\ UNCHANGED <<ncmds, cmdOn>>
  /\ stage' = [stage EXCEPT ![r] = "queued"]
  /\ \/ pend' = (IF armed THEN [rq |-> r, cmd |-> cmdOn'[r]] ELSE pend) /\ UNCHANGED trouble
     \/ Strain /\ UNCHANGED pend
  /\ UNCHANGED <<tab, cidx, armed, rx, waits, posting, displaced>>

(* The queue is not live: ->queue_rq() returns before nvme_setup_cmd(), to *)
(* be called again, or fails the command.                                  *)
NotReady(r) ==
  /\ stage[r] = "queued" /\ Strain
  /\ \/ stage' = [stage EXCEPT ![r] = "busy"] /\ UNCHANGED cmdOn
     \/ stage' = [stage EXCEPT ![r] = "free"] /\ cmdOn' = [cmdOn EXCEPT ![r] = 0]
  /\ UNCHANGED <<tab, cidx, armed, pend, rx, waits, posting, ncmds, displaced>>

(* ntp_h_setup_cmd(): the note is this thread's and this request's. The    *)
(* slot is claimed with the time of the note, and the cid entered.         *)
setup_cmd(r, sampled) ==
  LET c == cmdOn[r]
      cs == CidSlotOf(CidOf(r, c))
      noted == pend.rq = r
  IN  /\ stage[r] = "queued"
      /\ stage' = [stage EXCEPT ![r] = "setup"]
      /\ pend' = IF noted THEN NoPend ELSE pend
      /\ \/ ~ (noted /\ sampled) /\ UNCHANGED <<tab, cidx, displaced>>
         \/ /\ noted /\ sampled
            /\ tab' = Stamp(Claim(tab, r, c, {}, {}), r, "QUEUE_RQ", pend.cmd)
            /\ displaced' = displaced \cup
                 {cmdOn[q] : q \in {q \in Reqs \ {r} : cidx[cs] = [cid |-> CidOf(q, cmdOn[q]), rq |-> q]}}
            /\ cidx' = [cidx EXCEPT ![cs] = [cid |-> CidOf(r, c), rq |-> r]]
      /\ UNCHANGED <<armed, rx, cmdOn, waits, posting, ncmds, trouble>>

(* nvme_rdma_post_send() hands the command to the device; it returns later. *)
Post(r, invalidate) ==
  /\ stage[r] = "setup" /\ posting[r] = 0
  /\ stage' = [stage EXCEPT ![r] = "posted"]
  /\ posting' = [posting EXCEPT ![r] = cmdOn[r]]
  /\ waits' = [waits EXCEPT ![r] = {"send", "recv"} \cup (IF invalidate THEN {"inv"} ELSE {})]
  /\ UNCHANGED <<tab, cidx, armed, pend, rx, cmdOn, ncmds, trouble, displaced>>

(* nvme_rdma_post_send() fails: on_posted() does nothing, and nvme-rdma    *)
(* completes the command as a path error, or the block layer ends it.      *)
PostFails(r) ==
  /\ stage[r] = "setup" /\ Strain
  /\ \E s \in {"completed", "ended"} : stage' = [stage EXCEPT ![r] = s]
  /\ UNCHANGED <<tab, cidx, armed, pend, rx, cmdOn, waits, posting, ncmds, displaced>>

(* on_posted(): the record is looked up by the request.                    *)
on_posted(r) ==
  /\ posting[r] # 0
  /\ posting' = [posting EXCEPT ![r] = 0]
  /\ Hook(Active(StampOnce(tab, r, "CMD_SENT", posting[r])))
  /\ UNCHANGED <<cidx, armed, pend, rx, cmdOn, stage, waits, ncmds, displaced>>

-----------------------------------------------------------------------------
(* A completion handler: the hook on its entry stamps the record, found by *)
(* the request (on_send_done()) or by the cid (on_recv_done()), and sets   *)
(* the receive context (host_rx_enter()). The entry of a command that is   *)
(* done has the request 0: host_rec(0) is at most a free slot, and what is *)
(* stamped there the next claim erases.                                    *)
Stamped(r, which) ==
  LET cid == CidOf(r, cmdOn[r])
      cs == cidx[CidSlotOf(cid)]
  IN  CASE which = "send" -> StampOnce(tab, r, "SEND_DONE", cmdOn[r])
        [] which = "recv" -> IF cs.cid = cid /\ cs.rq # NoReq
                             THEN StampOnce(tab, cs.rq, "RSP_ARR", cmdOn[r]) ELSE tab
        [] OTHER          -> tab

Handle(r, which) ==
  /\ rx.rq = NoReq
  /\ stage[r] = "posted" /\ which \in waits[r]
  /\ which = "inv" => "recv" \notin waits[r]
  /\ waits' = [waits EXCEPT ![r] = @ \ {which}]
  /\ \/ /\ tab' = Active(Stamped(r, which))
        /\ rx' = [rq |-> r, known |-> rx.known \/ tab.inflight # 0]
        /\ UNCHANGED trouble
     \/ Strain /\ rx' = [rx EXCEPT !.rq = r] /\ UNCHANGED tab
  /\ UNCHANGED <<cidx, armed, pend, cmdOn, stage, posting, ncmds, displaced>>

(* host_complete(): the last of them completes the request.                *)
host_complete(r) ==
  /\ rx.rq = r /\ stage[r] = "posted" /\ waits[r] = {}
  /\ stage' = [stage EXCEPT ![r] = "completed"]
  /\ IF posting[r] = cmdOn[r]                       \* its return is late
     THEN /\ Strain
          /\ tab' = IF rx.known THEN Active(Stamp(tab, r, "RSP_PROC", cmdOn[r])) ELSE tab
     ELSE Hook(IF rx.known THEN Active(Stamp(tab, r, "RSP_PROC", cmdOn[r])) ELSE tab)
  /\ UNCHANGED <<cidx, armed, pend, rx, cmdOn, waits, posting, ncmds, displaced>>

(* host_rx_exit().                                                         *)
HandlerReturns ==
  /\ rx.rq # NoReq
  /\ stage[rx.rq] = "posted" => waits[rx.rq] # {}
  /\ \/ rx' = NoRx /\ UNCHANGED trouble
     \/ Strain /\ rx' = [rx EXCEPT !.rq = NoReq]
  /\ UNCHANGED <<tab, cidx, armed, pend, kernelVars, displaced>>

(* A timeout, or the teardown of the queue, completes the request on       *)
(* another thread, which has no receive context.                           *)
Timeout(r) ==
  /\ stage[r] = "posted" /\ rx.rq # r /\ Strain
  /\ stage' = [stage EXCEPT ![r] = "completed"]
  /\ waits' = [waits EXCEPT ![r] = {}]
  /\ UNCHANGED <<tab, cidx, armed, pend, rx, cmdOn, posting, ncmds, displaced>>

(* Raw tracepoints: these hooks are not missed.                            *)
nvme_done(r) ==
  /\ stage[r] = "completed"
  /\ stage' = [stage EXCEPT ![r] = "ended"]
  /\ tab' = Active(StampOnce(tab, r, "NVME_DONE", cmdOn[r]))
  /\ UNCHANGED <<cidx, armed, pend, rx, cmdOn, waits, posting, ncmds, trouble, displaced>>

(* ntp_h_blk_done(): the record is emitted, and its cid forgotten.         *)
blk_done(r, room) ==
  LET cs == CidSlotOf(CidOf(r, RecOf(tab, r).cmd))
  IN  /\ stage[r] = "ended"
      /\ stage' = [stage EXCEPT ![r] = "free"]
      /\ cmdOn' = [cmdOn EXCEPT ![r] = 0]
      /\ tab' = Emit(Stamp(tab, r, "BLK_DONE", cmdOn[r]), r, room)
      /\ cidx' = IF HasRec(tab, r) /\ cidx[cs].rq = r
                 THEN [cidx EXCEPT ![cs].rq = NoReq] ELSE cidx
      /\ UNCHANGED <<armed, pend, rx, waits, posting, ncmds, trouble, displaced>>

Arm ==
  /\ ~ armed /\ tab = EmptyTable
  /\ armed' = TRUE
  /\ UNCHANGED <<tab, cidx, pend, rx, kernelVars, trouble, displaced>>

Disarm ==
  /\ armed /\ armed' = FALSE
  /\ UNCHANGED <<tab, cidx, pend, rx, kernelVars, trouble, displaced>>

(* Nothing is left to do: the bound on commands is reached.                *)
Rest ==
  /\ ncmds = MaxCmds /\ \A r \in Reqs : stage[r] = "free" /\ posting[r] = 0
  /\ UNCHANGED vars

-----------------------------------------------------------------------------
Init ==
  /\ tab = EmptyTable /\ cidx = [s \in CidSlots |-> [cid |-> CidOf(NoReq, 0), rq |-> NoReq]]
  /\ armed = FALSE /\ pend = NoPend /\ rx = NoRx
  /\ cmdOn = [r \in Reqs |-> 0] /\ stage = [r \in Reqs |-> "free"]
  /\ waits = [r \in Reqs |-> {}] /\ posting = [r \in Reqs |-> 0]
  /\ ncmds = 0 /\ trouble = 0 /\ displaced = {}

Next ==
  \/ \E r \in Reqs :
       \/ queue_rq(r) \/ NotReady(r) \/ PostFails(r) \/ on_posted(r) \/ host_complete(r)
       \/ Timeout(r) \/ nvme_done(r)
       \/ \E b \in BOOLEAN : setup_cmd(r, b) \/ Post(r, b) \/ blk_done(r, b)
       \/ \E which \in {"send", "recv", "inv"} : Handle(r, which)
  \/ HandlerReturns \/ Arm \/ Disarm \/ Rest

Spec == Init /\ [][Next]_vars

-----------------------------------------------------------------------------
\* The types of the hooks' maps and of nvme-rdma's requests.
TypeOK ==
  /\ tab.inflight \in Nat /\ armed \in BOOLEAN
  /\ cidx \in [CidSlots -> [cid : [tag : Reqs \cup {NoReq}, gen : {0, 1}],
                            rq : Reqs \cup {NoReq}]]
  /\ pend \in [rq : Reqs \cup {NoReq}, cmd : 0..MaxCmds]
  /\ rx \in [rq : Reqs \cup {NoReq}, known : BOOLEAN]
  /\ cmdOn \in [Reqs -> 0..MaxCmds] /\ posting \in [Reqs -> 0..MaxCmds]
  /\ stage \in [Reqs -> {"free", "queued", "busy", "setup", "posted", "completed", "ended"}]
  /\ waits \in [Reqs -> SUBSET {"send", "recv", "inv"}]
  /\ ncmds \in 0..MaxCmds /\ trouble \in 0..MaxTrouble /\ displaced \subseteq 0..MaxCmds

\* The host's table and counters hold what they promise, and no command's record
\* is output twice, whatever hooks are missed or late, whichever requests share
\* a slot and whichever are turned away or time out (host.bpf.h).
HostTable == TypeOK /\ TableInv(tab)

\* The events of a record are its own command's, except that the return of a
\* posting held up past the completion, and a note that a command turned away
\* left in `pend`, can put an earlier command's H_CMD_SENT or H_QUEUE_RQ on the
\* same struct request into it. A response's time, though it is found by a cid
\* that wraps around, is never another command's.
OnlyNotesAndPostingsStray ==
  /\ NoLaterEvent(tab)
  /\ \A a \in Records(tab) : \A e \in Events \ {"CMD_SENT", "QUEUE_RQ"} : a.ts[e] \in {0, a.cmd}

\* model.c's host_req_rdma.
host_req_rdma == {"QUEUE_RQ", "CMD_SENT", "RSP_ARR", "RSP_PROC", "BLK_DONE"}

\* As long as no hook is missed or late, every record that is emitted has, of its
\* own command, every event the stage model needs, in whichever order the send
\* completion, the response and the invalidation are handled; only the response
\* of a command whose cid_idx entry was taken by another goes unseen.
EmittedComplete ==
  trouble = 0 =>
    \A a \in tab.out : \A e \in host_req_rdma :
      a.ts[e] = a.cmd \/ (e = "RSP_ARR" /\ a.cmd \in displaced)
=============================================================================
