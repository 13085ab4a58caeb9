------------------------------ MODULE TcpHost -------------------------------
(***************************************************************************)
(* The NVMe/TCP host: the hooks of bpf/nvme_tcp_host.bpf.c and the block   *)
(* layer and nvme-core hooks of bpf/host.bpf.h, driven by nvme-tcp's       *)
(* handling of the requests of one queue (external). The counting of       *)
(* queues is in HostQueues.tla, the times of a read's data in ReadData.tla. *)
(*                                                                         *)
(* Three threads meet: the sender, who holds the queue's send_mutex until  *)
(* the hook on its return has run; io_work, which handles one received skb *)
(* after the other; and the completion in the block layer. The answer to a *)
(* command can be handled before the hook on the return of its sending.    *)
(*                                                                         *)
(* Of two times set by one statement only the later is kept (H_R2T_ARR     *)
(* goes with H_R2T_PROC, H_C2H_ARR with H_C2H_PROC, H_RSP_ARR with         *)
(* H_RSP_PROC, H_START with H_QUEUE_RQ).                                   *)
(***************************************************************************)
EXTENDS RecordTable, Sequences

CONSTANTS
  CidSlots,       \* indices of cid_idx
  CidSlotOf(_),   \* cid_slot_of() of the queue and a cid
  Classes,        \* bound: the kinds of commands that are submitted
  MaxCmds,        \* bound: commands submitted, retries included
  MaxTrouble      \* bound: hooks missed, late or timed out, and retries

VARIABLES
  tab,            \* reqs, ntp_inflight, counters, output (RecordTable)
  cidx,           \* cid_idx
  armed,          \* ntp_armed
  rx,             \* rx_ctx of io_work
  cmdOn,          \* request -> the command using it, 0 when it is free
  classOn,        \* request -> the kind of its command
  todo,           \* request -> the steps nvme-tcp has still to take for it
  sender,         \* the request and command whose sending has not returned
  ncmds,          \* commands submitted
  lost,           \* hooks missed or late, and commands timed out
  retries,        \* commands that were retried
  displaced       \* commands whose entry of cid_idx another command took

kernelVars == <<armed, cmdOn, classOn, ncmds, retries>>
vars == <<tab, cidx, rx, todo, sender, lost, displaced, kernelVars>>

Trouble == lost + retries
IfActive(table) == IF tab.inflight # 0 THEN table ELSE tab

-----------------------------------------------------------------------------
(* nvme-tcp: the steps of a command that a hook sees, in order. A "send"   *)
(* returns later (SendReturns).                                            *)

Finish == <<"nvme_done", "blk_done">>
R2T == <<"r2t", "h2c", "send">>

Path ==
  [read    |-> <<"send", "copy", "copy", "complete">> \o Finish,
   success |-> <<"send", "copy", "complete_success">> \o Finish,
   inline  |-> <<"send", "complete">> \o Finish,
   r2t     |-> <<"send">> \o R2T \o <<"complete">> \o Finish,
   r2t2    |-> <<"send">> \o R2T \o R2T \o <<"complete">> \o Finish]

IsWrite(class) == class \in {"inline", "r2t", "r2t2"}

\* A request's tag with the generation counter nvme folds into it; the counter
\* wraps around, here after two commands.
CidOf(r, c) == [tag |-> r, gen |-> c % 2]

\* rx_ctx: a call is going on; the context is set by this call, or left by one
\* whose exit was missed; the read (and its command) whose data it copies. What
\* an skb holds was sent before the call began.
NoRx == [open |-> FALSE, ctx |-> "none", data |-> NoReq, cmd |-> 0, upto |-> 0]
NoSender == [rq |-> NoReq, cmd |-> 0, late |-> FALSE]

\* The step is next for request r.
Takes(r, step) ==
  /\ todo[r] # <<>> /\ Head(todo[r]) = step
  /\ todo' = [todo EXCEPT ![r] = Tail(@)]

\* The hook runs, or is missed.
Hook(table, context) ==
  \/ tab' = table /\ rx' = context /\ UNCHANGED lost
  \/ Trouble < MaxTrouble /\ lost' = lost + 1 /\ UNCHANGED <<tab, rx>>

-----------------------------------------------------------------------------
(* ntp_h_setup_cmd(): nvme-core builds the command for a free request, or  *)
(* again, with a new cid, for one that is retried after its completion.    *)
setup_cmd(r, class, sampled) ==
  LET cs == CidSlotOf(CidOf(r, ncmds + 1))
  IN
  /\ ncmds < MaxCmds
  /\ \/ cmdOn[r] = 0 /\ UNCHANGED retries
     \/ /\ todo[r] = <<"blk_done">> /\ class = classOn[r]
        /\ Trouble < MaxTrouble /\ retries' = retries + 1
  /\ ncmds' = ncmds + 1
  /\ cmdOn' = [cmdOn EXCEPT ![r] = ncmds'] /\ classOn' = [classOn EXCEPT ![r] = class]
  /\ todo' = [todo EXCEPT ![r] = Path[class]]
  /\ \/ ~ (armed /\ sampled) /\ UNCHANGED <<tab, cidx, displaced>>
     \/ /\ armed /\ sampled
        /\ tab' = Claim(tab, r, ncmds', IF IsWrite(class) THEN {"WRITE"} ELSE {}, {"QUEUE_RQ"})
        /\ displaced' = displaced \cup
             {cmdOn[q] : q \in {q \in Reqs \ {r} : cidx[cs] = [cid |-> CidOf(q, cmdOn[q]), rq |-> q]}}
        /\ cidx' = [cidx EXCEPT ![cs] = [cid |-> CidOf(r, ncmds'), rq |-> r]]
  /\ UNCHANGED <<armed, rx, sender, lost>>

(* A PDU goes out. The sender's function returns later.                    *)
Send(r) ==
  /\ sender = NoSender
  /\ Takes(r, "send")
  /\ sender' = [rq |-> r, cmd |-> cmdOn[r], late |-> FALSE]
  /\ UNCHANGED <<tab, cidx, rx, lost, displaced, kernelVars>>

\* Mutant: once the R2T is processed, a return is taken for the data's.
on_send_done_R2tFirst(T, r, c) ==
  IF ~ HasRec(T, r) THEN T
  ELSE IF RecOf(T, r).ts["R2T_PROC"] # 0 THEN Stamp(T, r, "DATA_SENT", c)
  ELSE StampOnce(T, r, "CMD_SENT", c)

(* on_send_done(): the first return is the command's, a later one ends the *)
(* solicited data. The record is looked up by the request.                 *)
on_send_done(T, r, c) ==
  IF ~ HasRec(T, r) THEN T
  ELSE IF RecOf(T, r).ts["CMD_SENT"] = 0 THEN Stamp(T, r, "CMD_SENT", c)
  ELSE IF RecOf(T, r).ts["R2T_PROC"] # 0 THEN Stamp(T, r, "DATA_SENT", c)
  ELSE T

SendReturns ==
  /\ sender # NoSender
  /\ sender' = NoSender
  /\ Hook(IfActive(on_send_done(tab, sender.rq, sender.cmd)), rx)
  /\ UNCHANGED <<cidx, todo, displaced, kernelVars>>

(* The sender is held up: the answer may complete the command meanwhile.   *)
HoldUp ==
  /\ sender # NoSender /\ ~ sender.late
  /\ Trouble < MaxTrouble /\ lost' = lost + 1
  /\ sender' = [sender EXCEPT !.late = TRUE]
  /\ UNCHANGED <<tab, cidx, rx, todo, displaced, kernelVars>>

(* on_send_h2c(): the header of the solicited data goes out.               *)
on_send_h2c(r) ==
  /\ sender = NoSender
  /\ Takes(r, "h2c")
  /\ Hook(IfActive(IF HasRec(tab, r) /\ RecOf(tab, r).ts["R2T_PROC"] # 0
                   THEN StampOnce(tab, r, "DATA_START", cmdOn[r]) ELSE tab), rx)
  /\ UNCHANGED <<cidx, sender, displaced, kernelVars>>

-----------------------------------------------------------------------------
(* io_work: on_recv_skb() opens the receive context, unless there is       *)
(* nothing to record; on_recv_skb_exit() closes it.                        *)

\* host_data_done(): the data phase of the read the call counts for ends here,
\* so far.
host_data_done(T) ==
  IF rx.data = NoReq THEN T ELSE Stamp(T, rx.data, "C2H_DONE", rx.cmd)

Received == {"copy", "r2t", "complete", "complete_success"}

\* io_work is at a step of request r.
Receives(r, step) == rx.open /\ cmdOn[r] <= rx.upto /\ Takes(r, step)

on_recv_skb ==
  /\ ~ rx.open
  /\ \E r \in Reqs : todo[r] # <<>> /\ Head(todo[r]) \in Received
  /\ \/ /\ tab.inflight # 0
        /\ rx' = [NoRx EXCEPT !.open = TRUE, !.ctx = "call", !.upto = ncmds]
        /\ UNCHANGED lost
     \/ /\ rx' = [rx EXCEPT !.open = TRUE, !.upto = ncmds]
        /\ IF tab.inflight = 0 THEN UNCHANGED lost
           ELSE Trouble < MaxTrouble /\ lost' = lost + 1
  /\ UNCHANGED <<tab, cidx, todo, sender, displaced, kernelVars>>

on_recv_skb_exit ==
  /\ rx.open
  /\ \/ rx' = NoRx /\ tab' = host_data_done(tab) /\ UNCHANGED lost
     \/ /\ rx' = [rx EXCEPT !.open = FALSE, !.upto = 0,
                            !.ctx = IF @ = "none" THEN "none" ELSE "stale"]
        /\ Trouble < MaxTrouble /\ lost' = lost + 1 /\ UNCHANGED tab
  /\ UNCHANGED <<cidx, todo, sender, displaced, kernelVars>>

\* A copy of read q's data: the call counts for one read at a time.
Copied(q, c) ==
  IF rx.data = q THEN Stamp(tab, q, "C2H_LAST_ARR", c)
  ELSE StampOnce(host_data_done(Stamp(tab, q, "C2H_LAST_ARR", c)), q, "C2H_PROC", c)

\* Mutant: the entry of cid_idx is taken without comparing the cid.
on_copy_NoCidCheck(r) ==
  LET cs == cidx[CidSlotOf(CidOf(r, cmdOn[r]))]
      found == tab.inflight # 0 /\ cs.rq # NoReq /\ HasRec(tab, cs.rq)
  IN  /\ Receives(r, "copy")
      /\ IF rx.ctx # "none" /\ found
         THEN Hook(Copied(cs.rq, cmdOn[r]), [rx EXCEPT !.data = cs.rq, !.cmd = cmdOn[r]])
         ELSE Hook(tab, rx)
      /\ UNCHANGED <<cidx, sender, displaced, kernelVars>>

(* on_copy(): a data copy, whose PDU names a cid; cid_idx gives its        *)
(* request. A context that an earlier call left counts when its skb had    *)
(* the address of this one (`same`). The entry of a command that is done   *)
(* has the request 0, and so has the slot of reqs that 0 hashes to while   *)
(* it is free (`free`): a later command with the same cid, not sampled,    *)
(* takes that slot's old record for its own, which the next claim erases,  *)
(* and ends the data of the read the call counted for.                     *)
on_copy(r) ==
  LET cid == CidOf(r, cmdOn[r])
      cs == cidx[CidSlotOf(cid)]
  IN  /\ Receives(r, "copy")
      /\ \E same, free \in BOOLEAN :
           LET known == tab.inflight # 0 /\ (rx.ctx = "call" \/ (rx.ctx = "stale" /\ same))
           IN  \/ /\ known /\ cs.cid = cid /\ cs.rq # NoReq /\ HasRec(tab, cs.rq)
                  /\ Hook(Copied(cs.rq, cmdOn[r]),
                          [rx EXCEPT !.data = cs.rq, !.cmd = IF rx.data = cs.rq THEN @ ELSE cmdOn[r]])
               \/ /\ known /\ cs.cid = cid /\ cs.rq = NoReq /\ free
                  /\ Hook(host_data_done(tab), [rx EXCEPT !.data = NoReq, !.cmd = 0])
               \/ /\ ~ (known /\ cs.cid = cid /\ (IF cs.rq = NoReq THEN free ELSE HasRec(tab, cs.rq)))
                  /\ Hook(tab, rx)
      /\ UNCHANGED <<cidx, sender, displaced, kernelVars>>

(* on_r2t(): the target asks for a write's data.                           *)
on_r2t(r) ==
  /\ Receives(r, "r2t")
  /\ Hook(CASE rx.ctx = "none" \/ ~ HasRec(tab, r) -> tab
            [] HasRec(tab, r) /\ RecOf(tab, r).ts["R2T_PROC"] # 0 -> Flag(tab, r, "MULTI_R2T")
            [] OTHER -> Stamp(Flag(tab, r, "R2T"), r, "R2T_PROC", cmdOn[r]),
          rx)
  /\ UNCHANGED <<cidx, sender, displaced, kernelVars>>

(* on_complete(): the completion was parsed, from a response or from a     *)
(* data PDU with the SUCCESS flag (host_complete()).                       *)
host_complete(T, r) ==
  LET parsed == Stamp(T, r, "RSP_PROC", cmdOn[r])
  IN  IF rx.data = r THEN host_data_done(parsed) ELSE parsed

on_complete(r, success) ==
  LET found == tab.inflight # 0 /\ rx.ctx # "none" /\ HasRec(tab, r)
      done == host_complete(tab, r)
  IN  /\ Receives(r, IF success THEN "complete_success" ELSE "complete")
      /\ sender.rq # r \/ sender.late
      /\ Hook(CASE ~ found -> tab
                [] found /\ success /\ RecOf(done, r).ts["C2H_PROC"] # 0
                     -> Flag(done, r, "DATA_SUCCESS")
                [] OTHER -> done,
              IF found /\ rx.data = r THEN [rx EXCEPT !.data = NoReq, !.cmd = 0] ELSE rx)
      /\ UNCHANGED <<cidx, sender, displaced, kernelVars>>

(* A timeout completes the request outside io_work: the hook runs on       *)
(* another thread, which has no receive context.                           *)
Timeout(r) ==
  /\ todo[r] # <<>> /\ Head(todo[r]) \in Received
  /\ Trouble < MaxTrouble /\ lost' = lost + 1
  /\ todo' = [todo EXCEPT ![r] = Finish]
  /\ UNCHANGED <<tab, cidx, rx, sender, displaced, kernelVars>>

-----------------------------------------------------------------------------
(* Raw tracepoints: these hooks are not missed.                            *)
nvme_done(r) ==
  /\ Takes(r, "nvme_done")
  /\ tab' = IfActive(StampOnce(tab, r, "NVME_DONE", cmdOn[r]))
  /\ UNCHANGED <<cidx, rx, sender, lost, displaced, kernelVars>>

(* ntp_h_blk_done(): the record is emitted, and its cid forgotten.         *)
blk_done(r, room) ==
  LET rec == RecOf(tab, r)
      cs == CidSlotOf(CidOf(r, rec.cmd))
      done == Stamp(tab, r, "BLK_DONE", cmdOn[r])
      flagged == IF "WRITE" \in rec.flags /\ "R2T" \notin rec.flags
                 THEN Flag(done, r, "INLINE_DATA") ELSE done
  IN  /\ Takes(r, "blk_done")
      /\ cmdOn' = [cmdOn EXCEPT ![r] = 0] /\ classOn' = [classOn EXCEPT ![r] = ""]
      /\ IF HasRec(tab, r)
         THEN /\ tab' = Emit(flagged, r, room)
              /\ cidx' = IF cidx[cs].rq = r THEN [cidx EXCEPT ![cs].rq = NoReq] ELSE cidx
         ELSE UNCHANGED <<tab, cidx>>
      /\ UNCHANGED <<armed, rx, sender, ncmds, lost, retries, displaced>>

Arm ==
  /\ ~ armed /\ tab = EmptyTable
  /\ armed' = TRUE
  /\ UNCHANGED <<tab, cidx, rx, cmdOn, classOn, todo, sender, ncmds, lost, retries, displaced>>

Disarm ==
  /\ armed /\ armed' = FALSE
  /\ UNCHANGED <<tab, cidx, rx, cmdOn, classOn, todo, sender, ncmds, lost, retries, displaced>>

(* Nothing is left to do: the bound on commands is reached.                *)
Rest ==
  /\ ncmds = MaxCmds /\ sender = NoSender /\ ~ rx.open /\ \A r \in Reqs : cmdOn[r] = 0
  /\ UNCHANGED vars

-----------------------------------------------------------------------------
Init ==
  /\ tab = EmptyTable /\ cidx = [s \in CidSlots |-> [cid |-> CidOf(NoReq, 0), rq |-> NoReq]]
  /\ armed = FALSE /\ rx = NoRx
  /\ cmdOn = [r \in Reqs |-> 0] /\ classOn = [r \in Reqs |-> ""]
  /\ todo = [r \in Reqs |-> <<>>] /\ sender = NoSender
  /\ ncmds = 0 /\ lost = 0 /\ retries = 0 /\ displaced = {}

Next ==
  \/ \E r \in Reqs :
       \/ \E class \in Classes, sampled \in BOOLEAN : setup_cmd(r, class, sampled)
       \/ Send(r) \/ on_send_h2c(r) \/ on_copy(r) \/ on_r2t(r)
       \/ \E success \in BOOLEAN : on_complete(r, success)
       \/ Timeout(r) \/ nvme_done(r)
       \/ \E room \in BOOLEAN : blk_done(r, room)
  \/ SendReturns \/ HoldUp \/ on_recv_skb \/ on_recv_skb_exit
  \/ Arm \/ Disarm \/ Rest

Spec == Init /\ [][Next]_vars

-----------------------------------------------------------------------------
\* The types of the hooks' maps and of nvme-tcp's requests; ntp_inflight is
\* never negative.
TypeOK ==
  /\ tab.inflight \in Nat
  /\ cidx \in [CidSlots -> [cid : [tag : Reqs \cup {NoReq}, gen : {0, 1}],
                            rq : Reqs \cup {NoReq}]]
  /\ rx \in [open : BOOLEAN, ctx : {"none", "call", "stale"}, data : Reqs \cup {NoReq},
             cmd : 0..MaxCmds, upto : 0..MaxCmds]
  /\ sender \in [rq : Reqs \cup {NoReq}, cmd : 0..MaxCmds, late : BOOLEAN]
  /\ armed \in BOOLEAN /\ ncmds \in 0..MaxCmds
  /\ lost \in Nat /\ retries \in Nat /\ Trouble <= MaxTrouble
  /\ cmdOn \in [Reqs -> 0..MaxCmds] /\ classOn \in [Reqs -> Classes \cup {""}]
  /\ displaced \subseteq 0..MaxCmds
  /\ \A r \in Reqs : cmdOn[r] = 0 <=> todo[r] = <<>>

\* Whatever hooks are missed or late, whichever requests share a slot, and
\* whatever is retried or times out: the counters account for every sampled
\* command, ntp_inflight is the number of open records, each record is in its
\* request's slot and none is output twice (host.bpf.h).
HostTable == TypeOK /\ TableInv(tab)

\* Until a request is retried, a record holds no event of a later command on its
\* struct request, and of an earlier one only what a sender held up past the
\* completion, or a call whose completion hook was missed, left in it. (The
\* arrival that goes with a time is the context's, an earlier call's after a
\* missed exit.)
OnlyLateHooksStray ==
  retries = 0 =>
    /\ NoLaterEvent(tab)
    /\ \A a \in Records(tab) : \A e \in Events \ {"CMD_SENT", "C2H_DONE"} :
         a.ts[e] \in {0, a.cmd}

\* "an array lookup and one compare tell it in a few ns that the command has no
\* record": a command that was not sampled finds no record under its request.
\* (The record of a command knows which one was sampled.)
NoRecordOfAnother ==
  \A r \in Reqs : cmdOn[r] # 0 /\ HasRec(tab, r) => RecOf(tab, r).cmd = cmdOn[r]

\* ntp_breakdown()'s required host events (model.c), by class of I/O.
Required(a) ==
  {"QUEUE_RQ", "CMD_SENT", "RSP_PROC", "BLK_DONE"} \cup
  (CASE "WRITE" \notin a.flags            -> {"C2H_PROC", "C2H_DONE"}
     [] {"WRITE", "R2T"} \subseteq a.flags -> {"R2T_PROC", "DATA_START"}
     [] OTHER                             -> {})

\* As long as no hook is missed or late and nothing is retried, every record
\* that is emitted has, of its own command, every event the stage model needs:
\* the shortcuts for "nothing in flight" skip none of them. Only the data of a
\* read whose cid_idx entry was taken by another command goes unseen.
EmittedComplete ==
  Trouble = 0 =>
    \A a \in tab.out : \A e \in Required(a) :
      a.ts[e] = a.cmd \/ (e \in {"C2H_PROC", "C2H_DONE"} /\ a.cmd \in displaced)
=============================================================================
