----------------------------- MODULE RdmaTarget -----------------------------
(***************************************************************************)
(* The NVMe/RDMA target: the hooks of bpf/nvme_rdma_target.bpf.c and the   *)
(* nvmet-core, back end and block layer hooks of bpf/target.bpf.h, driven  *)
(* by nvmet-rdma's handling of commands (external).                        *)
(*                                                                         *)
(* nvmet_rdma_queue_response() posts the response and returns; the send    *)
(* completion frees the nvmet_rdma_rsp, and with it the nvmet_req, and can *)
(* be handled on another CPU before that return. So the return's hook can  *)
(* run when the request already carries its next command. Its uncount()    *)
(* reads the element of the request and then writes it, adjusts the        *)
(* counters and deletes it, without a lock: two steps here, between which  *)
(* the next command can be counted.                                        *)
(***************************************************************************)
EXTENDS TargetRecords, Sequences

CONSTANTS
  TrackQueues,    \* filter.track_queues
  Classes,        \* the classes of I/O that occur: a subset of DOMAIN Path
  MaxCmds,        \* bound: commands that arrive
  MaxMiss         \* bound: hooks missed

VARIABLES
  tab,            \* treqs, ntp_inflight, counters, output (RecordTable)
  occ,            \* the queue's tqstat and tcounted
  armed,          \* ntp_armed
  cmdOn,          \* request -> the command using it, 0 when it is free
  todo,           \* request -> the steps nvmet-rdma has still to take for it
  posting,        \* <<request, command>> whose queue_response() has not returned
  leaving,        \* uncount()s of those that returned: the request, its command, the
                  \* flags read, and whether the element was deleted since
  overlaps,       \* uncount()s during which another hook wrote or deleted the element
  ncmds,          \* commands that arrived
  misses,         \* hooks missed
  unseen          \* arrivals without the receive handler's context

vars == <<tab, occ, armed, cmdOn, todo, posting, leaving, overlaps, ncmds, misses, unseen>>
counting == <<leaving, overlaps>>

Idle == tab.inflight = 0 /\ ~ TrackQueues     \* ntp_idle()

-----------------------------------------------------------------------------
(* nvmet-rdma: the steps of a command that a hook sees, in order. The      *)
(* return of queue_response() is not among them: see on_queue_resp_exit.   *)

Backend == <<"exec", "be_issue", "be_done", "complete", "queue_resp", "send_done">>

Path == [read   |-> Backend,
         inline |-> <<"execute_inline">> \o Backend,
         fetch  |-> <<"execute_fetch", "read_done">> \o Backend]

\* The step is next for request r; its hook runs, or is missed.
Hook(r, step, table, occupancy) ==
  /\ todo[r] # <<>> /\ Head(todo[r]) = step
  /\ todo' = [todo EXCEPT ![r] = Tail(@)]
  /\ cmdOn' = IF Tail(todo[r]) = <<>> THEN [cmdOn EXCEPT ![r] = 0] ELSE cmdOn
  /\ \/ tab' = table /\ occ' = occupancy /\ UNCHANGED misses
     \/ misses < MaxMiss /\ misses' = misses + 1 /\ UNCHANGED <<tab, occ>>
  /\ UNCHANGED <<armed, counting, ncmds, unseen>>

IfActive(table) == IF tab.inflight # 0 THEN table ELSE tab
IfTracked(occupancy) == IF TrackQueues THEN occupancy ELSE occ

\* The element of request r was deleted: whoever read it has a pointer to a free
\* one, which the next insertion may take.
Deleted(us, r) == {[u EXCEPT !.gone = @ \/ u.req = r] : u \in us}

-----------------------------------------------------------------------------
(* The counting part of ntp_t_req_init(). Its uncount() can read the        *)
(* element that a late one has read too, and write after it.                *)
Count(r) ==
  \/ ~ TrackQueues /\ UNCHANGED <<occ, counting>>
  \/ /\ TrackQueues
     /\ occ' = count_arrival(occ, r) /\ leaving' = Deleted(leaving, r)
     /\ UNCHANGED overlaps
  \/ \E u \in leaving :
       /\ u.req = r /\ ~ u.gone
       /\ occ' = Arrives(Drop(Forget(Drop(occ, u.flags), r), occ.flags[r]), r)
       /\ leaving' = Deleted(leaving \ {u}, r)
       /\ overlaps' = overlaps + 1

(* ntp_t_req_init(): a command arrives on a free request. It is taken for  *)
(* this transport's when on_recv_done() ran for it (tgt_is_ours()).        *)
req_init(r, class, sampled) ==
  /\ cmdOn[r] = 0 /\ ncmds < MaxCmds
  /\ ncmds' = ncmds + 1
  /\ cmdOn' = [cmdOn EXCEPT ![r] = ncmds']
  /\ todo' = [todo EXCEPT ![r] = Path[class]]
  /\ \/ ~ armed /\ UNCHANGED <<tab, occ, counting, misses, unseen>>
     \/ /\ armed
        /\ \E room \in BOOLEAN :
             tab' = ReqInit(tab, r, ncmds', IF class = "read" THEN {} ELSE {"WRITE"},
                            sampled, room)
        /\ Count(r)
        /\ UNCHANGED <<misses, unseen>>
     \/ /\ armed /\ misses < MaxMiss
        /\ misses' = misses + 1 /\ unseen' = unseen + 1
        /\ UNCHANGED <<tab, occ, counting>>
  /\ UNCHANGED <<armed, posting>>

(* on_execute(): a write whose data is in the capsule, or is fetched.      *)
FlagWrite(r, f) ==
  IF HasRec(tab, r) /\ "WRITE" \in RecOf(tab, r).flags THEN Flag(tab, r, f) ELSE tab

on_execute_inline(r) ==
  Hook(r, "execute_inline", IfActive(FlagWrite(r, "INLINE_DATA")), occ) /\ UNCHANGED posting

on_execute_fetch(r) ==
  /\ Hook(r, "execute_fetch",
          IfActive(IF FlagWrite(r, "RDMA_READ") = tab THEN tab
                   ELSE StampOnce(FlagWrite(r, "RDMA_READ"), r, "R2T_SENT", cmdOn[r])),
          occ)
  /\ UNCHANGED posting

on_read_done(r) ==
  /\ Hook(r, "read_done",
          IfActive(IF HasRec(tab, r) /\ RecOf(tab, r).ts["DATA_PROC"] = 0
                   THEN Stamp(Stamp(tab, r, "DATA_ARR", cmdOn[r]), r, "DATA_PROC", cmdOn[r])
                   ELSE tab),
          occ)
  /\ UNCHANGED posting

on_exec(r) ==
  Hook(r, "exec", IfActive(StampOnce(tab, r, "EXEC", cmdOn[r])), occ) /\ UNCHANGED posting

be_issue(r) ==
  Hook(r, "be_issue", IfActive(StampOnce(tab, r, "BE_ISSUE", cmdOn[r])), occ)
    /\ UNCHANGED posting

be_done(r) ==
  Hook(r, "be_done", IfActive(Stamp(tab, r, "BE_DONE", cmdOn[r])), occ) /\ UNCHANGED posting

complete(r) ==
  Hook(r, "complete", IfActive(StampOnce(tab, r, "COMPLETE", cmdOn[r])), occ)
    /\ UNCHANGED posting

on_queue_resp(r) ==
  /\ Hook(r, "queue_resp",
          IF Idle THEN tab ELSE StampOnce(tab, r, "RSP_QUEUED", cmdOn[r]),
          IfTracked(count_resp_queued(occ, r)))
  /\ posting' = posting \cup {<<r, cmdOn[r]>>}

-----------------------------------------------------------------------------
(* rsp_part_done(): one end of the response was seen; emit once both were. *)
rsp_part_done(T, r, part, room) ==
  IF ~ HasRec(T, r) THEN T
  ELSE LET P == [T EXCEPT !.slot[SlotOf(r)].parts = @ \cup {part}]
       IN  IF P.slot[SlotOf(r)].parts = Parts THEN Emit(P, r, room) ELSE P

on_send_done(r) ==
  /\ \E room \in BOOLEAN :
       Hook(r, "send_done",
            IfActive(rsp_part_done(StampOnce(tab, r, "SEND_DONE", cmdOn[r]),
                                   r, "SEND_DONE", room)),
            occ)
  /\ UNCHANGED posting

\* What uncount() has read of request r's element, if it has one.
Reads(r, c) ==
  {[req |-> k, cmd |-> c, flags |-> occ.flags[k], gone |-> FALSE] : k \in Keys(occ) \cap {r}}

(* on_queue_resp_exit(): queue_response() of command c returns. The hook   *)
(* looks the record up by the request, whichever command it has now.       *)
on_queue_resp_exit(r, c) ==
  LET posted == Stamp(IF HasRec(tab, r) /\ "WRITE" \notin RecOf(tab, r).flags
                      THEN Stamp(tab, r, "C2H_SENT", c) ELSE tab, r, "RSP_SENT", c)
  IN  /\ <<r, c>> \in posting
      /\ posting' = posting \ {<<r, c>>}
      /\ \/ /\ \E room \in BOOLEAN :
                 tab' = IF Idle THEN tab ELSE rsp_part_done(posted, r, "POSTED", room)
            /\ leaving' = leaving \cup Reads(r, c)
            /\ UNCHANGED misses
         \/ misses < MaxMiss /\ misses' = misses + 1 /\ UNCHANGED <<tab, leaving>>
      /\ UNCHANGED <<occ, overlaps, armed, cmdOn, todo, ncmds, unseen>>

(* The rest of its uncount(): the flags are cleared where the element was,  *)
(* which another request may have now, and the key's element is deleted,    *)
(* the next command's if it has been counted.                               *)
uncount_rest(u) ==
  /\ u \in leaving
  /\ \E e \in IF u.gone THEN Keys(occ) \cup {NoReq} ELSE {u.req} :
       occ' = Forget(Drop(Cleared(occ, e), u.flags), u.req)
  /\ leaving' = Deleted(leaving \ {u}, u.req)
  /\ overlaps' = IF ~ u.gone /\ occ.flags[u.req] = u.flags THEN overlaps ELSE overlaps + 1
  /\ UNCHANGED <<tab, armed, cmdOn, todo, posting, ncmds, misses, unseen>>

-----------------------------------------------------------------------------
(* ntp_loader_open() and ntp_loader_disarm().                              *)
Arm ==
  /\ ~ armed /\ ncmds < MaxCmds /\ tab = EmptyTable /\ occ = NoOccupancy /\ leaving = {}
  /\ armed' = TRUE
  /\ UNCHANGED <<tab, occ, cmdOn, todo, posting, counting, ncmds, misses, unseen>>

Disarm ==
  /\ armed /\ armed' = FALSE
  /\ UNCHANGED <<tab, occ, cmdOn, todo, posting, counting, ncmds, misses, unseen>>

-----------------------------------------------------------------------------
(* Nothing is left to do: the bound on commands is reached.                *)
Rest ==
  /\ ncmds = MaxCmds /\ posting = {} /\ leaving = {} /\ \A r \in Reqs : cmdOn[r] = 0
  /\ UNCHANGED vars

Init ==
  /\ tab = EmptyTable /\ occ = NoOccupancy /\ armed = FALSE
  /\ posting = {} /\ leaving = {} /\ overlaps = 0
  /\ cmdOn = [r \in Reqs |-> 0] /\ todo = [r \in Reqs |-> <<>>]
  /\ ncmds = 0 /\ misses = 0 /\ unseen = 0

Step(r) ==
  \/ on_execute_inline(r) \/ on_execute_fetch(r) \/ on_read_done(r)
  \/ on_exec(r) \/ be_issue(r) \/ be_done(r) \/ complete(r)
  \/ on_queue_resp(r) \/ on_send_done(r)

Next ==
  \/ \E r \in Reqs : \/ \E class \in Classes, sampled \in BOOLEAN : req_init(r, class, sampled)
                     \/ Step(r)
  \/ \E p \in posting : on_queue_resp_exit(p[1], p[2])
  \/ \E u \in leaving : uncount_rest(u)
  \/ Arm
  \/ Disarm
  \/ Rest

Spec == Init /\ [][Next]_vars
-----------------------------------------------------------------------------
\* The types of the hooks' maps and of nvmet-rdma's requests; ntp_inflight is
\* never negative.
TypeOK ==
  /\ tab \in Table /\ occ \in Occupancy
  /\ armed \in BOOLEAN /\ ncmds \in 0..MaxCmds /\ misses \in 0..MaxMiss
  /\ unseen \in 0..misses
  /\ cmdOn \in [Reqs -> 0..MaxCmds]
  /\ posting \subseteq Reqs \X (1..MaxCmds)
  /\ \A u \in leaving : /\ u \in [req : Reqs, cmd : 1..MaxCmds, flags : SUBSET CountBits,
                                  gone : BOOLEAN]
                         /\ ~ u.gone => u.req \in Keys(occ)
  /\ \A r \in Reqs : cmdOn[r] = 0 <=> todo[r] = <<>>

\* Whatever hooks are missed, and however late a posting returns, the counters
\* account for every sampled command, ntp_inflight is the number of open
\* records, each record is in its request's slot and none is output twice
\* (target.bpf.h). And the queue's counters are exact with respect to tcounted as
\* long as nobody else writes or deletes an element that uncount() is at, and off
\* by at most one for every time that somebody did.
TargetTable ==
  /\ TypeOK /\ TableInv(tab)
  /\ overlaps = 0 => OccupancyExact(occ)
  /\ OccupancyWithin(occ, overlaps)

\* "so every decrement matches an increment" (target.bpf.h:45), also when a late
\* posting's uncount() overlaps the next command's.
EveryDecrementMatches == OccupancyExact(occ)

\* While armed, and while every arrival is seen, no record holds an event of a
\* later command, and of an earlier one only the times its late posting left
\* (on_queue_resp_exit()): everything else in a record is its own command's.
OnlyPostingsStray ==
  armed /\ unseen = 0 =>
    /\ NoLaterEvent(tab)
    /\ \A a \in Records(tab) : \A e \in Events \ {"RSP_SENT", "C2H_SENT"} :
         a.ts[e] \in {0, a.cmd}

\* A record that was not cut short by the reuse of its request was emitted with
\* its own send completion in it, and with some posting's time.
EmittedWithBothEnds ==
  armed /\ unseen = 0 =>
    \A a \in tab.out : "REUSED" \notin a.flags =>
      a.ts["SEND_DONE"] = a.cmd /\ a.ts["RSP_SENT"] # 0

\* "The record is emitted at the later of the posting's return and the send
\* completion": both its ends are its own.
EmittedAtLaterEnd ==
  armed /\ misses = 0 =>
    \A a \in tab.out : "REUSED" \notin a.flags =>
      a.ts["SEND_DONE"] = a.cmd /\ a.ts["RSP_SENT"] = a.cmd
=============================================================================
