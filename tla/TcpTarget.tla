----------------------------- MODULE TcpTarget ------------------------------
(***************************************************************************)
(* The NVMe/TCP target: the hooks of bpf/nvme_tcp_target.bpf.c and the     *)
(* nvmet-core, back end and block layer hooks of bpf/target.bpf.h, driven  *)
(* by nvmet-tcp's handling of the commands of one queue (external).        *)
(*                                                                         *)
(* Every hook may be missed: a kprobe does not run while another BPF       *)
(* program runs on its CPU. The send hooks look only at queues the LRU map *)
(* `tqueues` holds with their present socket, and the queue may be evicted.*)
(***************************************************************************)
EXTENDS TargetRecords, Sequences

CONSTANTS
  TrackQueues,    \* filter.track_queues
  Classes,        \* bound: the kinds of commands that arrive
  MaxCmds,        \* bound: commands that arrive
  MaxMiss         \* bound: hooks missed, connections lost and evictions

VARIABLES
  tab,            \* treqs, ntp_inflight, counters, output (RecordTable)
  occ,            \* the queue's tqstat and tcounted
  armed,          \* ntp_armed
  known,          \* tqueues holds the queue, with its present socket
  cmdOn,          \* request -> the command using it, 0 when it is free
  todo,           \* request -> the steps nvmet-tcp has still to take for it
  ncmds,          \* commands that arrived
  misses          \* hooks missed, connections lost, evictions from tqueues

vars == <<tab, occ, armed, known, cmdOn, todo, ncmds, misses>>

Idle == tab.inflight = 0 /\ ~ TrackQueues     \* ntp_idle()

-----------------------------------------------------------------------------
(* nvmet-tcp: the steps of a command that a hook sees, in order.           *)

Backend == <<"exec", "be_issue", "be_done", "complete", "queue_resp">>

Path ==
  [read    |-> Backend \o <<"send_data", "send_resp">>,
   success |-> Backend \o <<"send_data_success">>,     \* sqhd_disabled
   inline  |-> <<"h2c", "copy">> \o Backend \o <<"send_resp">>,
   r2t     |-> <<"queue_r2t", "send_r2t", "h2c", "copy">> \o Backend \o <<"send_resp">>,
   failed  |-> <<"complete", "queue_resp", "send_resp">>]

ASSUME ClassesAssumption == Classes \subseteq DOMAIN Path
ASSUME BoundsAssumption == TrackQueues \in BOOLEAN /\ MaxCmds \in Nat /\ MaxMiss \in Nat

IsWrite(class) == class \in {"inline", "r2t"}

\* The step is next for request r; its hook runs, or is missed.
Hook(r, step, table, occupancy) ==
  /\ todo[r] # <<>> /\ Head(todo[r]) = step
  /\ todo' = [todo EXCEPT ![r] = Tail(@)]
  /\ cmdOn' = IF Tail(todo[r]) = <<>> THEN [cmdOn EXCEPT ![r] = 0] ELSE cmdOn
  /\ \/ tab' = table /\ occ' = occupancy /\ UNCHANGED misses
     \/ misses < MaxMiss /\ misses' = misses + 1 /\ UNCHANGED <<tab, occ>>
  /\ UNCHANGED <<armed, known, ncmds>>

\* on_sendmsg() looks at this send: not idle, and the queue is remembered.
SendSeen == ~ Idle /\ known

IfActive(table) == IF tab.inflight # 0 THEN table ELSE tab
IfTracked(occupancy) == IF TrackQueues THEN occupancy ELSE occ

-----------------------------------------------------------------------------
(* remember_queue(), from tgt_is_ours() and from tgt_sampled().            *)
remember_queue(sampled) == known' = (known \/ TrackQueues \/ sampled)

(* ntp_t_req_init(): a command of the transport arrives on a free request. *)
req_init(r, class, sampled) ==
  /\ cmdOn[r] = 0 /\ ncmds < MaxCmds
  /\ ncmds' = ncmds + 1
  /\ cmdOn' = [cmdOn EXCEPT ![r] = ncmds']
  /\ todo' = [todo EXCEPT ![r] = Path[class]]
  /\ \/ ~ armed /\ UNCHANGED <<tab, occ, known>>
     \/ /\ armed
        /\ \E room \in BOOLEAN :
             tab' = ReqInit(tab, r, ncmds', IF IsWrite(class) THEN {"WRITE"} ELSE {},
                            sampled, room)
        /\ occ' = IfTracked(count_arrival(occ, r))
        /\ remember_queue(sampled)
  /\ UNCHANGED <<armed, misses>>

on_exec(r) ==
  Hook(r, "exec", IfActive(StampOnce(tab, r, "EXEC", cmdOn[r])), occ)

be_issue(r) ==
  Hook(r, "be_issue", IfActive(StampOnce(tab, r, "BE_ISSUE", cmdOn[r])), occ)

be_done(r) ==
  Hook(r, "be_done", IfActive(Stamp(tab, r, "BE_DONE", cmdOn[r])), occ)

complete(r) ==
  Hook(r, "complete", IfActive(StampOnce(tab, r, "COMPLETE", cmdOn[r])), occ)

(* on_queue_resp(): called first for the R2T of a write whose data is still *)
(* to come, then for the completion.                                        *)
on_queue_r2t(r) ==
  Hook(r, "queue_r2t",
       IF Idle THEN tab ELSE StampOnce(tab, r, "R2T_QUEUED", cmdOn[r]), occ)

on_queue_resp(r) ==
  Hook(r, "queue_resp",
       IF Idle THEN tab ELSE StampOnce(tab, r, "RSP_QUEUED", cmdOn[r]),
       IfTracked(count_resp_queued(occ, r)))

\* Mutant: all data is taken for solicited data.
on_h2c_AlwaysR2T(r) ==
  Hook(r, "h2c",
       IfActive(StampOnce(StampOnce(Flag(tab, r, "R2T"), r, "DATA_ARR", cmdOn[r]),
                          r, "DATA_PROC", cmdOn[r])),
       occ)

(* on_h2c(): the header of the write's data was parsed. Without an R2T sent *)
(* before, the data came in the capsule.                                    *)
on_h2c(r) ==
  Hook(r, "h2c",
       IfActive(IF ~ HasRec(tab, r) \/ RecOf(tab, r).ts["R2T_SENT"] = 0
                THEN Flag(tab, r, "INLINE_DATA")
                ELSE StampOnce(StampOnce(Flag(tab, r, "R2T"), r, "DATA_ARR", cmdOn[r]),
                               r, "DATA_PROC", cmdOn[r])),
       occ)

(* on_copy_done(): a copy put data into the command's buffer. Only data     *)
(* solicited by an R2T, before the command executes, is timed.              *)
on_copy_done(r) ==
  Hook(r, "copy",
       IfActive(IF /\ HasRec(tab, r) /\ "R2T" \in RecOf(tab, r).flags
                   /\ RecOf(tab, r).ts["DATA_PROC"] # 0 /\ RecOf(tab, r).ts["EXEC"] = 0
                THEN Stamp(tab, r, "DATA_DONE", cmdOn[r]) ELSE tab),
       occ)

(* on_sendmsg(), by the PDU that goes out. The last one ends the record.   *)
send_r2t(r) ==
  Hook(r, "send_r2t", IF SendSeen THEN StampOnce(tab, r, "R2T_SENT", cmdOn[r]) ELSE tab, occ)

send_data(r) ==
  Hook(r, "send_data", IF SendSeen THEN StampOnce(tab, r, "C2H_SENT", cmdOn[r]) ELSE tab, occ)

send_data_success(r) ==
  \E room \in BOOLEAN :
    Hook(r, "send_data_success",
         IF SendSeen
         THEN Emit(Flag(StampOnce(tab, r, "C2H_SENT", cmdOn[r]), r, "DATA_SUCCESS"), r, room)
         ELSE tab,
         IF SendSeen THEN IfTracked(uncount(occ, r)) ELSE occ)

send_resp(r) ==
  \E room \in BOOLEAN :
    Hook(r, "send_resp",
         IF SendSeen THEN Emit(Stamp(tab, r, "RSP_SENT", cmdOn[r]), r, room) ELSE tab,
         IF SendSeen THEN IfTracked(uncount(occ, r)) ELSE occ)

-----------------------------------------------------------------------------
(* The connection is lost: its commands end without a response, and the    *)
(* next connection has another socket.                                      *)
Disconnect ==
  /\ misses < MaxMiss /\ \E r \in Reqs : cmdOn[r] # 0
  /\ misses' = misses + 1
  /\ cmdOn' = [r \in Reqs |-> 0] /\ todo' = [r \in Reqs |-> <<>>]
  /\ known' = FALSE
  /\ UNCHANGED <<tab, occ, armed, ncmds>>

(* More queues than tqueues holds: this one is the least recently used.     *)
Evict ==
  /\ known /\ misses < MaxMiss
  /\ known' = FALSE /\ misses' = misses + 1
  /\ UNCHANGED <<tab, occ, armed, cmdOn, todo, ncmds>>

(* ntp_loader_open() arms once everything is attached, ntp_loader_disarm()  *)
(* stops new records; the hooks stay attached.                              *)
Arm ==
  /\ ~ armed /\ tab = EmptyTable /\ occ = NoOccupancy
  /\ armed' = TRUE
  /\ UNCHANGED <<tab, occ, known, cmdOn, todo, ncmds, misses>>

Disarm ==
  /\ armed /\ armed' = FALSE
  /\ UNCHANGED <<tab, occ, known, cmdOn, todo, ncmds, misses>>

-----------------------------------------------------------------------------
(* Nothing is left to do: the bound on commands is reached.                *)
Rest ==
  /\ ncmds = MaxCmds /\ \A r \in Reqs : cmdOn[r] = 0
  /\ UNCHANGED vars

Init ==
  /\ tab = EmptyTable /\ occ = NoOccupancy /\ armed = FALSE /\ known = FALSE
  /\ cmdOn = [r \in Reqs |-> 0] /\ todo = [r \in Reqs |-> <<>>]
  /\ ncmds = 0 /\ misses = 0

Step(r) ==
  \/ on_exec(r) \/ be_issue(r) \/ be_done(r) \/ complete(r)
  \/ on_queue_r2t(r) \/ on_queue_resp(r) \/ on_h2c(r) \/ on_copy_done(r)
  \/ send_r2t(r) \/ send_data(r) \/ send_data_success(r) \/ send_resp(r)

Next ==
  \/ \E r \in Reqs : \/ \E class \in Classes, sampled \in BOOLEAN : req_init(r, class, sampled)
                     \/ Step(r)
  \/ Disconnect
  \/ Evict
  \/ Arm
  \/ Disarm
  \/ Rest

Spec == Init /\ [][Next]_vars

-----------------------------------------------------------------------------
\* The types of the hooks' maps and of nvmet-tcp's requests; ntp_inflight is
\* never negative.
TypeOK ==
  /\ tab \in Table /\ occ \in Occupancy
  /\ armed \in BOOLEAN /\ known \in BOOLEAN /\ ncmds \in 0..MaxCmds /\ misses \in 0..MaxMiss
  /\ cmdOn \in [Reqs -> 0..MaxCmds]
  /\ \A r \in Reqs : cmdOn[r] = 0 <=> todo[r] = <<>>

\* Whatever hooks are missed and whichever requests share a slot, the counters
\* account for every sampled command, ntp_inflight is the number of open
\* records, each record is in its request's slot and none is output twice
\* (target.bpf.h).
TargetTable == TypeOK /\ TableInv(tab)

\* While armed, a record never holds an event of a later command on its
\* nvmet_req: ntp_t_req_init() emits what is still open first.
ArmedRecordsPure == armed => NoLaterEvent(tab)

\* The same at all times, as the documentation states it.
RecordsPure == NoLaterEvent(tab)

\* The queue's counters never go negative, and are off by exactly the insertions
\* into tcounted that failed because it was full (tqstat, tcounted).
CountsExact == OccupancyExact(occ)

\* ntp_breakdown()'s required target events (model.c), by class of I/O.
Required(a) ==
  {"CMD_ARR", "CMD_PROC", "EXEC", "COMPLETE"} \cup
  (CASE "WRITE" \notin a.flags            -> {"C2H_SENT"}
     [] {"WRITE", "R2T"} \subseteq a.flags -> {"R2T_SENT", "DATA_ARR", "DATA_PROC", "RSP_SENT"}
     [] OTHER                             -> {"RSP_SENT"})

\* As long as no hook is missed, the record of every executed command has, of
\* its own, every event the stage model needs of a command of its class.
ExecutedComplete ==
  misses = 0 => \A a \in tab.out : a.ts["EXEC"] # 0 =>
                   \A e \in Required(a) : a.ts[e] = a.cmd
=============================================================================
