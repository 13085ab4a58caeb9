----------------------------- MODULE HostQueues -----------------------------
(***************************************************************************)
(* Exact queue counts on the host (`--exact-queues`, filter.track_queues): *)
(* the qstat of one queue and the map `counted` of bpf/host.bpf.h. A       *)
(* request is counted in host_queue_rq() and leaves the counts in          *)
(* uncount(), called by the hook on the return of the sending and by the   *)
(* hook on the completion, on two threads that share no lock.              *)
(*                                                                         *)
(* uncount() reads the request's flags and then writes them back and       *)
(* adjusts the counters: two steps here.                                   *)
(***************************************************************************)
EXTENDS Integers, FiniteSets

CONSTANTS
  Rqs,            \* struct request addresses
  NoRq,           \* no address
  CountedMax,     \* max_entries of `counted`
  MaxDispatches,  \* bound: calls of ->queue_rq(), those that return BUSY included
  MaxTimeouts     \* bound: commands completed by a timeout

Bits == {"UNSENT", "INFLIGHT"}               \* CNT_*

VARIABLES
  qs,             \* struct qstat
  counted,        \* request -> its CNT_* flags; a function on the map's keys
  stage,          \* request -> where nvme-tcp is with its command
  sending,        \* the sender's uncount(): its request, its step, the flags it read
  completing,     \* io_work's
  depth,          \* request -> q_unsent and q_inflight as taken for its command
  others,         \* request -> how many commands were not completed then
  failed,         \* insertions into `counted` that failed
  dispatches, timeouts

vars == <<qs, counted, stage, sending, completing, depth, others, failed, dispatches, timeouts>>

U16Max == 65535
NoDepth == [unsent |-> 0, inflight |-> 0]
Stages == {"free", "busy", "queued", "sent", "completing"}
Idle == [rq |-> NoRq, step |-> "", flags |-> {}, dangling |-> FALSE]

Counted == DOMAIN counted
With(bit) == {r \in Counted : bit \in counted[r]}

\* The commands of the queue that are not yet completed.
Outstanding == {r \in Rqs : stage[r] \in {"busy", "queued", "sent"}}

-----------------------------------------------------------------------------
ntp_clamp_u16(v) == IF v < 0 THEN 0 ELSE IF v > U16Max THEN U16Max ELSE v

\* Mutant: a request dispatched again is counted again.
host_queue_rq_CountsAgain(r, busy) ==
  /\ stage[r] \in {"free", "busy"}
  /\ dispatches < MaxDispatches /\ dispatches' = dispatches + 1
  /\ stage' = [stage EXCEPT ![r] = IF busy THEN "busy" ELSE "queued"]
  /\ qs' = [unsent |-> qs.unsent + 1, inflight |-> qs.inflight + 1]
  /\ counted' = [x \in Counted \cup {r} |-> IF x = r THEN Bits ELSE counted[x]]
  /\ UNCHANGED <<sending, completing, depth, others, failed, timeouts>>

(* host_queue_rq(): count the request unless it is counted already. When   *)
(* `counted` is full the insertion fails, unnoticed. The driver may return *)
(* BUSY; the request is then dispatched again.                             *)
host_queue_rq(r, busy) ==
  /\ stage[r] \in {"free", "busy"}
  /\ dispatches < MaxDispatches /\ dispatches' = dispatches + 1
  /\ stage' = [stage EXCEPT ![r] = IF busy THEN "busy" ELSE "queued"]
  /\ IF r \in Counted
     THEN depth' = [depth EXCEPT ![r] = NoDepth] /\ UNCHANGED <<qs, counted, failed>>
     ELSE /\ depth' = [depth EXCEPT ![r] = [unsent |-> ntp_clamp_u16(qs.unsent),
                                                inflight |-> ntp_clamp_u16(qs.inflight)]]
          /\ qs' = [unsent |-> qs.unsent + 1, inflight |-> qs.inflight + 1]
          /\ IF Cardinality(Counted) < CountedMax
             THEN /\ counted' = [x \in Counted \cup {r} |-> IF x = r THEN Bits ELSE counted[x]]
                  /\ UNCHANGED failed
             ELSE failed' = failed + 1 /\ UNCHANGED counted
  /\ others' = [others EXCEPT ![r] = Cardinality(Outstanding \ {r})]
  /\ UNCHANGED <<sending, completing, timeouts>>

(* uncount() of @bits by a thread: it looks the request up and reads its   *)
(* flags, then it writes them back, adjusts the counters and, after a      *)
(* completion, forgets the request. Should the element have been deleted   *)
(* in between, the pointer is to free memory of the map, which a request   *)
(* counted since may have taken.                                           *)
Reads(u) ==
  IF u.rq \in Counted THEN [u EXCEPT !.step = "read", !.flags = counted[u.rq]] ELSE Idle

Writes(u, bits, forget) ==
  LET drop == u.flags \cap bits
      at == IF u.dangling THEN Counted \cup {NoRq} ELSE {u.rq}
  IN  /\ qs' = [unsent |-> IF "UNSENT" \in drop THEN qs.unsent - 1 ELSE qs.unsent,
                inflight |-> IF "INFLIGHT" \in drop THEN qs.inflight - 1 ELSE qs.inflight]
      /\ \E e \in at :
           counted' = IF forget THEN [x \in Counted \ {u.rq} |-> counted[x]]
                      ELSE [x \in Counted |-> IF x = e THEN u.flags \ bits ELSE counted[x]]

(* The command capsule goes out; the hook on the return of the sending     *)
(* (on_send_done(), try_send_exit()) then uncounts it as unsent. The       *)
(* sender holds send_mutex until that is over.                             *)
Send(r) ==
  /\ stage[r] = "queued" /\ sending = Idle
  /\ stage' = [stage EXCEPT ![r] = "sent"]
  /\ sending' = [Idle EXCEPT !.rq = r, !.step = "start"]
  /\ UNCHANGED <<qs, counted, completing, depth, others, failed, dispatches, timeouts>>

SendReads ==
  /\ sending.step = "start"
  /\ sending' = Reads(sending)
  /\ UNCHANGED <<qs, counted, stage, completing, depth, others, failed, dispatches, timeouts>>

SendWrites ==
  /\ sending.step = "read"
  /\ Writes(sending, {"UNSENT"}, FALSE)
  /\ sending' = Idle
  /\ UNCHANGED <<stage, completing, depth, others, failed, dispatches, timeouts>>

(* io_work handles the response: host_complete() in the receive context.   *)
Complete(r) ==
  /\ stage[r] = "sent" /\ completing = Idle
  /\ completing' = Reads([Idle EXCEPT !.rq = r, !.step = "start"])
  /\ stage' = [stage EXCEPT ![r] = IF r \in Counted THEN "completing" ELSE "free"]
  /\ UNCHANGED <<qs, counted, sending, depth, others, failed, dispatches, timeouts>>

CompleteWrites ==
  /\ completing.step = "read"
  /\ Writes(completing, Bits, TRUE)
  /\ stage' = [stage EXCEPT ![completing.rq] = "free"]
  /\ completing' = Idle
  /\ sending' = IF sending.rq = completing.rq /\ sending.step = "read"
                THEN [sending EXCEPT !.dangling = TRUE] ELSE sending
  /\ UNCHANGED <<depth, others, failed, dispatches, timeouts>>

(* A timeout completes it on another thread: host_complete() finds no      *)
(* receive context and leaves the counts alone.                            *)
Timeout(r) ==
  /\ stage[r] = "sent" /\ timeouts < MaxTimeouts
  /\ timeouts' = timeouts + 1
  /\ stage' = [stage EXCEPT ![r] = "free"]
  /\ UNCHANGED <<qs, counted, sending, completing, depth, others, failed, dispatches>>

Rest ==
  /\ dispatches = MaxDispatches /\ sending = Idle /\ completing = Idle
  /\ \A r \in Rqs : stage[r] \in {"free", "busy"}
  /\ UNCHANGED vars

-----------------------------------------------------------------------------
Init ==
  /\ qs = [unsent |-> 0, inflight |-> 0] /\ counted = [r \in {} |-> {}]
  /\ stage = [r \in Rqs |-> "free"] /\ sending = Idle /\ completing = Idle
  /\ depth = [r \in Rqs |-> NoDepth] /\ others = [r \in Rqs |-> 0]
  /\ failed = 0 /\ dispatches = 0 /\ timeouts = 0

Next ==
  \/ \E r \in Rqs : \/ \E busy \in BOOLEAN : host_queue_rq(r, busy)
                    \/ Send(r) \/ Complete(r) \/ Timeout(r)
  \/ SendReads \/ SendWrites \/ CompleteWrites \/ Rest

Spec == Init /\ [][Next]_vars

-----------------------------------------------------------------------------
\* The types of the maps and of the two uncount()s; what a record takes from the
\* counters is clamped to 16 bits.
TypeOK ==
  /\ qs \in [unsent : Int, inflight : Int]
  /\ Counted \subseteq Rqs /\ counted \in [Counted -> SUBSET Bits]
  /\ stage \in [Rqs -> Stages]
  /\ {sending, completing} \subseteq
       [rq : Rqs \cup {NoRq}, step : {"", "start", "read"}, flags : SUBSET Bits,
        dangling : BOOLEAN]
  /\ depth \in [Rqs -> [unsent : 0..U16Max, inflight : 0..U16Max]] /\ others \in [Rqs -> Nat]
  /\ failed \in 0..dispatches /\ dispatches \in 0..MaxDispatches
  /\ timeouts \in 0..MaxTimeouts

\* The number of commands not yet completed is never too small, whatever the two
\* uncount()s read and write in between and whatever times out: it is the number
\* of requests in `counted` and of those whose insertion failed, and a command
\* between ->queue_rq() and its completion is one of them.
InflightCovers ==
  /\ qs.inflight = Cardinality(With("INFLIGHT")) + failed
  /\ Cardinality(Outstanding \ With("INFLIGHT")) <= failed

\* "so every decrement matches an increment": no counter goes below zero.
EveryDecrementMatches == qs.unsent >= 0 /\ qs.inflight >= 0

\* "commands of this queue not yet completed, at arrival": what a command's
\* record gets as q_inflight is no less than that.
DepthAtArrival ==
  \A r \in Rqs : stage[r] = "queued" => depth[r].inflight >= others[r]
=============================================================================
