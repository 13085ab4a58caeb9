------------------------------ MODULE SpdkRdma ------------------------------
(***************************************************************************)
(* The times SPDK keeps for sampled commands over NVMe/RDMA: one thread      *)
(* with one queue pair, on the host (lib/nvme/nvme_rdma.c) or on the target  *)
(* (lib/nvmf/rdma.c) with ntprof's patch.  Work requests are queued and      *)
(* posted in batches; a sampled command waits for its posting in a list of  *)
(* Posts entries.  A completion gets the time of the poll that took it, which *)
(* the thread notes only while the gate is open.  ntprof opens and closes    *)
(* the gate at any moment.                                                   *)
(*                                                                          *)
(* The network and the disk are external: a completion is there at any time *)
(* after its posting.  Every command is one the sampling hash picks, and is  *)
(* a write fetched with RDMA READ on the target.                             *)
(***************************************************************************)
EXTENDS Naturals, Sequences

CONSTANTS
  Reqs,       \* request objects of the queue pair, used again and again
  Posts,      \* NTPROF_POSTS
  MaxTime,    \* bound: the clock
  MaxSubmits, \* bound: commands
  MaxGates    \* bound: times the gate is opened or closed

VARIABLES
  side,       \* "host" or "target"
  clock,      \* CLOCK_MONOTONIC; 0 is "did not happen"
  gate,       \* g_ntprof_sample_every # 0
  at,         \* request -> where its command is, "free" when it has none
  tm,         \* request -> struct ntprof_times: on, t by event, post_ev
  posts,      \* struct ntprof_posts: the requests in the list
  poll,       \* host: g_ntprof_poll; target: ntprof_poll of the current poll
  taken,      \* the completion the thread has taken and not yet handled
  arr,        \* request -> ntprof_arr of its receive buffer
  submits, gates,
  (* observers *)
  real,       \* request -> when each event of its command really was
  rec         \* the last command reported: its times, the real ones

vars == <<side, clock, gate, at, tm, posts, poll, taken, arr, submits, gates, real, rec>>

NoEv   == "none"
Posted == {"CMD_POSTED", "READ_POSTED", "RSP_POSTED"}
Polled == {"RSP", "CMD_ARR", "READ_DONE", "SEND_DONE"}
HostEvents   == {"SUBMIT", "CMD_POSTED", "SEND_DONE", "RSP", "DONE"}
TargetEvents == {"CMD_ARR", "CMD", "READ_QUEUED", "READ_POSTED", "READ_DONE", "EXEC", "EXECUTED",
                 "RSP_QUEUED", "RSP_POSTED", "SEND_DONE"}
Events  == HostEvents \cup TargetEvents
NoTimes == [e \in Events |-> 0]
NoComp  == [kind |-> "none"]

\* Of a command the observers keep the real time of each event, when the
\* work request of a posting was queued, and whether a poll that took one of
\* its completions found the gate closed.
NoReal == [at |-> NoTimes, queued |-> NoTimes, shut |-> FALSE]

TypeOK ==
  /\ side \in {"host", "target"} /\ clock \in 1..MaxTime /\ gate \in BOOLEAN
  /\ tm \in [Reqs -> [on : BOOLEAN, t : [Events -> 0..MaxTime], postEv : Posted \cup {NoEv}]]
  /\ posts \in Seq(Reqs) /\ Len(posts) <= Posts
  /\ poll \in 0..MaxTime /\ arr \in [Reqs -> 0..MaxTime]

Init ==
  /\ side \in {"host", "target"} /\ clock = 1 /\ gate \in BOOLEAN
  /\ at = [q \in Reqs |-> "free"]
  /\ tm = [q \in Reqs |-> [on |-> FALSE, t |-> NoTimes, postEv |-> NoEv]]
  /\ posts = <<>> /\ poll = 0 /\ taken = NoComp
  /\ arr = [q \in Reqs |-> 0] /\ submits = 0 /\ gates = 0
  /\ real = [q \in Reqs |-> NoReal] /\ rec = [t |-> NoTimes, real |-> NoReal]

-----------------------------------------------------------------------------
\* include/spdk_internal/ntprof.h: what its functions make of a request's m.

ntprof_stamp(m, ev) == IF m.t[ev] = 0 THEN [m EXCEPT !.t[ev] = clock] ELSE m

\* Mutant: a sampled command inherits post_ev from the request's last one.
ntprof_begin_KeepsPostEv(m, ev) ==
  IF gate THEN [on |-> TRUE, t |-> [NoTimes EXCEPT ![ev] = clock], postEv |-> m.postEv]
          ELSE [m EXCEPT !.on = FALSE]

\* A command enters the transport; it is sampled while the gate is open.
ntprof_begin(m, ev) ==
  IF gate THEN [on |-> TRUE, t |-> [NoTimes EXCEPT ![ev] = clock], postEv |-> NoEv]
          ELSE [m EXCEPT !.on = FALSE]

Full == Len(posts) = Posts

ntprof_post_later(m, ev) == IF Full THEN ntprof_stamp(m, ev) ELSE [m EXCEPT !.postEv = ev]

\* What ntprof_posted() does to a request in the list.
ntprof_posted(q) ==
  LET m == tm[q] IN
  [m EXCEPT !.t = IF m.on /\ m.postEv # NoEv /\ m.t[m.postEv] = 0
                    THEN [@ EXCEPT ![m.postEv] = clock] ELSE @,
            !.postEv = NoEv]

-----------------------------------------------------------------------------
\* Request q, whose times are m, goes to `place` with a work request queued
\* whose posting is the event ev.
QueueWr(q, m, place, ev) ==
  /\ at' = [at EXCEPT ![q] = place]
  /\ tm' = [tm EXCEPT ![q] = IF m.on THEN ntprof_post_later(m, ev) ELSE m]
  /\ posts' = IF m.on /\ ~Full THEN Append(posts, q) ELSE posts

\* Request q's times become m, and nothing is queued.
Note(q, m, place) ==
  /\ at' = [at EXCEPT ![q] = place]
  /\ tm' = [tm EXCEPT ![q] = m]
  /\ posts' = posts

\* The times t a probe makes a record of: the host's, the target's.
ntp_u_nvme_rdma_done(t) == [e \in Events |-> IF e \in HostEvents THEN t[e] ELSE 0]
ntp_u_nvmf_rdma_done(t) == [e \in Events |-> IF e \in TargetEvents THEN t[e] ELSE 0]

\* The command on q ends, r being its real times.  A sampled one reaches the
\* probe, which makes a record unless the object is disarmed, the filter
\* leaves the command out or the ring buffer is full.
Report(q, m, r) ==
  /\ \/ /\ m.on
        /\ rec' = [t |-> IF side = "host" THEN ntp_u_nvme_rdma_done(m.t)
                                         ELSE ntp_u_nvmf_rdma_done(m.t), real |-> r]
     \/ rec' = rec
  /\ real' = [real EXCEPT ![q] = NoReal]
  /\ Note(q, [m EXCEPT !.on = FALSE], "free")

Next1 == [queued |-> "posted", readQueued |-> "readPosted", rspQueued |-> "rspPosted"]
EvOf  == [queued |-> "CMD_POSTED", readQueued |-> "READ_POSTED", rspQueued |-> "RSP_POSTED"]
Waiting == {q \in Reqs : at[q] \in DOMAIN Next1}

\* The queue pair posts all it has queued (the host's submit_sends and
\* flush_send_wrs, the target's _poller_submit_sends): what it follows here
\* and what it does not.
Flush ==
  /\ taken = NoComp /\ (Waiting # {} \/ posts # <<>>)
  /\ tm' = [q \in Reqs |-> IF \E i \in 1..Len(posts) : posts[i] = q
                             THEN ntprof_posted(q) ELSE tm[q]]
  /\ posts' = <<>>
  /\ at' = [q \in Reqs |-> IF q \in Waiting THEN Next1[at[q]] ELSE at[q]]
  /\ real' = [q \in Reqs |-> IF q \in Waiting
                               THEN [real[q] EXCEPT !.at[EvOf[at[q]]] = clock] ELSE real[q]]
  /\ UNCHANGED <<side, clock, gate, poll, taken, arr, submits, gates, rec>>

-----------------------------------------------------------------------------
\* Completions that can be there (the peer and the device are external).
Ready ==
  LET of(kind, places) == {[kind |-> kind, q |-> q] : q \in {r \in Reqs : at[r] \in places}}
  IN IF side = "host"
       THEN of("send", {"posted", "answered"}) \cup of("recv", {"posted", "sent"})
       ELSE of("read", {"readPosted"}) \cup of("send", {"rspPosted"})
              \cup (IF submits < MaxSubmits THEN of("recv", {"free"}) ELSE {})

\* The thread polls its completion queue and takes a completion: of a command
\* it follows, or (host) of another.  While the gate is open the host notes
\* the time, and the target has it for this poll.
Poll ==
  /\ taken = NoComp
  /\ poll' = IF gate THEN clock ELSE IF side = "host" THEN poll ELSE 0
  /\ \/ \E c \in Ready : taken' = [kind |-> c.kind, q |-> c.q, when |-> clock, shut |-> ~gate]
     \/ side = "host" /\ taken' = taken
  /\ UNCHANGED <<side, clock, gate, at, tm, posts, arr, submits, gates, real, rec>>

\* The real times with the completion being handled, of the event ev.
With(ev) == [real[taken.q] EXCEPT !.at[ev] = taken.when, !.shut = @ \/ taken.shut]

nvme_rdma_ntprof_poll_time(m) == IF poll # 0 /\ poll >= m.t["SUBMIT"] THEN poll ELSE clock

\* Host: a command is submitted on q and its SEND queued.
nvme_rdma_qpair_submit_request(q) ==
  /\ side = "host" /\ taken = NoComp /\ at[q] = "free"
  /\ submits < MaxSubmits /\ submits' = submits + 1
  /\ QueueWr(q, ntprof_begin(tm[q], "SUBMIT"), "queued", "CMD_POSTED")
  /\ real' = [real EXCEPT ![q] = [NoReal EXCEPT !.queued["CMD_POSTED"] = clock]]
  /\ UNCHANGED <<side, clock, gate, poll, taken, arr, gates, rec>>

\* Host: the send completion or the response is handled; the second of the
\* two completes the command.
HostHandles ==
  /\ side = "host" /\ taken # NoComp
  /\ LET q    == taken.q
         ev   == IF taken.kind = "send" THEN "SEND_DONE" ELSE "RSP"
         m    == IF tm[q].on
                   THEN [tm[q] EXCEPT !.t[ev] = nvme_rdma_ntprof_poll_time(tm[q])] ELSE tm[q]
     IN \/ /\ at[q] = "posted"
           /\ Note(q, m, IF taken.kind = "send" THEN "sent" ELSE "answered")
           /\ real' = [real EXCEPT ![q] = With(ev)] /\ rec' = rec
        \/ /\ at[q] \in {"sent", "answered"}
           /\ Report(q, IF m.on THEN [m EXCEPT !.t["DONE"] = clock] ELSE m, With(ev))
  /\ taken' = NoComp
  /\ UNCHANGED <<side, clock, gate, poll, arr, submits, gates>>

-----------------------------------------------------------------------------
\* Target: a completion is handled in the poll that took it.
TargetHandles ==
  /\ side = "target" /\ taken # NoComp
  /\ LET q == taken.q
         m(ev) == IF tm[q].on
                    THEN [tm[q] EXCEPT !.t[ev] = IF poll # 0 THEN poll ELSE clock] ELSE tm[q]
     IN \/ /\ taken.kind = "recv"
           /\ arr' = [arr EXCEPT ![q] = poll]
           /\ real' = [real EXCEPT ![q] = [NoReal EXCEPT !.at["CMD_ARR"] = taken.when,
                                                         !.shut = taken.shut]]
           /\ Note(q, tm[q], "arrived")
           /\ submits' = submits + 1 /\ rec' = rec
        \/ /\ taken.kind = "read"
           /\ Note(q, m("READ_DONE"), "fetched")
           /\ real' = [real EXCEPT ![q] = With("READ_DONE")]
           /\ UNCHANGED <<arr, submits, gates, rec>>
        \/ /\ taken.kind = "send"
           /\ Report(q, m("SEND_DONE"), With("SEND_DONE"))
           /\ UNCHANGED <<arr, submits>>
  /\ taken' = NoComp
  /\ UNCHANGED <<side, clock, gate, poll, gates>>

\* Target: a request takes the command, queues the RDMA READ, goes to the
\* bdev layer and comes back, and queues the response.
nvmf_rdma_request_process(q) ==
  /\ side = "target" /\ taken = NoComp
  /\ LET m == tm[q]
         stamped(ev) == IF m.on THEN ntprof_stamp(m, ev) ELSE m
     IN \/ /\ at[q] = "arrived"
           /\ LET b == ntprof_begin(m, "CMD")
              IN Note(q, IF b.on /\ arr[q] <= b.t["CMD"] THEN [b EXCEPT !.t["CMD_ARR"] = arr[q]]
                                                         ELSE b, "taken")
           /\ real' = real
        \/ /\ at[q] = "taken"
           /\ QueueWr(q, stamped("READ_QUEUED"), "readQueued", "READ_POSTED")
           /\ real' = [real EXCEPT ![q].queued["READ_POSTED"] = clock]
        \/ /\ at[q] = "fetched"
           /\ Note(q, stamped("EXEC"), "executing") /\ real' = real
        \/ /\ at[q] = "executing"
           /\ Note(q, stamped("EXECUTED"), "executed") /\ real' = real
        \/ /\ at[q] = "executed"
           /\ QueueWr(q, stamped("RSP_QUEUED"), "rspQueued", "RSP_POSTED")
           /\ real' = [real EXCEPT ![q].queued["RSP_POSTED"] = clock]
  /\ UNCHANGED <<side, clock, gate, poll, taken, arr, submits, gates, rec>>

\* A command ends with its work request still queued (the connection goes
\* down); its request stays in the list.
Drop(q) ==
  /\ taken = NoComp /\ q \in Waiting
  /\ Report(q, IF side = "host" /\ tm[q].on THEN [tm[q] EXCEPT !.t["DONE"] = clock] ELSE tm[q],
            real[q])
  /\ UNCHANGED <<side, clock, gate, poll, taken, arr, submits, gates>>

\* ntprof opens or closes the gate (external: Gating says when).
Gate ==
  /\ gates < MaxGates /\ gates' = gates + 1 /\ gate' = ~gate
  /\ UNCHANGED <<side, clock, at, tm, posts, poll, taken, arr, submits, real, rec>>

Tick ==
  /\ clock < MaxTime /\ clock' = clock + 1
  /\ UNCHANGED <<side, gate, at, tm, posts, poll, taken, arr, submits, gates, real, rec>>

Next ==
  \/ Poll \/ HostHandles \/ TargetHandles \/ Flush \/ Gate \/ Tick
  \/ \E q \in Reqs : \/ nvme_rdma_qpair_submit_request(q)
                     \/ nvmf_rdma_request_process(q)
                     \/ Drop(q)

Spec == Init /\ [][Next]_vars

-----------------------------------------------------------------------------
\* PostedTimesReal.  In a reported command each posting's time is when the
\* work request was posted, or, with the list full, when it was queued: never
\* the posting of a command that used the request before (spdk_internal/
\* ntprof.h: "A command that was freed and reused meanwhile ... is skipped").
PostedTimesReal ==
  \A ev \in Posted :
    rec.t[ev] \in {0, rec.real.at[ev], rec.real.queued[ev]}

\* PolledTimesReal.  A completion is timed by the poll that took it, if the
\* gate was open at the polls of that command; and even if it was not, a
\* host's completion is between SUBMIT and DONE, a target's is no earlier
\* than it was, and a target's arrival is its own or missing.
PolledTimesReal ==
  \A ev \in {e \in Polled : rec.t[e] # 0} :
    /\ ~rec.real.shut => rec.t[ev] = rec.real.at[ev]
    /\ rec.t["DONE"] # 0 => rec.t["SUBMIT"] <= rec.t[ev] /\ rec.t[ev] <= rec.t["DONE"]
    /\ rec.t["DONE"] = 0 => rec.t[ev] >= rec.real.at[ev]
    /\ ev = "CMD_ARR" => rec.t[ev] = rec.real.at[ev]

\* TimedWhenTaken.  "A completion is timed when the poller took it from the
\* completion queue" (docs/design.md:509-511), whatever the gate does.
TimedWhenTaken ==
  \A ev \in {e \in Polled : rec.t[e] # 0} : rec.t[ev] >= rec.real.at[ev]
=============================================================================
