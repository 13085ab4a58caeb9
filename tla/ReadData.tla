------------------------------ MODULE ReadData ------------------------------
(***************************************************************************)
(* The data phase of TCP reads on the host: how on_recv_skb(), on_copy(),  *)
(* host_complete() and on_recv_skb_exit() (bpf/nvme_tcp_host.bpf.c,        *)
(* bpf/host.bpf.h) time the work on each sampled read's data. io_work      *)
(* handles one skb per call; an skb carries data PDUs of several reads, in *)
(* any order, and completions. Time moves between any two steps.           *)
(***************************************************************************)
EXTENDS Integers, FiniteSetsExt

CONSTANTS
  Reads,          \* sampled reads of one queue, all in flight
  NoRead,         \* data_rq = 0
  MaxCopies,      \* bound: copies per read
  MaxTime         \* bound on the clock

ASSUME ReadsAssumption == NoRead \notin Reads /\ IsFiniteSet(Reads)

VARIABLES
  now,            \* bpf_ktime_get_ns(); 0 in a time means "not set"
  rx,             \* struct host_rx: open, enter, data_rq, busy_from
  rec,            \* read -> its times, c2h_busy_ns and c2h_skbs
  copies,         \* read -> copies made
  inCalls,        \* time spent in calls
  cut             \* reads copied in a call after another read completed in it

vars == <<now, rx, rec, copies, inCalls, cut>>

Closed == [open |-> FALSE, enter |-> 0, data_rq |-> NoRead, busy_from |-> 0, completed |-> {}]
NoTimes == [C2H_PROC |-> 0, C2H_DONE |-> 0, RSP_PROC |-> 0, busy |-> 0, skbs |-> 0]

-----------------------------------------------------------------------------
(* host_data_done(), for the read the call counts for.                     *)
host_data_done(R) ==
  LET d == rx.data_rq
  IN  IF d = NoRead \/ rx.busy_from = 0 \/ now < rx.busy_from THEN R
      ELSE [R EXCEPT ![d].busy = @ + (now - rx.busy_from),
                     ![d].skbs = @ + 1,
                     ![d].C2H_DONE = now]

on_recv_skb ==
  /\ ~ rx.open
  /\ rx' = [Closed EXCEPT !.open = TRUE, !.enter = now]
  /\ UNCHANGED <<now, rec, copies, inCalls, cut>>

\* Mutant: every call counts from its start.
BusyFrom_Enter(r) == rx.enter

\* Mutant: a call that first worked on another read counts from its start too.
BusyFrom_Unswitched(r) == IF rec[r].C2H_PROC = 0 THEN now ELSE rx.enter

(* on_copy(): from the first copy of a read in a call on, the call's time  *)
(* is the read's, until another read's data or the end. A later call       *)
(* counts from its start, unless it first worked on another read's data.   *)
BusyFrom(r) ==
  IF rec[r].C2H_PROC = 0 \/ rx.data_rq # NoRead THEN now ELSE rx.enter

on_copy(r) ==
  /\ rx.open /\ rec[r].RSP_PROC = 0 /\ copies[r] < MaxCopies
  /\ copies' = [copies EXCEPT ![r] = @ + 1]
  /\ IF rx.data_rq = r THEN UNCHANGED <<rec, rx>>
     ELSE /\ rec' = [host_data_done(rec) EXCEPT
                       ![r].C2H_PROC = IF @ = 0 THEN now ELSE @]
          /\ rx' = [rx EXCEPT !.data_rq = r, !.busy_from = BusyFrom(r)]
  /\ cut' = IF rx.completed = {} THEN cut ELSE cut \cup {r}
  /\ UNCHANGED <<now, inCalls>>

\* Mutant: the completion does not end the data phase.
host_complete_PhaseGoesOn(r) ==
  /\ rx.open /\ rec[r].C2H_PROC # 0 /\ rec[r].RSP_PROC = 0
  /\ rec' = [rec EXCEPT ![r].RSP_PROC = now]
  /\ rx' = [rx EXCEPT !.completed = @ \cup {r}]
  /\ UNCHANGED <<now, copies, inCalls, cut>>

(* host_complete(): the completion of a read that got its data was parsed. *)
host_complete(r) ==
  /\ rx.open /\ rec[r].C2H_PROC # 0 /\ rec[r].RSP_PROC = 0
  /\ LET R == IF rx.data_rq = r THEN host_data_done(rec) ELSE rec
     IN  rec' = [R EXCEPT ![r].RSP_PROC = now]
  /\ rx' = [rx EXCEPT !.data_rq = IF @ = r THEN NoRead ELSE @,
                      !.busy_from = IF rx.data_rq = r THEN 0 ELSE @,
                      !.completed = @ \cup {r}]
  /\ UNCHANGED <<now, copies, inCalls, cut>>

on_recv_skb_exit ==
  /\ rx.open
  /\ rec' = host_data_done(rec)
  /\ rx' = Closed
  /\ inCalls' = inCalls + (now - rx.enter)
  /\ UNCHANGED <<now, copies, cut>>

Tick ==
  /\ now < MaxTime
  /\ now' = now + 1
  /\ UNCHANGED <<rx, rec, copies, inCalls, cut>>

-----------------------------------------------------------------------------
Init ==
  /\ now = 1 /\ rx = Closed /\ rec = [r \in Reads |-> NoTimes]
  /\ copies = [r \in Reads |-> 0] /\ inCalls = 0 /\ cut = {}

Next ==
  \/ \E r \in Reads : on_copy(r) \/ host_complete(r)
  \/ on_recv_skb \/ on_recv_skb_exit \/ Tick

Spec == Init /\ [][Next]_vars

-----------------------------------------------------------------------------
Span(r) == rec[r].C2H_DONE - rec[r].C2H_PROC

\* The calls that copy a read's data "follow each other inside" the span from
\* the first copy to the end of the last call, so that the wait that is left is
\* never negative: for every read not copied after another read's completion in
\* the same call, however the reads' PDUs interleave.
BusyInsideSpan ==
  \A r \in Reads \ cut : rec[r].C2H_DONE # 0 => rec[r].busy <= Span(r)

\* The same for every read, as the stage model (data_phase()) assumes it.
BusyAlwaysInside ==
  \A r \in Reads : rec[r].C2H_DONE # 0 => rec[r].busy <= Span(r)

\* A read that completed has its data phase between its first copy and its
\* completion, so data_phase() of model.c accepts it and the host driver's
\* completion RSP_PROC - C2H_DONE is not negative.
PhaseInOrder ==
  \A r \in Reads : rec[r].RSP_PROC # 0 =>
    /\ rec[r].C2H_DONE # 0
    /\ rec[r].C2H_PROC <= rec[r].C2H_DONE
    /\ rec[r].C2H_DONE <= rec[r].RSP_PROC

\* No instant of io_work is counted for two reads: their busy times add up to
\* no more than the calls took.
NoInstantTwice ==
  cut = {} =>
    LET calls == inCalls + (IF rx.open THEN now - rx.enter ELSE 0)
    IN  MapThenSumSet(LAMBDA r : rec[r].busy, Reads) <= calls
=============================================================================
