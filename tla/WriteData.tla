------------------------------ MODULE WriteData -----------------------------
(***************************************************************************)
(* The data phase of a TCP write solicited by R2T on the target: how       *)
(* on_copy(), on_copy_done(), rx_arrival() and on_h2c()                    *)
(* (bpf/nvme_tcp_target.bpf.c) and on_exec() (bpf/target.bpf.h) time the   *)
(* arrival of a sampled write's data and the work on it. The queue's       *)
(* thread reads a stream of PDU headers and data, cut into skbs anywhere;  *)
(* what it copied last is kept per CPU and tagged with the thread          *)
(* (common.bpf.h). Other threads copy from other sockets whenever they     *)
(* preempt it, the thread may be moved between CPUs, and a hook may be     *)
(* missed. The R2T was sent (TcpTarget).                                   *)
(***************************************************************************)
EXTENDS Integers, Sequences

CONSTANTS
  CPUs,
  Streams,        \* what the host may send: sequences of "header" and "data"
                  \* pieces, a header first
  MaxMisses,      \* bound: hooks missed
  MaxTime         \* bound on the clock

VARIABLES
  now,            \* bpf_ktime_get_ns(); 0 in a time means "not set"
  rx,             \* per CPU, struct tcp_rx; arr stands for skb->tstamp
  rec,            \* the write's record
  stream,         \* pieces the host has yet to send
  sock,           \* skbs in the socket: arrival, pieces left, offset of the next
  pc,             \* the thread: reading, in a copy, parsing a header, executed
  cpu, left,      \* the thread's CPU, and those it was moved away from
  returned,       \* it came back to one of them
  misses,         \* hooks missed
  headerArr       \* arrival of the skb the first header was copied from

vars == <<now, rx, rec, stream, sock, pc, cpu, left, returned, misses, headerArr>>
world == <<stream, cpu, left, returned, misses>>

OthersCopy == [tid |-> "other", arr |-> 0, enter |-> 0, offset |-> 0]
NoTimes == [DATA_ARR |-> 0, DATA_PROC |-> 0, DATA_DONE |-> 0, DATA_LAST_ARR |-> 0,
            EXEC |-> 0, h2c_busy_ns |-> 0, h2c_skbs |-> 0]

Piece == Head(Head(sock).pieces)

-----------------------------------------------------------------------------
(* The kernel and the network.                                             *)

\* An skb: the next pieces of the stream. Data that follows data in one skb is
\* one piece, as one copy moves it.
Arrive ==
  /\ \E k \in 1 .. Len(stream) :
       /\ \A i \in 1 .. k - 1 : ~ (stream[i] = "data" /\ stream[i + 1] = "data")
       /\ sock' = Append(sock, [arr |-> now, pieces |-> SubSeq(stream, 1, k), offset |-> 0])
       /\ stream' = SubSeq(stream, k + 1, Len(stream))
  /\ UNCHANGED <<now, rx, rec, pc, cpu, left, returned, misses, headerArr>>

\* The copy's piece leaves the socket, and its skb with the last one.
Consumed ==
  LET skb == Head(sock)
  IN  IF Len(skb.pieces) = 1 THEN Tail(sock)
      ELSE <<[skb EXCEPT !.pieces = Tail(@), !.offset = @ + 1]>> \o Tail(sock)

Migrate ==
  /\ pc # "executed" /\ ~ returned
  /\ \E c \in CPUs \ {cpu} :
       /\ cpu' = c
       /\ returned' = (returned \/ c \in left)
  /\ left' = left \cup {cpu}
  /\ UNCHANGED <<now, rx, rec, stream, sock, pc, misses, headerArr>>

Tick ==
  /\ pc # "executed" /\ now < MaxTime
  /\ now' = now + 1
  /\ UNCHANGED <<rx, rec, stream, sock, pc, cpu, left, returned, misses, headerArr>>

-----------------------------------------------------------------------------
(* The hooks.                                                              *)

\* on_copy() on the thread, from an skb that arrived at arr.
on_copy(arr, offset) ==
  rx' = [rx EXCEPT ![cpu] = [tid |-> "worker", arr |-> arr, enter |-> now, offset |-> offset]]

\* on_copy() of another thread, from its socket. What it stores no hook of this
\* thread reads, and its on_copy_done() finds no data of this write.
OtherCopies ==
  /\ pc # "executed"
  /\ \E c \in CPUs : rx' = [rx EXCEPT ![c] = OthersCopy]
  /\ UNCHANGED <<now, rec, world, sock, pc, headerArr>>

\* NTP_CTX_GET(): the slot of this CPU is this thread's. The thread reads no
\* other socket meanwhile, so sk is then the queue's too.
CtxIsMine == rx[cpu].tid = "worker"

CopyStarts ==
  /\ pc = "read" /\ sock # <<>>
  /\ on_copy(Head(sock).arr, Head(sock).offset)
  /\ headerArr' = IF headerArr = 0 THEN Head(sock).arr ELSE headerArr
  /\ pc' = "copy"
  /\ UNCHANGED <<now, rec, world, sock>>

\* The first copy of the data counts from the header's parsing when the header
\* came in the same skb.
CopyFrom(r) == IF rec.h2c_skbs = 0 /\ r.offset > 0 THEN rec.DATA_PROC ELSE r.enter

(* on_copy_done(): rcv_state tells data from a header; a write's record    *)
(* counts it from the first on_h2c() (which sets NTP_F_R2T with DATA_PROC) *)
(* to EXEC.                                                                *)
on_copy_done ==
  LET r == rx[cpu]
  IN  /\ rx' = IF CtxIsMine THEN [rx EXCEPT ![cpu].enter = 0] ELSE rx
      /\ rec' = IF \/ ~ CtxIsMine \/ r.enter = 0
                   \/ Piece # "data"
                   \/ rec.DATA_PROC = 0 \/ rec.EXEC # 0
                   \/ now < CopyFrom(r)
                THEN rec
                ELSE [rec EXCEPT !.h2c_busy_ns = @ + (now - CopyFrom(r)),
                                 !.h2c_skbs = @ + 1,
                                 !.DATA_DONE = now,
                                 !.DATA_LAST_ARR = r.arr]

CopyEnds ==
  /\ pc = "copy"
  /\ on_copy_done
  /\ sock' = Consumed
  /\ pc' = IF Piece = "header" THEN "parse" ELSE "read"
  /\ UNCHANGED <<now, world, headerArr>>

\* The arrival rx_arrival() may read: the skb of the last copy may have been
\* freed since, and hold a later packet's time.
rx_arrivals == IF CtxIsMine THEN rx[cpu].arr .. now ELSE {now}

\* Mutant: every data PDU restarts the data phase.
on_h2c_EveryPdu ==
  \E a \in rx_arrivals : rec' = [rec EXCEPT !.DATA_ARR = a, !.DATA_PROC = now]

on_h2c ==
  IF rec.DATA_PROC # 0 THEN rec' = rec
  ELSE \E a \in rx_arrivals : rec' = [rec EXCEPT !.DATA_ARR = a, !.DATA_PROC = now]

Parse ==
  /\ pc = "parse"
  /\ on_h2c
  /\ pc' = "read"
  /\ UNCHANGED <<now, rx, world, sock, headerArr>>

\* on_exec(), once all data is in: the command goes to the backend.
Execute ==
  /\ pc = "read" /\ stream = <<>> /\ sock = <<>>
  /\ rec' = [rec EXCEPT !.EXEC = now]
  /\ pc' = "executed"
  /\ UNCHANGED <<now, rx, world, sock, headerArr>>

\* A hook that does not run: the step happens, the record and the context stay.
MissedStep ==
  /\ misses < MaxMisses
  /\ \/ /\ pc = "read" /\ sock # <<>>
        /\ pc' = "copy" /\ UNCHANGED sock
     \/ /\ pc = "copy"
        /\ pc' = IF Piece = "header" THEN "parse" ELSE "read"
        /\ sock' = Consumed
     \/ /\ pc = "parse"
        /\ pc' = "read" /\ UNCHANGED sock
  /\ misses' = misses + 1
  /\ headerArr' = IF headerArr = 0 THEN Head(sock).arr ELSE headerArr
  /\ UNCHANGED <<now, rx, rec, stream, cpu, left, returned>>

-----------------------------------------------------------------------------
\* The thread copied the command at time 1, on the CPU it is on.
Init ==
  /\ now = 2 /\ rec = NoTimes
  /\ stream \in Streams /\ sock = <<>> /\ pc = "read"
  /\ cpu \in CPUs /\ left = {}
  /\ rx = [c \in CPUs |-> IF c = cpu THEN [OthersCopy EXCEPT !.tid = "worker", !.arr = 1]
                      ELSE OthersCopy]
  /\ returned = FALSE /\ misses = 0 /\ headerArr = 0

Next ==
  \/ Arrive \/ OtherCopies \/ Migrate \/ Tick
  \/ CopyStarts \/ CopyEnds \/ Parse \/ Execute \/ MissedStep

Spec == Init /\ [][Next]_vars

-----------------------------------------------------------------------------
\* The time counted for the copies lies inside the span from the first header's
\* parsing to the end of the last copy (data_phase() of model.c), so the wait
\* that is left is not negative: whoever preempts the thread, however the data
\* is cut into PDUs and skbs, and whichever one hook is missed.
WriteBusyInside ==
  ~ returned /\ misses <= 1 /\ rec.DATA_DONE # 0 =>
    rec.h2c_busy_ns <= rec.DATA_DONE - rec.DATA_PROC

\* The data phase of an executed write is in order, and its data is not said to
\* have arrived before it did: "the event is lost rather than misattributed"
\* (common.bpf.h), for a thread that was preempted, or moved to another CPU.
WritePhaseInOrder ==
  /\ rec.DATA_DONE # 0 =>
       rec.DATA_PROC <= rec.DATA_DONE /\ rec.DATA_LAST_ARR <= rec.DATA_DONE
  /\ rec.EXEC # 0 /\ rec.DATA_DONE # 0 => rec.DATA_DONE <= rec.EXEC
  /\ ~ returned /\ misses = 0 /\ rec.DATA_PROC # 0 =>
       headerArr <= rec.DATA_ARR /\ rec.DATA_ARR <= rec.DATA_PROC
  /\ ~ returned /\ misses = 0 /\ rec.DATA_DONE # 0 => headerArr <= rec.DATA_LAST_ARR
=============================================================================
