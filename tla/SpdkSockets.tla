---------------------------- MODULE SpdkSockets ----------------------------
(***************************************************************************)
(* Where the times of an SPDK NVMe/TCP record come from.  One SPDK thread    *)
(* drives its sockets on the host or on the target; SPDK notes when a PDU    *)
(* was parsed, queued and taken by sendmsg(), and the BPF object looks up    *)
(* when it arrived, and on the target when it was handed to TCP, in two     *)
(* rings the kernel hooks keep per CPU (bpf/spdk.bpf.h,                       *)
(* bpf/spdk_tcp_{host,target}.bpf.c, lib/{nvme,nvmf}/ of the patch to SPDK). *)
(*                                                                          *)
(* One sampled command is followed among the thread's other traffic: a read   *)
(* on the host, a write with an R2T on the target.  The                       *)
(* clock counts what the thread times: two of its times are never equal.     *)
(* The thread parses all PDUs of a read before it reads again.  The peer     *)
(* answers a PDU at any time after the sendmsg() that carries it began.      *)
(***************************************************************************)
EXTENDS Naturals, Sequences, FiniteSets

CONSTANTS
  Ring,       \* SPDK_RING, a power of 2
  Halvings,   \* steps of the binary search: log2(SPDK_RING) + 1
  Low,        \* 2^32: what the socket layer's 32 bits of a time can hold
  Cpus,
  MaxTime,    \* bound: times the thread takes
  MaxExtra    \* bound: other PDUs, other and partial sends, runs of another SPDK
              \* thread on this CPU and migrations of the thread, together

ASSUME RingAssumption ==
  /\ Ring \in Nat \ {0} /\ Halvings \in Nat /\ 2 ^ Halvings = 2 * Ring
  /\ Low \in Nat \ {0} /\ MaxTime \in Nat

VARIABLES
  side,       \* "host" or "target"
  clock,
  cpu,        \* the CPU the thread runs on
  rx,         \* CPU -> struct spdk_rx of the thread's current tcp_recvmsg()
  recvRing,   \* CPU -> spdk_recv_ring
  sendRing,   \* CPU -> spdk_send_ring (target)
  call,       \* the system call the thread is in
  inq,        \* skbs in the sockets' receive queues
  pdus,       \* PDUs read and not yet parsed
  outq,       \* PDUs of the command queued to the socket
  sent,       \* PDUs taken by sendmsg() whose write has not completed
  step,       \* the command's next step
  t,          \* struct ntprof_times, by event
  rec,        \* the record emitted
  extra,
  (* observers *)
  log,        \* CPU -> what the thread put into recvRing since it took the slot
  real,       \* PDU -> first skb of its read; entry and return of its sendmsg()
  preempted,  \* another SPDK thread ran on this CPU inside one of our calls
  moved       \* the thread has migrated

vars == <<side, clock, cpu, rx, recvRing, sendRing, call, inq, pdus, outq, sent, step, t, rec,
          extra, log, real, preempted, moved>>

\* The command's PDUs, in order.
Path == IF side = "host"
          THEN <<[io |-> "out", pdu |-> "CMD"], [io |-> "in", pdu |-> "C2H"],
                 [io |-> "in", pdu |-> "RSP"]>>
          ELSE <<[io |-> "in", pdu |-> "CMD"], [io |-> "out", pdu |-> "R2T"],
                 [io |-> "in", pdu |-> "H2C"], [io |-> "out", pdu |-> "RSP"]>>
Pdus  == {"CMD", "R2T", "H2C", "C2H", "RSP"}
Zero  == [p \in Pdus |-> 0]
NoRec == [arr |-> Zero, sent |-> Zero, proc |-> Zero]
InCall == call.kind # "none"
NoCall == [kind |-> "none", mine |-> FALSE, first |-> 0]

-----------------------------------------------------------------------------
\* A slot no thread has used; tid is TRUE when the slot is this thread's.
FreshRing == [tid |-> FALSE, n |-> 0, t |-> [i \in 0..Ring-1 |-> 0], v |-> [i \in 0..Ring-1 |-> 0]]

\* Mutant: a thread that takes the slot keeps counting.
spdk_ring_own_KeepsN(r) == [r EXCEPT !.tid = TRUE]

spdk_ring_own(r) == IF r.tid THEN r ELSE [r EXCEPT !.tid = TRUE, !.n = 0]

spdk_ring_add(r, when, val) ==
  [r EXCEPT !.t[r.n % Ring] = when, !.v[r.n % Ring] = val, !.n = @ + 1]

\* Mutant: one halving too few.
Halve_OneLess(r, x) ==
  LET n    == IF r.n < Ring THEN r.n ELSE Ring
      base == r.n - n
      lohi[i \in 0..Halvings] ==
        IF i <= 1 THEN [lo |-> 0, hi |-> n]
        ELSE LET p == lohi[i - 1]
                 mid == (p.lo + p.hi) \div 2
             IN IF p.lo >= p.hi THEN p
                ELSE IF r.t[(base + mid) % Ring] <= x THEN [p EXCEPT !.lo = mid + 1]
                ELSE [p EXCEPT !.hi = mid]
  IN lohi[Halvings].lo

\* The binary search: how many of the ring's entries are at or before x.
Halve(r, x) ==
  LET n    == IF r.n < Ring THEN r.n ELSE Ring
      base == r.n - n
      lohi[i \in 0..Halvings] ==
        IF i = 0 THEN [lo |-> 0, hi |-> n]
        ELSE LET p == lohi[i - 1]
                 mid == (p.lo + p.hi) \div 2
             IN IF p.lo >= p.hi THEN p
                ELSE IF r.t[(base + mid) % Ring] <= x THEN [p EXCEPT !.lo = mid + 1]
                ELSE [p EXCEPT !.hi = mid]
  IN lohi[Halvings].lo

spdk_ring_find(r, x) ==
  LET base == r.n - (IF r.n < Ring THEN r.n ELSE Ring)
      lo   == Halve(r, x)
  IN IF ~r.tid \/ x = 0 \/ lo = 0 THEN 0 ELSE r.v[(base + lo - 1) % Ring]

spdk_arrival(parsed, floor) ==
  LET a == spdk_ring_find(recvRing[cpu], parsed)
  IN IF a # 0 /\ a >= floor /\ a <= parsed THEN a ELSE parsed

spdk_handed(taken, queued) ==
  LET e == spdk_ring_find(sendRing[cpu], taken)
  IN IF e # 0 /\ e >= queued /\ e <= taken THEN e ELSE taken

\* Mutant: the low bits are put onto the base without their difference.
ntprof_widen_Or(lo, base) == IF base = 0 THEN 0 ELSE base - (base % Low) + lo

ntprof_widen(lo, base) == IF base = 0 THEN 0 ELSE base + ((lo + Low - (base % Low)) % Low)

-----------------------------------------------------------------------------
Init ==
  /\ side \in {"host", "target"} /\ clock = 1 /\ cpu = CHOOSE c \in Cpus : TRUE
  /\ rx = [c \in Cpus |-> [tid |-> FALSE, start |-> 0, copied |-> FALSE]]
  /\ recvRing = [c \in Cpus |-> FreshRing] /\ sendRing = [c \in Cpus |-> FreshRing]
  /\ call = NoCall /\ inq = <<>> /\ pdus = <<>> /\ outq = <<>> /\ sent = <<>>
  /\ step = 1
  /\ t = [queued |-> Zero, taken |-> Zero, parsed |-> Zero] /\ rec = NoRec
  /\ extra = 0 /\ moved = FALSE
  /\ log = [c \in Cpus |-> <<>>]
  /\ real = [first |-> Zero, entry |-> Zero, taken |-> Zero] /\ preempted = FALSE

\* The thread takes a time.
Now == clock + 1
TakeTime == clock < MaxTime /\ clock' = Now

NotDone == step <= Len(Path) + 1
Expected(io) == step <= Len(Path) /\ Path[step].io = io

\* The first PDU of the command still with the peer.
Coming == step + Cardinality({i \in 1..Len(inq) : inq[i].pdu # "other"})
               + Cardinality({i \in 1..Len(pdus) : pdus[i].pdu # "other"})

\* A packet with a PDU arrives: the command's next one, once what the peer
\* answers went to TCP, or another's.
Arrive ==
  /\ NotDone
  /\ \/ /\ Coming <= Len(Path) /\ Path[Coming].io = "in"
        /\ \A i \in 1..Coming - 1 : Path[i].io = "out" => real.entry[Path[i].pdu] # 0
        /\ inq' = Append(inq, [pdu |-> Path[Coming].pdu, arr |-> clock])
        /\ extra' = extra
     \/ /\ extra < MaxExtra /\ extra' = extra + 1
        /\ inq' = Append(inq, [pdu |-> "other", arr |-> clock])
  /\ UNCHANGED <<side, clock, cpu, rx, recvRing, sendRing, call, pdus, outq, sent, step, t, rec,
                 log, real, preempted, moved>>
\* tcp_recvmsg() begins, on a socket with data (a call that copies nothing
\* leaves no trace in the ring).
spdk_recvmsg ==
  /\ NotDone /\ ~InCall /\ pdus = <<>> /\ inq # <<>> /\ TakeTime
  /\ call' = [NoCall EXCEPT !.kind = "recv"]
  /\ rx' = [rx EXCEPT ![cpu] = [tid |-> TRUE, start |-> Now, copied |-> FALSE]]
  /\ UNCHANGED <<side, cpu, recvRing, sendRing, inq, pdus, outq, sent, step, t, rec, extra, log,
                 real, preempted, moved>>
\* The call copies an skb; the first one's arrival goes into the ring.
spdk_copy ==
  /\ call.kind = "recv" /\ inq # <<>>
  /\ LET skb   == Head(inq)
         first == IF call.first = 0 THEN skb.arr ELSE call.first
         add   == rx[cpu].tid /\ ~rx[cpu].copied
         own   == spdk_ring_own(recvRing[cpu])
     IN /\ inq' = Tail(inq)
        /\ pdus' = Append(pdus, [pdu |-> skb.pdu, first |-> first])
        /\ call' = [call EXCEPT !.first = first]
        /\ rx' = IF add THEN [rx EXCEPT ![cpu].copied = TRUE] ELSE rx
        /\ recvRing' = IF add THEN [recvRing EXCEPT
                                     ![cpu] = spdk_ring_add(own, rx[cpu].start, skb.arr)]
                              ELSE recvRing
        /\ log' = IF add
                    THEN [log EXCEPT ![cpu] = Append(IF recvRing[cpu].tid THEN @ ELSE <<>>,
                                                     [t |-> rx[cpu].start, v |-> skb.arr])]
                    ELSE log
  /\ UNCHANGED <<side, clock, cpu, sendRing, outq, sent, step, t, rec, extra, real, preempted,
                 moved>>
\* The thread parses the next PDU it has read.
Parse ==
  /\ ~InCall /\ pdus # <<>> /\ TakeTime
  /\ pdus' = Tail(pdus)
  /\ LET p == Head(pdus) IN
       IF p.pdu = "other" THEN UNCHANGED <<t, step, real>>
       ELSE /\ t' = [t EXCEPT !.parsed[p.pdu] = Now]
            /\ real' = [real EXCEPT !.first[p.pdu] = p.first]
            /\ step' = step + 1
  /\ UNCHANGED <<side, cpu, rx, recvRing, sendRing, call, inq, outq, sent, rec, extra, log,
                 preempted, moved>>
\* The command's next PDU is queued to the socket (SUBMIT, H2C_START,
\* R2T_QUEUED, RSP_QUEUED).
QueuePdu ==
  /\ ~InCall /\ Expected("out") /\ TakeTime
  /\ t' = [t EXCEPT !.queued[Path[step].pdu] = Now]
  /\ outq' = Append(outq, Path[step].pdu)
  /\ step' = step + 1
  /\ UNCHANGED <<side, cpu, rx, recvRing, sendRing, call, inq, pdus, sent, rec, extra, log,
                 real, preempted, moved>>
\* tcp_sendmsg() begins, with what is queued to the command's socket or on
\* another socket.
spdk_sendmsg ==
  /\ NotDone /\ ~InCall /\ TakeTime
  /\ \/ /\ outq # <<>>
        /\ call' = [NoCall EXCEPT !.kind = "send", !.mine = TRUE]
        /\ real' = [real EXCEPT !.entry[Head(outq)] = Now]
        /\ extra' = extra
     \/ /\ extra < MaxExtra /\ extra' = extra + 1
        /\ call' = [NoCall EXCEPT !.kind = "send"]
        /\ real' = real
  /\ sendRing' = IF side = "target"
                   THEN [sendRing EXCEPT ![cpu] = spdk_ring_add(spdk_ring_own(@), Now, Now)]
                   ELSE sendRing
  /\ UNCHANGED <<side, cpu, rx, recvRing, inq, pdus, outq, sent, step, t, rec, log, preempted,
                 moved>>
\* The call returns.  sendmsg() took the whole PDU (spdk_sock_request_pend()
\* keeps the low bits of the time) or only a part, to be sent again.
Return ==
  /\ InCall /\ (call.kind = "recv" => call.first # 0)
  /\ call' = NoCall
  /\ \/ /\ call.mine /\ TakeTime
        /\ sent' = Append(sent, [pdu |-> Head(outq), lo |-> Now % Low])
        /\ real' = [real EXCEPT !.taken[Head(outq)] = Now]
        /\ outq' = Tail(outq) /\ extra' = extra
     \/ /\ call.mine
        /\ extra < MaxExtra /\ extra' = extra + 1
        /\ UNCHANGED <<clock, sent, real, outq>>
     \/ /\ ~call.mine
        /\ UNCHANGED <<clock, sent, real, outq, extra>>
  /\ UNCHANGED <<side, cpu, rx, recvRing, sendRing, inq, pdus, step, t, rec, log, preempted,
                 moved>>
\* The write completes, at once or after the kernel's zero-copy notification:
\* the time sendmsg() took the PDU is filed.
PduSent ==
  /\ ~InCall /\ sent # <<>>
  /\ LET p == Head(sent) IN
       t' = [t EXCEPT !.taken[p.pdu] = ntprof_widen(p.lo, t.queued[p.pdu])]
  /\ sent' = Tail(sent)
  /\ UNCHANGED <<side, clock, cpu, rx, recvRing, sendRing, call, inq, pdus, outq, step, rec,
                 extra, log, real, preempted, moved>>
\* The records the probes make of the command's times.  On the host the
\* response is processed when the command is done.
ntp_u_nvme_tcp_done ==
  [proc |-> [t.parsed EXCEPT !["RSP"] = Now], sent |-> t.taken,
   arr  |-> [p \in Pdus |-> spdk_arrival(t.parsed[p], t.queued["CMD"])]]

ntp_u_nvmf_tcp_done ==
  [proc |-> t.parsed, sent |-> [p \in Pdus |-> spdk_handed(t.taken[p], t.queued[p])],
   arr  |-> [p \in Pdus |-> spdk_arrival(t.parsed[p], IF p = "H2C" THEN t.queued["R2T"] ELSE 0)]]

\* The command is done.  The probe makes a record, unless the object is
\* disarmed, the filter leaves the command out or the ring buffer is full.
Done ==
  /\ ~InCall /\ step = Len(Path) + 1 /\ outq = <<>> /\ sent = <<>>
  /\ IF side = "host" THEN TakeTime ELSE clock' = clock
  /\ \/ rec' = IF side = "host" THEN ntp_u_nvme_tcp_done ELSE ntp_u_nvmf_tcp_done
     \/ rec' = rec
  /\ step' = step + 1
  /\ UNCHANGED <<side, cpu, rx, recvRing, sendRing, call, inq, pdus, outq, sent, t,
                 extra, log, real, preempted, moved>>
-----------------------------------------------------------------------------
\* Another SPDK thread runs on this CPU: it reads nothing, or reads data and
\* sends, and takes the slots it uses.
Foreign ==
  /\ NotDone /\ extra < MaxExtra /\ extra' = extra + 1
  /\ LET theirs == [FreshRing EXCEPT !.n = 1, !.t[0] = clock, !.v[0] = clock] IN
     \E data \in BOOLEAN :
       /\ rx' = [rx EXCEPT ![cpu] = [tid |-> FALSE, start |-> clock, copied |-> data]]
       /\ recvRing' = IF data THEN [recvRing EXCEPT ![cpu] = theirs] ELSE recvRing
       /\ sendRing' = IF data /\ side = "target" THEN [sendRing EXCEPT ![cpu] = theirs]
                                                 ELSE sendRing
  /\ preempted' = (preempted \/ InCall)
  /\ UNCHANGED <<side, clock, cpu, call, inq, pdus, outq, sent, step, t, rec, log, real, moved>>
\* The scheduler moves the thread.
Move ==
  /\ NotDone /\ extra < MaxExtra /\ extra' = extra + 1 /\ moved' = TRUE
  /\ cpu' \in Cpus \ {cpu}
  /\ UNCHANGED <<side, clock, rx, recvRing, sendRing, call, inq, pdus, outq, sent, step, t, rec,
                 log, real, preempted>>
Next ==
  \/ Arrive \/ spdk_recvmsg \/ spdk_copy \/ Parse
  \/ QueuePdu \/ spdk_sendmsg \/ Return \/ PduSent \/ Done
  \/ Foreign \/ Move

Spec == Init /\ [][Next]_vars

TypeOK ==
  /\ clock \in 1..MaxTime /\ cpu \in Cpus /\ step \in 1..Len(Path) + 2
  /\ \A c \in Cpus : recvRing[c].n \in Nat /\ sendRing[c].n \in Nat

-----------------------------------------------------------------------------
\* FindIsLatest.  While the slot is the thread's, the search in the ring
\* returns what a scan of the thread's last Ring reads would: the arrival of
\* the latest one begun at or before x, or nothing; full, wrapped around,
\* taken over by another thread and taken back.
FindIsLatest ==
  \A c \in Cpus, x \in 1..clock :
    LET l    == log[c]
        kept == {i \in 1..Len(l) : i > Len(l) - Ring /\ l[i].t <= x}
    IN recvRing[c].tid =>
         spdk_ring_find(recvRing[c], x) =
           IF kept = {} THEN 0 ELSE l[CHOOSE i \in kept : \A j \in kept : j <= i].v

Undisturbed == ~moved /\ ~preempted
In  == {p \in Pdus : rec.proc[p] # 0}
Out == {p \in Pdus : rec.sent[p] # 0}

\* ArrivalOfItsRead.  A PDU's arrival in a record is that of the first skb of
\* the read that brought it ("which moves at most the spread of that read",
\* docs/design.md:486-488), or its parsing when that is not known any more;
\* never another read's, and an answer's never before the command left.
ArrivalOfItsRead ==
  Undisturbed => \A p \in In :
    /\ rec.arr[p] \in {real.first[p], t.parsed[p]} /\ rec.arr[p] <= rec.proc[p]
    /\ side = "host" => rec.arr[p] >= t.queued["CMD"]

\* SentByItsCall.  A PDU's sent time is the return (or on the target the
\* beginning) of the sendmsg() that took the whole PDU, whenever the write
\* completion comes, unless it waited in the socket for 2^32 ns or more.
SentByItsCall ==
  Undisturbed => \A p \in Out :
    real.taken[p] - t.queued[p] < Low
      => \/ rec.sent[p] = real.taken[p]
         \/ side = "target" /\ rec.sent[p] = real.entry[p]

\* MigratedGetsParseTime.  "a reactor that migrated gets the parse time as
\* arrival" (docs/design.md:489-490).
MigratedGetsParseTime ==
  ~preempted => \A p \in In : rec.arr[p] \in {real.first[p], t.parsed[p]}
=============================================================================
