--------------------------- MODULE ReadDataProofs ---------------------------
(***************************************************************************)
(* For any number of reads, copies and any times: the time counted for a    *)
(* read lies inside its data phase, and the data phase is in order.         *)
(* Neither is inductive.  PhaseInv adds where the call is with respect to   *)
(* each read: what it counts for began after all that was counted for that  *)
(* read before, because a call counts from its start only before any other  *)
(* read's data or completion.                                               *)
(***************************************************************************)
EXTENDS ReadData, TLAPS

Times == [C2H_PROC : Nat, C2H_DONE : Nat, RSP_PROC : Nat, busy : Nat, skbs : Nat]

RxType == [open : BOOLEAN, enter : Nat, data_rq : Reads \cup {NoRead}, busy_from : Nat,
           completed : SUBSET Reads]

Types ==
  /\ now \in Nat \ {0}
  /\ rx \in RxType
  /\ rec \in [Reads -> Times]

\* The call: closed, or begun at a time that has passed; it counts for a read
\* from a time inside the call on.
CallInv ==
  /\ rx.enter <= now /\ rx.busy_from <= now
  /\ IF rx.open THEN rx.enter # 0 ELSE rx.data_rq = NoRead
  /\ rx.data_rq # NoRead => rx.busy_from # 0

\* Read r's data phase.
ReadInv(r) ==
  /\ rec[r].C2H_PROC <= now /\ rec[r].C2H_DONE <= now
  /\ rec[r].C2H_DONE = 0 => rec[r].busy = 0
  /\ rec[r].C2H_DONE # 0 => rec[r].C2H_PROC \in 1..rec[r].C2H_DONE
  /\ rec[r].C2H_PROC # 0 /\ rx.data_rq # r => rec[r].C2H_DONE # 0
  /\ rx.data_rq = r => rec[r].C2H_PROC # 0 /\ rec[r].RSP_PROC = 0
  /\ rec[r].RSP_PROC # 0 => rec[r].C2H_PROC # 0 /\ rec[r].C2H_DONE <= rec[r].RSP_PROC
  /\ rx.open /\ rx.data_rq = NoRead /\ rx.completed = {}
       => rec[r].C2H_PROC <= rx.enter /\ rec[r].C2H_DONE <= rx.enter

\* A read not copied after a completion in the same call.
BusyInv(r) ==
  /\ rec[r].C2H_DONE # 0 => rec[r].busy <= rec[r].C2H_DONE - rec[r].C2H_PROC
  /\ rx.data_rq = r => /\ rec[r].C2H_PROC <= rx.busy_from
                       /\ rec[r].C2H_DONE <= rx.busy_from

PhaseInv ==
  /\ Types
  /\ CallInv
  /\ \A r \in Reads : ReadInv(r)
  /\ \A r \in Reads \ cut : BusyInv(r)

\* What host_data_done() leaves: the read the call counts for is charged the
\* time since busy_from, and every other read is as it was.
LEMMA DataDone ==
  ASSUME PhaseInv
  PROVE  /\ host_data_done(rec) \in [Reads -> Times]
         /\ \A q \in Reads : rx.data_rq # q => host_data_done(rec)[q] = rec[q]
         /\ \A q \in Reads : rx.data_rq = q =>
              /\ host_data_done(rec)[q].C2H_DONE = now
              /\ host_data_done(rec)[q].busy = rec[q].busy + (now - rx.busy_from)
              /\ host_data_done(rec)[q].C2H_PROC = rec[q].C2H_PROC
              /\ host_data_done(rec)[q].RSP_PROC = rec[q].RSP_PROC
<1> DEFINE H == host_data_done(rec)
<1>0. /\ now \in Nat /\ rx \in RxType /\ rec \in [Reads -> Times]
      /\ rx.busy_from <= now /\ (rx.data_rq # NoRead => rx.busy_from # 0)
  BY DEF PhaseInv, Types, CallInv
<1>1. CASE rx.data_rq = NoRead
  <2>1. H = rec
    BY <1>1 DEF host_data_done
  <2> QED
    BY <2>1, <1>0, <1>1, ReadsAssumption
<1>2. CASE rx.data_rq # NoRead
  <2> DEFINE d == rx.data_rq
             b == now - rx.busy_from
             D == [C2H_PROC |-> rec[d].C2H_PROC, C2H_DONE |-> now,
                   RSP_PROC |-> rec[d].RSP_PROC, busy |-> rec[d].busy + b,
                   skbs |-> rec[d].skbs + 1]
  <2>0. /\ d \in Reads /\ b \in Nat /\ rec[d] \in Times
        /\ rx.busy_from # 0 /\ ~(now < rx.busy_from)
    BY <1>0, <1>2 DEF RxType
  <2>1. H = [rec EXCEPT ![d] = D]
    BY <1>0, <1>2, <2>0 DEF host_data_done, Times
  <2>2. D \in Times
    BY <1>0, <2>0 DEF Times
  <2>3. H \in [Reads -> Times] /\ H[d] = D
    BY <2>1, <2>2, <1>0, <2>0
  <2>4. \A q \in Reads : d # q => H[q] = rec[q]
    BY <2>1, <1>0
  <2> QED
    BY <2>3, <2>4
<1> QED
  BY <1>1, <1>2

-----------------------------------------------------------------------------
\* PhaseInv holds before the first call.
LEMMA PhaseInit == Init => PhaseInv
<1> SUFFICES ASSUME Init PROVE PhaseInv
  OBVIOUS
<1>1. Types
  BY DEF Init, Types, RxType, Times, Closed, NoTimes
<1>2. CallInv
  BY DEF Init, CallInv, Closed
<1>3. ASSUME NEW r \in Reads PROVE ReadInv(r) /\ BusyInv(r)
  BY <1>3, ReadsAssumption DEF Init, ReadInv, BusyInv, Closed, NoTimes
<1> QED
  BY <1>1, <1>2, <1>3 DEF PhaseInv

\* A copy changes the read the call counts for: the one it counted for is
\* charged, and r is counted for from BusyFrom(r) on.
LEMMA CopyStep ==
  ASSUME PhaseInv, NEW r \in Reads, on_copy(r)
  PROVE  PhaseInv'
<1>0. /\ now \in Nat \ {0} /\ rx \in RxType /\ rec \in [Reads -> Times] /\ now' = now
      /\ CallInv /\ (\A q \in Reads : ReadInv(q)) /\ (\A q \in Reads \ cut : BusyInv(q))
      /\ rx.open /\ rec[r].RSP_PROC = 0
      /\ cut' = IF rx.completed = {} THEN cut ELSE cut \cup {r}
      /\ r # NoRead
  BY ReadsAssumption DEF PhaseInv, Types, on_copy
<1>1. CASE rx.data_rq = r
  <2>1. rec' = rec /\ rx' = rx
    BY <1>1 DEF on_copy
  <2> QED
    BY <1>0, <2>1 DEF PhaseInv, Types, CallInv, ReadInv, BusyInv
<1>2. CASE rx.data_rq # r
  <2> DEFINE H == host_data_done(rec)
             D == [H[r] EXCEPT !.C2H_PROC = IF @ = 0 THEN now ELSE @]
  <2>0. /\ rec' = [H EXCEPT ![r].C2H_PROC = IF @ = 0 THEN now ELSE @]
        /\ rx' = [rx EXCEPT !.data_rq = r, !.busy_from = BusyFrom(r)]
    BY <1>2 DEF on_copy
  <2>1. /\ H \in [Reads -> Times] /\ H[r] = rec[r]
        /\ \A q \in Reads : rx.data_rq # q => H[q] = rec[q]
        /\ \A q \in Reads : rx.data_rq = q =>
             /\ H[q].C2H_DONE = now /\ H[q].busy = rec[q].busy + (now - rx.busy_from)
             /\ H[q].C2H_PROC = rec[q].C2H_PROC /\ H[q].RSP_PROC = rec[q].RSP_PROC
    BY <1>2, DataDone
  <2> HIDE DEF H
  <2>2. /\ rec' \in [Reads -> Times]
        /\ \A q \in Reads : q # r => rec'[q] = H[q]
        /\ rec'[r].C2H_PROC = IF rec[r].C2H_PROC = 0 THEN now ELSE rec[r].C2H_PROC
        /\ rec'[r].C2H_DONE = rec[r].C2H_DONE /\ rec'[r].busy = rec[r].busy
        /\ rec'[r].RSP_PROC = 0
    BY <2>0, <2>1, <1>0 DEF Times
  <2>3. BusyFrom(r) \in Nat \ {0} /\ BusyFrom(r) <= now
    BY <1>0 DEF BusyFrom, RxType, CallInv
  <2>4. /\ rx' \in RxType /\ rx'.data_rq = r /\ rx'.busy_from = BusyFrom(r)
        /\ rx'.open /\ rx'.enter = rx.enter /\ rx'.completed = rx.completed
    BY <2>0, <2>3, <1>0 DEF RxType
  <2>5. Types' /\ CallInv'
    BY <2>2, <2>3, <2>4, <1>0 DEF Types, CallInv
  <2>6. ASSUME NEW q \in Reads, q # r PROVE ReadInv(q)' /\ (q \notin cut' => BusyInv(q)')
    <3>1. rec'[q] = H[q] /\ ReadInv(q) /\ (q \notin cut' => BusyInv(q)) /\ rec[q] \in Times
      BY <2>2, <2>6, <1>0
    <3>2. CASE rx.data_rq # q
      BY <3>1, <3>2, <2>1, <2>4, <2>6, <1>0 DEF ReadInv, BusyInv
    <3>3. CASE rx.data_rq = q
      <4>1. /\ H[q].C2H_DONE = now /\ H[q].busy = rec[q].busy + (now - rx.busy_from)
            /\ H[q].C2H_PROC = rec[q].C2H_PROC /\ H[q].RSP_PROC = rec[q].RSP_PROC
        BY <3>3, <2>1
      <4>2. ReadInv(q)'
        BY <4>1, <3>1, <3>3, <2>4, <2>6, <1>0 DEF ReadInv, Times
      <4>3. BusyInv(q) => BusyInv(q)'
        BY <4>1, <3>1, <3>3, <2>4, <2>6, <1>0 DEF ReadInv, BusyInv, CallInv, RxType, Times
      <4> QED
        BY <4>2, <4>3, <3>1
    <3> QED
      BY <3>2, <3>3
  <2>7. ReadInv(r)'
    BY <2>2, <2>4, <1>0, <1>2 DEF ReadInv, Times
  <2>8. r \notin cut' => BusyInv(r)'
    <3> SUFFICES ASSUME r \notin cut' PROVE BusyInv(r)'
      OBVIOUS
    <3>1. rx.completed = {} /\ BusyInv(r) /\ ReadInv(r) /\ rec[r] \in Times
      BY <1>0
    <3>2. rec'[r].C2H_PROC <= BusyFrom(r) /\ rec'[r].C2H_DONE <= BusyFrom(r)
      BY <3>1, <2>2, <1>0, <1>2 DEF BusyFrom, ReadInv, Times, RxType
    <3>3. rec'[r].C2H_DONE # 0 => rec'[r].busy <= rec'[r].C2H_DONE - rec'[r].C2H_PROC
      BY <3>1, <2>2, <1>0, <1>2 DEF ReadInv, BusyInv, Times
    <3> QED
      BY <3>2, <3>3, <2>4 DEF BusyInv
  <2> QED
    BY <2>5, <2>6, <2>7, <2>8 DEF PhaseInv
<1> QED
  BY <1>1, <1>2

\* A completion ends the data phase of the read it is for.
LEMMA CompleteStep ==
  ASSUME PhaseInv, NEW r \in Reads, host_complete(r)
  PROVE  PhaseInv'
<1> DEFINE R == IF rx.data_rq = r THEN host_data_done(rec) ELSE rec
<1>0. /\ now \in Nat \ {0} /\ rx \in RxType /\ rec \in [Reads -> Times] /\ now' = now
      /\ CallInv /\ (\A q \in Reads : ReadInv(q)) /\ (\A q \in Reads \ cut : BusyInv(q))
      /\ rx.open /\ rec[r].C2H_PROC # 0 /\ rec[r].RSP_PROC = 0 /\ cut' = cut
      /\ r # NoRead
  BY ReadsAssumption DEF PhaseInv, Types, host_complete
<1>1. /\ rec' = [R EXCEPT ![r].RSP_PROC = now]
      /\ rx' = [rx EXCEPT !.data_rq = IF @ = r THEN NoRead ELSE @,
                          !.busy_from = IF rx.data_rq = r THEN 0 ELSE @,
                          !.completed = @ \cup {r}]
  BY DEF host_complete
<1>2. /\ R \in [Reads -> Times]
      /\ \A q \in Reads : q # r => R[q] = rec[q]
      /\ R[r].C2H_PROC = rec[r].C2H_PROC
      /\ IF rx.data_rq = r
           THEN /\ R[r].C2H_DONE = now
                /\ R[r].busy = rec[r].busy + (now - rx.busy_from)
           ELSE R[r] = rec[r]
  BY <1>0, DataDone
<1> HIDE DEF R
<1>3. /\ rec' \in [Reads -> Times]
      /\ \A q \in Reads : q # r => rec'[q] = rec[q]
      /\ rec'[r].RSP_PROC = now /\ rec'[r].C2H_PROC = R[r].C2H_PROC
      /\ rec'[r].C2H_DONE = R[r].C2H_DONE /\ rec'[r].busy = R[r].busy
  BY <1>0, <1>1, <1>2 DEF Times
<1>4. /\ rx' \in RxType /\ rx'.open /\ rx'.enter = rx.enter
      /\ rx'.data_rq = IF rx.data_rq = r THEN NoRead ELSE rx.data_rq
      /\ rx'.busy_from = IF rx.data_rq = r THEN 0 ELSE rx.busy_from
      /\ rx'.completed # {}
  BY <1>0, <1>1 DEF RxType
<1>5. Types' /\ CallInv'
  BY <1>0, <1>3, <1>4 DEF Types, CallInv
<1>6. ASSUME NEW q \in Reads, q # r PROVE ReadInv(q)' /\ (q \notin cut' => BusyInv(q)')
  <2>1. q # NoRead
    BY ReadsAssumption
  <2> QED
    BY <1>0, <1>3, <1>4, <1>6, <2>1 DEF ReadInv, BusyInv
<1>7. ReadInv(r)'
  BY <1>0, <1>2, <1>3, <1>4 DEF ReadInv, Times
<1>8. r \notin cut' => BusyInv(r)'
  <2> SUFFICES ASSUME r \notin cut' PROVE BusyInv(r)'
    OBVIOUS
  <2>1. BusyInv(r) /\ ReadInv(r) /\ rec[r] \in Times
    BY <1>0
  <2> QED
    BY <2>1, <1>0, <1>2, <1>3, <1>4 DEF ReadInv, BusyInv, CallInv, RxType, Times
<1> QED
  BY <1>5, <1>6, <1>7, <1>8 DEF PhaseInv

\* The end of a call charges the read it counts for.
LEMMA ExitStep == ASSUME PhaseInv, on_recv_skb_exit PROVE PhaseInv'
<1> DEFINE H == host_data_done(rec)
<1>0. /\ now \in Nat \ {0} /\ rx \in RxType /\ rec \in [Reads -> Times] /\ now' = now
      /\ CallInv /\ (\A q \in Reads : ReadInv(q)) /\ (\A q \in Reads \ cut : BusyInv(q))
      /\ cut' = cut /\ rec' = H
  BY DEF PhaseInv, Types, on_recv_skb_exit
<1>1. /\ rx' \in RxType /\ ~rx'.open /\ rx'.data_rq = NoRead /\ rx'.enter = 0
      /\ rx'.busy_from = 0
  BY DEF on_recv_skb_exit, Closed, RxType
<1>2. /\ H \in [Reads -> Times]
      /\ \A q \in Reads : rx.data_rq # q => H[q] = rec[q]
      /\ \A q \in Reads : rx.data_rq = q =>
           /\ H[q].C2H_DONE = now /\ H[q].busy = rec[q].busy + (now - rx.busy_from)
           /\ H[q].C2H_PROC = rec[q].C2H_PROC /\ H[q].RSP_PROC = rec[q].RSP_PROC
  BY DataDone
<1> HIDE DEF H
<1>3. Types' /\ CallInv'
  BY <1>0, <1>1, <1>2 DEF Types, CallInv
<1>4. ASSUME NEW q \in Reads PROVE ReadInv(q)' /\ (q \notin cut' => BusyInv(q)')
  <2>1. ReadInv(q) /\ (q \notin cut => BusyInv(q)) /\ rec[q] \in Times /\ q # NoRead
    BY <1>0, ReadsAssumption
  <2>2. CASE rx.data_rq # q
    BY <2>1, <2>2, <1>0, <1>1, <1>2 DEF ReadInv, BusyInv
  <2>3. CASE rx.data_rq = q
    <3>1. ReadInv(q)'
      BY <2>1, <2>3, <1>0, <1>1, <1>2 DEF ReadInv, Times
    <3>2. BusyInv(q) => BusyInv(q)'
      BY <2>1, <2>3, <1>0, <1>1, <1>2 DEF ReadInv, BusyInv, CallInv, RxType, Times
    <3> QED
      BY <2>1, <3>1, <3>2, <1>0
  <2> QED
    BY <2>2, <2>3
<1> QED
  BY <1>3, <1>4 DEF PhaseInv

\* Every step of io_work, and time, preserves PhaseInv.
LEMMA PhaseStep == PhaseInv /\ [Next]_vars => PhaseInv'
<1> SUFFICES ASSUME PhaseInv, [Next]_vars PROVE PhaseInv'
  OBVIOUS
<1>0. /\ now \in Nat \ {0} /\ rx \in RxType /\ rec \in [Reads -> Times]
      /\ CallInv /\ (\A q \in Reads : ReadInv(q)) /\ (\A q \in Reads \ cut : BusyInv(q))
  BY DEF PhaseInv, Types
<1>1. ASSUME NEW r \in Reads, on_copy(r) PROVE PhaseInv'
  BY <1>1, CopyStep
<1>2. ASSUME NEW r \in Reads, host_complete(r) PROVE PhaseInv'
  BY <1>2, CompleteStep
<1>3. CASE on_recv_skb
  <2>1. /\ rx' \in RxType /\ rx'.open /\ rx'.enter = now /\ rx'.data_rq = NoRead
        /\ rx'.busy_from = 0 /\ rec' = rec /\ now' = now /\ cut' = cut
    BY <1>0, <1>3 DEF on_recv_skb, Closed, RxType
  <2>2. Types' /\ CallInv'
    BY <1>0, <2>1 DEF Types, CallInv
  <2>3. ASSUME NEW q \in Reads PROVE ReadInv(q)' /\ (q \notin cut' => BusyInv(q)')
    <3>1. q # NoRead /\ rx.data_rq = NoRead
      BY <1>0, <1>3, ReadsAssumption DEF on_recv_skb, CallInv
    <3> QED
      BY <3>1, <1>0, <2>1 DEF ReadInv, BusyInv
  <2> QED
    BY <2>2, <2>3 DEF PhaseInv
<1>4. CASE on_recv_skb_exit
  BY <1>4, ExitStep
<1>5. CASE Tick
  <2>1. now' = now + 1 /\ rx' = rx /\ rec' = rec /\ cut' = cut
    BY <1>5 DEF Tick
  <2>2. Types' /\ CallInv'
    BY <1>0, <2>1 DEF Types, CallInv, RxType
  <2>3. ASSUME NEW q \in Reads PROVE ReadInv(q)' /\ (q \notin cut' => BusyInv(q)')
    BY <1>0, <2>1 DEF ReadInv, BusyInv, Times
  <2> QED
    BY <2>2, <2>3 DEF PhaseInv
<1>6. CASE UNCHANGED vars
  BY <1>6 DEF vars, PhaseInv, Types, CallInv, ReadInv, BusyInv
<1> QED
  BY <1>1, <1>2, <1>3, <1>4, <1>5, <1>6 DEF Next

\* ReadBusyInside.  For any number of reads, in any interleaving of their data in
\* the skbs: the time on_copy() and host_data_done() count for a read lies inside
\* its data phase, so the wait that data_phase() of model.c derives from it is
\* never negative (for reads not copied after a completion in the same call).
THEOREM ReadBusyInside == Spec => []BusyInsideSpan
<1>1. PhaseInv => BusyInsideSpan
  BY DEF PhaseInv, BusyInv, BusyInsideSpan, Span
<1> QED
  BY <1>1, PhaseInit, PhaseStep, PTL DEF Spec

\* ReadPhaseInOrder.  A completed read's data phase lies between its first copy
\* and its completion, whatever else the calls of io_work handled.
THEOREM ReadPhaseInOrder == Spec => []PhaseInOrder
<1>1. PhaseInv => PhaseInOrder
  <2> SUFFICES ASSUME PhaseInv, NEW r \in Reads, rec[r].RSP_PROC # 0
               PROVE  /\ rec[r].C2H_DONE # 0
                      /\ rec[r].C2H_PROC <= rec[r].C2H_DONE
                      /\ rec[r].C2H_DONE <= rec[r].RSP_PROC
    BY DEF PhaseInOrder
  <2>1. ReadInv(r) /\ rec[r] \in Times
    BY DEF PhaseInv, Types
  <2> QED
    BY <2>1 DEF ReadInv, Times
<1> QED
  BY <1>1, PhaseInit, PhaseStep, PTL DEF Spec
=============================================================================
