-------------------------- MODULE HostQueuesProofs --------------------------
(***************************************************************************)
(* InflightCovers of HostQueues for any requests, any size of `counted` and *)
(* any number of dispatches and timeouts.  The two uncount()s race on the   *)
(* flags, but only over UNSENT: an element of `counted` keeps INFLIGHT as   *)
(* long as it exists, and so does every copy of its flags a thread has      *)
(* read.  That makes INFLIGHT and being in `counted` the same, and the       *)
(* completion, which alone removes an element, the only one to decrement.    *)
(***************************************************************************)
EXTENDS HostQueues, FiniteSetTheorems, TLAPS

FlagsKept ==
  /\ \A r \in Counted : "INFLIGHT" \in counted[r]
  /\ sending.step = "read" => "INFLIGHT" \in sending.flags
  /\ completing.step = "read" => "INFLIGHT" \in completing.flags

\* The completion's request stays in `counted`, and is not dispatched again,
\* until the completion is over.
Completing ==
  completing.step = "read" =>
    completing.rq \in Counted /\ stage[completing.rq] = "completing"

Counts ==
  /\ IsFiniteSet(Counted) /\ IsFiniteSet(Outstanding)
  /\ qs.inflight = Cardinality(Counted) + failed
  /\ Cardinality(Outstanding \ Counted) <= failed

QueueInv == TypeOK /\ FlagsKept /\ Completing /\ Counts

\* What an uncount() of one thread holds.
Uncount == [rq : Rqs \cup {NoRq}, step : {"", "start", "read"}, flags : SUBSET Bits,
            dangling : BOOLEAN]

-----------------------------------------------------------------------------
\* TypeOK with the two threads' uncount()s apart.
LEMMA TypesAre ==
  TypeOK <=> /\ qs \in [unsent : Int, inflight : Int]
             /\ Counted \subseteq Rqs /\ counted \in [Counted -> SUBSET Bits]
             /\ stage \in [Rqs -> Stages]
             /\ sending \in Uncount /\ completing \in Uncount
             /\ depth \in [Rqs -> [unsent : 0..U16Max, inflight : 0..U16Max]]
             /\ others \in [Rqs -> Nat]
             /\ failed \in 0..dispatches /\ dispatches \in 0..MaxDispatches
             /\ timeouts \in 0..MaxTimeouts
  BY DEF TypeOK, Uncount

\* uncount() looking a request up leaves the thread idle, or with the flags it read.
LEMMA IdleIsUncount == Idle \in Uncount
  BY DEF Idle, Uncount

\* uncount() looks the request up: it finds its element's flags, or nothing.
LEMMA ReadsIs ==
  ASSUME NEW u \in Uncount, counted \in [Counted -> SUBSET Bits]
  PROVE  /\ Reads(u) \in Uncount
         /\ \/ u.rq \in Counted /\ Reads(u).rq = u.rq /\ Reads(u).flags = counted[u.rq]
            \/ u.rq \notin Counted /\ Reads(u) = Idle
  <1>1. CASE u.rq \in Counted
    BY <1>1 DEF Reads, Uncount
  <1>2. CASE u.rq \notin Counted
    BY <1>2, IdleIsUncount DEF Reads
  <1>3. QED  BY <1>1, <1>2

\* A thread that begins with a request.
LEMMA StartIs ==
  ASSUME NEW r \in Rqs
  PROVE  /\ [Idle EXCEPT !.rq = r, !.step = "start"] \in Uncount
         /\ [Idle EXCEPT !.rq = r, !.step = "start"].rq = r
         /\ [Idle EXCEPT !.rq = r, !.step = "start"].step = "start"
  BY DEF Idle, Uncount

\* Being in `counted` is being counted as in flight.
LEMMA WithIsCounted ==
  ASSUME FlagsKept
  PROVE  With("INFLIGHT") = Counted
  BY DEF FlagsKept, With

\* The inductive invariant covers the types and the count of inflight.
LEMMA QueueInvImplies ==
  ASSUME QueueInv
  PROVE  TypeOK /\ InflightCovers
  BY WithIsCounted DEF QueueInv, Counts, InflightCovers

\* What ntp_clamp_u16() returns fits into 16 bits.
LEMMA ClampIs ==
  ASSUME NEW v \in Int
  PROVE  ntp_clamp_u16(v) \in 0..U16Max
  <1>1. U16Max \in Nat
    BY DEF U16Max
  <1>2. QED  BY <1>1 DEF ntp_clamp_u16

\* Adding one element adds at most one to the size.
LEMMA AddOne ==
  ASSUME NEW S, NEW x, IsFiniteSet(S)
  PROVE  /\ IsFiniteSet(S \cup {x}) /\ Cardinality(S \cup {x}) \in Nat
         /\ Cardinality(S \cup {x}) <= Cardinality(S) + 1
  <1>1. /\ IsFiniteSet(S \cup {x})
        /\ Cardinality(S \cup {x}) = IF x \in S THEN Cardinality(S) ELSE Cardinality(S) + 1
    BY FS_AddElement
  <1>2. Cardinality(S) \in Nat
    BY FS_CardinalityType
  <1>3. QED  BY <1>1, <1>2

\* Counts is kept by a step that takes no request into `counted` or out of it,
\* and adds none to the outstanding ones.
LEMMA CountsKept ==
  ASSUME Counts, failed \in Nat, Counted' = Counted, Outstanding' \subseteq Outstanding,
         qs'.inflight = qs.inflight, failed' = failed
  PROVE  Counts'
  <1>1. IsFiniteSet(Outstanding')
    BY FS_Subset DEF Counts
  <1>2. Outstanding' \ Counted' \subseteq Outstanding \ Counted
    OBVIOUS
  <1>3. IsFiniteSet(Outstanding \ Counted)
    BY FS_Difference DEF Counts
  <1>4. /\ Cardinality(Outstanding' \ Counted') <= Cardinality(Outstanding \ Counted)
        /\ Cardinality(Outstanding' \ Counted') \in Nat /\ Cardinality(Outstanding \ Counted) \in Nat
    BY <1>2, <1>3, FS_Subset, FS_CardinalityType
  <1>5. QED
    BY <1>1, <1>4 DEF Counts

-----------------------------------------------------------------------------
\* host_queue_rq(): a request that is not counted is counted, or counted as one
\* whose insertion failed; one dispatched again after BUSY is not counted twice.
LEMMA DispatchKeeps ==
  ASSUME QueueInv, MaxDispatches \in Nat, NEW r \in Rqs,
         \E busy \in BOOLEAN : host_queue_rq(r, busy)
  PROVE  QueueInv'
  <1>0. /\ TypeOK /\ FlagsKept /\ Completing /\ IsFiniteSet(Counted) /\ IsFiniteSet(Outstanding)
        /\ qs.inflight = Cardinality(Counted) + failed
        /\ Cardinality(Outstanding \ Counted) <= failed
        /\ counted \in [Counted -> SUBSET Bits] /\ stage \in [Rqs -> Stages]
        /\ dispatches \in Nat /\ failed \in Nat /\ failed <= dispatches
        /\ qs \in [unsent : Int, inflight : Int]
    BY TypesAre DEF QueueInv, Counts
  <1>1. IsFiniteSet(Outstanding \ {r}) /\ Cardinality(Outstanding \ {r}) \in Nat
    BY <1>0, FS_Difference, FS_CardinalityType
  <1>2. Outstanding' = Outstanding \cup {r}
    BY <1>0 DEF host_queue_rq, Outstanding
  <1>3. IsFiniteSet(Outstanding')
    BY <1>0, <1>2, FS_AddElement
  <1>4. counted' = counted \/ counted' = [x \in Counted \cup {r} |-> IF x = r THEN Bits ELSE counted[x]]
    BY DEF host_queue_rq
  <1>5. UNCHANGED <<sending, completing, timeouts>>
    BY DEF host_queue_rq
  <1>6. TypeOK'
    <2>1. counted' \in [Counted' -> SUBSET Bits] /\ Counted' \subseteq Rqs
      BY <1>0, <1>4, TypesAre DEF Counted, Bits
    <2>2. /\ qs' \in [unsent : Int, inflight : Int] /\ failed' \in 0..dispatches'
          /\ dispatches' \in 0..MaxDispatches
      BY <1>0 DEF host_queue_rq
    <2>3. stage' \in [Rqs -> Stages]
      BY <1>0 DEF host_queue_rq, Stages
    <2>4. others' \in [Rqs -> Nat]
      BY <1>0, <1>1, TypesAre DEF host_queue_rq
    <2>5. depth' \in [Rqs -> [unsent : 0..U16Max, inflight : 0..U16Max]]
      <3>0. U16Max \in Nat
        BY DEF U16Max
      <3>1. /\ ntp_clamp_u16(qs.unsent) \in 0..U16Max /\ ntp_clamp_u16(qs.inflight) \in 0..U16Max
            /\ NoDepth \in [unsent : 0..U16Max, inflight : 0..U16Max]
        BY <1>0, <3>0, ClampIs DEF NoDepth
      <3>2. depth \in [Rqs -> [unsent : 0..U16Max, inflight : 0..U16Max]]
        BY <1>0, TypesAre
      <3>3. QED
        BY <3>1, <3>2 DEF host_queue_rq
    <2>6. sending' \in Uncount /\ completing' \in Uncount /\ timeouts' \in 0..MaxTimeouts
      BY <1>0, <1>5, TypesAre DEF Uncount, Bits
    <2>7. QED  BY <2>1, <2>2, <2>3, <2>4, <2>5, <2>6, TypesAre DEF TypeOK, Uncount
  <1>7. FlagsKept' /\ Completing'
    BY <1>0, <1>4, <1>5 DEF host_queue_rq, FlagsKept, Completing, Bits, Counted
  <1>8. Counts'
    <2>0. /\ Cardinality(Outstanding \ Counted) \in Nat /\ IsFiniteSet(Outstanding \ Counted)
          /\ Cardinality(Counted) \in Nat
      BY <1>0, FS_Difference, FS_CardinalityType
    <2>1. CASE r \in Counted
      <3>1. qs' = qs /\ failed' = failed /\ Counted' = Counted
        BY <2>1 DEF host_queue_rq, Counted
      <3>2. Outstanding' \ Counted' = Outstanding \ Counted
        BY <1>2, <2>1, <3>1
      <3>3. QED  BY <1>0, <1>3, <3>1, <3>2 DEF Counts
    <2>2. CASE r \notin Counted /\ Cardinality(Counted) < CountedMax
      <3>1. qs'.inflight = qs.inflight + 1 /\ failed' = failed /\ Counted' = Counted \cup {r}
        BY <2>2 DEF host_queue_rq, Counted
      <3>2. IsFiniteSet(Counted') /\ Cardinality(Counted') = Cardinality(Counted) + 1
        BY <1>0, <2>2, <3>1, FS_AddElement
      <3>3. Outstanding' \ Counted' \subseteq Outstanding \ Counted
        BY <1>2, <3>1
      <3>4. /\ Cardinality(Outstanding' \ Counted') <= Cardinality(Outstanding \ Counted)
            /\ Cardinality(Outstanding' \ Counted') \in Nat
        BY <2>0, <3>3, FS_Subset, FS_CardinalityType
      <3>5. QED  BY <1>0, <1>3, <2>0, <3>1, <3>2, <3>4 DEF Counts
    <2>3. CASE r \notin Counted /\ ~ (Cardinality(Counted) < CountedMax)
      <3>1. qs'.inflight = qs.inflight + 1 /\ failed' = failed + 1 /\ Counted' = Counted
        BY <2>3 DEF host_queue_rq, Counted
      <3>2. Outstanding' \ Counted' = (Outstanding \ Counted) \cup {r}
        BY <1>2, <2>3, <3>1
      <3>3. /\ Cardinality(Outstanding' \ Counted') <= Cardinality(Outstanding \ Counted) + 1
            /\ Cardinality(Outstanding' \ Counted') \in Nat
        BY <2>0, <3>2, AddOne
      <3>4. QED  BY <1>0, <1>3, <2>0, <3>1, <3>3 DEF Counts
    <2>4. QED  BY <2>1, <2>2, <2>3
  <1>9. QED  BY <1>6, <1>7, <1>8 DEF QueueInv

\* A command is sent, timed out, or its completion has read the flags.
LEMMA StageKeeps ==
  ASSUME QueueInv, MaxTimeouts \in Nat, NEW r \in Rqs, Send(r) \/ Complete(r) \/ Timeout(r)
  PROVE  QueueInv'
  <1>0. /\ TypeOK /\ FlagsKept /\ Completing /\ Counts
        /\ counted \in [Counted -> SUBSET Bits] /\ stage \in [Rqs -> Stages]
        /\ sending \in Uncount /\ completing \in Uncount
        /\ failed \in Nat /\ timeouts \in 0..MaxTimeouts
    BY TypesAre DEF QueueInv
  <1>1. UNCHANGED <<qs, counted, depth, others, failed, dispatches>>
    BY DEF Send, Complete, Timeout
  <1>2. TypeOK'
    <2>1. stage' \in [Rqs -> Stages] /\ timeouts' \in 0..MaxTimeouts
      BY <1>0 DEF Send, Complete, Timeout, Stages
    <2>2. sending' \in Uncount /\ completing' \in Uncount
      <3>1. CASE Send(r)
        BY <1>0, <3>1, StartIs DEF Send
      <3>2. CASE Complete(r)
        BY <1>0, <3>2, StartIs, ReadsIs DEF Complete
      <3>3. CASE Timeout(r)
        BY <1>0, <3>3 DEF Timeout
      <3>4. QED  BY <3>1, <3>2, <3>3
    <2>3. QED  BY <1>0, <1>1, <2>1, <2>2, TypesAre DEF TypeOK, Counted, Uncount
  <1>3. FlagsKept'
    BY <1>0, <1>1 DEF Send, Complete, Timeout, Reads, Idle, FlagsKept, Counted
  <1>4. Completing'
    <2>1. Counted' = Counted
      BY <1>1 DEF Counted
    <2>2. CASE Complete(r)
      <3> DEFINE u == [Idle EXCEPT !.rq = r, !.step = "start"]
      <3>1. u \in Uncount /\ u.rq = r
        BY StartIs
      <3>2. completing' = Reads(u)
        BY <2>2 DEF Complete
      <3> HIDE DEF u
      <3>3. CASE r \in Counted
        <4>1. completing'.rq = r
          BY <1>0, <3>1, <3>2, <3>3, ReadsIs
        <4>2. stage'[r] = "completing"
          BY <1>0, <2>2, <3>3 DEF Complete
        <4>3. QED  BY <2>1, <3>3, <4>1, <4>2 DEF Completing
      <3>4. CASE r \notin Counted
        <4>1. completing' = Idle
          BY <1>0, <3>1, <3>2, <3>4, ReadsIs
        <4>2. QED  BY <4>1 DEF Completing, Idle
      <3>5. QED  BY <3>3, <3>4
    <2>3. CASE Send(r) \/ Timeout(r)
      <3>1. /\ completing' = completing /\ stage[r] # "completing"
            /\ \A x \in Rqs \ {r} : stage'[x] = stage[x]
        BY <1>0, <2>3 DEF Send, Timeout
      <3>2. Counted \subseteq Rqs
        BY <1>0, TypesAre
      <3>3. QED  BY <1>0, <2>1, <3>1, <3>2 DEF Completing
    <2>4. QED  BY <2>2, <2>3
  <1>5. Outstanding' \subseteq Outstanding
    BY <1>0 DEF Send, Complete, Timeout, Outstanding
  <1>6. Counts'
    BY <1>0, <1>1, <1>5, CountsKept DEF Counted
  <1>7. QED  BY <1>2, <1>3, <1>4, <1>6 DEF QueueInv

\* The sender's uncount(): whatever element its write reaches keeps INFLIGHT.
LEMMA SenderKeeps ==
  ASSUME QueueInv, SendReads \/ SendWrites
  PROVE  QueueInv'
  <1>0. /\ TypeOK /\ FlagsKept /\ Completing /\ Counts
        /\ counted \in [Counted -> SUBSET Bits] /\ Counted = DOMAIN counted
        /\ sending \in Uncount /\ failed \in Nat /\ qs \in [unsent : Int, inflight : Int]
    BY TypesAre DEF QueueInv, Counted
  <1>1. UNCHANGED <<stage, completing, depth, others, failed, dispatches, timeouts>>
    BY DEF SendReads, SendWrites
  <1>2. \/ /\ sending' = Reads(sending) /\ counted' = counted /\ qs' = qs
        \/ /\ sending.step = "read" /\ sending' = Idle
           /\ qs' = [unsent |-> IF "UNSENT" \in sending.flags \cap {"UNSENT"}
                                THEN qs.unsent - 1 ELSE qs.unsent,
                     inflight |-> qs.inflight]
           /\ \E e : counted' = [x \in Counted |-> IF x = e THEN sending.flags \ {"UNSENT"}
                                                            ELSE counted[x]]
    BY DEF SendReads, SendWrites, Writes
  <1>3. Counted' = Counted /\ counted' \in [Counted -> SUBSET Bits]
    <2>1. CASE counted' = counted
      BY <1>0, <2>1 DEF Counted
    <2>2. ASSUME NEW e, counted' = [x \in Counted |-> IF x = e THEN sending.flags \ {"UNSENT"}
                                                              ELSE counted[x]]
          PROVE  Counted' = Counted /\ counted' \in [Counted -> SUBSET Bits]
      <3>1. sending.flags \ {"UNSENT"} \in SUBSET Bits
        BY <1>0 DEF Uncount
      <3>2. counted' \in [Counted -> SUBSET Bits]
        BY <1>0, <2>2, <3>1
      <3>3. DOMAIN counted' = Counted
        BY <2>2
      <3>4. QED  BY <3>2, <3>3 DEF Counted
    <2>3. QED  BY <1>2, <2>1, <2>2
  <1>4. qs' \in [unsent : Int, inflight : Int] /\ qs'.inflight = qs.inflight
    BY <1>0, <1>2
  <1>5. sending' \in Uncount
    BY <1>0, <1>2, ReadsIs, IdleIsUncount
  <1>6. FlagsKept'
    <2>1. CASE sending' = Reads(sending) /\ counted' = counted
      <3>1. \/ sending.rq \in Counted /\ sending'.flags = counted[sending.rq]
            \/ sending' = Idle
        BY <1>0, <2>1, ReadsIs
      <3>2. sending'.step = "read" => "INFLIGHT" \in sending'.flags
        <4>1. Idle.step = ""
          BY DEF Idle
        <4>2. \A x \in Counted : "INFLIGHT" \in counted[x]
          BY <1>0 DEF FlagsKept
        <4>3. QED  BY <3>1, <4>1, <4>2
      <3>3. QED  BY <1>0, <1>1, <1>3, <2>1, <3>2 DEF FlagsKept
    <2>2. CASE /\ sending.step = "read" /\ sending' = Idle
               /\ \E e : counted' = [x \in Counted |-> IF x = e THEN sending.flags \ {"UNSENT"}
                                                                 ELSE counted[x]]
      <3>1. PICK e : counted' = [x \in Counted |-> IF x = e THEN sending.flags \ {"UNSENT"}
                                                             ELSE counted[x]]
        BY <2>2
      <3>2. ASSUME NEW x \in Counted PROVE "INFLIGHT" \in counted'[x]
        BY <1>0, <2>2, <3>1 DEF FlagsKept
      <3>3. sending'.step = ""
        BY <2>2 DEF Idle
      <3>4. QED  BY <1>0, <1>1, <1>3, <3>2, <3>3 DEF FlagsKept
    <2>3. QED  BY <1>2, <2>1, <2>2
  <1>7. TypeOK'
    BY <1>0, <1>1, <1>3, <1>4, <1>5, TypesAre DEF TypeOK, Uncount
  <1>8. Completing'
    BY <1>0, <1>1, <1>3 DEF Completing
  <1>9. Counts'
    BY <1>0, <1>1, <1>3, <1>4, CountsKept DEF Outstanding
  <1>10. QED  BY <1>6, <1>7, <1>8, <1>9 DEF QueueInv

\* The completion's: it decrements once, for the element it removes.
LEMMA CompletionKeeps ==
  ASSUME QueueInv, CompleteWrites
  PROVE  QueueInv'
  <1> DEFINE r == completing.rq
  <1>0. /\ TypeOK /\ FlagsKept /\ Completing /\ IsFiniteSet(Counted) /\ IsFiniteSet(Outstanding)
        /\ qs.inflight = Cardinality(Counted) + failed
        /\ Cardinality(Outstanding \ Counted) <= failed
        /\ counted \in [Counted -> SUBSET Bits] /\ stage \in [Rqs -> Stages]
        /\ Counted \subseteq Rqs /\ Counted = DOMAIN counted
        /\ sending \in Uncount /\ failed \in Nat /\ qs \in [unsent : Int, inflight : Int]
    BY TypesAre DEF QueueInv, Counts, Counted
  <1>1. /\ r \in Counted /\ stage[r] = "completing" /\ "INFLIGHT" \in completing.flags
        /\ UNCHANGED <<depth, others, failed, dispatches, timeouts>>
        /\ stage' = [stage EXCEPT ![r] = "free"] /\ completing' = Idle
    BY <1>0 DEF CompleteWrites, Completing, FlagsKept
  <1>2. counted' = [x \in Counted \ {r} |-> counted[x]]
    BY DEF CompleteWrites, Writes
  <1>3. Counted' = Counted \ {r} /\ counted' \in [Counted' -> SUBSET Bits]
    BY <1>0, <1>2 DEF Counted
  <1>4. qs' \in [unsent : Int, inflight : Int] /\ qs'.inflight = qs.inflight - 1
    BY <1>0, <1>1 DEF CompleteWrites, Writes, Bits
  <1>5. /\ sending' \in Uncount /\ sending'.step = sending.step
        /\ sending'.flags = sending.flags
    BY <1>0 DEF CompleteWrites, Uncount
  <1>6. TypeOK'
    <2>1. completing' \in Uncount /\ stage' \in [Rqs -> Stages] /\ Counted' \subseteq Rqs
      BY <1>0, <1>1, <1>3 DEF Idle, Uncount, Stages
    <2>2. QED
      BY <1>0, <1>1, <1>3, <1>4, <1>5, <2>1, TypesAre DEF TypeOK, Uncount
  <1>7. FlagsKept' /\ Completing'
    BY <1>0, <1>1, <1>2, <1>3, <1>5 DEF FlagsKept, Completing, Idle
  <1>8. Outstanding' = Outstanding /\ r \notin Outstanding
    BY <1>0, <1>1 DEF Outstanding
  <1>9. Counts'
    <2>1. IsFiniteSet(Counted') /\ Cardinality(Counted') = Cardinality(Counted) - 1
      BY <1>0, <1>1, <1>3, FS_RemoveElement
    <2>2. Outstanding' \ Counted' = Outstanding \ Counted
      BY <1>3, <1>8
    <2>3. Cardinality(Counted) \in Nat
      BY <1>0, FS_CardinalityType
    <2>4. failed' = failed
      BY <1>1
    <2>5. qs'.inflight = Cardinality(Counted') + failed'
      BY <1>0, <1>4, <2>1, <2>3, <2>4
    <2>6. QED  BY <1>0, <1>8, <2>1, <2>2, <2>4, <2>5 DEF Counts
  <1>10. QED  BY <1>6, <1>7, <1>9 DEF QueueInv

-----------------------------------------------------------------------------
\* InflightCovers for every number of requests, dispatches and timeouts and
\* every size of `counted`: the number of commands not yet completed that a
\* record takes from the queue's counters is never too small, though the two
\* uncount()s share no lock (bpf/host.bpf.h: host_queue_rq(), uncount()).
THEOREM InflightNeverTooSmall ==
  ASSUME MaxDispatches \in Nat, MaxTimeouts \in Nat
  PROVE  Spec => [](TypeOK /\ InflightCovers)
  <1>1. Init => QueueInv
    <2> SUFFICES ASSUME Init
                 PROVE  QueueInv
      OBVIOUS
    <2>1. Counted = {} /\ Outstanding = {}
      BY DEF Init, Counted, Outstanding
    <2>2. IsFiniteSet({}) /\ Cardinality({}) = 0
      BY FS_EmptySet
    <2>3. TypeOK
      <3>1. Counted \subseteq Rqs /\ counted \in [Counted -> SUBSET Bits]
        BY DEF Init, Counted
      <3>2. /\ qs \in [unsent : Int, inflight : Int] /\ stage \in [Rqs -> Stages]
            /\ others \in [Rqs -> Nat]
        BY DEF Init, Stages
      <3>3. depth \in [Rqs -> [unsent : 0..U16Max, inflight : 0..U16Max]]
        <4>1. NoDepth \in [unsent : 0..U16Max, inflight : 0..U16Max]
          BY DEF NoDepth, U16Max
        <4>2. QED  BY <4>1 DEF Init
      <3>4. sending \in Uncount /\ completing \in Uncount
        BY IdleIsUncount DEF Init
      <3>5. failed \in 0..dispatches /\ dispatches \in 0..MaxDispatches /\ timeouts \in 0..MaxTimeouts
        BY DEF Init
      <3>6. QED  BY <3>1, <3>2, <3>3, <3>4, <3>5, TypesAre
    <2>4. FlagsKept /\ Completing
      BY <2>1 DEF Init, FlagsKept, Completing, Idle
    <2>5. Counts
      BY <2>1, <2>2 DEF Init, Counts
    <2>6. QED  BY <2>3, <2>4, <2>5 DEF QueueInv
  <1>2. QueueInv /\ [Next]_vars => QueueInv'
    <2> SUFFICES ASSUME QueueInv, [Next]_vars
                 PROVE  QueueInv'
      OBVIOUS
    <2>1. CASE UNCHANGED vars
      BY <2>1 DEF vars, QueueInv, TypeOK, FlagsKept, Completing, Counts, Counted, Outstanding
    <2>2. QED
      BY <2>1, DispatchKeeps, StageKeeps, SenderKeeps, CompletionKeeps DEF Next, Rest
  <1>3. QueueInv => TypeOK /\ InflightCovers
    BY QueueInvImplies
  <1>4. QED
    BY <1>1, <1>2, <1>3, PTL DEF Spec
=============================================================================
