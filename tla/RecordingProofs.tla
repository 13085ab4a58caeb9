-------------------------- MODULE RecordingProofs ---------------------------
(***************************************************************************)
(* record()'s loop uses the joiner as Joiner.tla says, so what is proved   *)
(* of the joiner holds of every recording.                                 *)
(***************************************************************************)
EXTENDS Recording, JoinerProofs

(* An empty ring and a clock at 0.                                         *)
LEMMA RingAndClockInit == Init => RingAndClock
<1> SUFFICES ASSUME Init PROVE RingAndClock
  OBVIOUS
<1>1. Started = {}
  BY DEF Init, Started
<1>2. ring \in Seq(RingRec)
  BY DEF Init
<1> QED BY <1>1, <1>2, RecordingAssumption DEF Init, RingAndClock

(* A record put in the ring, or dropped, leaves records in it.             *)
LEMMA OutputRing ==
  ASSUME ring \in Seq(RingRec), NEW kind \in {"host", "target"}, NEW c \in Cmds,
         NEW ts \in 0..MaxTime, Output(kind, c, ts)
  PROVE  ring' \in Seq(RingRec)
<1>1. [kind |-> kind, cmd |-> c, ts |-> ts] \in RingRec
  BY DEF RingRec
<1> QED BY <1>1 DEF Output

(* Every step keeps records in the ring and the clock in its bounds.       *)
LEMMA RingAndClockStep == RingAndClock /\ [Next]_vars => RingAndClock'
<1> SUFFICES ASSUME RingAndClock, [Next]_vars PROVE RingAndClock'
  OBVIOUS
<1> USE DEF RingAndClock
<1>0. Drain \in Nat /\ MaxTime \in Nat
  BY RecordingAssumption
<1>1. ASSUME NEW c \in Cmds, Start(c) PROVE RingAndClock'
  <2>1. Started' = Started \cup {c} /\ \A d \in Started' : startedAt'[d] \in 0..MaxTime
    BY <1>1 DEF Start, Started
  <2> QED BY <1>1, <2>1 DEF Start, loopVars
<1>2. ASSUME NEW c \in Cmds, TargetEmits(c) PROVE RingAndClock'
  <2>1. ring' \in Seq(RingRec)
    BY <1>2, OutputRing DEF TargetEmits
  <2> QED BY <1>2, <2>1 DEF TargetEmits, loopVars, Started
<1>3. ASSUME NEW c \in Cmds, HostEmits(c) PROVE RingAndClock'
  <2>1. ring' \in Seq(RingRec)
    BY <1>3, OutputRing DEF HostEmits
  <2> QED BY <1>3, <2>1 DEF HostEmits, loopVars, Started
<1>4. CASE OnRecord
  <2>1. ring' \in Seq(RingRec)
    BY <1>4 DEF OnRecord
  <2> QED BY <1>4, <2>1 DEF OnRecord, loopVars, kernelVars, Started
<1>5. CASE Iterate
  BY <1>5 DEF Iterate, kernelVars, Started
<1>6. CASE Stop
  BY <1>0, <1>6 DEF Stop, kernelVars, Started
<1>7. CASE Finish
  BY <1>7 DEF Finish, kernelVars, Started
<1>8. CASE Elapse
  BY <1>0, <1>8 DEF Elapse, kernelVars, Started
<1>9. CASE UNCHANGED vars
  BY <1>9 DEF vars, loopVars, kernelVars, Started
<1> QED BY <1>1, <1>2, <1>3, <1>4, <1>5, <1>6, <1>7, <1>8, <1>9 DEF Next, Done

(* Every step of a recording is a step of the joiner or leaves it alone.   *)
LEMMA JoinerStep == RingAndClock /\ [Next]_vars => [OnlineNext]_joinVars
<1> SUFFICES ASSUME RingAndClock, [Next]_vars PROVE [OnlineNext]_joinVars
  OBVIOUS
<1>1. CASE OnRecord
  <2>1. Head(ring) \in RingRec
    BY <1>1 DEF OnRecord, RingAndClock
  <2>2. 0..MaxTime \subseteq Times
    BY RecordingAssumption
  <2>3. Head(ring).cmd \in Cmds /\ Head(ring).ts \in Times
    BY <2>1, <2>2 DEF RingRec
  <2>4. \/ HostArrives(Head(ring).cmd, Head(ring).ts)
        \/ TargetArrives(Head(ring).cmd, Head(ring).ts)
    BY <1>1 DEF OnRecord
  <2> QED BY <2>3, <2>4 DEF OnlineNext
<1>2. CASE Iterate
  <2>1. now - HostWait \in Times /\ now - TargetExpiry \in Times
    <3>1. HostWait \in Nat /\ TargetExpiry \in Nat /\ MaxTime \in Nat
      BY RecordingAssumption
    <3>2. /\ now - HostWait \in -HostWait .. MaxTime
          /\ now - TargetExpiry \in -TargetExpiry .. MaxTime
      BY <3>1 DEF RingAndClock
    <3> QED BY <3>2, RecordingAssumption
  <2>2. Tick(now - HostWait, now - TargetExpiry) \/ UNCHANGED joinVars
    BY <1>2 DEF Iterate
  <2> QED BY <2>1, <2>2 DEF OnlineNext
<1>3. CASE Finish
  BY <1>3 DEF Finish, OnlineNext
<1>4. CASE ~ (OnRecord \/ Iterate \/ Finish)
  <2>1. UNCHANGED joinVars
    BY <1>4 DEF Next, vars, Start, TargetEmits, HostEmits, Stop, Elapse, Done
  <2> QED BY <2>1
<1> QED BY <1>1, <1>2, <1>3, <1>4

(* A recording implements the joiner's specification: record() calls the   *)
(* joiner with records of the ring and with cut-offs in order, and nothing *)
(* else in the loop touches its tables.                                    *)
THEOREM RecordingImplementsJoiner == Spec => OnlineSpec
<1>1. Init => JoinInit
  BY DEF Init
<1>2. Init => RingAndClock
  BY RingAndClockInit
<1>3. RingAndClock /\ [Next]_vars => RingAndClock'
  BY RingAndClockStep
<1>4. RingAndClock /\ [Next]_vars => [OnlineNext]_joinVars
  BY JoinerStep
<1> QED BY <1>1, <1>2, <1>3, <1>4, PTL DEF Spec, OnlineSpec

(* In every recording, whatever the bounds: each host and target record    *)
(* that came is accounted for in the join statistics of the report.        *)
THEOREM RecordsAccounted == Spec => [](TargetsAccounted /\ HostsAccounted)
<1>1. JoinInv => TargetsAccounted /\ HostsAccounted
  BY DEF JoinInv
<1> QED BY <1>1, RecordingImplementsJoiner, JoinerCorrect, PTL

(* In every recording no record is reported twice, a joined pair agrees in *)
(* its command, and no host and target record that could be joined wait    *)
(* side by side in the joiner's tables.                                    *)
THEOREM RecordsUsedOnce == Spec => [](UsedOnce /\ PairsAgree /\ NoMutualWait)
<1>1. JoinInv => UsedOnce /\ PairsAgree /\ NoMutualWait
  BY DEF JoinInv
<1> QED BY <1>1, RecordingImplementsJoiner, JoinerCorrect, PTL

(* In every recording no bucket of the joiner holds more than its bound    *)
(* (TARGETS_PER_KEY): table_push() evicts before it appends.               *)
THEOREM MemoryBounded == Spec => []BucketsBounded
<1>1. JoinInv => BucketsBounded
  BY DEF JoinInv
<1> QED BY <1>1, RecordingImplementsJoiner, JoinerCorrect, PTL

-----------------------------------------------------------------------------
(* Pairs are of one command.  Records of one id are told apart by nothing  *)
(* but their order, so the invariant follows that order from the kernel,   *)
(* through the ring, into the joiner's tables.                             *)

\* With a command, every earlier one of its key.
Closed(S) == \A c \in S : \A d \in Cmds : d < c /\ KeyOf(d) = KeyOf(c) => d \in S

\* The records of one kind on their way: those in the ring r were output and not
\* yet seen, in the order of the commands of each key.
Stream(kind, r, done, seen) ==
  /\ done \subseteq Cmds /\ seen \subseteq done /\ Closed(done) /\ Closed(seen)
  /\ \A i \in 1..Len(r) : r[i].kind = kind => r[i].cmd \in done
  /\ \A c \in done : c \in seen \/ \E i \in 1..Len(r) : r[i].kind = kind /\ r[i].cmd = c
  /\ \A i, j \in 1..Len(r) :
       i < j /\ r[i].kind = kind /\ r[j].kind = kind /\ KeyOf(r[i].cmd) = KeyOf(r[j].cmd)
         => r[i].cmd < r[j].cmd
  /\ \A c \in seen : \A j \in 1..Len(r) :
       r[j].kind = kind /\ KeyOf(c) = KeyOf(r[j].cmd) => c < r[j].cmd

\* The waiting records of an id are numbered in the order of their commands.
Numbered(table, n) ==
  /\ \A e \in table : e.at < n
  /\ \A e, f \in table : same_command(e.cmd, f.cmd) /\ e.cmd < f.cmd => e.at < f.at

\* A record that came waits, or is in the pair of its command.
WaitsOrPaired(seen, table, pairs) ==
  \A c \in seen : (\E e \in table : e.cmd = c) \/ <<c, c>> \in pairs

\* The two tables, and what was joined so far.
JoinsInTurn ==
  /\ Numbered(hosts, Arrival) /\ Numbered(targets, Arrival)
  /\ WaitsOrPaired(hostsSeen, hosts, reported) /\ WaitsOrPaired(targetsSeen, targets, reported)
  /\ \A p \in reported : p[1] = p[2]

\* From bpf_ringbuf_output() to the tables.
InTurn ==
  /\ Stream("host", ring, hostDone, hostsSeen) /\ Stream("target", ring, targetDone, targetsSeen)
  /\ JoinsInTurn

\* A command starts when the earlier ones of its key have completed on the host.
KeysInTurn ==
  /\ hostDone \subseteq Started
  /\ \A c \in Started : \A d \in Cmds : d < c /\ KeyOf(d) = KeyOf(c) => d \in hostDone

\* With JoinInv and RingAndClock, inductive: until a record is lost, the records of
\* each kind come to the joiner in the order of the commands of a key.
PairInv == drops \in Nat /\ KeysInTurn /\ (NothingLost => InTurn)

\* A record that bpf_ringbuf_output() appends is later than those of its key.
LEMMA StreamOutput ==
  ASSUME NEW kind, NEW r \in Seq(RingRec), NEW done, NEW seen, Stream(kind, r, done, seen),
         NEW c \in Cmds \ done, NEW x \in RingRec, x.kind = kind, x.cmd = c,
         \A d \in Cmds : d < c /\ KeyOf(d) = KeyOf(c) => d \in done
  PROVE  Stream(kind, Append(r, x), done \cup {c}, seen)
  <1> DEFINE a == Append(r, x)
             n == Len(r)
  <1>0. Cmds \subseteq Nat
    BY RecordingAssumption
  <1>1. /\ n \in Nat /\ Len(a) = n + 1 /\ a[n + 1] = x
        /\ \A i \in 1..n : a[i] = r[i]
    OBVIOUS
  <1> HIDE DEF a, n
  <1>2. \A i \in 1..Len(a) : i = n + 1 \/ i \in 1..n
    BY <1>1
  <1>3. n + 1 \in 1..Len(a) /\ \A i \in 1..n : i \in 1..Len(a) /\ i < n + 1
    BY <1>1
  <1>4. /\ done \subseteq Cmds /\ seen \subseteq done /\ Closed(done) /\ Closed(seen)
        /\ \A i \in 1..n : r[i].kind = kind => r[i].cmd \in done
        /\ \A d \in done : d \in seen \/ \E i \in 1..n : r[i].kind = kind /\ r[i].cmd = d
        /\ \A i, j \in 1..n :
             i < j /\ r[i].kind = kind /\ r[j].kind = kind /\ KeyOf(r[i].cmd) = KeyOf(r[j].cmd)
               => r[i].cmd < r[j].cmd
        /\ \A d \in seen : \A j \in 1..n :
             r[j].kind = kind /\ KeyOf(d) = KeyOf(r[j].cmd) => d < r[j].cmd
    BY DEF Stream, n
  <1>5. \A d \in done : KeyOf(d) = KeyOf(c) => d < c
    <2> SUFFICES ASSUME NEW d \in done, KeyOf(d) = KeyOf(c), ~ (d < c) PROVE FALSE
      OBVIOUS
    <2>1. d \in Nat /\ c \in Nat /\ d # c
      BY <1>0, <1>4
    <2>2. c < d
      BY <2>1
    <2>3. QED  BY <1>4, <2>2 DEF Closed
  <1>6. done \cup {c} \subseteq Cmds /\ seen \subseteq done \cup {c} /\ Closed(done \cup {c})
    BY <1>4 DEF Closed
  <1>7. \A i \in 1..Len(a) : a[i].kind = kind => a[i].cmd \in done \cup {c}
    BY <1>1, <1>2, <1>4
  <1>8. \A d \in done \cup {c} : d \in seen \/ \E i \in 1..Len(a) : a[i].kind = kind /\ a[i].cmd = d
    BY <1>1, <1>3, <1>4
  <1>9. ASSUME NEW i \in 1..Len(a), NEW j \in 1..Len(a), i < j, a[i].kind = kind, a[j].kind = kind,
               KeyOf(a[i].cmd) = KeyOf(a[j].cmd)
        PROVE  a[i].cmd < a[j].cmd
    <2>1. i \in 1..n
      BY <1>1, <1>9
    <2>2. CASE j \in 1..n
      BY <1>1, <1>4, <1>9, <2>1, <2>2
    <2>3. CASE j = n + 1
      BY <1>1, <1>4, <1>5, <1>9, <2>1, <2>3
    <2>4. QED  BY <1>2, <2>2, <2>3
  <1>10. ASSUME NEW d \in seen, NEW j \in 1..Len(a), a[j].kind = kind, KeyOf(d) = KeyOf(a[j].cmd)
         PROVE  d < a[j].cmd
    <2>1. CASE j \in 1..n
      BY <1>1, <1>4, <1>10, <2>1
    <2>2. CASE j = n + 1
      BY <1>1, <1>4, <1>5, <1>10, <2>2
    <2>3. QED  BY <1>2, <2>1, <2>2
  <1>11. QED  BY <1>4, <1>6, <1>7, <1>8, <1>9, <1>10 DEF Stream, a

\* A record of the other kind does not disturb the order.
LEMMA StreamOther ==
  ASSUME NEW kind, NEW r \in Seq(RingRec), NEW done, NEW seen, Stream(kind, r, done, seen),
         NEW x \in RingRec, x.kind # kind
  PROVE  Stream(kind, Append(r, x), done, seen)
  <1> DEFINE a == Append(r, x)
             n == Len(r)
  <1>1. /\ n \in Nat /\ Len(a) = n + 1 /\ a[n + 1] = x
        /\ \A i \in 1..n : a[i] = r[i]
    OBVIOUS
  <1> HIDE DEF a, n
  <1>2. \A i \in 1..Len(a) : a[i].kind = kind => i \in 1..n
    <2>1. \A i \in 1..Len(a) : i = n + 1 \/ i \in 1..n
      BY <1>1
    <2>2. QED  BY <1>1, <2>1
  <1>3. \A i \in 1..n : i \in 1..Len(a)
    BY <1>1
  <1>4. /\ done \subseteq Cmds /\ seen \subseteq done /\ Closed(done) /\ Closed(seen)
        /\ \A i \in 1..n : r[i].kind = kind => r[i].cmd \in done
        /\ \A d \in done : d \in seen \/ \E i \in 1..n : r[i].kind = kind /\ r[i].cmd = d
        /\ \A i, j \in 1..n :
             i < j /\ r[i].kind = kind /\ r[j].kind = kind /\ KeyOf(r[i].cmd) = KeyOf(r[j].cmd)
               => r[i].cmd < r[j].cmd
        /\ \A d \in seen : \A j \in 1..n :
             r[j].kind = kind /\ KeyOf(d) = KeyOf(r[j].cmd) => d < r[j].cmd
    BY DEF Stream, n
  <1>5. \A i \in 1..Len(a) : a[i].kind = kind => a[i].cmd \in done
    BY <1>1, <1>2, <1>4
  <1>6. \A d \in done : d \in seen \/ \E i \in 1..Len(a) : a[i].kind = kind /\ a[i].cmd = d
    BY <1>1, <1>3, <1>4
  <1>7. \A i, j \in 1..Len(a) :
          i < j /\ a[i].kind = kind /\ a[j].kind = kind /\ KeyOf(a[i].cmd) = KeyOf(a[j].cmd)
            => a[i].cmd < a[j].cmd
    BY <1>1, <1>2, <1>4
  <1>8. \A d \in seen : \A j \in 1..Len(a) :
          a[j].kind = kind /\ KeyOf(d) = KeyOf(a[j].cmd) => d < a[j].cmd
    BY <1>1, <1>2, <1>4
  <1>9. QED  BY <1>4, <1>5, <1>6, <1>7, <1>8 DEF Stream, a

\* The record on_record() is given comes after all the earlier ones of its key, and
\* has not come before.
LEMMA StreamTaken ==
  ASSUME NEW kind, NEW r \in Seq(RingRec), r # <<>>, NEW done, NEW seen, Stream(kind, r, done, seen),
         Head(r).kind = kind
  PROVE  Stream(kind, Tail(r), done, seen \cup {Head(r).cmd})
  <1> DEFINE u == Tail(r)
             c == Head(r).cmd
             n == Len(r)
  <1>0. Cmds \subseteq Nat
    BY RecordingAssumption
  <1>1. /\ n \in Nat /\ n > 0 /\ Len(u) = n - 1 /\ Head(r) = r[1] /\ c \in Cmds
        /\ \A i \in 1..Len(u) : u[i] = r[i + 1]
    <2>1. Head(r) \in RingRec /\ n \in Nat /\ n > 0 /\ Len(u) = n - 1 /\ Head(r) = r[1]
      OBVIOUS
    <2>2. \A i \in 1..Len(u) : u[i] = r[i + 1]
      OBVIOUS
    <2>3. QED  BY <2>1, <2>2 DEF RingRec
  <1>2. r[1].kind = kind /\ r[1].cmd = c
    BY <1>1
  <1> HIDE DEF u, c, n
  <1>3. 1 \in 1..n /\ \A i \in 1..Len(u) : i + 1 \in 1..n /\ 1 < i + 1
    BY <1>1
  <1>4. \A i \in 1..n : i = 1 \/ (i - 1 \in 1..Len(u) /\ u[i - 1] = r[i] /\ 1 < i)
    <2> SUFFICES ASSUME NEW i \in 1..n, i # 1 PROVE i - 1 \in 1..Len(u) /\ u[i - 1] = r[i] /\ 1 < i
      OBVIOUS
    <2>1. i - 1 \in 1..Len(u) /\ (i - 1) + 1 = i /\ 1 < i
      BY <1>1
    <2>2. QED  BY <1>1, <2>1
  <1>5. /\ done \subseteq Cmds /\ seen \subseteq done /\ Closed(done) /\ Closed(seen)
        /\ \A i \in 1..n : r[i].kind = kind => r[i].cmd \in done
        /\ \A d \in done : d \in seen \/ \E i \in 1..n : r[i].kind = kind /\ r[i].cmd = d
        /\ \A i, j \in 1..n :
             i < j /\ r[i].kind = kind /\ r[j].kind = kind /\ KeyOf(r[i].cmd) = KeyOf(r[j].cmd)
               => r[i].cmd < r[j].cmd
        /\ \A d \in seen : \A j \in 1..n :
             r[j].kind = kind /\ KeyOf(d) = KeyOf(r[j].cmd) => d < r[j].cmd
    BY DEF Stream, n
  <1>6. c \in done
    BY <1>2, <1>3, <1>5
  <1>7. ASSUME NEW d \in Cmds, d < c, KeyOf(d) = KeyOf(c) PROVE d \in seen
    <2>1. d \in done
      BY <1>5, <1>6, <1>7 DEF Closed
    <2>2. ASSUME NEW i \in 1..n, r[i].kind = kind, r[i].cmd = d PROVE FALSE
      <3>1. d \in Nat /\ c \in Nat
        BY <1>0, <1>1
      <3>2. i # 1
        BY <1>2, <1>7, <2>2, <3>1
      <3>3. 1 < i
        BY <1>4, <3>2
      <3>4. c < d
        BY <1>2, <1>3, <1>5, <1>7, <2>2, <3>3
      <3>5. QED  BY <1>7, <3>1, <3>4
    <2>3. QED  BY <1>5, <2>1, <2>2
  <1>8. Closed(seen \cup {c})
    BY <1>5, <1>7 DEF Closed
  <1>9. \A i \in 1..Len(u) : u[i].kind = kind => u[i].cmd \in done
    BY <1>1, <1>3, <1>5
  <1>10. \A d \in done : d \in seen \cup {c} \/ \E i \in 1..Len(u) : u[i].kind = kind /\ u[i].cmd = d
    <2> SUFFICES ASSUME NEW d \in done, d \notin seen, d # c
                 PROVE  \E i \in 1..Len(u) : u[i].kind = kind /\ u[i].cmd = d
      OBVIOUS
    <2>1. PICK i \in 1..n : r[i].kind = kind /\ r[i].cmd = d
      BY <1>5
    <2>2. i # 1
      BY <1>2, <2>1
    <2>3. QED  BY <1>4, <2>1, <2>2
  <1>11. ASSUME NEW i \in 1..Len(u), NEW j \in 1..Len(u), i < j, u[i].kind = kind, u[j].kind = kind,
                KeyOf(u[i].cmd) = KeyOf(u[j].cmd)
         PROVE  u[i].cmd < u[j].cmd
    <2>1. i + 1 \in 1..n /\ j + 1 \in 1..n /\ i + 1 < j + 1
      BY <1>3, <1>11
    <2>2. u[i] = r[i + 1] /\ u[j] = r[j + 1]
      BY <1>1
    <2> DEFINE a == i + 1
               b == j + 1
    <2>3. /\ a \in 1..n /\ b \in 1..n /\ a < b /\ r[a].kind = kind /\ r[b].kind = kind
          /\ KeyOf(r[a].cmd) = KeyOf(r[b].cmd) /\ u[i] = r[a] /\ u[j] = r[b]
      BY <1>11, <2>1, <2>2
    <2> HIDE DEF a, b
    <2>4. QED  BY <1>5, <2>3
  <1>12. ASSUME NEW d \in seen \cup {c}, NEW j \in 1..Len(u), u[j].kind = kind, KeyOf(d) = KeyOf(u[j].cmd)
         PROVE  d < u[j].cmd
    <2>1. j + 1 \in 1..n /\ 1 < j + 1 /\ u[j] = r[j + 1]
      BY <1>1, <1>3
    <2>2. CASE d \in seen
      BY <1>5, <1>12, <2>1, <2>2
    <2>3. CASE d = c
      BY <1>2, <1>3, <1>5, <1>12, <2>1, <2>3
    <2>4. QED  BY <2>2, <2>3
  <1>13. QED  BY <1>5, <1>6, <1>8, <1>9, <1>10, <1>11, <1>12 DEF Stream, u, c

\* A record of the other kind that leaves the ring does not disturb the order.
LEMMA StreamSkipped ==
  ASSUME NEW kind, NEW r \in Seq(RingRec), r # <<>>, NEW done, NEW seen, Stream(kind, r, done, seen),
         Head(r).kind # kind
  PROVE  Stream(kind, Tail(r), done, seen)
  <1> DEFINE u == Tail(r)
             n == Len(r)
  <1>1. /\ n \in Nat /\ n > 0 /\ Len(u) = n - 1 /\ r[1].kind # kind
        /\ \A i \in 1..Len(u) : u[i] = r[i + 1]
    OBVIOUS
  <1> HIDE DEF u, n
  <1>2. \A i \in 1..Len(u) : i + 1 \in 1..n
    BY <1>1
  <1>3. \A i \in 1..n : i = 1 \/ (i - 1 \in 1..Len(u) /\ u[i - 1] = r[i])
    <2> SUFFICES ASSUME NEW i \in 1..n, i # 1 PROVE i - 1 \in 1..Len(u) /\ u[i - 1] = r[i]
      OBVIOUS
    <2>1. i - 1 \in 1..Len(u) /\ (i - 1) + 1 = i
      BY <1>1
    <2>2. QED  BY <1>1, <2>1
  <1>4. /\ done \subseteq Cmds /\ seen \subseteq done /\ Closed(done) /\ Closed(seen)
        /\ \A i \in 1..n : r[i].kind = kind => r[i].cmd \in done
        /\ \A d \in done : d \in seen \/ \E i \in 1..n : r[i].kind = kind /\ r[i].cmd = d
        /\ \A i, j \in 1..n :
             i < j /\ r[i].kind = kind /\ r[j].kind = kind /\ KeyOf(r[i].cmd) = KeyOf(r[j].cmd)
               => r[i].cmd < r[j].cmd
        /\ \A d \in seen : \A j \in 1..n :
             r[j].kind = kind /\ KeyOf(d) = KeyOf(r[j].cmd) => d < r[j].cmd
    BY DEF Stream, n
  <1>5. \A i \in 1..Len(u) : u[i].kind = kind => u[i].cmd \in done
    BY <1>1, <1>2, <1>4
  <1>6. \A d \in done : d \in seen \/ \E i \in 1..Len(u) : u[i].kind = kind /\ u[i].cmd = d
    <2> SUFFICES ASSUME NEW d \in done, d \notin seen
                 PROVE  \E i \in 1..Len(u) : u[i].kind = kind /\ u[i].cmd = d
      OBVIOUS
    <2>1. PICK i \in 1..n : r[i].kind = kind /\ r[i].cmd = d
      BY <1>4
    <2>2. i # 1
      BY <1>1, <2>1
    <2>3. QED  BY <1>3, <2>1, <2>2
  <1>7. ASSUME NEW i \in 1..Len(u), NEW j \in 1..Len(u), i < j, u[i].kind = kind, u[j].kind = kind,
                KeyOf(u[i].cmd) = KeyOf(u[j].cmd)
         PROVE  u[i].cmd < u[j].cmd
    <2>1. i + 1 \in 1..n /\ j + 1 \in 1..n /\ i + 1 < j + 1
      BY <1>2, <1>7
    <2>2. u[i] = r[i + 1] /\ u[j] = r[j + 1]
      BY <1>1
    <2> DEFINE a == i + 1
               b == j + 1
    <2>3. /\ a \in 1..n /\ b \in 1..n /\ a < b /\ r[a].kind = kind /\ r[b].kind = kind
          /\ KeyOf(r[a].cmd) = KeyOf(r[b].cmd) /\ u[i] = r[a] /\ u[j] = r[b]
      BY <1>7, <2>1, <2>2
    <2> HIDE DEF a, b
    <2>4. QED  BY <1>4, <2>3
  <1>8. \A d \in seen : \A j \in 1..Len(u) :
          u[j].kind = kind /\ KeyOf(d) = KeyOf(u[j].cmd) => d < u[j].cmd
    BY <1>1, <1>2, <1>4
  <1>9. QED  BY <1>4, <1>5, <1>6, <1>7, <1>8 DEF Stream, u

\* table_push() of a command's record after those of the earlier ones.
LEMMA NumberedPush ==
  ASSUME NEW table \in SUBSET Entry, NEW n \in Nat, Numbered(table, n), NEW seen \in SUBSET Cmds,
         Closed(seen), \A e \in table : e.cmd \in seen, NEW c \in Cmds \ seen, NEW ts
  PROVE  Numbered(table \cup {[cmd |-> c, ts |-> ts, at |-> n]}, n + 1)
  <1> DEFINE x == [cmd |-> c, ts |-> ts, at |-> n]
  <1>1. x.cmd = c /\ x.at = n
    OBVIOUS
  <1> HIDE DEF x
  <1>2. \A e \in table : e.at \in Nat /\ e.at < n /\ e.cmd \in Cmds
    BY DEF Entry, Numbered
  <1>3. \A e \in table \cup {x} : e.at < n + 1
    BY <1>1, <1>2
  <1>4. ASSUME NEW e \in table \cup {x}, NEW f \in table \cup {x},
               same_command(e.cmd, f.cmd), e.cmd < f.cmd
        PROVE  e.at < f.at
    <2>1. CASE e \in table /\ f \in table
      BY <1>4, <2>1 DEF Numbered
    <2>2. CASE e \in table /\ f = x
      BY <1>1, <1>2, <2>2
    <2>3. CASE e = x /\ f \in table
      <3>1. f.cmd \in seen /\ c < f.cmd /\ KeyOf(c) = KeyOf(f.cmd)
        BY <1>1, <1>4, <2>3 DEF same_command
      <3>2. QED  BY <3>1 DEF Closed
    <2>4. CASE e = x /\ f = x
      BY <1>1, <1>4, <2>4, RecordingAssumption
    <2>5. QED  BY <2>1, <2>2, <2>3, <2>4
  <1>5. QED  BY <1>3, <1>4 DEF Numbered, x

\* table_take() finds the record of the command itself: no earlier one of its id
\* waits any more, and those of later ones are newer.
LEMMA TakenIsOwn ==
  ASSUME NEW table \in SUBSET Entry, IsFiniteSet(table), NEW n, Numbered(table, n),
         NEW seen \in SUBSET Cmds, Closed(seen), \A e \in table : e.cmd \in seen,
         NEW pairs, WaitsOrPaired(seen, table, pairs),
         NEW c \in Cmds, <<c, c>> \notin pairs,
         \A e \in table : same_command(e.cmd, c) => ~ (e.cmd < c),
         NEW t \in Taken(table, c)
  PROVE  t \in table /\ t.cmd = c
  <1> DEFINE same == {e \in table : same_command(e.cmd, c)}
  <1>1. same # {} /\ t = Oldest(same)
    BY DEF Taken
  <1>2. same \in SUBSET Entry /\ IsFiniteSet(same)
    BY FS_Subset
  <1>3. t \in same /\ \A f \in same : t.at <= f.at
    <2> HIDE DEF same
    <2>1. QED  BY <1>1, <1>2, OldestIn
  <1>4. t \in table /\ same_command(t.cmd, c) /\ t.cmd \in seen /\ ~ (t.cmd < c)
    BY <1>3
  <1>5. ASSUME c < t.cmd PROVE FALSE
    <2>1. c \in seen
      BY <1>4, <1>5 DEF Closed, same_command
    <2>2. PICK u \in table : u.cmd = c
      BY <2>1 DEF WaitsOrPaired
    <2>3. u \in same /\ u.at < t.at
      BY <1>4, <1>5, <2>2 DEF same_command, Numbered
    <2>4. t.at \in Nat /\ u.at \in Nat
      BY <1>4, <2>2 DEF Entry
    <2>5. QED  BY <1>3, <2>3, <2>4
  <1>6. t.cmd \in Nat /\ c \in Nat
    BY <1>4, RecordingAssumption
  <1>7. QED  BY <1>4, <1>5, <1>6

\* A host record that comes in its turn is joined with its command's target record
\* (ntp_joiner_host_arrives()), or waits.
LEMMA HostPairs ==
  ASSUME JoinInv, JoinsInTurn, NEW c \in Cmds, NEW ts \in Times, HostArrives(c, ts),
         Closed(hostsSeen), Closed(hostsSeen \cup {c}), Closed(targetsSeen), st'.unmatched = 0
  PROVE  JoinsInTurn'
  <1>1. /\ targets \in SUBSET Entry /\ IsFiniteSet(targets) /\ hosts \in SUBSET Entry /\ IsFiniteSet(hosts)
        /\ hostsSeen \in SUBSET Cmds /\ IsFiniteSet(hostsSeen) /\ targetsSeen \in SUBSET Cmds
        /\ IsFiniteSet(targetsSeen) /\ st \in JoinStats /\ Arrival \in Nat
    BY ArrivalNat DEF JoinInv, JoinTypeOK
  <1>2. /\ Numbered(hosts, Arrival) /\ Numbered(targets, Arrival)
        /\ WaitsOrPaired(hostsSeen, hosts, reported) /\ WaitsOrPaired(targetsSeen, targets, reported)
        /\ \A p \in reported : p[1] = p[2]
    BY DEF JoinsInTurn
  <1>3. /\ \A e \in targets : e.cmd \in targetsSeen
        /\ \A e \in hosts : e.cmd \in hostsSeen
        /\ \A p \in reported : p[1] \in hostsSeen
        /\ \A e, f \in targets : e.cmd = f.cmd => e = f
    BY DEF JoinInv, OneEntryPerRecord
  <1>4. c \notin hostsSeen /\ hostsSeen' = hostsSeen \cup {c} /\ targetsSeen' = targetsSeen
    BY DEF HostArrives
  <1>5. Arrival' = Arrival + 1
    <2>1. Cardinality(hostsSeen') = Cardinality(hostsSeen) + 1 /\ Cardinality(hostsSeen) \in Nat
      BY <1>1, <1>4, SeenOne
    <2>2. Cardinality(targetsSeen) \in Nat
      BY <1>1, FS_CardinalityType
    <2>3. QED  BY <1>4, <2>1, <2>2 DEF Arrival
  <1>6. <<c, c>> \notin reported
    BY <1>3, <1>4
  <1>7. ASSUME NEW e \in targets, same_command(e.cmd, c), e.cmd < c PROVE FALSE
    <2> DEFINE d == e.cmd
    <2>1. d \in Cmds /\ d # c /\ d \in hostsSeen
      <3>1. d \in Cmds /\ d \in Nat /\ c \in Nat
        BY <1>1, RecordingAssumption DEF Entry
      <3>2. d \in hostsSeen \cup {c}
        BY <1>7, <3>1 DEF Closed, same_command
      <3>3. QED  BY <1>7, <3>1, <3>2
    <2>2. CASE \E h \in hosts : h.cmd = d
      BY <2>2 DEF JoinInv, NoMutualWait, same_command
    <2>3. CASE <<d, d>> \in reported
      BY <2>3 DEF JoinInv, UsedOnce
    <2>4. QED  BY <1>2, <2>1, <2>2, <2>3 DEF WaitsOrPaired
  <1>8. CASE Taken(targets, c) = {}
    <2>1. /\ hosts' = table_push(hosts, c, ts) /\ reported' = reported /\ targets' = targets
          /\ st' = [st EXCEPT !.unmatched = st.unmatched + Cardinality(Evicted(hosts, c))]
      BY <1>8 DEF HostArrives
    <2>2. /\ Cardinality(Evicted(hosts, c)) \in {0, 1} /\ Evicted(hosts, c) \subseteq Bucket(hosts, c)
      BY <1>1, <1>3, <1>4, Push
    <2>3. Cardinality(Evicted(hosts, c)) = 0
      BY <1>1, <2>1, <2>2 DEF JoinStats
    <2>4. IsFiniteSet(Evicted(hosts, c))
      <3>1. Evicted(hosts, c) \subseteq hosts
        BY <2>2 DEF Bucket
      <3>2. QED  BY <1>1, <3>1, FS_Subset
    <2>5. Evicted(hosts, c) = {}
      BY <2>3, <2>4, FS_EmptySet
    <2>6. hosts' = hosts \cup {[cmd |-> c, ts |-> ts, at |-> Arrival]}
      BY <2>1, <2>5 DEF table_push
    <2>7. Numbered(hosts', Arrival + 1)
      BY <1>1, <1>2, <1>3, <1>4, <2>6, NumberedPush
    <2>8. Numbered(targets', Arrival + 1)
      BY <1>1, <1>2, <2>1 DEF Numbered, Entry
    <2>9. WaitsOrPaired(hostsSeen', hosts', reported')
      <3> DEFINE x == [cmd |-> c, ts |-> ts, at |-> Arrival]
      <3>1. x \in hosts' /\ x.cmd = c
        BY <2>6
      <3>2. hosts \subseteq hosts' /\ reported' = reported
        BY <2>1, <2>6
      <3> HIDE DEF x
      <3>3. QED  BY <1>2, <1>4, <3>1, <3>2 DEF WaitsOrPaired
    <2>10. QED  BY <1>2, <1>4, <1>5, <2>1, <2>7, <2>8, <2>9 DEF JoinsInTurn
  <1>9. CASE Taken(targets, c) # {}
    <2>1. PICK t \in Taken(targets, c) : reported' = reported \cup {<<c, t.cmd>>} /\ hosts' = hosts
      BY <1>9 DEF HostArrives
    <2>2. t \in targets /\ t.cmd = c
      BY <1>1, <1>2, <1>3, <1>6, <1>7, TakenIsOwn
    <2>3. Taken(targets, c) = {t}
      BY <2>1 DEF Taken
    <2>4. targets' = targets \ {t}
      BY <2>3 DEF HostArrives
    <2>5. Numbered(hosts', Arrival + 1) /\ Numbered(targets', Arrival + 1)
      BY <1>1, <1>2, <2>1, <2>4 DEF Numbered, Entry
    <2>6. WaitsOrPaired(hostsSeen', hosts', reported')
      BY <1>2, <1>4, <2>1, <2>2 DEF WaitsOrPaired
    <2>7. WaitsOrPaired(targetsSeen', targets', reported')
      BY <1>2, <1>4, <2>1, <2>2, <2>4 DEF WaitsOrPaired
    <2>8. \A p \in reported' : p[1] = p[2]
      BY <1>2, <2>1, <2>2
    <2>9. QED  BY <1>5, <2>5, <2>6, <2>7, <2>8 DEF JoinsInTurn
  <1>10. QED  BY <1>8, <1>9

\* So is a target record (ntp_joiner_target_arrives()).
LEMMA TargetPairs ==
  ASSUME JoinInv, JoinsInTurn, NEW c \in Cmds, NEW ts \in Times, TargetArrives(c, ts),
         Closed(targetsSeen), Closed(targetsSeen \cup {c}), Closed(hostsSeen), st'.evicted = 0
  PROVE  JoinsInTurn'
  <1>1. /\ hosts \in SUBSET Entry /\ IsFiniteSet(hosts) /\ targets \in SUBSET Entry /\ IsFiniteSet(targets)
        /\ targetsSeen \in SUBSET Cmds /\ IsFiniteSet(targetsSeen) /\ hostsSeen \in SUBSET Cmds
        /\ IsFiniteSet(hostsSeen) /\ st \in JoinStats /\ Arrival \in Nat
    BY ArrivalNat DEF JoinInv, JoinTypeOK
  <1>2. /\ Numbered(targets, Arrival) /\ Numbered(hosts, Arrival)
        /\ WaitsOrPaired(targetsSeen, targets, reported) /\ WaitsOrPaired(hostsSeen, hosts, reported)
        /\ \A p \in reported : p[1] = p[2]
    BY DEF JoinsInTurn
  <1>3. /\ \A e \in hosts : e.cmd \in hostsSeen
        /\ \A e \in targets : e.cmd \in targetsSeen
        /\ \A p \in reported : p[2] \in targetsSeen \cup {None}
        /\ \A e, f \in hosts : e.cmd = f.cmd => e = f
    BY DEF JoinInv, OneEntryPerRecord
  <1>4. c \notin targetsSeen /\ targetsSeen' = targetsSeen \cup {c} /\ hostsSeen' = hostsSeen
    BY DEF TargetArrives
  <1>5. Arrival' = Arrival + 1
    <2>1. Cardinality(targetsSeen') = Cardinality(targetsSeen) + 1 /\ Cardinality(targetsSeen) \in Nat
      BY <1>1, <1>4, SeenOne
    <2>2. Cardinality(hostsSeen) \in Nat
      BY <1>1, FS_CardinalityType
    <2>3. QED  BY <1>4, <2>1, <2>2 DEF Arrival
  <1>6. <<c, c>> \notin reported
    BY <1>1, <1>3, <1>4, NoneAssumption
  <1>7. ASSUME NEW e \in hosts, same_command(e.cmd, c), e.cmd < c PROVE FALSE
    <2> DEFINE d == e.cmd
    <2>1. d \in Cmds /\ d # c /\ d \in targetsSeen
      <3>1. d \in Cmds /\ d \in Nat /\ c \in Nat
        BY <1>1, RecordingAssumption DEF Entry
      <3>2. d \in targetsSeen \cup {c}
        BY <1>7, <3>1 DEF Closed, same_command
      <3>3. QED  BY <1>7, <3>1, <3>2
    <2>2. CASE \E h \in targets : h.cmd = d
      BY <2>2 DEF JoinInv, NoMutualWait, same_command
    <2>3. CASE <<d, d>> \in reported
      BY <2>3 DEF JoinInv, UsedOnce
    <2>4. QED  BY <1>2, <2>1, <2>2, <2>3 DEF WaitsOrPaired
  <1>8. CASE Taken(hosts, c) = {}
    <2>1. /\ targets' = table_push(targets, c, ts) /\ reported' = reported /\ hosts' = hosts
          /\ st' = [st EXCEPT !.added = @ + 1, !.evicted = @ + Cardinality(Evicted(targets, c))]
      BY <1>8 DEF TargetArrives, add_target
    <2>2. /\ Cardinality(Evicted(targets, c)) \in {0, 1} /\ Evicted(targets, c) \subseteq Bucket(targets, c)
      BY <1>1, <1>3, <1>4, Push
    <2>3. Cardinality(Evicted(targets, c)) = 0
      BY <1>1, <2>1, <2>2 DEF JoinStats
    <2>4. IsFiniteSet(Evicted(targets, c))
      <3>1. Evicted(targets, c) \subseteq targets
        BY <2>2 DEF Bucket
      <3>2. QED  BY <1>1, <3>1, FS_Subset
    <2>5. Evicted(targets, c) = {}
      BY <2>3, <2>4, FS_EmptySet
    <2>6. targets' = targets \cup {[cmd |-> c, ts |-> ts, at |-> Arrival]}
      BY <2>1, <2>5 DEF table_push
    <2>7. Numbered(targets', Arrival + 1)
      BY <1>1, <1>2, <1>3, <1>4, <2>6, NumberedPush
    <2>8. Numbered(hosts', Arrival + 1)
      BY <1>1, <1>2, <2>1 DEF Numbered, Entry
    <2>9. WaitsOrPaired(targetsSeen', targets', reported')
      <3> DEFINE x == [cmd |-> c, ts |-> ts, at |-> Arrival]
      <3>1. x \in targets' /\ x.cmd = c
        BY <2>6
      <3>2. targets \subseteq targets' /\ reported' = reported
        BY <2>1, <2>6
      <3> HIDE DEF x
      <3>3. QED  BY <1>2, <1>4, <3>1, <3>2 DEF WaitsOrPaired
    <2>10. QED  BY <1>2, <1>4, <1>5, <2>1, <2>7, <2>8, <2>9 DEF JoinsInTurn
  <1>9. CASE Taken(hosts, c) # {}
    <2>1. PICK t \in Taken(hosts, c) : reported' = reported \cup {<<t.cmd, c>>} /\ targets' = targets
      BY <1>9 DEF TargetArrives
    <2>2. t \in hosts /\ t.cmd = c
      BY <1>1, <1>2, <1>3, <1>6, <1>7, TakenIsOwn
    <2>3. Taken(hosts, c) = {t}
      BY <2>1 DEF Taken
    <2>4. hosts' = hosts \ {t}
      BY <2>3 DEF TargetArrives
    <2>5. Numbered(targets', Arrival + 1) /\ Numbered(hosts', Arrival + 1)
      BY <1>1, <1>2, <2>1, <2>4 DEF Numbered, Entry
    <2>6. WaitsOrPaired(targetsSeen', targets', reported')
      BY <1>2, <1>4, <2>1, <2>2 DEF WaitsOrPaired
    <2>7. WaitsOrPaired(hostsSeen', hosts', reported')
      BY <1>2, <1>4, <2>1, <2>2, <2>4 DEF WaitsOrPaired
    <2>8. \A p \in reported' : p[1] = p[2]
      BY <1>2, <2>1, <2>2
    <2>9. QED  BY <1>5, <2>5, <2>6, <2>7, <2>8 DEF JoinsInTurn
  <1>10. QED  BY <1>8, <1>9

\* Hosts released or targets expired are losses: a step of the joiner that counts
\* none of them takes nothing out of its tables unpaired.
LEMMA NothingRemoved ==
  ASSUME JoinInv, NEW released \in SUBSET hosts, NEW expired \in SUBSET targets,
         hosts' = hosts \ released, targets' = targets \ expired,
         st'.unmatched = st.unmatched + Cardinality(released),
         st'.expired = st.expired + Cardinality(expired),
         reported' = reported \cup {<<h.cmd, None>> : h \in released},
         st'.unmatched = 0, st'.expired = 0
  PROVE  UNCHANGED <<hosts, targets, reported>>
  <1>1. /\ IsFiniteSet(released) /\ IsFiniteSet(expired)
        /\ Cardinality(released) \in Nat /\ Cardinality(expired) \in Nat
    BY FS_Subset, FS_CardinalityType DEF JoinInv, JoinTypeOK
  <1>2. st.unmatched \in Nat /\ st.expired \in Nat
    BY DEF JoinInv, JoinTypeOK, JoinStats
  <1>3. Cardinality(released) = 0 /\ Cardinality(expired) = 0
    BY <1>1, <1>2
  <1>4. released = {} /\ expired = {}
    BY <1>1, <1>3, FS_EmptySet
  <1>5. QED  BY <1>4

\* A loss counter (struct ntp_join_stats) that is 0 after it was added to was 0 before.
LEMMA SumZero ==
  ASSUME NEW a \in Nat, NEW b \in Nat, a + b = 0
  PROVE  a = 0 /\ b = 0
  OBVIOUS

\* The joiner's loss counters never go back.
LEMMA LossStays ==
  ASSUME JoinInv, [OnlineNext]_joinVars, st'.evicted = 0, st'.expired = 0, st'.unmatched = 0
  PROVE  st.evicted = 0 /\ st.expired = 0 /\ st.unmatched = 0
  <1>1. /\ targets \in SUBSET Entry /\ IsFiniteSet(targets) /\ hosts \in SUBSET Entry /\ IsFiniteSet(hosts)
        /\ st \in JoinStats /\ Arrival \in Nat
    BY ArrivalNat DEF JoinInv, JoinTypeOK
  <1>2. st.evicted \in Nat /\ st.expired \in Nat /\ st.unmatched \in Nat
    BY <1>1 DEF JoinStats
  <1>3. ASSUME NEW c \in Cmds, NEW ts \in Times, TargetArrives(c, ts)
        PROVE  st.evicted = 0 /\ st.expired = 0 /\ st.unmatched = 0
    <2>1. CASE add_target(c, ts)
      <3> DEFINE n == Cardinality(Evicted(targets, c))
      <3>1. n \in Nat
        <4>1. \A e \in targets : e.cmd # c
          BY <1>3 DEF TargetArrives, JoinInv, OneEntryPerRecord
        <4>2. n \in {0, 1}
          BY <1>1, <4>1, Push
        <4>3. QED  BY <4>2
      <3>2. st' = [st EXCEPT !.added = @ + 1, !.evicted = @ + n]
        BY <2>1 DEF add_target
      <3> HIDE DEF n
      <3>3. st'.evicted = st.evicted + n /\ st'.expired = st.expired /\ st'.unmatched = st.unmatched
        BY <1>1, <3>2 DEF JoinStats
      <3>4. QED  BY <1>2, <3>1, <3>3
    <2>2. CASE st' = [st EXCEPT !.added = @ + 1, !.matched = @ + 1]
      BY <1>1, <2>2 DEF JoinStats
    <2>3. QED  BY <1>3, <2>1, <2>2 DEF TargetArrives
  <1>4. ASSUME NEW c \in Cmds, NEW ts \in Times, HostArrives(c, ts)
        PROVE  st.evicted = 0 /\ st.expired = 0 /\ st.unmatched = 0
    <2> DEFINE n == Cardinality(Evicted(hosts, c))
    <2>1. n \in Nat
      <3>1. \A e \in hosts : e.cmd # c
        BY <1>4 DEF HostArrives, JoinInv, OneEntryPerRecord
      <3>2. n \in {0, 1}
        BY <1>1, <3>1, Push
      <3>3. QED  BY <3>2
    <2>2. \/ st' = [st EXCEPT !.unmatched = @ + n]
          \/ st' = [st EXCEPT !.matched = @ + 1]
      BY <1>4 DEF HostArrives
    <2> HIDE DEF n
    <2>3. \/ st'.evicted = st.evicted /\ st'.expired = st.expired /\ st'.unmatched = st.unmatched + n
          \/ st'.evicted = st.evicted /\ st'.expired = st.expired /\ st'.unmatched = st.unmatched
      BY <1>1, <2>2 DEF JoinStats
    <2>4. st.evicted = 0 /\ st.expired = 0
      BY <2>3
    <2>5. st.unmatched = 0 \/ st.unmatched + n = 0
      BY <2>3
    <2>6. QED  BY <1>2, <2>1, <2>4, <2>5, SumZero
  <1>5. ASSUME NEW b \in Times, NEW d \in Times, Tick(b, d)
        PROVE  st.evicted = 0 /\ st.expired = 0 /\ st.unmatched = 0
    <2> DEFINE m == Cardinality(Expired(hosts, b))
               n == Cardinality(Expired(targets, d))
    <2>1. m \in Nat /\ n \in Nat
      BY <1>1, FS_Subset, FS_CardinalityType DEF Expired
    <2>2. st' = [st EXCEPT !.unmatched = @ + m, !.expired = @ + n]
      BY <1>5 DEF Tick
    <2> HIDE DEF m, n
    <2>3. st'.evicted = st.evicted /\ st'.expired = st.expired + n /\ st'.unmatched = st.unmatched + m
      BY <1>1, <2>2 DEF JoinStats
    <2>4. st.evicted = 0 /\ st.expired + n = 0 /\ st.unmatched + m = 0
      BY <2>3
    <2>5. QED  BY <1>2, <2>1, <2>4, SumZero
  <1>6. CASE ReleaseAll
    <2> DEFINE n == Cardinality(hosts)
    <2>1. n \in Nat
      BY <1>1, FS_CardinalityType
    <2>2. st' = [st EXCEPT !.unmatched = @ + n]
      BY <1>6 DEF ReleaseAll, release_hosts
    <2> HIDE DEF n
    <2>3. st'.evicted = st.evicted /\ st'.expired = st.expired /\ st'.unmatched = st.unmatched + n
      BY <1>1, <2>2 DEF JoinStats
    <2>4. st.evicted = 0 /\ st.expired = 0 /\ st.unmatched + n = 0
      BY <2>3
    <2>5. QED  BY <1>2, <2>1, <2>4, SumZero
  <1>7. CASE UNCHANGED joinVars
    BY <1>7 DEF joinVars
  <1>8. QED  BY <1>3, <1>4, <1>5, <1>6, <1>7 DEF OnlineNext
\* An armed recording begins with nothing on its way.
LEMMA PairInit == Init => PairInv
  <1> SUFFICES ASSUME Init PROVE PairInv
    OBVIOUS
  <1>1. /\ ring = <<>> /\ hostDone = {} /\ targetDone = {} /\ hostsSeen = {} /\ targetsSeen = {}
        /\ hosts = {} /\ targets = {} /\ reported = {} /\ Started = {} /\ drops = 0
    BY DEF Init, JoinInit, Started
  <1>2. Len(ring) = 0 /\ 1..Len(ring) = {}
    BY <1>1
  <1>3. Stream("host", ring, hostDone, hostsSeen) /\ Stream("target", ring, targetDone, targetsSeen)
    BY <1>1, <1>2 DEF Stream, Closed
  <1>4. JoinsInTurn
    BY <1>1 DEF JoinsInTurn, Numbered, WaitsOrPaired
  <1>5. QED  BY <1>1, <1>3, <1>4 DEF PairInv, InTurn, KeysInTurn

\* A command is started (ntp_t_req_init()) after the earlier ones of its key completed.
LEMMA StartPairs ==
  ASSUME PairInv, NEW c \in Cmds, Start(c)
  PROVE  PairInv'
  <1>1. Started' = Started \cup {c}
    BY DEF Start, Started
  <1>2. UNCHANGED <<joinVars, hostDone, targetDone, ring, drops>>
    BY DEF Start
  <1>3. KeysInTurn'
    BY <1>1, <1>2 DEF PairInv, KeysInTurn, Start, Earlier, SameKey
  <1>4. NothingLost' => InTurn'
    BY <1>2 DEF PairInv, NothingLost, InTurn, JoinsInTurn, Arrival, joinVars
  <1>5. QED  BY <1>2, <1>3, <1>4 DEF PairInv

\* A record that is output goes behind those of its kind and key; one that is
\* dropped is a loss.
LEMMA EmitPairs ==
  ASSUME PairInv, RingAndClock, NEW c \in Cmds, TargetEmits(c) \/ HostEmits(c)
  PROVE  PairInv'
  <1>1. UNCHANGED <<joinVars, startedAt>> /\ UNCHANGED Started
    BY DEF TargetEmits, HostEmits, Started
  <1>2. KeysInTurn'
    BY <1>1 DEF PairInv, KeysInTurn, TargetEmits, HostEmits
  <1>3. drops' \in Nat /\ (drops' = 0 => drops = 0)
    BY DEF PairInv, TargetEmits, HostEmits, Output
  <1>4. ASSUME NothingLost' PROVE InTurn'
    <2>1. NothingLost /\ drops' = 0
      BY <1>1, <1>3, <1>4 DEF NothingLost, joinVars
    <2>2. /\ Stream("host", ring, hostDone, hostsSeen)
          /\ Stream("target", ring, targetDone, targetsSeen) /\ JoinsInTurn
      BY <2>1 DEF PairInv, InTurn
    <2>3. JoinsInTurn' /\ hostsSeen' = hostsSeen /\ targetsSeen' = targetsSeen
      BY <1>1, <2>2 DEF JoinsInTurn, Arrival, joinVars
    <2>4. drops' # drops + 1
      BY <2>1 DEF NothingLost
    <2>5. CASE TargetEmits(c)
      <3> DEFINE x == [kind |-> "target", cmd |-> c, ts |-> startedAt[c]]
      <3>1. ring' = Append(ring, x)
        BY <2>4, <2>5 DEF TargetEmits, Output
      <3>2. x \in RingRec /\ x.kind = "target" /\ x.cmd = c
        BY <2>5 DEF RingAndClock, RingRec, TargetEmits
      <3> HIDE DEF x
      <3>3. c \in Cmds \ targetDone /\ targetDone' = targetDone \cup {c} /\ hostDone' = hostDone
        BY <2>5 DEF TargetEmits
      <3>4. \A d \in Cmds : d < c /\ KeyOf(d) = KeyOf(c) => d \in targetDone
        BY <2>5 DEF TargetEmits, Earlier, SameKey
      <3>5. ring \in Seq(RingRec)
        BY DEF RingAndClock
      <3>6. Stream("target", Append(ring, x), targetDone \cup {c}, targetsSeen)
        BY <2>2, <3>2, <3>3, <3>4, <3>5, StreamOutput
      <3>7. Stream("host", Append(ring, x), hostDone, hostsSeen)
        BY <2>2, <3>2, <3>5, StreamOther
      <3>8. QED  BY <2>3, <3>1, <3>3, <3>6, <3>7 DEF InTurn, Stream, Closed
    <2>6. CASE HostEmits(c)
      <3> DEFINE x == [kind |-> "host", cmd |-> c, ts |-> now]
      <3>1. ring' = Append(ring, x)
        BY <2>4, <2>6 DEF HostEmits, Output
      <3>2. x \in RingRec /\ x.kind = "host" /\ x.cmd = c
        BY <2>6 DEF RingAndClock, RingRec, HostEmits
      <3> HIDE DEF x
      <3>3. c \in Cmds \ hostDone /\ hostDone' = hostDone \cup {c} /\ targetDone' = targetDone
        BY <2>6 DEF HostEmits
      <3>4. \A d \in Cmds : d < c /\ KeyOf(d) = KeyOf(c) => d \in hostDone
        BY <2>6 DEF HostEmits, PairInv, KeysInTurn
      <3>5. ring \in Seq(RingRec)
        BY DEF RingAndClock
      <3>6. Stream("host", Append(ring, x), hostDone \cup {c}, hostsSeen)
        BY <2>2, <3>2, <3>3, <3>4, <3>5, StreamOutput
      <3>7. Stream("target", Append(ring, x), targetDone, targetsSeen)
        BY <2>2, <3>2, <3>5, StreamOther
      <3>8. QED  BY <2>3, <3>1, <3>3, <3>6, <3>7 DEF InTurn, Stream, Closed
    <2>7. QED  BY <2>5, <2>6
  <1>5. QED  BY <1>2, <1>3, <1>4 DEF PairInv

\* on_record() takes the records of a key in the order of their commands.
LEMMA RecordPairs ==
  ASSUME PairInv, JoinInv, RingAndClock, OnRecord, NothingLost, NothingLost'
  PROVE  InTurn'
  <1> DEFINE x == Head(ring)
             c == Head(ring).cmd
  <1>1. /\ ring \in Seq(RingRec) /\ ring # <<>> /\ ring' = Tail(ring)
        /\ UNCHANGED <<hostDone, targetDone>>
    BY DEF RingAndClock, OnRecord, kernelVars
  <1>2. c \in Cmds /\ x.ts \in Times
    <2>1. x \in RingRec
      BY <1>1
    <2>2. 0..MaxTime \subseteq Times
      BY RecordingAssumption
    <2>3. QED  BY <2>1, <2>2 DEF RingRec
  <1>3. /\ Stream("host", ring, hostDone, hostsSeen)
        /\ Stream("target", ring, targetDone, targetsSeen) /\ JoinsInTurn
    BY DEF PairInv, InTurn
  <1>4. Closed(hostsSeen) /\ Closed(targetsSeen)
    BY <1>3 DEF Stream
  <1>5. st'.unmatched = 0 /\ st'.evicted = 0
    BY DEF NothingLost
  <1>6. CASE x.kind = "host" /\ HostArrives(c, x.ts)
    <2>1. x.kind # "target" /\ hostsSeen' = hostsSeen \cup {c} /\ targetsSeen' = targetsSeen
      BY <1>6 DEF HostArrives
    <2>2. Stream("host", Tail(ring), hostDone, hostsSeen \cup {c})
      BY <1>1, <1>3, <1>6, StreamTaken
    <2>3. Stream("target", Tail(ring), targetDone, targetsSeen)
      BY <1>1, <1>3, <2>1, StreamSkipped
    <2>4. Closed(hostsSeen \cup {c})
      BY <2>2 DEF Stream
    <2>5. JoinsInTurn'
      <3> HIDE DEF x, c
      <3>1. QED  BY <1>2, <1>3, <1>4, <1>5, <1>6, <2>4, HostPairs
    <2>6. QED  BY <1>1, <2>1, <2>2, <2>3, <2>5 DEF InTurn, Stream, Closed
  <1>7. CASE x.kind = "target" /\ TargetArrives(c, x.ts)
    <2>1. x.kind # "host" /\ targetsSeen' = targetsSeen \cup {c} /\ hostsSeen' = hostsSeen
      BY <1>7 DEF TargetArrives
    <2>2. Stream("target", Tail(ring), targetDone, targetsSeen \cup {c})
      BY <1>1, <1>3, <1>7, StreamTaken
    <2>3. Stream("host", Tail(ring), hostDone, hostsSeen)
      BY <1>1, <1>3, <2>1, StreamSkipped
    <2>4. Closed(targetsSeen \cup {c})
      BY <2>2 DEF Stream
    <2>5. JoinsInTurn'
      <3> HIDE DEF x, c
      <3>1. QED  BY <1>2, <1>3, <1>4, <1>5, <1>7, <2>4, TargetPairs
    <2>6. QED  BY <1>1, <2>1, <2>2, <2>3, <2>5 DEF InTurn, Stream, Closed
  <1>8. QED  BY <1>6, <1>7 DEF OnRecord
\* A tick (Iterate) and the end (Finish) that lose nothing leave the tables alone.
LEMMA ReleasePairs ==
  ASSUME JoinInv, RingAndClock, Iterate \/ Finish, NothingLost'
  PROVE  UNCHANGED joinVars \/ UNCHANGED <<hosts, targets, reported, hostsSeen, targetsSeen>>
  <1>0. st \in JoinStats /\ st'.unmatched = 0 /\ st'.expired = 0
    BY DEF JoinInv, JoinTypeOK, NothingLost
  <1>1. CASE ReleaseAll
    <2>1. /\ hosts' = hosts \ hosts /\ targets' = targets \ {} /\ UNCHANGED <<hostsSeen, targetsSeen>>
          /\ st' = [st EXCEPT !.unmatched = @ + Cardinality(hosts)]
          /\ reported' = reported \cup {<<h.cmd, None>> : h \in hosts}
      BY <1>1 DEF ReleaseAll, release_hosts
    <2>2. Cardinality({}) = 0
      BY FS_EmptySet
    <2>3. /\ st'.unmatched = st.unmatched + Cardinality(hosts)
          /\ st'.expired = st.expired + Cardinality({})
      BY <1>0, <2>1, <2>2 DEF JoinStats
    <2>4. hosts \in SUBSET hosts /\ {} \in SUBSET targets
      OBVIOUS
    <2>5. UNCHANGED <<hosts, targets, reported>>
      BY <1>0, <2>1, <2>3, <2>4, NothingRemoved
    <2>6. QED  BY <2>1, <2>5
  <1>2. CASE Tick(now - HostWait, now - TargetExpiry)
    <2> DEFINE released == Expired(hosts, now - HostWait)
               expired == Expired(targets, now - TargetExpiry)
    <2>1. /\ hosts' = hosts \ released /\ targets' = targets \ expired
          /\ st' = [st EXCEPT !.unmatched = @ + Cardinality(released),
                              !.expired = @ + Cardinality(expired)]
          /\ reported' = reported \cup {<<h.cmd, None>> : h \in released}
          /\ UNCHANGED <<hostsSeen, targetsSeen>>
      BY <1>2 DEF Tick
    <2>2. released \in SUBSET hosts /\ expired \in SUBSET targets
      BY DEF Expired
    <2> HIDE DEF released, expired
    <2>3. /\ st'.unmatched = st.unmatched + Cardinality(released)
          /\ st'.expired = st.expired + Cardinality(expired)
      BY <1>0, <2>1 DEF JoinStats
    <2>4. UNCHANGED <<hosts, targets, reported>>
      BY <1>0, <2>1, <2>2, <2>3, NothingRemoved
    <2>5. QED  BY <2>1, <2>4
  <1>3. QED  BY <1>1, <1>2 DEF Iterate, Finish

\* Every step of a recording keeps the order of the records, until one is lost.
LEMMA PairStep == JoinInv /\ RingAndClock /\ PairInv /\ [Next]_vars => PairInv'
  <1> SUFFICES ASSUME JoinInv, RingAndClock, PairInv, [Next]_vars PROVE PairInv'
    OBVIOUS
  <1>1. ASSUME NEW c \in Cmds, Start(c) \/ TargetEmits(c) \/ HostEmits(c) PROVE PairInv'
    BY <1>1, StartPairs, EmitPairs
  <1>2. CASE OnRecord \/ Iterate \/ Finish
    <2>1. UNCHANGED <<drops, startedAt, hostDone, targetDone>> /\ UNCHANGED Started
      BY <1>2 DEF OnRecord, Iterate, Finish, kernelVars, Started
    <2>2. drops' \in Nat /\ KeysInTurn'
      BY <2>1 DEF PairInv, KeysInTurn
    <2>3. ASSUME NothingLost' PROVE InTurn'
      <3>1. NothingLost
        BY <2>1, <2>3, JoinerStep, LossStays DEF NothingLost
      <3>2. CASE OnRecord
        BY <2>3, <3>1, <3>2, RecordPairs
      <3>3. CASE Iterate \/ Finish
        <4>1. UNCHANGED <<hosts, targets, reported, hostsSeen, targetsSeen>> /\ UNCHANGED ring
          BY <2>3, <3>3, ReleasePairs DEF joinVars, Iterate, Finish
        <4>2. QED  BY <2>1, <3>1, <4>1 DEF PairInv, InTurn, JoinsInTurn, Arrival
      <3>4. QED  BY <1>2, <3>2, <3>3
    <2>4. QED  BY <2>2, <2>3 DEF PairInv
  <1>3. CASE Stop \/ Elapse \/ UNCHANGED vars
    <2>1. UNCHANGED <<joinVars, ring, drops, startedAt, hostDone, targetDone>> /\ UNCHANGED Started
      BY <1>3 DEF Stop, Elapse, vars, kernelVars, Started
    <2>2. KeysInTurn' /\ drops' \in Nat
      BY <2>1 DEF PairInv, KeysInTurn
    <2>3. NothingLost' => InTurn'
      BY <2>1 DEF PairInv, NothingLost, InTurn, JoinsInTurn, Arrival, joinVars
    <2>4. QED  BY <2>2, <2>3 DEF PairInv
  <1>4. QED  BY <1>1, <1>2, <1>3 DEF Next, Done

(* In every recording in which no record was dropped, evicted, expired or  *)
(* given up (the counters record() reports), each pair the joiner made is  *)
(* of one command, although join.c tells the commands of one id apart by   *)
(* nothing but the order of their records.                                 *)
THEOREM PairsAreRight == Spec => []PairsAreOneCommand
<1>1. Spec => []JoinInv
  BY RecordingImplementsJoiner, JoinerCorrect, PTL
<1>2. Spec => []RingAndClock
  BY RingAndClockInit, RingAndClockStep, PTL DEF Spec
<1>3. PairInv => PairsAreOneCommand
  BY DEF PairInv, PairsAreOneCommand, InTurn, JoinsInTurn
<1> QED BY <1>1, <1>2, <1>3, PairInit, PairStep, PTL DEF Spec
=============================================================================
