---------------------------- MODULE JoinerProofs ----------------------------
(***************************************************************************)
(* The joiner's safety properties, for any set of commands, any bound and  *)
(* any order of arrivals and ticks.                                        *)
(***************************************************************************)
EXTENDS Joiner, FiniteSetTheorems, WellFoundedInduction, TLAPS

(* A finite nonempty set of entries has an oldest one: among the sets of   *)
(* entries older than a given one, a minimal one is empty. So table_push() *)
(* and table_take() drop and take an entry that is in the bucket.          *)
LEMMA OldestIn ==
  ASSUME NEW S \in SUBSET Entry, IsFiniteSet(S), S # {}
  PROVE  Oldest(S) \in S /\ \A f \in S : Oldest(S).at <= f.at
<1> DEFINE Older(e) == {f \in S : f.at < e.at}
           R == StrictSubsetOrdering(S)
           All == {Older(e) : e \in S}
<1>1. IsWellFoundedOn(R, SUBSET S)
  BY FS_StrictSubsetOrderingWellFounded, FS_FiniteSubsetsOfFinite
<1>2. All \subseteq SUBSET S /\ All # {}
  OBVIOUS
<1>3. \E X \in All : \A Y \in All : ~ (<<Y, X>> \in R)
  <2> HIDE DEF All, R
  <2> QED BY <1>1, <1>2, WFMin
<1>4. PICK e \in S : \A f \in S : ~ (<<Older(f), Older(e)>> \in R)
  BY <1>3
<1>5. \A f \in S : e.at <= f.at
  <2> SUFFICES ASSUME NEW f \in S, f.at < e.at PROVE FALSE
    BY DEF Entry
  <2>1. f \in Older(e) /\ f \notin Older(f)
    BY DEF Entry
  <2>2. Older(f) \subseteq Older(e)
    BY DEF Entry
  <2>3. <<Older(f), Older(e)>> \in R
    <3>1. Older(f) \in SUBSET S /\ Older(e) \in SUBSET S
      OBVIOUS
    <3>2. Older(f) # Older(e)
      BY <2>1
    <3> HIDE DEF Older
    <3> QED BY <2>2, <3>1, <3>2 DEF StrictSubsetOrdering
  <2> QED BY <1>4, <2>3
<1> QED BY <1>5 DEF Oldest

(* table_push() into a table without a record of the command: what it      *)
(* evicts was there, and the new table has one entry more, less those.     *)
LEMMA Push ==
  ASSUME NEW table \in SUBSET Entry, IsFiniteSet(table), NEW c \in Cmds, NEW ts \in Times,
         Arrival \in Nat, \A e \in table : e.cmd # c
  PROVE  /\ Evicted(table, c) \subseteq Bucket(table, c)
         /\ Cardinality(Evicted(table, c)) \in {0, 1}
         /\ table_push(table, c, ts) \in SUBSET Entry
         /\ IsFiniteSet(table_push(table, c, ts))
         /\ Cardinality(table_push(table, c, ts))
              = Cardinality(table) - Cardinality(Evicted(table, c)) + 1
<1> DEFINE E == Evicted(table, c)
           n == [cmd |-> c, ts |-> ts, at |-> Arrival]
<1>1. Bucket(table, c) \in SUBSET table /\ IsFiniteSet(Bucket(table, c))
  BY FS_Subset DEF Bucket
<1>2. E \subseteq Bucket(table, c) /\ Cardinality(E) \in {0, 1}
  <2>1. CASE MaxPerKey # 0 /\ Cardinality(Bucket(table, c)) = MaxPerKey
    <3>1. Bucket(table, c) # {}
      BY <2>1, <1>1, FS_EmptySet
    <3>2. Oldest(Bucket(table, c)) \in Bucket(table, c)
      BY <1>1, <3>1, OldestIn
    <3> QED BY <2>1, <3>2, FS_Singleton DEF Evicted
  <2>2. CASE ~ (MaxPerKey # 0 /\ Cardinality(Bucket(table, c)) = MaxPerKey)
    BY <2>2, FS_EmptySet DEF Evicted
  <2> QED BY <2>1, <2>2
<1>3. n \in Entry /\ n \notin table
  BY DEF Entry
<1>4. table \cap E = E
  BY <1>1, <1>2
<1>5. IsFiniteSet(table \ E) /\ Cardinality(table \ E) = Cardinality(table) - Cardinality(E)
  BY <1>4, FS_Difference
<1>6. Cardinality(table) \in Nat /\ Cardinality(table \ E) \in Nat
  BY <1>5, FS_CardinalityType
<1>7. /\ IsFiniteSet((table \ E) \cup {n})
      /\ Cardinality((table \ E) \cup {n}) = Cardinality(table \ E) + 1
  BY <1>3, <1>5, FS_AddElement
<1> QED BY <1>2, <1>3, <1>5, <1>6, <1>7 DEF table_push

(* table_take() takes nothing only if nothing of the command is there, and *)
(* otherwise one entry of the command.                                     *)
LEMMA Take ==
  ASSUME NEW table \in SUBSET Entry, IsFiniteSet(table), NEW c \in Cmds
  PROVE  \/ /\ Taken(table, c) = {}
            /\ \A e \in table : ~ same_command(e.cmd, c)
         \/ \E e \in table : /\ Taken(table, c) = {e}
                             /\ same_command(e.cmd, c)
                             /\ IsFiniteSet(table \ {e})
                             /\ Cardinality(table \ {e}) = Cardinality(table) - 1
<1> DEFINE same == {e \in table : same_command(e.cmd, c)}
<1>1. CASE same = {}
  BY <1>1 DEF Taken
<1>2. CASE same # {}
  <2>1. same \in SUBSET table /\ IsFiniteSet(same)
    BY FS_Subset
  <2>2. Oldest(same) \in same
    BY <1>2, <2>1, OldestIn
  <2>3. Taken(table, c) = {Oldest(same)}
    BY <1>2 DEF Taken
  <2> QED BY <2>2, <2>3, FS_RemoveElement
<1> QED BY <1>1, <1>2

(* A bucket of a table after a push holds no more than MaxPerKey records,  *)
(* if it held no more before.                                              *)
LEMMA PushBounded ==
  ASSUME NEW table \in SUBSET Entry, IsFiniteSet(table), NEW c \in Cmds, NEW ts \in Times,
         Arrival \in Nat, \A e \in table : e.cmd # c, MaxPerKey # 0,
         \A d \in Cmds : Cardinality(Bucket(table, d)) <= MaxPerKey, NEW d \in Cmds
  PROVE  Cardinality(Bucket(table_push(table, c, ts), d)) <= MaxPerKey
<1> DEFINE n == [cmd |-> c, ts |-> ts, at |-> Arrival]
           E == Evicted(table, c)
<1>1. IsFiniteSet(Bucket(table, d)) /\ Cardinality(Bucket(table, d)) \in Nat
  BY FS_Subset, FS_CardinalityType DEF Bucket
<1>2. E \subseteq Bucket(table, c)
  BY Push
<1>3. CASE KeyOf(c) # KeyOf(d)
  <2>1. Bucket(table_push(table, c, ts), d) \subseteq Bucket(table, d)
    BY <1>3 DEF Bucket, table_push
  <2>2. Cardinality(Bucket(table_push(table, c, ts), d)) <= Cardinality(Bucket(table, d))
    BY <1>1, <2>1, FS_Subset
  <2>3. IsFiniteSet(Bucket(table_push(table, c, ts), d))
    BY <1>1, <2>1, FS_Subset
  <2>4. Cardinality(Bucket(table_push(table, c, ts), d)) \in Nat
    BY <2>3, FS_CardinalityType
  <2> QED BY <1>1, <2>2, <2>4, MaxPerKeyAssumption
<1>4. CASE KeyOf(c) = KeyOf(d)
  <2>1. Bucket(table, c) = Bucket(table, d)
    BY <1>4 DEF Bucket
  <2>2. Bucket(table_push(table, c, ts), d) = (Bucket(table, d) \ E) \cup {n}
    BY <1>4 DEF Bucket, table_push
  <2>3. n \notin Bucket(table, d) \ E
    BY DEF Bucket
  <2>4. CASE Cardinality(Bucket(table, d)) = MaxPerKey
    <3>1. E = {Oldest(Bucket(table, d))}
      BY <2>1, <2>4 DEF Evicted
    <3>2. Oldest(Bucket(table, d)) \in Bucket(table, d)
      BY <1>2, <2>1, <3>1
    <3>3. /\ IsFiniteSet(Bucket(table, d) \ E)
          /\ Cardinality(Bucket(table, d) \ E) = Cardinality(Bucket(table, d)) - 1
      BY <1>1, <3>1, <3>2, FS_RemoveElement
    <3>4. Cardinality((Bucket(table, d) \ E) \cup {n}) = Cardinality(Bucket(table, d) \ E) + 1
      BY <2>3, <3>3, FS_AddElement
    <3> QED BY <1>1, <2>2, <2>4, <3>3, <3>4, MaxPerKeyAssumption
  <2>5. CASE Cardinality(Bucket(table, d)) # MaxPerKey
    <3>1. E = {}
      BY <2>1, <2>5 DEF Evicted
    <3>2. Bucket(table, d) \ E = Bucket(table, d)
      BY <3>1
    <3>3. Cardinality(Bucket(table, d) \cup {n}) = Cardinality(Bucket(table, d)) + 1
      BY <1>1, <2>3, <3>2, FS_AddElement
    <3>4. Cardinality(Bucket(table, d)) < MaxPerKey
      BY <1>1, <2>5, MaxPerKeyAssumption
    <3>5. Bucket(table_push(table, c, ts), d) = Bucket(table, d) \cup {n}
      BY <2>2, <3>2
    <3> HIDE DEF n
    <3> QED BY <1>1, <3>3, <3>4, <3>5, MaxPerKeyAssumption
  <2> QED BY <2>4, <2>5
<1> QED BY <1>3, <1>4

(* Taking entries out of a table keeps its buckets bounded.                *)
LEMMA SmallerBounded ==
  ASSUME NEW table, IsFiniteSet(table), NEW less \in SUBSET table, NEW c \in Cmds,
         Cardinality(Bucket(table, c)) <= MaxPerKey
  PROVE  Cardinality(Bucket(less, c)) <= MaxPerKey
<1>1. IsFiniteSet(Bucket(table, c)) /\ Bucket(less, c) \in SUBSET Bucket(table, c)
  BY FS_Subset DEF Bucket
<1>2. IsFiniteSet(Bucket(less, c)) /\ Cardinality(Bucket(less, c)) <= Cardinality(Bucket(table, c))
  BY <1>1, FS_Subset
<1>3. Cardinality(Bucket(less, c)) \in Nat /\ Cardinality(Bucket(table, c)) \in Nat
  BY <1>1, <1>2, FS_CardinalityType
<1> QED BY <1>2, <1>3, MaxPerKeyAssumption

(* One more command seen.                                                  *)
LEMMA SeenOne ==
  ASSUME NEW seen \in SUBSET Cmds, IsFiniteSet(seen), NEW c \in Cmds \ seen
  PROVE  /\ seen \cup {c} \in SUBSET Cmds /\ IsFiniteSet(seen \cup {c})
         /\ Cardinality(seen) \in Nat
         /\ Cardinality(seen \cup {c}) = Cardinality(seen) + 1
BY FS_AddElement, FS_CardinalityType

(* The statistics keep their type when two of them grow.                   *)
LEMMA StatsAddEvict ==
  ASSUME NEW s \in JoinStats, NEW n \in Nat
  PROVE  [s EXCEPT !.added = @ + 1, !.evicted = @ + n] \in JoinStats
<1> DEFINE a == [s EXCEPT !.added = @ + 1]
<1>1. a \in JoinStats
  BY DEF JoinStats
<1>2. [a EXCEPT !.evicted = @ + n] \in JoinStats
  <2> HIDE DEF a
  <2> QED BY <1>1 DEF JoinStats
<1>3. [a EXCEPT !.evicted = @ + n] = [s EXCEPT !.added = @ + 1, !.evicted = @ + n]
  BY DEF JoinStats
<1> QED BY <1>2, <1>3

(* A target record that found its waiting host record counts twice: added  *)
(* and matched (ntp_joiner_target_arrives()).                              *)
LEMMA StatsAddMatch ==
  ASSUME NEW s \in JoinStats
  PROVE  [s EXCEPT !.added = @ + 1, !.matched = @ + 1] \in JoinStats
<1> DEFINE a == [s EXCEPT !.added = @ + 1]
<1>1. a \in JoinStats
  BY DEF JoinStats
<1>2. [a EXCEPT !.matched = @ + 1] \in JoinStats
  <2> HIDE DEF a
  <2> QED BY <1>1 DEF JoinStats
<1>3. [a EXCEPT !.matched = @ + 1] = [s EXCEPT !.added = @ + 1, !.matched = @ + 1]
  BY DEF JoinStats
<1> QED BY <1>2, <1>3

(* A tick adds what it released and what it expired to the statistics.     *)
LEMMA StatsTick ==
  ASSUME NEW s \in JoinStats, NEW m \in Nat, NEW n \in Nat
  PROVE  [s EXCEPT !.unmatched = @ + m, !.expired = @ + n] \in JoinStats
<1> DEFINE a == [s EXCEPT !.unmatched = @ + m]
<1>1. a \in JoinStats
  BY DEF JoinStats
<1>2. [a EXCEPT !.expired = @ + n] \in JoinStats
  <2> HIDE DEF a
  <2> QED BY <1>1 DEF JoinStats
<1>3. [a EXCEPT !.expired = @ + n] = [s EXCEPT !.unmatched = @ + m, !.expired = @ + n]
  BY DEF JoinStats
<1> QED BY <1>2, <1>3

(* Arrivals are numbered by naturals, so a bucket has an oldest record.    *)
LEMMA ArrivalNat == JoinTypeOK => Arrival \in Nat
BY FS_CardinalityType DEF JoinTypeOK, Arrival

(* A new joiner (ntp_joiner_new()) satisfies the invariant.                *)
LEMMA InitInv == JoinInit => JoinInv
<1> SUFFICES ASSUME JoinInit PROVE JoinInv
  OBVIOUS
<1>1. JoinTypeOK /\ TargetsAccounted /\ HostsAccounted
  BY FS_EmptySet DEF JoinInit, JoinTypeOK, JoinStats, TargetsAccounted, HostsAccounted
<1>2. OneEntryPerRecord /\ NoMutualWait /\ UsedOnce /\ PairsAgree
  BY DEF JoinInit, OneEntryPerRecord, NoMutualWait, UsedOnce, PairsAgree
<1>3. BucketsBounded
  <2>1. \A c \in Cmds : Bucket(hosts, c) = {} /\ Bucket(targets, c) = {}
    BY DEF JoinInit, Bucket
  <2> QED BY <2>1, FS_EmptySet, MaxPerKeyAssumption DEF BucketsBounded
<1> QED BY <1>1, <1>2, <1>3 DEF JoinInv

(* A target record arrives.                                                *)
LEMMA TargetArrivesInv ==
  ASSUME JoinInv, NEW c \in Cmds, NEW ts \in Times, TargetArrives(c, ts)
  PROVE  JoinInv'
<1> DEFINE taken == Taken(hosts, c)
<1> USE DEF JoinInv
<1>0. /\ c \notin targetsSeen /\ targetsSeen' = targetsSeen \cup {c}
      /\ hosts' = hosts \ taken /\ UNCHANGED hostsSeen
  BY DEF TargetArrives
<1>1. Arrival \in Nat
  BY ArrivalNat
<1>2. targetsSeen' \in SUBSET Cmds /\ IsFiniteSet(targetsSeen')
  BY <1>0, SeenOne DEF JoinTypeOK
<1>3. /\ Cardinality(targets) \in Nat /\ Cardinality(hosts) \in Nat
      /\ Cardinality(hostsSeen) \in Nat
  BY FS_CardinalityType DEF JoinTypeOK
<1>4. CASE /\ taken = {} /\ \A e \in hosts : ~ same_command(e.cmd, c)
           /\ add_target(c, ts) /\ UNCHANGED reported
  <2>1. hosts' = hosts
    BY <1>0, <1>4
  <2>2. \A e \in targets : e.cmd # c
    BY <1>0 DEF OneEntryPerRecord
  <2>3. /\ Cardinality(Evicted(targets, c)) \in {0, 1}
        /\ targets' \in SUBSET Entry /\ IsFiniteSet(targets')
        /\ Cardinality(targets') = Cardinality(targets) - Cardinality(Evicted(targets, c)) + 1
    BY <1>1, <1>4, <2>2, Push DEF add_target, JoinTypeOK
  <2>4. \A e \in targets' : e \in targets \/ e = [cmd |-> c, ts |-> ts, at |-> Arrival]
    BY <1>4 DEF add_target, table_push
  <2>5. JoinTypeOK'
    <3>1. st' \in JoinStats
      BY <1>4, <2>3, StatsAddEvict DEF JoinTypeOK, add_target
    <3> QED BY <1>0, <1>2, <1>4, <2>1, <2>3, <3>1 DEF JoinTypeOK
  <2>6. TargetsAccounted' /\ HostsAccounted'
    BY <1>0, <1>3, <1>4, <2>1, <2>3 DEF JoinTypeOK, JoinStats, add_target, TargetsAccounted, HostsAccounted
  <2>7. OneEntryPerRecord'
    BY <1>0, <1>4, <2>1, <2>2, <2>4 DEF OneEntryPerRecord
  <2>8. NoMutualWait' /\ PairsAgree'
    BY <1>4, <2>1, <2>4 DEF NoMutualWait, PairsAgree
  <2>9. UsedOnce'
    BY <1>0, <1>4, <2>1, <2>4, NoneAssumption DEF UsedOnce, OneEntryPerRecord
  <2>10. BucketsBounded'
    <3> SUFFICES ASSUME MaxPerKey # 0, NEW d \in Cmds
                 PROVE  /\ Cardinality(Bucket(hosts', d)) <= MaxPerKey
                        /\ Cardinality(Bucket(targets', d)) <= MaxPerKey
      BY DEF BucketsBounded, Bucket
    <3>1. Cardinality(Bucket(table_push(targets, c, ts), d)) <= MaxPerKey
      BY <1>1, <2>2, PushBounded DEF JoinTypeOK, BucketsBounded
    <3> QED BY <1>4, <2>1, <3>1 DEF BucketsBounded, add_target
  <2> QED BY <2>5, <2>6, <2>7, <2>8, <2>9, <2>10
<1>5. ASSUME NEW h \in hosts, taken = {h}, same_command(h.cmd, c),
             IsFiniteSet(hosts \ {h}), Cardinality(hosts \ {h}) = Cardinality(hosts) - 1,
             st' = [st EXCEPT !.added = @ + 1, !.matched = @ + 1],
             reported' = reported \cup {<<h.cmd, c>>}, UNCHANGED targets
      PROVE  JoinInv'
  <2>1. hosts' = hosts \ {h} /\ h.cmd \in Cmds
    BY <1>0, <1>5 DEF JoinTypeOK, Entry
  <2>2. JoinTypeOK'
    <3>1. st' \in JoinStats
      BY <1>5, StatsAddMatch DEF JoinTypeOK
    <3>2. reported' \in SUBSET (Cmds \X (Cmds \cup {None}))
      BY <1>5, <2>1 DEF JoinTypeOK
    <3> QED BY <1>0, <1>2, <1>5, <2>1, <3>1, <3>2 DEF JoinTypeOK
  <2>3. TargetsAccounted' /\ HostsAccounted'
    BY <1>0, <1>3, <1>5, <2>1 DEF JoinTypeOK, JoinStats, TargetsAccounted, HostsAccounted
  <2>4. OneEntryPerRecord'
    BY <1>0, <1>5, <2>1 DEF OneEntryPerRecord
  <2>5. NoMutualWait' /\ PairsAgree'
    BY <1>5, <2>1 DEF NoMutualWait, PairsAgree, same_command
  <2>6. UsedOnce'
    BY <1>0, <1>5, <2>1, NoneAssumption DEF UsedOnce, OneEntryPerRecord
  <2>7. BucketsBounded'
    <3> SUFFICES ASSUME MaxPerKey # 0, NEW d \in Cmds
                 PROVE  /\ Cardinality(Bucket(hosts', d)) <= MaxPerKey
                        /\ Cardinality(Bucket(targets', d)) <= MaxPerKey
      BY DEF BucketsBounded, Bucket
    <3>1. Cardinality(Bucket(hosts', d)) <= MaxPerKey
      BY <2>1, SmallerBounded DEF JoinTypeOK, BucketsBounded
    <3> QED BY <1>5, <3>1 DEF BucketsBounded
  <2> QED BY <2>2, <2>3, <2>4, <2>5, <2>6, <2>7
<1>6. \/ taken = {} /\ \A e \in hosts : ~ same_command(e.cmd, c)
      \/ \E e \in hosts : /\ taken = {e} /\ same_command(e.cmd, c)
                          /\ IsFiniteSet(hosts \ {e})
                          /\ Cardinality(hosts \ {e}) = Cardinality(hosts) - 1
  BY Take DEF JoinTypeOK
<1>7. \/ taken = {} /\ add_target(c, ts) /\ UNCHANGED reported
      \/ \E h \in taken : /\ st' = [st EXCEPT !.added = @ + 1, !.matched = @ + 1]
                          /\ reported' = reported \cup {<<h.cmd, c>>}
                          /\ UNCHANGED targets
  BY DEF TargetArrives
<1> HIDE DEF taken
<1>8. CASE taken = {}
  BY <1>4, <1>6, <1>7, <1>8
<1>9. CASE taken # {}
  <2>1. PICK e \in hosts : /\ taken = {e} /\ same_command(e.cmd, c)
                           /\ IsFiniteSet(hosts \ {e})
                           /\ Cardinality(hosts \ {e}) = Cardinality(hosts) - 1
    BY <1>6, <1>9
  <2>2. /\ st' = [st EXCEPT !.added = @ + 1, !.matched = @ + 1]
        /\ reported' = reported \cup {<<e.cmd, c>>} /\ UNCHANGED targets
    BY <1>7, <1>9, <2>1
  <2> QED BY <1>5, <2>1, <2>2
<1> QED BY <1>8, <1>9

(* A host record arrives.                                                  *)
LEMMA HostArrivesInv ==
  ASSUME JoinInv, NEW c \in Cmds, NEW ts \in Times, HostArrives(c, ts)
  PROVE  JoinInv'
<1> DEFINE taken == Taken(targets, c)
<1> USE DEF JoinInv
<1>0. /\ c \notin hostsSeen /\ hostsSeen' = hostsSeen \cup {c}
      /\ targets' = targets \ taken /\ UNCHANGED targetsSeen
  BY DEF HostArrives
<1>1. Arrival \in Nat
  BY ArrivalNat
<1>2. /\ hostsSeen' \in SUBSET Cmds /\ IsFiniteSet(hostsSeen')
      /\ Cardinality(hostsSeen') = Cardinality(hostsSeen) + 1
  BY <1>0, SeenOne DEF JoinTypeOK
<1>3. /\ Cardinality(targets) \in Nat /\ Cardinality(hosts) \in Nat
      /\ Cardinality(hostsSeen) \in Nat
  BY FS_CardinalityType DEF JoinTypeOK
<1>4. CASE /\ taken = {} /\ \A e \in targets : ~ same_command(e.cmd, c)
           /\ hosts' = table_push(hosts, c, ts) /\ UNCHANGED reported
           /\ st' = [st EXCEPT !.unmatched = @ + Cardinality(Evicted(hosts, c))]
  <2>1. targets' = targets
    BY <1>0, <1>4
  <2>2. \A e \in hosts : e.cmd # c
    BY <1>0 DEF OneEntryPerRecord
  <2>3. /\ Cardinality(Evicted(hosts, c)) \in {0, 1}
        /\ hosts' \in SUBSET Entry /\ IsFiniteSet(hosts')
        /\ Cardinality(hosts') = Cardinality(hosts) - Cardinality(Evicted(hosts, c)) + 1
    BY <1>1, <1>4, <2>2, Push DEF JoinTypeOK
  <2>4. \A e \in hosts' : e \in hosts \/ e = [cmd |-> c, ts |-> ts, at |-> Arrival]
    BY <1>4 DEF table_push
  <2>5. JoinTypeOK'
    <3>1. st' \in JoinStats
      BY <1>4, <2>3 DEF JoinTypeOK, JoinStats
    <3> QED BY <1>0, <1>2, <1>4, <2>1, <2>3, <3>1 DEF JoinTypeOK
  <2>6. TargetsAccounted' /\ HostsAccounted'
    BY <1>2, <1>3, <1>4, <2>1, <2>3 DEF JoinTypeOK, JoinStats, TargetsAccounted, HostsAccounted
  <2>7. OneEntryPerRecord'
    BY <1>0, <1>4, <2>1, <2>2, <2>4 DEF OneEntryPerRecord
  <2>8. NoMutualWait' /\ PairsAgree'
    BY <1>4, <2>1, <2>4 DEF NoMutualWait, PairsAgree, same_command
  <2>9. UsedOnce'
    BY <1>0, <1>4, <2>1, <2>4, NoneAssumption DEF UsedOnce, OneEntryPerRecord
  <2>10. BucketsBounded'
    <3> SUFFICES ASSUME MaxPerKey # 0, NEW d \in Cmds
                 PROVE  /\ Cardinality(Bucket(hosts', d)) <= MaxPerKey
                        /\ Cardinality(Bucket(targets', d)) <= MaxPerKey
      BY DEF BucketsBounded, Bucket
    <3>1. Cardinality(Bucket(table_push(hosts, c, ts), d)) <= MaxPerKey
      BY <1>1, <2>2, PushBounded DEF JoinTypeOK, BucketsBounded
    <3> QED BY <1>4, <2>1, <3>1 DEF BucketsBounded
  <2> QED BY <2>5, <2>6, <2>7, <2>8, <2>9, <2>10
<1>5. ASSUME NEW t \in targets, taken = {t}, same_command(t.cmd, c),
             IsFiniteSet(targets \ {t}), Cardinality(targets \ {t}) = Cardinality(targets) - 1,
             st' = [st EXCEPT !.matched = @ + 1],
             reported' = reported \cup {<<c, t.cmd>>}, UNCHANGED hosts
      PROVE  JoinInv'
  <2>1. targets' = targets \ {t} /\ t.cmd \in Cmds
    BY <1>0, <1>5 DEF JoinTypeOK, Entry
  <2>2. JoinTypeOK'
    <3>1. st' \in JoinStats
      BY <1>5 DEF JoinTypeOK, JoinStats
    <3>2. reported' \in SUBSET (Cmds \X (Cmds \cup {None}))
      BY <1>5, <2>1 DEF JoinTypeOK
    <3> QED BY <1>0, <1>2, <1>5, <2>1, <3>1, <3>2 DEF JoinTypeOK
  <2>3. TargetsAccounted' /\ HostsAccounted'
    BY <1>2, <1>3, <1>5, <2>1 DEF JoinTypeOK, JoinStats, TargetsAccounted, HostsAccounted
  <2>4. OneEntryPerRecord'
    BY <1>0, <1>5, <2>1 DEF OneEntryPerRecord
  <2>5. NoMutualWait' /\ PairsAgree'
    BY <1>5, <2>1 DEF NoMutualWait, PairsAgree, same_command
  <2>6. UsedOnce'
    BY <1>0, <1>5, <2>1, NoneAssumption DEF UsedOnce, OneEntryPerRecord
  <2>7. BucketsBounded'
    <3> SUFFICES ASSUME MaxPerKey # 0, NEW d \in Cmds
                 PROVE  /\ Cardinality(Bucket(hosts', d)) <= MaxPerKey
                        /\ Cardinality(Bucket(targets', d)) <= MaxPerKey
      BY DEF BucketsBounded, Bucket
    <3>1. Cardinality(Bucket(targets', d)) <= MaxPerKey
      BY <2>1, SmallerBounded DEF JoinTypeOK, BucketsBounded
    <3> QED BY <1>5, <3>1 DEF BucketsBounded
  <2> QED BY <2>2, <2>3, <2>4, <2>5, <2>6, <2>7
<1>6. \/ taken = {} /\ \A e \in targets : ~ same_command(e.cmd, c)
      \/ \E e \in targets : /\ taken = {e} /\ same_command(e.cmd, c)
                            /\ IsFiniteSet(targets \ {e})
                            /\ Cardinality(targets \ {e}) = Cardinality(targets) - 1
  BY Take DEF JoinTypeOK
<1>7. \/ /\ taken = {} /\ hosts' = table_push(hosts, c, ts) /\ UNCHANGED reported
         /\ st' = [st EXCEPT !.unmatched = @ + Cardinality(Evicted(hosts, c))]
      \/ \E t \in taken : /\ st' = [st EXCEPT !.matched = @ + 1]
                          /\ reported' = reported \cup {<<c, t.cmd>>}
                          /\ UNCHANGED hosts
  BY DEF HostArrives
<1> HIDE DEF taken
<1>8. CASE taken = {}
  BY <1>4, <1>6, <1>7, <1>8
<1>9. CASE taken # {}
  <2>1. PICK e \in targets : /\ taken = {e} /\ same_command(e.cmd, c)
                             /\ IsFiniteSet(targets \ {e})
                             /\ Cardinality(targets \ {e}) = Cardinality(targets) - 1
    BY <1>6, <1>9
  <2>2. /\ st' = [st EXCEPT !.matched = @ + 1]
        /\ reported' = reported \cup {<<c, e.cmd>>} /\ UNCHANGED hosts
    BY <1>7, <1>9, <2>1
  <2> QED BY <1>5, <2>1, <2>2
<1> QED BY <1>8, <1>9

(* Entries taken out of a table: what is left, and how many are gone.      *)
LEMMA Without ==
  ASSUME NEW table \in SUBSET Entry, IsFiniteSet(table), NEW gone \in SUBSET table
  PROVE  /\ IsFiniteSet(table \ gone) /\ Cardinality(gone) \in Nat
         /\ Cardinality(table \ gone) = Cardinality(table) - Cardinality(gone)
<1>1. IsFiniteSet(gone) /\ table \cap gone = gone
  BY FS_Subset
<1> QED BY <1>1, FS_Difference, FS_CardinalityType

(* Hosts released to the callback and targets expired keep the invariant,  *)
(* whichever entries they are: the ticks and the end of the recording.     *)
LEMMA RemoveInv ==
  ASSUME JoinInv, NEW released \in SUBSET hosts, NEW expired \in SUBSET targets,
         hosts' = hosts \ released, targets' = targets \ expired,
         st' \in JoinStats,
         st'.added = st.added, st'.evicted = st.evicted, st'.matched = st.matched,
         st'.unmatched = st.unmatched + Cardinality(released),
         st'.expired = st.expired + Cardinality(expired),
         reported' = reported \cup {<<h.cmd, None>> : h \in released},
         UNCHANGED <<hostsSeen, targetsSeen>>
  PROVE  JoinInv'
<1> USE DEF JoinInv
<1>1. /\ IsFiniteSet(hosts') /\ Cardinality(released) \in Nat
      /\ Cardinality(hosts') = Cardinality(hosts) - Cardinality(released)
  BY Without DEF JoinTypeOK
<1>2. /\ IsFiniteSet(targets') /\ Cardinality(expired) \in Nat
      /\ Cardinality(targets') = Cardinality(targets) - Cardinality(expired)
  BY Without DEF JoinTypeOK
<1>3. /\ Cardinality(targets) \in Nat /\ Cardinality(hosts) \in Nat
      /\ Cardinality(hostsSeen) \in Nat
  BY FS_CardinalityType DEF JoinTypeOK
<1>4. \A h \in released : h.cmd \in Cmds
  BY DEF JoinTypeOK, Entry
<1>5. JoinTypeOK'
  BY <1>1, <1>2, <1>4 DEF JoinTypeOK
<1>6. TargetsAccounted' /\ HostsAccounted'
  BY <1>1, <1>2, <1>3 DEF JoinTypeOK, JoinStats, TargetsAccounted, HostsAccounted
<1>7. OneEntryPerRecord'
  BY DEF OneEntryPerRecord
<1>8. NoMutualWait' /\ PairsAgree'
  BY DEF NoMutualWait, PairsAgree
<1>9. UsedOnce'
  <2>1. \A h \in released, p \in reported : p[1] # h.cmd
    BY DEF UsedOnce
  <2>2. \A h \in released, g \in hosts' : g.cmd # h.cmd
    BY DEF OneEntryPerRecord
  <2>3. \A t \in targets' : t.cmd # None
    BY NoneAssumption DEF JoinTypeOK, Entry
  <2>4. \A p \in reported', q \in reported' :
          (p[1] = q[1] \/ (p[2] = q[2] /\ p[2] # None)) => p = q
    BY <2>1, NoneAssumption DEF UsedOnce
  <2>5. \A p \in reported' : (\A h \in hosts' : h.cmd # p[1])
                             /\ (\A t \in targets' : t.cmd # p[2])
    BY <2>2, <2>3 DEF UsedOnce
  <2> QED BY <2>4, <2>5 DEF UsedOnce
<1>10. BucketsBounded'
  <2> SUFFICES ASSUME MaxPerKey # 0, NEW d \in Cmds
               PROVE  /\ Cardinality(Bucket(hosts', d)) <= MaxPerKey
                      /\ Cardinality(Bucket(targets', d)) <= MaxPerKey
    BY DEF BucketsBounded, Bucket
  <2> QED BY SmallerBounded DEF JoinTypeOK, BucketsBounded
<1> QED BY <1>5, <1>6, <1>7, <1>8, <1>9, <1>10

(* The two calls of an interval tick keep the invariant.                   *)
LEMMA TickInv ==
  ASSUME JoinInv, NEW b \in Times, NEW d \in Times, Tick(b, d)
  PROVE  JoinInv'
<1> DEFINE released == Expired(hosts, b)
           expired == Expired(targets, d)
<1>1. released \in SUBSET hosts /\ expired \in SUBSET targets
  BY DEF Expired
<1>2. /\ hosts' = hosts \ released /\ targets' = targets \ expired
      /\ st' = [st EXCEPT !.unmatched = @ + Cardinality(released),
                          !.expired = @ + Cardinality(expired)]
      /\ reported' = reported \cup {<<h.cmd, None>> : h \in released}
      /\ UNCHANGED <<hostsSeen, targetsSeen>>
  BY DEF Tick
<1> HIDE DEF released, expired
<1>3. Cardinality(released) \in Nat /\ Cardinality(expired) \in Nat
  BY <1>1, Without DEF JoinInv, JoinTypeOK
<1>4. st' \in JoinStats
  BY <1>2, <1>3, StatsTick DEF JoinInv, JoinTypeOK
<1>5. /\ st'.added = st.added /\ st'.evicted = st.evicted /\ st'.matched = st.matched
      /\ st'.unmatched = st.unmatched + Cardinality(released)
      /\ st'.expired = st.expired + Cardinality(expired)
  BY <1>2 DEF JoinInv, JoinTypeOK, JoinStats
<1> QED BY <1>1, <1>2, <1>4, <1>5, RemoveInv

(* So does the release of every waiting host at the end.                   *)
LEMMA ReleaseAllInv ==
  ASSUME JoinInv, ReleaseAll
  PROVE  JoinInv'
<1>1. hosts \in SUBSET hosts /\ {} \in SUBSET targets
  OBVIOUS
<1>2. Cardinality(hosts) \in Nat /\ Cardinality({}) = 0
  BY FS_CardinalityType, FS_EmptySet DEF JoinInv, JoinTypeOK
<1>3. /\ hosts' = hosts \ hosts /\ targets' = targets \ {}
      /\ st' = [st EXCEPT !.unmatched = @ + Cardinality(hosts)]
      /\ reported' = reported \cup {<<h.cmd, None>> : h \in hosts}
      /\ UNCHANGED <<hostsSeen, targetsSeen>>
  BY DEF ReleaseAll, release_hosts
<1>4. st' \in JoinStats
  BY <1>2, <1>3 DEF JoinInv, JoinTypeOK, JoinStats
<1>5. /\ st'.added = st.added /\ st'.evicted = st.evicted /\ st'.matched = st.matched
      /\ st'.unmatched = st.unmatched + Cardinality(hosts)
      /\ st'.expired = st.expired + Cardinality({})
  BY <1>2, <1>3 DEF JoinInv, JoinTypeOK, JoinStats
<1> QED BY <1>1, <1>3, <1>4, <1>5, RemoveInv

(* The joiner keeps its invariant for every set of commands, every bound   *)
(* per key and every order of arrivals and ticks: each host and target     *)
(* record of join.c's tables is accounted for, used at most once, only     *)
(* with a record that agrees with it, and never waits beside its match.    *)
THEOREM JoinerCorrect == OnlineSpec => []JoinInv
<1>1. JoinInit => JoinInv
  BY InitInv
<1>2. JoinInv /\ [OnlineNext]_joinVars => JoinInv'
  <2> SUFFICES ASSUME JoinInv, [OnlineNext]_joinVars PROVE JoinInv'
    OBVIOUS
  <2>1. CASE \E c \in Cmds, ts \in Times : TargetArrives(c, ts) \/ HostArrives(c, ts)
    BY <2>1, TargetArrivesInv, HostArrivesInv
  <2>2. CASE \E b, d \in Times : Tick(b, d)
    BY <2>2, TickInv
  <2>3. CASE ReleaseAll
    BY <2>3, ReleaseAllInv
  <2>4. CASE UNCHANGED joinVars
    BY <2>4 DEF joinVars, JoinInv, JoinTypeOK, OneEntryPerRecord, TargetsAccounted,
                HostsAccounted, NoMutualWait, UsedOnce, PairsAgree, BucketsBounded, Bucket
  <2> QED BY <2>1, <2>2, <2>3, <2>4 DEF OnlineNext
<1> QED BY <1>1, <1>2, PTL DEF OnlineSpec
=============================================================================
