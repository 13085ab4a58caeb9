------------------------------- MODULE Joiner -------------------------------
(***************************************************************************)
(* The joiner of host and target records (src/join.c) together with what   *)
(* its callers do with each result: add_host() and add_unmatched() of      *)
(* src/record.c (online) and load_run() of src/offline.c (offline) hand    *)
(* the joined pair, or the host record alone, to ntp_stats_add().          *)
(*                                                                         *)
(* A bucket of join.c is an array in arrival order. Here a table is a set  *)
(* of entries numbered by arrival (`at`), so the oldest has the least      *)
(* number; which bucket an entry is in follows from its command's key.     *)
(* The module says nothing of when records come: any record that has not   *)
(* come before may come next. Recording.tla adds the ring and the clock.   *)
(***************************************************************************)
EXTENDS Integers, FiniteSets

CONSTANTS
  Cmds,           \* the sampled commands (one host and one target record each)
  KeyOf(_),       \* a command's (cntlid, qid, cid)
  CmdOf(_),       \* its opcode, nsid, slba and nlb
  Times,          \* values of the records' timestamps and of the cut-offs
  MaxPerKey,      \* max_per_key: TARGETS_PER_KEY online, 0 (no bound) offline
  None            \* in a reported pair: no target record

ASSUME TimesAssumption == Times \subseteq Int
ASSUME MaxPerKeyAssumption == MaxPerKey \in Nat
ASSUME NoneAssumption == None \notin Cmds

VARIABLES
  targets, hosts,       \* the tables: records waiting for their counterpart
  hostsSeen,            \* commands whose host record came (session.host_records)
  targetsSeen,          \* commands whose target record came (target_records)
  st,                   \* struct ntp_join_stats
  reported              \* the pairs given to ntp_stats_add()

joinVars == <<targets, hosts, hostsSeen, targetsSeen, st, reported>>

Entry == [cmd : Cmds, ts : Times, at : Nat]

\* key_of() and same_command(): two records are of one command.
same_command(c, d) == KeyOf(c) = KeyOf(d) /\ CmdOf(c) = CmdOf(d)

-----------------------------------------------------------------------------
(* Operations on a table.                                                  *)

Bucket(table, c) == {e \in table : KeyOf(e.cmd) = KeyOf(c)}

\* Mutant: the newest instead of the oldest.
Oldest_Newest(S) == CHOOSE e \in S : \A f \in S : f.at <= e.at

Oldest(S) == CHOOSE e \in S : \A f \in S : e.at <= f.at

\* What table_push() drops to make room: the oldest record of a full bucket.
Evicted(table, c) ==
  LET bucket == Bucket(table, c)
  IN  IF MaxPerKey # 0 /\ Cardinality(bucket) = MaxPerKey
      THEN {Oldest(bucket)} ELSE {}

\* The number of the next arrival.
Arrival == Cardinality(hostsSeen) + Cardinality(targetsSeen)

table_push(table, c, ts) ==
  (table \ Evicted(table, c)) \cup {[cmd |-> c, ts |-> ts, at |-> Arrival]}

\* What table_take() removes for command c: the oldest record of the command.
Taken(table, c) ==
  LET same == {e \in table : same_command(e.cmd, c)}
  IN  IF same = {} THEN {} ELSE {Oldest(same)}

\* What table_expire() removes.
Expired(table, before) == {e \in table : e.ts < before}

-----------------------------------------------------------------------------
(* ntp_joiner_add_target(): used offline, and online when no host waits.   *)
add_target(c, ts) ==
  /\ targets' = table_push(targets, c, ts)
  /\ st' = [st EXCEPT !.added = @ + 1,
                      !.evicted = @ + Cardinality(Evicted(targets, c))]

AddTarget(c, ts) ==
  /\ c \in Cmds \ targetsSeen
  /\ add_target(c, ts)
  /\ targetsSeen' = targetsSeen \cup {c}
  /\ UNCHANGED <<hosts, hostsSeen, reported>>

(* ntp_joiner_match() and load_run()'s ntp_stats_add() of its result.      *)
Match(c) ==
  LET taken == Taken(targets, c)
  IN  /\ c \in Cmds \ hostsSeen
      /\ hostsSeen' = hostsSeen \cup {c}
      /\ targets' = targets \ taken
      /\ \/ /\ taken = {}
            /\ st' = [st EXCEPT !.unmatched = @ + 1]
            /\ reported' = reported \cup {<<c, None>>}
         \/ \E t \in taken :
              /\ st' = [st EXCEPT !.matched = @ + 1]
              /\ reported' = reported \cup {<<c, t.cmd>>}
      /\ UNCHANGED <<hosts, targetsSeen>>

\* Mutant: a target record never looks for a waiting host record.
TargetArrives_NoLookup(c, ts) ==
  /\ c \in Cmds \ targetsSeen
  /\ targetsSeen' = targetsSeen \cup {c}
  /\ add_target(c, ts)
  /\ UNCHANGED <<hosts, hostsSeen, reported>>

(* ntp_joiner_target_arrives(), and add_host() of the host it was kept for. *)
TargetArrives(c, ts) ==
  LET taken == Taken(hosts, c)
  IN  /\ c \in Cmds \ targetsSeen
      /\ targetsSeen' = targetsSeen \cup {c}
      /\ hosts' = hosts \ taken
      /\ \/ /\ taken = {}
            /\ add_target(c, ts)
            /\ UNCHANGED reported
         \/ \E h \in taken :
              /\ st' = [st EXCEPT !.added = @ + 1, !.matched = @ + 1]
              /\ reported' = reported \cup {<<h.cmd, c>>}
              /\ UNCHANGED targets
      /\ UNCHANGED hostsSeen

(* ntp_joiner_host_arrives(), and add_host() of a match. A host record that *)
(* finds a full bucket pushes the oldest waiting one out: that one is       *)
(* counted as unmatched, and no callback gets it.                           *)
HostArrives(c, ts) ==
  LET taken == Taken(targets, c)
  IN  /\ c \in Cmds \ hostsSeen
      /\ hostsSeen' = hostsSeen \cup {c}
      /\ targets' = targets \ taken
      /\ \/ /\ taken = {}
            /\ hosts' = table_push(hosts, c, ts)
            /\ st' = [st EXCEPT !.unmatched = @ + Cardinality(Evicted(hosts, c))]
            /\ UNCHANGED reported
         \/ \E t \in taken :
              /\ st' = [st EXCEPT !.matched = @ + 1]
              /\ reported' = reported \cup {<<c, t.cmd>>}
              /\ UNCHANGED hosts
      /\ UNCHANGED targetsSeen

(* ntp_joiner_release_hosts() with add_unmatched() as its callback.         *)
release_hosts(released) ==
  /\ hosts' = hosts \ released
  /\ st' = [st EXCEPT !.unmatched = @ + Cardinality(released)]
  /\ reported' = reported \cup {<<h.cmd, None>> : h \in released}
  /\ UNCHANGED <<targets, hostsSeen, targetsSeen>>

ReleaseAll == release_hosts(hosts)           \* before_ns = UINT64_MAX

(* The two calls of an interval tick: release_hosts(), then expire().       *)
Tick(beforeHosts, beforeTargets) ==
  LET released == Expired(hosts, beforeHosts)
      expired == Expired(targets, beforeTargets)
  IN  /\ hosts' = hosts \ released
      /\ targets' = targets \ expired
      /\ st' = [st EXCEPT !.unmatched = @ + Cardinality(released),
                          !.expired = @ + Cardinality(expired)]
      /\ reported' = reported \cup {<<h.cmd, None>> : h \in released}
      /\ UNCHANGED <<hostsSeen, targetsSeen>>

-----------------------------------------------------------------------------
JoinInit ==
  /\ targets = {} /\ hosts = {}
  /\ hostsSeen = {} /\ targetsSeen = {}
  /\ st = [added |-> 0, evicted |-> 0, expired |-> 0, matched |-> 0, unmatched |-> 0]
  /\ reported = {}

OnlineNext ==
  \/ \E c \in Cmds, ts \in Times : TargetArrives(c, ts) \/ HostArrives(c, ts)
  \/ \E b, d \in Times : Tick(b, d)
  \/ ReleaseAll

OnlineSpec == JoinInit /\ [][OnlineNext]_joinVars

-----------------------------------------------------------------------------
(* What the joiner promises.                                               *)

JoinStats == [added : Nat, evicted : Nat, expired : Nat, matched : Nat, unmatched : Nat]

\* The types of the two tables, the statistics and what was reported.
JoinTypeOK ==
  /\ targets \in SUBSET Entry /\ IsFiniteSet(targets)
  /\ hosts \in SUBSET Entry /\ IsFiniteSet(hosts)
  /\ hostsSeen \in SUBSET Cmds /\ IsFiniteSet(hostsSeen)
  /\ targetsSeen \in SUBSET Cmds /\ IsFiniteSet(targetsSeen)
  /\ st \in JoinStats
  /\ reported \in SUBSET (Cmds \X (Cmds \cup {None}))

\* Every target record is accounted for: it was matched, evicted from a full
\* bucket, expired, or still waits (targets_added of struct ntp_join_stats).
TargetsAccounted ==
  st.added = st.matched + st.evicted + st.expired + Cardinality(targets)

\* Every host record is accounted for: matched, counted unmatched (released or
\* evicted), or still waiting.
HostsAccounted ==
  Cardinality(hostsSeen) = st.matched + st.unmatched + Cardinality(hosts)

\* A host record and a target record of the same command never wait both: the
\* one that came second took the first (host_arrives, target_arrives).
NoMutualWait ==
  \A h \in hosts, t \in targets : ~ same_command(h.cmd, t.cmd)

\* No record is used twice: a host record is reported once, a target record
\* is joined to one host record, and neither waits any more.
UsedOnce ==
  \A p \in reported :
    /\ \A q \in reported : (p[1] = q[1] \/ (p[2] = q[2] /\ p[2] # None)) => p = q
    /\ \A h \in hosts : h.cmd # p[1]
    /\ \A t \in targets : t.cmd # p[2]

\* A joined pair agrees in key, opcode, nsid, slba and nlb.
PairsAgree == \A p \in reported : p[2] # None => same_command(p[1], p[2])

\* A record waits in at most one entry, and nothing waits or was reported that
\* did not come: what makes the invariants above inductive.
OneEntryPerRecord ==
  /\ \A e \in targets : e.cmd \in targetsSeen
  /\ \A e \in hosts : e.cmd \in hostsSeen
  /\ \A e, f \in targets : e.cmd = f.cmd => e = f
  /\ \A e, f \in hosts : e.cmd = f.cmd => e = f
  /\ \A p \in reported : p[1] \in hostsSeen /\ (p[2] # None => p[2] \in targetsSeen)

\* Memory stays bounded: no key keeps more than MaxPerKey records in a table.
BucketsBounded ==
  MaxPerKey # 0 =>
    \A c \in Cmds : /\ Cardinality(Bucket(hosts, c)) <= MaxPerKey
                    /\ Cardinality(Bucket(targets, c)) <= MaxPerKey

\* The inductive invariant.
JoinInv ==
  /\ JoinTypeOK /\ OneEntryPerRecord
  /\ TargetsAccounted /\ HostsAccounted
  /\ NoMutualWait /\ UsedOnce /\ PairsAgree /\ BucketsBounded
=============================================================================
