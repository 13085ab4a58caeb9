------------------------------- MODULE Report -------------------------------
(***************************************************************************)
(* From broken down records to what the user reads: the groups of          *)
(* src/stats.c, and the report and the comparison of two runs of           *)
(* src/report.c. The layout of the output, the units and the JSON file are *)
(* left out; a vector of values is the bag of them, as ntp_summarize()     *)
(* sorts it anyway.                                                        *)
(***************************************************************************)
EXTENDS StageModel, Sequences, SequencesExt, FiniteSetsExt, Bags

CONSTANTS
  Observations,   \* a host record, its target record or None, and what groups it:
                  \* [h, t, spdk (NTP_F_SPDK), bytes, disk |-> <<namespace, path>>]
  Groupings,      \* by_type, by_size, by_session: subsets of {"type", "size", "session"}
  Bursts,         \* how many equal records come at once
  MaxAdds         \* bound: additions

VARIABLES
  grouping,       \* which of by_type, by_size and by_session are set
  base, loaded,   \* struct ntp_stats of two runs: their groups
  given,          \* per run, the bag of the records it was given
  adds

vars == <<grouping, base, loaded, given, adds>>

NoWrite == -1
Stages == {"S1", "S2", "S3_S5", "S6", "S7_S9"}
Comps == {"HOST_RX", "HOST_WAIT", "REMOTE", "E2E"}      \* those a report's row or mean uses

-----------------------------------------------------------------------------
(* stats.c: the groups.                                                    *)

\* group_for(): what a record is grouped by; of a disk, the namespace, not the
\* path (ntp_session_name()).
group_key(o) ==
  [is_write |-> IF "type" \in grouping THEN (IF o.h.write THEN 1 ELSE 0) ELSE NoWrite,
   bytes    |-> IF "size" \in grouping THEN o.bytes ELSE 0,
   session  |-> IF "session" \in grouping THEN o.disk[1] ELSE 0]

NewGroup(key) ==
  [key |-> key, records |-> 0, joined |-> 0, bad_host |-> 0, bad_target |-> 0,
   post_estimated |-> 0, spdk_host |-> FALSE,
   vec |-> [c \in Stages \cup Comps |-> EmptyBag]]

\* The values a broken down record has, and n copies of each into its vectors.
Values(b) ==
  [c \in stage_valid(b) |-> stages(b)[c]] @@ [c \in b.valid \cap Comps |-> b.host[c]]

Pushed(vec, b, n) ==
  [c \in DOMAIN vec |->
     IF c \in DOMAIN Values(b) THEN vec[c] (+) [v \in {Values(b)[c]} |-> n] ELSE vec[c]]

\* Mutant: a record whose target record is incomplete is left out.
Counted_Whole(g, o, n) ==
  LET b == ntp_breakdown(o.h, o.t)
  IN  IF b.err # "ok" THEN [g EXCEPT !.bad_target = @ + n]
      ELSE [g EXCEPT !.joined = IF b.joined THEN @ + n ELSE @, !.vec = Pushed(@, b, n)]

\* ntp_stats_add() once a host record is known to be complete.
Counted(g, o, n) ==
  LET b == ntp_breakdown(o.h, o.t)
  IN  [g EXCEPT !.bad_target = IF b.err = "incomplete_target" THEN @ + n ELSE @,
                !.joined = IF b.joined THEN @ + n ELSE @,
                !.post_estimated = IF b.joined /\ o.h.rdma /\ ~ posting_ok(o.t) THEN @ + n ELSE @,
                !.vec = Pushed(@, b, n)]

\* ntp_stats_add() of n records like o.
ntp_stats_add(s, o, n) ==
  LET key  == group_key(o)
      s1   == IF \E i \in DOMAIN s : s[i].key = key THEN s ELSE Append(s, NewGroup(key))
      i    == CHOOSE j \in DOMAIN s1 : s1[j].key = key
      g    == [s1[i] EXCEPT !.records = @ + n,
                            !.spdk_host = @ \/ o.spdk]
  IN  [s1 EXCEPT ![i] = IF ~ host_complete(o.h) THEN [g EXCEPT !.bad_host = @ + n]
                        ELSE Counted(g, o, n)]

\* ntp_summarize(): how many values, and their sum; the mean is sum / n.
N(bag) == BagCardinality(bag)
Total(bag) == MapThenSumSet(LAMBDA v : v * bag[v], DOMAIN bag)

-----------------------------------------------------------------------------
(* report.c: the groups a report shows.                                    *)

total_records(s) == FoldSeq(LAMBDA g, n : g.records + n, 0, s)

\* order_groups(): the most records first, first come first among equals.
order_groups(s) ==
  SetToSortSeq(DOMAIN s, LAMBDA i, j : \/ s[i].records > s[j].records
                                       \/ s[i].records = s[j].records /\ i < j)

\* folded(): the i-th group shown, with less than MINOR_GROUP_PCT of the records.
folded(s, i, all_groups) ==
  i > 1 /\ ~ all_groups /\ s[order_groups(s)[i]].records * 100 < total_records(s)

\* ntp_report_text(): the groups printed, and those of the "more groups" line.
Shown(s, all) == {i \in DOMAIN s : ~ folded(s, i, all)}
Minor(s, all) == {i \in DOMAIN s : folded(s, i, all)}
RecordsOf(s, is) == FoldSet(LAMBDA i, n : s[order_groups(s)[i]].records + n, 0, is)

\* group_joined(): the target's side is shown.
group_joined(g) ==
  N(g.vec.S3_S5) > 0 /\ 2 * N(g.vec.S3_S5) >= N(g.vec.E2E)

\* Mutant: without target records, the wait for data is not shown.
stage_rows_NoWait(g, joined) ==
  (IF g.spdk_host THEN {} ELSE {"S1"}) \cup {"S2"}
    \cup IF joined THEN {"S3_S5", "S6", "S7_S9"} ELSE {"HOST_RX", "REMOTE"}

\* stage_rows(): the rows of a group's stages.
stage_rows(g, joined) ==
  (IF g.spdk_host THEN {} ELSE {"S1"}) \cup {"S2"}
    \cup IF joined THEN {"S3_S5", "S6", "S7_S9"}
         ELSE {"HOST_RX", "REMOTE"}
              \cup (IF N(g.vec.HOST_WAIT) > 0 THEN {"HOST_WAIT"} ELSE {})

\* print_stages(): a row without a value is not printed.
Rows(g) == {r \in stage_rows(g, group_joined(g)) : N(g.vec[r]) > 0}

-----------------------------------------------------------------------------
(* report.c: ntp_report_compare().                                         *)

In(s, key) == \E i \in DOMAIN s : s[i].key = key

\* The places, in the loaded run's order, of the groups found in both runs.
Common ==
  {i \in DOMAIN loaded : In(base, loaded[order_groups(loaded)[i]].key)}

Compared(all) == {i \in Common : ~ folded(loaded, i, all)}
Skipped(all) == {i \in Common : folded(loaded, i, all)}

\* What the comparison ends with.
compare_says(all) ==
  IF Compared(all) = {} THEN "no group is present in both runs"
  ELSE IF Skipped(all) # {} THEN "more groups" ELSE "nothing"

-----------------------------------------------------------------------------
Init ==
  /\ grouping \in Groupings
  /\ base = <<>> /\ loaded = <<>> /\ adds = 0
  /\ given = [base |-> EmptyBag, loaded |-> EmptyBag]

\* load_run(): the next record of a run, or a burst of equal ones.
LoadBase(o, n) ==
  /\ base' = ntp_stats_add(base, o, n)
  /\ given' = [given EXCEPT !.base = @ (+) [x \in {o} |-> n]] /\ UNCHANGED loaded

LoadLoaded(o, n) ==
  /\ loaded' = ntp_stats_add(loaded, o, n)
  /\ given' = [given EXCEPT !.loaded = @ (+) [x \in {o} |-> n]] /\ UNCHANGED base

Next ==
  /\ adds < MaxAdds /\ adds' = adds + 1 /\ UNCHANGED grouping
  /\ \E o \in Observations, n \in Bursts : LoadBase(o, n) \/ LoadLoaded(o, n)

Spec == Init /\ [][Next]_vars

-----------------------------------------------------------------------------
\* The records of a group, incomplete ones included, are all SPDK's or none is:
\* stage_rows() drops the host block layer of the whole group for one of them.
\* And all usable ones have the same side of the target shown, the start of the
\* request, and the wait for data or not.
Uniform(g) ==
  LET usable  == N(g.vec.E2E)
      records == {o \in DOMAIN given.loaded : group_key(o) = g.key}
  IN  /\ \A o1, o2 \in records : o1.spdk = o2.spdk
      /\ N(g.vec.S1) = usable
      /\ \/ N(g.vec.S3_S5) = usable
         \/ N(g.vec.S3_S5) = 0 /\ N(g.vec.HOST_WAIT) \in {0, usable}

\* "Either way they add up to the end-to-end latency" (struct srow): so they do,
\* whatever commands and classes are mixed in a group and whatever it is grouped
\* by, when either all of its usable records have their target's side or none
\* has, and when either all of its records are SPDK's or none is.
UniformRowsAddUp ==
  \A i \in DOMAIN loaded : Uniform(loaded[i]) =>
    LET g == loaded[i]
    IN  /\ \A r \in Rows(g) : N(g.vec[r]) = N(g.vec.E2E)
        /\ MapThenSumSet(LAMBDA r : Total(g.vec[r]), Rows(g)) = Total(g.vec.E2E)

\* Means in twelfths are whole numbers for up to four records.
Mean12(bag) == (12 * Total(bag)) \div N(bag)

\* The same claim as it is made (report.c:137-141): of any group that is shown.
RowsAddUp ==
  \A i \in DOMAIN loaded : N(loaded[i].vec.E2E) > 0 =>
    LET g == loaded[i]
    IN  MapThenSumSet(LAMBDA r : Mean12(g.vec[r]), Rows(g)) = Mean12(g.vec.E2E)

\* Every record given to a run is in one group, and there it is either usable,
\* and in the end-to-end latency, or counted as an incomplete host record; a
\* usable one has the target's side or not; and a report shows it or counts it
\* in the "more groups" line, the largest group always being shown.
RecordsAccounted ==
  /\ total_records(loaded) = N(given.loaded)
  /\ \A i \in DOMAIN loaded :
       LET g == loaded[i]
       IN  /\ g.records = N(g.vec.E2E) + g.bad_host
           /\ g.joined = N(g.vec.S3_S5)
           /\ g.joined + g.bad_target <= N(g.vec.E2E)
           /\ g.joined + N(g.vec.REMOTE) = N(g.vec.E2E)
  /\ \A all \in BOOLEAN :
       /\ loaded # <<>> => 1 \in Shown(loaded, all)
       /\ RecordsOf(loaded, Shown(loaded, all)) + RecordsOf(loaded, Minor(loaded, all))
            = N(given.loaded)

\* "no group (I/O type, size, device) is present in both runs" (report.c:658):
\* ntp_report_compare() says so only if it is so.
NoneInBothIsTrue ==
  \A all \in BOOLEAN :
    compare_says(all) = "no group is present in both runs" => Common = {}
=============================================================================
