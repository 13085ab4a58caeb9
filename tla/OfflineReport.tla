--------------------------- MODULE OfflineReport ----------------------------
(***************************************************************************)
(* `ntprof report FILE` on the file a recording wrote: load_run() of       *)
(* src/offline.c reads the records in file order, adds every target record *)
(* to an unbounded joiner and keeps the host records, then matches the     *)
(* host records in that order. The recording runs first; the variables of  *)
(* the second joiner start with an `o`.                                    *)
(***************************************************************************)
EXTENDS Recording

VARIABLES
  pos,                  \* records of the file read so far
  kept,                 \* r->hosts: the host records, in file order
  matchedSoFar,         \* the first host records already matched
  otargets, ohosts, ohostsSeen, otargetsSeen, ost, oreported

ojoinVars == <<otargets, ohosts, ohostsSeen, otargetsSeen, ost, oreported>>
reportVars == <<pos, kept, matchedSoFar, ojoinVars>>

O == INSTANCE Joiner WITH
       MaxPerKey <- 0,  \* ntp_joiner_new(0)
       targets <- otargets, hosts <- ohosts, hostsSeen <- ohostsSeen,
       targetsSeen <- otargetsSeen, st <- ost, reported <- oreported

\* Mutant: the host records are kept in reverse.
ReadRecord_Reversed ==
  /\ phase = "done" /\ pos < Len(file)
  /\ pos' = pos + 1
  /\ \/ /\ file[pos + 1].kind = "host"
        /\ kept' = <<file[pos + 1].cmd>> \o kept
        /\ UNCHANGED ojoinVars
     \/ /\ file[pos + 1].kind = "target"
        /\ O!AddTarget(file[pos + 1].cmd, file[pos + 1].ts)
        /\ UNCHANGED kept
  /\ UNCHANGED <<matchedSoFar, vars>>

\* Mutant: a host record is matched as it is read.
ReadRecord_MatchAtOnce ==
  /\ phase = "done" /\ pos < Len(file)
  /\ pos' = pos + 1
  /\ \/ file[pos + 1].kind = "host" /\ O!Match(file[pos + 1].cmd)
     \/ /\ file[pos + 1].kind = "target"
        /\ O!AddTarget(file[pos + 1].cmd, file[pos + 1].ts)
  /\ UNCHANGED <<kept, matchedSoFar, vars>>

\* ntp_read_file() hands the next record to on_host() or on_target().
ReadRecord ==
  /\ phase = "done" /\ pos < Len(file)
  /\ pos' = pos + 1
  /\ \/ /\ file[pos + 1].kind = "host"
        /\ kept' = Append(kept, file[pos + 1].cmd)
        /\ UNCHANGED ojoinVars
     \/ /\ file[pos + 1].kind = "target"
        /\ O!AddTarget(file[pos + 1].cmd, file[pos + 1].ts)
        /\ UNCHANGED kept
  /\ UNCHANGED <<matchedSoFar, vars>>

\* load_run()'s second loop: ntp_joiner_match() and ntp_stats_add().
MatchHost ==
  /\ phase = "done" /\ pos = Len(file)
  /\ matchedSoFar < Len(kept)
  /\ matchedSoFar' = matchedSoFar + 1
  /\ O!Match(kept[matchedSoFar + 1])
  /\ UNCHANGED <<pos, kept, vars>>

ReportInit ==
  /\ Init /\ O!JoinInit
  /\ pos = 0 /\ kept = <<>> /\ matchedSoFar = 0

ReportNext ==
  \/ Next /\ UNCHANGED reportVars
  \/ ReadRecord
  \/ MatchHost

ReportSpec == ReportInit /\ [][ReportNext]_<<vars, reportVars>>

\* The fairness of the recording; `ntprof report` runs to its end.
FairReportSpec == ReportSpec /\ Fairness /\ WF_reportVars(ReadRecord) /\ WF_reportVars(MatchHost)

Reported == phase = "done" /\ pos = Len(file) /\ matchedSoFar = Len(kept)

\* Nothing is lost between the file and the report: each target record was
\* matched or still waits, each host record was reported once.
OfflineAccounted == O!TargetsAccounted /\ O!HostsAccounted /\ O!UsedOnce /\ O!PairsAgree

\* The report from the saved file equals the report of the recording as long as
\* the bounded and timed online joiner gave up no record: the order in which
\* host and target records reached the file does not matter. And its own books
\* balance whatever the recording gave up.
OfflineAgrees ==
  OfflineAccounted /\ ((Reported /\ NothingLost) => oreported = reported)

\* The file loses nothing the online joiner had: `ntprof report` joins at least
\* as many commands as the recording did.
OfflineJoinsNoFewer == Reported => ost.matched >= st.matched
=============================================================================
