----------------------------- MODULE MCReports ------------------------------
(* What becomes of the records after a recording, on small instances: one  *)
(* command's records broken down (Breakdown.tla), many of them grouped and *)
(* reported (Report.tla), and the file they are kept in (TraceFile.tla).   *)
EXTENDS MCReport

CONSTANTS
  Span, MaxMiss, Busies, Offsets,               \* Breakdown's
  Versions, BufferWords, MaxRecords             \* TraceFile's

VARIABLES
  part,                                         \* which of the three is looked at
  h, t, hostTodo, tgtTodo, clock, misses,       \* Breakdown's
  version, writer, buffer, disk, added, hole, records, write_errors, exit,
  reader, pos, rec, delivered, savedFirst       \* TraceFile's

commandVars == <<h, t, hostTodo, tgtTodo, clock, misses>>
fileVars == <<version, writer, buffer, disk, added, hole, records, write_errors, exit,
              reader, pos, rec, delivered, savedFirst>>

Command == INSTANCE Breakdown
File == INSTANCE TraceFile

\* The parts not looked at wait in one of their first states.
MCInit ==
  /\ Init /\ Command!Init /\ File!Init
  /\ part \in {"command", "groups", "file"}
  /\ part # "command" => ~ h.rdma /\ ~ h.write /\ h.busy = 1
  /\ part # "groups" => grouping = {}
  /\ part # "file" => version = File!NTP_FILE_VERSION

MCNext ==
  \/ /\ part = "command" /\ Command!Next
     /\ UNCHANGED <<part, vars, fileVars>>
  \/ /\ part = "groups" /\ Next
     /\ UNCHANGED <<part, commandVars, fileVars>>
  \/ /\ part = "file" /\ File!Next
     /\ UNCHANGED <<part, vars, commandVars>>

MCSpec == MCInit /\ [][MCNext]_<<part, vars, commandVars, fileVars>>

\* As in Breakdown: ntp_breakdown()'s components add up to the end-to-end
\* latency, with the target record and without, whichever events were missed.
ComponentsSum == Command!ComponentsSum

\* As in Breakdown: so do the stages of model.c when all five are reported, and
\* the back end's details add up to the storage component.
StagesSum == Command!StagesSum

\* As in Breakdown: the breakdown does not depend on how far apart the clocks of
\* the two machines are.
ClocksIrrelevant == Command!ClocksIrrelevant

\* As in Breakdown: events in their order give no negative component, the
\* network's computed share apart, whichever of them were missed.
NoNegative == Command!NoNegative

\* As in TraceFile: a recording that exited with success is read back whole by
\* ntp_read_file(), or refused by its version.
SavedIsRead == File!SavedIsRead

\* As in TraceFile: unless a flush failed, ntp_read_file() gives out whole
\* records only, at any time, with nothing of one in another.
OnlyWholeRecords == File!OnlyWholeRecords
=============================================================================
