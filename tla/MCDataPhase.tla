---------------------------- MODULE MCDataPhase ----------------------------
(* Both data phases on small instances: a read's on the host, or a write's *)
(* on the target.                                                          *)
EXTENDS ReadData, Sequences, TLC

CONSTANTS CPUs, MaxMisses, MaxWriteTime

\* One PDU in two skbs at least, or two PDUs.
MCStreams == {<<"header", "data", "data">>, <<"header", "data", "header", "data">>}

VARIABLES
  side,           \* which of the two is timed
  wnow, wrx, wrec, stream, sock, pc, cpu, left, returned, misses, headerArr

Write == INSTANCE WriteData
           WITH now <- wnow, rx <- wrx, rec <- wrec,
                Streams <- MCStreams, MaxTime <- MaxWriteTime

writeVars == <<wnow, wrx, wrec, stream, sock, pc, cpu, left, returned, misses, headerArr>>

Symmetries == Permutations(Reads) \cup Permutations(CPUs)

\* A write not timed waits in its first state.
MCInit ==
  /\ Init /\ Write!Init
  /\ \/ side = "write"
     \/ side = "read" /\ Len(stream) = 3

MCNext ==
  \/ /\ side = "read" /\ Next
     /\ UNCHANGED <<side, writeVars>>
  \/ /\ side = "write" /\ Write!Next
     /\ UNCHANGED <<side, vars>>

MCSpec == MCInit /\ [][MCNext]_<<side, vars, writeVars>>

\* As in WriteData: the time counted for a write's copies lies inside its data
\* phase, so the wait on_copy_done() leaves to data_phase() is not negative; the
\* phase is in order and its data not said to have arrived before it did, with
\* on_h2c() and on_copy_done() preempted or moved.
WriteTimed == Write!WriteBusyInside /\ Write!WritePhaseInOrder
=============================================================================
