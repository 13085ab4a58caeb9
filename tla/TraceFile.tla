----------------------------- MODULE TraceFile ------------------------------
(***************************************************************************)
(* Record files (src/trace_file.c): the recorder's writer, through stdio's *)
(* buffer, and ntp_read_file(), which `ntprof report`, `dump` and          *)
(* `compare` read a file with, of this or an older version, at any time:   *)
(* after the recording, during it, or after the recorder was killed.       *)
(*                                                                         *)
(* A file is a sequence of words: the file header, and for each record its *)
(* header (struct ntp_rec_hdr) and the fields each file version added. A   *)
(* word is <<record, position>>; the file header is <<0, version>>.        *)
(***************************************************************************)
EXTENDS Integers, Sequences, SequencesExt

CONSTANTS
  Versions,       \* versions of the ntprof that writes
  BufferWords,    \* stdio's buffer
  MaxRecords      \* bound: records that arrive

NTP_FILE_VERSION == 5
Kinds == {"host", "target"}

VARIABLES
  version,        \* of the writer
  writer,         \* closed, open, done (close_writer() ran) or killed
  buffer, disk,   \* words in the buffer and in the file
  added,          \* kinds of the records ntp_writer_add() was called for
  hole,           \* a flush failed, and lost words
  records, write_errors,
  exit,           \* close_writer()'s result
  reader,         \* idle, reading, ok or failed
  pos,            \* words read
  rec,            \* the union ntp_read_file() reads into: position -> word
  delivered,      \* what the callbacks got
  savedFirst      \* the reader started after close_writer() succeeded

writerVars == <<version, writer, buffer, disk, added, hole, records, write_errors, exit>>
readerVars == <<reader, pos, rec, delivered, savedFirst>>
vars == <<writerVars, readerVars>>

-----------------------------------------------------------------------------
(* Layout: how many words a record of each kind has in a file of version v *)
(* (host: fields added in 4; target: in 3 and 5).                          *)

\* What ntp_read_file() expects.
rec_size(kind, v) ==
  IF kind = "host" THEN IF v >= 4 THEN 3 ELSE 2
  ELSE IF v >= 5 THEN 4 ELSE IF v >= 3 THEN 3 ELSE 2

\* What each version wrote; a later one would have added more.
written_size(kind, v) ==
  CASE kind = "host"   -> <<2, 2, 2, 3, 3, 4>>[v]
    [] kind = "target" -> <<2, 2, 3, 3, 4, 5>>[v]

Words(i, kind) == [p \in 1 .. written_size(kind, version) |-> <<i, p>>]

Zeroes == [p \in 1 .. 5 |-> <<>>]       \* <<>> stands for fields that read as 0

-----------------------------------------------------------------------------
(* stdio, as trace_file.c uses it. fwrite() fills the buffer and flushes   *)
(* it when full; a flush that fails has written a part, drops the rest,    *)
(* and fwrite() reports a short item.                                      *)

fwrite(words) ==
  LET room == BufferWords - Len(buffer)
      full == buffer \o SubSeq(words, 1, room)
  IN  \/ /\ Len(words) <= room
         /\ buffer' = buffer \o words
         /\ UNCHANGED <<disk, hole, write_errors>> /\ records' = records + 1
      \/ /\ Len(words) > room
         /\ disk' = disk \o full
         /\ buffer' = SubSeq(words, room + 1, Len(words))
         /\ UNCHANGED <<hole, write_errors>> /\ records' = records + 1
      \/ /\ Len(words) > room
         /\ \E k \in 0 .. Len(full) - 1 : disk' = disk \o SubSeq(full, 1, k)
         /\ buffer' = <<>> /\ hole' = TRUE
         /\ write_errors' = write_errors + 1 /\ UNCHANGED records

-----------------------------------------------------------------------------
(* The recorder.                                                           *)

\* ntp_writer_open(): the header fits in the buffer. fopen() may fail.
ntp_writer_open ==
  /\ writer = "closed" /\ exit = "none"
  /\ \/ writer' = "open" /\ buffer' = <<<<0, version>>>> /\ UNCHANGED exit
     \/ exit' = "failure" /\ UNCHANGED <<writer, buffer>>
  /\ UNCHANGED <<version, disk, added, hole, records, write_errors, readerVars>>

\* on_record() with ntp_writer_add(): an error is counted, and recording goes on.
ntp_writer_add(kind) ==
  /\ writer = "open" /\ Len(added) < MaxRecords
  /\ fwrite(Words(Len(added) + 1, kind))
  /\ added' = Append(added, kind)
  /\ UNCHANGED <<version, writer, exit, readerVars>>

\* Mutant: only failed additions fail the recording.
CloseResult_Ignored(closed) == IF write_errors > 0 THEN "failure" ELSE "success"

\* close_writer(): what the recorder exits with.
CloseResult(closed) == IF ~ closed \/ write_errors > 0 THEN "failure" ELSE "success"

\* ntp_writer_close() and close_writer(): fclose() flushes, and may fail.
close_writer ==
  /\ writer = "open"
  /\ \/ /\ disk' = disk \o buffer
        /\ exit' = CloseResult(TRUE) /\ UNCHANGED hole
     \/ /\ \E k \in 0 .. Len(buffer) - 1 : disk' = disk \o SubSeq(buffer, 1, k)
        /\ exit' = CloseResult(FALSE) /\ hole' = TRUE
  /\ buffer' = <<>> /\ writer' = "done"
  /\ UNCHANGED <<version, added, records, write_errors, readerVars>>

\* The recorder dies with what is in its buffer.
Killed ==
  /\ writer = "open"
  /\ writer' = "killed" /\ buffer' = <<>>
  /\ UNCHANGED <<version, disk, added, hole, records, write_errors, exit, readerVars>>

-----------------------------------------------------------------------------
(* ntp_read_file().                                                        *)

ReaderEnds(how) ==
  /\ reader' = how
  /\ UNCHANGED <<writerVars, pos, rec, delivered, savedFirst>>

\* The file header is there, and of a version this ntprof reads, with the
\* record sizes it knows for it.
HeaderOk ==
  /\ Len(disk) > 0 /\ Head(disk)[1] = 0
  /\ version \in 2 .. NTP_FILE_VERSION
  /\ \A kind \in Kinds : written_size(kind, version) = rec_size(kind, version)

read_header ==
  /\ reader = "idle"
  /\ savedFirst' = (exit = "success")
  /\ reader' = IF HeaderOk THEN "reading" ELSE "failed"
  /\ pos' = IF HeaderOk THEN 1 ELSE pos
  /\ UNCHANGED <<writerVars, rec, delivered>>

\* Mutant: what an older record lacks keeps what was read before.
Cleared_Stale(word) == [rec EXCEPT ![1] = word]

\* The record's header was read; the rest of the union is cleared.
Cleared(word) == [Zeroes EXCEPT ![1] = word]

\* What kind a word read as a record header has: a record's own, or, where the
\* words before it are not all there, anything.
KindsOf(word) ==
  IF word[2] = 1 /\ word[1] > 0 THEN {added[word[1]]} ELSE Kinds \cup {"corrupt"}

\* One turn of the loop: a short header ends the file; a short rest fails.
read_record ==
  /\ reader = "reading" /\ pos < Len(disk)
  /\ \E kind \in KindsOf(disk[pos + 1]) :
       IF kind = "corrupt" \/ pos + rec_size(kind, version) > Len(disk)
       THEN ReaderEnds("failed")
       ELSE LET n == rec_size(kind, version)
                r == [p \in 1 .. 5 |-> IF p \in 2 .. n THEN disk[pos + p]
                                       ELSE Cleared(disk[pos + 1])[p]]
            IN  /\ rec' = r
                /\ delivered' = Append(delivered, <<kind, r>>)
                /\ pos' = pos + n
                /\ UNCHANGED <<writerVars, reader, savedFirst>>

read_end ==
  /\ reader = "reading" /\ pos = Len(disk)
  /\ ReaderEnds("ok")

-----------------------------------------------------------------------------
Init ==
  /\ version \in Versions
  /\ writer = "closed" /\ buffer = <<>> /\ disk = <<>> /\ added = <<>> /\ hole = FALSE
  /\ records = 0 /\ write_errors = 0 /\ exit = "none"
  /\ reader = "idle" /\ pos = 0 /\ rec = Zeroes /\ delivered = <<>> /\ savedFirst = FALSE

Next ==
  \/ ntp_writer_open \/ close_writer \/ Killed
  \/ \E kind \in Kinds : ntp_writer_add(kind)
  \/ read_header \/ read_record \/ read_end

Spec == Init /\ [][Next]_vars

-----------------------------------------------------------------------------
\* Record i as its version wrote it: its fields, and 0 for the later ones.
AsWritten(i) ==
  <<added[i], [p \in 1 .. 5 |-> IF p <= written_size(added[i], version) THEN <<i, p>> ELSE <<>>]>>

\* A recording that exited with success and said so many records were written
\* is read back whole: every record given to ntp_writer_add(), once, in order,
\* with what its version did not have as 0; or it is refused by its version.
SavedIsRead ==
  savedFirst =>
    /\ records = Len(added)
    /\ reader = "failed" => version \notin 2 .. NTP_FILE_VERSION
    /\ reader = "ok" => /\ version \in 2 .. NTP_FILE_VERSION
                        /\ delivered = [i \in 1 .. Len(added) |-> AsWritten(i)]

\* Whenever a file is read, during the recording too or after the recorder was
\* killed: unless a flush failed, ntp_read_file() gives out whole records only,
\* the first ones written, with nothing of one record in another.
OnlyWholeRecords ==
  ~ hole =>
    /\ Len(delivered) <= Len(added)
    /\ \A i \in 1 .. Len(delivered) : delivered[i] = AsWritten(i)
=============================================================================
