-------------------------- MODULE SupervisorProofs --------------------------
(***************************************************************************)
(* ExitTellsOutcome and GateHeld of Supervisor for any number of signals.  *)
(* The argument: only the child the parent listens to runs, the other one  *)
(* having been killed or not been forked; what that child has written and  *)
(* the parent not read yet follows from where the two are, so the byte     *)
(* after MSG_DONE is the child's exit status; and a child that has got as  *)
(* far as closing its loader has decided on that status.                   *)
(***************************************************************************)
EXTENDS Supervisor, TLAPS

\* The child has decided on its exit status.
Ended == {"closing", "dead"}

\* The parent has read nothing yet from the child it listens to.
Unheard == {"window", "attach", "attach2", "kill"}

\* Every Ctrl-C the parent has counted, or has still to count, was sent.
SignalsCounted == interrupts + (IF "INT" \in psig THEN 1 ELSE 0) <= nsignals

\* One child at a time: the second is forked once the first is killed.
OneChild ==
  /\ cur = 1 => ch[2] = NoChild
  /\ cur = 2 => ch[1].killed /\ pc \in {"attach2", "recording", "status", "detach", "wait", "done"}
  /\ pc = "start" => ch[1] = NoChild /\ psig = {}
  /\ pc = "again" => ch[1].killed
  /\ \A i \in Attempts :
       ch[i].killed => i = 1 /\ (cur = 2 \/ pc = "again" \/ (pc = "done" /\ exit = 1))

\* record() returns 0 only after close_writer() succeeded.
ZeroIsClosed(c) == c.pc \in Ended /\ c.ret = 0 => c.file = "closed"

\* What child c, when the parent at p listens to it, has in its pipe.
Says(p, c) ==
  /\ p \in Unheard =>
       \/ c.pc \in {"forked", "attaching", "attached"} \cup Ended /\ c.pipe = <<>>
       \/ c.pc \in {"recording", "draining"} /\ c.pipe = <<MSG_ATTACHED>>
       \/ c.pc \in Ended /\ c.pipe = <<MSG_ATTACHED, MSG_DONE, c.ret>>
  /\ p = "recording" =>
       \/ c.pc \in {"recording", "draining"} /\ c.pipe = <<>>
       \/ c.pc \in Ended /\ c.pipe = <<MSG_DONE, c.ret>>
  /\ p = "status" => c.pc \in Ended /\ c.pipe = <<c.ret>>
  /\ p = "wait" => c.pc = "dead"

\* A code other than 0 and 1, or a failure the user asked for, tells nothing.
Tells(code, c) ==
  code \in {0, 1} =>
    \/ c.killed /\ code = 1
    \/ c.pc \in Ended /\ (code = c.ret \/ (code = 1 /\ interrupts >= 2))

Outcome ==
  /\ pc = "detach" => ch[cur].pc \in Ended /\ status \in {0, 1} /\ Tells(status, ch[cur])
  /\ pc # "done" => exit = None
  /\ Tells(exit, ch[cur])

SupInv ==
  /\ TypeOK /\ SignalsCounted /\ OneChild
  /\ \A i \in Attempts : ZeroIsClosed(ch[i])
  /\ Says(pc, ch[cur]) /\ Outcome
  /\ gate => \E i \in Attempts : ch[i].armed

-----------------------------------------------------------------------------
\* What a step of the child the parent listens to may do to it: c is the child
\* afterwards.
Moves(i, c) ==
  /\ c \in Child /\ ch' = [ch EXCEPT ![i] = c] /\ ~ c.killed
  /\ ZeroIsClosed(c) /\ Says(pc, c)
  /\ ch[i].pc \in Ended => c.pc \in Ended /\ c.ret = ch[i].ret
  /\ gate' => c.armed \/ (gate /\ (ch[i].armed => c.armed))

\* A child that runs is the one the parent listens to.
LEMMA RunsIsCur ==
  ASSUME SupInv, NEW i \in Attempts, ~ ch[i].killed, ch[i].pc # "none"
  PROVE  i = cur /\ ch[i] \in Child /\ pc # "start" /\ pc # "again"
  <1>1. /\ cur \in {1, 2} /\ i \in {1, 2}
        /\ cur = 1 => ch[2] = NoChild
        /\ cur = 2 => ch[1].killed
        /\ pc = "start" => ch[1] = NoChild /\ cur # 2
        /\ pc = "again" => ch[1].killed /\ cur # 2
    BY DEF SupInv, TypeOK, OneChild, Attempts
  <1>2. NoChild.pc = "none"
    BY DEF NoChild
  <1>3. i = cur
    BY <1>1, <1>2
  <1>4. ch[i] \in Child
    BY DEF SupInv, TypeOK
  <1>5. pc # "start" /\ pc # "again"
    BY <1>1, <1>2
  <1>6. QED  BY <1>3, <1>4, <1>5

\* A step of the running child that changes only its own state keeps the invariant
\* if the child's new state is consistent.
LEMMA ChildMoves ==
  ASSUME SupInv, NEW i \in Attempts, i = cur, ~ ch[i].killed, ch[i].pc # "none",
         NEW c, Moves(i, c), ChildOnly, gate' \in BOOLEAN, grandchild' \in BOOLEAN
  PROVE  SupInv'
  <1>1. /\ ch \in [Attempts -> Child] /\ c \in Child /\ ch' = [ch EXCEPT ![i] = c]
        /\ UNCHANGED <<mode, pc, exit, status, cur, polling, interrupts, psig, nsignals, missed>>
    BY DEF SupInv, TypeOK, Moves, ChildOnly
  <1>2. /\ ch' \in [Attempts -> Child] /\ ch'[i] = c
        /\ \A j \in Attempts : j # i => ch'[j] = ch[j]
    BY <1>1
  <1>3. TypeOK'
    BY <1>1, <1>2 DEF SupInv, TypeOK
  <1>4. SignalsCounted'
    BY <1>1 DEF SupInv, SignalsCounted
  <1>5. OneChild'
    <2>1. pc # "start" /\ pc # "again"
      BY RunsIsCur
    <2>2. cur = 1 => ch'[2] = NoChild
      BY <1>2 DEF SupInv, OneChild, Attempts
    <2>3. cur = 2 => ch'[1].killed
      BY <1>2 DEF SupInv, OneChild, Attempts
    <2>4. \A j \in Attempts : ch'[j].killed => ch[j].killed
      BY <1>2 DEF Moves
    <2>5. QED  BY <1>1, <2>1, <2>2, <2>3, <2>4 DEF SupInv, OneChild
  <1>6. \A j \in Attempts : ZeroIsClosed(ch'[j])
    BY <1>2 DEF SupInv, Moves
  <1>7. Says(pc', ch'[cur'])
    BY <1>1, <1>2 DEF Moves
  <1>8. Outcome'
    <2>1. ASSUME NEW code, Tells(code, ch[i]) PROVE Tells(code, c)'
      BY <1>1, <2>1 DEF Tells, Moves
    <2>2. QED  BY <1>1, <1>2, <2>1 DEF SupInv, Outcome, Moves
  <1>9. gate' => \E j \in Attempts : ch'[j].armed
    BY <1>2 DEF SupInv, Moves
  <1>10. QED
    BY <1>3, <1>4, <1>5, <1>6, <1>7, <1>8, <1>9 DEF SupInv, ZeroIsClosed, Says

\* A child's fields, one by one.
LEMMA FieldsOf ==
  ASSUME NEW c \in Child
  PROVE  /\ c.killed \in BOOLEAN /\ c.armed \in BOOLEAN /\ c.ret \in {0, 1}
         /\ c.pipe \in Seq({MSG_ATTACHED, MSG_DONE, 0, 1})
  BY DEF Child

\* What is left of a process that has ended.
LEMMA DeadIs ==
  ASSUME NEW c \in Child, NEW r \in {0, 1}
  PROVE  /\ Dead(c, r) \in Child /\ Dead(c, r).pc = "dead" /\ Dead(c, r).ret = r
         /\ Dead(c, r).killed = c.killed /\ Dead(c, r).armed = c.armed
         /\ Dead(c, r).pipe = c.pipe /\ Dead(c, r).file = c.file
  BY DEF Dead, Child

\* A process that got a signal: only what is pending for it changes.
LEMMA SignalledIs ==
  ASSUME NEW c \in Child, NEW s \in Signals
  PROVE  /\ Signalled(c, s) \in Child
         /\ \/ Signalled(c, s) = c
            \/ c.pc # "none" /\ \E g : Signalled(c, s) = [c EXCEPT !.sig = g]
  <1>1. CASE c.pc \in {"none", "dead"} \/ c.killed
    BY <1>1 DEF Signalled
  <1>2. CASE ~ (c.pc \in {"none", "dead"} \/ c.killed)
    <2>1. Signalled(c, s) = [c EXCEPT !.sig = c.sig \cup {s}] /\ c.pc # "none"
      BY <1>2 DEF Signalled
    <2>2. [c EXCEPT !.sig = c.sig \cup {s}] \in Child
      BY DEF Child
    <2>3. QED  BY <2>1, <2>2
  <1>3. QED  BY <1>1, <1>2

\* record() up to ntp_loader_open().
LEMMA SetupKeeps ==
  ASSUME SupInv, NEW i \in Attempts, Setup(i)
  PROVE  SupInv'
  <1>1. /\ ch[i].pc = "forked" /\ ~ ch[i].killed /\ ChildOnly /\ gate' = gate
        /\ ch \in [Attempts -> Child] /\ gate \in BOOLEAN /\ grandchild' \in BOOLEAN
    BY DEF Setup, Runs, SupInv, TypeOK
  <1>2. i = cur /\ ch[i] \in Child
    BY <1>1, RunsIsCur
  <1>3. PICK k \in BOOLEAN : ch' = [ch EXCEPT ![i].pc = "attaching", ![i].kprobes = k]
    BY DEF Setup
  <1> DEFINE c == [ch[i] EXCEPT !.pc = "attaching", !.kprobes = k]
  <1>4. ch' = [ch EXCEPT ![i] = c]
    BY <1>1, <1>3
  <1>5. /\ c \in Child /\ c.killed = ch[i].killed /\ c.armed = ch[i].armed
        /\ c.pc = "attaching" /\ c.pipe = ch[i].pipe /\ c.ret = ch[i].ret
    BY <1>2 DEF Child
  <1> HIDE DEF c
  <1>6. Says(pc, c)
    BY <1>1, <1>2, <1>5 DEF SupInv, Says, Ended
  <1>7. Moves(i, c)
    BY <1>1, <1>4, <1>5, <1>6 DEF Moves, ZeroIsClosed, Ended
  <1>8. QED  BY <1>1, <1>2, <1>7, ChildMoves

\* ntp_loader_open() arms, and the SPDK processes may sample; or it fails.
LEMMA AttachKeeps ==
  ASSUME SupInv, NEW i \in Attempts, Attach(i) \/ AttachFails(i)
  PROVE  SupInv'
  <1>1. /\ ch[i].pc = "attaching" /\ ~ ch[i].killed /\ ChildOnly /\ grandchild' = grandchild
        /\ ch \in [Attempts -> Child] /\ gate' \in BOOLEAN /\ grandchild \in BOOLEAN
    BY DEF Attach, AttachFails, Runs, SupInv, TypeOK
  <1>2. i = cur /\ ch[i] \in Child /\ ZeroIsClosed(ch[i])
    BY <1>1, RunsIsCur DEF SupInv
  <1>3. CASE Attach(i)
    <2> DEFINE c == [ch[i] EXCEPT !.pc = "attached", !.armed = TRUE]
    <2>1. ch' = [ch EXCEPT ![i] = c]
      BY <1>1, <1>3 DEF Attach
    <2>2. /\ c \in Child /\ c.killed = ch[i].killed /\ c.armed
          /\ c.pc = "attached" /\ c.pipe = ch[i].pipe
      BY <1>2 DEF Child
    <2> HIDE DEF c
    <2>3. Says(pc, c)
      BY <1>1, <1>2, <2>2 DEF SupInv, Says, Ended
    <2>4. Moves(i, c)
      BY <1>1, <2>1, <2>2, <2>3 DEF Moves, ZeroIsClosed, Ended
    <2>5. QED  BY <1>1, <1>2, <2>4, ChildMoves
  <1>4. CASE AttachFails(i)
    <2> DEFINE c == [ch[i] EXCEPT !.pc = "closing", !.ret = 1]
    <2>0. gate' => gate
      BY <1>4, Zenon DEF AttachFails
    <2>1. ch' = [ch EXCEPT ![i] = c]
      BY <1>1, <1>4 DEF AttachFails
    <2>2. /\ c \in Child /\ c.killed = ch[i].killed /\ c.armed = ch[i].armed
          /\ c.pc = "closing" /\ c.pipe = ch[i].pipe /\ c.ret = 1
      BY <1>2 DEF Child
    <2> HIDE DEF c
    <2>3. Says(pc, c)
      BY <1>1, <1>2, <2>2 DEF SupInv, Says, Ended
    <2>4. Moves(i, c)
      BY <1>1, <2>0, <2>1, <2>2, <2>3 DEF Moves, ZeroIsClosed, Ended
    <2>5. QED  BY <1>1, <1>2, <2>4, ChildMoves
  <1>5. QED  BY <1>3, <1>4

\* The child disarms: the record file cannot be opened, or the loop has ended.
LEMMA DisarmKeeps ==
  ASSUME SupInv, NEW i \in Attempts, NEW r \in {0, 1}, NEW at, gate' = FALSE, ChildOnly,
         grandchild' = grandchild, ~ ch[i].killed,
         \/ ch[i].pc = "attached" /\ at = "closing" /\ r = 1
         \/ ch[i].pc = "recording" /\ at = "draining",
         ch' = [ch EXCEPT ![i].pc = at, ![i].armed = FALSE, ![i].ret = r]
  PROVE  SupInv'
  <1>1. ch \in [Attempts -> Child] /\ grandchild' \in BOOLEAN /\ gate' \in BOOLEAN
    BY DEF SupInv, TypeOK
  <1>2. i = cur /\ ch[i] \in Child
    BY RunsIsCur
  <1> DEFINE c == [ch[i] EXCEPT !.pc = at, !.armed = FALSE, !.ret = r]
  <1>3. ch' = [ch EXCEPT ![i] = c]
    BY <1>1
  <1>4. /\ c \in Child /\ c.killed = ch[i].killed
        /\ c.pc = at /\ c.pipe = ch[i].pipe /\ c.ret = r
    BY <1>2 DEF Child
  <1> HIDE DEF c
  <1>5. Says(pc, c)
    BY <1>2, <1>4 DEF SupInv, Says, Ended
  <1>6. ~ gate' /\ ~ c.killed /\ ZeroIsClosed(c) /\ ch[i].pc \notin Ended
    BY <1>4 DEF ZeroIsClosed, Ended
  <1>7. Moves(i, c)
    BY <1>3, <1>4, <1>5, <1>6 DEF Moves
  <1>8. QED  BY <1>1, <1>2, <1>7, ChildMoves

\* The child could not open its probes and gives up (OpenFails).
LEMMA OpenFailsKeeps ==
  ASSUME SupInv, NEW i \in Attempts, OpenFails(i)
  PROVE  SupInv'
  BY DisarmKeeps DEF OpenFails, Runs

\* The child's recording is over and it disarms (EndRecording).
LEMMA EndRecordingKeeps ==
  ASSUME SupInv, NEW i \in Attempts, NEW why, EndRecording(i, why)
  PROVE  SupInv'
  <1>1. PICK r \in {0, 1} :
          ch' = [ch EXCEPT ![i].pc = "draining", ![i].armed = FALSE, ![i].ret = r]
    BY DEF EndRecording
  <1>2. QED  BY <1>1, DisarmKeeps DEF EndRecording, Runs

\* What tell_parent() leaves of a child c: it is unchanged, has written, or SIGPIPE
\* has ended it.
LEMMA Told ==
  ASSUME NEW i, NEW c \in Child, NEW msg \in Seq({MSG_ATTACHED, MSG_DONE, 0, 1})
  PROVE  LET d == tell_parent(i, c, msg)
         IN  /\ d \in Child /\ d.killed = c.killed /\ d.armed = c.armed /\ d.file = c.file
             /\ \/ pc = "inline" /\ d = c
                \/ Read(i) /\ d.pc = c.pc /\ d.ret = c.ret /\ d.pipe = c.pipe \o msg
                \/ pc # "inline" /\ ~ Read(i) /\ d.pc = "dead" /\ d.ret = 1
  <1>1. CASE pc = "inline"
    BY <1>1 DEF tell_parent
  <1>2. CASE pc # "inline" /\ Read(i)
    <2>1. c.pipe \o msg \in Seq({MSG_ATTACHED, MSG_DONE, 0, 1})
      BY FieldsOf
    <2>2. tell_parent(i, c, msg) = [c EXCEPT !.pipe = c.pipe \o msg]
      BY <1>2 DEF tell_parent
    <2>3. QED  BY <1>2, <2>1, <2>2 DEF Child
  <1>3. CASE pc # "inline" /\ ~ Read(i)
    <2>1. tell_parent(i, c, msg) = Dead(c, 1)
      BY <1>3 DEF tell_parent
    <2>2. QED  BY <1>3, <2>1, DeadIs
  <1>4. QED  BY <1>1, <1>2, <1>3

\* The record file is open, and the parent told.
LEMMA OpenFileKeeps ==
  ASSUME SupInv, NEW i \in Attempts, OpenFile(i)
  PROVE  SupInv'
  <1>1. /\ ch[i].pc = "attached" /\ ~ ch[i].killed /\ ChildOnly /\ grandchild' = grandchild
        /\ gate' = gate /\ ch \in [Attempts -> Child] /\ gate \in BOOLEAN /\ grandchild \in BOOLEAN
    BY DEF OpenFile, Runs, SupInv, TypeOK
  <1>2. i = cur /\ ch[i] \in Child /\ Says(pc, ch[i])
    BY <1>1, RunsIsCur DEF SupInv
  <1> DEFINE c == [ch[i] EXCEPT !.pc = "recording", !.file = "open"]
             d == tell_parent(i, c, <<MSG_ATTACHED>>)
  <1>3. ch' = [ch EXCEPT ![i] = d]
    BY <1>1 DEF OpenFile
  <1>4. /\ c \in Child /\ c.killed = ch[i].killed /\ c.armed = ch[i].armed
        /\ c.pc = "recording" /\ c.pipe = ch[i].pipe
    BY <1>2 DEF Child
  <1> HIDE DEF c
  <1>5. /\ d \in Child /\ d.killed = c.killed /\ d.armed = c.armed
        /\ \/ pc = "inline" /\ d = c
           \/ Read(i) /\ d.pc = c.pc /\ d.pipe = c.pipe \o <<MSG_ATTACHED>>
           \/ pc # "inline" /\ ~ Read(i) /\ d.pc = "dead" /\ d.ret = 1
    <2>1. <<MSG_ATTACHED>> \in Seq({MSG_ATTACHED, MSG_DONE, 0, 1})
      OBVIOUS
    <2>2. QED  BY <1>4, <2>1, Told, ZenonT(30)
  <1> HIDE DEF d
  <1>6. Says(pc, d)
    <2>1. <<>> \o <<MSG_ATTACHED>> = <<MSG_ATTACHED>>
      OBVIOUS
    <2>2. CASE pc \in Unheard
      <3>1. ch[i].pipe = <<>>
        BY <1>1, <1>2, <2>2 DEF Says, Ended
      <3>2. Read(i) /\ pc # "inline"
        BY <1>2, <2>2 DEF Read, Listening, Unheard
      <3>3. QED  BY <1>4, <1>5, <2>1, <2>2, <3>1, <3>2 DEF Says, Unheard
    <2>3. CASE pc \notin Unheard
      BY <1>1, <1>2, <1>4, <1>5, <2>3 DEF Says, Ended, Read, Listening
    <2>4. QED  BY <2>2, <2>3
  <1>7. ZeroIsClosed(d) /\ ch[i].pc \notin Ended /\ ~ d.killed
    BY <1>1, <1>4, <1>5 DEF ZeroIsClosed, Ended
  <1>8. gate' => (gate /\ (ch[i].armed => d.armed))
    BY <1>1, <1>4, <1>5
  <1>9. Moves(i, d)
    BY <1>3, <1>5, <1>6, <1>7, <1>8 DEF Moves
  <1>10. QED  BY <1>1, <1>2, <1>9, ChildMoves

\* The report and close_writer(), and MSG_DONE with the status in one write.
LEMMA ReportKeeps ==
  ASSUME SupInv, NEW i \in Attempts, Report(i)
  PROVE  SupInv'
  <1>1. /\ ch[i].pc = "draining" /\ ~ ch[i].killed /\ ChildOnly /\ grandchild' = grandchild
        /\ gate' = gate /\ ch \in [Attempts -> Child] /\ gate \in BOOLEAN /\ grandchild \in BOOLEAN
    BY DEF Report, Runs, SupInv, TypeOK
  <1>2. i = cur /\ ch[i] \in Child /\ Says(pc, ch[i]) /\ ch[i].ret \in {0, 1}
    BY <1>1, RunsIsCur, FieldsOf DEF SupInv
  <1>3. PICK file \in {"closed", "bad"} :
          LET ret == IF file = "bad" THEN 1 ELSE ch[i].ret
          IN  ch' = [ch EXCEPT ![i] =
                       tell_parent(i, [@ EXCEPT !.pc = "closing", !.file = file, !.ret = ret],
                                   <<MSG_DONE, ret>>)]
    BY DEF Report
  <1> DEFINE ret == IF file = "bad" THEN 1 ELSE ch[i].ret
             c == [ch[i] EXCEPT !.pc = "closing", !.file = file, !.ret = ret]
             d == tell_parent(i, c, <<MSG_DONE, ret>>)
  <1>4. ch' = [ch EXCEPT ![i] = d]
    BY <1>1, <1>3
  <1>5. ret \in {0, 1} /\ (ret = 0 => file = "closed")
    BY <1>2, <1>3
  <1> HIDE DEF ret
  <1>6. /\ c \in Child /\ c.killed = ch[i].killed /\ c.armed = ch[i].armed
        /\ c.pc = "closing" /\ c.pipe = ch[i].pipe /\ c.ret = ret /\ c.file = file
    BY <1>2, <1>5 DEF Child
  <1> HIDE DEF c
  <1>7. <<MSG_DONE, ret>> \in Seq({MSG_ATTACHED, MSG_DONE, 0, 1})
    BY <1>5
  <1>8. /\ d \in Child /\ d.killed = c.killed /\ d.armed = c.armed /\ d.file = c.file
        /\ \/ pc = "inline" /\ d = c
           \/ Read(i) /\ d.pc = c.pc /\ d.ret = c.ret /\ d.pipe = c.pipe \o <<MSG_DONE, ret>>
           \/ pc # "inline" /\ ~ Read(i) /\ d.pc = "dead" /\ d.ret = 1
    BY <1>6, <1>7, Told, ZenonT(30)
  <1> HIDE DEF d
  <1>9. Says(pc, d)
    <2>1. CASE pc \in Unheard
      <3>1. ch[i].pipe = <<MSG_ATTACHED>>
        BY <1>1, <1>2, <2>1 DEF Says, Ended
      <3>2. Read(i) /\ pc # "inline"
        BY <1>2, <2>1 DEF Read, Listening, Unheard
      <3>3. d.pipe = <<MSG_ATTACHED, MSG_DONE, ret>> /\ d.pc = "closing" /\ d.ret = ret
        BY <1>6, <1>8, <3>1, <3>2
      <3>4. QED  BY <2>1, <3>3 DEF Says, Unheard, Ended
    <2>2. CASE pc = "recording"
      <3>1. ch[i].pipe = <<>>
        BY <1>1, <1>2, <2>2 DEF Says, Ended
      <3>2. Read(i) /\ pc # "inline"
        BY <1>2, <2>2 DEF Read, Listening
      <3>3. d.pipe = <<MSG_DONE, ret>> /\ d.pc = "closing" /\ d.ret = ret
        BY <1>6, <1>8, <3>1, <3>2
      <3>4. QED  BY <2>2, <3>3 DEF Says, Unheard, Ended
    <2>3. CASE pc \notin Unheard /\ pc # "recording"
      BY <1>1, <1>2, <2>3 DEF Says, Ended
    <2>4. QED  BY <2>1, <2>2, <2>3
  <1>10. ZeroIsClosed(d) /\ ch[i].pc \notin Ended /\ ~ d.killed
    BY <1>1, <1>5, <1>6, <1>8 DEF ZeroIsClosed, Ended
  <1>11. gate' => (gate /\ (ch[i].armed => d.armed))
    BY <1>1, <1>6, <1>8
  <1>12. Moves(i, d)
    BY <1>4, <1>8, <1>9, <1>10, <1>11 DEF Moves
  <1>13. QED  BY <1>1, <1>2, <1>12, ChildMoves

\* The loader is closed, and the child exits.
LEMMA ExitKeeps ==
  ASSUME SupInv, NEW i \in Attempts, Exit(i)
  PROVE  SupInv'
  <1>1. /\ ch[i].pc = "closing" /\ ~ ch[i].killed /\ ChildOnly /\ grandchild' = grandchild
        /\ gate' = gate /\ ch \in [Attempts -> Child] /\ gate \in BOOLEAN /\ grandchild \in BOOLEAN
    BY DEF Exit, Runs, SupInv, TypeOK
  <1>2. i = cur /\ ch[i] \in Child /\ Says(pc, ch[i]) /\ ZeroIsClosed(ch[i])
    BY <1>1, RunsIsCur DEF SupInv
  <1> DEFINE c == Dead(ch[i], ch[i].ret)
  <1>3. ch' = [ch EXCEPT ![i] = c]
    BY <1>1 DEF Exit
  <1>4. /\ c \in Child /\ c.killed = ch[i].killed /\ c.armed = ch[i].armed /\ c.pc = "dead"
        /\ c.pipe = ch[i].pipe /\ c.ret = ch[i].ret /\ c.file = ch[i].file
    BY <1>2, DeadIs, FieldsOf
  <1> HIDE DEF c
  <1>5. Says(pc, c) /\ ZeroIsClosed(c)
    BY <1>1, <1>2, <1>4 DEF Says, Ended, ZeroIsClosed
  <1>6. Moves(i, c)
    BY <1>1, <1>3, <1>4, <1>5 DEF Moves, Ended
  <1>7. QED  BY <1>1, <1>2, <1>6, ChildMoves

\* A signal reaches a child; before it has a handler it may end it.
LEMMA ChildSignalKeeps ==
  ASSUME SupInv, NEW i \in Attempts, NEW s \in Signals, ChildSignal(i, s)
  PROVE  SupInv'
  <1>1. /\ ch[i].pc # "none" /\ ch[i].pc # "dead" /\ ~ ch[i].killed /\ ChildOnly
        /\ grandchild' = grandchild
        /\ gate' = gate /\ ch \in [Attempts -> Child] /\ gate \in BOOLEAN /\ grandchild \in BOOLEAN
    BY DEF ChildSignal, SupInv, TypeOK
  <1>2. i = cur /\ ch[i] \in Child /\ Says(pc, ch[i]) /\ ZeroIsClosed(ch[i])
    BY <1>1, RunsIsCur DEF SupInv
  <1>3. PICK c \in Child :
          /\ ch' = [ch EXCEPT ![i] = c]
          /\ c.killed = ch[i].killed /\ c.armed = ch[i].armed
          /\ c.pipe = ch[i].pipe /\ c.file = ch[i].file
          /\ \/ c.pc = ch[i].pc /\ c.ret = ch[i].ret
             \/ c.pc = "dead" /\ c.ret = 1 /\ ch[i].pc = "forked"
    <2>1. CASE ch[i].pc = "forked" /\ i = 1
      <3>1. ch' = [ch EXCEPT ![i] = Dead(ch[i], 1)]
        BY <1>1, <2>1 DEF ChildSignal
      <3>2. QED  BY <1>2, <2>1, <3>1, DeadIs
    <2>2. CASE ~ (ch[i].pc = "forked" /\ i = 1)
      <3> DEFINE g == ch[i].sig \ {s}
                 t == ch[i].stop \/ ch[i].pc # "forked"
                 c == [ch[i] EXCEPT !.sig = g, !.stop = t]
      <3>1. ch' = [ch EXCEPT ![i] = c]
        BY <1>1, <2>2 DEF ChildSignal
      <3>2. g \in SUBSET Signals /\ t \in BOOLEAN
        BY <1>2 DEF Child
      <3> HIDE DEF g, t
      <3>3. c \in Child
        BY <1>2, <3>2 DEF Child
      <3>4. /\ c.killed = ch[i].killed /\ c.armed = ch[i].armed /\ c.pipe = ch[i].pipe
            /\ c.file = ch[i].file /\ c.pc = ch[i].pc /\ c.ret = ch[i].ret
        BY <1>2 DEF Child
      <3> HIDE DEF c
      <3>5. QED  BY <3>1, <3>3, <3>4
    <2>3. QED  BY <2>1, <2>2
  <1>4. Says(pc, c) /\ ZeroIsClosed(c)
    BY <1>1, <1>2, <1>3 DEF Says, Ended, ZeroIsClosed
  <1>5. Moves(i, c)
    BY <1>1, <1>3, <1>4 DEF Moves, Ended
  <1>6. QED  BY <1>1, <1>2, <1>5, ChildMoves

\* A first attempt that got SIGKILL dies; the parent no longer listens to it.
LEMMA DieKeeps ==
  ASSUME SupInv, NEW i \in Attempts, Die(i)
  PROVE  SupInv'
  <1>1. /\ ch[i].killed
        /\ UNCHANGED <<mode, pc, exit, status, cur, polling, interrupts, psig, nsignals, missed>>
        /\ UNCHANGED <<grandchild, gate>> /\ ch \in [Attempts -> Child]
    BY DEF Die, ChildOnly, SupInv, TypeOK
  <1>2. i = 1 /\ (cur = 2 \/ pc = "again" \/ (pc = "done" /\ exit = 1)) /\ cur \in {1, 2}
    BY <1>1 DEF SupInv, TypeOK, OneChild, Attempts
  <1> DEFINE c == Dead(ch[i], 1)
  <1>3. ch' = [ch EXCEPT ![i] = c]
    BY <1>1 DEF Die
  <1>4. c \in Child /\ c.killed = ch[i].killed /\ c.armed = ch[i].armed /\ c.pc = "dead" /\ c.ret = 1
    BY <1>1, DeadIs
  <1> HIDE DEF c
  <1>5. /\ ch' \in [Attempts -> Child] /\ ch'[i] = c
        /\ \A j \in Attempts : j # i => ch'[j] = ch[j]
    BY <1>1, <1>3, <1>4
  <1>6. TypeOK' /\ SignalsCounted'
    BY <1>1, <1>5 DEF SupInv, TypeOK, SignalsCounted
  <1>7. OneChild'
    <2>1. \A j \in Attempts : ch'[j].killed <=> ch[j].killed
      BY <1>4, <1>5
    <2>2. ch'[2] = ch[2] /\ pc # "start"
      <3>1. pc = "start" => cur # 2
        BY DEF SupInv, OneChild
      <3>2. QED  BY <1>2, <1>5, <3>1 DEF Attempts
    <2>3. 1 \in Attempts
      BY DEF Attempts
    <2>4. QED  BY <1>1, <2>1, <2>2, <2>3 DEF SupInv, OneChild
  <1>8. \A j \in Attempts : ZeroIsClosed(ch'[j])
    BY <1>4, <1>5 DEF SupInv, ZeroIsClosed
  <1>9. Says(pc', ch'[cur']) /\ Outcome'
    <2>1. CASE cur = 2
      <3>1. ch'[cur] = ch[cur]
        BY <1>2, <1>5, <2>1 DEF Attempts
      <3>2. QED  BY <1>1, <3>1 DEF SupInv, Outcome, Tells
    <2>2. CASE cur = 1
      <3>1. ch'[cur] = c /\ (pc = "again" \/ (pc = "done" /\ exit = 1))
        BY <1>2, <1>5, <2>2
      <3>2. exit \notin {0, 1} \/ exit = 1
        BY <3>1 DEF SupInv, Outcome, None
      <3>3. QED  BY <1>1, <1>4, <3>1, <3>2 DEF SupInv, Says, Outcome, Tells, Unheard
    <2>3. QED  BY <1>2, <2>1, <2>2
  <1>10. gate' => \E j \in Attempts : ch'[j].armed
    <2>1. \A j \in Attempts : ch'[j].armed <=> ch[j].armed
      BY <1>4, <1>5
    <2>2. QED  BY <1>1, <2>1 DEF SupInv
  <1>11. QED
    BY <1>6, <1>7, <1>8, <1>9, <1>10 DEF SupInv, ZeroIsClosed, Says

-----------------------------------------------------------------------------
\* A step of the parent that leaves the children alone keeps the invariant when
\* what it now expects from the child, and what it returns, fits the child.
LEMMA ParentMoves ==
  ASSUME SupInv, UNCHANGED <<cur, interrupts, ch>>, ParentOnly, pc # "start",
         psig' \subseteq psig, TypeOK', Says(pc', ch[cur]), Outcome',
         cur = 2 => pc' \in {"attach2", "recording", "status", "detach", "wait", "done"},
         pc' # "start", pc' # "again", pc # "again" \/ (pc' = "done" /\ exit' = 1),
         pc # "done"
  PROVE  SupInv'
  <1>1. /\ cur' = cur /\ interrupts' = interrupts /\ ch' = ch /\ gate' = gate
        /\ nsignals' = nsignals
    BY DEF ParentOnly
  <1>2. SignalsCounted'
    <2>1. interrupts \in Nat /\ nsignals \in Nat
      BY MaxSignalsAssumption DEF SupInv, TypeOK
    <2>2. interrupts + (IF "INT" \in psig THEN 1 ELSE 0) <= nsignals
      BY DEF SupInv, SignalsCounted
    <2>3. QED  BY <1>1, <2>1, <2>2 DEF SignalsCounted
  <1>3. OneChild'
    <2>1. \A i \in Attempts : ch[i].killed => i = 1 /\ (cur = 2 \/ pc = "again")
      BY DEF SupInv, OneChild
    <2>2. \A i \in Attempts :
            ch[i].killed => i = 1 /\ (cur = 2 \/ (pc' = "done" /\ exit' = 1))
      BY <2>1
    <2>3. QED  BY <1>1, <2>2 DEF SupInv, OneChild
  <1>4. /\ \A i \in Attempts : ZeroIsClosed(ch'[i])
        /\ gate' => \E i \in Attempts : ch'[i].armed
    BY <1>1 DEF SupInv
  <1>5. QED  BY <1>1, <1>2, <1>3, <1>4 DEF SupInv, ZeroIsClosed, Says

\* The parent returns without a status, or with one of a child that has ended.
LEMMA ReturnKeeps ==
  ASSUME SupInv, UNCHANGED <<status, cur, interrupts, ch>>, Outside,
         pc \notin {"start", "done"}, NEW code \in {None, 0, 1, 130}, Return(code),
         Tells(code, ch[cur]), pc = "again" => code = 1
  PROVE  SupInv'
  <1>1. /\ pc' = "done" /\ exit' = code /\ psig' = {} /\ status' = status /\ cur' = cur
        /\ interrupts' = interrupts /\ ch' = ch /\ ParentOnly
    BY DEF Return, Outside
  <1>2. TypeOK'
    BY <1>1 DEF SupInv, TypeOK, Outside, ParentOnly
  <1>3. Says(pc', ch[cur])
    BY <1>1 DEF Says, Unheard
  <1>4. Outcome'
    BY <1>1 DEF Outcome, Tells
  <1>5. QED  BY <1>1, <1>2, <1>3, <1>4, ParentMoves

\* start_child() of the first child.
LEMMA StartKeeps ==
  ASSUME SupInv, Start
  PROVE  SupInv'
  <1>1. /\ pc = "start" /\ ch' = [ch EXCEPT ![1] = Forked] /\ pc' \in {"window", "inline"}
        /\ UNCHANGED <<exit, status, cur, interrupts, psig, mode, grandchild, gate, nsignals>>
        /\ UNCHANGED <<polling, missed>>
    BY DEF Start, Outside, ParentOnly
  <1>2. /\ ch \in [Attempts -> Child] /\ cur \in Attempts /\ Attempts = {1, 2}
        /\ cur # 2 /\ ch[1] = NoChild /\ ch[2] = NoChild
        /\ \A i \in Attempts : ch[i] = NoChild
    BY <1>1 DEF SupInv, TypeOK, OneChild, Attempts
  <1>3. /\ Forked \in Child /\ Forked.pc = "forked" /\ ~ Forked.killed /\ Forked.pipe = <<>>
        /\ NoChild.pc = "none" /\ ~ NoChild.killed /\ ~ NoChild.armed
    <2>1. <<>> \in Seq({MSG_ATTACHED, MSG_DONE, 0, 1})
      OBVIOUS
    <2>2. QED  BY <2>1 DEF Forked, NoChild, Child
  <1>4. ch' \in [Attempts -> Child] /\ ch'[1] = Forked /\ ch'[2] = NoChild /\ cur = 1
    BY <1>1, <1>2, <1>3
  <1>5. TypeOK' /\ SignalsCounted'
    BY <1>1, <1>4 DEF SupInv, TypeOK, SignalsCounted
  <1>6. OneChild'
    BY <1>1, <1>2, <1>3, <1>4 DEF OneChild
  <1>7. \A i \in Attempts : ZeroIsClosed(ch'[i])
    BY <1>2, <1>3, <1>4 DEF ZeroIsClosed, Ended
  <1>8. Says(pc', ch'[cur'])
    BY <1>1, <1>3, <1>4 DEF Says, Unheard
  <1>9. Outcome'
    <2>1. exit = None
      BY <1>1 DEF SupInv, Outcome
    <2>2. QED  BY <1>1, <2>1 DEF Outcome, Tells, None
  <1>10. ~ gate'
    BY <1>1, <1>2, <1>3 DEF SupInv
  <1>11. QED
    BY <1>5, <1>6, <1>7, <1>8, <1>9, <1>10 DEF SupInv, ZeroIsClosed, Says

\* The parent's handlers are installed; next_byte() tests, falls asleep, or the
\* time to attach is over.
LEMMA GoesOnKeeps ==
  ASSUME SupInv, InstallHandlers \/ NotLeft \/ FallAsleep \/ AttachTimeout
  PROVE  SupInv'
  <1>1. /\ UNCHANGED <<exit, status, cur, interrupts, psig, ch>> /\ ParentOnly
        /\ polling' \in {"test", "past", "asleep"} /\ missed' \in BOOLEAN
        /\ \/ pc \in {"window", "attach"} /\ pc' \in {"attach", "kill", "attach2"}
           \/ pc \in {"attach", "attach2", "recording", "status"} /\ pc' = pc
    BY DEF InstallHandlers, NotLeft, FallAsleep, AttachTimeout, DeadlinePassed, Listening,
           Outside, SupInv, TypeOK
  <1>2. TypeOK'
    BY <1>1 DEF SupInv, TypeOK, ParentOnly
  <1>3. Says(pc', ch[cur])
    BY <1>1 DEF SupInv, Says, Unheard
  <1>4. Outcome'
    BY <1>1 DEF SupInv, Outcome, Tells
  <1>5. cur = 2 => pc' = pc /\ pc \in {"attach2", "recording", "status"}
    BY <1>1 DEF SupInv, OneChild
  <1>6. QED  BY <1>1, <1>2, <1>3, <1>4, <1>5, ParentMoves

\* record() in this process has returned; the child ended; or the wait for its
\* detaching is over.
LEMMA CodeKeeps ==
  ASSUME SupInv, InlineReturns \/ Reap \/ DetachWait
  PROVE  SupInv'
  <1>1. /\ UNCHANGED <<status, cur, interrupts, ch>> /\ Outside
        /\ pc \notin {"start", "done", "again"}
    BY DEF InlineReturns, Reap, DetachWait
  <1>2. /\ cur \in Attempts /\ Attempts = {1, 2} /\ ch[cur].ret \in {0, 1}
        /\ pc = "inline" => cur = 1
    BY FieldsOf DEF SupInv, TypeOK, OneChild, Attempts
  <1>3. \/ Return(ch[cur].ret) /\ ch[cur].pc = "dead"
        \/ Return(status) /\ status \in {0, 1} /\ Tells(status, ch[cur])
    BY <1>2 DEF InlineReturns, Reap, DetachWait, SupInv, Outcome
  <1>4. CASE Return(ch[cur].ret) /\ ch[cur].pc = "dead"
    <2>1. Tells(ch[cur].ret, ch[cur])
      BY <1>4 DEF Tells, Ended
    <2>2. QED  BY <1>1, <1>2, <1>4, <2>1, ReturnKeeps
  <1>5. CASE Return(status) /\ status \in {0, 1} /\ Tells(status, ch[cur])
    BY <1>1, <1>5, ReturnKeeps
  <1>6. QED  BY <1>3, <1>4, <1>5

\* The second Ctrl-C.
LEMMA LeaveBehindKeeps ==
  ASSUME SupInv, LeaveBehind
  PROVE  SupInv'
  <1>1. /\ pc \in {"attach", "attach2", "recording", "status"} /\ interrupts >= 2
        /\ UNCHANGED <<cur, interrupts, ch>> /\ Outside /\ ParentOnly
    BY DEF LeaveBehind, Listening, Outside
  <1>2. CASE pc = "status"
    <2>1. pc' = "detach" /\ status' = 1 /\ exit' = exit /\ psig' = psig
      BY <1>2 DEF LeaveBehind
    <2>2. TypeOK'
      BY <1>1, <2>1 DEF SupInv, TypeOK, Outside, ParentOnly
    <2>3. Says(pc', ch[cur])
      BY <2>1 DEF Says, Unheard
    <2>4. ch[cur].pc \in Ended /\ exit = None
      BY <1>2 DEF SupInv, Says, Outcome
    <2>5. Outcome'
      BY <1>1, <2>1, <2>4 DEF Outcome, Tells, None
    <2>6. QED  BY <1>1, <1>2, <2>1, <2>2, <2>3, <2>5, ParentMoves
  <1>3. CASE pc # "status"
    <2>1. Return(130) /\ status' = status
      BY <1>3 DEF LeaveBehind
    <2>2. Tells(130, ch[cur])
      BY DEF Tells
    <2>3. QED  BY <1>1, <2>1, <2>2, ReturnKeeps
  <1>4. QED  BY <1>2, <1>3

\* The pipe has no writer left. With only the status missing, it cannot be: the
\* child writes it together with MSG_DONE.
LEMMA EndOfPipeKeeps ==
  ASSUME SupInv, EndOfPipe
  PROVE  SupInv'
  <1>1. /\ pc \in {"attach", "attach2", "recording", "status"}
        /\ ch[cur].pipe = <<>> /\ ch[cur].pc = "dead"
        /\ UNCHANGED <<exit, cur, interrupts, psig, ch>> /\ ParentOnly
        /\ polling' = "test" /\ missed' = FALSE
    BY DEF EndOfPipe, Listening, Hangup
  <1>2. pc # "status"
    BY <1>1 DEF SupInv, Says
  <1>3. pc' = "wait" /\ status' = status
    BY <1>2 DEF EndOfPipe
  <1>4. TypeOK'
    BY <1>1, <1>3 DEF SupInv, TypeOK, ParentOnly
  <1>5. Says(pc', ch[cur])
    BY <1>1, <1>3 DEF Says, Unheard
  <1>6. Outcome'
    <2>1. exit = None
      BY <1>1 DEF SupInv, Outcome
    <2>2. QED  BY <1>1, <1>3, <2>1 DEF Outcome, Tells, None
  <1>7. QED  BY <1>1, <1>3, <1>4, <1>5, <1>6, ParentMoves

\* next_byte() returns a byte: first MSG_ATTACHED, then MSG_DONE, then the status.
LEMMA NextByteKeeps ==
  ASSUME SupInv, NextByte
  PROVE  SupInv'
  <1>1. /\ pc \in {"attach", "attach2", "recording", "status"} /\ ch[cur].pipe # <<>>
        /\ ch' = [ch EXCEPT ![cur].pipe = Tail(ch[cur].pipe)]
        /\ UNCHANGED <<exit, cur, interrupts, psig, mode, grandchild, gate, nsignals>>
        /\ polling' = "test" /\ missed' = FALSE
    BY DEF NextByte, Listening, ParentOnly
  <1>2. /\ ch \in [Attempts -> Child] /\ cur \in Attempts /\ ch[cur] \in Child
        /\ ch[cur].ret \in {0, 1} /\ Says(pc, ch[cur])
    BY FieldsOf DEF SupInv, TypeOK
  <1> DEFINE c == [ch[cur] EXCEPT !.pipe = Tail(ch[cur].pipe)]
  <1>3. ch' = [ch EXCEPT ![cur] = c]
    BY <1>1, <1>2
  <1>4. c \in Child
    <2>1. Tail(ch[cur].pipe) \in Seq({MSG_ATTACHED, MSG_DONE, 0, 1})
      BY <1>1, <1>2, FieldsOf
    <2>2. QED  BY <1>2, <2>1 DEF Child
  <1>5. /\ c.killed = ch[cur].killed /\ c.armed = ch[cur].armed /\ c.pc = ch[cur].pc
        /\ c.pipe = Tail(ch[cur].pipe) /\ c.ret = ch[cur].ret /\ c.file = ch[cur].file
    BY <1>2 DEF Child
  <1> HIDE DEF c
  <1>6. /\ ch' \in [Attempts -> Child] /\ ch'[cur] = c
        /\ \A i \in Attempts : i # cur => ch'[i] = ch[i]
    BY <1>2, <1>3, <1>4
  <1>7. /\ \/ pc' = "recording" /\ status' = status
           \/ pc' = "status" /\ status' = status
           \/ pc' = "detach" /\ status' = ch[cur].ret /\ ch[cur].pc \in Ended
        /\ Says(pc', c)
    <2>1. CASE pc \in {"attach", "attach2"}
      <3>1. \/ ch[cur].pc \in {"recording", "draining"} /\ ch[cur].pipe = <<MSG_ATTACHED>>
            \/ ch[cur].pc \in Ended /\ ch[cur].pipe = <<MSG_ATTACHED, MSG_DONE, ch[cur].ret>>
        BY <1>1, <1>2, <2>1 DEF Says, Unheard
      <3>2. Head(ch[cur].pipe) = MSG_ATTACHED
        BY <3>1
      <3>3. pc' = "recording" /\ status' = status
        BY <2>1, <3>2 DEF NextByte
      <3>4. \/ c.pc \in {"recording", "draining"} /\ c.pipe = <<>>
            \/ c.pc \in Ended /\ c.pipe = <<MSG_DONE, c.ret>>
        <4>1. CASE ch[cur].pc \in {"recording", "draining"} /\ ch[cur].pipe = <<MSG_ATTACHED>>
          BY <1>5, <4>1
        <4>2. CASE ch[cur].pc \in Ended /\ ch[cur].pipe = <<MSG_ATTACHED, MSG_DONE, ch[cur].ret>>
          BY <1>5, <4>2
        <4>3. QED  BY <3>1, <4>1, <4>2
      <3>5. QED  BY <3>3, <3>4 DEF Says, Unheard
    <2>2. CASE pc = "recording"
      <3>1. ch[cur].pc \in Ended /\ ch[cur].pipe = <<MSG_DONE, ch[cur].ret>>
        BY <1>1, <1>2, <2>2 DEF Says
      <3>2. Head(ch[cur].pipe) = MSG_DONE
        BY <3>1
      <3>3. pc' = "status" /\ status' = status
        BY <2>2, <3>2 DEF NextByte, MSG_DONE, MSG_ATTACHED
      <3>4. c.pc \in Ended /\ c.pipe = <<c.ret>>
        BY <1>5, <3>1
      <3>5. QED  BY <3>3, <3>4 DEF Says, Unheard
    <2>3. CASE pc = "status"
      <3>1. ch[cur].pc \in Ended /\ ch[cur].pipe = <<ch[cur].ret>>
        BY <1>2, <2>3 DEF Says
      <3>2. pc' = "detach" /\ status' = ch[cur].ret
        BY <2>3, <3>1 DEF NextByte
      <3>3. QED  BY <3>1, <3>2 DEF Says, Unheard
    <2>4. QED  BY <1>1, <2>1, <2>2, <2>3
  <1>8. TypeOK'
    BY <1>1, <1>2, <1>6, <1>7 DEF SupInv, TypeOK
  <1>9. SignalsCounted'
    BY <1>1 DEF SupInv, SignalsCounted
  <1>10. OneChild'
    <2>1. \A i \in Attempts : ch'[i].killed <=> ch[i].killed
      BY <1>5, <1>6
    <2>2. cur = 1 => ch'[2] = ch[2]
      BY <1>6 DEF Attempts
    <2>3. \A i \in Attempts : ch[i].killed => i = 1 /\ cur = 2
      BY <1>1 DEF SupInv, OneChild
    <2>4. 1 \in Attempts
      BY DEF Attempts
    <2>5. QED  BY <1>1, <1>7, <2>1, <2>2, <2>3, <2>4 DEF SupInv, OneChild
  <1>11. \A i \in Attempts : ZeroIsClosed(ch'[i])
    BY <1>5, <1>6 DEF SupInv, ZeroIsClosed
  <1>12. Outcome'
    <2>1. exit = None
      BY <1>1 DEF SupInv, Outcome
    <2>2. pc' = "detach" => status' \in {0, 1} /\ status' = c.ret /\ c.pc \in Ended
      BY <1>2, <1>5, <1>7
    <2>3. QED  BY <1>1, <1>6, <1>7, <2>1, <2>2 DEF Outcome, Tells, None
  <1>13. gate' => \E i \in Attempts : ch'[i].armed
    <2>1. \A i \in Attempts : ch'[i].armed <=> ch[i].armed
      BY <1>5, <1>6
    <2>2. QED  BY <1>1, <2>1 DEF SupInv
  <1>14. QED
    BY <1>1, <1>6, <1>7, <1>8, <1>9, <1>10, <1>11, <1>12, <1>13 DEF SupInv, ZeroIsClosed, Says

\* SIGKILL for the first attempt: from here on the parent does not read its pipe.
LEMMA KillKeeps ==
  ASSUME SupInv, Kill
  PROVE  SupInv'
  <1>1. /\ pc = "kill" /\ pc' = "again" /\ ch' = [ch EXCEPT ![cur] = Killed(ch[cur])]
        /\ UNCHANGED <<exit, status, cur, interrupts, psig, mode, grandchild, gate, nsignals>>
        /\ UNCHANGED <<polling, missed>>
    BY DEF Kill, Outside, ParentOnly
  <1>2. /\ ch \in [Attempts -> Child] /\ Attempts = {1, 2} /\ cur = 1 /\ exit = None
        /\ ch[1] \in Child /\ ch[2] = NoChild
    BY <1>1 DEF SupInv, TypeOK, OneChild, Outcome, Attempts
  <1> DEFINE c == Killed(ch[1])
  <1>3. ch' = [ch EXCEPT ![1] = c]
    BY <1>1, <1>2
  <1>4. c \in Child /\ c.killed /\ c.armed = ch[1].armed /\ c.ret = 1
    <2>1. <<>> \in Seq({MSG_ATTACHED, MSG_DONE, 0, 1}) /\ ch[1].armed \in BOOLEAN
      BY <1>2, FieldsOf
    <2>2. QED  BY <2>1 DEF Killed, NoChild, Child
  <1> HIDE DEF c
  <1>5. ch' \in [Attempts -> Child] /\ ch'[1] = c /\ ch'[2] = ch[2]
    BY <1>2, <1>3, <1>4
  <1>6. TypeOK' /\ SignalsCounted'
    BY <1>1, <1>5 DEF SupInv, TypeOK, SignalsCounted
  <1>7. OneChild'
    <2>1. ~ NoChild.killed
      BY DEF NoChild
    <2>2. QED  BY <1>1, <1>2, <1>4, <1>5, <2>1 DEF OneChild
  <1>8. \A i \in Attempts : ZeroIsClosed(ch'[i])
    BY <1>2, <1>4, <1>5 DEF SupInv, ZeroIsClosed
  <1>9. Says(pc', ch'[cur']) /\ Outcome'
    BY <1>1, <1>2 DEF Says, Unheard, Outcome, Tells, None
  <1>10. gate' => \E i \in Attempts : ch'[i].armed
    <2>1. \A i \in Attempts : ch'[i].armed <=> ch[i].armed
      BY <1>2, <1>4, <1>5
    <2>2. QED  BY <1>1, <2>1 DEF SupInv
  <1>11. QED
    BY <1>6, <1>7, <1>8, <1>9, <1>10 DEF SupInv, ZeroIsClosed, Says

\* start_child() with kprobes, or its failure.
LEMMA StartAgainKeeps ==
  ASSUME SupInv, StartAgain
  PROVE  SupInv'
  <1>1. /\ pc = "again" /\ UNCHANGED <<status, interrupts>> /\ Outside
        /\ ch \in [Attempts -> Child] /\ Attempts = {1, 2} /\ cur = 1 /\ exit = None
        /\ ch[1].killed /\ ch[2] = NoChild
    BY DEF StartAgain, SupInv, TypeOK, OneChild, Outcome, Attempts
  <1>2. CASE Return(1) /\ UNCHANGED <<cur, ch>>
    <2>1. Tells(1, ch[cur])
      BY <1>1 DEF Tells
    <2>2. QED  BY <1>1, <1>2, <2>1, ReturnKeeps
  <1>3. CASE /\ ch' = [ch EXCEPT ![2] = Forked] /\ cur' = 2 /\ pc' = "attach2"
             /\ UNCHANGED <<exit, psig>>
    <2>1. /\ Forked \in Child /\ Forked.pc = "forked" /\ ~ Forked.killed /\ Forked.pipe = <<>>
          /\ ~ NoChild.armed
      <3>1. <<>> \in Seq({MSG_ATTACHED, MSG_DONE, 0, 1})
        OBVIOUS
      <3>2. QED  BY <3>1 DEF Forked, NoChild, Child
    <2>2. ch' \in [Attempts -> Child] /\ ch'[1] = ch[1] /\ ch'[2] = Forked
      BY <1>1, <1>3, <2>1
    <2>3. TypeOK' /\ SignalsCounted'
      BY <1>1, <1>3, <2>2 DEF SupInv, TypeOK, SignalsCounted, Outside, ParentOnly
    <2>4. OneChild'
      BY <1>1, <1>3, <2>1, <2>2 DEF OneChild
    <2>5. \A i \in Attempts : ZeroIsClosed(ch'[i])
      BY <1>1, <2>1, <2>2 DEF SupInv, ZeroIsClosed, Ended
    <2>6. Says(pc', ch'[cur']) /\ Outcome'
      BY <1>1, <1>3, <2>1, <2>2 DEF Says, Unheard, Outcome, Tells, None
    <2>7. gate' => \E i \in Attempts : ch'[i].armed
      <3>1. gate => ch[1].armed
        BY <1>1, <2>1 DEF SupInv
      <3>2. QED  BY <1>1, <2>2, <3>1 DEF Outside, ParentOnly
    <2>8. QED
      BY <2>3, <2>4, <2>5, <2>6, <2>7 DEF SupInv, ZeroIsClosed, Says
  <1>4. QED  BY <1>2, <1>3 DEF StartAgain

-----------------------------------------------------------------------------
\* A step that only makes signals pending for the children, or counts one.
LEMMA PendingKeeps ==
  ASSUME SupInv, pc # "start", TypeOK', SignalsCounted', interrupts' >= interrupts,
         UNCHANGED <<pc, exit, status, cur, gate>>,
         \A i \in Attempts :
           \/ ch'[i] = ch[i]
           \/ /\ ch[i].pc # "none" \/ i = cur
              /\ \E g : ch'[i] = [ch[i] EXCEPT !.sig = g]
  PROVE  SupInv'
  <1>1. /\ cur \in Attempts /\ Attempts = {1, 2} /\ interrupts \in Int /\ interrupts' \in Int
        /\ \A i \in Attempts : ch[i] \in Child
    BY DEF SupInv, TypeOK, Attempts
  <1>2. \A i \in Attempts :
          /\ ch'[i].killed = ch[i].killed /\ ch'[i].armed = ch[i].armed /\ ch'[i].pc = ch[i].pc
          /\ ch'[i].pipe = ch[i].pipe /\ ch'[i].ret = ch[i].ret /\ ch'[i].file = ch[i].file
    <2> TAKE i \in Attempts
    <2>1. ch[i] \in Child
      BY <1>1
    <2>2. CASE ch'[i] = ch[i]
      BY <2>2
    <2>3. ASSUME NEW g, ch'[i] = [ch[i] EXCEPT !.sig = g]
          PROVE  /\ ch'[i].killed = ch[i].killed /\ ch'[i].armed = ch[i].armed
                 /\ ch'[i].pc = ch[i].pc /\ ch'[i].pipe = ch[i].pipe
                 /\ ch'[i].ret = ch[i].ret /\ ch'[i].file = ch[i].file
      BY <2>1, <2>3 DEF Child
    <2>4. QED  BY <2>2, <2>3
  <1>3. OneChild'
    <2>1. \A i \in Attempts : ch'[i].killed <=> ch[i].killed
      BY <1>2
    <2>2. NoChild.pc = "none"
      BY DEF NoChild
    <2>3. cur = 1 => ch'[2] = ch[2]
      BY <1>1, <2>2 DEF SupInv, OneChild
    <2>4. QED  BY <1>1, <2>1, <2>3 DEF SupInv, OneChild
  <1>4. \A i \in Attempts : ZeroIsClosed(ch'[i])
    BY <1>2 DEF SupInv, ZeroIsClosed
  <1>5. Says(pc', ch'[cur'])
    <2>1. /\ ch'[cur].pc = ch[cur].pc /\ ch'[cur].pipe = ch[cur].pipe
          /\ ch'[cur].ret = ch[cur].ret
      BY <1>1, <1>2
    <2>2. QED  BY <2>1 DEF SupInv, Says
  <1>6. Outcome'
    <2>1. /\ ch'[cur].pc = ch[cur].pc /\ ch'[cur].ret = ch[cur].ret
          /\ ch'[cur].killed <=> ch[cur].killed
      BY <1>1, <1>2
    <2>2. ASSUME NEW code, Tells(code, ch[cur])
          PROVE  Tells(code, ch[cur])'
      BY <1>1, <2>1, <2>2 DEF Tells
    <2>3. Tells(exit, ch[cur])'
      BY <2>2 DEF SupInv, Outcome, Tells
    <2>4. pc = "detach" => Tells(status, ch[cur])'
      BY <2>2 DEF SupInv, Outcome, Tells
    <2>5. QED  BY <2>1, <2>3, <2>4 DEF SupInv, Outcome
  <1>7. gate' => \E i \in Attempts : ch'[i].armed
    <2>1. \A i \in Attempts : ch'[i].armed <=> ch[i].armed
      BY <1>2
    <2>2. QED  BY <2>1 DEF SupInv
  <1>8. QED
    BY <1>3, <1>4, <1>5, <1>6, <1>7 DEF SupInv, ZeroIsClosed, Says

\* The user's signal, to the parent and, from the terminal, to the children.
LEMMA SignalKeeps ==
  ASSUME SupInv, NEW s \in Signals, Signal(s)
  PROVE  SupInv'
  <1>1. /\ pc \notin {"start", "done"} /\ nsignals < MaxSignals /\ nsignals' = nsignals + 1
        /\ psig' = psig \cup {s}
        /\ UNCHANGED <<mode, pc, exit, status, cur, polling, interrupts, grandchild, gate, missed>>
        /\ interrupts \in Nat /\ nsignals \in Nat /\ MaxSignals \in Nat
        /\ interrupts + (IF "INT" \in psig THEN 1 ELSE 0) <= nsignals
    BY MaxSignalsAssumption DEF Signal, SupInv, TypeOK, SignalsCounted
  <1>2. \A i \in Attempts : ch[i] \in Child
    BY DEF SupInv, TypeOK
  <1>3. /\ DOMAIN ch' = Attempts /\ ch' = [i \in Attempts |-> ch'[i]]
        /\ \A i \in Attempts :
             \/ ch'[i] = ch[i]
             \/ ch'[i] = Signalled(ch[i], s)
    BY DEF Signal
  <1>4. \A i \in Attempts :
          /\ ch'[i] \in Child
          /\ \/ ch'[i] = ch[i]
             \/ /\ ch[i].pc # "none" \/ i = cur
                /\ \E g : ch'[i] = [ch[i] EXCEPT !.sig = g]
    BY <1>2, <1>3, SignalledIs
  <1>5. TypeOK'
    <2>1. ch' \in [Attempts -> Child]
      BY <1>3, <1>4
    <2>2. QED  BY <1>1, <2>1 DEF SupInv, TypeOK
  <1>6. SignalsCounted'
    BY <1>1 DEF SignalsCounted
  <1>7. interrupts' >= interrupts /\ pc # "start" /\ UNCHANGED <<pc, exit, status, cur, gate>>
    BY <1>1
  <1>8. \A i \in Attempts :
          \/ ch'[i] = ch[i]
          \/ /\ ch[i].pc # "none" \/ i = cur
             /\ \E g : ch'[i] = [ch[i] EXCEPT !.sig = g]
    BY <1>4
  <1>9. QED  BY <1>5, <1>6, <1>7, <1>8, PendingKeeps, ZenonT(30)

\* forward_signal(), or the default action before it is installed.
LEMMA ParentSignalKeeps ==
  ASSUME SupInv, NEW s \in Signals, ParentSignal(s)
  PROVE  SupInv'
  <1>1. /\ s \in psig /\ pc \notin {"inline", "done"} /\ UNCHANGED <<status, cur>> /\ ParentOnly
        /\ pc # "start"
    BY DEF ParentSignal, SupInv, OneChild
  <1>2. CASE pc = "window"
    <2>1. Return(None) /\ UNCHANGED <<interrupts, ch>> /\ Outside
      BY <1>2 DEF ParentSignal, Outside
    <2>2. Tells(None, ch[cur])
      BY DEF Tells, None
    <2>3. QED  BY <1>1, <1>2, <2>1, <2>2, ReturnKeeps
  <1>3. CASE pc # "window"
    <2>1. /\ interrupts' = interrupts + (IF s = "INT" THEN 1 ELSE 0)
          /\ ch' = [ch EXCEPT ![cur] = Signalled(ch[cur], s)]
          /\ psig' = psig \ {s} /\ UNCHANGED <<pc, exit>>
          /\ polling' \in {"test", "past", "asleep"} /\ missed' \in BOOLEAN
      BY <1>3 DEF ParentSignal, SupInv, TypeOK
    <2>2. /\ interrupts \in Nat /\ nsignals \in 0..MaxSignals /\ MaxSignals \in Nat
          /\ interrupts + (IF "INT" \in psig THEN 1 ELSE 0) <= nsignals
          /\ ch \in [Attempts -> Child] /\ cur \in Attempts /\ ch[cur] \in Child
      BY MaxSignalsAssumption DEF SupInv, TypeOK, SignalsCounted
    <2>3. /\ interrupts' + (IF "INT" \in psig' THEN 1 ELSE 0) <= nsignals
          /\ interrupts' \in 0..MaxSignals /\ interrupts' >= interrupts
      <3>1. CASE s = "INT"
        BY <1>1, <2>1, <2>2, <3>1
      <3>2. CASE s # "INT"
        BY <1>1, <2>1, <2>2, <3>2
      <3>3. QED  BY <3>1, <3>2
    <2>4. Signalled(ch[cur], s) \in Child
      BY <2>2, SignalledIs
    <2>5. \/ Signalled(ch[cur], s) = ch[cur]
          \/ \E g : Signalled(ch[cur], s) = [ch[cur] EXCEPT !.sig = g]
      BY <2>2, SignalledIs
    <2>6. /\ ch' \in [Attempts -> Child] /\ ch'[cur] = Signalled(ch[cur], s)
          /\ \A i \in Attempts : i # cur => ch'[i] = ch[i]
      BY <2>1, <2>2, <2>4
    <2>7. TypeOK'
      BY <1>1, <2>1, <2>3, <2>6 DEF SupInv, TypeOK, ParentOnly
    <2>8. SignalsCounted'
      BY <1>1, <2>3 DEF SignalsCounted, ParentOnly
    <2>9. QED
      BY <1>1, <2>1, <2>3, <2>5, <2>6, <2>7, <2>8, PendingKeeps DEF ParentOnly
  <1>4. QED  BY <1>2, <1>3

-----------------------------------------------------------------------------
\* Before the first child there is nothing to hold.
LEMMA SupInit ==
  ASSUME Init
  PROVE  SupInv
  <1>1. NoChild \in Child /\ NoChild.pc = "none" /\ ~ NoChild.killed
    <2>1. <<>> \in Seq({MSG_ATTACHED, MSG_DONE, 0, 1})
      OBVIOUS
    <2>2. QED  BY <2>1 DEF NoChild, Child
  <1>2. /\ Attempts = {1, 2} /\ cur = 1 /\ pc = "start" /\ exit = None /\ psig = {} /\ ~ gate
        /\ \A i \in Attempts : ch[i] = NoChild
    BY DEF Init, Attempts
  <1>3. TypeOK
    <2>1. ch \in [Attempts -> Child] /\ cur \in Attempts
      BY <1>1 DEF Init, Attempts
    <2>2. interrupts \in 0..MaxSignals /\ nsignals \in 0..MaxSignals
      BY MaxSignalsAssumption DEF Init
    <2>3. QED  BY <2>1, <2>2 DEF Init, TypeOK
  <1>4. SignalsCounted
    BY DEF Init, SignalsCounted
  <1>5. OneChild
    BY <1>1, <1>2 DEF OneChild
  <1>6. \A i \in Attempts : ZeroIsClosed(ch[i])
    BY <1>1, <1>2 DEF ZeroIsClosed, Ended
  <1>7. Says(pc, ch[cur]) /\ Outcome
    BY <1>2 DEF Says, Unheard, Outcome, Tells, None
  <1>8. QED  BY <1>2, <1>3, <1>4, <1>5, <1>6, <1>7 DEF SupInv

\* Every step of the supervisor, its children and the signals keeps the invariant.
LEMMA SupNext ==
  ASSUME SupInv, [Next]_vars
  PROVE  SupInv'
  <1>1. ASSUME ParentStep PROVE SupInv'
    BY <1>1, StartKeeps, CodeKeeps, GoesOnKeeps, NextByteKeeps, EndOfPipeKeeps,
       LeaveBehindKeeps, KillKeeps, StartAgainKeeps, ParentSignalKeeps DEF ParentStep
  <1>2. ASSUME NEW i \in Attempts, ChildStep(i) PROVE SupInv'
    BY <1>2, SetupKeeps, AttachKeeps, OpenFileKeeps, OpenFailsKeeps, EndRecordingKeeps,
       ReportKeeps, ExitKeeps, DieKeeps, ChildSignalKeeps DEF ChildStep
  <1>3. ASSUME GrandchildEnds \/ UNCHANGED vars PROVE SupInv'
    <2>1. /\ UNCHANGED <<mode, pc, exit, status, cur, interrupts, psig, ch, gate, nsignals>>
          /\ UNCHANGED <<polling, missed>>
          /\ grandchild' \in BOOLEAN
      BY <1>3 DEF GrandchildEnds, ChildOnly, vars, SupInv, TypeOK
    <2>2. TypeOK'
      <3>1. TypeOK
        BY DEF SupInv
      <3>2. QED  BY <2>1, <3>1 DEF TypeOK
    <2>3. SignalsCounted' /\ OneChild'
      BY <2>1 DEF SupInv, SignalsCounted, OneChild
    <2>4. Outcome'
      BY <2>1 DEF SupInv, Outcome, Tells
    <2>5. QED  BY <2>1, <2>2, <2>3, <2>4 DEF SupInv, ZeroIsClosed, Says
  <1>4. QED
    BY <1>1, <1>2, <1>3, SignalKeeps DEF Next, Rest

\* The invariant says what `ntprof record` returns, and who holds the gates.
LEMMA SupInvImplies ==
  ASSUME SupInv
  PROVE  ExitTellsOutcome /\ GateHeld
  <1>1. /\ cur \in Attempts /\ ch[cur] \in Child /\ exit \in {None, 0, 1, 130}
        /\ Tells(exit, ch[cur]) /\ ZeroIsClosed(ch[cur])
    BY DEF SupInv, TypeOK, Outcome
  <1>2. exit = 0 => ch[cur].file = "closed" /\ ch[cur].ret = 0
    BY <1>1 DEF Tells, ZeroIsClosed
  <1>3. exit \in {0, 1} /\ interrupts < 2 /\ ~ ch[cur].killed => exit = ch[cur].ret
    <2>1. interrupts \in Nat
      BY MaxSignalsAssumption DEF SupInv, TypeOK
    <2>2. QED  BY <1>1, <2>1 DEF Tells
  <1>4. QED  BY <1>2, <1>3 DEF ExitTellsOutcome, GateHeld, SupInv

\* ExitTellsOutcome for any number of signals: `ntprof record` returns 0 only when
\* the report is out and the file closed, and otherwise what the child exits with.
THEOREM ExitIsTheOutcome == Spec => []ExitTellsOutcome
  <1>1. SupInv => ExitTellsOutcome
    BY SupInvImplies
  <1>2. QED  BY <1>1, SupInit, SupNext, PTL DEF Spec

\* GateHeld for any number of signals: no path of record() leaves the gates open
\* once its child is no longer armed.
THEOREM GateIsHeld == Spec => []GateHeld
  <1>1. SupInv => GateHeld
    BY SupInvImplies
  <1>2. QED  BY <1>1, SupInit, SupNext, PTL DEF Spec
=============================================================================
