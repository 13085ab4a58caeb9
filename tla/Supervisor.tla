------------------------------ MODULE Supervisor -----------------------------
(***************************************************************************)
(* `ntprof record` as two processes (src/record.c): cmd_record() in the    *)
(* parent, record() in a child, and the pipe between them. Attaching and   *)
(* detaching fentry programs can take arbitrarily long, so the parent      *)
(* starts over with kprobes when the child has not attached in time, and   *)
(* returns before the child has detached.                                  *)
(*                                                                         *)
(* The recording itself is in Recording.tla; here it is one state of the   *)
(* child. Time is abstracted: a timeout may come whenever its poll() waits.*)
(* -o is given.                                                            *)
(***************************************************************************)
EXTENDS Integers, Sequences

CONSTANTS
  Modes,          \* of {"auto", "fentry", "kprobes"}: --fentry, --kprobes
  MaxSignals      \* bound on the signals the user sends

ASSUME MaxSignalsAssumption == MaxSignals \in Nat

VARIABLES
  mode,           \* the configuration
  pc,             \* where the parent is
  exit,           \* what cmd_record() returned
  status,         \* the byte after MSG_DONE
  cur,            \* ch, child_pid: the child the parent listens to
  polling,        \* how far next_byte() is: at its test, past it, asleep in poll()
  interrupts,     \* Ctrl-Cs the parent's handler has counted
  psig,           \* signals pending for the parent
  ch,             \* the first child, and the one that uses kprobes
  grandchild,     \* is the process of fentry_check() still there?
  gate,           \* do the SPDK processes sample?
  nsignals,
  missed          \* history: a Ctrl-C came since the test and before the poll()

vars == <<mode, pc, exit, status, cur, polling, interrupts, psig, ch, grandchild, gate,
          nsignals, missed>>

Signals == {"INT", "TERM"}
Attempts == {1, 2}
None == -1
MSG_ATTACHED == 65
MSG_DONE == 68

Child ==
  [pc : {"none", "forked", "attaching", "attached", "recording", "draining",
         "closing", "dying", "dead"},
   kprobes : BOOLEAN,                             \* the flavour it attaches
   armed : BOOLEAN,                               \* never cleared by a death
   stop : BOOLEAN, sig : SUBSET Signals, killed : BOOLEAN,
   file : {"none", "open", "closed", "bad"},
   pipe : Seq({MSG_ATTACHED, MSG_DONE, 0, 1}), ret : {0, 1}]

NoChild ==
  [pc |-> "none", kprobes |-> FALSE, armed |-> FALSE, stop |-> FALSE, sig |-> {},
   killed |-> FALSE, file |-> "none", pipe |-> <<>>, ret |-> 0]

Forked == [NoChild EXCEPT !.pc = "forked"]

\* A process that has ended with ret; its signals and its memory are gone.
Dead(c, ret) == [c EXCEPT !.pc = "dead", !.ret = ret, !.sig = {}, !.stop = FALSE,
                        !.kprobes = FALSE]

\* A process that got SIGKILL: it ends once what it waits for returns.
Killed(c) == [NoChild EXCEPT !.pc = IF c.pc = "dead" THEN "dead" ELSE "dying",
                             !.killed = TRUE, !.armed = c.armed, !.ret = 1]

\* kill(): of a process that has ended, or will as soon as it runs, nothing.
Signalled(c, s) ==
  IF c.pc \in {"none", "dead"} \/ c.killed THEN c ELSE [c EXCEPT !.sig = @ \cup {s}]

\* next_byte() waits for the child.
Listening == pc \in {"attach", "attach2", "recording", "status"}

\* Does anybody hold the end of the pipe that child i writes to open?
Read(i) == i = cur /\ (Listening \/ pc \in {"window", "kill"})

Init ==
  /\ mode \in Modes
  /\ pc = "start" /\ exit = None /\ status = None /\ cur = 1
  /\ polling = "test" /\ interrupts = 0 /\ psig = {} /\ nsignals = 0 /\ missed = FALSE
  /\ ch = [i \in Attempts |-> NoChild]
  /\ grandchild = FALSE /\ gate = FALSE

-----------------------------------------------------------------------------
(* The child.                                                              *)

Runs(i, at) == ch[i].pc = at /\ ~ ch[i].killed

ChildOnly ==
  UNCHANGED <<mode, pc, exit, status, cur, polling, interrupts, psig, nsignals, missed>>

(* record() up to ntp_loader_open(): it installs its handlers and chooses  *)
(* the flavour: kprobes without the kernel's BTF, even where fentry is     *)
(* forced. Unless a flavour is forced, fentry_check() starts a grandchild, *)
(* which inherits the pipe; when it has not attached in time, it is left   *)
(* behind and kprobes are used.                                            *)
Setup(i) ==
  /\ Runs(i, "forked")
  /\ \E kprobes, btf \in BOOLEAN :
       /\ mode = "kprobes" \/ i = 2 \/ ~ btf => kprobes
       /\ mode = "fentry" /\ btf => ~ kprobes
       /\ ch' = [ch EXCEPT ![i].pc = "attaching", ![i].kprobes = kprobes]
       /\ grandchild' = (grandchild \/ (mode = "auto" /\ i = 1 /\ btf /\ kprobes))
  /\ UNCHANGED gate /\ ChildOnly

(* The grace period ends for the grandchild: it exits.                     *)
GrandchildEnds ==
  /\ grandchild /\ grandchild' = FALSE
  /\ UNCHANGED <<ch, gate>> /\ ChildOnly

(* ntp_loader_open(): every hook is in place, arm, and let SPDK sample.    *)
Attach(i) ==
  /\ Runs(i, "attaching")
  /\ ch' = [ch EXCEPT ![i].pc = "attached", ![i].armed = TRUE]
  /\ gate' = TRUE
  /\ UNCHANGED grandchild /\ ChildOnly

(* It fails before or after it has opened a gate; ntp_loader_close() shuts *)
(* the gates it opened.                                                    *)
AttachFails(i) ==
  /\ Runs(i, "attaching")
  /\ ch' = [ch EXCEPT ![i].pc = "closing", ![i].ret = 1]
  /\ gate' \in {gate, FALSE}
  /\ UNCHANGED grandchild /\ ChildOnly

(* tell_parent(): the child c, once it has written msg. Without a parent   *)
(* (start_child() failed) there is no pipe. When nobody reads the pipe,    *)
(* SIGPIPE, which nothing handles, ends the process.                       *)
tell_parent(i, c, msg) ==
  IF pc = "inline" THEN c
  ELSE IF Read(i) THEN [c EXCEPT !.pipe = @ \o msg]
  ELSE Dead(c, 1)

(* The record file is opened, and the parent told.                         *)
OpenFile(i) ==
  /\ Runs(i, "attached")
  /\ ch' = [ch EXCEPT ![i] =
              tell_parent(i, [@ EXCEPT !.pc = "recording", !.file = "open"], <<MSG_ATTACHED>>)]
  /\ UNCHANGED <<grandchild, gate>> /\ ChildOnly

\* Mutant: the hooks are removed and the gates left open.
OpenFails_GateLeft(i) ==
  /\ Runs(i, "attached")
  /\ ch' = [ch EXCEPT ![i].pc = "closing", ![i].armed = FALSE, ![i].ret = 1]
  /\ UNCHANGED <<grandchild, gate>> /\ ChildOnly

(* It cannot be opened: ntp_loader_close().                                *)
OpenFails(i) ==
  /\ Runs(i, "attached")
  /\ ch' = [ch EXCEPT ![i].pc = "closing", ![i].armed = FALSE, ![i].ret = 1]
  /\ gate' = FALSE
  /\ UNCHANGED grandchild /\ ChildOnly

(* The loop ends at a signal, at the end of the time given, or at an error; *)
(* ntp_loader_disarm().                                                     *)
EndRecording(i, why) ==
  /\ Runs(i, "recording")
  /\ why = "stop" => ch[i].stop
  /\ ch' = [ch EXCEPT ![i].pc = "draining", ![i].armed = FALSE,
                      ![i].ret = IF why = "error" THEN 1 ELSE 0]
  /\ gate' = FALSE
  /\ UNCHANGED grandchild /\ ChildOnly

\* Mutant: an error of close_writer() is ignored.
Report_CloseIgnored(i) ==
  /\ Runs(i, "draining")
  /\ \E file \in {"closed", "bad"} :
       ch' = [ch EXCEPT ![i] =
                tell_parent(i, [@ EXCEPT !.pc = "closing", !.file = file],
                            <<MSG_DONE, ch[i].ret>>)]
  /\ UNCHANGED <<grandchild, gate>> /\ ChildOnly

(* After the drain: the report, close_writer(), and MSG_DONE with the exit *)
(* status, in one write.                                                   *)
Report(i) ==
  /\ Runs(i, "draining")
  /\ \E file \in {"closed", "bad"} :
       LET ret == IF file = "bad" THEN 1 ELSE ch[i].ret
       IN  ch' = [ch EXCEPT ![i] =
                    tell_parent(i, [@ EXCEPT !.pc = "closing", !.file = file, !.ret = ret],
                                <<MSG_DONE, ret>>)]
  /\ UNCHANGED <<grandchild, gate>> /\ ChildOnly

(* ntp_loader_close() has detached every program: exit(record()).          *)
Exit(i) ==
  /\ Runs(i, "closing")
  /\ ch' = [ch EXCEPT ![i] = Dead(@, @.ret)]
  /\ UNCHANGED <<grandchild, gate>> /\ ChildOnly

(* A child that got SIGKILL dies, once what it waits for returns.          *)
Die(i) ==
  /\ ch[i].killed /\ ch[i].pc # "dead"
  /\ ch' = [ch EXCEPT ![i] = Dead(@, 1)]
  /\ UNCHANGED <<grandchild, gate>> /\ ChildOnly

(* A signal reaches a child. Before record() has installed on_signal(),    *)
(* the first child still has the default action, and the second its        *)
(* parent's forward_signal(), which signals the first.                     *)
ChildSignal(i, s) ==
  /\ s \in ch[i].sig /\ ch[i].pc \notin {"none", "dead"} /\ ~ ch[i].killed
  /\ ch' = [ch EXCEPT ![i] =
              IF ch[i].pc = "forked" /\ i = 1 THEN Dead(ch[i], 1)
              ELSE [ch[i] EXCEPT !.sig = ch[i].sig \ {s},
                                 !.stop = ch[i].stop \/ ch[i].pc # "forked"]]
  /\ UNCHANGED <<grandchild, gate>> /\ ChildOnly

-----------------------------------------------------------------------------
(* The parent: cmd_record().                                               *)

ParentOnly == UNCHANGED <<mode, grandchild, gate, nsignals>>

\* A step of the parent that is not next_byte()'s.
Outside == ParentOnly /\ UNCHANGED <<polling, missed>>

Return(code) == pc' = "done" /\ exit' = code /\ psig' = {}

(* start_child() of the first child; when it fails, record() runs in this  *)
(* process.                                                                *)
Start ==
  /\ pc = "start"
  /\ ch' = [ch EXCEPT ![1] = Forked]
  /\ pc' \in {"window", "inline"}
  /\ UNCHANGED <<exit, status, cur, interrupts, psig>> /\ Outside

InlineReturns ==
  /\ pc = "inline" /\ ch[1].pc = "dead"
  /\ Return(ch[1].ret)
  /\ UNCHANGED <<status, cur, interrupts, ch>> /\ Outside

(* The two sigaction() calls.                                              *)
InstallHandlers ==
  /\ pc = "window" /\ pc' = "attach"
  /\ UNCHANGED <<exit, status, cur, interrupts, psig, ch>> /\ Outside

\* Mutant: the handlers are installed with SA_RESTART, and poll() goes on waiting.
ParentSignal_Restarts(s) ==
  /\ s \in psig /\ pc \notin {"inline", "done"}
  /\ IF pc = "window"
     THEN /\ Return(None)
          /\ UNCHANGED <<polling, missed, interrupts, ch>>
     ELSE /\ interrupts' = interrupts + (IF s = "INT" THEN 1 ELSE 0)
          /\ missed' = (polling = "past" /\ (missed \/ s = "INT"))
          /\ ch' = [ch EXCEPT ![cur] = Signalled(@, s)]
          /\ psig' = psig \ {s}
          /\ UNCHANGED <<pc, exit, polling>>
  /\ UNCHANGED <<status, cur>> /\ ParentOnly

(* forward_signal(), or the default action before it is installed. It      *)
(* interrupts a poll() that sleeps (EINTR): next_byte() is at its test     *)
(* again. A poll() yet to be called does not learn of it.                  *)
ParentSignal(s) ==
  /\ s \in psig /\ pc \notin {"inline", "done"}
  /\ IF pc = "window"
     THEN /\ Return(None)
          /\ UNCHANGED <<polling, missed, interrupts, ch>>
     ELSE /\ interrupts' = interrupts + (IF s = "INT" THEN 1 ELSE 0)
          /\ missed' = (polling = "past" /\ (missed \/ s = "INT"))
          /\ polling' = IF polling = "asleep" THEN "test" ELSE polling
          /\ ch' = [ch EXCEPT ![cur] = Signalled(@, s)]
          /\ psig' = psig \ {s}
          /\ UNCHANGED <<pc, exit>>
  /\ UNCHANGED <<status, cur>> /\ ParentOnly

(* next_byte(): two Ctrl-Cs have not been counted when it looks.           *)
NotLeft ==
  /\ Listening /\ polling = "test" /\ interrupts < 2
  /\ polling' = "past"
  /\ UNCHANGED <<pc, exit, status, cur, interrupts, psig, ch, missed>> /\ ParentOnly

\* The pipe is closed by all who could write to it: the child, and the grandchild,
\* which has inherited it.
Hangup == ch[cur].pc = "dead" /\ ~ (cur = 1 /\ grandchild)

(* poll() finds nothing to read, and waits.                                *)
FallAsleep ==
  /\ Listening /\ polling = "past" /\ ch[cur].pipe = <<>> /\ ~ Hangup
  /\ polling' = "asleep"
  /\ UNCHANGED <<pc, exit, status, cur, interrupts, psig, ch, missed>> /\ ParentOnly

(* poll() and read() return a byte, and cmd_record() goes on.              *)
NextByte ==
  /\ Listening /\ polling # "test" /\ ch[cur].pipe # <<>>
  /\ LET b == Head(ch[cur].pipe)
     IN  IF pc = "status"
         THEN pc' = "detach" /\ status' = b
         ELSE pc' = (IF b = MSG_ATTACHED THEN "recording" ELSE "status") /\ UNCHANGED status
  /\ ch' = [ch EXCEPT ![cur].pipe = Tail(@)]
  /\ polling' = "test" /\ missed' = FALSE
  /\ UNCHANGED <<exit, cur, interrupts, psig>> /\ ParentOnly

(* read() finds the end of the pipe.                                       *)
EndOfPipe ==
  /\ Listening /\ polling # "test" /\ ch[cur].pipe = <<>> /\ Hangup
  /\ IF pc = "status" THEN pc' = "detach" /\ status' = 0
                      ELSE pc' = "wait" /\ UNCHANGED status
  /\ polling' = "test" /\ missed' = FALSE
  /\ UNCHANGED <<exit, cur, interrupts, psig, ch>> /\ ParentOnly

(* reap(pid, 0) of a child that ended without a report.                    *)
Reap ==
  /\ pc = "wait" /\ ch[cur].pc = "dead"
  /\ Return(ch[cur].ret)
  /\ UNCHANGED <<status, cur, interrupts, ch>> /\ Outside

(* NB_LEFT; when only the status is missing, it counts as a failure.       *)
LeaveBehind ==
  /\ Listening /\ polling = "test" /\ interrupts >= 2
  /\ IF pc = "status"
     THEN pc' = "detach" /\ status' = 1 /\ UNCHANGED <<exit, psig>>
     ELSE Return(130) /\ UNCHANGED status
  /\ UNCHANGED <<cur, interrupts, ch>> /\ Outside

\* Before its poll(), next_byte() does not look whether there is a byte.
DeadlinePassed ==
  /\ pc = "attach"
  /\ \/ polling = "test" /\ interrupts < 2
     \/ polling = "asleep" /\ ch[cur].pipe = <<>>

\* Mutant: only a forced flavour has a deadline.
AttachTimeout_ForcedOnly ==
  /\ DeadlinePassed
  /\ mode # "auto" /\ pc' = "attach2" /\ polling' = "test" /\ missed' = FALSE
  /\ UNCHANGED <<exit, status, cur, interrupts, psig, ch>> /\ ParentOnly

(* NB_TIMEOUT after ATTACH_DEADLINE_MS.                                    *)
AttachTimeout ==
  /\ DeadlinePassed
  /\ pc' = IF mode = "auto" THEN "kill" ELSE "attach2"
  /\ polling' = "test" /\ missed' = FALSE
  /\ UNCHANGED <<exit, status, cur, interrupts, psig, ch>> /\ ParentOnly

(* kill(ch.pid, SIGKILL), close(ch.fd).                                    *)
Kill ==
  /\ pc = "kill" /\ pc' = "again"
  /\ ch' = [ch EXCEPT ![cur] = Killed(@)]
  /\ UNCHANGED <<exit, status, cur, interrupts, psig>> /\ Outside

(* start_child() with kprobes. A signal between its fork() and its         *)
(* assignment of child_pid is lost like one just before.                   *)
StartAgain ==
  /\ pc = "again"
  /\ \/ /\ ch' = [ch EXCEPT ![2] = Forked]
        /\ cur' = 2 /\ pc' = "attach2"
        /\ UNCHANGED <<exit, psig>>
     \/ Return(1) /\ UNCHANGED <<cur, ch>>
  /\ UNCHANGED <<status, interrupts>> /\ Outside

\* Mutant: the parent waits until the hooks are gone.
DetachWait_Unbounded ==
  /\ pc = "detach" /\ ch[cur].pc = "dead" /\ Return(ch[cur].ret)
  /\ UNCHANGED <<status, cur, interrupts, ch>> /\ Outside

(* The last loop: the child is gone, or DETACH_WAIT_MS have passed.        *)
DetachWait ==
  /\ pc = "detach"
  /\ \/ ch[cur].pc = "dead" /\ Return(ch[cur].ret)
     \/ ch[cur].pc # "dead" /\ Return(status)
  /\ UNCHANGED <<status, cur, interrupts, ch>> /\ Outside

(* The user: Ctrl-C at the terminal, which every process of the group gets, *)
(* or kill(1) of the parent.                                                *)
Signal(s) ==
  /\ pc \notin {"start", "done"} /\ nsignals < MaxSignals
  /\ nsignals' = nsignals + 1
  /\ psig' = psig \cup {s}
  /\ ch' = [i \in Attempts |->
              IF s = "INT" \/ pc = "inline" THEN Signalled(ch[i], s) ELSE ch[i]]
  /\ UNCHANGED <<mode, pc, exit, status, cur, polling, interrupts, grandchild, gate, missed>>

-----------------------------------------------------------------------------
ParentStep ==
  \/ Start \/ InlineReturns \/ InstallHandlers \/ NotLeft \/ FallAsleep \/ NextByte
  \/ EndOfPipe \/ Reap \/ LeaveBehind \/ AttachTimeout \/ Kill \/ StartAgain \/ DetachWait
  \/ \E s \in Signals : ParentSignal(s)

ChildStep(i) ==
  \/ Setup(i) \/ Attach(i) \/ AttachFails(i) \/ OpenFile(i) \/ OpenFails(i)
  \/ \E why \in {"stop", "duration", "error"} : EndRecording(i, why)
  \/ Report(i) \/ Exit(i) \/ Die(i)
  \/ \E s \in Signals : ChildSignal(i, s)

(* The parent has returned and the children are gone.                      *)
Rest ==
  /\ pc = "done" /\ \A i \in Attempts : ch[i].pc \in {"none", "dead"}
  /\ UNCHANGED vars

Next ==
  \/ ParentStep \/ GrandchildEnds \/ Rest
  \/ \E i \in Attempts : ChildStep(i)
  \/ \E s \in Signals : Signal(s)

Spec == Init /\ [][Next]_vars

(* The scheduler runs both processes, and a signal is delivered. Nothing   *)
(* bounds an attach or detach of fentry programs, and so the grandchild    *)
(* and a killed first attempt; nor, without -d, the recording.             *)
Fairness ==
  /\ WF_vars(ParentStep)
  /\ \A s \in Signals : WF_vars(ParentSignal(s))
  /\ \A i \in Attempts :
       /\ WF_vars(Setup(i)) /\ WF_vars(OpenFile(i) \/ OpenFails(i))
       /\ WF_vars(ch[i].kprobes /\ (Attach(i) \/ AttachFails(i)))
       /\ WF_vars(EndRecording(i, "stop")) /\ WF_vars(Report(i))
       /\ WF_vars(ch[i].kprobes /\ Exit(i))
       /\ \A s \in Signals : WF_vars(ChildSignal(i, s))

FairSpec == Spec /\ Fairness

-----------------------------------------------------------------------------
\* The types of the two processes' state.
TypeOK ==
  /\ mode \in Modes
  /\ pc \in {"start", "inline", "window", "attach", "kill", "again", "attach2",
             "recording", "status", "detach", "wait", "done"}
  /\ exit \in {None, 0, 1, 130} /\ status \in {None, 0, 1} /\ cur \in Attempts
  /\ polling \in {"test", "past", "asleep"} /\ missed \in BOOLEAN
  /\ interrupts \in 0..MaxSignals /\ psig \subseteq Signals
  /\ ch \in [Attempts -> Child]
  /\ grandchild \in BOOLEAN /\ gate \in BOOLEAN /\ nsignals \in 0..MaxSignals

\* `ntprof record` returns 0 only when the recording's report is out and its file
\* closed without an error, whichever of cmd_record()'s ways out was taken and
\* whether or not the first attempt was killed. And unless the user left with a
\* second Ctrl-C, a parent that gives up waiting for the child to detach returns
\* what the child will exit with, however long the hooks take to go.
ExitTellsOutcome ==
  /\ exit = 0 => ch[cur].file = "closed" /\ ch[cur].ret = 0
  /\ exit \in {0, 1} /\ interrupts < 2 /\ ch[cur].pc # "none" /\ ~ ch[cur].killed
       => exit = ch[cur].ret

\* SPDK samples only while a child has opened the gates and has neither disarmed
\* nor closed its loader, on every path of record() including the failing ones;
\* a child that SIGKILL or SIGPIPE ended while armed never did.
GateHeld == TypeOK /\ (gate => \E i \in Attempts : ch[i].armed)

\* A second Ctrl-C gets the user out, however stuck attaching or detaching is
\* (design.md: "a second Ctrl-C leaves a stuck attach behind"): once the parent
\* has counted two, it returns. The one exception: a Ctrl-C handled between
\* next_byte()'s test of `interrupts` and its poll() is not seen until poll()
\* returns, and it takes a further one to leave.
TwoInterruptsLeave == interrupts >= 2 /\ ~ missed ~> pc = "done"

\* "a second Ctrl-C leaves a stuck attach behind" (design.md), without that exception.
SecondInterruptLeaves == interrupts >= 2 ~> pc = "done"

\* Once the child has printed its report and told the parent, the parent returns
\* (unless it was about to kill the child, its deadline having passed), even
\* when the hooks are never removed (DETACH_WAIT_MS).
ReportReturns ==
  pc # "inline" /\ ch[cur].file \in {"closed", "bad"} ~> pc = "done" \/ ch[1].killed

\* A child that ended is never waited for forever, although fentry_check()'s
\* grandchild can keep the pipe open after it: the parent returns, or its
\* deadline passes and it starts over.
EndedChildNoticed == ch[1].pc = "dead" /\ cur = 1 ~> pc = "done" \/ cur = 2

\* design.md of the attempt that is killed at the deadline: "its programs were
\* never armed".
KilledNeverArmed == \A i \in Attempts : ch[i].killed => ~ ch[i].armed

\* docs/reference.md: a recording without -d stops at Ctrl-C. Once the parent has
\* handled one, no child keeps recording.
InterruptStops ==
  interrupts >= 1 ~> [](\A i \in Attempts : ch[i].pc # "recording" \/ ch[i].killed)

\* tell_parent(): "the parent is gone: nobody to tell", and cmd_record() of a
\* child left behind: "it ends by itself". Such a child still disarms, so it
\* leaves no SPDK process sampling.
LeftEndsUngated ==
  \A i \in Attempts : ch[i].pc = "dead" /\ ~ ch[i].killed /\ ch[i].armed => ~ gate

=============================================================================
