------------------------------- MODULE Gating -------------------------------
(***************************************************************************)
(* When sampling starts and stops on the two sides of one machine           *)
(* (`--role both`).  The loader arms its BPF objects and then writes the     *)
(* sampling period into the SPDK processes (ntp_loader_open), and takes both *)
(* back when it stops (ntp_loader_disarm) or fails (ntp_loader_close), one   *)
(* store after the other, while commands run through the host and the       *)
(* target (src/loader.c, src/spdk.c, and the patch to SPDK).                 *)
(*                                                                          *)
(* A side in the kernel samples a command that enters it while its object    *)
(* is armed and reports it whenever it ends.  A side in SPDK samples a      *)
(* command that enters it while its process's gate is open, and its probe    *)
(* reports it if the object is armed when it ends.  Every command here is    *)
(* one the sampling hash picks.                                              *)
(***************************************************************************)
EXTENDS Naturals, Sequences, SequencesExt

CONSTANTS
  Cmds,          \* commands the hash picks
  HostProcs,     \* the SPDK processes found on each side
  TargetProcs

Sides == {"host", "target"}
Procs == HostProcs \cup TargetProcs
ProcsOf(s) == IF s = "host" THEN HostProcs ELSE TargetProcs

VARIABLES
  kind,          \* side -> "kernel" or "spdk"
  armed,         \* side -> ntp_armed of its object
  gate,          \* SPDK process -> g_ntprof_sample_every # 0
  gated,         \* side -> obj_inst.gated
  phase,         \* where the recorder is
  todo,          \* the stores the loader's current call has still to do
  path,          \* command -> how far it is
  sampled,       \* command -> the sides that sampled it
  reported,      \* side -> the commands whose record reached the recorder
  left,          \* gates that were open when ntprof started (one that was killed)
  stuck          \* processes whose gate could not be closed

gatingVars == <<kind, armed, gate, gated, phase, todo, path, sampled, reported, left, stuck>>

\* A command is submitted to the host, reaches the target, and ends on the
\* two sides in either order.
Paths == {"new", "host", "target", "endedHost", "endedTarget", "ended"}

TypeOK ==
  /\ kind \in [Sides -> {"kernel", "spdk"}]
  /\ armed \in [Sides -> BOOLEAN] /\ gated \in [Sides -> BOOLEAN]
  /\ gate \in [Procs -> BOOLEAN] /\ left \in [Procs -> BOOLEAN]
  /\ phase \in {"opening", "recording", "disarming", "draining", "closing", "closed"}
  /\ path \in [Cmds -> Paths]
  /\ sampled \in [Cmds -> SUBSET Sides]
  /\ reported \in [Sides -> SUBSET Cmds]
  /\ stuck \subseteq Procs

-----------------------------------------------------------------------------
\* The loader's instances: the table `objects` lists the kernel's objects
\* before SPDK's, and the host's before the target's.
Order(k) == IF k["host"] = "spdk" /\ k["target"] = "kernel"
              THEN <<"target", "host">> ELSE <<"host", "target">>
Order1 == Order(kind)[1]
Order2 == Order(kind)[2]

Ops(op, s) == LET ps == SetToSeq(ProcsOf(s))
              IN [i \in 1..Len(ps) |-> [op |-> op, side |-> s, proc |-> ps[i]]]
Op(op, s)  == <<[op |-> op, side |-> s]>>

\* Mutant: an object counts as gated once all its processes are.
GateSteps_MarkedLast(k, s) ==
  IF k[s] = "spdk" THEN Ops("open", s) \o Op("mark", s) ELSE <<>>

\* o->gated, then the processes one by one.
GateSteps(k, s) ==
  IF k[s] = "spdk" THEN Op("mark", s) \o Ops("open", s) ELSE <<>>

\* Mutant: the gates are opened in the order of the instances.
OpenSteps_HostFirst(k) ==
  Op("arm", Order(k)[1]) \o Op("arm", Order(k)[2])
    \o GateSteps(k, Order(k)[1]) \o GateSteps(k, Order(k)[2])

\* ntp_loader_open() once the hooks are attached: arm all, gate from the last.
OpenSteps(k) ==
  Op("arm", Order(k)[1]) \o Op("arm", Order(k)[2])
    \o GateSteps(k, Order(k)[2]) \o GateSteps(k, Order(k)[1])

ungate(s) == IF gated[s] THEN Ops("close", s) \o Op("unmark", s) ELSE <<>>

ntp_loader_disarm == ungate(Order1) \o Op("disarm", Order1)
                       \o ungate(Order2) \o Op("disarm", Order2)

ntp_loader_close == ungate(Order1) \o ungate(Order2)

Init ==
  /\ kind \in [Sides -> {"kernel", "spdk"}]
  /\ left \in [Procs -> BOOLEAN] /\ gate = left
  /\ armed = [s \in Sides |-> FALSE]
  /\ gated = [s \in Sides |-> FALSE]
  /\ phase = "opening"
  /\ todo = OpenSteps(kind)
  /\ path = [c \in Cmds |-> "new"]
  /\ sampled = [c \in Cmds |-> {}]
  /\ reported = [s \in Sides |-> {}]
  /\ stuck = {}

-----------------------------------------------------------------------------
\* The loader's next store.
Store ==
  /\ todo # <<>>
  /\ todo' = Tail(todo)
  /\ LET o == Head(todo) IN
       /\ armed' = CASE o.op = "arm"    -> [armed EXCEPT ![o.side] = TRUE]
                     [] o.op = "disarm" -> [armed EXCEPT ![o.side] = FALSE]
                     [] OTHER           -> armed
       /\ gated' = CASE o.op = "mark"   -> [gated EXCEPT ![o.side] = TRUE]
                     [] o.op = "unmark" -> [gated EXCEPT ![o.side] = FALSE]
                     [] OTHER           -> gated
       /\ gate' = CASE o.op = "open"    -> [gate EXCEPT ![o.proc] = TRUE]
                    [] o.op = "close"   -> [gate EXCEPT ![o.proc] = FALSE]
                    [] OTHER            -> gate
  /\ UNCHANGED <<kind, phase, path, sampled, reported, left, stuck>>

\* ntp_spdk_set_gate() fails to close a gate, and ungate() does not look.
CloseFails ==
  /\ todo # <<>> /\ Head(todo).op = "close"
  /\ todo' = Tail(todo)
  /\ stuck' = stuck \cup {Head(todo).proc}
  /\ UNCHANGED <<kind, armed, gate, gated, phase, path, sampled, reported, left>>

\* ntp_spdk_set_gate() fails (/proc/PID/mem cannot be opened or written):
\* ntp_loader_open() gives up.
GateFails ==
  /\ phase = "opening" /\ todo # <<>> /\ Head(todo).op = "open"
  /\ phase' = "closing" /\ todo' = ntp_loader_close
  /\ UNCHANGED <<kind, armed, gate, gated, path, sampled, reported, left, stuck>>

\* The recorder goes on when the call is over.  It closes without disarming
\* when its output file cannot be opened.
NextPhase ==
  /\ todo = <<>>
  /\ \/ phase = "opening"   /\ phase' = "recording" /\ todo' = <<>>
     \/ phase = "recording" /\ phase' = "disarming" /\ todo' = ntp_loader_disarm
     \/ phase = "recording" /\ phase' = "closing"   /\ todo' = ntp_loader_close
     \/ phase = "disarming" /\ phase' = "draining"  /\ todo' = <<>>
     \/ phase = "draining"  /\ phase' = "closing"   /\ todo' = ntp_loader_close
     \/ phase = "closing"   /\ phase' = "closed"    /\ todo' = <<>>
  /\ UNCHANGED <<kind, armed, gate, gated, path, sampled, reported, left, stuck>>

\* Is a command that enters side s in process p sampled there?
Samples(s, p) == IF kind[s] = "spdk" THEN gate[p] ELSE armed[s] /\ phase # "closed"

\* Does its end on side s make a record?  (SPDK's probes check ntp_armed.)
Reports(s, c) == s \in sampled[c] /\ (kind[s] = "spdk" => armed[s])

\* c enters side s in process p.
Enter(s, c, p) ==
  /\ path' = [path EXCEPT ![c] = s]
  /\ sampled' = [sampled EXCEPT ![c] = IF Samples(s, p) THEN @ \cup {s} ELSE @]
  /\ UNCHANGED <<kind, armed, gate, gated, phase, todo, reported, left, stuck>>

\* c ends on side s; nobody reads the ring buffer once the loader closes.
End(s, c, to) ==
  /\ path' = [path EXCEPT ![c] = to]
  /\ reported' = IF Reports(s, c) /\ phase \notin {"closing", "closed"}
                   THEN [reported EXCEPT ![s] = @ \cup {c}] ELSE reported
  /\ UNCHANGED <<kind, armed, gate, gated, phase, todo, sampled, left, stuck>>

HostBegin(c, p)   == path[c] = "new"  /\ Enter("host", c, p)
TargetBegin(c, p) == path[c] = "host" /\ Enter("target", c, p)
HostEnd(c) ==
  \/ path[c] = "target"      /\ End("host", c, "endedHost")
  \/ path[c] = "endedTarget" /\ End("host", c, "ended")
TargetEnd(c) ==
  \/ path[c] = "target"    /\ End("target", c, "endedTarget")
  \/ path[c] = "endedHost" /\ End("target", c, "ended")

Finished ==
  /\ phase = "closed" /\ \A c \in Cmds : path[c] = "ended"
  /\ UNCHANGED gatingVars

Next ==
  \/ Store \/ CloseFails \/ GateFails \/ NextPhase
  \/ \E c \in Cmds : \/ \E p \in HostProcs : HostBegin(c, p)
                     \/ \E p \in TargetProcs : TargetBegin(c, p)
                     \/ HostEnd(c)
                     \/ TargetEnd(c)
  \/ Finished

Spec == Init /\ [][Next]_gatingVars

-----------------------------------------------------------------------------
NoGateLeft == \A p \in Procs : ~left[p]

\* HostHasTarget.  With both sides in SPDK and no gate left open by another
\* ntprof, every host record the recorder gets is of a command its target
\* sampled: the gates open at the target first and close at the host first
\* (src/loader.c:906-910), and a host command that straddles the stop is not
\* reported.  It holds for any interleaving of the stores with the commands,
\* and when opening or closing a gate fails half-way.
HostHasTarget ==
  kind["host"] = "spdk" /\ kind["target"] = "spdk" /\ NoGateLeft
    => \A c \in reported["host"] : "target" \in sampled[c]

\* StopsHostFirst.  The same claim for any target: "hosts first when stopping"
\* (src/loader.c:907).
StopsHostFirst ==
  kind["host"] = "spdk" /\ NoGateLeft
    => \A c \in reported["host"] : "target" \in sampled[c]

\* GatesRestored.  When the loader has closed, on whatever way and however
\* far it got, no SPDK process samples any more, unless its gate was open
\* before and opening failed first, or its own closing store failed: the
\* failure of another process's, or of the other side's, leaves no gate open.
GatesRestored ==
  phase = "closed" => \A p \in Procs : gate[p] => left[p] \/ p \in stuck
=============================================================================
