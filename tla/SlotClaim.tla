----------------------------- MODULE SlotClaim -----------------------------
(***************************************************************************)
(* One slot of the kernel objects' direct-mapped record table, store by     *)
(* store.  The other modules take a hook as one step; here two sampled      *)
(* commands whose requests hash to the same slot run their hooks on two     *)
(* CPUs at once, and every load and store of the slot and of ntp_inflight   *)
(* is a step of its own (bpf/host.bpf.h; bpf/target.bpf.h has the same       *)
(* shape).  Stores are seen in program order.                                *)
(*                                                                          *)
(* A request carries one command after the other; a command is              *)
(* <<request, number>>.  Of a record only what tells two commands apart is  *)
(* kept: whose id, whose start times and whose NVME_DONE it holds.           *)
(***************************************************************************)
EXTENDS Integers

CONSTANTS Rqs,      \* requests of one slot
          None,     \* 0: no owner, no value
          MaxCmds   \* bound: commands per request

ASSUME SlotAssumption == None \notin Rqs /\ MaxCmds \in Nat

VARIABLES
  slot,       \* struct host_entry: rq, and of rec: id, ts (START, QUEUE_RQ), done
  inflight,   \* ntp_inflight
  pc,         \* per request: the hook it is in, and how far
  ncmd,       \* per request: commands started
  saw,        \* per request: e->rq as its nvme_setup_cmd hook read it
  got,        \* per request: the id its bpf_ringbuf_output() has copied
  out,        \* the last record output: the command that emitted it, its contents
  (* observers, read by no step *)
  both,       \* two nvme_setup_cmd hooks were in the slot at once
  raced,      \* a claim overlapped another hook that was using the slot
  half        \* a hook found its record while another claim was filling it

vars == <<slot, inflight, pc, ncmd, saw, got, out, both, raced, half>>

Cmd(r) == <<r, ncmd[r]>>
Cmds   == Rqs \X (1..MaxCmds)
Empty  == [id |-> None, ts |-> None, done |-> None]

ClaimSteps == {"count", "clear", "wipe", "fillId", "fillTs", "own"}
FillSteps  == {"wipe", "fillId", "fillTs", "own"}
UseSteps   == {"ndWrite", "bdOut", "bdOut2", "bdFree"}
Resting    == {"idle", "queued", "served"}
Steps      == ClaimSteps \cup UseSteps \cup Resting
                \cup {"look", "ndCheck", "ndLook", "bdCheck", "bdLook", "bdDec"}

TypeOK ==
  /\ slot \in [rq : Rqs \cup {None}, id : Cmds \cup {None},
               ts : Cmds \cup {None}, done : Cmds \cup {None}]
  /\ inflight \in Int
  /\ pc \in [Rqs -> Steps]
  /\ ncmd \in [Rqs -> 0..MaxCmds]
  /\ saw \in [Rqs -> Rqs \cup {None}]
  /\ {both, raced, half} \subseteq BOOLEAN

Init ==
  /\ slot = [rq |-> None, id |-> None, ts |-> None, done |-> None]
  /\ inflight = 0
  /\ pc = [r \in Rqs |-> "idle"]
  /\ ncmd = [r \in Rqs |-> 0]
  /\ saw = [r \in Rqs |-> None]
  /\ got = [r \in Rqs |-> None]
  /\ out = [by |-> None, rec |-> Empty]
  /\ both = FALSE /\ raced = FALSE /\ half = FALSE

-----------------------------------------------------------------------------
\* Request r's hook goes from one step to another.
Goto(r, from, to) == pc[r] = from /\ pc' = [pc EXCEPT ![r] = to]

\* The block layer starts a command on r, and nvme_setup_cmd samples it.
Submit(r) ==
  /\ ncmd[r] < MaxCmds
  /\ Goto(r, "idle", "look")
  /\ ncmd' = [ncmd EXCEPT ![r] = @ + 1]
  /\ UNCHANGED <<slot, inflight, saw, got, out, half>>

\* Mutant: the slot is not given up before it is filled.
ClearOwner_Skipped(r) ==
  /\ Goto(r, "clear", "wipe")
  /\ UNCHANGED <<slot, inflight, ncmd, saw, got, out, half>>

\* e->rq = 0: from here on no hook of the earlier owner finds the slot.
ClearOwner(r) ==
  /\ Goto(r, "clear", "wipe")
  /\ slot' = [slot EXCEPT !.rq = None]
  /\ UNCHANGED <<inflight, ncmd, saw, got, out, half>>

\* Mutant: the collision is not told apart, every claim counts itself.
CountClaim_Always(r) ==
  /\ Goto(r, "count", "clear")
  /\ inflight' = inflight + 1
  /\ UNCHANGED <<slot, ncmd, saw, got, out, half>>

\* A slot that was empty: one more record in flight; else the owner's is lost.
CountClaim(r) ==
  /\ Goto(r, "count", "clear")
  /\ inflight' = IF saw[r] = None THEN inflight + 1 ELSE inflight
  /\ UNCHANGED <<slot, ncmd, saw, got, out, half>>

\* The rest of ntp_h_setup_cmd: read the owner first, fill the record, and
\* e->rq = key last.
ntp_h_setup_cmd(r) ==
  \/ /\ Goto(r, "look", "count")
     /\ saw' = [saw EXCEPT ![r] = slot.rq]
     /\ UNCHANGED <<slot, inflight, ncmd, got, out, half>>
  \/ CountClaim(r)
  \/ ClearOwner(r)
  \/ /\ \/ /\ Goto(r, "wipe", "fillId")
           /\ slot' = [slot EXCEPT !.id = None, !.ts = None, !.done = None]
        \/ /\ Goto(r, "fillId", "fillTs")
           /\ slot' = [slot EXCEPT !.id = Cmd(r)]
        \/ /\ Goto(r, "fillTs", "own")
           /\ slot' = [slot EXCEPT !.ts = Cmd(r)]
        \/ /\ Goto(r, "own", "queued")
           /\ slot' = [slot EXCEPT !.rq = r]
     /\ UNCHANGED <<inflight, ncmd, saw, got, out, half>>

\* host_entry(): the slot is this request's.  The observer notes a claim in
\* progress by another request.
host_entry(r, found, notFound) ==
  /\ \/ /\ slot.rq = r
        /\ pc' = [pc EXCEPT ![r] = found]
        /\ half' = (half \/ \E s \in Rqs \ {r} : pc[s] \in FillSteps)
     \/ /\ slot.rq # r
        /\ pc' = [pc EXCEPT ![r] = notFound]
        /\ half' = half
  /\ UNCHANGED <<slot, inflight, ncmd, saw, got, out>>

\* A hook that only adds a time or emits returns at once while inflight is 0.
InflightCheck(r, go, return) ==
  /\ pc' = [pc EXCEPT ![r] = IF inflight = 0 THEN return ELSE go]
  /\ UNCHANGED <<slot, inflight, ncmd, saw, got, out, half>>

ntp_h_nvme_done(r) ==
  \/ pc[r] = "queued"  /\ InflightCheck(r, "ndLook", "served")
  \/ pc[r] = "ndLook"  /\ host_entry(r, "ndWrite", "served")
  \/ /\ Goto(r, "ndWrite", "served")
     /\ slot' = [slot EXCEPT !.done = IF @ = None THEN Cmd(r) ELSE @]
     /\ UNCHANGED <<inflight, ncmd, saw, got, out, half>>

\* The record is copied out (word by word), the slot given up, the count
\* taken back.
ntp_h_blk_done(r) ==
  \/ pc[r] = "served"  /\ InflightCheck(r, "bdLook", "idle")
  \/ pc[r] = "bdLook"  /\ host_entry(r, "bdOut", "idle")
  \/ /\ Goto(r, "bdOut", "bdOut2")
     /\ got' = [got EXCEPT ![r] = slot.id]
     /\ UNCHANGED <<slot, inflight, ncmd, saw, out, half>>
  \/ /\ Goto(r, "bdOut2", "bdFree")
     /\ out' = [by |-> Cmd(r),
                rec |-> [id |-> got[r], ts |-> slot.ts, done |-> slot.done]]
     /\ got' = [got EXCEPT ![r] = None]
     /\ UNCHANGED <<slot, inflight, ncmd, saw, half>>
  \/ /\ Goto(r, "bdFree", "bdDec")
     /\ slot' = [slot EXCEPT !.rq = None]
     /\ UNCHANGED <<inflight, ncmd, saw, got, out, half>>
  \/ /\ Goto(r, "bdDec", "idle")
     /\ inflight' = inflight - 1
     /\ UNCHANGED <<slot, ncmd, saw, got, out, half>>

\* A command that ends without a block_rq_complete (the error path).
NeverCompletes(r) ==
  /\ Goto(r, "queued", "idle")
  /\ UNCHANGED <<slot, inflight, ncmd, saw, got, out, half>>

\* Every command has ended.
Finished ==
  /\ \A r \in Rqs : pc[r] = "idle" /\ ncmd[r] = MaxCmds
  /\ UNCHANGED vars

Observe ==
  LET claiming == {r \in Rqs : pc'[r] \in ClaimSteps}
      using    == {r \in Rqs : pc'[r] \in UseSteps}
      twice    == \E r, s \in claiming : r # s
  IN /\ both' = (both \/ twice)
     /\ raced' = (raced \/ twice \/ (claiming # {} /\ using # {}))

Next ==
  \/ \E r \in Rqs :
       /\ \/ Submit(r)
          \/ ntp_h_setup_cmd(r)
          \/ ntp_h_nvme_done(r)
          \/ ntp_h_blk_done(r)
          \/ NeverCompletes(r)
       /\ Observe
  \/ Finished

Spec == Init /\ [][Next]_vars

-----------------------------------------------------------------------------
Quiet == \A r \in Rqs : pc[r] \in Resting

\* ExactUnlessRaced.  As long as no claim of the slot overlaps another hook's
\* use of it, the table behaves as if hooks were atomic, whatever owners were
\* left behind: every record output holds the id, the start and the
\* completion time of the command that emitted it, and between hooks
\* ntp_inflight counts exactly the record in the slot.
ExactUnlessRaced ==
  ~raced =>
    /\ out.rec = [id |-> out.by, ts |-> out.by, done |-> out.by]
    /\ Quiet => inflight = IF slot.rq = None THEN 0 ELSE 1

\* NoHalfClaimFound.  Unless two claims are in the slot at once, no hook
\* finds the slot to be its own while another command's claim fills it: that
\* is what "e->rq = 0" before and "e->rq = key" after the stores is for
\* (bpf/host.bpf.h:333-351).  What is left is a hook that looked before.
NoHalfClaimFound == ~both => ~half

\* InflightSeesRecord.  "Records of this object not yet emitted" and "(only
\* the shortcut is lost)" (bpf/common.bpf.h:42-45): when no hook runs and the
\* slot holds a record, ntp_inflight is above 0, so that the record's hooks
\* do not return at once.
InflightSeesRecord == Quiet /\ slot.rq # None => inflight > 0
=============================================================================
