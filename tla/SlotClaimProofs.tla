-------------------------- MODULE SlotClaimProofs --------------------------
(***************************************************************************)
(* NoHalfClaimFound and ExactUnlessRaced for any number of requests that    *)
(* share the slot and any number of commands.  The first rests on: as long  *)
(* as two claims were never in the slot at once, at most one request is     *)
(* claiming, and while it fills the slot the slot has no owner.  The        *)
(* invariant of the second is stated where it begins.                       *)
(***************************************************************************)
EXTENDS SlotClaim, FiniteSetTheorems, TLAPS

OneClaim    == \A r, s \in Rqs : pc[r] \in ClaimSteps /\ pc[s] \in ClaimSteps => r = s
OwnerlessFill == \A s \in Rqs : pc[s] \in FillSteps => slot.rq = None

ClaimInv ==
  /\ pc \in [Rqs -> Steps]
  /\ slot \in [rq : Rqs \cup {None}, id : Cmds \cup {None},
               ts : Cmds \cup {None}, done : Cmds \cup {None}]
  /\ ncmd \in [Rqs -> 0..MaxCmds]
  /\ \A r \in Rqs : pc[r] # "idle" => ncmd[r] > 0
  /\ ~both => ~half /\ OneClaim /\ OwnerlessFill

-----------------------------------------------------------------------------
\* What Observe lets a step conclude: if two claims have still not met, they
\* had not met before, and at most one request is claiming now.
LEMMA ObserveOne ==
  ASSUME Observe, ~both'
  PROVE  ~both /\ \A r, s \in Rqs : pc'[r] \in ClaimSteps /\ pc'[s] \in ClaimSteps => r = s
  BY DEF Observe

\* A hook step of one request: the slot keeps its shape, and unless two claims
\* met, a request that fills the slot is the only claimer and the slot is
\* ownerless (nvme_setup_cmd clears it first and sets it last, and the other
\* hooks only ever set it to 0).
LEMMA SetupKeeps ==
  ASSUME ClaimInv, NEW r \in Rqs, Submit(r) \/ ntp_h_setup_cmd(r), Observe
  PROVE  ClaimInv'
  <1> USE SlotAssumption
  <1>1. /\ pc' \in [Rqs -> Steps]
        /\ slot' \in [rq : Rqs \cup {None}, id : Cmds \cup {None},
                      ts : Cmds \cup {None}, done : Cmds \cup {None}]
        /\ ncmd' \in [Rqs -> 0..MaxCmds]
        /\ \A q \in Rqs : pc'[q] # "idle" => ncmd'[q] > 0
    <2>1. CASE Submit(r)
      BY <2>1 DEF ClaimInv, Submit, Goto, Steps, ClaimSteps, UseSteps, Resting
    <2>2. CASE ntp_h_setup_cmd(r)
      <3>1. pc[r] # "idle" => Cmd(r) \in Cmds
        BY DEF ClaimInv, Cmd, Cmds
      <3>2. pc[r] # "idle" /\ ncmd' = ncmd
        BY <2>2 DEF ClaimInv, ntp_h_setup_cmd, CountClaim, ClearOwner, Goto
      <3>3. \E to \in Steps : pc' = [pc EXCEPT ![r] = to]
        BY <2>2 DEF ntp_h_setup_cmd, CountClaim, ClearOwner, Goto, Steps, ClaimSteps, Resting
      <3>4. slot' \in [rq : Rqs \cup {None}, id : Cmds \cup {None},
                       ts : Cmds \cup {None}, done : Cmds \cup {None}]
        BY <2>2, <3>1, <3>2 DEF ClaimInv, ntp_h_setup_cmd, CountClaim, ClearOwner
      <3>5. pc' \in [Rqs -> Steps] /\ \A q \in Rqs : pc'[q] # "idle" => pc[q] # "idle"
        BY <3>2, <3>3 DEF ClaimInv
      <3>6. QED
        BY <3>2, <3>4, <3>5 DEF ClaimInv
    <2>3. QED  BY <2>1, <2>2
  <1>2. half' = half
    BY DEF Submit, ntp_h_setup_cmd, CountClaim, ClearOwner
  <1>3. ASSUME ~both'
        PROVE  OneClaim' /\ OwnerlessFill'
    <2>1. ~both /\ OneClaim'
      BY <1>3, ObserveOne DEF OneClaim
    <2>2. OwnerlessFill'
      <3> SUFFICES ASSUME NEW s \in Rqs, pc'[s] \in FillSteps
                   PROVE  slot'.rq = None
        BY DEF OwnerlessFill
      <3>1. CASE s = r
        BY <3>1, <2>1 DEF ClaimInv, OwnerlessFill, Submit, ntp_h_setup_cmd, CountClaim,
             ClearOwner, Goto, FillSteps
      <3>2. CASE s # r
        <4>1. pc[s] = pc'[s]
          BY <3>2 DEF ClaimInv, Submit, ntp_h_setup_cmd, CountClaim, ClearOwner, Goto
        <4>2. slot.rq = None /\ pc[r] # "own"
          BY <2>1, <3>2, <4>1 DEF ClaimInv, OwnerlessFill, OneClaim, FillSteps, ClaimSteps
        <4>3. QED
          BY <4>2 DEF ClaimInv, Submit, ntp_h_setup_cmd, CountClaim, ClearOwner, Goto
      <3>3. QED  BY <3>1, <3>2
    <2>3. QED  BY <2>1, <2>2
  <1>4. QED
    BY <1>1, <1>2, <1>3, ObserveOne DEF ClaimInv

\* The timestamp and completion hooks: they find their own slot only while no
\* claim fills it, so the observer `half` is not raised.
LEMMA HooksKeep ==
  ASSUME ClaimInv, NEW r \in Rqs,
         ntp_h_nvme_done(r) \/ ntp_h_blk_done(r) \/ NeverCompletes(r), Observe
  PROVE  ClaimInv'
  <1> USE SlotAssumption
  <1>1. /\ pc' \in [Rqs -> Steps]
        /\ slot' \in [rq : Rqs \cup {None}, id : Cmds \cup {None},
                      ts : Cmds \cup {None}, done : Cmds \cup {None}]
        /\ ncmd' = ncmd
        /\ \A q \in Rqs : pc'[q] # "idle" => ncmd'[q] > 0
    <2>1. pc[r] # "idle" => Cmd(r) \in Cmds
      BY DEF ClaimInv, Cmd, Cmds
    <2>2. pc[r] # "idle" /\ ncmd' = ncmd
      BY DEF ClaimInv, ntp_h_nvme_done, ntp_h_blk_done, NeverCompletes, InflightCheck,
           host_entry, Goto
    <2>3. \E to \in Steps : pc' = [pc EXCEPT ![r] = to]
      BY DEF ntp_h_nvme_done, ntp_h_blk_done, NeverCompletes, InflightCheck, host_entry, Goto,
           Steps, UseSteps, Resting
    <2>4. slot' \in [rq : Rqs \cup {None}, id : Cmds \cup {None},
                     ts : Cmds \cup {None}, done : Cmds \cup {None}]
      BY <2>1, <2>2 DEF ClaimInv, ntp_h_nvme_done, ntp_h_blk_done, NeverCompletes,
           InflightCheck, host_entry
    <2>5. pc' \in [Rqs -> Steps] /\ \A q \in Rqs : pc'[q] # "idle" => pc[q] # "idle"
      BY <2>2, <2>3 DEF ClaimInv
    <2>6. QED
      BY <2>2, <2>4, <2>5 DEF ClaimInv
  <1>2. slot'.rq \in {slot.rq, None}
    BY DEF ClaimInv, ntp_h_nvme_done, ntp_h_blk_done, NeverCompletes, InflightCheck,
           host_entry, Goto
  <1>3. \A s \in Rqs : pc'[s] \in FillSteps => pc[s] \in FillSteps
    BY DEF ClaimInv, ntp_h_nvme_done, ntp_h_blk_done, NeverCompletes, InflightCheck,
           host_entry, Goto, FillSteps
  <1>4. half' = half \/ (slot.rq = r /\ half' = (half \/ \E s \in Rqs \ {r} : pc[s] \in FillSteps))
    BY DEF ntp_h_nvme_done, ntp_h_blk_done, NeverCompletes, InflightCheck, host_entry
  <1>5. ASSUME ~both'
        PROVE  ~half' /\ OneClaim' /\ OwnerlessFill'
    <2>1. ~both /\ OneClaim'
      BY <1>5, ObserveOne DEF OneClaim
    <2>2. ~half'
      BY <2>1, <1>4 DEF ClaimInv, OwnerlessFill
    <2>3. OwnerlessFill'
      BY <2>1, <1>2, <1>3 DEF ClaimInv, OwnerlessFill
    <2>4. QED  BY <2>1, <2>2, <2>3
  <1>6. QED
    BY <1>1, <1>5 DEF ClaimInv

\* Unless two claims meet, no hook finds the slot to be its own while another
\* command's claim fills it: for every number of colliding requests.
THEOREM ClaimsHidden == Spec => []NoHalfClaimFound
  <1>1. Init => ClaimInv
    BY SlotAssumption DEF Init, ClaimInv, OneClaim, OwnerlessFill, Steps, Resting, ClaimSteps,
       FillSteps
  <1>2. ClaimInv /\ [Next]_vars => ClaimInv'
    <2> SUFFICES ASSUME ClaimInv, [Next]_vars
                 PROVE  ClaimInv'
      OBVIOUS
    <2>1. CASE UNCHANGED vars
      BY <2>1 DEF vars, ClaimInv, OneClaim, OwnerlessFill
    <2>2. CASE Next
      BY <2>1, <2>2, SetupKeeps, HooksKeep DEF Next, Finished
    <2>3. QED  BY <2>1, <2>2
  <1>3. ClaimInv => NoHalfClaimFound
    BY DEF ClaimInv, NoHalfClaimFound
  <1>4. QED
    BY <1>1, <1>2, <1>3, PTL DEF Spec

-----------------------------------------------------------------------------
(* ExactUnlessRaced.  While no claim has overlapped another use of the slot: *)
(* a hook that uses the slot still owns it, a claim still finds the owner it *)
(* read, what the slot holds of its owner's command is what its owner's      *)
(* hooks have stored so far, and ntp_inflight is the record in the slot (or   *)
(* the claim that counted itself) and one for every hook about to decrement. *)

Ending   == {r \in Rqs : pc[r] = "bdDec"}
Counting == {"clear"} \cup FillSteps
Held     == slot.rq # None \/ \E r \in Rqs : pc[r] \in Counting

ClaimsAlone == \A r, s \in Rqs : pc[r] \in ClaimSteps => pc[s] \notin UseSteps
UsersOwn    == \A r \in Rqs : pc[r] \in UseSteps => slot.rq = r
SawOwner    == \A r \in Rqs : pc[r] = "count" => saw[r] = slot.rq

\* What the slot holds while r fills it, and once it is r's.
Filling == \A r \in Rqs :
  /\ pc[r] \in {"fillId", "fillTs", "own"} => slot.done = None
  /\ pc[r] \in {"fillTs", "own"} => slot.id = Cmd(r)
  /\ pc[r] = "own" => slot.ts = Cmd(r)

NotStamped == {"queued", "ndLook", "ndWrite"}
Stamped    == {"served", "bdLook", "bdOut", "bdOut2"}
Owned == \A r \in Rqs : slot.rq = r =>
  /\ pc[r] \in NotStamped \cup Stamped => slot.id = Cmd(r) /\ slot.ts = Cmd(r)
  /\ pc[r] \in NotStamped => slot.done = None
  /\ pc[r] \in Stamped => slot.done = Cmd(r)

Copied   == \A r \in Rqs : pc[r] = "bdOut2" => got[r] = Cmd(r)
OutExact == out.rec = [id |-> out.by, ts |-> out.by, done |-> out.by]

ExactInv ==
  /\ ClaimInv
  /\ inflight \in Int
  /\ saw \in [Rqs -> Rqs \cup {None}]
  /\ got \in [Rqs -> Cmds \cup {None}]
  /\ IsFiniteSet(Ending)
  /\ ~raced => /\ OneClaim /\ OwnerlessFill /\ ClaimsAlone /\ UsersOwn /\ SawOwner
               /\ Filling /\ Owned /\ Copied /\ OutExact
               /\ inflight = Cardinality(Ending) + IF Held THEN 1 ELSE 0

\* All of it but the count, and what it says of a step that keeps the slot
\* from a race.
SlotExact == /\ OneClaim /\ OwnerlessFill /\ ClaimsAlone /\ UsersOwn /\ SawOwner
             /\ Filling /\ Owned /\ Copied /\ OutExact

\* A state that raced is remembered: without one, there was only one claim.
LEMMA ObserveAlone ==
  ASSUME Observe, ~raced'
  PROVE  ~raced /\ OneClaim' /\ ClaimsAlone'
  BY DEF Observe, OneClaim, ClaimsAlone

\* A request that starts has touched nothing of the slot yet.
LEMMA SubmitExact ==
  ASSUME ExactInv, NEW r \in Rqs, Submit(r), SlotExact, OneClaim', ClaimsAlone'
  PROVE  SlotExact' /\ Ending' = Ending /\ (Held' <=> Held)
  <1> USE SlotAssumption
  <1>1. /\ pc[r] = "idle" /\ pc' = [pc EXCEPT ![r] = "look"]
        /\ \A q \in Rqs : q # r => ncmd'[q] = ncmd[q]
        /\ UNCHANGED <<slot, inflight, saw, got, out>>
    BY DEF ExactInv, ClaimInv, Submit, Goto
  <1>2. OwnerlessFill' /\ UsersOwn' /\ SawOwner' /\ OutExact'
    BY <1>1 DEF ExactInv, ClaimInv, SlotExact, OwnerlessFill, UsersOwn, SawOwner, OutExact,
       UseSteps, FillSteps
  <1>3. Filling' /\ Owned' /\ Copied'
    BY <1>1 DEF ExactInv, ClaimInv, SlotExact, Filling, Owned, Copied, NotStamped, Stamped, Cmd
  <1>4. Ending' = Ending /\ (Held' <=> Held)
    BY <1>1 DEF ExactInv, ClaimInv, Ending, Held, Counting, FillSteps
  <1>5. QED  BY <1>2, <1>3, <1>4 DEF SlotExact

\* nvme_setup_cmd: its stores are the only ones in the slot, from reading the
\* owner to becoming it.
LEMMA SetupExact ==
  ASSUME ExactInv, NEW r \in Rqs, ntp_h_setup_cmd(r), SlotExact, OneClaim', ClaimsAlone',
         inflight = Cardinality(Ending) + IF Held THEN 1 ELSE 0
  PROVE  SlotExact' /\ inflight' = Cardinality(Ending') + IF Held' THEN 1 ELSE 0
  <1> USE SlotAssumption
  <1> USE DEF ExactInv, ClaimInv, SlotExact
  <1>0. ncmd' = ncmd /\ got' = got /\ out' = out
    BY DEF ntp_h_setup_cmd, CountClaim, ClearOwner
  <1>1. \E to \in ClaimSteps \cup {"queued"} : pc' = [pc EXCEPT ![r] = to]
    BY DEF ntp_h_setup_cmd, CountClaim, ClearOwner, Goto, ClaimSteps
  <1>2. pc[r] \in {"look"} \cup ClaimSteps /\ \A q \in Rqs : q # r => pc'[q] = pc[q]
    BY <1>1 DEF ntp_h_setup_cmd, CountClaim, ClearOwner, Goto, ClaimSteps
  <1>3. Ending' = Ending
    BY <1>1, <1>2 DEF Ending, ClaimSteps
  <1>4. OutExact' /\ Copied'
    BY <1>0, <1>1, <1>2 DEF OutExact, Copied, Cmd, ClaimSteps
  <1>5. CASE Goto(r, "look", "count") /\ saw' = [saw EXCEPT ![r] = slot.rq]
             /\ UNCHANGED <<slot, inflight>>
    <2>1. OwnerlessFill' /\ UsersOwn' /\ SawOwner'
      BY <1>5 DEF Goto, OwnerlessFill, UsersOwn, SawOwner, FillSteps, UseSteps
    <2>2. Filling' /\ Owned'
      BY <1>0, <1>5 DEF Goto, Filling, Owned, NotStamped, Stamped, Cmd
    <2>3. (Held' <=> Held)
      BY <1>5 DEF Goto, Held, Counting, FillSteps
    <2>4. QED  BY <1>3, <1>4, <1>5, <2>1, <2>2, <2>3
  <1>6. CASE CountClaim(r)
    <2>1. OwnerlessFill' /\ UsersOwn' /\ SawOwner'
      BY <1>6, <1>2 DEF CountClaim, Goto, OwnerlessFill, UsersOwn, SawOwner, FillSteps, UseSteps
    <2>2. Filling' /\ Owned'
      BY <1>0, <1>6 DEF CountClaim, Goto, Filling, Owned, NotStamped, Stamped, Cmd
    <2>3. Held' /\ (Held <=> slot.rq # None) /\ saw[r] = slot.rq
      BY <1>6 DEF CountClaim, Goto, Held, Counting, FillSteps, OneClaim, ClaimSteps, SawOwner
    <2>4. inflight' = IF saw[r] = None THEN inflight + 1 ELSE inflight
      BY <1>6 DEF CountClaim
    <2>5. Cardinality(Ending) \in Nat
      BY FS_CardinalityType
    <2>6. QED  BY <1>3, <1>4, <2>1, <2>2, <2>3, <2>4, <2>5
  <1>7. CASE ClearOwner(r) \/ pc[r] \in FillSteps
    <2>1. inflight' = inflight /\ saw' = saw /\ pc[r] \in Counting
      BY <1>7 DEF ntp_h_setup_cmd, CountClaim, ClearOwner, Goto, FillSteps, Counting
    <2>2. \A q \in Rqs : q # r => pc[q] \notin ClaimSteps /\ pc[q] \notin UseSteps
      BY <2>1 DEF OneClaim, ClaimsAlone, Counting, FillSteps, ClaimSteps
    <2>3. OwnerlessFill' /\ Filling'
      <3>1. CASE ClearOwner(r)
        BY <1>0, <1>2, <2>2, <3>1 DEF ClearOwner, Goto, OwnerlessFill, Filling, FillSteps, ClaimSteps,
           Cmd
      <3>2. CASE pc[r] \in FillSteps
        <4>1. OwnerlessFill'
          BY <1>2, <2>2, <3>2 DEF ntp_h_setup_cmd, CountClaim, ClearOwner, Goto, OwnerlessFill,
             FillSteps, ClaimSteps
        <4>2. Filling'
          <5>1. CASE pc[r] \in {"wipe", "fillId"}
            BY <1>0, <1>2, <2>2, <5>1 DEF ntp_h_setup_cmd, CountClaim, ClearOwner, Goto, Filling,
               FillSteps, ClaimSteps, Cmd
          <5>2. CASE pc[r] \in {"fillTs", "own"}
            BY <1>0, <1>2, <2>2, <5>2 DEF ntp_h_setup_cmd, CountClaim, ClearOwner, Goto, Filling,
               FillSteps, ClaimSteps, Cmd
          <5>3. QED  BY <3>2, <5>1, <5>2 DEF FillSteps
        <4>3. QED  BY <4>1, <4>2
      <3>3. QED  BY <1>7, <3>1, <3>2
    <2>4. UsersOwn' /\ SawOwner'
      BY <1>1, <1>2, <1>7, <2>2 DEF ntp_h_setup_cmd, CountClaim, ClearOwner, Goto, UsersOwn,
         SawOwner, ClaimSteps, UseSteps, FillSteps
    <2>5. Owned'
      <3>1. CASE pc[r] = "own"
        BY <1>0, <1>2, <1>7, <3>1 DEF ntp_h_setup_cmd, CountClaim, ClearOwner, Goto, Owned, Filling,
           NotStamped, Stamped, Cmd
      <3>2. CASE pc[r] # "own"
        <4>1. slot'.rq = None
          BY <1>7, <3>2 DEF ntp_h_setup_cmd, CountClaim, ClearOwner, Goto, OwnerlessFill, FillSteps
        <4>2. QED  BY <4>1 DEF Owned
      <3>3. QED  BY <3>1, <3>2
    <2>6. Held /\ Held'
      BY <1>2, <1>7, <2>1 DEF ntp_h_setup_cmd, CountClaim, ClearOwner, Goto, Held, Counting, FillSteps
    <2>7. QED  BY <1>3, <1>4, <2>1, <2>3, <2>4, <2>5, <2>6
  <1>8. QED
    BY <1>5, <1>6, <1>7 DEF ntp_h_setup_cmd, Goto, FillSteps

\* Only while the slot has no record do the later hooks return at once.
LEMMA OwnerIsCounted ==
  ASSUME ExactInv, inflight = Cardinality(Ending) + IF Held THEN 1 ELSE 0, slot.rq # None
  PROVE  inflight # 0
  BY FS_CardinalityType DEF ExactInv, Held

\* nvme_complete_rq, and a command that ends without it: the slot keeps its
\* owner, and holds the owner's completion time once its hook is through.
LEMMA NvmeDoneExact ==
  ASSUME ExactInv, NEW r \in Rqs, ntp_h_nvme_done(r) \/ NeverCompletes(r), SlotExact,
         OneClaim', ClaimsAlone',
         inflight = Cardinality(Ending) + IF Held THEN 1 ELSE 0
  PROVE  SlotExact' /\ inflight' = Cardinality(Ending') + IF Held' THEN 1 ELSE 0
  <1> USE SlotAssumption
  <1> USE DEF ExactInv, ClaimInv, SlotExact
  <1>0. UNCHANGED <<ncmd, got, out, saw, inflight>>
    BY DEF ntp_h_nvme_done, NeverCompletes, InflightCheck, host_entry
  <1>1. \E to \in {"ndLook", "ndWrite", "served", "idle"} : pc' = [pc EXCEPT ![r] = to]
    BY DEF ntp_h_nvme_done, NeverCompletes, InflightCheck, host_entry, Goto
  <1>2. pc[r] \in NotStamped /\ \A q \in Rqs : q # r => pc'[q] = pc[q]
    BY <1>1 DEF ntp_h_nvme_done, NeverCompletes, Goto, NotStamped
  <1>3. Ending' = Ending
    BY <1>1, <1>2 DEF Ending, NotStamped
  <1>4. OutExact' /\ Copied'
    BY <1>0, <1>1, <1>2 DEF OutExact, Copied, Cmd
  <1>5. slot'.rq = slot.rq /\ slot'.id = slot.id /\ slot'.ts = slot.ts
    BY DEF ntp_h_nvme_done, NeverCompletes, InflightCheck, host_entry
  <1>6. (Held' <=> Held)
    BY <1>1, <1>2, <1>5 DEF Held, Counting, FillSteps, NotStamped
  <1>7. OwnerlessFill' /\ SawOwner'
    BY <1>0, <1>1, <1>2, <1>5 DEF OwnerlessFill, SawOwner, FillSteps
  <1>8. UsersOwn'
    BY <1>1, <1>2, <1>5 DEF ntp_h_nvme_done, NeverCompletes, InflightCheck, host_entry, Goto,
       UsersOwn, UseSteps
  <1>9. slot'.done = slot.done \/ (pc[r] = "ndWrite" /\ slot.rq = r)
    BY DEF ntp_h_nvme_done, NeverCompletes, InflightCheck, host_entry, Goto, UsersOwn, UseSteps
  <1>10. Filling'
    <2>1. \A q \in Rqs : pc'[q] \in FillSteps => pc[q] \in FillSteps /\ pc[r] # "ndWrite"
      BY <1>1, <1>2 DEF FillSteps, ClaimSteps, ClaimsAlone, UseSteps
    <2>2. QED
      BY <1>0, <1>1, <1>2, <1>5, <1>9, <2>1 DEF Filling, FillSteps, Cmd
  <1>11. Owned'
    <2> SUFFICES ASSUME NEW q \in Rqs, slot'.rq = q
                 PROVE  /\ pc'[q] \in NotStamped \cup Stamped => slot'.id = Cmd(q)' /\ slot'.ts = Cmd(q)'
                        /\ pc'[q] \in NotStamped => slot'.done = None
                        /\ pc'[q] \in Stamped => slot'.done = Cmd(q)'
      BY DEF Owned
    <2>1. Cmd(q)' = Cmd(q) /\ slot.rq = q
      BY <1>0, <1>5 DEF Cmd
    <2>2. CASE q # r
      BY <1>2, <1>5, <1>9, <2>1, <2>2 DEF Owned
    <2>3. CASE q = r
      <3>1. slot.id = Cmd(r) /\ slot.ts = Cmd(r) /\ slot.done = None
        BY <1>2, <2>1, <2>3 DEF Owned
      <3>2. inflight # 0
        BY OwnerIsCounted, <2>1
      <3>3. CASE NeverCompletes(r)
        BY <2>3, <3>3 DEF NeverCompletes, Goto, NotStamped, Stamped
      <3>4. CASE pc[r] = "queued" /\ ntp_h_nvme_done(r)
        BY <2>1, <2>3, <3>1, <3>2, <3>4 DEF ntp_h_nvme_done, InflightCheck, host_entry, Goto,
           NotStamped, Stamped
      <3>5. CASE pc[r] = "ndLook" /\ ntp_h_nvme_done(r)
        BY <2>1, <2>3, <3>1, <3>5 DEF ntp_h_nvme_done, InflightCheck, host_entry, Goto,
           NotStamped, Stamped
      <3>6. CASE pc[r] = "ndWrite" /\ ntp_h_nvme_done(r)
        BY <2>1, <2>3, <3>1, <3>6 DEF ntp_h_nvme_done, InflightCheck, host_entry, Goto,
           NotStamped, Stamped
      <3>7. QED  BY <1>2, <3>3, <3>4, <3>5, <3>6 DEF NotStamped
    <2>4. QED  BY <2>2, <2>3
  <1>12. QED
    BY <1>0, <1>3, <1>4, <1>6, <1>7, <1>8, <1>10, <1>11

\* block_rq_complete: it copies its own command's record, gives up the slot,
\* and takes its count back.
LEMMA BlkDoneExact ==
  ASSUME ExactInv, NEW r \in Rqs, ntp_h_blk_done(r), SlotExact, OneClaim', ClaimsAlone',
         inflight = Cardinality(Ending) + IF Held THEN 1 ELSE 0
  PROVE  SlotExact' /\ inflight' = Cardinality(Ending') + IF Held' THEN 1 ELSE 0
  <1> USE SlotAssumption
  <1> USE DEF ExactInv, ClaimInv, SlotExact
  <1>0. UNCHANGED <<ncmd, saw>> /\ \A q \in Rqs : Cmd(q)' = Cmd(q)
    BY DEF ntp_h_blk_done, InflightCheck, host_entry, Cmd
  <1>1. \E to \in {"bdLook", "bdOut", "bdOut2", "bdFree", "bdDec", "idle"} :
          pc' = [pc EXCEPT ![r] = to]
    BY DEF ntp_h_blk_done, InflightCheck, host_entry, Goto
  <1>2. pc[r] \in Stamped \cup {"bdFree", "bdDec"} /\ \A q \in Rqs : q # r => pc'[q] = pc[q]
    BY <1>1 DEF ntp_h_blk_done, Goto, Stamped
  <1>3. /\ slot' = slot \/ (pc[r] = "bdFree" /\ slot' = [slot EXCEPT !.rq = None])
        /\ \A q \in Rqs : pc'[q] \in FillSteps \cup {"count"} => pc'[q] = pc[q] /\ q # r
    BY <1>1, <1>2 DEF ntp_h_blk_done, InflightCheck, host_entry, Goto, FillSteps
  <1>4. pc[r] \in UseSteps => slot.rq = r /\ \A q \in Rqs : pc[q] \notin ClaimSteps
    BY DEF UsersOwn, ClaimsAlone
  <1>5. OwnerlessFill' /\ SawOwner' /\ Filling'
    BY <1>0, <1>3, <1>4 DEF OwnerlessFill, SawOwner, Filling, FillSteps, UseSteps, ClaimSteps
  <1>6. UsersOwn'
    <2> SUFFICES ASSUME NEW q \in Rqs, pc'[q] \in UseSteps
                 PROVE  slot'.rq = q
      BY DEF UsersOwn
    <2>1. CASE q = r
      BY <1>2, <2>1 DEF ntp_h_blk_done, InflightCheck, host_entry, Goto, UsersOwn, UseSteps, Stamped
    <2>2. CASE q # r
      BY <1>2, <1>3, <1>4, <2>2 DEF UsersOwn, UseSteps
    <2>3. QED  BY <2>1, <2>2
  <1>7. Owned'
    <2>1. \A q \in Rqs : slot'.rq = q => slot' = slot
      BY <1>3
    <2>2. slot'.rq = r => pc'[r] \in Stamped \/ pc'[r] \notin NotStamped
      BY <1>1 DEF Stamped, NotStamped
    <2>3. slot'.rq = r /\ pc'[r] \in Stamped => pc[r] \in Stamped
      BY <1>1, <1>2 DEF ntp_h_blk_done, InflightCheck, host_entry, Goto, Stamped
    <2>4. pc'[r] \notin NotStamped
      BY <1>1 DEF NotStamped
    <2>5. QED
      BY <1>0, <1>2, <2>1, <2>3, <2>4 DEF Owned
  <1>8. Copied' /\ OutExact'
    <2>1. CASE pc[r] = "bdOut"
      BY <1>0, <1>2, <1>4, <2>1 DEF ntp_h_blk_done, Goto, Copied, OutExact, Owned, Stamped, UseSteps
    <2>2. CASE pc[r] = "bdOut2"
      <3>1. got[r] = Cmd(r) /\ slot.ts = Cmd(r) /\ slot.done = Cmd(r)
        BY <1>4, <2>2 DEF Owned, Stamped, UseSteps, Copied
      <3>2. /\ out' = [by |-> Cmd(r),
                       rec |-> [id |-> got[r], ts |-> slot.ts, done |-> slot.done]]
            /\ got' = [got EXCEPT ![r] = None] /\ pc'[r] = "bdFree"
        BY <2>2 DEF ntp_h_blk_done, Goto
      <3>3. OutExact'
        BY <3>1, <3>2 DEF OutExact
      <3>4. Copied'
        BY <1>0, <1>2, <3>2 DEF Copied
      <3>5. QED  BY <3>3, <3>4
    <2>3. CASE pc[r] \notin {"bdOut", "bdOut2"}
      <3>1. got' = got /\ out' = out /\ pc'[r] # "bdOut2"
        BY <1>1, <2>3 DEF ntp_h_blk_done, InflightCheck, host_entry, Goto
      <3>2. QED
        BY <1>0, <1>2, <3>1 DEF Copied, OutExact
    <2>4. QED  BY <2>1, <2>2, <2>3
  <1>9. inflight' = Cardinality(Ending') + IF Held' THEN 1 ELSE 0
    <2>0. Cardinality(Ending) \in Nat
      BY FS_CardinalityType
    <2>1. CASE pc[r] = "bdFree"
      <3>1. Ending' = Ending \cup {r} /\ r \notin Ending
        BY <1>2, <2>1 DEF ntp_h_blk_done, Goto, Ending
      <3>2. Cardinality(Ending') = Cardinality(Ending) + 1
        BY <3>1, FS_AddElement
      <3>3. Held /\ ~Held' /\ inflight' = inflight
        BY <1>2, <1>4, <2>1 DEF ntp_h_blk_done, Goto, Held, Counting, FillSteps, ClaimSteps, UseSteps
      <3>4. QED  BY <2>0, <3>2, <3>3
    <2>2. CASE pc[r] = "bdDec"
      <3>1. Ending' = Ending \ {r} /\ r \in Ending
        BY <1>2, <2>2 DEF ntp_h_blk_done, Goto, Ending
      <3>2. Cardinality(Ending') = Cardinality(Ending) - 1
        BY <3>1, FS_RemoveElement
      <3>3. (Held' <=> Held) /\ inflight' = inflight - 1
        BY <1>2, <2>2 DEF ntp_h_blk_done, Goto, Held, Counting, FillSteps
      <3>4. QED  BY <2>0, <3>2, <3>3
    <2>3. CASE pc[r] \notin {"bdFree", "bdDec"}
      <3>1. Ending' = Ending /\ slot' = slot /\ inflight' = inflight
        BY <1>2, <2>3 DEF ntp_h_blk_done, InflightCheck, host_entry, Goto, Ending
      <3>2. (Held' <=> Held)
        BY <1>1, <1>2, <3>1 DEF Held, Counting, FillSteps, Stamped
      <3>3. QED  BY <3>1, <3>2
    <2>4. QED  BY <2>1, <2>2, <2>3
  <1>10. QED
    BY <1>5, <1>6, <1>7, <1>8, <1>9

\* The types of the rest of the state, races or not.
LEMMA TypesExact ==
  ASSUME ExactInv, NEW r \in Rqs,
         \/ Submit(r) \/ ntp_h_setup_cmd(r) \/ ntp_h_nvme_done(r) \/ ntp_h_blk_done(r)
         \/ NeverCompletes(r)
  PROVE  /\ inflight' \in Int
         /\ saw' \in [Rqs -> Rqs \cup {None}]
         /\ got' \in [Rqs -> Cmds \cup {None}]
         /\ IsFiniteSet(Ending')
  <1> USE SlotAssumption DEF ExactInv, ClaimInv
  <1>1. inflight' \in Int
    <2>1. inflight' \in {inflight, inflight + 1, inflight - 1}
      <3>1. CASE ntp_h_setup_cmd(r)
        BY <3>1 DEF ntp_h_setup_cmd, CountClaim, ClearOwner
      <3>2. CASE ntp_h_nvme_done(r) \/ ntp_h_blk_done(r)
        BY <3>2 DEF ntp_h_nvme_done, ntp_h_blk_done, InflightCheck, host_entry
      <3>3. CASE Submit(r) \/ NeverCompletes(r)
        BY <3>3 DEF Submit, NeverCompletes
      <3>4. QED  BY <3>1, <3>2, <3>3
    <2>2. QED  BY <2>1
  <1>2. saw' \in [Rqs -> Rqs \cup {None}]
    BY DEF Submit, ntp_h_setup_cmd, CountClaim, ClearOwner, ntp_h_nvme_done, ntp_h_blk_done,
       NeverCompletes, InflightCheck, host_entry
  <1>3. got' \in [Rqs -> Cmds \cup {None}]
    BY DEF Submit, ntp_h_setup_cmd, CountClaim, ClearOwner, ntp_h_nvme_done, ntp_h_blk_done,
       NeverCompletes, InflightCheck, host_entry
  <1>4. \E to : pc' = [pc EXCEPT ![r] = to]
    BY DEF Submit, ntp_h_setup_cmd, CountClaim, ClearOwner, ntp_h_nvme_done, ntp_h_blk_done,
       NeverCompletes, InflightCheck, host_entry, Goto
  <1>5. Ending' \in {Ending, Ending \cup {r}, Ending \ {r}}
    BY <1>4 DEF Ending
  <1>6. IsFiniteSet(Ending')
    BY <1>5, FS_AddElement, FS_RemoveElement
  <1>7. QED  BY <1>1, <1>2, <1>3, <1>6

\* ExactUnlessRaced for any number of requests in the slot and of commands: as
\* long as no claim overlaps another hook's use of the slot, records and
\* ntp_inflight are what they would be if hooks were atomic.
THEOREM ExactWithoutRaces == Spec => []ExactUnlessRaced
  <1>1. Init => ExactInv
    <2> SUFFICES ASSUME Init
                 PROVE  ExactInv
      OBVIOUS
    <2>1. ClaimInv
      BY SlotAssumption DEF Init, ClaimInv, OneClaim, OwnerlessFill, Steps, Resting, ClaimSteps,
         FillSteps
    <2>2. Ending = {} /\ ~Held
      BY DEF Init, Ending, Held, Counting, FillSteps
    <2>3. IsFiniteSet(Ending) /\ Cardinality(Ending) = 0
      BY <2>2, FS_EmptySet
    <2>4. OneClaim /\ OwnerlessFill /\ ClaimsAlone /\ UsersOwn /\ SawOwner /\ Filling /\ Owned
      BY SlotAssumption DEF Init, OneClaim, OwnerlessFill, ClaimsAlone, UsersOwn, SawOwner, Filling,
         Owned, ClaimSteps, FillSteps, UseSteps
    <2>5. Copied /\ OutExact
      BY DEF Init, Copied, OutExact, Empty
    <2>6. QED
      BY <2>1, <2>2, <2>3, <2>4, <2>5 DEF Init, ExactInv
  <1>2. ExactInv /\ [Next]_vars => ExactInv'
    <2> SUFFICES ASSUME ExactInv, [Next]_vars
                 PROVE  ExactInv'
      OBVIOUS
    <2>1. CASE UNCHANGED vars
      <3>1. ClaimInv'
        BY <2>1 DEF vars, ExactInv, ClaimInv, OneClaim, OwnerlessFill
      <3>2. Ending' = Ending /\ (Held' <=> Held)
        BY <2>1 DEF vars, Ending, Held
      <3>3. (SlotExact' <=> SlotExact)
        BY <2>1 DEF vars, SlotExact, OneClaim, OwnerlessFill, ClaimsAlone, UsersOwn, SawOwner,
           Filling, Owned, Copied, OutExact, Cmd
      <3>4. QED
        BY <2>1, <3>1, <3>2, <3>3 DEF vars, ExactInv, SlotExact
    <2>2. ASSUME NEW r \in Rqs, Observe,
                 \/ Submit(r) \/ ntp_h_setup_cmd(r) \/ ntp_h_nvme_done(r) \/ ntp_h_blk_done(r)
                 \/ NeverCompletes(r)
          PROVE  ExactInv'
      <3>1. ClaimInv'
        BY <2>2, SetupKeeps, HooksKeep DEF ExactInv
      <3>2. ASSUME ~raced'
            PROVE  SlotExact' /\ inflight' = Cardinality(Ending') + IF Held' THEN 1 ELSE 0
        <4>1. ~raced /\ OneClaim' /\ ClaimsAlone'
          BY <2>2, <3>2, ObserveAlone
        <4>2. SlotExact /\ inflight = Cardinality(Ending) + IF Held THEN 1 ELSE 0
          BY <4>1 DEF ExactInv, SlotExact
        <4>3. CASE Submit(r)
          <5>1. SlotExact' /\ Ending' = Ending /\ (Held' <=> Held)
            BY <4>1, <4>2, <4>3, SubmitExact
          <5>2. inflight' = inflight
            BY <4>3 DEF Submit
          <5>3. QED  BY <4>2, <5>1, <5>2
        <4>4. QED
          BY <2>2, <4>1, <4>2, <4>3, SetupExact, NvmeDoneExact, BlkDoneExact
      <3>3. QED
        BY <2>2, <3>1, <3>2, TypesExact DEF ExactInv, SlotExact
    <2>3. QED
      BY <2>1, <2>2 DEF Next, Finished
  <1>3. ExactInv => ExactUnlessRaced
    <2> SUFFICES ASSUME ExactInv, ~raced
                 PROVE  OutExact /\ (Quiet => inflight = IF slot.rq = None THEN 0 ELSE 1)
      BY DEF ExactUnlessRaced, OutExact
    <2>1. Quiet => Ending = {} /\ (Held <=> slot.rq # None)
      BY DEF Quiet, Ending, Held, Counting, FillSteps, Resting
    <2>2. Cardinality({}) = 0
      BY FS_EmptySet
    <2>3. OutExact /\ inflight = Cardinality(Ending) + IF Held THEN 1 ELSE 0
      BY DEF ExactInv
    <2>4. ASSUME Quiet
          PROVE  inflight = IF slot.rq = None THEN 0 ELSE 1
      <3>1. inflight = 0 + IF Held THEN 1 ELSE 0
        BY <2>1, <2>2, <2>3, <2>4
      <3>2. CASE slot.rq = None
        BY <2>1, <2>4, <3>1, <3>2
      <3>3. CASE slot.rq # None
        BY <2>1, <2>4, <3>1, <3>3
      <3>4. QED  BY <3>2, <3>3
    <2>5. QED
      BY <2>3, <2>4
  <1>4. QED
    BY <1>1, <1>2, <1>3, PTL DEF Spec
=============================================================================
