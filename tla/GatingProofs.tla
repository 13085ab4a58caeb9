---------------------------- MODULE GatingProofs ----------------------------
(***************************************************************************)
(* Sampling is taken back, and a host record has its target, for any number *)
(* of commands and SPDK processes and any interleaving of the loader's      *)
(* stores with the commands.  Neither is inductive: what the loader may      *)
(* still store has to be known, so the invariants say in which order the     *)
(* stores that are left come (GuardedBy).                                    *)
(***************************************************************************)
EXTENDS Gating, FiniteSetTheorems, TLAPS

-----------------------------------------------------------------------------
(* Orders of stores.                                                        *)

Has(s, b) == \E i \in 1..Len(s) : s[i] = b
Free(s, A) == \A i \in 1..Len(s) : s[i] \notin A

\* Every store of A in s comes after the store b.
GuardedBy(s, A, b) == \A i \in 1..Len(s) : s[i] \in A => \E j \in 1..(i - 1) : s[j] = b

\* Nothing guarded comes first, and the guard stays in front until it is done.
LEMMA GuardedTail ==
  ASSUME NEW X, NEW s \in Seq(X), s # <<>>, NEW A, NEW b, GuardedBy(s, A, b)
  PROVE  Head(s) \notin A /\ (Head(s) # b => GuardedBy(Tail(s), A, b))
  <1>1. /\ Len(s) \in Nat /\ Len(s) > 0 /\ Head(s) = s[1] /\ Len(Tail(s)) = Len(s) - 1
        /\ \A i \in 1..Len(Tail(s)) : Tail(s)[i] = s[i + 1]
    OBVIOUS
  <1>2. Head(s) \notin A
    BY <1>1 DEF GuardedBy
  <1>3. ASSUME Head(s) # b, NEW i \in 1..Len(Tail(s)), Tail(s)[i] \in A
        PROVE  \E j \in 1..(i - 1) : Tail(s)[j] = b
    <2>1. i \in Nat /\ i + 1 \in 1..Len(s) /\ s[i + 1] \in A
      BY <1>1, <1>3
    <2>2. PICK j \in 1..i : s[j] = b
      BY <2>1 DEF GuardedBy
    <2>3. j # 1 /\ j - 1 \in 1..(i - 1) /\ j - 1 \in 1..Len(Tail(s)) /\ (j - 1) + 1 = j
      BY <1>1, <1>3, <2>1, <2>2
    <2>4. Tail(s)[j - 1] = b
      BY <1>1, <2>2, <2>3
    <2>5. QED  BY <2>3, <2>4
  <1>4. QED  BY <1>2, <1>3 DEF GuardedBy

\* What is not among the stores is not among the ones after the first.
LEMMA FreeTail ==
  ASSUME NEW X, NEW s \in Seq(X), s # <<>>, NEW A, Free(s, A)
  PROVE  Head(s) \notin A /\ Free(Tail(s), A)
  <1>1. /\ Len(s) \in Nat /\ Len(s) > 0 /\ Head(s) = s[1] /\ Len(Tail(s)) = Len(s) - 1
        /\ \A i \in 1..Len(Tail(s)) : Tail(s)[i] = s[i + 1]
    OBVIOUS
  <1>2. \A i \in 1..Len(Tail(s)) : i + 1 \in 1..Len(s)
    BY <1>1
  <1>3. QED  BY <1>1, <1>2 DEF Free

\* A store that is not the first comes later.
LEMMA HasTail ==
  ASSUME NEW X, NEW s \in Seq(X), s # <<>>, NEW b, Has(s, b), Head(s) # b
  PROVE  Has(Tail(s), b)
  <1>1. /\ Len(s) \in Nat /\ Len(s) > 0 /\ Head(s) = s[1] /\ Len(Tail(s)) = Len(s) - 1
        /\ \A i \in 1..Len(Tail(s)) : Tail(s)[i] = s[i + 1]
    OBVIOUS
  <1>2. PICK i \in 1..Len(s) : s[i] = b
    BY DEF Has
  <1>3. i # 1 /\ i - 1 \in 1..Len(Tail(s)) /\ (i - 1) + 1 = i
    BY <1>1, <1>2
  <1>4. QED  BY <1>1, <1>2, <1>3 DEF Has

\* What never happens is guarded by anything.
LEMMA FreeIsGuarded ==
  ASSUME NEW s, NEW A, NEW b, Free(s, A)
  PROVE  GuardedBy(s, A, b)
  BY DEF Free, GuardedBy

\* One call after another.
LEMMA Appended ==
  ASSUME NEW X, NEW s \in Seq(X), NEW u \in Seq(X)
  PROVE  /\ s \o u \in Seq(X)
         /\ \A b : Has(s, b) \/ Has(u, b) => Has(s \o u, b)
         /\ \A A : Free(s, A) /\ Free(u, A) => Free(s \o u, A)
         /\ \A A, b : GuardedBy(s, A, b) /\ (Has(s, b) \/ GuardedBy(u, A, b)) => GuardedBy(s \o u, A, b)
  <1> DEFINE c == s \o u
  <1>1. /\ c \in Seq(X) /\ Len(c) = Len(s) + Len(u) /\ Len(s) \in Nat /\ Len(u) \in Nat
    OBVIOUS
  <1>2. \A i \in 1..Len(c) : c[i] = IF i <= Len(s) THEN s[i] ELSE u[i - Len(s)]
    OBVIOUS
  <1> HIDE DEF c
  <1>3. \A i \in 1..Len(s) : i \in 1..Len(c) /\ c[i] = s[i]
    BY <1>1, <1>2
  <1>4. \A i \in 1..Len(u) : i + Len(s) \in 1..Len(c) /\ c[i + Len(s)] = u[i]
    <2> SUFFICES ASSUME NEW i \in 1..Len(u)
                 PROVE  i + Len(s) \in 1..Len(c) /\ c[i + Len(s)] = u[i]
      OBVIOUS
    <2>1. i \in Nat /\ i + Len(s) \in 1..Len(c) /\ ~ (i + Len(s) <= Len(s)) /\ (i + Len(s)) - Len(s) = i
      BY <1>1
    <2>2. QED  BY <1>2, <2>1
  <1>5. \A i \in 1..Len(c) : i \in 1..Len(s) \/ (i - Len(s) \in 1..Len(u) /\ c[i] = u[i - Len(s)])
    BY <1>1, <1>2
  <1>6. \A b : Has(s, b) \/ Has(u, b) => Has(c, b)
    BY <1>3, <1>4 DEF Has
  <1>7. \A A : Free(s, A) /\ Free(u, A) => Free(c, A)
    BY <1>3, <1>5 DEF Free
  <1>8. ASSUME NEW A, NEW b, GuardedBy(s, A, b), Has(s, b) \/ GuardedBy(u, A, b)
        PROVE  GuardedBy(c, A, b)
    <2> SUFFICES ASSUME NEW i \in 1..Len(c), c[i] \in A PROVE \E j \in 1..(i - 1) : c[j] = b
      BY DEF GuardedBy
    <2>0. i \in Int
      OBVIOUS
    <2>1. CASE i \in 1..Len(s)
      <3>1. PICK j \in 1..(i - 1) : s[j] = b
        BY <1>3, <1>8, <2>1 DEF GuardedBy
      <3>2. j \in 1..Len(s)
        BY <1>1, <2>1
      <3>3. QED  BY <1>3, <3>1, <3>2
    <2>2. CASE i \notin 1..Len(s)
      <3>1. i - Len(s) \in 1..Len(u) /\ c[i] = u[i - Len(s)]
        BY <1>5, <2>2
      <3>2. CASE Has(s, b)
        <4>1. PICK j \in 1..Len(s) : s[j] = b
          BY <3>2 DEF Has
        <4>2. j \in 1..(i - 1)
          BY <1>1, <2>0, <3>1
        <4>3. QED  BY <1>3, <4>1, <4>2
      <3>3. CASE GuardedBy(u, A, b)
        <4> DEFINE n == i - Len(s)
        <4>1. PICK j \in 1..(n - 1) : u[j] = b
          BY <3>1, <3>3 DEF GuardedBy
        <4>2. j \in 1..Len(u) /\ j + Len(s) \in 1..(i - 1)
          BY <1>1, <2>0, <3>1
        <4>3. QED  BY <1>4, <4>1, <4>2
      <3>4. QED  BY <1>8, <3>2, <3>3
    <2>3. QED  BY <2>1, <2>2
  <1>9. QED  BY <1>1, <1>6, <1>7, <1>8 DEF c

-----------------------------------------------------------------------------
(* The stores of a call.                                                    *)

OnProc(op, s, p) == [op |-> op, side |-> s, proc |-> p]
OnSide(op, s) == [op |-> op, side |-> s]

Stores == {o \in [op : {"open", "close"}, side : Sides, proc : Procs] : o.proc \in ProcsOf(o.side)}
          \cup [op : {"arm", "disarm", "mark", "unmark"}, side : Sides]

\* A finite set's elements, one after the other.
LEMMA Listed ==
  ASSUME NEW S, IsFiniteSet(S)
  PROVE  /\ SetToSeq(S) \in Seq(S)
         /\ \A x \in S : \E i \in 1..Len(SetToSeq(S)) : SetToSeq(S)[i] = x
  <1> DEFINE n == Cardinality(S)
             q == SetToSeq(S)
  <1>1. n \in Nat /\ ExistsBijection(1..n, S)
    BY FS_CardinalityType
  <1>2. \E f \in [1..n -> S] : IsInjective(f)
    BY <1>1 DEF ExistsBijection, Bijection, Injection, IsInjective
  <1>3. q \in [1..n -> S] /\ IsInjective(q)
    BY <1>2 DEF SetToSeq
  <1> HIDE DEF q
  <1>4. q \in Seq(S) /\ Len(q) = n
    BY <1>1, <1>3
  <1>5. ASSUME NEW x \in S, \A i \in 1..n : q[i] # x PROVE FALSE
    <2> DEFINE T == S \ {x}
    <2>1. IsFiniteSet(T) /\ Cardinality(T) = n - 1
      BY FS_RemoveElement
    <2>2. IsFiniteSet(1..n) /\ Cardinality(1..n) = n
      BY <1>1, FS_Interval
    <2>3. q \in [1..n -> T]
      BY <1>3, <1>5
    <2>4. Cardinality(T) < Cardinality(1..n)
      BY <1>1, <2>1, <2>2
    <2> HIDE DEF T, n
    <2>5. \E i, j \in 1..n : i # j /\ q[i] = q[j]
      BY <2>1, <2>2, <2>3, <2>4, FS_PigeonHole
    <2>6. QED  BY <1>3, <2>5 DEF IsInjective
  <1>6. QED  BY <1>4, <1>5 DEF q

\* A store for each process of a side, and no others.
LEMMA OpsAre ==
  ASSUME IsFiniteSet(HostProcs), IsFiniteSet(TargetProcs),
         NEW op \in {"open", "close"}, NEW s \in Sides
  PROVE  /\ Ops(op, s) \in Seq(Stores)
         /\ \A p \in ProcsOf(s) : Has(Ops(op, s), OnProc(op, s, p))
         /\ \A i \in 1..Len(Ops(op, s)) : \E p \in ProcsOf(s) : Ops(op, s)[i] = OnProc(op, s, p)
  <1> DEFINE ps == SetToSeq(ProcsOf(s))
             q == Ops(op, s)
  <1>1. IsFiniteSet(ProcsOf(s)) /\ ProcsOf(s) \subseteq Procs
    BY DEF ProcsOf, Procs
  <1>2. /\ ps \in Seq(ProcsOf(s))
        /\ \A p \in ProcsOf(s) : \E i \in 1..Len(ps) : ps[i] = p
    BY <1>1, Listed
  <1>3. q = [i \in 1..Len(ps) |-> OnProc(op, s, ps[i])]
    BY DEF Ops, OnProc
  <1> HIDE DEF ps, q
  <1>4. Len(ps) \in Nat /\ \A i \in 1..Len(ps) : ps[i] \in ProcsOf(s)
    BY <1>2
  <1>5. \A p \in ProcsOf(s) : OnProc(op, s, p) \in Stores
    BY <1>1 DEF OnProc, Stores
  <1>6. q \in [1..Len(ps) -> Stores]
    BY <1>3, <1>4, <1>5
  <1>7. q \in Seq(Stores) /\ Len(q) = Len(ps)
    BY <1>4, <1>6
  <1>8. \A i \in 1..Len(q) : q[i] = OnProc(op, s, ps[i])
    BY <1>3, <1>7
  <1>9. \A p \in ProcsOf(s) : Has(q, OnProc(op, s, p))
    BY <1>2, <1>7, <1>8 DEF Has
  <1>10. \A i \in 1..Len(q) : \E p \in ProcsOf(s) : q[i] = OnProc(op, s, p)
    BY <1>4, <1>7, <1>8
  <1>11. QED  BY <1>7, <1>9, <1>10 DEF q

\* A call that is one store.
LEMMA OpIs ==
  ASSUME NEW op \in {"arm", "disarm", "mark", "unmark"}, NEW s \in Sides
  PROVE  /\ Op(op, s) \in Seq(Stores) /\ Has(Op(op, s), OnSide(op, s))
         /\ \A A : OnSide(op, s) \notin A => Free(Op(op, s), A)
         /\ \A A, b : OnSide(op, s) \notin A => GuardedBy(Op(op, s), A, b)
  <1>1. Op(op, s) = <<OnSide(op, s)>> /\ OnSide(op, s) \in Stores
    BY DEF Op, OnSide, Stores
  <1>2. QED  BY <1>1 DEF Has, Free, GuardedBy

\* The stores with one of these operations, and the ones that open s's gates.
OfOp(ops) == {o \in Stores : o.op \in ops}
Opens(s) == {OnProc("open", s, p) : p \in ProcsOf(s)}

\* ungate(): the processes are told before the object is no longer gated.
LEMMA UngateIs ==
  ASSUME IsFiniteSet(HostProcs), IsFiniteSet(TargetProcs), NEW s \in Sides
  PROVE  /\ ungate(s) \in Seq(Stores)
         /\ Free(ungate(s), OfOp({"open", "mark", "arm", "disarm"}))
         /\ \A r \in Sides : r # s => Free(ungate(s), {OnSide("unmark", r)})
         /\ \A p : Free(ungate(s), {OnProc("close", r, p) : r \in Sides \ {s}})
         /\ gated[s] => Has(ungate(s), OnSide("unmark", s))
         /\ \A p \in ProcsOf(s) : GuardedBy(ungate(s), {OnSide("unmark", s)}, OnProc("close", s, p))
  <1> DEFINE c == Ops("close", s)
             u == Op("unmark", s)
  <1>1. /\ c \in Seq(Stores)
        /\ \A p \in ProcsOf(s) : Has(c, OnProc("close", s, p))
        /\ \A i \in 1..Len(c) : \E p \in ProcsOf(s) : c[i] = OnProc("close", s, p)
    BY OpsAre
  <1>2. /\ u \in Seq(Stores) /\ Has(u, OnSide("unmark", s))
        /\ \A A : OnSide("unmark", s) \notin A => Free(u, A)
    BY OpIs
  <1> HIDE DEF c, u
  <1>3. Free(c, OfOp({"open", "mark", "arm", "disarm"})) /\ Free(u, OfOp({"open", "mark", "arm", "disarm"}))
    <2>0. \A p : OnProc("close", s, p) \notin OfOp({"open", "mark", "arm", "disarm"})
      BY DEF OfOp, OnProc
    <2>1. Free(c, OfOp({"open", "mark", "arm", "disarm"}))
      BY <1>1, <2>0 DEF Free
    <2>2. OnSide("unmark", s) \notin OfOp({"open", "mark", "arm", "disarm"})
      BY DEF OfOp, OnSide
    <2>3. QED  BY <1>2, <2>1, <2>2
  <1>4. \A r : \A p : OnProc("close", s, p) # OnSide("unmark", r)
    BY DEF OnProc, OnSide
  <1>5. \A r : Free(c, {OnSide("unmark", r)})
    BY <1>1, <1>4 DEF Free
  <1>6. \A r \in Sides : r # s => Free(u, {OnSide("unmark", r)})
    <2> SUFFICES ASSUME NEW r \in Sides, r # s PROVE Free(u, {OnSide("unmark", r)})
      OBVIOUS
    <2>1. OnSide("unmark", s) # OnSide("unmark", r)
      BY DEF OnSide
    <2>2. QED  BY <1>2, <2>1
  <1>7. \A p : Free(c, {OnProc("close", r, p) : r \in Sides \ {s}})
    <2>1. \A p, q : \A r \in Sides \ {s} : OnProc("close", s, q) # OnProc("close", r, p)
      BY DEF OnProc
    <2>2. \A p, q : OnProc("close", s, q) \notin {OnProc("close", r, p) : r \in Sides \ {s}}
      BY <2>1
    <2>3. QED  BY <1>1, <2>2 DEF Free
  <1>8. \A p : Free(u, {OnProc("close", r, p) : r \in Sides \ {s}})
    <2>1. \A p : OnSide("unmark", s) \notin {OnProc("close", r, p) : r \in Sides \ {s}}
      BY DEF OnSide, OnProc
    <2>2. QED  BY <1>2, <2>1
  <1>9. \A p \in ProcsOf(s) : GuardedBy(c, {OnSide("unmark", s)}, OnProc("close", s, p))
    BY <1>5, FreeIsGuarded
  <1>10. /\ c \o u \in Seq(Stores)
         /\ Free(c \o u, OfOp({"open", "mark", "arm", "disarm"}))
         /\ \A r \in Sides : r # s => Free(c \o u, {OnSide("unmark", r)})
         /\ \A p : Free(c \o u, {OnProc("close", r, p) : r \in Sides \ {s}})
         /\ Has(c \o u, OnSide("unmark", s))
         /\ \A p \in ProcsOf(s) : GuardedBy(c \o u, {OnSide("unmark", s)}, OnProc("close", s, p))
    <2>1. /\ c \o u \in Seq(Stores)
          /\ \A b : Has(c, b) \/ Has(u, b) => Has(c \o u, b)
          /\ \A A : Free(c, A) /\ Free(u, A) => Free(c \o u, A)
          /\ \A A, b : GuardedBy(c, A, b) /\ (Has(c, b) \/ GuardedBy(u, A, b)) => GuardedBy(c \o u, A, b)
      BY <1>1, <1>2, Appended
    <2>2. QED  BY <1>1, <1>2, <1>3, <1>5, <1>6, <1>7, <1>8, <1>9, <2>1
  <1>11. CASE gated[s]
    BY <1>10, <1>11 DEF ungate, c, u
  <1>12. CASE ~ gated[s]
    <2>1. ungate(s) = <<>>
      BY <1>12 DEF ungate
    <2>2. /\ <<>> \in Seq(Stores) /\ \A A : Free(<<>>, A) /\ \A b : GuardedBy(<<>>, A, b)
      BY DEF Free, GuardedBy
    <2>3. QED  BY <1>12, <2>1, <2>2
  <1>13. QED  BY <1>11, <1>12

\* GateSteps(): the object counts as gated before its first process is told.
LEMMA GateStepsAre ==
  ASSUME IsFiniteSet(HostProcs), IsFiniteSet(TargetProcs), NEW s \in Sides, NEW k
  PROVE  /\ GateSteps(k, s) \in Seq(Stores)
         /\ Free(GateSteps(k, s), OfOp({"close", "unmark", "arm", "disarm"}))
         /\ \A r \in Sides : r # s => Free(GateSteps(k, s), Opens(r))
         /\ GuardedBy(GateSteps(k, s), Opens(s), OnSide("mark", s))
         /\ k[s] = "spdk" => \A p \in ProcsOf(s) : Has(GateSteps(k, s), OnProc("open", s, p))
  <1> DEFINE c == Ops("open", s)
             m == Op("mark", s)
  <1>1. /\ c \in Seq(Stores)
        /\ \A p \in ProcsOf(s) : Has(c, OnProc("open", s, p))
        /\ \A i \in 1..Len(c) : \E p \in ProcsOf(s) : c[i] = OnProc("open", s, p)
    BY OpsAre
  <1>2. /\ m \in Seq(Stores) /\ Has(m, OnSide("mark", s))
        /\ \A A : OnSide("mark", s) \notin A => Free(m, A)
        /\ \A A, b : OnSide("mark", s) \notin A => GuardedBy(m, A, b)
    BY OpIs
  <1> HIDE DEF c, m
  <1>3. Free(c, OfOp({"close", "unmark", "arm", "disarm"}))
    <2>1. \A p : OnProc("open", s, p) \notin OfOp({"close", "unmark", "arm", "disarm"})
      BY DEF OfOp, OnProc
    <2>2. QED  BY <1>1, <2>1 DEF Free
  <1>4. OnSide("mark", s) \notin OfOp({"close", "unmark", "arm", "disarm"})
    BY DEF OfOp, OnSide
  <1>5. \A r \in Sides : OnSide("mark", s) \notin Opens(r)
    BY DEF Opens, OnSide, OnProc
  <1>6. \A r \in Sides : r # s => Free(c, Opens(r))
    <2>1. \A p, q : \A r \in Sides : r # s => OnProc("open", s, q) # OnProc("open", r, p)
      BY DEF OnProc
    <2>2. \A q : \A r \in Sides : r # s => OnProc("open", s, q) \notin Opens(r)
      BY <2>1 DEF Opens
    <2>3. QED  BY <1>1, <2>2 DEF Free
  <1>7. /\ m \o c \in Seq(Stores)
        /\ Free(m \o c, OfOp({"close", "unmark", "arm", "disarm"}))
        /\ \A r \in Sides : r # s => Free(m \o c, Opens(r))
        /\ GuardedBy(m \o c, Opens(s), OnSide("mark", s))
        /\ \A p \in ProcsOf(s) : Has(m \o c, OnProc("open", s, p))
    <2>1. /\ m \o c \in Seq(Stores)
          /\ \A b : Has(m, b) \/ Has(c, b) => Has(m \o c, b)
          /\ \A A : Free(m, A) /\ Free(c, A) => Free(m \o c, A)
          /\ \A A, b : GuardedBy(m, A, b) /\ (Has(m, b) \/ GuardedBy(c, A, b)) => GuardedBy(m \o c, A, b)
      BY <1>1, <1>2, Appended
    <2>2. QED  BY <1>1, <1>2, <1>3, <1>4, <1>5, <1>6, <2>1
  <1>8. CASE k[s] = "spdk"
    BY <1>7, <1>8 DEF GateSteps, c, m
  <1>9. CASE k[s] # "spdk"
    <2>1. GateSteps(k, s) = <<>>
      BY <1>9 DEF GateSteps
    <2>2. /\ <<>> \in Seq(Stores) /\ \A A : Free(<<>>, A) /\ \A b : GuardedBy(<<>>, A, b)
      BY DEF Free, GuardedBy
    <2>3. QED  BY <1>9, <2>1, <2>2
  <1>10. QED  BY <1>8, <1>9

\* Four calls one after another: each is guarded by itself or by one before it.
GuardedInTurn(s1, s2, s3, s4, A, b) ==
  /\ GuardedBy(s1, A, b)
  /\ Has(s1, b) \/ GuardedBy(s2, A, b)
  /\ Has(s1, b) \/ Has(s2, b) \/ GuardedBy(s3, A, b)
  /\ Has(s1, b) \/ Has(s2, b) \/ Has(s3, b) \/ GuardedBy(s4, A, b)

\* What holds of four calls holds of their stores in a row.
LEMMA AppendedFour ==
  ASSUME NEW X, NEW s1 \in Seq(X), NEW s2 \in Seq(X), NEW s3 \in Seq(X), NEW s4 \in Seq(X)
  PROVE  /\ s1 \o s2 \o s3 \o s4 \in Seq(X)
         /\ \A b : Has(s1, b) \/ Has(s2, b) \/ Has(s3, b) \/ Has(s4, b) => Has(s1 \o s2 \o s3 \o s4, b)
         /\ \A A : Free(s1, A) /\ Free(s2, A) /\ Free(s3, A) /\ Free(s4, A)
                     => Free(s1 \o s2 \o s3 \o s4, A)
         /\ \A A, b :
                GuardedInTurn(s1, s2, s3, s4, A, b) => GuardedBy(s1 \o s2 \o s3 \o s4, A, b)
  <1> DEFINE x == s1 \o s2
             y == x \o s3
             z == y \o s4
  <1>1. /\ x \in Seq(X)
        /\ \A b : Has(s1, b) \/ Has(s2, b) => Has(x, b)
        /\ \A A : Free(s1, A) /\ Free(s2, A) => Free(x, A)
        /\ \A A, b : GuardedBy(s1, A, b) /\ (Has(s1, b) \/ GuardedBy(s2, A, b)) => GuardedBy(x, A, b)
    BY Appended
  <1> HIDE DEF x
  <1>2. /\ y \in Seq(X)
        /\ \A b : Has(x, b) \/ Has(s3, b) => Has(y, b)
        /\ \A A : Free(x, A) /\ Free(s3, A) => Free(y, A)
        /\ \A A, b : GuardedBy(x, A, b) /\ (Has(x, b) \/ GuardedBy(s3, A, b)) => GuardedBy(y, A, b)
    BY <1>1, Appended
  <1> HIDE DEF y
  <1>3. /\ z \in Seq(X)
        /\ \A b : Has(y, b) \/ Has(s4, b) => Has(z, b)
        /\ \A A : Free(y, A) /\ Free(s4, A) => Free(z, A)
        /\ \A A, b : GuardedBy(y, A, b) /\ (Has(y, b) \/ GuardedBy(s4, A, b)) => GuardedBy(z, A, b)
    BY <1>2, Appended
  <1> HIDE DEF z
  <1>4. /\ z \in Seq(X)
        /\ \A b : Has(s1, b) \/ Has(s2, b) \/ Has(s3, b) \/ Has(s4, b) => Has(z, b)
        /\ \A A : Free(s1, A) /\ Free(s2, A) /\ Free(s3, A) /\ Free(s4, A) => Free(z, A)
    BY <1>1, <1>2, <1>3
  <1>5. \A A, b :
            GuardedInTurn(s1, s2, s3, s4, A, b) => GuardedBy(z, A, b)
    BY <1>1, <1>2, <1>3 DEF GuardedInTurn
  <1>6. QED  BY <1>4, <1>5 DEF x, y, z

\* The two sides, in the order of the table of objects.
LEMMA OrderIs ==
  ASSUME NEW k
  PROVE  /\ Order(k)[1] \in Sides /\ Order(k)[2] \in Sides /\ Order(k)[1] # Order(k)[2]
         /\ k["host"] = "spdk" /\ k["target"] = "spdk" => Order(k)[1] = "host" /\ Order(k)[2] = "target"
  BY DEF Order, Sides

\* What ntp_loader_open() stores: it takes nothing back, it opens no gate before
\* its object counts as gated and, with both sides in SPDK, no host's gate before
\* every target's.
LEMMA OpenStepsAre ==
  ASSUME IsFiniteSet(HostProcs), IsFiniteSet(TargetProcs), NEW k
  PROVE  /\ OpenSteps(k) \in Seq(Stores)
         /\ Free(OpenSteps(k), OfOp({"close", "unmark", "disarm"}))
         /\ \A s \in Sides : GuardedBy(OpenSteps(k), Opens(s), OnSide("mark", s))
         /\ k["host"] = "spdk" /\ k["target"] = "spdk" =>
              \A p \in TargetProcs : GuardedBy(OpenSteps(k), Opens("host"), OnProc("open", "target", p))
  <1> DEFINE o1 == Order(k)[1]
             o2 == Order(k)[2]
             s1 == Op("arm", o1)
             s2 == Op("arm", o2)
             s3 == GateSteps(k, o2)
             s4 == GateSteps(k, o1)
             z == s1 \o s2 \o s3 \o s4
  <1>1. /\ o1 \in Sides /\ o2 \in Sides /\ o1 # o2
        /\ k["host"] = "spdk" /\ k["target"] = "spdk" => o1 = "host" /\ o2 = "target"
    BY OrderIs
  <1> HIDE DEF o1, o2
  <1>2. /\ s1 \in Seq(Stores) /\ s2 \in Seq(Stores)
        /\ \A A : OnSide("arm", o1) \notin A => Free(s1, A)
        /\ \A A : OnSide("arm", o2) \notin A => Free(s2, A)
    BY <1>1, OpIs
  <1>3. \A s : \A r : OnSide("arm", s) \notin Opens(r)
    BY DEF OnSide, Opens, OnProc
  <1>4. \A s : OnSide("arm", s) \notin OfOp({"close", "unmark", "disarm"})
    BY DEF OnSide, OfOp
  <1>5. /\ s3 \in Seq(Stores) /\ s4 \in Seq(Stores)
        /\ Free(s3, OfOp({"close", "unmark", "arm", "disarm"}))
        /\ Free(s4, OfOp({"close", "unmark", "arm", "disarm"}))
        /\ Free(s3, Opens(o1)) /\ GuardedBy(s3, Opens(o2), OnSide("mark", o2))
        /\ Free(s4, Opens(o2)) /\ GuardedBy(s4, Opens(o1), OnSide("mark", o1))
        /\ k[o2] = "spdk" => \A p \in ProcsOf(o2) : Has(s3, OnProc("open", o2, p))
    BY <1>1, GateStepsAre
  <1>6. OfOp({"close", "unmark", "disarm"}) \subseteq OfOp({"close", "unmark", "arm", "disarm"})
    BY DEF OfOp
  <1> HIDE DEF s1, s2, s3, s4
  <1>7. /\ z \in Seq(Stores)
        /\ \A A : Free(s1, A) /\ Free(s2, A) /\ Free(s3, A) /\ Free(s4, A) => Free(z, A)
        /\ \A A, b :
               GuardedInTurn(s1, s2, s3, s4, A, b) => GuardedBy(z, A, b)
    BY <1>2, <1>5, AppendedFour
  <1> HIDE DEF z
  <1>8. Free(z, OfOp({"close", "unmark", "disarm"}))
    <2>1. Free(s3, OfOp({"close", "unmark", "disarm"})) /\ Free(s4, OfOp({"close", "unmark", "disarm"}))
      BY <1>5, <1>6 DEF Free
    <2>2. QED  BY <1>2, <1>4, <1>7, <2>1
  <1>9. \A r \in Sides : \A b : GuardedBy(s1, Opens(r), b) /\ GuardedBy(s2, Opens(r), b)
    BY <1>2, <1>3, FreeIsGuarded
  <1>10. /\ GuardedBy(z, Opens(o1), OnSide("mark", o1))
         /\ GuardedBy(z, Opens(o2), OnSide("mark", o2))
    <2>1. \A b : GuardedBy(s3, Opens(o1), b) /\ GuardedBy(s4, Opens(o2), b)
      BY <1>5, FreeIsGuarded
    <2>2. QED  BY <1>1, <1>5, <1>7, <1>9, <2>1 DEF GuardedInTurn
  <1>11. \A s \in Sides : s = o1 \/ s = o2
    BY <1>1 DEF Sides
  <1>12. ASSUME k["host"] = "spdk", k["target"] = "spdk", NEW p \in TargetProcs
         PROVE  GuardedBy(z, Opens("host"), OnProc("open", "target", p))
    <2>1. o1 = "host" /\ o2 = "target" /\ ProcsOf("target") = TargetProcs
      BY <1>1, <1>12 DEF ProcsOf
    <2>2. GuardedBy(s3, Opens("host"), OnProc("open", "target", p)) /\ Has(s3, OnProc("open", "target", p))
      BY <1>5, <1>12, <2>1, FreeIsGuarded
    <2>3. QED  BY <1>7, <1>9, <2>2 DEF Sides, GuardedInTurn
  <1>13. z = OpenSteps(k)
    BY DEF OpenSteps, z, s1, s2, s3, s4, o1, o2
  <1>14. QED  BY <1>7, <1>8, <1>10, <1>11, <1>12, <1>13

\* What ntp_loader_disarm() stores: it opens nothing, it tells the processes of an
\* object before the object is no longer gated and, with both sides in SPDK, it
\* closes the targets' gates after the host's object is no longer armed.
LEMMA DisarmIs ==
  ASSUME IsFiniteSet(HostProcs), IsFiniteSet(TargetProcs)
  PROVE  /\ ntp_loader_disarm \in Seq(Stores)
         /\ Free(ntp_loader_disarm, OfOp({"open", "mark", "arm"}))
         /\ \A s \in Sides : \A p \in ProcsOf(s) :
              GuardedBy(ntp_loader_disarm, {OnSide("unmark", s)}, OnProc("close", s, p))
         /\ Has(ntp_loader_disarm, OnSide("disarm", "host"))
         /\ kind["host"] = "spdk" /\ kind["target"] = "spdk" =>
              \A p : GuardedBy(ntp_loader_disarm, {OnProc("close", "target", p)}, OnSide("disarm", "host"))
  <1> DEFINE o1 == Order1
             o2 == Order2
             s1 == ungate(o1)
             s2 == Op("disarm", o1)
             s3 == ungate(o2)
             s4 == Op("disarm", o2)
             z == s1 \o s2 \o s3 \o s4
  <1>1. /\ o1 \in Sides /\ o2 \in Sides /\ o1 # o2
        /\ kind["host"] = "spdk" /\ kind["target"] = "spdk" => o1 = "host" /\ o2 = "target"
    BY OrderIs DEF Order1, Order2
  <1> HIDE DEF o1, o2
  <1>2. /\ s2 \in Seq(Stores) /\ s4 \in Seq(Stores)
        /\ \A A : OnSide("disarm", o1) \notin A => Free(s2, A)
        /\ \A A : OnSide("disarm", o2) \notin A => Free(s4, A)
        /\ Has(s2, OnSide("disarm", o1)) /\ Has(s4, OnSide("disarm", o2))
    BY <1>1, OpIs
  <1>3. /\ s1 \in Seq(Stores) /\ s3 \in Seq(Stores)
        /\ Free(s1, OfOp({"open", "mark", "arm", "disarm"}))
        /\ Free(s3, OfOp({"open", "mark", "arm", "disarm"}))
        /\ Free(s1, {OnSide("unmark", o2)}) /\ Free(s3, {OnSide("unmark", o1)})
        /\ \A p \in ProcsOf(o1) : GuardedBy(s1, {OnSide("unmark", o1)}, OnProc("close", o1, p))
        /\ \A p \in ProcsOf(o2) : GuardedBy(s3, {OnSide("unmark", o2)}, OnProc("close", o2, p))
        /\ \A p : Free(s1, {OnProc("close", r, p) : r \in Sides \ {o1}})
    BY <1>1, UngateIs
  <1>4. /\ \A s : OnSide("disarm", s) \notin OfOp({"open", "mark", "arm"})
        /\ \A s, r : OnSide("disarm", s) \notin {OnSide("unmark", r)}
        /\ \A s, p : OnSide("disarm", s) \notin {OnProc("close", "target", p)}
        /\ OfOp({"open", "mark", "arm"}) \subseteq OfOp({"open", "mark", "arm", "disarm"})
    BY DEF OnSide, OnProc, OfOp
  <1> HIDE DEF s1, s2, s3, s4
  <1>5. /\ z \in Seq(Stores)
        /\ \A b : Has(s1, b) \/ Has(s2, b) \/ Has(s3, b) \/ Has(s4, b) => Has(z, b)
        /\ \A A : Free(s1, A) /\ Free(s2, A) /\ Free(s3, A) /\ Free(s4, A) => Free(z, A)
        /\ \A A, b : GuardedInTurn(s1, s2, s3, s4, A, b) => GuardedBy(z, A, b)
    BY <1>2, <1>3, AppendedFour
  <1> HIDE DEF z
  <1>6. Free(z, OfOp({"open", "mark", "arm"}))
    <2>1. Free(s1, OfOp({"open", "mark", "arm"})) /\ Free(s3, OfOp({"open", "mark", "arm"}))
      BY <1>3, <1>4 DEF Free
    <2>2. QED  BY <1>2, <1>4, <1>5, <2>1
  <1>7. \A s \in Sides : s = o1 \/ s = o2
    BY <1>1 DEF Sides
  <1>8. \A s \in Sides : \A p \in ProcsOf(s) : GuardedBy(z, {OnSide("unmark", s)}, OnProc("close", s, p))
    <2>1. \A s, b : GuardedBy(s2, {OnSide("unmark", s)}, b) /\ GuardedBy(s4, {OnSide("unmark", s)}, b)
      BY <1>2, <1>4, FreeIsGuarded
    <2>2. \A b : GuardedBy(s1, {OnSide("unmark", o2)}, b) /\ GuardedBy(s3, {OnSide("unmark", o1)}, b)
      BY <1>3, FreeIsGuarded
    <2>3. ASSUME NEW p \in ProcsOf(o1) PROVE GuardedBy(z, {OnSide("unmark", o1)}, OnProc("close", o1, p))
      BY <1>3, <1>5, <2>1, <2>2 DEF GuardedInTurn
    <2>4. ASSUME NEW p \in ProcsOf(o2) PROVE GuardedBy(z, {OnSide("unmark", o2)}, OnProc("close", o2, p))
      BY <1>3, <1>5, <2>1, <2>2 DEF GuardedInTurn
    <2>5. QED  BY <1>7, <2>3, <2>4
  <1>9. Has(z, OnSide("disarm", "host"))
    BY <1>2, <1>5, <1>7 DEF Sides
  <1>10. ASSUME kind["host"] = "spdk", kind["target"] = "spdk", NEW p
         PROVE  GuardedBy(z, {OnProc("close", "target", p)}, OnSide("disarm", "host"))
    <2>1. o1 = "host" /\ o2 = "target"
      BY <1>1, <1>10
    <2>2. Free(s1, {OnProc("close", "target", p)})
      <3>1. OnProc("close", "target", p) \in {OnProc("close", r, p) : r \in Sides \ {o1}}
        BY <2>1 DEF Sides
      <3>2. QED  BY <1>3, <3>1 DEF Free
    <2>3. Free(s2, {OnProc("close", "target", p)}) /\ Has(s2, OnSide("disarm", "host"))
      BY <1>2, <1>4, <2>1
    <2>4. /\ GuardedBy(s1, {OnProc("close", "target", p)}, OnSide("disarm", "host"))
          /\ GuardedBy(s2, {OnProc("close", "target", p)}, OnSide("disarm", "host"))
      BY <2>2, <2>3, FreeIsGuarded
    <2>5. QED  BY <1>5, <2>3, <2>4 DEF GuardedInTurn
  <1>11. z = ntp_loader_disarm
    BY DEF ntp_loader_disarm, z, s1, s2, s3, s4, o1, o2
  <1>12. QED  BY <1>5, <1>6, <1>8, <1>9, <1>10, <1>11

\* What ntp_loader_close() stores: every object that is gated is ungated.
LEMMA CloseIs ==
  ASSUME IsFiniteSet(HostProcs), IsFiniteSet(TargetProcs)
  PROVE  /\ ntp_loader_close \in Seq(Stores)
         /\ Free(ntp_loader_close, OfOp({"open", "mark", "arm"}))
         /\ \A s \in Sides : \A p \in ProcsOf(s) :
              GuardedBy(ntp_loader_close, {OnSide("unmark", s)}, OnProc("close", s, p))
         /\ \A s \in Sides : gated[s] => Has(ntp_loader_close, OnSide("unmark", s))
  <1> DEFINE o1 == Order1
             o2 == Order2
             s1 == ungate(o1)
             s3 == ungate(o2)
             z == s1 \o s3
  <1>1. o1 \in Sides /\ o2 \in Sides /\ o1 # o2
    BY OrderIs DEF Order1, Order2
  <1> HIDE DEF o1, o2
  <1>3. /\ s1 \in Seq(Stores) /\ s3 \in Seq(Stores)
        /\ Free(s1, OfOp({"open", "mark", "arm", "disarm"}))
        /\ Free(s3, OfOp({"open", "mark", "arm", "disarm"}))
        /\ Free(s1, {OnSide("unmark", o2)}) /\ Free(s3, {OnSide("unmark", o1)})
        /\ gated[o1] => Has(s1, OnSide("unmark", o1))
        /\ gated[o2] => Has(s3, OnSide("unmark", o2))
        /\ \A p \in ProcsOf(o1) : GuardedBy(s1, {OnSide("unmark", o1)}, OnProc("close", o1, p))
        /\ \A p \in ProcsOf(o2) : GuardedBy(s3, {OnSide("unmark", o2)}, OnProc("close", o2, p))
    BY <1>1, UngateIs
  <1>4. OfOp({"open", "mark", "arm"}) \subseteq OfOp({"open", "mark", "arm", "disarm"})
    BY DEF OfOp
  <1> HIDE DEF s1, s3
  <1>5. /\ z \in Seq(Stores)
        /\ \A b : Has(s1, b) \/ Has(s3, b) => Has(z, b)
        /\ \A A : Free(s1, A) /\ Free(s3, A) => Free(z, A)
        /\ \A A, b : GuardedBy(s1, A, b) /\ (Has(s1, b) \/ GuardedBy(s3, A, b)) => GuardedBy(z, A, b)
    BY <1>3, Appended
  <1> HIDE DEF z
  <1>6. Free(z, OfOp({"open", "mark", "arm"}))
    <2>1. Free(s1, OfOp({"open", "mark", "arm"})) /\ Free(s3, OfOp({"open", "mark", "arm"}))
      BY <1>3, <1>4 DEF Free
    <2>2. QED  BY <1>5, <2>1
  <1>7. \A s \in Sides : s = o1 \/ s = o2
    BY <1>1 DEF Sides
  <1>8. \A s \in Sides : \A p \in ProcsOf(s) : GuardedBy(z, {OnSide("unmark", s)}, OnProc("close", s, p))
    <2>1. \A b : GuardedBy(s1, {OnSide("unmark", o2)}, b) /\ GuardedBy(s3, {OnSide("unmark", o1)}, b)
      BY <1>3, FreeIsGuarded
    <2>2. ASSUME NEW p \in ProcsOf(o1) PROVE GuardedBy(z, {OnSide("unmark", o1)}, OnProc("close", o1, p))
      BY <1>3, <1>5, <2>1
    <2>3. ASSUME NEW p \in ProcsOf(o2) PROVE GuardedBy(z, {OnSide("unmark", o2)}, OnProc("close", o2, p))
      BY <1>3, <1>5, <2>1
    <2>4. QED  BY <1>7, <2>2, <2>3
  <1>9. \A s \in Sides : gated[s] => Has(z, OnSide("unmark", s))
    BY <1>3, <1>5, <1>7
  <1>10. z = ntp_loader_close
    BY DEF ntp_loader_close, z, s1, s3, o1, o2
  <1>11. QED  BY <1>5, <1>6, <1>8, <1>9, <1>10

-----------------------------------------------------------------------------
(* Sampling is taken back.                                                  *)

\* What is still to be stored, and which gates are open.  A gate that ntprof
\* opened belongs to an object that counts as gated, unless closing it failed; an
\* object counts as gated until all its processes were told; and closing tells
\* those of every object that is gated.
GateInv ==
  /\ TypeOK /\ todo \in Seq(Stores)
  /\ phase = "opening" => Free(todo, OfOp({"close", "unmark", "disarm"}))
  /\ phase # "opening" => Free(todo, OfOp({"open", "mark", "arm"}))
  /\ phase \in {"recording", "draining", "closed"} => todo = <<>>
  /\ \A s \in Sides : gated[s] \/ GuardedBy(todo, Opens(s), OnSide("mark", s))
  /\ \A s \in Sides : \A p \in ProcsOf(s) :
       ~ gate[p] \/ p \in stuck \/ GuardedBy(todo, {OnSide("unmark", s)}, OnProc("close", s, p))
  /\ \A p \in Procs : gate[p] => left[p] \/ p \in stuck \/ \E s \in Sides : p \in ProcsOf(s) /\ gated[s]
  /\ phase = "closing" => \A s \in Sides : gated[s] => Has(todo, OnSide("unmark", s))
  /\ phase = "closed" => \A s \in Sides : ~ gated[s]

\* The host's records may still reach the recorder.
Live == phase \in {"opening", "recording"} \/ (phase = "disarming" /\ armed["host"])

\* With both sides in SPDK: as long as the host may report, no host gate is open
\* without all target gates, and a command the host sampled finds them open.
TargetInv ==
  kind["host"] = "spdk" /\ kind["target"] = "spdk" /\ NoGateLeft =>
    /\ phase = "opening" => \A q \in TargetProcs :
         gate[q] \/ GuardedBy(todo, Opens("host"), OnProc("open", "target", q))
    /\ phase = "disarming" /\ armed["host"] =>
         /\ Has(todo, OnSide("disarm", "host"))
         /\ \A q : GuardedBy(todo, {OnProc("close", "target", q)}, OnSide("disarm", "host"))
    /\ phase = "draining" => ~ armed["host"]
    /\ Live => \A q \in TargetProcs :
         /\ \A p \in HostProcs : gate[p] => gate[q]
         /\ \A c \in Cmds : "host" \in sampled[c] => gate[q]
    /\ Live => \A c \in Cmds : "host" \in sampled[c] /\ path[c] \notin {"new", "host"}
                                 => "target" \in sampled[c]
    /\ \A c \in reported["host"] : "target" \in sampled[c]

\* Two stores are the same only if they do the same to the same.
LEMMA StoresDiffer ==
  /\ \A op1, op2, s1, s2 : OnSide(op1, s1) = OnSide(op2, s2) => op1 = op2 /\ s1 = s2
  /\ \A op1, op2, s1, s2, p1, p2 :
       OnProc(op1, s1, p1) = OnProc(op2, s2, p2) => op1 = op2 /\ s1 = s2 /\ p1 = p2
  /\ \A op1, op2, s1, s2, p : OnSide(op1, s1) # OnProc(op2, s2, p)
  <1>1. \A op1, op2, s1, s2 : OnSide(op1, s1) = OnSide(op2, s2) => op1 = op2 /\ s1 = s2
    BY DEF OnSide
  <1>2. \A op1, op2, s1, s2, p1, p2 :
          OnProc(op1, s1, p1) = OnProc(op2, s2, p2) => op1 = op2 /\ s1 = s2 /\ p1 = p2
    BY DEF OnProc
  <1>3. \A op1, op2, s1, s2, p : OnSide(op1, s1) # OnProc(op2, s2, p)
    <2> SUFFICES ASSUME NEW op1, NEW op2, NEW s1, NEW s2, NEW p, OnSide(op1, s1) = OnProc(op2, s2, p)
                 PROVE  FALSE
      OBVIOUS
    <2>1. "proc" \in DOMAIN OnProc(op2, s2, p) /\ "proc" \notin DOMAIN OnSide(op1, s1)
      BY DEF OnProc, OnSide
    <2>2. QED  BY <2>1
  <1>4. QED  BY <1>1, <1>2, <1>3

\* What the loader's next store changes.
StoreOnSide(s) ==
  \/ Head(todo) = OnSide("arm", s) /\ armed' = [armed EXCEPT ![s] = TRUE] /\ UNCHANGED <<gated, gate>>
  \/ Head(todo) = OnSide("disarm", s) /\ armed' = [armed EXCEPT ![s] = FALSE] /\ UNCHANGED <<gated, gate>>
  \/ Head(todo) = OnSide("mark", s) /\ gated' = [gated EXCEPT ![s] = TRUE] /\ UNCHANGED <<armed, gate>>
  \/ Head(todo) = OnSide("unmark", s) /\ gated' = [gated EXCEPT ![s] = FALSE] /\ UNCHANGED <<armed, gate>>
StoreOnProc(s, p) ==
  \/ Head(todo) = OnProc("open", s, p) /\ gate' = [gate EXCEPT ![p] = TRUE] /\ UNCHANGED <<armed, gated>>
  \/ Head(todo) = OnProc("close", s, p) /\ gate' = [gate EXCEPT ![p] = FALSE] /\ UNCHANGED <<armed, gated>>

\* The loader's next store (Store) changes one variable, in one place.
LEMMA StoreIs ==
  ASSUME todo \in Seq(Stores), Store
  PROVE  \/ \E s \in Sides : StoreOnSide(s)
         \/ \E s \in Sides : \E p \in ProcsOf(s) : StoreOnProc(s, p)
  <1> DEFINE o == Head(todo)
  <1>1. /\ todo # <<>> /\ o \in Stores
        /\ armed' = CASE o.op = "arm"    -> [armed EXCEPT ![o.side] = TRUE]
                      [] o.op = "disarm" -> [armed EXCEPT ![o.side] = FALSE]
                      [] OTHER           -> armed
        /\ gated' = CASE o.op = "mark"   -> [gated EXCEPT ![o.side] = TRUE]
                      [] o.op = "unmark" -> [gated EXCEPT ![o.side] = FALSE]
                      [] OTHER           -> gated
        /\ gate' = CASE o.op = "open"    -> [gate EXCEPT ![o.proc] = TRUE]
                     [] o.op = "close"   -> [gate EXCEPT ![o.proc] = FALSE]
                     [] OTHER            -> gate
    BY DEF Store
  <1> HIDE DEF o
  <1>2. CASE o \in [op : {"arm", "disarm", "mark", "unmark"}, side : Sides]
    <2>1. o = OnSide(o.op, o.side) /\ o.side \in Sides /\ o.op \in {"arm", "disarm", "mark", "unmark"}
      BY <1>2 DEF OnSide
    <2>2. StoreOnSide(o.side)
      BY <1>1, <2>1 DEF StoreOnSide, o
    <2>3. QED  BY <2>1, <2>2
  <1>3. CASE /\ o \in [op : {"open", "close"}, side : Sides, proc : Procs]
             /\ o.proc \in ProcsOf(o.side)
    <2>1. /\ o = OnProc(o.op, o.side, o.proc) /\ o.side \in Sides /\ o.op \in {"open", "close"}
      BY <1>3 DEF OnProc
    <2>2. StoreOnProc(o.side, o.proc)
      BY <1>1, <2>1 DEF StoreOnProc, o
    <2>3. QED  BY <1>3, <2>1, <2>2
  <1>4. QED  BY <1>1, <1>2, <1>3 DEF Stores

\* What it leaves: the rest of the call, in the same order.
LEMMA StoreLeaves ==
  ASSUME todo \in Seq(Stores), Store \/ CloseFails
  PROVE  /\ todo # <<>> /\ todo' = Tail(todo) /\ todo' \in Seq(Stores) /\ Head(todo) \in Stores
         /\ UNCHANGED <<kind, phase, path, sampled, reported, left>> /\ (Store => stuck' = stuck)
         /\ \A A : Free(todo, A) => Head(todo) \notin A /\ Free(todo', A)
         /\ \A A, b : GuardedBy(todo, A, b) =>
              Head(todo) \notin A /\ (Head(todo) # b => GuardedBy(todo', A, b))
         /\ \A b : Has(todo, b) /\ Head(todo) # b => Has(todo', b)
  <1>1. /\ todo # <<>> /\ todo' = Tail(todo) /\ UNCHANGED <<kind, phase, path, sampled, reported, left>>
        /\ Store => stuck' = stuck
    BY DEF Store, CloseFails
  <1>2. todo' \in Seq(Stores) /\ Head(todo) \in Stores
    BY <1>1
  <1>3. \A A : Free(todo, A) => Head(todo) \notin A /\ Free(todo', A)
    BY <1>1, FreeTail
  <1>4. \A A, b : GuardedBy(todo, A, b) =>
          Head(todo) \notin A /\ (Head(todo) # b => GuardedBy(todo', A, b))
    BY <1>1, GuardedTail
  <1>5. \A b : Has(todo, b) /\ Head(todo) # b => Has(todo', b)
    BY <1>1, HasTail
  <1>6. QED  BY <1>1, <1>2, <1>3, <1>4, <1>5

\* A store keeps the types.
LEMMA StoreTypes ==
  ASSUME TypeOK, todo \in Seq(Stores), Store
  PROVE  TypeOK'
  <1>1. /\ kind \in [Sides -> {"kernel", "spdk"}] /\ armed \in [Sides -> BOOLEAN]
        /\ gated \in [Sides -> BOOLEAN] /\ gate \in [Procs -> BOOLEAN]
    BY DEF TypeOK
  <1>2. /\ armed' \in [Sides -> BOOLEAN] /\ gated' \in [Sides -> BOOLEAN]
        /\ gate' \in [Procs -> BOOLEAN]
    <2>1. CASE \E s \in Sides : StoreOnSide(s)
      BY <1>1, <2>1 DEF StoreOnSide
    <2>2. CASE \E s \in Sides : \E p \in ProcsOf(s) : StoreOnProc(s, p)
      BY <1>1, <2>2 DEF StoreOnProc
    <2>3. QED  BY <2>1, <2>2, StoreIs
  <1>3. UNCHANGED <<kind, phase, path, sampled, reported, left, stuck>>
    BY StoreLeaves
  <1>4. QED  BY <1>2, <1>3 DEF TypeOK

\* Every store of ntp_loader_open(), _disarm() and _close() keeps the invariant: a
\* gate is opened only in a gated object and an object is ungated only once its
\* processes' gates are closed.
LEMMA StoreKeepsGates ==
  ASSUME GateInv, Store  PROVE GateInv'
  <1> DEFINE o == Head(todo)
  <1>1. /\ TypeOK /\ todo \in Seq(Stores)
        /\ gated \in [Sides -> BOOLEAN] /\ gate \in [Procs -> BOOLEAN]
    BY DEF GateInv, TypeOK
  <1>2. /\ todo # <<>> /\ todo' \in Seq(Stores) /\ phase' = phase /\ left' = left /\ stuck' = stuck
        /\ \A A : Free(todo, A) => o \notin A /\ Free(todo', A)
        /\ \A A, b : GuardedBy(todo, A, b) => o \notin A /\ (o # b => GuardedBy(todo', A, b))
        /\ \A b : Has(todo, b) /\ o # b => Has(todo', b)
    BY <1>1, StoreLeaves
  <1>3. phase \notin {"recording", "draining", "closed"}
    BY <1>2 DEF GateInv
  <1>4. /\ phase = "opening" => o \notin OfOp({"close", "unmark", "disarm"})
                                /\ Free(todo', OfOp({"close", "unmark", "disarm"}))
        /\ phase # "opening" => o \notin OfOp({"open", "mark", "arm"})
                                /\ Free(todo', OfOp({"open", "mark", "arm"}))
    BY <1>2 DEF GateInv
  <1>5. /\ \A s \in Sides : gated[s] \/ GuardedBy(todo, Opens(s), OnSide("mark", s))
        /\ \A s \in Sides : \A p \in ProcsOf(s) :
             ~ gate[p] \/ p \in stuck \/ GuardedBy(todo, {OnSide("unmark", s)}, OnProc("close", s, p))
        /\ \A p \in Procs : gate[p] => left[p] \/ p \in stuck \/ \E s \in Sides : p \in ProcsOf(s) /\ gated[s]
        /\ phase = "closing" => \A s \in Sides : gated[s] => Has(todo, OnSide("unmark", s))
    BY DEF GateInv
  <1>6. TypeOK'
    BY <1>1, StoreTypes
  <1>7. \A s \in Sides : ProcsOf(s) \subseteq Procs
    BY DEF ProcsOf, Procs
  <1>8. /\ \A s \in Sides : OnSide("unmark", s) \in OfOp({"close", "unmark", "disarm"})
        /\ \A s \in Sides : \A p \in ProcsOf(s) : OnProc("open", s, p) \in OfOp({"open", "mark", "arm"})
    BY <1>7 DEF OfOp, Stores, OnSide, OnProc
  <1> HIDE DEF o
  <1>9. CASE UNCHANGED <<gated, gate>> /\ (\A s \in Sides : \A p : /\ o # OnSide("mark", s)
                                                              /\ o # OnSide("unmark", s)
                                                              /\ o # OnProc("close", s, p))
    <2>1. \A s \in Sides : gated'[s] \/ GuardedBy(todo', Opens(s), OnSide("mark", s))
      BY <1>2, <1>5, <1>9
    <2>2. \A s \in Sides : \A p \in ProcsOf(s) :
            ~ gate'[p] \/ p \in stuck' \/ GuardedBy(todo', {OnSide("unmark", s)}, OnProc("close", s, p))
      BY <1>2, <1>5, <1>9
    <2>3. \A p \in Procs : gate'[p] => left'[p] \/ p \in stuck' \/ \E s \in Sides : p \in ProcsOf(s) /\ gated'[s]
      BY <1>2, <1>5, <1>9
    <2>4. phase' = "closing" => \A s \in Sides : gated'[s] => Has(todo', OnSide("unmark", s))
      BY <1>2, <1>5, <1>9
    <2>5. QED  BY <1>2, <1>3, <1>4, <1>6, <2>1, <2>2, <2>3, <2>4 DEF GateInv
  <1>10. ASSUME NEW r \in Sides, o = OnSide("mark", r), gated' = [gated EXCEPT ![r] = TRUE], gate' = gate
         PROVE  GateInv'
    <2>0. /\ \A s \in Sides : s # r => gated'[s] = gated[s] /\ o # OnSide("mark", s)
          /\ gated'[r] = TRUE
          /\ \A s \in Sides : \A p : o # OnSide("unmark", s) /\ o # OnProc("close", s, p)
      BY <1>1, <1>10, StoresDiffer
    <2>1. \A s \in Sides : gated'[s] \/ GuardedBy(todo', Opens(s), OnSide("mark", s))
      BY <1>2, <1>5, <2>0
    <2>2. \A s \in Sides : \A p \in ProcsOf(s) :
            ~ gate'[p] \/ p \in stuck' \/ GuardedBy(todo', {OnSide("unmark", s)}, OnProc("close", s, p))
      BY <1>2, <1>5, <1>10, <2>0
    <2>3. \A p \in Procs : gate'[p] => left'[p] \/ p \in stuck' \/ \E s \in Sides : p \in ProcsOf(s) /\ gated'[s]
      BY <1>2, <1>5, <1>10, <2>0
    <2>4. phase # "closing"
      <3>1. o \in OfOp({"open", "mark", "arm"})
        BY <1>10 DEF OfOp, Stores, OnSide
      <3>2. QED  BY <1>4, <3>1
    <2>5. QED  BY <1>2, <1>3, <1>4, <1>6, <2>1, <2>2, <2>3, <2>4 DEF GateInv
  <1>11. ASSUME NEW r \in Sides, o = OnSide("unmark", r), gated' = [gated EXCEPT ![r] = FALSE], gate' = gate
         PROVE  GateInv'
    <2>0. /\ \A s \in Sides : s # r => gated'[s] = gated[s] /\ o # OnSide("unmark", s)
          /\ gated'[r] = FALSE
          /\ \A s \in Sides : \A p : o # OnSide("mark", s) /\ o # OnProc("close", s, p)
      BY <1>1, <1>11, StoresDiffer
    <2>1. phase # "opening"
      BY <1>4, <1>8, <1>11
    <2>2. \A s \in Sides : gated'[s] \/ GuardedBy(todo', Opens(s), OnSide("mark", s))
      <3>1. \A s \in Sides : Free(todo', Opens(s))
        BY <1>4, <1>8, <2>1 DEF Free, Opens
      <3>2. QED  BY <3>1, FreeIsGuarded
    <2>3. \A s \in Sides : \A p \in ProcsOf(s) :
            ~ gate'[p] \/ p \in stuck' \/ GuardedBy(todo', {OnSide("unmark", s)}, OnProc("close", s, p))
      BY <1>2, <1>5, <1>11, <2>0
    <2>4. \A p \in ProcsOf(r) : ~ gate[p] \/ p \in stuck
      BY <1>2, <1>5, <1>11
    <2>5. \A p \in Procs : gate'[p] => left'[p] \/ p \in stuck' \/ \E s \in Sides : p \in ProcsOf(s) /\ gated'[s]
      BY <1>2, <1>5, <1>11, <2>0, <2>4
    <2>6. phase' = "closing" => \A s \in Sides : gated'[s] => Has(todo', OnSide("unmark", s))
      BY <1>2, <1>5, <2>0
    <2>7. QED  BY <1>2, <1>3, <1>4, <1>6, <2>2, <2>3, <2>5, <2>6 DEF GateInv
  <1>12. ASSUME NEW r \in Sides, NEW x \in ProcsOf(r), o = OnProc("open", r, x),
                gate' = [gate EXCEPT ![x] = TRUE], gated' = gated
         PROVE  GateInv'
    <2>0. /\ \A p \in Procs : p # x => gate'[p] = gate[p]
          /\ \A s \in Sides : \A p : /\ o # OnSide("mark", s) /\ o # OnSide("unmark", s)
                                     /\ o # OnProc("close", s, p)
      BY <1>1, <1>12, StoresDiffer
    <2>1. phase = "opening"
      BY <1>4, <1>8, <1>12
    <2>2. \A s \in Sides : gated'[s] \/ GuardedBy(todo', Opens(s), OnSide("mark", s))
      BY <1>2, <1>5, <1>12, <2>0
    <2>3. \A s \in Sides : Free(todo', {OnSide("unmark", s)})
      BY <1>4, <1>8, <2>1 DEF Free
    <2>4. \A s \in Sides : \A p : GuardedBy(todo', {OnSide("unmark", s)}, OnProc("close", s, p))
      BY <2>3, FreeIsGuarded
    <2>5. gated[r]
      <3>1. o \in Opens(r)
        BY <1>12 DEF Opens
      <3>2. QED  BY <1>2, <1>5, <3>1
    <2>6. \A p \in Procs : gate'[p] => left'[p] \/ p \in stuck' \/ \E s \in Sides : p \in ProcsOf(s) /\ gated'[s]
      BY <1>2, <1>5, <1>12, <2>0, <2>5
    <2>7. QED  BY <1>2, <1>3, <1>4, <1>6, <2>1, <2>2, <2>4, <2>6 DEF GateInv
  <1>13. ASSUME NEW r \in Sides, NEW x \in ProcsOf(r), o = OnProc("close", r, x),
                gate' = [gate EXCEPT ![x] = FALSE], gated' = gated
         PROVE  GateInv'
    <2>0. /\ \A p \in Procs : p # x => gate'[p] = gate[p]
          /\ gate'[x] = FALSE
          /\ \A s \in Sides : \A p : p # x => o # OnProc("close", s, p)
          /\ \A s \in Sides : o # OnSide("mark", s) /\ o # OnSide("unmark", s)
      BY <1>1, <1>7, <1>13, StoresDiffer
    <2>2. \A s \in Sides : gated'[s] \/ GuardedBy(todo', Opens(s), OnSide("mark", s))
      BY <1>2, <1>5, <1>13, <2>0
    <2>3. \A s \in Sides : \A p \in ProcsOf(s) :
            ~ gate'[p] \/ p \in stuck' \/ GuardedBy(todo', {OnSide("unmark", s)}, OnProc("close", s, p))
      BY <1>2, <1>5, <1>7, <2>0
    <2>4. \A p \in Procs : gate'[p] => left'[p] \/ p \in stuck' \/ \E s \in Sides : p \in ProcsOf(s) /\ gated'[s]
      BY <1>2, <1>5, <1>13, <2>0
    <2>5. phase' = "closing" => \A s \in Sides : gated'[s] => Has(todo', OnSide("unmark", s))
      BY <1>2, <1>5, <1>13, <2>0
    <2>6. QED  BY <1>2, <1>3, <1>4, <1>6, <2>2, <2>3, <2>4, <2>5 DEF GateInv
  <1>14. ASSUME NEW s \in Sides, StoreOnSide(s) PROVE GateInv'
    <2>1. CASE /\ o = OnSide("arm", s) \/ o = OnSide("disarm", s)
               /\ UNCHANGED <<gated, gate>>
      BY <1>9, <2>1, StoresDiffer
    <2>2. QED  BY <1>10, <1>11, <1>14, <2>1 DEF StoreOnSide, o
  <1>15. ASSUME NEW s \in Sides, NEW p \in ProcsOf(s), StoreOnProc(s, p) PROVE GateInv'
    BY <1>12, <1>13, <1>15 DEF StoreOnProc, o
  <1>16. QED  BY <1>1, <1>14, <1>15, StoreIs

\* A closing store that fails leaves its own process's gate, and no other.
LEMMA CloseFailsKeepsGates ==
  ASSUME GateInv, CloseFails  PROVE GateInv'
  <1> DEFINE o == Head(todo)
  <1>1. TypeOK /\ todo \in Seq(Stores)
    BY DEF GateInv
  <1>2. /\ todo # <<>> /\ todo' \in Seq(Stores) /\ o \in Stores
        /\ \A A : Free(todo, A) => o \notin A /\ Free(todo', A)
        /\ \A A, b : GuardedBy(todo, A, b) => o \notin A /\ (o # b => GuardedBy(todo', A, b))
        /\ \A b : Has(todo, b) /\ o # b => Has(todo', b)
    BY <1>1, StoreLeaves
  <1>3. /\ UNCHANGED <<kind, armed, gate, gated, phase, path, sampled, reported, left>>
        /\ o.op = "close" /\ stuck' = stuck \cup {o.proc}
    BY DEF CloseFails
  <1> HIDE DEF o
  <1>4. \E r \in Sides : \E x \in ProcsOf(r) : o = OnProc("close", r, x)
    <2>1. o \in [op : {"open", "close"}, side : Sides, proc : Procs] /\ o.proc \in ProcsOf(o.side)
      BY <1>2, <1>3 DEF Stores
    <2>2. o = OnProc("close", o.side, o.proc) /\ o.side \in Sides
      BY <1>3, <2>1 DEF OnProc
    <2>3. QED  BY <2>1, <2>2
  <1>5. PICK r \in Sides : \E x \in ProcsOf(r) : o = OnProc("close", r, x)
    BY <1>4
  <1>6. PICK x \in ProcsOf(r) : o = OnProc("close", r, x)
    BY <1>5
  <1>7. /\ stuck' = stuck \cup {x} /\ x \in Procs
        /\ \A s \in Sides : \A p : p # x => o # OnProc("close", s, p)
        /\ \A s \in Sides : o # OnSide("mark", s) /\ o # OnSide("unmark", s)
    <2>1. o.proc = x /\ x \in Procs
      BY <1>6 DEF OnProc, ProcsOf, Procs
    <2>2. QED  BY <1>3, <1>6, <2>1, StoresDiffer
  <1>8. TypeOK'
    BY <1>1, <1>3, <1>7 DEF TypeOK
  <1>9. phase \notin {"recording", "draining", "closed"}
    BY <1>2 DEF GateInv
  <1>10. /\ phase' = "opening" => Free(todo', OfOp({"close", "unmark", "disarm"}))
         /\ phase' # "opening" => Free(todo', OfOp({"open", "mark", "arm"}))
    BY <1>2, <1>3 DEF GateInv
  <1>11. \A s \in Sides : gated'[s] \/ GuardedBy(todo', Opens(s), OnSide("mark", s))
    BY <1>2, <1>3, <1>7 DEF GateInv
  <1>12. phase' = "closing" => \A s \in Sides : gated'[s] => Has(todo', OnSide("unmark", s))
    BY <1>2, <1>3, <1>7 DEF GateInv
  <1>13. \A s \in Sides : \A p \in ProcsOf(s) :
           ~ gate'[p] \/ p \in stuck' \/ GuardedBy(todo', {OnSide("unmark", s)}, OnProc("close", s, p))
    BY <1>2, <1>3, <1>7 DEF GateInv
  <1>14. \A p \in Procs : gate'[p] => left'[p] \/ p \in stuck' \/ \E s \in Sides : p \in ProcsOf(s) /\ gated'[s]
    BY <1>3, <1>7 DEF GateInv
  <1>15. phase' \notin {"recording", "draining", "closed"}
    BY <1>3, <1>9
  <1>16. QED  BY <1>2, <1>8, <1>10, <1>11, <1>12, <1>13, <1>14, <1>15 DEF GateInv

\* Before the first store no object is gated and no gate is open but the left ones.
LEMMA GateInit ==
  ASSUME IsFiniteSet(HostProcs), IsFiniteSet(TargetProcs), Init  PROVE GateInv
  <1>1. /\ phase = "opening" /\ todo = OpenSteps(kind) /\ gate = left
    BY DEF Init
  <1>2. TypeOK
    BY DEF Init, TypeOK, Paths
  <1>3. /\ todo \in Seq(Stores) /\ Free(todo, OfOp({"close", "unmark", "disarm"}))
        /\ \A s \in Sides : GuardedBy(todo, Opens(s), OnSide("mark", s))
    BY <1>1, OpenStepsAre
  <1>4. \A s \in Sides : \A p : GuardedBy(todo, {OnSide("unmark", s)}, OnProc("close", s, p))
    <2>1. \A s \in Sides : OnSide("unmark", s) \in OfOp({"close", "unmark", "disarm"})
      BY DEF OfOp, Stores, OnSide
    <2>2. \A s \in Sides : Free(todo, {OnSide("unmark", s)})
      BY <1>3, <2>1 DEF Free
    <2>3. QED  BY <2>2, FreeIsGuarded
  <1>5. QED  BY <1>1, <1>2, <1>3, <1>4 DEF GateInv

\* Taking sampling back is what is left to do, from whatever was gated.
LEMMA GateFailsKeepsGates ==
  ASSUME IsFiniteSet(HostProcs), IsFiniteSet(TargetProcs), GateInv,
         UNCHANGED <<kind, armed, gate, gated, path, sampled, reported, left, stuck>>,
         phase' \in {"disarming", "closing"},
         todo' = IF phase' = "disarming" THEN ntp_loader_disarm ELSE ntp_loader_close
  PROVE  GateInv'
  <1>1. /\ TypeOK
        /\ \A p \in Procs : gate[p] => left[p] \/ p \in stuck \/ \E s \in Sides : p \in ProcsOf(s) /\ gated[s]
    BY DEF GateInv
  <1>2. TypeOK'
    BY <1>1 DEF TypeOK
  <1>3. /\ todo' \in Seq(Stores) /\ Free(todo', OfOp({"open", "mark", "arm"}))
        /\ \A s \in Sides : \A p \in ProcsOf(s) :
             GuardedBy(todo', {OnSide("unmark", s)}, OnProc("close", s, p))
    BY DisarmIs, CloseIs
  <1>4. phase' = "closing" => \A s \in Sides : gated'[s] => Has(todo', OnSide("unmark", s))
    BY CloseIs
  <1>5. \A s \in Sides : GuardedBy(todo', Opens(s), OnSide("mark", s))
    <2>1. \A s \in Sides : Opens(s) \subseteq OfOp({"open", "mark", "arm"})
      BY DEF OfOp, Stores, Opens, OnProc, ProcsOf, Procs
    <2>2. \A s \in Sides : Free(todo', Opens(s))
      BY <1>3, <2>1 DEF Free
    <2>3. QED  BY <2>2, FreeIsGuarded
  <1>6. \A p \in Procs : gate'[p] => left'[p] \/ p \in stuck' \/ \E s \in Sides : p \in ProcsOf(s) /\ gated'[s]
    BY <1>1
  <1>7. QED  BY <1>2, <1>3, <1>4, <1>5, <1>6 DEF GateInv

\* The end of a call: nothing is left to store, and a loader that closed ungated all.
LEMMA NextPhaseKeepsGates ==
  ASSUME IsFiniteSet(HostProcs), IsFiniteSet(TargetProcs), GateInv, NextPhase
  PROVE  GateInv'
  <1>1. /\ todo = <<>> /\ UNCHANGED <<kind, armed, gate, gated, path, sampled, reported, left, stuck>>
    BY DEF NextPhase
  <1>2. CASE phase' \in {"disarming", "closing"}
    <2>1. todo' = IF phase' = "disarming" THEN ntp_loader_disarm ELSE ntp_loader_close
      BY <1>2 DEF NextPhase
    <2>2. QED  BY <1>1, <1>2, <2>1, GateFailsKeepsGates
  <1>3. CASE phase' \in {"recording", "draining", "closed"}
    <2>1. todo' = <<>>
      BY <1>3 DEF NextPhase
    <2>2. <<>> \in Seq(Stores) /\ \A A : Free(<<>>, A) /\ \A b : GuardedBy(<<>>, A, b)
      BY DEF Free, GuardedBy
    <2>3. phase' = "closed" => \A s \in Sides : ~ gated[s]
      <3>1. phase' = "closed" => phase = "closing"
        BY DEF NextPhase
      <3>2. \A b : ~ Has(<<>>, b)
        BY DEF Has
      <3>3. QED  BY <1>1, <3>1, <3>2 DEF GateInv
    <2>4. TypeOK'
      <3>1. TypeOK
        BY DEF GateInv
      <3>2. QED  BY <1>1, <1>3, <3>1 DEF TypeOK
    <2>5. \A p \in Procs : gate'[p] => left'[p] \/ p \in stuck' \/ \E s \in Sides : p \in ProcsOf(s) /\ gated'[s]
      BY <1>1 DEF GateInv
    <2>6. QED  BY <1>1, <1>3, <2>1, <2>2, <2>3, <2>4, <2>5 DEF GateInv
  <1>4. QED  BY <1>2, <1>3 DEF NextPhase

\* A command's steps, on either side.
Command ==
  \E c \in Cmds : \/ \E p \in HostProcs : HostBegin(c, p)
                  \/ \E p \in TargetProcs : TargetBegin(c, p)
                  \/ HostEnd(c)
                  \/ TargetEnd(c)

\* Commands touch neither the gates nor the loader.
LEMMA CommandKeepsGates ==
  ASSUME GateInv, Command  PROVE GateInv'
  <1>1. UNCHANGED <<kind, armed, gate, gated, phase, todo, left, stuck>>
    BY DEF Command, HostBegin, TargetBegin, HostEnd, TargetEnd, Enter, End
  <1>2. /\ path \in [Cmds -> Paths] /\ sampled \in [Cmds -> SUBSET Sides]
        /\ reported \in [Sides -> SUBSET Cmds]
    BY DEF GateInv, TypeOK
  <1>3. PICK c \in Cmds : \/ \E p \in HostProcs : HostBegin(c, p)
                          \/ \E p \in TargetProcs : TargetBegin(c, p)
                          \/ HostEnd(c)
                          \/ TargetEnd(c)
    BY DEF Command
  <1>4. ASSUME NEW s \in Sides, NEW p, Enter(s, c, p)
        PROVE  path' \in [Cmds -> Paths] /\ sampled' \in [Cmds -> SUBSET Sides] /\ reported' = reported
    BY <1>2, <1>4 DEF Enter, Paths, Sides
  <1>5. ASSUME NEW s \in Sides, NEW to \in Paths, End(s, c, to)
        PROVE  /\ path' \in [Cmds -> Paths] /\ sampled' = sampled
               /\ reported' \in [Sides -> SUBSET Cmds]
    BY <1>2, <1>5 DEF End
  <1>6. /\ path' \in [Cmds -> Paths] /\ sampled' \in [Cmds -> SUBSET Sides]
        /\ reported' \in [Sides -> SUBSET Cmds]
    <2>1. "host" \in Sides /\ "target" \in Sides /\ "endedHost" \in Paths /\ "endedTarget" \in Paths
          /\ "ended" \in Paths
      BY DEF Sides, Paths
    <2>2. QED  BY <1>2, <1>3, <1>4, <1>5, <2>1 DEF HostBegin, TargetBegin, HostEnd, TargetEnd
  <1>7. TypeOK'
    <2>1. TypeOK
      BY DEF GateInv
    <2>2. QED  BY <1>1, <1>6, <2>1 DEF TypeOK
  <1>8. QED  BY <1>1, <1>7 DEF GateInv

\* Every step keeps the invariant.
LEMMA GateNext ==
  ASSUME IsFiniteSet(HostProcs), IsFiniteSet(TargetProcs), GateInv, [Next]_gatingVars
  PROVE  GateInv'
  <1>1. CASE Store
    BY <1>1, StoreKeepsGates
  <1>2. CASE GateFails
    BY <1>2, GateFailsKeepsGates DEF GateFails
  <1>3. CASE NextPhase
    BY <1>3, NextPhaseKeepsGates
  <1>4. CASE Command
    BY <1>4, CommandKeepsGates
  <1>5. CASE UNCHANGED gatingVars
    <2>1. UNCHANGED <<kind, armed, gate, gated, phase, todo, path, sampled, reported, left, stuck>>
      BY <1>5 DEF gatingVars
    <2>2. QED  BY <2>1 DEF GateInv, TypeOK
  <1>6. CASE CloseFails
    BY <1>6, CloseFailsKeepsGates
  <1>7. QED  BY <1>1, <1>2, <1>3, <1>4, <1>5, <1>6 DEF Next, Command, Finished

\* When the loader has closed, however far ntp_loader_open() got and on whatever
\* way, no SPDK process samples because of this ntprof, but one whose own closing
\* store failed (loader.c's ungate() does not look).
THEOREM GatesAreRestored ==
  ASSUME IsFiniteSet(HostProcs), IsFiniteSet(TargetProcs)
  PROVE  Spec => []GatesRestored
  <1>1. Init => GateInv
    BY GateInit
  <1>2. GateInv /\ [Next]_gatingVars => GateInv'
    BY GateNext
  <1>3. GateInv => GatesRestored
    BY DEF GateInv, GatesRestored
  <1>4. QED  BY <1>1, <1>2, <1>3, PTL DEF Spec

-----------------------------------------------------------------------------
(* A host record has its target.                                            *)

\* Before the first store nothing is open, sampled or reported.
LEMMA TargetInit ==
  ASSUME IsFiniteSet(HostProcs), IsFiniteSet(TargetProcs), Init  PROVE TargetInv
  <1> SUFFICES ASSUME kind["host"] = "spdk", kind["target"] = "spdk", NoGateLeft
               PROVE  /\ \A q \in TargetProcs : GuardedBy(todo, Opens("host"), OnProc("open", "target", q))
                      /\ \A p \in HostProcs : ~ gate[p]
                      /\ \A c \in Cmds : "host" \notin sampled[c]
                      /\ reported["host"] = {}
    BY DEF Init, TargetInv
  <1>1. \A q \in TargetProcs : GuardedBy(todo, Opens("host"), OnProc("open", "target", q))
    BY OpenStepsAre DEF Init
  <1>2. \A p \in HostProcs : ~ gate[p]
    BY DEF Init, NoGateLeft, Procs
  <1>3. (\A c \in Cmds : "host" \notin sampled[c]) /\ reported["host"] = {}
    BY DEF Init, Sides
  <1>4. QED  BY <1>1, <1>2, <1>3

\* A store opens a host's gate only once every target's is open, and closes a
\* target's only once the host's object is disarmed.
LEMMA StoreKeepsTarget ==
  ASSUME HostProcs \cap TargetProcs = {}, GateInv, TargetInv, Store
  PROVE  TargetInv'
  <1> DEFINE o == Head(todo)
  <1>1. /\ todo \in Seq(Stores) /\ armed \in [Sides -> BOOLEAN] /\ gate \in [Procs -> BOOLEAN]
    BY DEF GateInv, TypeOK
  <1>2. /\ todo # <<>> /\ UNCHANGED <<kind, phase, path, sampled, reported, left>>
        /\ \A A : Free(todo, A) => o \notin A
        /\ \A A, b : GuardedBy(todo, A, b) => o \notin A /\ (o # b => GuardedBy(todo', A, b))
        /\ \A b : Has(todo, b) /\ o # b => Has(todo', b)
    BY <1>1, StoreLeaves
  <1>3. phase \notin {"recording", "draining", "closed"}
    BY <1>2 DEF GateInv
  <1>4. /\ phase = "opening" => o \notin OfOp({"close", "unmark", "disarm"})
        /\ phase # "opening" => o \notin OfOp({"open", "mark", "arm"})
    BY <1>2 DEF GateInv
  <1>5. /\ HostProcs \subseteq Procs /\ TargetProcs \subseteq Procs
        /\ ProcsOf("host") = HostProcs /\ ProcsOf("target") = TargetProcs
    BY DEF ProcsOf, Procs
  <1>6. /\ \A s \in Sides : \A p \in ProcsOf(s) : /\ OnProc("close", s, p) \in OfOp({"close", "unmark", "disarm"})
                                                  /\ OnProc("open", s, p) \in OfOp({"open", "mark", "arm"})
        /\ \A s \in Sides : OnSide("arm", s) \in OfOp({"open", "mark", "arm"})
    BY <1>5 DEF OfOp, Stores, OnSide, OnProc, Sides
  <1> SUFFICES ASSUME kind["host"] = "spdk", kind["target"] = "spdk", NoGateLeft
               PROVE  TargetInv'
    <2>1. (kind["host"] = "spdk" /\ kind["target"] = "spdk" /\ NoGateLeft)'
            <=> kind["host"] = "spdk" /\ kind["target"] = "spdk" /\ NoGateLeft
      BY <1>2 DEF NoGateLeft
    <2>2. QED  BY <2>1 DEF TargetInv
  <1>7. /\ phase = "opening" => \A q \in TargetProcs :
             gate[q] \/ GuardedBy(todo, Opens("host"), OnProc("open", "target", q))
        /\ phase = "disarming" /\ armed["host"] =>
             /\ Has(todo, OnSide("disarm", "host"))
             /\ \A q : GuardedBy(todo, {OnProc("close", "target", q)}, OnSide("disarm", "host"))
        /\ Live => \A q \in TargetProcs :
             /\ \A p \in HostProcs : gate[p] => gate[q]
             /\ \A c \in Cmds : "host" \in sampled[c] => gate[q]
        /\ Live => \A c \in Cmds : "host" \in sampled[c] /\ path[c] \notin {"new", "host"}
                                     => "target" \in sampled[c]
        /\ \A c \in reported["host"] : "target" \in sampled[c]
    BY DEF TargetInv
  <1> HIDE DEF o
  \* The object of the host is not armed again, and is disarmed by one store.
  <1>8. phase # "opening" /\ armed'["host"] => armed["host"] /\ o # OnSide("disarm", "host")
    <2>1. CASE \E s \in Sides : StoreOnSide(s)
      BY <1>1, <1>4, <1>6, <2>1, StoresDiffer DEF StoreOnSide, o, Sides
    <2>2. CASE \E s \in Sides : \E p \in ProcsOf(s) : StoreOnProc(s, p)
      BY <2>2, StoresDiffer DEF StoreOnProc, o
    <2>3. QED  BY <1>1, <2>1, <2>2, StoreIs
  <1>9. Live' => Live
    BY <1>2, <1>8 DEF Live
  \* No target's gate is closed.
  <1>10. Live' => \A q \in TargetProcs : gate[q] => gate'[q]
    <2> SUFFICES ASSUME Live', NEW q \in TargetProcs, gate[q] PROVE gate'[q]
      OBVIOUS
    <2>1. CASE \E s \in Sides : StoreOnSide(s)
      BY <2>1 DEF StoreOnSide
    <2>2. ASSUME NEW s \in Sides, NEW p \in ProcsOf(s), StoreOnProc(s, p) PROVE gate'[q]
      <3>1. CASE o = OnProc("open", s, p) /\ gate' = [gate EXCEPT ![p] = TRUE]
        BY <1>1, <1>5, <3>1
      <3>2. CASE o = OnProc("close", s, p) /\ gate' = [gate EXCEPT ![p] = FALSE]
        <4>1. phase = "disarming" /\ armed["host"]
          BY <1>2, <1>3, <1>4, <1>6, <1>9, <3>2 DEF Live
        <4>2. s # "target"
          BY <1>2, <1>7, <3>2, <4>1
        <4>3. p # q
          BY <1>5, <4>2 DEF Sides
        <4>4. QED  BY <1>1, <1>5, <3>2, <4>3
      <3>3. QED  BY <2>2, <3>1, <3>2 DEF StoreOnProc, o
    <2>3. QED  BY <1>1, <2>1, <2>2, StoreIs
  \* A host's gate is opened after the targets'.
  <1>11. Live' => \A p \in HostProcs : gate'[p] => gate[p] \/ \A q \in TargetProcs : gate[q]
    <2> SUFFICES ASSUME Live', NEW h \in HostProcs, gate'[h], ~ gate[h] PROVE \A q \in TargetProcs : gate[q]
      OBVIOUS
    <2>1. CASE \E s \in Sides : StoreOnSide(s)
      BY <2>1 DEF StoreOnSide
    <2>2. ASSUME NEW s \in Sides, NEW p \in ProcsOf(s), StoreOnProc(s, p) PROVE \A q \in TargetProcs : gate[q]
      <3>1. CASE o = OnProc("open", s, p) /\ gate' = [gate EXCEPT ![p] = TRUE]
        <4>1. p = h
          BY <1>1, <1>5, <3>1
        <4>2. s = "host"
          BY <1>5, <4>1 DEF Sides
        <4>3. phase = "opening"
          BY <1>4, <1>6, <3>1
        <4>4. o \in Opens("host")
          BY <1>5, <3>1, <4>1, <4>2 DEF Opens
        <4>5. QED  BY <1>2, <1>7, <4>3, <4>4
      <3>2. CASE o = OnProc("close", s, p) /\ gate' = [gate EXCEPT ![p] = FALSE]
        BY <1>1, <1>5, <3>2
      <3>3. QED  BY <2>2, <3>1, <3>2 DEF StoreOnProc, o
    <2>3. QED  BY <1>1, <2>1, <2>2, StoreIs
  <1>12. phase' = "opening" => \A q \in TargetProcs :
           gate'[q] \/ GuardedBy(todo', Opens("host"), OnProc("open", "target", q))
    <2> SUFFICES ASSUME phase = "opening", NEW q \in TargetProcs, ~ gate'[q]
                 PROVE  GuardedBy(todo', Opens("host"), OnProc("open", "target", q))
      BY <1>2
    <2>1. ~ gate[q]
      BY <1>2, <1>10 DEF Live
    <2>2. o # OnProc("open", "target", q)
      <3>1. CASE \E s \in Sides : StoreOnSide(s)
        <4>1. PICK op, s : o = OnSide(op, s)
          BY <3>1 DEF StoreOnSide, o
        <4>2. QED  BY <4>1, StoresDiffer
      <3>2. CASE \E s \in Sides : \E p \in ProcsOf(s) : StoreOnProc(s, p)
        BY <1>1, <1>5, <3>2, StoresDiffer DEF StoreOnProc, o
      <3>3. QED  BY <1>1, <3>1, <3>2, StoreIs
    <2>3. QED  BY <1>2, <1>7, <2>1, <2>2
  <1>13. phase' = "disarming" /\ armed'["host"] =>
           /\ Has(todo', OnSide("disarm", "host"))
           /\ \A q : GuardedBy(todo', {OnProc("close", "target", q)}, OnSide("disarm", "host"))
    BY <1>2, <1>7, <1>8
  <1>14. Live' => \A q \in TargetProcs :
           /\ \A p \in HostProcs : gate'[p] => gate'[q]
           /\ \A c \in Cmds : "host" \in sampled'[c] => gate'[q]
    BY <1>2, <1>7, <1>9, <1>10, <1>11
  <1>15. /\ Live' => \A c \in Cmds : "host" \in sampled'[c] /\ path'[c] \notin {"new", "host"}
                                       => "target" \in sampled'[c]
         /\ \A c \in reported'["host"] : "target" \in sampled'[c]
         /\ phase' # "draining"
    BY <1>2, <1>3, <1>7, <1>9
  <1>16. QED  BY <1>12, <1>13, <1>14, <1>15 DEF TargetInv

\* A closing store that fails closes no target's gate.
LEMMA CloseFailsKeepsTarget ==
  ASSUME GateInv, TargetInv, CloseFails  PROVE TargetInv'
  <1> DEFINE o == Head(todo)
  <1>1. todo \in Seq(Stores)
    BY DEF GateInv
  <1>2. /\ o \in Stores
        /\ \A A : Free(todo, A) => o \notin A
        /\ \A A, b : GuardedBy(todo, A, b) => o \notin A /\ (o # b => GuardedBy(todo', A, b))
        /\ \A b : Has(todo, b) /\ o # b => Has(todo', b)
    BY <1>1, StoreLeaves
  <1>3. /\ UNCHANGED <<kind, armed, gate, gated, phase, path, sampled, reported, left>>
        /\ o.op = "close"
    BY DEF CloseFails
  <1> HIDE DEF o
  <1>4. phase # "opening" /\ o # OnSide("disarm", "host")
    <2>1. o \in OfOp({"close", "unmark", "disarm"})
      BY <1>2, <1>3 DEF OfOp
    <2>2. phase # "opening"
      BY <1>2, <2>1 DEF GateInv
    <2>3. OnSide("disarm", "host").op = "disarm"
      BY DEF OnSide
    <2>4. QED  BY <1>3, <2>2, <2>3
  <1>5. phase = "disarming" /\ armed["host"] /\ Has(todo, OnSide("disarm", "host"))
          => Has(todo', OnSide("disarm", "host"))
    BY <1>2, <1>4
  <1>6. \A q : GuardedBy(todo, {OnProc("close", "target", q)}, OnSide("disarm", "host"))
                => GuardedBy(todo', {OnProc("close", "target", q)}, OnSide("disarm", "host"))
    BY <1>2, <1>4
  <1>7. (Live' <=> Live) /\ (NoGateLeft' <=> NoGateLeft)
    BY <1>3 DEF Live, NoGateLeft
  <1>8. QED  BY <1>3, <1>4, <1>5, <1>6, <1>7 DEF TargetInv

\* The end of a call finds the host's object disarmed before the buffer is drained.
LEMMA NextPhaseKeepsTarget ==
  ASSUME IsFiniteSet(HostProcs), IsFiniteSet(TargetProcs), GateInv, TargetInv,
         UNCHANGED <<kind, armed, gate, gated, path, sampled, reported, left, stuck>>,
         GateFails \/ NextPhase
  PROVE  TargetInv'
  <1>1. (kind["host"] = "spdk" /\ kind["target"] = "spdk" /\ NoGateLeft)'
          <=> kind["host"] = "spdk" /\ kind["target"] = "spdk" /\ NoGateLeft
    BY DEF NoGateLeft
  <1> SUFFICES ASSUME kind["host"] = "spdk", kind["target"] = "spdk", NoGateLeft
               PROVE  TargetInv'
    BY <1>1 DEF TargetInv
  <1>2. /\ Live => \A q \in TargetProcs :
             /\ \A p \in HostProcs : gate[p] => gate[q]
             /\ \A c \in Cmds : "host" \in sampled[c] => gate[q]
        /\ Live => \A c \in Cmds : "host" \in sampled[c] /\ path[c] \notin {"new", "host"}
                                     => "target" \in sampled[c]
        /\ \A c \in reported["host"] : "target" \in sampled[c]
    BY DEF TargetInv
  <1>3. Live' => Live
    BY DEF Live, GateFails, NextPhase
  <1>4. phase' # "opening"
    BY DEF GateFails, NextPhase
  <1>5. phase' = "disarming" => todo' = ntp_loader_disarm
    BY DEF GateFails, NextPhase
  <1>6. phase' = "disarming" =>
          /\ Has(todo', OnSide("disarm", "host"))
          /\ \A q : GuardedBy(todo', {OnProc("close", "target", q)}, OnSide("disarm", "host"))
    BY <1>5, DisarmIs
  <1>7. phase' = "draining" => ~ armed["host"]
    <2>1. phase' = "draining" => phase = "disarming" /\ todo = <<>>
      BY DEF GateFails, NextPhase
    <2>2. ~ Has(<<>>, OnSide("disarm", "host"))
      BY DEF Has
    <2>3. QED  BY <2>1, <2>2 DEF TargetInv
  <1>8. QED  BY <1>2, <1>3, <1>4, <1>6, <1>7 DEF TargetInv

\* A command the host samples finds every target's gate open, and its target's is
\* open when it gets there; the host reports it only while that holds.
LEMMA CommandKeepsTarget ==
  ASSUME GateInv, TargetInv, Command  PROVE TargetInv'
  <1>1. UNCHANGED <<kind, armed, gate, gated, phase, todo, left, stuck>>
    BY DEF Command, HostBegin, TargetBegin, HostEnd, TargetEnd, Enter, End
  <1>2. /\ path \in [Cmds -> Paths] /\ sampled \in [Cmds -> SUBSET Sides]
        /\ reported \in [Sides -> SUBSET Cmds]
        /\ phase \in {"opening", "recording", "disarming", "draining", "closing", "closed"}
    BY DEF GateInv, TypeOK
  <1>3. (kind["host"] = "spdk" /\ kind["target"] = "spdk" /\ NoGateLeft)'
          <=> kind["host"] = "spdk" /\ kind["target"] = "spdk" /\ NoGateLeft
    BY <1>1 DEF NoGateLeft
  <1> SUFFICES ASSUME kind["host"] = "spdk", kind["target"] = "spdk", NoGateLeft
               PROVE  TargetInv'
    BY <1>3 DEF TargetInv
  <1>4. /\ phase = "opening" => \A q \in TargetProcs :
             gate[q] \/ GuardedBy(todo, Opens("host"), OnProc("open", "target", q))
        /\ phase = "disarming" /\ armed["host"] =>
             /\ Has(todo, OnSide("disarm", "host"))
             /\ \A q : GuardedBy(todo, {OnProc("close", "target", q)}, OnSide("disarm", "host"))
        /\ phase = "draining" => ~ armed["host"]
    BY DEF TargetInv
  <1>5. /\ Live => \A q \in TargetProcs :
             /\ \A p \in HostProcs : gate[p] => gate[q]
             /\ \A c \in Cmds : "host" \in sampled[c] => gate[q]
        /\ Live => \A c \in Cmds : "host" \in sampled[c] /\ path[c] \notin {"new", "host"}
                                     => "target" \in sampled[c]
        /\ \A c \in reported["host"] : "target" \in sampled[c]
    BY DEF TargetInv
  <1>6. Live' <=> Live
    BY <1>1 DEF Live
  <1>7. PICK c \in Cmds : \/ \E p \in HostProcs : HostBegin(c, p)
                          \/ \E p \in TargetProcs : TargetBegin(c, p)
                          \/ HostEnd(c)
                          \/ TargetEnd(c)
    BY DEF Command
  <1> DEFINE Kept ==
        /\ Live => \A q \in TargetProcs : \A d \in Cmds : "host" \in sampled'[d] => gate[q]
        /\ Live => \A d \in Cmds : "host" \in sampled'[d] /\ path'[d] \notin {"new", "host"}
                                     => "target" \in sampled'[d]
        /\ \A d \in reported'["host"] : "target" \in sampled'[d]
  <1>8. ASSUME NEW p \in HostProcs, HostBegin(c, p) PROVE Kept
    <2>1. /\ path' = [path EXCEPT ![c] = "host"] /\ reported' = reported
          /\ sampled' = [sampled EXCEPT ![c] = IF gate[p] THEN sampled[c] \cup {"host"} ELSE sampled[c]]
      BY <1>8 DEF HostBegin, Enter, Samples
    <2>2. \A d \in Cmds : /\ sampled[d] \subseteq sampled'[d]
                          /\ d # c => sampled'[d] = sampled[d] /\ path'[d] = path[d]
      BY <1>2, <2>1
    <2>3. path'[c] = "host" /\ ("host" \in sampled'[c] => "host" \in sampled[c] \/ gate[p])
      BY <1>2, <2>1
    <2>4. reported["host"] \subseteq Cmds
      BY <1>2 DEF Sides
    <2>5. Live => \A q \in TargetProcs : \A d \in Cmds : "host" \in sampled'[d] => gate[q]
      BY <1>5, <2>2, <2>3
    <2>6. Live => \A d \in Cmds : "host" \in sampled'[d] /\ path'[d] \notin {"new", "host"}
                                    => "target" \in sampled'[d]
      BY <1>5, <2>2, <2>3
    <2>7. QED  BY <1>5, <2>1, <2>2, <2>4, <2>5, <2>6
  <1>9. ASSUME NEW p \in TargetProcs, TargetBegin(c, p) PROVE Kept
    <2>1. /\ path' = [path EXCEPT ![c] = "target"] /\ reported' = reported
          /\ sampled' = [sampled EXCEPT ![c] = IF gate[p] THEN sampled[c] \cup {"target"} ELSE sampled[c]]
      BY <1>9 DEF TargetBegin, Enter, Samples
    <2>2. \A d \in Cmds : /\ sampled[d] \subseteq sampled'[d]
                          /\ d # c => sampled'[d] = sampled[d] /\ path'[d] = path[d]
                          /\ "host" \in sampled'[d] => "host" \in sampled[d]
      BY <1>2, <2>1
    <2>3. gate[p] => "target" \in sampled'[c]
      BY <1>2, <2>1
    <2>4. reported["host"] \subseteq Cmds
      BY <1>2 DEF Sides
    <2>5. Live => \A d \in Cmds : "host" \in sampled'[d] /\ path'[d] \notin {"new", "host"}
                                    => "target" \in sampled'[d]
      BY <1>5, <2>2, <2>3
    <2>6. QED  BY <1>5, <2>1, <2>2, <2>4, <2>5
  <1>10. ASSUME NEW s \in Sides, NEW to \in Paths, End(s, c, to), path[c] \notin {"new", "host"} PROVE Kept
    <2>1. /\ path' = [path EXCEPT ![c] = to] /\ sampled' = sampled
          /\ reported' = IF Reports(s, c) /\ phase \notin {"closing", "closed"}
                           THEN [reported EXCEPT ![s] = reported[s] \cup {c}] ELSE reported
      BY <1>10 DEF End
    <2>2. \A d \in Cmds : d # c => path'[d] = path[d]
      BY <1>2, <2>1
    <2>3. Live => \A d \in Cmds : "host" \in sampled'[d] /\ path'[d] \notin {"new", "host"}
                                    => "target" \in sampled'[d]
      BY <1>5, <1>10, <2>1, <2>2
    <2>4. \A d \in reported'["host"] : "target" \in sampled'[d]
      <3>1. CASE s = "host" /\ Reports("host", c) /\ phase \notin {"closing", "closed"}
        <4>1. "host" \in sampled[c] /\ armed["host"]
          BY <3>1 DEF Reports
        <4>2. Live
          BY <1>2, <1>4, <3>1, <4>1 DEF Live
        <4>3. "target" \in sampled[c]
          BY <1>5, <1>10, <4>1, <4>2
        <4>4. reported'["host"] = reported["host"] \cup {c}
          BY <1>2, <2>1, <3>1 DEF Sides
        <4>5. QED  BY <1>5, <2>1, <4>3, <4>4
      <3>2. CASE ~ (s = "host" /\ Reports("host", c) /\ phase \notin {"closing", "closed"})
        <4>1. reported'["host"] = reported["host"]
          BY <1>2, <2>1, <3>2 DEF Sides
        <4>2. QED  BY <1>5, <2>1, <4>1
      <3>3. QED  BY <3>1, <3>2
    <2>5. QED  BY <1>5, <2>1, <2>3, <2>4
  <1>11. HostEnd(c) \/ TargetEnd(c) =>
           /\ path[c] \notin {"new", "host"}
           /\ \E s \in Sides : \E to \in Paths : End(s, c, to)
    BY DEF HostEnd, TargetEnd, Sides, Paths
  <1>12. Kept
    <2> HIDE DEF Kept
    <2>1. QED  BY <1>7, <1>8, <1>9, <1>10, <1>11
  <1>13. QED  BY <1>1, <1>4, <1>5, <1>6, <1>12 DEF TargetInv

\* Every step keeps the invariant.
LEMMA TargetNext ==
  ASSUME IsFiniteSet(HostProcs), IsFiniteSet(TargetProcs), HostProcs \cap TargetProcs = {},
         GateInv, TargetInv, [Next]_gatingVars
  PROVE  TargetInv'
  <1>1. CASE Store
    BY <1>1, StoreKeepsTarget
  <1>2. CASE GateFails \/ NextPhase
    <2>1. UNCHANGED <<kind, armed, gate, gated, path, sampled, reported, left, stuck>>
      BY <1>2 DEF GateFails, NextPhase
    <2>2. QED  BY <1>2, <2>1, NextPhaseKeepsTarget
  <1>3. CASE Command
    BY <1>3, CommandKeepsTarget
  <1>4. CASE UNCHANGED gatingVars
    <2>1. UNCHANGED <<kind, armed, gate, gated, phase, todo, path, sampled, reported, left, stuck>>
      BY <1>4 DEF gatingVars
    <2>2. QED  BY <2>1 DEF TargetInv, NoGateLeft, Live
  <1>5. CASE CloseFails
    BY <1>5, CloseFailsKeepsTarget
  <1>6. QED  BY <1>1, <1>2, <1>3, <1>4, <1>5 DEF Next, Command, Finished

\* With both sides in SPDK, in different processes, and no gate left open by
\* another ntprof, every host record that reaches the recorder is of a command
\* the target sampled (the order of the stores, src/loader.c:906-910).  A process
\* on both sides would break it: its one gate is opened with the targets'.
THEOREM HostRecordsHaveTarget ==
  ASSUME IsFiniteSet(HostProcs), IsFiniteSet(TargetProcs), HostProcs \cap TargetProcs = {}
  PROVE  Spec => []HostHasTarget
  <1>1. Init => GateInv /\ TargetInv
    BY GateInit, TargetInit
  <1>2. GateInv /\ TargetInv /\ [Next]_gatingVars => (GateInv /\ TargetInv)'
    BY GateNext, TargetNext
  <1>3. TargetInv => HostHasTarget
    BY DEF TargetInv, HostHasTarget
  <1>4. QED  BY <1>1, <1>2, <1>3, PTL DEF Spec
=============================================================================
