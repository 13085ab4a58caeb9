------------------------------- MODULE Loader -------------------------------
(***************************************************************************)
(* How ntprof puts its hooks in place and takes them away (src/loader.c):    *)
(* the BPF objects are opened one by one, each keeps the programs that fit    *)
(* this kernel (select_programs), SPDK's probes are attached in turn and the  *)
(* kernel's hooks from several threads (attach_all, parallel_for), and        *)
(* ntp_loader_close() destroys the links, again from several threads,         *)
(* whatever step failed.  Arming and the gates of SPDK are in Gating.tla.     *)
(***************************************************************************)
EXTENDS Naturals, Sequences, FiniteSets, SequencesExt

CONSTANTS
  Objs,        \* the wanted objects in order: [spdk: BOOLEAN, required: set of base names]
  Progs,       \* their programs, object by object: [obj, base, fl, sym]
  Fallbacks,   \* base name of a stand-in -> the function it stands in for
  ExactOnly,   \* base names used only with --exact-queues
  Files,       \* the files given for the SPDK roles
  Kernels,     \* the kernels ntprof meets: what /proc/kallsyms lists
  Configs,     \* the configurations
  LinkThreads  \* LINK_THREADS

Threads == 0..LinkThreads        \* 0 is the thread that calls parallel_for()
ProgIds == 1..Len(Progs)
Flavours == {"fentry", "kprobe", "usdt"}
Usdt(p) == Progs[p].fl = "usdt"
ProgsOf(o) == {p \in ProgIds : Progs[p].obj = o}
is_required(p) == Progs[p].base \in Objs[Progs[p].obj].required

\* A link: the program, and the file it is on if it is a USDT program.
KernelLink(p) == <<p, "kernel">>

VARIABLES
  ksyms,       \* the functions /proc/kallsyms has
  cfg,         \* [flavour: "any" if fentry_check() decides it, exact: --exact-queues,
               \*  skip: NTPROF_SKIP, modBtf: the objects whose module has BTF]
  checked,     \* choose_flavour()'s static: "none" until fentry_check() has answered
  phase,       \* where ntp_loader_open() or ntp_loader_close() is
  ninst,       \* objects opened
  autoload,    \* the programs left to load and attach
  cur,         \* the next object to open or close, or the next program of the USDT loop
  links,       \* object -> its links
  jobs,        \* the programs attach_all() attaches in parallel
  made,        \* job -> did bpf_program__attach() return a link?
  next,        \* pfor.next
  th,          \* thread -> [pc, i]
  stamp,       \* is the timestamp socket open?
  attached     \* the kernel's state: the attachments that are in place

loaderVars == <<ksyms, cfg, checked, phase, ninst, autoload, cur, links, jobs, made,
                next, th, stamp, attached>>

Off == [pc |-> "off", i |-> 0]

Init ==
  /\ ksyms \in Kernels /\ cfg \in Configs
  /\ checked = "none" /\ phase = "open" /\ ninst = 0
  /\ autoload = {} /\ cur = 1
  /\ links = [o \in DOMAIN Objs |-> <<>>]
  /\ jobs = <<>> /\ made = <<>>
  /\ next = 1 /\ th = [t \in Threads |-> Off]
  /\ stamp = FALSE /\ attached = {}

-----------------------------------------------------------------------------
\* choose_flavour() where its static `checked` is c; open_one() sets it from
\* fentry_check()'s answer, or its silence for FENTRY_CHECK_MS.
choose_flavour(c) == IF cfg.flavour # "any" THEN cfg.flavour ELSE c

object_flavour(o, c) ==
  IF ~Objs[o].spdk /\ o \notin cfg.modBtf THEN "kprobe" ELSE choose_flavour(c)

\* Mutant: a stand-in is loaded next to the hook it stands in for.
Deselected_Both(p, fl) ==
  \/ Progs[p].fl \in {"fentry", "kprobe"} /\ Progs[p].fl # fl
  \/ ~cfg.exact /\ Progs[p].base \in ExactOnly

\* Another flavour, an --exact-queues hook, or a stand-in that is not needed.
Deselected(p, fl) ==
  \/ Progs[p].fl \in {"fentry", "kprobe"} /\ Progs[p].fl # fl
  \/ ~cfg.exact /\ Progs[p].base \in ExactOnly
  \/ Progs[p].base \in DOMAIN Fallbacks /\ Fallbacks[Progs[p].base] \in ksyms

skipped(p) == Progs[p].base \in cfg.skip
target_present(p) == Usdt(p) \/ Progs[p].sym \in ksyms

Kept(o, fl) == {p \in ProgsOf(o) : ~Deselected(p, fl) /\ ~skipped(p)}

\* select_programs() fails on a required program without its attach point.
select_fails(o, fl) == \E p \in Kept(o, fl) : ~target_present(p) /\ is_required(p)
Selected(o, fl) == {p \in Kept(o, fl) : target_present(p)}

\* ntp_loader_open()'s `fail`: ntp_loader_close() with what there is.
Fail == phase' = "close" /\ cur' = 1 /\ stamp' = FALSE

\* open_one() on the next object.  It gives up before the object counts
\* (btf_opts(), the skeleton's open), or after: no process, no shared map,
\* a required program missing, or the load.
open_one ==
  /\ phase = "open" /\ cur <= Len(Objs)
  /\ \/ /\ Fail
        /\ UNCHANGED <<checked, ninst, autoload>>
     \/ /\ ninst' = ninst + 1
        /\ \/ Fail /\ UNCHANGED <<checked, autoload>>
           \/ \E fc \in IF checked = "none" /\ cfg.flavour = "any"
                          THEN {"fentry", "kprobe"} ELSE {checked} :
                LET fl == object_flavour(cur, fc) IN
                /\ checked' = fc
                /\ \/ /\ ~select_fails(cur, fl)
                      /\ autoload' = autoload \cup Selected(cur, fl)
                      /\ cur' = cur + 1
                      /\ UNCHANGED <<phase, stamp>>
                   \/ select_fails(cur, fl) /\ Fail /\ UNCHANGED autoload
  /\ UNCHANGED <<ksyms, cfg, links, jobs, made, next, th, attached>>

\* The USDT program attach_usdt_all() comes to from program p on, if any.
UsdtFrom(p) == Min({q \in autoload : Usdt(q) /\ q >= p} \cup {Len(Progs) + 1})

\* All objects are open: attach_all() begins with the USDT programs.
opened ==
  /\ phase = "open" /\ cur > Len(Objs)
  /\ phase' = "usdt" /\ cur' = UsdtFrom(1)
  /\ UNCHANGED <<ksyms, cfg, checked, ninst, autoload, links, jobs, made, next, th,
                 stamp, attached>>

\* attach_usdt_all()'s next program: one link for each file that has the probe.
\* A required one attached nowhere ends attach_all().
attach_usdt ==
  /\ phase = "usdt" /\ cur <= Len(Progs)
  /\ \E at \in SUBSET Files :
       /\ attached' = attached \cup {<<cur, f>> : f \in at}
       /\ links' = [links EXCEPT ![Progs[cur].obj] = @ \o SetToSeq({<<cur, f>> : f \in at})]
       /\ \/ at = {} /\ is_required(cur) /\ Fail
          \/ /\ at # {} \/ ~is_required(cur)
             /\ cur' = UsdtFrom(cur + 1)
             /\ UNCHANGED <<phase, stamp>>
  /\ UNCHANGED <<ksyms, cfg, checked, ninst, autoload, jobs, made, next, th>>

\* The jobs are listed and parallel_for(njobs, parallel, attach_one, jobs) called.
list_jobs ==
  /\ phase = "usdt" /\ cur > Len(Progs)
  /\ jobs' = SelectSeq([p \in ProgIds |-> p], LAMBDA p : p \in autoload /\ ~Usdt(p))
  /\ made' = [i \in DOMAIN jobs' |-> FALSE]
  /\ phase' = "attach" /\ next' = 1
  /\ th' = [th EXCEPT ![0] = [pc |-> "create", i |-> 0]]
  /\ UNCHANGED <<ksyms, cfg, checked, ninst, autoload, cur, links, stamp, attached>>

-----------------------------------------------------------------------------
\* parallel_for(), for attach_one() and for destroy_one().

PforN == IF phase = "attach" THEN Len(jobs) ELSE Len(links[cur])
Parallel == phase = "attach" => choose_flavour(checked) = "fentry"
Nth == CASE ~Parallel            -> 0
         [] PforN < LinkThreads -> PforN
         [] OTHER               -> LinkThreads

Started == {t \in Threads \ {0} : th[t].pc # "off"}

\* pthread_create() of one more thread, or the caller goes on by itself: there
\* are enough, or pthread_create() failed.
create ==
  /\ th[0].pc = "create"
  /\ \/ /\ Cardinality(Started) < Nth
        /\ th' = [th EXCEPT ![Cardinality(Started) + 1] = [pc |-> "take", i |-> 0]]
     \/ th' = [th EXCEPT ![0] = [pc |-> "take", i |-> 0]]
  /\ UNCHANGED <<ksyms, cfg, checked, phase, ninst, autoload, cur, links, jobs, made,
                 next, stamp, attached>>

\* pfor_worker()'s fetch-and-add, and its test.
take(t) ==
  /\ th[t].pc = "take"
  /\ next' = next + 1
  /\ th' = [th EXCEPT ![t] = IF next <= PforN THEN [pc |-> "run", i |-> next]
                                             ELSE [pc |-> "done", i |-> 0]]
  /\ UNCHANGED <<ksyms, cfg, checked, phase, ninst, autoload, cur, links, jobs, made,
                 stamp, attached>>

\* attach_one(): the kernel may refuse.
attach_one(i) ==
  \E ok \in BOOLEAN :
    /\ made' = [made EXCEPT ![i] = ok]
    /\ attached' = IF ok THEN attached \cup {KernelLink(jobs[i])} ELSE attached

destroy_one(i) ==
  /\ attached' = attached \ {links[cur][i]}
  /\ UNCHANGED made

run(t) ==
  /\ th[t].pc = "run"
  /\ IF phase = "attach" THEN attach_one(th[t].i) ELSE destroy_one(th[t].i)
  /\ th' = [th EXCEPT ![t] = [pc |-> "take", i |-> 0]]
  /\ UNCHANGED <<ksyms, cfg, checked, phase, ninst, autoload, cur, links, jobs, next, stamp>>

\* parallel_for() has joined the threads it started.
Joined == th[0].pc = "done" /\ \A t \in Started : th[t].pc = "done"

\* Mutant: attach_all() returns at the first required hook that failed.
Collected_Returns(o) ==
  LET mine == SelectSeq([i \in 1..Len(jobs) |-> i],
                        LAMBDA i : /\ made[i] /\ Progs[jobs[i]].obj = o
                                   /\ \A k \in 1..i : made[k] \/ ~is_required(jobs[k]))
  IN links[o] \o [i \in DOMAIN mine |-> KernelLink(jobs[mine[i]])]

\* The links of object o once attach_all() has gone through the jobs.
Collected(o) ==
  LET mine == SelectSeq([i \in 1..Len(jobs) |-> i],
                        LAMBDA i : made[i] /\ Progs[jobs[i]].obj = o)
  IN links[o] \o [i \in DOMAIN mine |-> KernelLink(jobs[mine[i]])]

\* attach_all()'s last loop, and what ntp_loader_open() does up to its return:
\* the timestamp socket if it can be had, then the ring buffer and the gates.
collect ==
  /\ phase = "attach" /\ Joined
  /\ links' = [o \in DOMAIN Objs |-> Collected(o)]
  /\ th' = [t \in Threads |-> Off]
  /\ jobs' = <<>> /\ made' = <<>>
  /\ \/ /\ \E i \in DOMAIN jobs : ~made[i] /\ is_required(jobs[i])
        /\ Fail
     \/ /\ \A i \in DOMAIN jobs : made[i] \/ ~is_required(jobs[i])
        /\ \/ Fail
           \/ phase' = "ready" /\ stamp' \in BOOLEAN /\ UNCHANGED cur
  /\ UNCHANGED <<ksyms, cfg, checked, ninst, autoload, next, attached>>

\* ntp_loader_close() when recording is over.
ntp_loader_close == phase = "ready" /\ Fail
  /\ UNCHANGED <<ksyms, cfg, checked, ninst, autoload, links, jobs, made, next, th,
                 attached>>

\* The next object's links: parallel_for(o->nlinks, true, destroy_one, o->links).
close_links ==
  /\ phase = "close" /\ cur <= ninst
  /\ phase' = "destroy" /\ next' = 1
  /\ th' = [th EXCEPT ![0] = [pc |-> "create", i |-> 0]]
  /\ UNCHANGED <<ksyms, cfg, checked, ninst, autoload, cur, links, jobs, made, stamp,
                 attached>>

\* It is over; the object is destroyed.
close_object ==
  /\ phase = "destroy" /\ Joined
  /\ phase' = "close" /\ cur' = cur + 1
  /\ th' = [t \in Threads |-> Off]
  /\ UNCHANGED <<ksyms, cfg, checked, ninst, autoload, links, jobs, made, next, stamp,
                 attached>>

closed ==
  /\ phase = "close" /\ cur > ninst
  /\ phase' = "closed"
  /\ UNCHANGED <<ksyms, cfg, checked, ninst, autoload, cur, links, jobs, made, next, th,
                 stamp, attached>>

Next ==
  \/ open_one \/ opened \/ attach_usdt \/ list_jobs
  \/ create \/ (\E t \in Threads : take(t) \/ run(t))
  \/ collect \/ ntp_loader_close \/ close_links \/ close_object \/ closed

Spec == Init /\ [][Next]_loaderVars

-----------------------------------------------------------------------------
Hooked(o) == {p \in ProgsOf(o) : \E l \in attached : l[1] = p}

\* RequiredHooked.  When ntp_loader_open() has succeeded, every function an
\* object cannot do without is hooked, at its entry and its return alike (unless
\* the user skipped it), no function is hooked in both flavours, and no stand-in
\* runs next to a hook on the function it stands in for: otherwise records would
\* be meaningless, or an event counted twice (select_programs(),
\* attach_usdt_all(), attach_all()).
RequiredHooked ==
  phase = "ready" =>
    \A o \in DOMAIN Objs :
      /\ \A b \in Objs[o].required \ cfg.skip :
           \E fl \in Flavours :
             LET hooks == {p \in ProgsOf(o) : Progs[p].base = b /\ Progs[p].fl = fl}
             IN hooks # {} /\ hooks \subseteq Hooked(o)
      /\ \A p, q \in Hooked(o) :
           /\ Progs[p].base = Progs[q].base => Progs[p].fl = Progs[q].fl
           /\ Progs[p].base \in DOMAIN Fallbacks => Progs[q].sym # Fallbacks[Progs[p].base]

\* HooksTakenBack.  Every link in place is known to the loader, a thread that is
\* to destroy a link finds it there (it is destroyed once), and when
\* ntp_loader_close() returns none of the hooks is in place and the
\* timestamp socket is closed: at whatever object, program or thread opening
\* failed, and however many threads could be started
\* (attach_all(), parallel_for(), ntp_loader_close()).
HooksTakenBack ==
  /\ phase = "destroy" =>
       \A t \in Threads : th[t].pc = "run" => links[cur][th[t].i] \in attached
  /\ phase \in {"ready", "close"} /\ cur = 1
       => attached = UNION {ToSet(links[o]) : o \in DOMAIN Objs}
  /\ phase = "closed" => attached = {} /\ ~stamp
=============================================================================
