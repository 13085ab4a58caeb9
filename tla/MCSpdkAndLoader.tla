-------------------------- MODULE MCSpdkAndLoader --------------------------
(* The SPDK side and the loader on small instances: a reactor's sockets    *)
(* (SpdkSockets.tla), an RDMA queue pair (SpdkRdma.tla), the order in      *)
(* which ntprof opens and closes the gates (Gating.tla), and the hooks it  *)
(* attaches and takes back (Loader.tla).                                   *)
EXTENDS SpdkSockets, TLC

CONSTANTS
  Reqs, Posts, MaxRdmaTime, MaxSubmits, MaxGates,     \* SpdkRdma's
  Cmds, HostProcs, TargetProcs,                       \* Gating's
  Files, LinkThreads                                  \* Loader's

VARIABLES
  part,                                               \* which of the four is looked at
  rdmaSide, rdmaClock, rdmaGate, at, tm, posts, poll, taken, arr, submits, gates,
  rdmaReal, rdmaRec,                                  \* SpdkRdma's
  kind, armed, gate, gated, phase, todo, path, sampled, reported, left, stuck,  \* Gating's
  ksyms, cfg, checked, loading, ninst, autoload, cur, links, jobs, made, next, th, stamp,
  attached                                            \* Loader's

rdmaVars == <<rdmaSide, rdmaClock, rdmaGate, at, tm, posts, poll, taken, arr, submits, gates,
              rdmaReal, rdmaRec>>
gatesVars == <<kind, armed, gate, gated, phase, todo, path, sampled, reported, left, stuck>>
hooksVars == <<ksyms, cfg, checked, loading, ninst, autoload, cur, links, jobs, made, next, th,
               stamp, attached>>

Rdma == INSTANCE SpdkRdma WITH
          MaxTime <- MaxRdmaTime, side <- rdmaSide, clock <- rdmaClock, gate <- rdmaGate,
          real <- rdmaReal, rec <- rdmaRec
Gates == INSTANCE Gating

\* A kernel host and an SPDK target: a required function hooked at its entry and
\* its return, one with a stand-in, a hook of --exact-queues, and a USDT probe.
MCObjs == <<[spdk |-> FALSE, required |-> {"recv_skb"}],
            [spdk |-> TRUE, required |-> {"done"}]>>
Prog(o, b, f) == [obj |-> o, base |-> b, fl |-> f, sym |-> b]
MCProgs == <<Prog(1, "recv_skb", "fentry"), Prog(1, "recv_skb", "fentry"),
             Prog(1, "recv_skb", "kprobe"),
             Prog(1, "cmd_pdu", "fentry"), Prog(1, "cmd_pdu", "kprobe"),
             Prog(1, "try_send", "fentry"), Prog(1, "try_send", "kprobe"),
             Prog(2, "done", "usdt"), Prog(2, "queue_rq", "fentry")>>
Functions == {"recv_skb", "cmd_pdu", "try_send", "queue_rq"}
MCKernels == {Functions, Functions \ {"cmd_pdu"}, Functions \ {"recv_skb"}}
MCConfigs == [flavour : {"any", "fentry", "kprobe"}, exact : BOOLEAN,
              skip : {{}, {"recv_skb"}}, modBtf : {{}, {1, 2}}]

Hooks == INSTANCE Loader WITH
           Objs <- MCObjs, Progs <- MCProgs, Kernels <- MCKernels, Configs <- MCConfigs,
           Fallbacks <- [b \in {"try_send"} |-> "cmd_pdu"], ExactOnly <- {"queue_rq"},
           phase <- loading

\* The parts not looked at wait in one of their first states.
MCInit ==
  /\ Init /\ Rdma!Init /\ Gates!Init /\ Hooks!Init
  /\ part \in {"sockets", "rdma", "gates", "hooks"}
  /\ part # "sockets" => side = "host"
  /\ part # "rdma" => rdmaSide = "host" /\ rdmaGate
  /\ part # "gates" => /\ \A s \in DOMAIN kind : kind[s] = "spdk"
                       /\ \A p \in DOMAIN left : ~left[p]
  /\ part # "hooks" => /\ ksyms = Functions
                       /\ cfg = [flavour |-> "any", exact |-> TRUE, skip |-> {}, modBtf |-> {1, 2}]

MCNext ==
  \/ part = "sockets" /\ Next /\ UNCHANGED <<part, rdmaVars, gatesVars, hooksVars>>
  \/ part = "rdma" /\ Rdma!Next /\ UNCHANGED <<part, vars, gatesVars, hooksVars>>
  \/ part = "gates" /\ Gates!Next /\ UNCHANGED <<part, vars, rdmaVars, hooksVars>>
  \/ part = "hooks" /\ Hooks!Next /\ UNCHANGED <<part, vars, rdmaVars, gatesVars>>

MCSpec == MCInit /\ [][MCNext]_<<part, vars, rdmaVars, gatesVars, hooksVars>>

\* Requests of the queue pair differ only in their addresses, commands in their
\* names.
Exchanges == Permutations(Reqs) \cup Permutations(Cmds)

\* As in SpdkRdma: a posting's time is that of its own work request, never the
\* posting of a command that used the request before, and a completion is timed
\* by the poll that took it, unless the gate was closed at one of the command's
\* polls.
RdmaTimesReal == Rdma!TypeOK /\ Rdma!PostedTimesReal /\ Rdma!PolledTimesReal

\* As in Gating: with both sides in SPDK the host reports only commands its
\* target sampled, however the gates' stores and the commands interleave.
HostHasTarget == Gates!TypeOK /\ Gates!HostHasTarget

\* As in Gating: when the loader has closed, no SPDK process samples any more but
\* one whose own gate could not be closed.
GatesRestored == Gates!GatesRestored

\* As in Loader: an open loader has every required hook in place, each in one
\* flavour, and no stand-in next to what it stands in for.
RequiredHooked == Hooks!RequiredHooked

\* As in Loader: links are destroyed once, and none outlives ntp_loader_close().
HooksTakenBack == Hooks!HooksTakenBack
=============================================================================
