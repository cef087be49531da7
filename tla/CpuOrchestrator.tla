---------------------------- MODULE CpuOrchestrator ----------------------------
(***************************************************************************)
(* Which core every thread of the process runs on: the pool of cores that   *)
(* CpuOrchestrator::initialize takes from the settings or from the machine, *)
(* and bind, with which every thread begins.  The modules of the threads    *)
(* extend this one; Process puts them together.                             *)
(***************************************************************************)
EXTENDS Integers, Sequences, FiniteSets, SequencesExt

NoCore == -1
AnyNode == -1

\* What /sys/devices/system says; "siblings" has a CPU's thread_siblings_list, which
\* is empty for a CPU without a topology.
Machine(cpus, nodes) ==
    [online: SUBSET cpus, siblings: [cpus -> SUBSET cpus], nodes: [nodes -> SUBSET cpus]]

\* "explicit": CpuCores is not empty; "list" has its ranges <<from, to>>, where a
\* single number is a range of one.
CpuSettings(cpus, nodes) ==
    [explicit: BOOLEAN, list: Seq(cpus \X cpus), avoidHT: BOOLEAN, node: nodes \cup {AnyNode}]

CONSTANT Scenarios      \* a function from names to environments, see Process

VARIABLES
    env,                \* the scenario of this behaviour
    at,                 \* where each thread is
    pool,               \* s_enabled, s_corePool and s_nextCore
    bound               \* the core each thread is bound to

threadVars == <<env, at, pool, bound>>

Env == Scenarios[env]

-----------------------------------------------------------------------------
(* The pool *)

Least(S) == CHOOSE x \in S : \A y \in S : x <= y

\* Sorted; a core that is listed twice stays twice.
ParseCpuList(list) ==
    SortSeq(FlattenSeq([i \in DOMAIN list |->
                          [k \in 1..(list[i][2] - list[i][1] + 1) |-> list[i][1] + k - 1]]),
            LAMBDA a, b : a < b)

\* Of the CPUs that share a core, the first stands for it.
DetectPhysicalCores(m) == {c \in m.online : m.siblings[c] # {} /\ c = Least(m.siblings[c])}

NodeCores(m, node) == IF node \in DOMAIN m.nodes THEN m.nodes[node] ELSE {}

\* The node with the most physical cores, of several the first.
DetectBestNumaNode(m, cores) ==
    LET Count(n) == Cardinality(m.nodes[n] \cap cores)
        best == {n \in DOMAIN m.nodes : \A o \in DOMAIN m.nodes : Count(n) >= Count(o)}
    IN  IF best = {} THEN AnyNode ELSE Least(best)

\* A node without physical cores does not count.
OnOneNode(m, cores, node) ==
    LET chosen == IF node # AnyNode THEN node ELSE DetectBestNumaNode(m, cores)
        there == cores \cap NodeCores(m, chosen)
    IN  IF there = {} THEN cores ELSE there

\* A set of cores, sorted.
Ascending(S) == [i \in 1..Cardinality(S) |-> CHOOSE c \in S : Cardinality({d \in S : d < c}) = i - 1]

NewPool == [enabled |-> FALSE, cores |-> <<>>, next |-> 1]

\* A second call gives the cores from the first one on again.
GivesAfresh(p, cores) == [p EXCEPT !.cores = cores, !.enabled = @ \/ cores # <<>>, !.next = 1]

\* A second call goes on where the first one stopped.
Gives(p, cores) == [p EXCEPT !.cores = cores, !.enabled = @ \/ cores # <<>>]

Initialize(p, s, m) ==
    LET cores == DetectPhysicalCores(m)
    IN  CASE s.explicit -> Gives(p, ParseCpuList(s.list))
          [] ~s.explicit /\ (~s.avoidHT \/ cores = {}) -> p
          [] OTHER -> Gives(p, Ascending(OnOneNode(m, cores, s.node)))

-----------------------------------------------------------------------------
(* Threads: a created thread is "born", and binds before it runs. *)

Becomes(t, place) == at' = [at EXCEPT ![t] = place]

\* A new thread is not bound, nor is what is left of one that ended.
Creates(t, threads, place) ==
    /\ at' = [u \in DOMAIN at |-> IF u = t THEN place ELSE IF u \in threads THEN "born" ELSE at[u]]
    /\ bound' = [u \in DOMAIN bound |-> IF u \in threads THEN NoCore ELSE bound[u]]

Ends(t) == Becomes(t, "ended") /\ bound' = [bound EXCEPT ![t] = NoCore]

\* Fails without cores to give, and for a core the kernel does not have.
Bind(t, place) ==
    /\ at[t] = "born"
    /\ Becomes(t, place)
    /\ IF ~pool.enabled \/ pool.cores = <<>>
       THEN UNCHANGED <<pool, bound>>
       ELSE /\ pool' = [pool EXCEPT !.next = @ + 1]
            /\ IF pool.next <= Len(pool.cores) /\ pool.cores[pool.next] \in Env.machine.online
               THEN bound' = [bound EXCEPT ![t] = pool.cores[pool.next]]
               ELSE UNCHANGED bound
    /\ UNCHANGED env

-----------------------------------------------------------------------------
(* Properties *)

Siblings(a, b) == b \in Env.machine.siblings[a]

\* Cores that the orchestrator picks itself are shared by no two threads, neither
\* as a core nor by hyper-threading, not even after a second start; and without
\* a node in the settings they are on one NUMA node, none having more of them.
CoresWellChosen ==
    LET m == Env.machine
        taken == {t \in DOMAIN bound : bound[t] # NoCore}
        Whole(n) == {c \in m.nodes[n] \cap m.online : c \in m.siblings[c] /\ \A d \in m.siblings[c] : c <= d}
    IN  (~Env.cpu.explicit /\ Env.cpu.avoidHT) =>
          /\ \A s, t \in taken : s # t => bound[t] \notin m.siblings[bound[s]]
          /\ (Env.cpu.node = AnyNode /\ \E n \in DOMAIN m.nodes : Whole(n) # {}) =>
               \E n \in DOMAIN m.nodes :
                  /\ \A t \in taken : bound[t] \in m.nodes[n]
                  /\ \A o \in DOMAIN m.nodes : Cardinality(Whole(o)) <= Cardinality(Whole(n))
=============================================================================
