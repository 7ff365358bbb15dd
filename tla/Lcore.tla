-------------------------------- MODULE Lcore --------------------------------
(***************************************************************************)
(* The lcores of src/src/ext/rte_lcore.c and the iterators over them, in C *)
(* and in src/src/dpdk/inlines.cr: rte_get_next_lcore as a loop of its     *)
(* own, and RTE_LCORE_FOREACH, rte_lcore_foreach_slave and                 *)
(* rte_lcore_foreach_worker on top of it.  Main, on the master lcore,      *)
(* starts the threads of every example with them and waits for their end.  *)
(* src/examples/timer.cr calls rte_get_next_lcore with wrap, to move its   *)
(* timer round the lcores; the model makes limit + 1 such calls.           *)
(***************************************************************************)
EXTENDS LcoreIds, Sequences, FiniteSets, SequencesExt

CONSTANTS
  UINT32,      \* number of values of a UInt32
  Limits       \* arguments of rte_lcore_foreach_worker; nil is UINT32

ASSUME LcoreAssumption ==
  /\ RTE_MAX_LCORE \in Nat \ {0} /\ UINT32 \in Nat /\ RTE_MAX_LCORE < UINT32
  /\ Limits \subseteq 0 .. UINT32 /\ UINT32 \in Limits

VARIABLES
  mode,        \* "wrap": rte_get_next_lcore(i, 0, 1) over and over; "all" and "slaves": a foreach
  enabled,     \* lcores with ROLE_RTE
  master,      \* master_lcore of the configuration
  limit,       \* the argument, UINT32 for the loops without one
  i,           \* the cursor of rte_get_next_lcore
  worker_id,
  visited,     \* the lcores given to the block so far
  iter_pc

iterVars == <<mode, enabled, master, limit, i, worker_id, visited, iter_pc>>

IterInit ==
  /\ mode \in {"wrap", "all", "slaves"}
  /\ enabled \in (SUBSET Lcores) \ {{}}
  /\ master \in enabled
  /\ limit \in IF mode = "all" THEN {UINT32} ELSE Limits
  /\ i \in IF mode = "wrap" THEN enabled ELSE {UINT32 - 1}
  /\ worker_id = 0
  /\ visited = <<>>
  /\ iter_pc = "call"

-----------------------------------------------------------------------------
(* What the EAL found out at the start.                                     *)

(* core_index counts the enabled lcores; -1 for the others.                 *)
lcore_config ==
  [l \in Lcores |-> [core_index |-> IF l \in enabled THEN Cardinality({k \in enabled : k < l}) ELSE -1]]

(* Main runs on the master lcore.                                           *)
rte_lcore_id == master
rte_get_master_lcore == master
rte_lcore_count == Cardinality(enabled)

rte_lcore_index(lcore_id) ==
  IF lcore_id >= RTE_MAX_LCORE THEN -1
  ELSE lcore_config[IF lcore_id < 0 THEN rte_lcore_id ELSE lcore_id].core_index

rte_lcore_is_enabled(lcore_id) == lcore_id < RTE_MAX_LCORE /\ lcore_id \in enabled

-----------------------------------------------------------------------------

(* i + 1, a UInt32, and with wrap back to 0 from RTE_MAX_LCORE.             *)
Following(n) ==
  LET next == (n + 1) % UINT32 IN IF mode = "wrap" THEN next % RTE_MAX_LCORE ELSE next

(* The entry of rte_get_next_lcore: -1 becomes 0.                           *)
Enter ==
  /\ iter_pc = "call"
  /\ i' = Following(i)
  /\ iter_pc' = "search"
  /\ UNCHANGED <<mode, enabled, master, limit, worker_id, visited>>

MutEligible(n) == rte_lcore_is_enabled(n)
(* With skip_master, not the master.                                        *)
Eligible(n) == rte_lcore_is_enabled(n) /\ ~(mode = "slaves" /\ n = rte_get_master_lcore)

(* Its loop: on to the next lcore that qualifies; without wrap at most to   *)
(* RTE_MAX_LCORE.                                                           *)
rte_get_next_lcore ==
  /\ iter_pc = "search"
  /\ IF i < RTE_MAX_LCORE /\ ~Eligible(i)
       THEN i' = Following(i) /\ iter_pc' = iter_pc
       ELSE i' = i /\ iter_pc' = "yield"
  /\ UNCHANGED <<mode, enabled, master, limit, worker_id, visited>>

(* A call of the block, which sees i.                                       *)
Yield ==
  /\ iter_pc = "yield" /\ i < RTE_MAX_LCORE
  /\ visited' = Append(visited, i)
  /\ UNCHANGED <<mode, enabled, master, limit, i>>

(* Behind the last lcore a foreach ends.                                    *)
LoopEnd ==
  /\ iter_pc = "yield" /\ i >= RTE_MAX_LCORE
  /\ iter_pc' = "done"
  /\ UNCHANGED <<mode, enabled, master, limit, i, worker_id, visited>>

RTE_LCORE_FOREACH ==
  /\ mode = "all" /\ Yield
  /\ iter_pc' = "call" /\ UNCHANGED worker_id

rte_lcore_foreach_slave ==
  /\ mode = "slaves" /\ limit = UINT32 /\ Yield
  /\ iter_pc' = "call" /\ UNCHANGED worker_id

(* The test of the limit comes after the search for the next lcore, which   *)
(* changes nothing else.  The calls with wrap are counted in the same way.  *)
rte_lcore_foreach_worker ==
  /\ \/ mode = "slaves" /\ limit # UINT32
     \/ mode = "wrap"
  /\ Yield
  /\ worker_id' = worker_id + 1
  /\ iter_pc' = IF worker_id' > limit THEN "done" ELSE "call"

IterNext ==
  \/ Enter \/ rte_get_next_lcore \/ LoopEnd
  \/ RTE_LCORE_FOREACH \/ rte_lcore_foreach_slave \/ rte_lcore_foreach_worker

IterSpec == IterInit /\ [][IterNext]_iterVars

-----------------------------------------------------------------------------
(* Properties *)

Wanted == IF mode = "slaves" THEN enabled \ {master} ELSE enabled

(* A foreach gives its block the enabled lcores, without the master for the *)
(* slaves, each once and in ascending order, rte_lcore_foreach_worker the   *)
(* first limit + 1 of them: a thread is launched, and waited for, on each   *)
(* exactly once.  Over all lcores the calls are as many as rte_lcore_count  *)
(* and in the order of rte_lcore_index.  With wrap as many calls as there   *)
(* are enabled lcores visit each of them once, from any start.              *)
VisitsEach ==
  /\ Range(visited) \subseteq Wanted
  /\ mode = "wrap" =>
       \A m, n \in DOMAIN visited :
         visited[m] = visited[n] <=> (m - n) % rte_lcore_count = 0
  /\ mode # "wrap" => \A m, n \in DOMAIN visited : m < n => visited[m] < visited[n]
  /\ mode # "wrap" /\ iter_pc = "done" =>
       LET n == Min({limit + 1, Cardinality(Wanted)}) IN
       /\ Len(visited) = n
       /\ \A k \in Wanted : Cardinality({l \in Wanted : l < k}) < n => k \in Range(visited)
  /\ mode = "all" =>
       /\ \A n \in DOMAIN visited : rte_lcore_index(visited[n]) = n - 1
       /\ iter_pc = "done" => visited[rte_lcore_index(-1) + 1] = rte_lcore_id
=============================================================================
