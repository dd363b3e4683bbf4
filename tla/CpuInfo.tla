------------------------------ MODULE CpuInfo ------------------------------
(***************************************************************************)
(* Processor features: pf_cpuinfo.h.  The leaves of CPUID that the feature *)
(* macros use are read once, into a static cache that the first callers    *)
(* fill without a lock: any number of them may copy their own reading over *)
(* it, field by field, while others have begun to use it.                  *)
(***************************************************************************)
EXTENDS Integers, Sequences, FiniteSets, FiniteSetsExt

CONSTANTS
  Users,    \* threads that ask for features
  Machines, \* processors, as records of what CPUID and XGETBV answer
  Ordered   \* whether PF__BARRIER() orders anything: not on every compiler (line 88)

\* The highest leaf, the counts of cores and the levels of the topology are unsigned.
ASSUME MachinesOK ==
  \A m \in Machines :
    /\ m.basic \in Nat /\ m.nc \in Nat /\ m.legacy \in Nat
    /\ \A leaf \in {11, 31} : m.topology[leaf] \in Seq(Nat)

VARIABLES
  machine,  \* the processor
  ready,    \* pf_cpu_cache: ready
  cache,    \* pf_cpu_cache: cache
  upc,      \* where a thread is
  reading,  \* pf_cpu_cache: t, of each thread
  uncopied  \* fields of t that a thread has still to copy

\* The bits of leaf 1 and leaf 7 that have a PF_HAS_ macro, by register.
Macros ==
  [ecx1 |-> 0 .. 15 \cup 17 .. 30,
   edx1 |-> 0 .. 9 \cup 11 .. 19 \cup 21 .. 31,
   ebx7 |-> 0 .. 31,
   ecx7 |-> 0 .. 14 \cup {16} \cup 22 .. 25 \cup 27 .. 31,
   edx7 |-> 1 .. 5 \cup 8 .. 11 \cup 13 .. 16 \cup 18 .. 20 \cup 22 .. 31]
Registers == DOMAIN Macros
Leaf1 == {"ecx1", "edx1"}

Nothing == [r \in Registers |-> {}]
CacheFields == {"max_basic", "max_ext", "l1", "l7"}
EmptyCache == [max_basic |-> 0, max_ext |-> 0, l1 |-> Nothing, l7 |-> Nothing]

\* A leaf above the highest is answered with the data of the highest.
Cpuid(leaf) ==
  IF leaf <= machine.basic THEN (IF leaf = 1 THEN machine.l1 ELSE machine.l7)
  ELSE machine.garbage

\* pf_cpuid_max_leaf(): extended leaves are counted from 0x80000000, 0 if there are none.
MaxLeaf(extended) == IF extended THEN machine.ext ELSE machine.basic

Reading ==
  [max_basic |-> MaxLeaf(FALSE), max_ext |-> MaxLeaf(TRUE),
   l1 |-> IF MaxLeaf(FALSE) >= 1 THEN Cpuid(1) ELSE Nothing,
   l7 |-> IF MaxLeaf(FALSE) >= 7 THEN Cpuid(7) ELSE Nothing]

\* pf_cpuid_flag(), through pf_cpuid_reg() and the cache.
Flag(r, bit) == bit \in (IF r \in Leaf1 THEN cache.l1[r] ELSE cache.l7[r])

OsSupports(state) == Flag("ecx1", 27) /\ state \subseteq machine.xcr0
CanUse == [avx |-> Flag("ecx1", 28) /\ OsSupports({1, 2}),
           avx2 |-> Flag("ebx7", 5) /\ OsSupports({1, 2}),
           avx512f |-> Flag("ebx7", 16) /\ OsSupports({1, 2, 5, 6, 7})]

\* Largest count of the levels before the first invalid one, of the first leaf that has
\* any: 0x1F, then 0x0B.
Topology(leaf) ==
  IF cache.max_basic < leaf \/ machine.topology[leaf] = <<>> THEN 0
  ELSE Max({machine.topology[leaf][i] :
              i \in 1 .. Min({8, Len(machine.topology[leaf])})})

LogicalCores ==
  LET levels == IF Topology(31) # 0 THEN Topology(31) ELSE Topology(11)
  IN  CASE cache.max_basic = 0 -> 0
        [] cache.max_basic # 0 /\ machine.amd /\ cache.max_ext >= 8 -> machine.nc + 1
        [] OTHER -> IF levels # 0 THEN levels
                    ELSE IF Flag("edx1", 28) /\ machine.legacy # 0 THEN machine.legacy
                    ELSE 1

-----------------------------------------------------------------------------
CpuInit ==
  /\ machine \in Machines
  /\ ready = FALSE /\ cache = EmptyCache
  /\ upc = [u \in Users |-> "out"]
  /\ reading = [u \in Users |-> EmptyCache]
  /\ uncopied = [u \in Users |-> {}]

GetCache(u) ==
  /\ upc[u] = "out"
  /\ upc' = [upc EXCEPT ![u] = IF ready THEN "using" ELSE "reading"]
  /\ UNCHANGED <<machine, ready, cache, reading, uncopied>>

\* Nobody else sees t: the instructions make one step.
Read(u) ==
  /\ upc[u] = "reading"
  /\ reading' = [reading EXCEPT ![u] = Reading]
  /\ uncopied' = [uncopied EXCEPT ![u] = CacheFields]
  /\ upc' = [upc EXCEPT ![u] = "copying"]
  /\ UNCHANGED <<machine, ready, cache>>

\* Mutant of Publish: the barrier orders nothing on any compiler.
PublishEarly(u) ==
  /\ upc[u] = "copying"
  /\ ready' = TRUE
  /\ upc' = [upc EXCEPT ![u] = IF uncopied[u] = {} THEN "using" ELSE "copying"]
  /\ UNCHANGED <<machine, cache, reading, uncopied>>

\* The struct is assigned in any order; a barrier that orders keeps ready behind it.
Copy(u) ==
  /\ upc[u] = "copying"
  /\ \E f \in uncopied[u] :
       /\ cache' = [cache EXCEPT ![f] = reading[u][f]]
       /\ uncopied' = [uncopied EXCEPT ![u] = @ \ {f}]
  /\ UNCHANGED <<machine, ready, upc, reading>>

Publish(u) ==
  /\ upc[u] = "copying"
  /\ Ordered => uncopied[u] = {}
  /\ ready' = TRUE
  /\ upc' = [upc EXCEPT ![u] = IF uncopied[u] = {} THEN "using" ELSE "copying"]
  /\ UNCHANGED <<machine, cache, reading, uncopied>>

Leave(u) ==
  /\ upc[u] = "using"
  /\ upc' = [upc EXCEPT ![u] = "out"]
  /\ UNCHANGED <<machine, ready, cache, reading, uncopied>>

CpuNext == \E u \in Users : GetCache(u) \/ Read(u) \/ Copy(u) \/ Publish(u) \/ Leave(u)
cpuvars == <<machine, ready, cache, upc, reading, uncopied>>
CpuSpec == CpuInit /\ [][CpuNext]_cpuvars

-----------------------------------------------------------------------------
\* Where the barrier orders, however many first calls race: whoever has the cache reads what this processor has:
\* no bit of a leaf that it does not have, no field that is still to be copied.  AVX is
\* usable only if the operating system saves its registers, XGETBV is executed only where
\* it exists, and the package has a core.
FeaturesTrue ==
  \A u \in Users : upc[u] = "using" =>
    /\ cache.max_basic = machine.basic /\ cache.max_ext = machine.ext
    /\ \A r \in Registers : \A bit \in Macros[r] :
         LET leaf == IF r \in Leaf1 THEN 1 ELSE 7
         IN  Flag(r, bit) <=> machine.basic >= leaf /\ bit \in Cpuid(leaf)[r]
    /\ CanUse.avx512f => {1, 2, 5, 6, 7} \subseteq machine.xcr0 /\ 16 \in machine.l7["ebx7"]
    /\ CanUse.avx2 => machine.basic >= 7 /\ {1, 2} \subseteq machine.xcr0
    /\ LogicalCores >= 1 <=> machine.basic # 0
=============================================================================
