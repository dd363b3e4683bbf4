-------------------------------- MODULE Tss --------------------------------
(* Thread-specific storage of pf_threads.h on Windows: the list of keys with a destructor behind
   pf_tss_global, and the destructors a thread runs when it ends.  TlsAlloc() and its kin are external. *)
EXTENDS Naturals, FiniteSets

CONSTANTS Threads, Keys,
          Nodes,       \* the memory the list's nodes come from: numbers
          TssMax,      \* TSS_T_MAX, which count, never decremented, may reach
          Iterations   \* TSS_DTOR_ITERATIONS

ASSUME TssConstantsOK ==
  /\ Nodes \subseteq Nat \ {0} /\ Iterations \in Nat \ {0}
  /\ "nobody" \notin Threads \cup Keys

VARIABLES key, next, head, live,    \* the nodes, freed ones with what was in them, and the list
          count,                    \* pf_tss_global->count
          section,                  \* the critical section: its owner and how often it entered
          allocated,                \* keys allocated
          value,                    \* per thread and key: 0, or 1 + the passes begun when it was set
          pc, node, pass, any,      \* per thread: pf_tss_cleanup()
          lost                      \* a freed node was used and had been overwritten

tssvars == <<key, next, head, live, count, section, allocated, value, pc, node, pass, any, lost>>
list == <<key, next, head, live, count>>
walk == <<pc, node, pass, any>>

Null == 0
Nobody == "nobody"

TssInit ==
  /\ key = [n \in Nodes |-> Nobody] /\ next = [n \in Nodes |-> Null]
  /\ head = Null /\ live = {} /\ count = 0
  /\ section = [owner |-> Nobody, depth |-> 0]
  /\ allocated = {}
  /\ value = [t \in Threads |-> [k \in Keys |-> 0]]
  /\ pc = [t \in Threads |-> "run"]
  /\ node = [t \in Threads |-> Null] /\ pass = [t \in Threads |-> 0]
  /\ any = [t \in Threads |-> FALSE]
  /\ lost = FALSE

CanEnter(t) == section.owner \in {Nobody, t}
Entered(t) == [owner |-> t, depth |-> section.depth + 1]
LeftNever(t) == section
Left(t) == IF section.depth = 1 THEN [owner |-> Nobody, depth |-> 0]
           ELSE [section EXCEPT !.depth = @ - 1]

InUserCode(t) == pc[t] \in {"run", "call"} /\ ~lost

-----------------------------------------------------------------------------
(* tss_create() with a destructor; a key without one is never in the list, and a program that has not
   set pf_tss_global gets thrd_error. *)
Insert(t, k) ==
  \E n \in Nodes \ live :
    /\ key' = [key EXCEPT ![n] = k] /\ next' = [next EXCEPT ![n] = head]
    /\ head' = n /\ live' = live \cup {n}
    /\ count' = count + 1
    /\ allocated' = allocated \cup {k}
    /\ UNCHANGED section

(* pf__tss_register(): a full table is left with the section entered.  No memory: only TlsFree(). *)
FullTable(t) ==
  /\ count = TssMax
  /\ section' = Entered(t)
  /\ UNCHANGED <<list, allocated>>

Create(t, k) ==
  /\ InUserCode(t) /\ k \notin allocated
  /\ CanEnter(t) /\ section.depth < 1      \* bound: full tables met
  /\ \/ FullTable(t)
     \/ count # TssMax /\ Insert(t, k)
  /\ UNCHANGED <<value, walk, lost>>

(* tss_set(), in the thread's function or in a destructor. *)
Set(t, k) ==
  /\ InUserCode(t) /\ k \in allocated
  /\ value' = [value EXCEPT ![t][k] = IF pc[t] = "run" THEN 1 ELSE pass[t] + 2]
  /\ UNCHANGED <<list, section, allocated, walk, lost>>

(* tss_delete(): the node is unlinked and freed, and TlsFree() drops the values of every thread; nobody
   who is not in the section can tell these apart. *)
Delete(t, k) ==
  /\ InUserCode(t) /\ k \in allocated
  /\ CanEnter(t)
  /\ LET found == {n \in live : key[n] = k} IN
       /\ live' = live \ found
       /\ head' = IF head \in found THEN next[head] ELSE head
       /\ next' = [n \in Nodes |-> IF n \in live \ found /\ next[n] \in found THEN next[next[n]]
                                   ELSE next[n]]
  /\ allocated' = allocated \ {k}
  /\ value' = [u \in Threads |-> [value[u] EXCEPT ![k] = 0]]
  /\ UNCHANGED <<key, count, section, walk, lost>>

-----------------------------------------------------------------------------
(* pf_thrd_trampoline() and pf_tss_cleanup(): the function returns; one pass over the list after
   another, each inside the section except while a destructor runs. *)
ThreadReturns(t) ==
  /\ pc[t] = "run" /\ ~lost
  /\ pc' = [pc EXCEPT ![t] = "enter"]
  /\ \E garbage \in BOOLEAN : any' = [any EXCEPT ![t] = garbage]     \* line 693: not initialised
  /\ UNCHANGED <<list, section, allocated, value, node, pass, lost>>

BeginPass(t) ==
  /\ pc[t] = "enter" /\ ~lost /\ CanEnter(t)
  /\ section' = Entered(t)
  /\ node' = [node EXCEPT ![t] = head]
  /\ pc' = [pc EXCEPT ![t] = "scan"]
  /\ UNCHANGED <<list, allocated, value, pass, any, lost>>

LastPassEarly(t) == ~any[t] \/ pass[t] + 2 = Iterations
LastPass(t) == ~any[t] \/ pass[t] + 1 = Iterations

(* With the last pass the thread is gone, and with it its values and the function's variables. *)
EndPass(t) ==
  /\ pc[t] = "scan" /\ node[t] = Null /\ ~lost
  /\ section' = Left(t)
  /\ IF LastPass(t)
     THEN /\ pc' = [pc EXCEPT ![t] = "ended"]
          /\ value' = [value EXCEPT ![t] = [k \in Keys |-> 0]]
          /\ pass' = [pass EXCEPT ![t] = 0]
          /\ any' = [any EXCEPT ![t] = FALSE]
     ELSE /\ pc' = [pc EXCEPT ![t] = "enter"]
          /\ pass' = [pass EXCEPT ![t] = @ + 1]
          /\ UNCHANGED <<value, any>>
  /\ UNCHANGED <<list, allocated, node, lost>>

SkipNode(t) ==
  /\ pc[t] = "scan" /\ node[t] # Null /\ ~lost
  /\ value[t][key[node[t]]] = 0
  /\ node' = [node EXCEPT ![t] = next[@]]
  /\ UNCHANGED <<list, section, allocated, value, pc, pass, any, lost>>

CallDtor(t) ==
  /\ pc[t] = "scan" /\ node[t] # Null /\ ~lost
  /\ value[t][key[node[t]]] # 0
  /\ value' = [value EXCEPT ![t][key[node[t]]] = 0]
  /\ section' = Left(t)
  /\ pc' = [pc EXCEPT ![t] = "call"]
  /\ UNCHANGED <<list, allocated, node, pass, any, lost>>

(* The destructor returned.  The node may have been freed meanwhile: what was in it is still there,
   or it is something else. *)
Resume(t) ==
  /\ pc[t] = "call" /\ ~lost /\ CanEnter(t)
  /\ any' = [any EXCEPT ![t] = TRUE]
  /\ section' = Entered(t)
  /\ node' = [node EXCEPT ![t] = next[@]]
  /\ pc' = [pc EXCEPT ![t] = "scan"]
  /\ lost' \in IF node[t] \in live THEN {FALSE} ELSE BOOLEAN
  /\ UNCHANGED <<list, allocated, value, pass>>

Enter(t) == BeginPass(t) \/ Resume(t)
Walk(t) == EndPass(t) \/ SkipNode(t) \/ CallDtor(t)

TssNext ==
  \E t \in Threads :
    \/ \E k \in Keys : Create(t, k) \/ Set(t, k) \/ Delete(t, k)
    \/ ThreadReturns(t) \/ Enter(t) \/ Walk(t)

(* A thread in the section goes on, and one that waits for it gets it when it is free again and again. *)
TssFairness == \A t \in Threads : WF_tssvars(Walk(t)) /\ SF_tssvars(Enter(t))
TssSpec == TssInit /\ [][TssNext]_tssvars /\ TssFairness

-----------------------------------------------------------------------------
(* Whatever destructors set, create and delete, and other threads meanwhile: a thread ends with a value
   under a key with a destructor only if a destructor set it in the last pass. *)
EndsClean ==
  \A t \in Threads, n \in live :
    pc'[t] = "ended" /\ pc[t] # "ended" => value[t][key[n]] \in {0, Iterations + 1}
NothingLeftBehind == [][EndsClean]_tssvars

(* A thread's cleanup ends, however often destructors set values again, unless another thread met the
   full table and left with the critical section. *)
CleanupEnds ==
  \A t \in Threads :
    pc[t] = "enter" ~> \/ pc[t] = "ended" \/ lost
                       \/ section.owner \notin {Nobody, t} /\ count = TssMax
=============================================================================
