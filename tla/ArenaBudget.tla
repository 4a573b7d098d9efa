----------------------------- MODULE ArenaBudget -----------------------------
(***************************************************************************)
(* The memory accounting of the native runtime (native/mem_budget.rs): the *)
(* threads of a pool share one budget per query and one count of retained  *)
(* bytes, both atomics changed with compare-and-swap loops or fetch_add,   *)
(* and each thread has an arena that grows in steps during a scan and is   *)
(* cut back when the thread ends the query.  An action is the code between *)
(* two atomic operations.                                                  *)
(*                                                                         *)
(* Queries follow one another (the pool's mutex) and every thread replies  *)
(* to each of them; NativePool has the rest.  Sizes are in units of bytes  *)
(* far from 2^64, where the saturating additions are exact.                *)
(***************************************************************************)
EXTENDS Integers, FiniteSets

CONSTANTS
  Threads,      (* the worker threads of a pool                            *)
  BaseBytes, GrowBytes, MaxBytes,  (* of an arena: at first, by step, at most *)
  GlobalCap,    (* global_cap_bytes of a query                             *)
  RetainedCap,  (* retained_global_cap_bytes                               *)
  Policy,       (* arena_release_policy                                    *)
  KeepUpTo,     (* arena_keep_up_to_bytes                                  *)
  Decay,        (* retained_idle_decay_queries                             *)
  Needs         (* the sizes a scan's window may have after a chunk        *)

(* from_env and for_workers see to the lower bounds.                       *)
ASSUME ArenaAssumption ==
  /\ IsFiniteSet(Threads)
  /\ BaseBytes \in Nat \ {0} /\ GrowBytes \in Nat \ {0}
  /\ MaxBytes \in Nat /\ MaxBytes >= BaseBytes
  /\ GlobalCap \in Nat /\ RetainedCap \in Nat /\ KeepUpTo \in Nat
  /\ Decay \in Nat \ {0}
  /\ Policy \in {"release", "keep", "upto"}
  /\ Needs \subseteq Nat

VARIABLES
  used,      (* QueryMemoryBudget.used_bytes                               *)
  retained,  (* RetainedMemoryCap.total_retained                           *)
  reserved,  (* reserved_bytes of each thread's arena                      *)
  live,      (* its used_bytes                                             *)
  idle,      (* its idle_queries, counted up to Decay                      *)
  pc,        (* where each thread stands                                   *)
  seen,      (* the value its compare-and-swap expects                     *)
  grow,      (* how much it asks the budget for                            *)
  need,      (* the live bytes it asks for                                 *)
  desired,   (* what it wants to keep after the query                      *)
  initial,   (* history: used when the query began                         *)
  granted    (* history: what the query's budget granted each thread       *)

arenaVars   == <<reserved, live, idle>>
localVars   == <<seen, grow, need, desired>>
historyVars == <<initial, granted>>
vars == <<used, retained, arenaVars, pc, localVars, historyVars>>

Places == {"idle", "scan", "reserve", "swap", "add", "end", "load", "adjust"}

-----------------------------------------------------------------------------
Least(a, b)    == IF a <= b THEN a ELSE b
Greatest(a, b) == IF a <= b THEN b ELSE a
Monus(a, b)    == IF a <= b THEN 0 ELSE a - b   (* saturating_sub          *)

(* The units of size of every thread, and how many there are.              *)
Units(f) == UNION {{t} \X (1 .. f[t]) : t \in Threads}
SumOver(f) == Cardinality(Units(f))

Goto(t, place) == pc' = [pc EXCEPT ![t] = place]

(* A new pool: every arena holds its base.                                 *)
Init ==
  /\ used = 0
  /\ retained = BaseBytes * Cardinality(Threads)
  /\ reserved = [t \in Threads |-> BaseBytes]
  /\ live = [t \in Threads |-> 0]
  /\ idle = [t \in Threads |-> 0]
  /\ pc = [t \in Threads |-> "idle"]
  /\ seen = [t \in Threads |-> 0]
  /\ grow = [t \in Threads |-> 0]
  /\ need = [t \in Threads |-> 0]
  /\ desired = [t \in Threads |-> 0]
  /\ initial = 0
  /\ granted = [t \in Threads |-> 0]

(* Seeded fault: the budget of a query forgets what is retained.           *)
StartEmpty ==
  /\ \A t \in Threads : pc[t] = "idle"
  /\ used' = 0
  /\ initial' = used'
  /\ granted' = [t \in Threads |-> 0]
  /\ live' = [t \in Threads |-> 0]
  /\ pc' = [t \in Threads |-> "scan"]
  /\ UNCHANGED <<retained, reserved, idle, localVars>>

(* The next query: its budget starts at what the pool retains, and every   *)
(* thread gets an Execute command (begin_query).                           *)
Start ==
  /\ \A t \in Threads : pc[t] = "idle"
  /\ used' = Least(retained, GlobalCap)
  /\ initial' = used'
  /\ granted' = [t \in Threads |-> 0]
  /\ live' = [t \in Threads |-> 0]
  /\ pc' = [t \in Threads |-> "scan"]
  /\ UNCHANGED <<retained, reserved, idle, localVars>>

-----------------------------------------------------------------------------
(* SCAN: execute_chunks and set_live_bytes                                 *)

(* The window fits the arena.                                              *)
Fits(t) ==
  /\ pc[t] = "scan"
  /\ \E n \in Needs :
       /\ live[t] <= n /\ n <= reserved[t]
       /\ live' = [live EXCEPT ![t] = n]
  /\ UNCHANGED <<used, retained, reserved, idle, pc, localVars, historyVars>>

(* The multiples of GrowBytes above reserved, up to the first that holds n.     *)
Targets(t, n) == {m \in n .. n + GrowBytes - 1 : (m - reserved[t]) % GrowBytes = 0}

(* It does not: the arena must grow, up to its maximum.                    *)
Outgrows(t) ==
  /\ pc[t] = "scan"
  /\ \E n \in Needs : \E m \in Targets(t, n) :
       /\ live[t] <= n /\ n > reserved[t]
       /\ IF m > MaxBytes
            THEN Goto(t, "end") /\ UNCHANGED <<grow, need>>
            ELSE /\ Goto(t, "reserve")
                 /\ grow' = [grow EXCEPT ![t] = m - reserved[t]]
                 /\ need' = [need EXCEPT ![t] = n]
  /\ UNCHANGED <<used, retained, arenaVars, seen, desired, historyVars>>

(* Seeded fault: only what is used so far is compared with the cap.        *)
ReserveLate(t) ==
  /\ pc[t] = "reserve"
  /\ IF used > GlobalCap
       THEN Goto(t, "end") /\ UNCHANGED seen
       ELSE Goto(t, "swap") /\ seen' = [seen EXCEPT ![t] = used]
  /\ UNCHANGED <<used, retained, arenaVars, grow, need, desired, historyVars>>

(* try_reserve: load, compare with the cap.                                *)
Reserve(t) ==
  /\ pc[t] = "reserve"
  /\ IF used + grow[t] > GlobalCap
       THEN Goto(t, "end") /\ UNCHANGED seen
       ELSE Goto(t, "swap") /\ seen' = [seen EXCEPT ![t] = used]
  /\ UNCHANGED <<used, retained, arenaVars, grow, need, desired, historyVars>>

(* Seeded faults: fetch_add after the test, store after the test, and a    *)
(* loop that does not load again.                                          *)
SwapAdds(t) ==
  /\ pc[t] = "swap"
  /\ used' = used + grow[t]
  /\ granted' = [granted EXCEPT ![t] = @ + grow[t]]
  /\ Goto(t, "add")
  /\ UNCHANGED <<retained, arenaVars, localVars, initial>>

SwapStores(t) ==
  /\ pc[t] = "swap"
  /\ used' = seen[t] + grow[t]
  /\ granted' = [granted EXCEPT ![t] = @ + grow[t]]
  /\ Goto(t, "add")
  /\ UNCHANGED <<retained, arenaVars, localVars, initial>>

SwapInsists(t) ==
  /\ pc[t] = "swap" /\ used = seen[t]
  /\ used' = used + grow[t]
  /\ granted' = [granted EXCEPT ![t] = @ + grow[t]]
  /\ Goto(t, "add")
  /\ UNCHANGED <<retained, arenaVars, localVars, initial>>

(* compare_exchange, or another round.                                     *)
Swap(t) ==
  /\ pc[t] = "swap"
  /\ IF used = seen[t]
       THEN /\ used' = used + grow[t]
            /\ granted' = [granted EXCEPT ![t] = @ + grow[t]]
            /\ Goto(t, "add")
       ELSE Goto(t, "reserve") /\ UNCHANGED <<used, granted>>
  /\ UNCHANGED <<retained, arenaVars, localVars, initial>>

(* add_live, and the arena has grown.                                      *)
AddLive(t) ==
  /\ pc[t] = "add"
  /\ retained' = retained + grow[t]
  /\ reserved' = [reserved EXCEPT ![t] = @ + grow[t]]
  /\ live' = [live EXCEPT ![t] = need[t]]
  /\ Goto(t, "scan")
  /\ UNCHANGED <<used, idle, localVars, historyVars>>

(* A string-heavy query empties a window that is full.                     *)
Flush(t) ==
  /\ pc[t] = "scan"
  /\ live' = [live EXCEPT ![t] = 0]
  /\ UNCHANGED <<used, retained, reserved, idle, pc, localVars, historyVars>>

(* No chunk is left: reset_live_bytes.  When a chunk fails, that line is   *)
(* not reached.                                                            *)
Finish(t) ==
  /\ pc[t] = "scan"
  /\ \/ live' = [live EXCEPT ![t] = 0]
     \/ UNCHANGED live
  /\ Goto(t, "end")
  /\ UNCHANGED <<used, retained, reserved, idle, localVars, historyVars>>

-----------------------------------------------------------------------------
(* END: end_query and adjust_retained                                      *)

Kept(t) ==
  CASE Policy = "release" -> BaseBytes
    [] Policy = "keep"    -> reserved[t]
    [] Policy = "upto"    -> Least(reserved[t], Greatest(KeepUpTo, BaseBytes))

EndQuery(t) ==
  /\ pc[t] = "end"
  /\ idle' = [idle EXCEPT ![t] = IF live[t] <= BaseBytes THEN Least(@ + 1, Decay) ELSE 0]
  /\ desired' = [desired EXCEPT ![t] =
                   IF idle'[t] >= Decay THEN Least(Kept(t), BaseBytes) ELSE Kept(t)]
  /\ Goto(t, "load")
  /\ UNCHANGED <<used, retained, reserved, live, seen, grow, need, historyVars>>

LoadRetained(t) ==
  /\ pc[t] = "load"
  /\ seen' = [seen EXCEPT ![t] = retained]
  /\ Goto(t, "adjust")
  /\ UNCHANGED <<used, retained, arenaVars, grow, need, desired, historyVars>>

(* What the others retain, by this thread's account, and what it may keep. *)
Others(t)   == Monus(seen[t], reserved[t])
Accepted(t) == Least(desired[t], Monus(RetainedCap, Others(t)))

(* Seeded fault: the total is stored without a comparison.                 *)
AdjustStores(t) ==
  /\ pc[t] = "adjust"
  /\ retained' = Others(t) + Accepted(t)
  /\ reserved' = [reserved EXCEPT ![t] = Greatest(Accepted(t), BaseBytes)]
  /\ live' = [live EXCEPT ![t] = 0]
  /\ Goto(t, "idle")
  /\ UNCHANGED <<used, idle, localVars, historyVars>>

(* compare_exchange, or another round.  The arena keeps its base, whatever *)
(* was accepted.                                                           *)
Adjust(t) ==
  /\ pc[t] = "adjust"
  /\ IF retained = seen[t]
       THEN /\ retained' = Others(t) + Accepted(t)
            /\ reserved' = [reserved EXCEPT ![t] = Greatest(Accepted(t), BaseBytes)]
            /\ live' = [live EXCEPT ![t] = 0]
            /\ Goto(t, "idle")
       ELSE Goto(t, "load") /\ UNCHANGED <<retained, reserved, live>>
  /\ UNCHANGED <<used, idle, localVars, historyVars>>

-----------------------------------------------------------------------------
ScanStep(t) == Fits(t) \/ Outgrows(t) \/ Flush(t) \/ Finish(t)

BudgetStep(t) ==
  Reserve(t) \/ Swap(t) \/ AddLive(t) \/ EndQuery(t) \/ LoadRetained(t) \/ Adjust(t)

Next == Start \/ \E t \in Threads : ScanStep(t) \/ BudgetStep(t)

Spec == Init /\ [][Next]_vars

(* Every thread runs; how long a scan takes is left open.                  *)
FairSpec == Spec /\ \A t \in Threads : WF_vars(BudgetStep(t))

-----------------------------------------------------------------------------
(* PROPERTIES                                                              *)

(* However the threads interleave their loads and swaps, a query's budget  *)
(* never goes over its cap.                                                *)
BudgetCapped == used <= GlobalCap

(* ... and no grant is lost or counted twice: the budget is what was       *)
(* retained before the query plus what it granted.                         *)
BudgetExact == used = initial + SumOver(granted)

(* At rest the count of retained bytes is what the arenas hold.  (The test *)
(* concurrent_growth_caps_and_abort_cleanup asserts it of two workers.)    *)
RetainedExact ==
  (\A t \in Threads : pc[t] = "idle") => retained = SumOver(reserved)

(* What the arenas really hold stays below the cap, in this query and all  *)
(* that follow: this needs the count of retained bytes to be exact.        *)
ArenasWithinCap == SumOver(reserved) <= GlobalCap

(* The compare-and-swap loops end: a thread that asks the budget, or gives *)
(* back, has its answer although the others change the totals meanwhile.   *)
EveryRequestEnds ==
  \A t \in Threads :
    /\ pc[t] \in {"reserve", "swap"} ~> pc[t] \in {"scan", "end"}
    /\ pc[t] \in {"load", "adjust"} ~> pc[t] = "idle"

-----------------------------------------------------------------------------
(* THE INDUCTIVE INVARIANT                                                 *)

(* Types, and a thread about to swap has compared its sum with the cap.    *)
BudgetInv ==
  /\ used \in 0 .. GlobalCap
  /\ retained \in Nat
  /\ reserved \in [Threads -> Nat]
  /\ seen \in [Threads -> Nat]
  /\ grow \in [Threads -> Nat]
  /\ desired \in [Threads -> Nat]
  /\ pc \in [Threads -> Places]
  /\ \A t \in Threads : pc[t] = "swap" => seen[t] + grow[t] <= GlobalCap

(* The size of an arena, now and when its growth has gone through, and the *)
(* size it wants to keep.                                                  *)
SizesInv ==
  \A t \in Threads :
    /\ BaseBytes <= reserved[t] /\ reserved[t] <= MaxBytes
    /\ pc[t] \in {"reserve", "swap", "add"} => reserved[t] + grow[t] <= MaxBytes
    /\ pc[t] \in {"load", "adjust"} => BaseBytes <= desired[t] /\ desired[t] <= reserved[t]

(* The grants of the query that runs.                                      *)
GrantsInv ==
  /\ initial \in Nat
  /\ granted \in [Threads -> Nat]
  /\ BudgetExact

(* Whatever the caps are, the total never counts more than the arenas hold.*)
RetainedNotOver == retained <= SumOver(reserved)

(* The retained cap leaves a thread its base when the others are full.     *)
Roomy == (Cardinality(Threads) - 1) * MaxBytes + BaseBytes <= RetainedCap

(* The cap of a query is above what a new pool holds.                      *)
BasesFit == Cardinality(Threads) * BaseBytes <= GlobalCap

(* What a thread was granted and has not yet added to its arena.           *)
Coming == [t \in Threads |-> IF pc[t] = "add" THEN grow[t] ELSE 0]

(* Then the total is exact at every moment, and while a query runs its     *)
(* budget covers the arenas with what is coming to them.                   *)
RoomyInv ==
  Roomy =>
    /\ retained = SumOver(reserved)
    /\ BasesFit =>
         /\ ArenasWithinCap
         /\ (\E t \in Threads : pc[t] # "idle") => SumOver(reserved) + SumOver(Coming) <= used

ArenaInv == BudgetInv /\ SizesInv /\ GrantsInv /\ RetainedNotOver /\ RoomyInv
=============================================================================
