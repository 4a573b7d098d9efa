----------------------------- MODULE ChunkQueue -----------------------------
(***************************************************************************)
(* One call of runChunkTasks (src/runtime/exec/chunks.ts): a queue of      *)
(* chunks shared by several async loops (one per worker handle, or a       *)
(* single local one).  The queue prefetches chunk payloads, at most        *)
(* PrefetchCap at a time, hands each chunk to the loop that asks next, and *)
(* the loops run onChunk on it.  Promise.all over the loops settles the    *)
(* call: it rejects with the FIRST error, and the other loops go on.       *)
(*                                                                         *)
(* JavaScript runs a callback to its next await without interruption, so   *)
(* an action here is the code between two awaits.                          *)
(***************************************************************************)
EXTENDS Integers, FiniteSets

CONSTANTS
  NChunks,    (* ctx.header.nchunks                                       *)
  Loops,      (* the concurrent runOne calls                              *)
  EarlyLimit, (* options.earlyLimit, 0 when absent                        *)
  ChunkRows,  (* the numbers of rows one chunk may add to the plan        *)
  NoChunk     (* the task of a loop that holds none                       *)

Chunks == 0 .. NChunks - 1

(* Only runLocalChunks passes an early limit, and it starts one loop.      *)
ASSUME QueueAssumption ==
  /\ NChunks \in Nat
  /\ IsFiniteSet(Loops) /\ Loops # {}
  /\ EarlyLimit \in Nat
  /\ EarlyLimit > 0 => Cardinality(Loops) = 1
  /\ ChunkRows \subseteq Nat
  /\ NoChunk \notin Int

VARIABLES
  build,     (* the next chunk to prefetch                                *)
  dispatch,  (* the next chunk to hand to a loop                          *)
  load,      (* what became of each chunk's prefetch promise              *)
  loop,      (* where each runOne loop stands                             *)
  task,      (* the chunk a loop holds                                    *)
  scanned,   (* chunks whose onChunk succeeded                            *)
  rows,      (* plan_rows_len of the plan the loops fill                  *)
  outcome    (* the promise runChunkTasks returned                        *)

vars == <<build, dispatch, load, loop, task, scanned, rows, outcome>>

LoadStates == {"none", "loading", "ready", "failed", "taken"}
LoopStates == {"next", "await", "run", "done", "dead"}

TypeOK ==
  /\ build \in 0 .. NChunks
  /\ dispatch \in 0 .. NChunks
  /\ load \in [Chunks -> LoadStates]
  /\ loop \in [Loops -> LoopStates]
  /\ task \in [Loops -> Chunks \cup {NoChunk}]
  /\ scanned \subseteq Chunks
  /\ rows \in Nat
  /\ outcome \in {"running", "resolved", "rejected"}

-----------------------------------------------------------------------------
(* The staged map: an entry lives from its prefetch to staged.delete, which *)
(* a failed prefetch never reaches.                                         *)
Staged(ld) == {c \in Chunks : ld[c] \in {"loading", "ready", "failed"}}

PrefetchCap ==
  IF 2 * Cardinality(Loops) > 4 THEN 2 * Cardinality(Loops) ELSE 4

(* Seeded fault: the staging loop tests size <= cap.                       *)
StageToOneMore(ld) ==
  LET room == PrefetchCap + 1 - Cardinality(Staged(ld))
  IN  IF room <= 0 THEN build
      ELSE IF build + room < NChunks THEN build + room ELSE NChunks

(* How far stage() advances build, from a map in state ld.                 *)
StageTo(ld) ==
  LET room == PrefetchCap - Cardinality(Staged(ld))
  IN  IF room <= 0 THEN build
      ELSE IF build + room < NChunks THEN build + room ELSE NChunks

Stage(ld) ==
  /\ build' = StageTo(ld)
  /\ load' = [c \in Chunks |->
                IF c \in build .. StageTo(ld) - 1 THEN "loading" ELSE ld[c]]

Reject == outcome' = IF outcome = "running" THEN "rejected" ELSE outcome

-----------------------------------------------------------------------------
Init ==
  /\ build = 0
  /\ dispatch = 0
  /\ load = [c \in Chunks |-> "none"]
  /\ loop = [l \in Loops |-> "next"]
  /\ task = [l \in Loops |-> NoChunk]
  /\ scanned = {}
  /\ rows = 0
  /\ outcome = "running"

(* Seeded fault: next() does not stage before it takes a chunk.            *)
ClaimUnstaged(l) ==
  /\ loop[l] = "next"
  /\ dispatch < NChunks
  /\ dispatch' = dispatch + 1
  /\ task' = [task EXCEPT ![l] = dispatch]
  /\ loop' = [loop EXCEPT ![l] = "await"]
  /\ UNCHANGED <<build, load, scanned, rows, outcome>>

(* Seeded fault: the chunk id is read, and advanced by nobody.             *)
ClaimWithoutAdvance(l) ==
  /\ loop[l] = "next"
  /\ dispatch < NChunks
  /\ Stage(load)
  /\ task' = [task EXCEPT ![l] = dispatch]
  /\ loop' = [loop EXCEPT ![l] = "await"]
  /\ UNCHANGED <<dispatch, scanned, rows, outcome>>

(* next(): stage, take the next chunk id and wait for its payload.         *)
Claim(l) ==
  /\ loop[l] = "next"
  /\ dispatch < NChunks
  /\ Stage(load)
  /\ dispatch' = dispatch + 1
  /\ task' = [task EXCEPT ![l] = dispatch]
  /\ loop' = [loop EXCEPT ![l] = "await"]
  /\ UNCHANGED <<scanned, rows, outcome>>

(* Seeded fault: the last chunk counts as the end of the file.             *)
ExhaustedEarly(l) ==
  /\ loop[l] = "next"
  /\ dispatch >= NChunks - 1
  /\ Stage(load)
  /\ loop' = [loop EXCEPT ![l] = "done"]
  /\ UNCHANGED <<dispatch, task, scanned, rows, outcome>>

(* Seeded fault: the loop goes on after next() has returned null.          *)
ExhaustedIgnored(l) ==
  /\ loop[l] = "next"
  /\ dispatch >= NChunks
  /\ Stage(load)
  /\ UNCHANGED <<dispatch, loop, task, scanned, rows, outcome>>

(* next() returns null and the loop breaks.                                *)
Exhausted(l) ==
  /\ loop[l] = "next"
  /\ dispatch >= NChunks
  /\ Stage(load)
  /\ loop' = [loop EXCEPT ![l] = "done"]
  /\ UNCHANGED <<dispatch, task, scanned, rows, outcome>>

(* loadChunkPayload settles: the source read and the plan call succeeded,  *)
(* or one of them threw.                                                   *)
Load(c) ==
  /\ load[c] = "loading"
  /\ \E s \in {"ready", "failed"} : load' = [load EXCEPT ![c] = s]
  /\ UNCHANGED <<build, dispatch, loop, task, scanned, rows, outcome>>

(* The payload arrives: drop the map entry, stage again, call onChunk.     *)
Receive(l) ==
  /\ loop[l] = "await"
  /\ load[task[l]] = "ready"
  /\ Stage([load EXCEPT ![task[l]] = "taken"])
  /\ loop' = [loop EXCEPT ![l] = "run"]
  /\ UNCHANGED <<dispatch, task, scanned, rows, outcome>>

(* The payload's promise rejected: next() throws before staged.delete.     *)
ReceiveError(l) ==
  /\ loop[l] = "await"
  /\ load[task[l]] = "failed"
  /\ loop' = [loop EXCEPT ![l] = "dead"]
  /\ Reject
  /\ UNCHANGED <<build, dispatch, load, task, scanned, rows>>

(* onChunk succeeds; the loop stops at the limit or asks for more.         *)
Run(l) ==
  /\ loop[l] = "run"
  /\ \E k \in ChunkRows : rows' = IF EarlyLimit = 0 THEN rows ELSE rows + k
  /\ scanned' = scanned \cup {task[l]}
  /\ task' = [task EXCEPT ![l] = NoChunk]
  /\ loop' = [loop EXCEPT ![l] = IF EarlyLimit > 0 /\ rows' >= EarlyLimit
                                   THEN "done" ELSE "next"]
  /\ UNCHANGED <<build, dispatch, load, outcome>>

(* Seeded fault: a failed chunk goes back to the queue.                    *)
RunErrorRequeues(l) ==
  /\ loop[l] = "run"
  /\ loop' = [loop EXCEPT ![l] = "next"]
  /\ dispatch' = task[l]
  /\ task' = [task EXCEPT ![l] = NoChunk]
  /\ UNCHANGED <<build, load, scanned, rows, outcome>>

(* onChunk throws.                                                         *)
RunError(l) ==
  /\ loop[l] = "run"
  /\ loop' = [loop EXCEPT ![l] = "dead"]
  /\ Reject
  /\ UNCHANGED <<build, dispatch, load, task, scanned, rows>>

(* Seeded fault: the call resolves with the first loop that returns.       *)
ResolveFirst ==
  /\ outcome = "running"
  /\ \E l \in Loops : loop[l] = "done"
  /\ outcome' = "resolved"
  /\ UNCHANGED <<build, dispatch, load, loop, task, scanned, rows>>

(* Promise.all resolves once every loop has returned.                      *)
Resolve ==
  /\ outcome = "running"
  /\ \A l \in Loops : loop[l] = "done"
  /\ outcome' = "resolved"
  /\ UNCHANGED <<build, dispatch, load, loop, task, scanned, rows>>

LoopStep(l) ==
  \/ Claim(l) \/ Exhausted(l) \/ Receive(l) \/ ReceiveError(l)
  \/ Run(l) \/ RunError(l)

Next ==
  \/ \E l \in Loops : LoopStep(l)
  \/ \E c \in Chunks : Load(c)
  \/ Resolve

Spec == Init /\ [][Next]_vars

(* Every promise the loops await settles: reads return or throw, onChunk   *)
(* returns or throws, and the event loop runs what is ready.               *)
Fairness ==
  /\ \A l \in Loops : WF_vars(LoopStep(l))
  /\ \A c \in Chunks : WF_vars(Load(c))
  /\ WF_vars(Resolve)

FairSpec == Spec /\ Fairness

-----------------------------------------------------------------------------
(* PROPERTIES                                                              *)

(* `staged.get(chunkId)!` asserts that a chunk handed to a loop has a map  *)
(* entry.  It needs prefetching to stay ahead of dispatching even when     *)
(* failed entries keep their slots, which is why the cap is twice the      *)
(* concurrency: a loop that waits always waits for a prefetch that exists. *)
ClaimIsStaged ==
  \A l \in Loops : loop[l] = "await" => task[l] \in Staged(load)

(* Memory: no more than PrefetchCap payloads are held by the queue, through *)
(* any order of completions and errors.                                     *)
PrefetchBounded == Cardinality(Staged(load)) <= PrefetchCap

(* No chunk is ever in two hands, or in a hand again after its scan: the   *)
(* workers scan disjoint chunks.                                           *)
Disjoint ==
  /\ \A l, m \in Loops :
       l # m /\ task[l] # NoChunk => task[l] # task[m]
  /\ \A l \in Loops : task[l] \notin scanned

(* runChunkTasks resolves only when every chunk was scanned, or when the   *)
(* rows found reach the limit.                                             *)
CompleteWhenResolved ==
  outcome = "resolved" =>
    scanned = Chunks \/ (EarlyLimit > 0 /\ rows >= EarlyLimit)

(* The call settles, whatever fails, and so does every loop: none waits    *)
(* forever for a payload.                                                  *)
Settles == <>(outcome # "running" /\ \A l \in Loops : loop[l] \in {"done", "dead"})

-----------------------------------------------------------------------------
(* The inductive invariant behind the safety properties.                   *)

(* build separates the chunks whose prefetch has begun; those not yet      *)
(* dispatched are all in the map.                                          *)
Frontier ==
  /\ dispatch <= build
  /\ \A c \in Chunks : load[c] = "none" <=> c >= build
  /\ \A c \in Chunks : c >= dispatch /\ c < build => c \in Staged(load)

(* A dispatched chunk still in the map is awaited by a loop, or is the     *)
(* failed prefetch that killed one: this bounds what can clog the cap.     *)
Accounted ==
  \A c \in Staged(load) : c < dispatch =>
    \E l \in Loops : loop[l] \in {"await", "dead"} /\ task[l] = c

(* What each loop holds, by its place; every dispatched chunk is scanned   *)
(* or held.                                                                *)
Holding ==
  /\ \A l \in Loops :
       IF loop[l] \in {"next", "done"}
         THEN task[l] = NoChunk
         ELSE task[l] \in Chunks /\ task[l] < dispatch
  /\ \A c \in scanned : c < dispatch
  /\ \A c \in Chunks : c < dispatch =>
       c \in scanned \/ \E l \in Loops : task[l] = c

(* Why a loop, and the call, may have stopped.                             *)
Stopped ==
  /\ outcome = "resolved" => \A l \in Loops : loop[l] = "done"
  /\ \A l \in Loops : loop[l] = "done" =>
       dispatch = NChunks \/ (EarlyLimit > 0 /\ rows >= EarlyLimit)

(* Each property alone is not preserved by every step; together they are.  *)
IndInv ==
  /\ TypeOK
  /\ Frontier
  /\ Accounted
  /\ Holding
  /\ Stopped
  /\ ClaimIsStaged
  /\ PrefetchBounded
  /\ Disjoint

-----------------------------------------------------------------------------
(* The queue implements the abstract scan.                                 *)
Scan == INSTANCE ChunkScan WITH
  Workers   <- Loops,
  unclaimed <- dispatch .. NChunks - 1,
  claim     <- [l \in Loops |-> IF loop[l] = "dead" THEN NoChunk ELSE task[l]],
  enough    <- EarlyLimit > 0 /\ rows >= EarlyLimit,
  result    <- CASE outcome = "running"  -> "running"
                 [] outcome = "resolved" -> "complete"
                 [] outcome = "rejected" -> "failed"

(* Every step of the queue is a step of the scan: a chunk is claimed by    *)
(* one loop, scanned once, and success is reported only for a full scan.   *)
ImplementsScan == Scan!Spec
=============================================================================
