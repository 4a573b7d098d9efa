------------------------------ MODULE QueryExec ------------------------------
(***************************************************************************)
(* The life of the queries of one open file: WcolFile.query, the query     *)
(* lock, runChunkQuery with its worker pool, chunk loops, reduction and    *)
(* local fallback, and the message protocol between a worker handle and    *)
(* its worker.  Composes the lock (FifoLock), one chunk queue per query    *)
(* and path (ChunkQueue), the worker handles (createWorkerHandle) and the  *)
(* workers (createWorkerCore).                                             *)
(*                                                                         *)
(* Every query here is one with a plan message and more than one worker:   *)
(* the pool path.  A query may also take the local path at once (approx-   *)
(* imate distinct counts).                                                 *)
(***************************************************************************)
EXTENDS Integers, FiniteSets, Sequences

CONSTANTS
  Queries,    (* calls of WcolFile.query on one file                       *)
  Warmers,    (* calls of WcolFile.warmWorkers on it                       *)
  Workers,    (* the workers of the pool, and their handles                *)
  Explicit,   (* queries whose caller passed options.workers               *)
  Approx,     (* queries whose plan may count distinct values approximately*)
  Limited,    (* queries with a limit the local path may stop at           *)
  Pruned,     (* chunks the filters of every query rule out                *)
  NChunks,    (* ctx.header.nchunks                                        *)
  Faults,     (* the kinds of faults that may happen                       *)
  MaxFaults,  (* how many may happen in a behaviour                        *)
  Local,      (* the loop of runLocalChunks                                *)
  None        (* absence of a chunk, a plan or a setPlan call              *)

Chunks   == 0 .. NChunks - 1
Planners == Queries \cup Warmers   (* whoever calls pool.setPlan           *)
Loops    == Workers \cup {Local}
Paths    == {"pool", "local"}

(* Seeded fault: the fallback goes on with the queue of the failed scan.   *)
PathShared(x) == "pool"

(* runChunkTasks makes a queue per call: one for the workers of a query,   *)
(* one for its local loop.                                                 *)
Path(x) == IF x = Local THEN "local" ELSE "pool"

(* apply: applyPlan throws on the main thread; spawn: createWorkerPool     *)
(* rejects; plan, exec: applyPlan, plan_exec_chunk fail in a worker; read: *)
(* source.read throws; local: plan_exec_chunk fails on the main thread;    *)
(* reduce: reducePartials throws; crash: a Node worker exits with an error.*)
FaultKinds ==
  {"apply", "spawn", "plan", "exec", "read", "local", "reduce", "crash"}

(* NChunks <= 4: the prefetch cap is at least four, so the first call of   *)
(* next() stages every chunk; ChunkQueue treats longer files.              *)
ASSUME QueryAssumption ==
  /\ Explicit \cup Approx \cup Limited \subseteq Queries
  /\ Pruned \subseteq Chunks
  /\ NChunks \in 1 .. 4
  /\ Faults \subseteq FaultKinds
  /\ MaxFaults \in Nat
  /\ IsFiniteSet(Workers) /\ Workers # {} /\ Local \notin Workers
  /\ None \notin Planners \cup Chunks

VARIABLES
  phase, ahead,  (* the query lock, as in FifoLock                         *)
  step,      (* where each query stands in runChunkQuery                   *)
  answer,    (* how it ended: pool, local or error                         *)
  base,      (* its plan handle on the main thread                         *)
  ack,       (* the promise of setPlan, per caller and worker              *)
  dispatch,  (* the next chunk of each query's queues                      *)
  load,      (* the prefetch promises of each query's queues               *)
  reqCache,  (* the query whose plan plan_required_pages last looked up    *)
  loop,      (* the runOne loops of each query                             *)
  task,      (* the chunk each loop holds                                  *)
  partial,   (* the plan under which each chunk's partial was computed     *)
  merged,    (* chunks executed on the base plan by the local path         *)
  poolUp,    (* ctx.workerPool is set                                      *)
  pending,   (* per handle: the (query, chunk) tasks in its pending map    *)
  bound,     (* per handle: whose setPlan owns plannedResolve              *)
  inbox, outbox,  (* messages to and from each worker, in order            *)
  wplan,     (* a worker's planHandle: whose plan, still live, executed on *)
  up,        (* the worker thread runs                                     *)
  warm,      (* where each warmWorkers call stands                         *)
  faults     (* faults so far                                              *)

lockVars   == <<phase, ahead>>
queryVars  == <<step, answer, base>>
loopVars   == <<dispatch, load, reqCache, loop, task>>
resultVars == <<partial, merged>>
handleVars == <<ack, bound, pending>>
workerVars == <<inbox, outbox, wplan, up>>
vars == <<lockVars, queryVars, loopVars, resultVars, handleVars, workerVars,
          poolUp, warm, faults>>

Lock == INSTANCE FifoLock WITH Calls <- Queries

LoadStates == {"none", "reading", "ready", "pruned", "failed", "taken"}
LoopStates == {"off", "next", "await", "run", "done", "dead"}
Steps == {"none", "acquire", "plan", "scan", "reduce", "local", "settled", "done"}

Messages ==
  [type : {"plan"}, by : Planners]
    \cup [type : {"task"}, by : Queries, chunk : Chunks]
    \cup [type : {"result"}, by : Queries, chunk : Chunks, under : Planners]
    \cup [type : {"planned", "error"}]

QueryTypes ==
  /\ Lock!TypeOK
  /\ step \in [Queries -> Steps]
  /\ answer \in [Queries -> {"none", "pool", "local", "error"}]
  /\ base \in [Queries -> {"none", "live", "destroyed"}]
  /\ poolUp \in BOOLEAN
  /\ warm \in [Warmers -> {"idle", "plan", "done"}]
  /\ faults \in 0 .. MaxFaults

LoopTypes ==
  /\ dispatch \in [Queries -> [Paths -> 0 .. NChunks]]
  /\ load \in [Queries -> [Paths -> [Chunks -> LoadStates]]]
  /\ reqCache \in Queries \cup {None}
  /\ loop \in [Queries -> [Loops -> LoopStates]]
  /\ task \in [Queries -> [Loops -> Chunks \cup {None}]]
  /\ partial \in [Queries -> [Chunks -> Planners \cup {None}]]
  /\ merged \in [Queries -> SUBSET Chunks]

HandleTypes ==
  /\ ack \in [Planners -> [Workers -> {"none", "wait", "ok", "err"}]]
  /\ bound \in [Workers -> Planners \cup {None}]
  /\ pending \in [Workers -> SUBSET (Queries \X Chunks)]

WorkerTypes ==
  /\ inbox \in [Workers -> Seq(Messages)]
  /\ outbox \in [Workers -> Seq(Messages)]
  /\ wplan \in [Workers -> [by : Planners \cup {None}, live : BOOLEAN, ran : BOOLEAN]]
  /\ up \in [Workers -> BOOLEAN]

TypeOK == QueryTypes /\ LoopTypes /\ HandleTypes /\ WorkerTypes

-----------------------------------------------------------------------------
Init ==
  /\ Lock!Init
  /\ step = [q \in Queries |-> "none"]
  /\ answer = [q \in Queries |-> "none"]
  /\ base = [q \in Queries |-> "none"]
  /\ ack = [p \in Planners |-> [w \in Workers |-> "none"]]
  /\ dispatch = [q \in Queries |-> [m \in Paths |-> 0]]
  /\ load = [q \in Queries |-> [m \in Paths |-> [c \in Chunks |-> "none"]]]
  /\ loop = [q \in Queries |-> [x \in Loops |-> "off"]]
  /\ task = [q \in Queries |-> [x \in Loops |-> None]]
  /\ partial = [q \in Queries |-> [c \in Chunks |-> None]]
  /\ merged = [q \in Queries |-> {}]
  /\ poolUp = FALSE
  /\ pending = [w \in Workers |-> {}]
  /\ bound = [w \in Workers |-> None]
  /\ inbox = [w \in Workers |-> <<>>]
  /\ outbox = [w \in Workers |-> <<>>]
  /\ wplan = [w \in Workers |-> [by |-> None, live |-> FALSE, ran |-> FALSE]]
  /\ reqCache = None
  /\ up = [w \in Workers |-> TRUE]
  /\ warm = [p \in Warmers |-> "idle"]
  /\ faults = 0

Fault(kind) ==
  /\ kind \in Faults
  /\ faults < MaxFaults
  /\ faults' = faults + 1

NoFault == UNCHANGED faults

(* postMessage to a thread that has exited goes nowhere.                   *)
Post(w, msg) == IF up[w] THEN Append(inbox[w], msg) ELSE inbox[w]

-----------------------------------------------------------------------------
(* QUERY: WcolFile.query and runChunkQuery                                 *)

(* create_plan, plan_reset_results and applyPlan, then the lock.           *)
Ask(q) ==
  /\ step[q] = "none"
  /\ Lock!Ask(q)
  /\ base' = [base EXCEPT ![q] = "live"]
  /\ UNCHANGED <<step, answer, loopVars, resultVars, handleVars, workerVars,
                 poolUp, warm, faults>>

(* applyPlan throws: the plan handle is left behind.                       *)
Invalid(q) ==
  /\ step[q] = "none" /\ phase[q] = "idle"
  /\ Fault("apply")
  /\ base' = [base EXCEPT ![q] = "live"]
  /\ answer' = [answer EXCEPT ![q] = "error"]
  /\ step' = [step EXCEPT ![q] = "done"]
  /\ UNCHANGED <<lockVars, loopVars, resultVars, handleVars, workerVars,
                 poolUp, warm>>

StartLocal(q) ==
  /\ step' = [step EXCEPT ![q] = "local"]
  /\ loop' = [loop EXCEPT ![q][Local] = "next"]
  /\ UNCHANGED <<lockVars, answer>>

(* The finally block of withContextLock.                                   *)
Settle(q, a) ==
  /\ step' = [step EXCEPT ![q] = "settled"]
  /\ answer' = [answer EXCEPT ![q] = a]
  /\ Lock!Release(q)
  /\ UNCHANGED loop

(* Seeded fault: every failure of the pool falls back.                     *)
CatchAlwaysFallsBack(q) == StartLocal(q)

(* The catch block of runChunkQuery: no silent fallback when the caller    *)
(* chose the number of workers.                                            *)
Catch(q) == IF q \in Explicit THEN Settle(q, "error") ELSE StartLocal(q)

(* Seeded fault: a query starts without waiting for those before it.       *)
BeginAtOnce(q) ==
  /\ phase[q] = "waiting"
  /\ phase' = [phase EXCEPT ![q] = "inside"]
  /\ step' = [step EXCEPT ![q] = "acquire"]
  /\ UNCHANGED <<ahead, answer, base, loopVars, resultVars, handleVars,
                 workerVars, poolUp, warm, faults>>

(* withContextLock lets the query in.  A plan with approximate distinct    *)
(* counts takes the local path at once, any other the pool path.           *)
Begin(q) ==
  /\ Lock!Grant(q)
  /\ \/ /\ q \in Approx
        /\ step' = [step EXCEPT ![q] = "local"]
        /\ loop' = [loop EXCEPT ![q][Local] = "next"]
     \/ /\ step' = [step EXCEPT ![q] = "acquire"]
        /\ UNCHANGED loop
  /\ UNCHANGED <<answer, base, dispatch, load, reqCache, task, resultVars, handleVars,
                 workerVars, poolUp, warm, faults>>

(* pool.setPlan: every handle takes a new pair of plannedResolve/Reject.   *)
SetPlan(p) ==
  /\ ack' = [ack EXCEPT ![p] = [w \in Workers |-> "wait"]]
  /\ bound' = [w \in Workers |-> p]
  /\ inbox' = [w \in Workers |-> Post(w, [type |-> "plan", by |-> p])]
  /\ UNCHANGED <<pending, outbox, wplan, up>>

(* acquireExecutors: reuse the pool of the context or create it.           *)
Acquire(q) ==
  /\ step[q] = "acquire"
  /\ poolUp' = TRUE
  /\ SetPlan(q)
  /\ step' = [step EXCEPT ![q] = "plan"]
  /\ UNCHANGED <<lockVars, answer, base, loopVars, resultVars, warm, faults>>

(* createWorkerPool rejects.                                               *)
SpawnFails(q) ==
  /\ step[q] = "acquire" /\ ~poolUp
  /\ Fault("spawn")
  /\ Catch(q)
  /\ UNCHANGED <<base, dispatch, load, reqCache, task, resultVars, handleVars,
                 workerVars, poolUp, warm>>

(* Every setPlan has resolved: start one loop per worker.                  *)
Planned(q) ==
  /\ step[q] = "plan"
  /\ \A w \in Workers : ack[q][w] = "ok"
  /\ step' = [step EXCEPT ![q] = "scan"]
  /\ loop' = [loop EXCEPT ![q] = [x \in Loops |-> IF x \in Workers THEN "next" ELSE @[x]]]
  /\ UNCHANGED <<lockVars, answer, base, dispatch, load, reqCache, task, resultVars,
                 handleVars, workerVars, poolUp, warm, faults>>

(* Promise.all rejects with the first rejection of a setPlan or of a loop. *)
PoolFails(q) ==
  /\ \/ step[q] = "plan" /\ \E w \in Workers : ack[q][w] = "err"
     \/ step[q] = "scan" /\ \E w \in Workers : loop[q][w] = "dead"
  /\ Catch(q)
  /\ UNCHANGED <<base, dispatch, load, reqCache, task, resultVars, handleVars,
                 workerVars, poolUp, warm, faults>>

(* Seeded fault: the scan ends with the first loop that returns.           *)
ScanEndsFirst(q) ==
  /\ step[q] = "scan"
  /\ \E w \in Workers : loop[q][w] = "done"
  /\ step' = [step EXCEPT ![q] = "reduce"]
  /\ UNCHANGED <<lockVars, answer, base, loopVars, resultVars, handleVars,
                 workerVars, poolUp, warm, faults>>

(* runChunkTasks resolves: every loop has returned.                        *)
ScanEnds(q) ==
  /\ step[q] = "scan"
  /\ \A w \in Workers : loop[q][w] = "done"
  /\ step' = [step EXCEPT ![q] = "reduce"]
  /\ UNCHANGED <<lockVars, answer, base, loopVars, resultVars, handleVars,
                 workerVars, poolUp, warm, faults>>

(* `return reducePartials(...)` leaves the try block before it settles:    *)
(* its rejection is the query's, not the catch block's.                    *)
Reduce(q) ==
  /\ step[q] = "reduce"
  /\ \/ Settle(q, "pool") /\ NoFault
     \/ Settle(q, "error") /\ Fault("reduce")
  /\ UNCHANGED <<base, dispatch, load, reqCache, task, resultVars, handleVars,
                 workerVars, poolUp, warm>>

(* runLocalChunks returns the result of the plan, or throws.               *)
LocalEnds(q) ==
  /\ step[q] = "local"
  /\ \/ loop[q][Local] = "done" /\ Settle(q, "local")
     \/ loop[q][Local] = "dead" /\ Settle(q, "error")
  /\ UNCHANGED <<base, dispatch, load, reqCache, task, resultVars, handleVars,
                 workerVars, poolUp, warm, faults>>

(* Back in WcolFile.query: destroy_plan, unless executePlan threw.         *)
Return(q) ==
  /\ step[q] = "settled"
  /\ step' = [step EXCEPT ![q] = "done"]
  /\ base' = IF answer[q] = "error" THEN base ELSE [base EXCEPT ![q] = "destroyed"]
  /\ UNCHANGED <<lockVars, answer, loopVars, resultVars, handleVars,
                 workerVars, poolUp, warm, faults>>

-----------------------------------------------------------------------------
(* CHUNK LOOPS: createChunkQueue and runOne, for each query and path.  A   *)
(* loop of a query that has been answered goes on: nothing stops it.       *)

Staged(q, m) ==
  [c \in Chunks |-> IF load[q][m][c] = "none" THEN "reading" ELSE load[q][m][c]]

(* Seeded fault: the test for the end of the file comes one chunk late.    *)
LeftOneMore(q, m) == dispatch[q][m] <= NChunks

(* Chunks are left to dispatch.                                            *)
Left(q, m) == dispatch[q][m] < NChunks

(* next(): stage everything, take a chunk and wait for its payload, or end.*)
Claim(q, x) ==
  LET m == Path(x) IN
  /\ loop[q][x] = "next"
  /\ load' = [load EXCEPT ![q][m] = Staged(q, m)]
  /\ IF Left(q, m)
       THEN /\ task' = [task EXCEPT ![q][x] = dispatch[q][m]]
            /\ dispatch' = [dispatch EXCEPT ![q][m] = @ + 1]
            /\ loop' = [loop EXCEPT ![q][x] = "await"]
       ELSE /\ loop' = [loop EXCEPT ![q][x] = "done"]
            /\ UNCHANGED <<task, dispatch>>
  /\ UNCHANGED <<lockVars, queryVars, reqCache, resultVars, handleVars,
                 workerVars, poolUp, warm, faults>>

(* loadChunkPayload: the index has been read and plan_required_pages runs  *)
(* on the query's plan handle.  If the plan has been destroyed meanwhile   *)
(* the call fails, unless the plan is the one whose pointer is cached: it  *)
(* then reads freed memory and may do anything.                            *)
UsePlan(q, m, c) ==
  /\ load[q][m][c] = "reading"
  /\ \/ /\ base[q] = "live" \/ reqCache = q
        /\ load' = [load EXCEPT ![q][m][c] = IF c \in Pruned THEN "pruned" ELSE "ready"]
        /\ reqCache' = q
     \/ /\ base[q] = "destroyed"
        /\ load' = [load EXCEPT ![q][m][c] = "failed"]
        /\ UNCHANGED reqCache
  /\ UNCHANGED <<lockVars, queryVars, dispatch, loop, task, resultVars,
                 handleVars, workerVars, poolUp, warm, faults>>

(* source.read throws.                                                     *)
ReadFails(q, m, c) ==
  /\ load[q][m][c] = "reading"
  /\ Fault("read")
  /\ load' = [load EXCEPT ![q][m][c] = "failed"]
  /\ UNCHANGED <<lockVars, queryVars, dispatch, reqCache, loop, task, resultVars,
                 handleVars, workerVars, poolUp, warm>>

(* The payload's promise settles: call onChunk, which posts the task to    *)
(* the loop's worker; or the loop throws.                                  *)
Receive(q, x) ==
  LET c == task[q][x]
      s == load[q][Path(x)][c] IN
  /\ loop[q][x] = "await"
  /\ s \in {"ready", "pruned", "failed"}
  /\ loop' = [loop EXCEPT ![q][x] = IF s = "failed" THEN "dead" ELSE "run"]
  /\ load' = IF s = "failed" THEN load ELSE [load EXCEPT ![q][Path(x)][c] = "taken"]
  /\ IF x \in Workers /\ s = "ready"
       THEN /\ pending' = [pending EXCEPT ![x] = @ \cup {<<q, c>>}]
            /\ inbox' = [inbox EXCEPT ![x] =
                 Post(x, [type |-> "task", by |-> q, chunk |-> c])]
       ELSE UNCHANGED <<pending, inbox>>
  /\ UNCHANGED <<lockVars, queryVars, dispatch, reqCache, task, resultVars, ack, bound,
                 outbox, wplan, up, poolUp, warm, faults>>

(* A pruned chunk contributes an empty partial without asking the worker.  *)
EmptyPartial(q, x) ==
  /\ x \in Workers /\ loop[q][x] = "run"
  /\ task[q][x] \in Pruned
  /\ partial' = [partial EXCEPT ![q][task[q][x]] = q]
  /\ loop' = [loop EXCEPT ![q][x] = "next"]
  /\ task' = [task EXCEPT ![q][x] = None]
  /\ UNCHANGED <<lockVars, queryVars, dispatch, load, reqCache, merged, handleVars,
                 workerVars, poolUp, warm, faults>>

(* The local loop executes the chunk on the query's own plan.              *)
ExecLocal(q) ==
  /\ loop[q][Local] = "run"
  /\ merged' = [merged EXCEPT ![q] = @ \cup {task[q][Local]}]
  /\ task' = [task EXCEPT ![q][Local] = None]
  /\ \E s \in {"next"} \cup (IF q \in Limited THEN {"done"} ELSE {}) :
       loop' = [loop EXCEPT ![q][Local] = s]
  /\ UNCHANGED <<lockVars, queryVars, dispatch, load, reqCache, partial, handleVars,
                 workerVars, poolUp, warm, faults>>

ExecLocalFails(q) ==
  /\ loop[q][Local] = "run" /\ task[q][Local] \notin Pruned
  /\ Fault("local")
  /\ loop' = [loop EXCEPT ![q][Local] = "dead"]
  /\ UNCHANGED <<lockVars, queryVars, dispatch, load, reqCache, task, resultVars,
                 handleVars, workerVars, poolUp, warm>>

-----------------------------------------------------------------------------
(* WORKERS: createWorkerCore handles one message at a time                 *)

Reply(w, msg) ==
  /\ inbox' = [inbox EXCEPT ![w] = Tail(@)]
  /\ outbox' = [outbox EXCEPT ![w] = Append(@, msg)]

(* prepareWorkerPlan: destroy the old plan, create the new one, apply the  *)
(* specification.  When that throws, planHandle still holds the old, now   *)
(* destroyed, handle.                                                      *)
HandlePlan(w) ==
  /\ inbox[w] # <<>> /\ Head(inbox[w]).type = "plan"
  /\ \/ /\ wplan' = [wplan EXCEPT ![w] =
                      [by |-> Head(inbox[w]).by, live |-> TRUE, ran |-> FALSE]]
        /\ Reply(w, [type |-> "planned"])
        /\ NoFault
     \/ /\ Fault("plan")
        /\ wplan' = [wplan EXCEPT ![w].live = FALSE]
        /\ Reply(w, [type |-> "error"])
  /\ UNCHANGED <<lockVars, queryVars, loopVars, resultVars, handleVars, up,
                 poolUp, warm>>

(* executeWorkerTask under whatever plan the worker has; the reply to a    *)
(* failed task does not say which task failed.  A task on a destroyed plan *)
(* fails, unless the plan's pointer is still cached from an earlier task.  *)
HandleTask(w) ==
  LET msg == Head(inbox[w]) IN
  /\ inbox[w] # <<>> /\ msg.type = "task"
  /\ \/ /\ wplan[w].live \/ wplan[w].ran
        /\ Reply(w, [type |-> "result", by |-> msg.by, chunk |-> msg.chunk,
                     under |-> wplan[w].by])
        /\ wplan' = [wplan EXCEPT ![w].ran = TRUE]
        /\ NoFault
     \/ /\ wplan[w].live /\ Fault("exec")
        /\ Reply(w, [type |-> "error"])
        /\ wplan' = [wplan EXCEPT ![w].ran = TRUE]
     \/ /\ ~wplan[w].live
        /\ Reply(w, [type |-> "error"])
        /\ UNCHANGED wplan /\ NoFault
  /\ UNCHANGED <<lockVars, queryVars, loopVars, resultVars, handleVars, up,
                 poolUp, warm>>

(* A Node worker exits with an error: its handle gets "error" and "exit".  *)
Crash(w) ==
  /\ poolUp /\ up[w]
  /\ Fault("crash")
  /\ up' = [up EXCEPT ![w] = FALSE]
  /\ inbox' = [inbox EXCEPT ![w] = <<>>]
  /\ outbox' = [outbox EXCEPT ![w] = Append(@, [type |-> "error"])]
  /\ UNCHANGED <<lockVars, queryVars, loopVars, resultVars, handleVars, wplan,
                 poolUp, warm>>

-----------------------------------------------------------------------------
(* HANDLES: the message callback of createWorkerHandle                     *)

Waiting(w) == bound[w] # None /\ ack[bound[w]][w] = "wait"

(* Seeded fault: an error does not reject the setPlan that waits.          *)
AckedUnlessError(w, a) ==
  IF Waiting(w) /\ a # "err" THEN [ack EXCEPT ![bound[w]][w] = a] ELSE ack

(* plannedResolve and plannedReject settle the promise they belong to once.*)
Acked(w, a) == IF Waiting(w) THEN [ack EXCEPT ![bound[w]][w] = a] ELSE ack

(* "planned" resolves the LATEST setPlan of the handle.                    *)
OnPlanned(w) ==
  /\ outbox[w] # <<>> /\ Head(outbox[w]).type = "planned"
  /\ ack' = Acked(w, "ok")
  /\ outbox' = [outbox EXCEPT ![w] = Tail(@)]
  /\ UNCHANGED <<lockVars, queryVars, loopVars, resultVars, bound, pending,
                 inbox, wplan, up, poolUp, warm, faults>>

(* Seeded fault: the rejected entries stay in the map.                     *)
OnErrorKeepsPending(w) ==
  /\ outbox[w] # <<>> /\ Head(outbox[w]).type = "error"
  /\ ack' = Acked(w, "err")
  /\ loop' = [q \in Queries |->
                IF <<q, task[q][w]>> \in pending[w]
                  THEN [loop[q] EXCEPT ![w] = "dead"] ELSE loop[q]]
  /\ outbox' = [outbox EXCEPT ![w] = Tail(@)]
  /\ UNCHANGED <<lockVars, queryVars, dispatch, load, reqCache, task, resultVars,
                 bound, pending, inbox, wplan, up, poolUp, warm, faults>>

(* "error" fails every pending task of the handle and its setPlan.         *)
OnError(w) ==
  /\ outbox[w] # <<>> /\ Head(outbox[w]).type = "error"
  /\ ack' = Acked(w, "err")
  /\ loop' = [q \in Queries |->
                IF <<q, task[q][w]>> \in pending[w]
                  THEN [loop[q] EXCEPT ![w] = "dead"] ELSE loop[q]]
  /\ pending' = [pending EXCEPT ![w] = {}]
  /\ outbox' = [outbox EXCEPT ![w] = Tail(@)]
  /\ UNCHANGED <<lockVars, queryVars, dispatch, load, reqCache, task, resultVars, bound,
                 inbox, wplan, up, poolUp, warm, faults>>

(* The pending map has an entry for the task.                              *)
Entry(w, q, c) == <<q, c>> \in pending[w]

(* "result" resolves the task it names, if that is still pending.          *)
OnResult(w) ==
  LET msg == Head(outbox[w])
      q   == msg.by
      c   == msg.chunk IN
  /\ outbox[w] # <<>> /\ msg.type = "result"
  /\ outbox' = [outbox EXCEPT ![w] = Tail(@)]
  /\ pending' = [pending EXCEPT ![w] = @ \ {<<q, c>>}]
  /\ IF Entry(w, q, c)
       THEN /\ partial' = [partial EXCEPT ![q][c] = msg.under]
            /\ loop' = [loop EXCEPT ![q][w] = "next"]
            /\ task' = [task EXCEPT ![q][w] = None]
       ELSE UNCHANGED <<partial, loop, task>>
  /\ UNCHANGED <<lockVars, queryVars, dispatch, load, reqCache, merged, ack, bound,
                 inbox, wplan, up, poolUp, warm, faults>>

-----------------------------------------------------------------------------
(* WcolFile.warmWorkers: setPlan on the pool, WITHOUT the query lock.      *)
WarmStart(p) ==
  /\ warm[p] = "idle"
  /\ poolUp' = TRUE
  /\ SetPlan(p)
  /\ warm' = [warm EXCEPT ![p] = "plan"]
  /\ UNCHANGED <<lockVars, queryVars, loopVars, resultVars, faults>>

WarmEnd(p) ==
  /\ warm[p] = "plan"
  /\ \/ \A w \in Workers : ack[p][w] = "ok"
     \/ \E w \in Workers : ack[p][w] = "err"
  /\ warm' = [warm EXCEPT ![p] = "done"]
  /\ UNCHANGED <<lockVars, queryVars, loopVars, resultVars, handleVars,
                 workerVars, poolUp, faults>>

-----------------------------------------------------------------------------
QueryStep(q) ==
  \/ Begin(q) \/ Acquire(q) \/ SpawnFails(q) \/ Planned(q) \/ PoolFails(q)
  \/ ScanEnds(q) \/ Reduce(q) \/ LocalEnds(q) \/ Return(q)

LoopStep(q, x) == Claim(q, x) \/ Receive(q, x) \/ EmptyPartial(q, x)

LocalStep(q) == ExecLocal(q) \/ ExecLocalFails(q)

LoadStep(q, m, c) == UsePlan(q, m, c) \/ ReadFails(q, m, c)

WorkerStep(w) == HandlePlan(w) \/ HandleTask(w)

HandleStep(w) == OnPlanned(w) \/ OnError(w) \/ OnResult(w)

Next ==
  \/ \E q \in Queries : Ask(q) \/ Invalid(q) \/ QueryStep(q) \/ LocalStep(q)
  \/ \E q \in Queries, x \in Loops : LoopStep(q, x)
  \/ \E q \in Queries, m \in Paths, c \in Chunks : LoadStep(q, m, c)
  \/ \E w \in Workers : WorkerStep(w) \/ HandleStep(w) \/ Crash(w)
  \/ \E p \in Warmers : WarmStart(p) \/ WarmEnd(p)

Spec == Init /\ [][Next]_vars

(* The event loops of the main thread and of the workers that run keep     *)
(* running what is ready, and source reads settle.  Nobody must ask, and   *)
(* no fault must happen: a disjunct with a fault is never the only one.    *)
Fairness ==
  /\ \A q \in Queries : WF_vars(QueryStep(q)) /\ WF_vars(LocalStep(q))
  /\ \A q \in Queries, x \in Loops : WF_vars(LoopStep(q, x))
  /\ \A q \in Queries, m \in Paths, c \in Chunks : WF_vars(LoadStep(q, m, c))
  /\ \A w \in Workers : WF_vars(WorkerStep(w)) /\ WF_vars(HandleStep(w))
  /\ \A p \in Warmers : WF_vars(WarmEnd(p))

FairSpec == Spec /\ Fairness

-----------------------------------------------------------------------------
(* PROPERTIES                                                              *)

(* An answer from the pool merges one partial per chunk, each computed     *)
(* under this query's own plan, although the pool is reused, replies to    *)
(* plans and errors carry no name, and loops of failed queries live on.    *)
OwnPartials ==
  \A q \in Queries : answer[q] = "pool" => \A c \in Chunks : partial[q][c] = q

(* A local answer, also one after a failed pool scan, executed every chunk *)
(* on the query's plan, or a prefix of the file when a limit ended it.     *)
LocalCovers ==
  \A q \in Queries : answer[q] = "local" =>
    \/ merged[q] = Chunks
    \/ q \in Limited /\ \E k \in Chunks : merged[q] = 0 .. k

(* "Explicit workers: N disables silent fallback on worker error".         *)
NoSilentFallback ==
  \A q \in Explicit \ Approx : loop[q][Local] = "off" /\ answer[q] # "local"

(* A query answered by the pool leaves nothing behind: its loops have      *)
(* ended and no task of it is pending or on its way to a worker.           *)
CleanSuccess ==
  \A q \in Queries : answer[q] = "pool" =>
    \A w \in Workers :
      /\ loop[q][w] = "done"
      /\ \A c \in Chunks : <<q, c>> \notin pending[w]
      /\ \A i \in DOMAIN inbox[w] :
           inbox[w][i].type = "task" => inbox[w][i].by # q

(* A worker has at most one task of a query at a time, so a failed task    *)
(* can only take down tasks of OTHER queries with it.                      *)
OneTaskPerLoop ==
  \A w \in Workers, q \in Queries :
    /\ Cardinality({c \in Chunks : <<q, c>> \in pending[w]}) <= 1
    /\ \A c \in Chunks : <<q, c>> \in pending[w] => task[q][w] = c /\ loop[q][w] = "run"

(* The lock is a FIFO lock over the whole of runChunkQuery.                *)
LockRespected == Lock!Spec

(* The pool loops of each query behave as one ChunkQueue: its first stage() *)
(* reaches the end of the file, a pruned payload is a payload, and the      *)
(* call's promise settles with the first loop that dies, or when the query  *)
(* sees that all have returned.                                             *)
QueueBuild(q) == IF load[q]["pool"][0] = "none" THEN 0 ELSE NChunks

QueueLoad(q) ==
  [c \in Chunks |-> CASE load[q]["pool"][c] = "reading" -> "loading"
                      [] load[q]["pool"][c] = "pruned"  -> "ready"
                      [] OTHER -> load[q]["pool"][c]]

QueueLoop(q) == [w \in Workers |-> IF loop[q][w] = "off" THEN "next" ELSE loop[q][w]]

QueueTask(q) == [w \in Workers |-> task[q][w]]

QueueScanned(q) == {c \in Chunks : partial[q][c] # None}

Resolved(q) == step[q] \in {"reduce", "settled", "done"} /\ \A w \in Workers : loop[q][w] = "done"

QueueOutcome(q) ==
  CASE \E w \in Workers : loop[q][w] = "dead" -> "rejected"
    [] Resolved(q) -> "resolved"
    [] OTHER -> "running"

Queue(q) == INSTANCE ChunkQueue WITH
  Loops      <- Workers,
  EarlyLimit <- 0,
  ChunkRows  <- {0},
  NoChunk    <- None,
  build      <- QueueBuild(q),
  dispatch   <- dispatch[q]["pool"],
  load       <- QueueLoad(q),
  loop       <- QueueLoop(q),
  task       <- QueueTask(q),
  scanned    <- QueueScanned(q),
  rows       <- 0,
  outcome    <- QueueOutcome(q)

QueuesRespected ==
  /\ \A q \in Queries : Queue(q)!Init
  /\ [][\A q \in Queries : [Queue(q)!Next]_(Queue(q)!vars)]_vars

(* Every query that asks is answered, after any faults but a crash.        *)
EveryQueryAnswered ==
  \A q \in Queries : (phase[q] = "waiting") ~> (answer[q] # "none" /\ phase[q] = "released")

(* Whatever failed, the handles come to rest: no task is pending for ever. *)
HandlesDrain == <>[](\A w \in Workers : pending[w] = {})

-----------------------------------------------------------------------------
(* THE INDUCTIVE INVARIANT                                                 *)

Silent(q, x) == loop[q][x] = "off"

(* Where a query stands, in the lock, in runChunkQuery and in its loops.   *)
StepsOf(q) ==
  /\ phase[q] = "inside" <=> step[q] \in {"acquire", "plan", "scan", "reduce", "local"}
  /\ phase[q] \in {"idle", "waiting"} => step[q] \in {"none", "done"}
  /\ phase[q] \in {"waiting", "released"} => (step[q] = "none" <=> phase[q] = "waiting")
  /\ answer[q] # "none" <=> step[q] \in {"settled", "done"}
  /\ answer[q] \in {"pool", "local"} => phase[q] = "released"
  /\ step[q] \in {"none", "acquire", "plan"} => \A w \in Workers : Silent(q, w)
  /\ step[q] \in {"none", "acquire", "plan", "scan", "reduce"} => Silent(q, Local)
  /\ step[q] = "reduce" \/ answer[q] = "pool" => \A w \in Workers : loop[q][w] = "done"
  /\ step[q] = "local" \/ ~Silent(q, Local) \/ answer[q] = "local" =>
       q \notin Explicit \ Approx
  /\ answer[q] = "local" => loop[q][Local] = "done"
  /\ step[q] \in {"local", "settled", "done"} =>
       \/ \A w \in Workers : Silent(q, w)
       \/ \E w \in Workers : loop[q][w] = "dead"
       \/ step[q] # "local" /\ \A w \in Workers : loop[q][w] = "done"

(* A loop that waits, runs or has died has a chunk; a pruned chunk has no  *)
(* payload; the first call of next() stages every chunk.                   *)
TaskOf(q, x) ==
  /\ loop[q][x] \in {"off", "next", "done"} => task[q][x] = None
  /\ loop[q][x] \in {"await", "run", "dead"} =>
       task[q][x] \in Chunks /\ task[q][x] < dispatch[q][Path(x)]

LoadOf(q, m, c) ==
  /\ load[q][m][c] = "ready" => c \notin Pruned
  /\ load[q][m][c] = "pruned" => c \in Pruned
  /\ load[q][m][c] = "none" <=> load[q][m][0] = "none"

(* A task is pending while its loop runs it; its message, or the result,   *)
(* is on its way at most once, unless the loop has died meanwhile.         *)
Tasks(w, q)   == {i \in DOMAIN inbox[w] : inbox[w][i].type = "task" /\ inbox[w][i].by = q}
Results(w, q) == {i \in DOMAIN outbox[w] : outbox[w][i].type = "result" /\ outbox[w][i].by = q}

FlightOf(w, q) ==
  /\ \A c \in Chunks : <<q, c>> \in pending[w] =>
       task[q][w] = c /\ loop[q][w] = "run" /\ c \notin Pruned
  /\ loop[q][w] # "dead" =>
       /\ \A i \in Tasks(w, q) : <<q, inbox[w][i].chunk>> \in pending[w]
       /\ \A i \in Results(w, q) : <<q, outbox[w][i].chunk>> \in pending[w]
       /\ \A i, j \in Tasks(w, q) : i = j
       /\ \A i, j \in Results(w, q) : i = j
       /\ Tasks(w, q) = {} \/ Results(w, q) = {}

(* A worker that answers a task has, or had, a plan.                       *)
PlanOf(w) ==
  /\ wplan[w].live \/ wplan[w].ran => wplan[w].by # None
  /\ ~up[w] => inbox[w] = <<>>

(* The local loop executes the file from the front.                        *)
LocalOf(q) ==
  LET d == dispatch[q]["local"] IN
  /\ Silent(q, Local) => d = 0
  /\ loop[q][Local] \in {"off", "next", "done"} => merged[q] = 0 .. d - 1
  /\ loop[q][Local] \in {"await", "run"} =>
       d > 0 /\ task[q][Local] = d - 1 /\ merged[q] = 0 .. d - 2
  /\ loop[q][Local] = "done" => d = NChunks \/ (q \in Limited /\ d > 0)

(* Every chunk handed out in the pool has a partial or a loop.             *)
CoverOf(q) ==
  /\ \A c \in Chunks : c < dispatch[q]["pool"] =>
       partial[q][c] # None \/ \E w \in Workers : task[q][w] = c
  /\ \A w \in Workers : loop[q][w] = "done" => dispatch[q]["pool"] = NChunks

StepsInv  == \A q \in Queries : StepsOf(q)
TasksInv  == \A q \in Queries : \A x \in Loops : TaskOf(q, x)
LoadsInv  == \A q \in Queries, m \in Paths, c \in Chunks : LoadOf(q, m, c)
FlightInv == \A w \in Workers, q \in Queries : FlightOf(w, q)
PlansInv  == \A w \in Workers : PlanOf(w)
LocalInv  == \A q \in Queries : LocalOf(q)
CoverInv  == \A q \in Queries : CoverOf(q)

ExecInv ==
  /\ TypeOK
  /\ Lock!IndInv
  /\ StepsInv
  /\ TasksInv
  /\ LoadsInv
  /\ FlightInv
  /\ PlansInv
  /\ LocalInv
  /\ CoverInv

(* A query that uses the pool finds its own plan in every worker: it is    *)
(* the last one sent, and its tasks come after it.  This needs that nobody *)
(* else sends plans and that no plan fails in a worker.                    *)
UsesPool(q)    == step[q] \in {"plan", "scan", "reduce"}
MayUsePool(q)  == UsesPool(q) \/ step[q] \in {"none", "acquire"} \/ answer[q] = "pool"

Plans(w) == {i \in DOMAIN inbox[w] : inbox[w][i].type = "plan"}

OwnPlanOf(w, q) ==
  /\ \A i \in Tasks(w, q), j \in Plans(w) : j < i
  /\ \A i \in Plans(w) : inbox[w][i].by = q \/ \E j \in Plans(w) : i < j
  /\ up[w] => wplan[w].by = q \/ Plans(w) # {}
  /\ \A i \in Results(w, q) : outbox[w][i].under = q

OwnPlanInv ==
  /\ \A w \in Workers, q \in Queries : UsesPool(q) => OwnPlanOf(w, q)
  /\ \A q \in Queries : MayUsePool(q) => \A c \in Chunks : partial[q][c] \in {q, None}
=============================================================================
