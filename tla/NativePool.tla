------------------------------ MODULE NativePool ------------------------------
(***************************************************************************)
(* The native runtime's thread pool (wcol-decoder/src/native/pool.rs) and  *)
(* the queries that use it (NativeRuntime.query_sql_parallel, with_pool).  *)
(* A query takes the pool's mutex, recreates the pool when its size is     *)
(* wrong, sends every worker a Prepare command, waits for the replies,     *)
(* sends Execute commands that share one atomic chunk counter, and waits   *)
(* again.  When a send fails it returns at once, and the commands already  *)
(* sent are left to run.                                                   *)
(*                                                                         *)
(* Trim and Stats commands change nothing modelled here and are left out;  *)
(* the memory budget appears as one way for a chunk to fail.               *)
(***************************************************************************)
EXTENDS Integers, FiniteSets, Sequences

CONSTANTS
  Callers,    (* threads that call query_sql_with_workers once             *)
  Want,       (* the number of workers each caller's query runs with       *)
  MaxSize,    (* the largest of these                                      *)
  NChunks,    (* header.nchunks                                            *)
  Batch,      (* scan_chunk_batch_size                                     *)
  Width,      (* 2^32, the number of values of the atomic chunk counter    *)
  Faults,     (* the kinds of faults that may happen                       *)
  MaxFaults,  (* how many may happen in a behaviour                        *)
  None        (* no caller, no chunk                                       *)

Chunks  == 0 .. NChunks - 1
Threads == 1 .. MaxSize

(* prepare: apply_sql fails in a worker; chunk: execute_chunk or the arena *)
(* fails; die: the thread ends, because its WorkerContext could not be     *)
(* built or because it panics.                                             *)
FaultKinds == {"prepare", "chunk", "die"}

(* The code does not check that the counter cannot wrap; every worker adds *)
(* one batch beyond the end.                                               *)
ASSUME PoolAssumption ==
  /\ MaxSize \in Nat \ {0}
  /\ Want \in [Callers -> 1 .. MaxSize]
  /\ NChunks \in Nat \ {0}
  /\ Batch \in Nat \ {0}
  /\ Width \in Nat
  /\ NChunks + (MaxSize + 1) * Batch <= Width
  /\ Faults \subseteq FaultKinds
  /\ MaxFaults \in Nat
  /\ None \notin Callers /\ None \notin Int

VARIABLES
  call,       (* where each query stands                                   *)
  mutex,      (* the query that holds NativeRuntime.pool                   *)
  sent,       (* how many workers it has sent its present command          *)
  reply,      (* the reply channels of that command                        *)
  collected,  (* the partials each query got, with their plans             *)
  next,       (* SharedExecution.next_chunk of each query                  *)
  begun,      (* history: chunks of each query some worker began           *)
  done,       (* chunks of each query some worker finished                 *)
  size,       (* pool.size(), 0 before the first pool                      *)
  alive,      (* the worker threads that run                               *)
  inbox,      (* the commands in their channels                            *)
  sql,        (* the query whose SQL a worker's plan holds                 *)
  batch,      (* what is left of the batch a worker claimed                *)
  chunk,      (* the chunk it executes                                     *)
  partials,   (* its local_partials: chunks with the plan they ran under   *)
  faults      (* faults so far                                             *)

callVars   == <<call, mutex, sent, reply, collected>>
scanVars   == <<next, begun, done>>
threadVars == <<alive, inbox, sql, batch, chunk, partials>>
vars == <<callVars, scanVars, threadVars, size, faults>>

-----------------------------------------------------------------------------
NoReplies == [t \in Threads |-> "none"]

Init ==
  /\ call = [q \in Callers |-> "idle"]
  /\ mutex = None
  /\ sent = [q \in Callers |-> 0]
  /\ reply = [q \in Callers |-> NoReplies]
  /\ collected = [q \in Callers |-> {}]
  /\ next = [q \in Callers |-> 0]
  /\ begun = [q \in Callers |-> {}]
  /\ done = [q \in Callers |-> {}]
  /\ size = 0
  /\ alive = [t \in Threads |-> FALSE]
  /\ inbox = [t \in Threads |-> <<>>]
  /\ sql = [t \in Threads |-> None]
  /\ batch = [t \in Threads |-> {}]
  /\ chunk = [t \in Threads |-> None]
  /\ partials = [t \in Threads |-> {}]
  /\ faults = 0

Fault(kind) ==
  /\ kind \in Faults
  /\ faults < MaxFaults
  /\ faults' = faults + 1

Pool == 1 .. size

(* What a thread is busy with.                                             *)
Command(t) == Head(inbox[t])
Runs(t, type) == alive[t] /\ inbox[t] # <<>> /\ Command(t).type = type

-----------------------------------------------------------------------------
(* QUERIES                                                                 *)

(* with_pool locks the mutex; it is released when the query returns.       *)
Lock(q) ==
  /\ call[q] = "idle" /\ mutex = None
  /\ mutex' = q
  /\ call' = [call EXCEPT ![q] = "pool"]
  /\ UNCHANGED <<sent, reply, collected, scanVars, threadVars, size, faults>>

Return(q, a) ==
  /\ call' = [call EXCEPT ![q] = a]
  /\ mutex' = None

(* The pool is reused when it has the right size ...                       *)
Reuse(q) ==
  /\ call[q] = "pool" /\ size = Want[q]
  /\ call' = [call EXCEPT ![q] = "prepare"]
  /\ UNCHANGED <<mutex, sent, reply, collected, scanVars, threadVars, size, faults>>

(* ... and replaced when it has not, or when the environment says so       *)
(* (WCOL_POOL_RECREATE_EACH_QUERY, read by every query).  Dropping the old *)
(* pool joins its threads, which first work off their commands.            *)
Recreate(q) ==
  /\ call[q] = "pool"
  /\ \A t \in Pool : alive[t] => inbox[t] = <<>>
  /\ size' = Want[q]
  /\ alive' = [t \in Threads |-> t <= Want[q]]
  /\ inbox' = [t \in Threads |-> <<>>]
  /\ sql' = [t \in Threads |-> None]
  /\ call' = [call EXCEPT ![q] = "prepare"]
  /\ UNCHANGED <<mutex, sent, reply, collected, scanVars, batch, chunk, partials, faults>>

(* The send loops of prepare and execute.  A dead thread has dropped its   *)
(* receiver: the send fails and the query returns, whatever it has sent.   *)
Send(q) ==
  LET t == sent[q] + 1 IN
  /\ call[q] \in {"prepare", "execute"} /\ t \in Pool
  /\ IF alive[t]
       THEN /\ inbox' = [inbox EXCEPT ![t] = Append(@, [type |-> call[q], by |-> q])]
            /\ reply' = [reply EXCEPT ![q][t] = "wait"]
            /\ sent' = [sent EXCEPT ![q] = t]
            /\ UNCHANGED <<call, mutex>>
       ELSE /\ Return(q, "error")
            /\ UNCHANGED <<inbox, reply, sent>>
  /\ UNCHANGED <<collected, scanVars, size, alive, sql, batch, chunk, partials, faults>>

(* recv_reply has returned for every worker.                               *)
Answered(q) == sent[q] = size /\ \A t \in Pool : reply[q][t] # "wait"

Prepared(q) ==
  /\ call[q] = "prepare" /\ Answered(q)
  /\ IF \A t \in Pool : reply[q][t] = "ok"
       THEN /\ call' = [call EXCEPT ![q] = "execute"]
            /\ reply' = [reply EXCEPT ![q] = NoReplies]
            /\ sent' = [sent EXCEPT ![q] = 0]
            /\ UNCHANGED mutex
       ELSE /\ Return(q, "error")
            /\ UNCHANGED <<reply, sent>>
  /\ UNCHANGED <<collected, scanVars, threadVars, size, faults>>

Executed(q) ==
  /\ call[q] = "execute" /\ Answered(q)
  /\ Return(q, IF \A t \in Pool : reply[q][t] = "ok" THEN "ok" ELSE "error")
  /\ UNCHANGED <<sent, reply, collected, scanVars, threadVars, size, faults>>

-----------------------------------------------------------------------------
(* WORKERS: worker_loop and execute_chunks                                 *)

(* The reply and the end of the command.                                   *)
Reply(t, r) ==
  /\ reply' = [reply EXCEPT ![Command(t).by][t] = r]
  /\ inbox' = [inbox EXCEPT ![t] = Tail(@)]

(* Seeded fault: a worker that has a plan takes it for the right one.      *)
PrepareOnlyOnce(t) ==
  /\ Runs(t, "prepare")
  /\ sql' = [sql EXCEPT ![t] = IF @ = None THEN Command(t).by ELSE @]
  /\ Reply(t, "ok")
  /\ UNCHANGED <<call, mutex, sent, collected, scanVars, size, alive, batch, chunk, partials, faults>>

(* prepare_sql clears the plan before it applies the SQL.                  *)
PrepareSql(t) ==
  /\ Runs(t, "prepare")
  /\ \/ /\ sql' = [sql EXCEPT ![t] = Command(t).by]
        /\ Reply(t, "ok")
        /\ UNCHANGED faults
     \/ /\ Fault("prepare")
        /\ sql' = [sql EXCEPT ![t] = None]
        /\ Reply(t, "err")
  /\ UNCHANGED <<call, mutex, sent, collected, scanVars, size, alive, batch, chunk, partials>>

(* Seeded fault: a batch includes the first chunk of the next one.         *)
ClaimBatchInclusive(t) ==
  LET q == Command(t).by IN
  /\ Runs(t, "execute")
  /\ batch[t] = {} /\ chunk[t] = None
  /\ next[q] < NChunks
  /\ next' = [next EXCEPT ![q] = (@ + Batch) % Width]
  /\ batch' = [batch EXCEPT ![t] = {c \in Chunks : next[q] <= c /\ c <= next[q] + Batch}]
  /\ UNCHANGED <<callVars, begun, done, size, alive, inbox, sql, chunk, partials, faults>>

(* fetch_add, and the chunks of the batch that exist.                      *)
ClaimBatch(t) ==
  LET q == Command(t).by IN
  /\ Runs(t, "execute")
  /\ batch[t] = {} /\ chunk[t] = None
  /\ next[q] < NChunks
  /\ next' = [next EXCEPT ![q] = (@ + Batch) % Width]
  /\ batch' = [batch EXCEPT ![t] = {c \in Chunks : next[q] <= c /\ c < next[q] + Batch}]
  /\ UNCHANGED <<callVars, begun, done, size, alive, inbox, sql, chunk, partials, faults>>

Begin(t) ==
  \E c \in batch[t] :
    /\ alive[t] /\ chunk[t] = None
    /\ \A d \in batch[t] : c <= d
    /\ batch' = [batch EXCEPT ![t] = @ \ {c}]
    /\ chunk' = [chunk EXCEPT ![t] = c]
    /\ begun' = [begun EXCEPT ![Command(t).by] = @ \cup {c}]
    /\ UNCHANGED <<callVars, next, done, size, alive, inbox, sql, partials, faults>>

Succeed(t) ==
  LET q == Command(t).by IN
  /\ alive[t] /\ chunk[t] # None
  /\ done' = [done EXCEPT ![q] = @ \cup {chunk[t]}]
  /\ partials' = [partials EXCEPT ![t] = @ \cup {<<chunk[t], sql[t]>>}]
  /\ chunk' = [chunk EXCEPT ![t] = None]
  /\ UNCHANGED <<callVars, next, begun, size, alive, inbox, sql, batch, faults>>

(* execute_chunks returns the error; its partials are dropped.             *)
ChunkFails(t) ==
  /\ alive[t] /\ chunk[t] # None
  /\ Fault("chunk")
  /\ Reply(t, "err")
  /\ chunk' = [chunk EXCEPT ![t] = None]
  /\ batch' = [batch EXCEPT ![t] = {}]
  /\ partials' = [partials EXCEPT ![t] = {}]
  /\ UNCHANGED <<call, mutex, sent, collected, scanVars, size, alive, sql>>

(* The counter has passed the end: the partials go to whoever still waits. *)
Exhausted(t) ==
  LET q == Command(t).by IN
  /\ Runs(t, "execute")
  /\ batch[t] = {} /\ chunk[t] = None
  /\ next[q] >= NChunks
  /\ next' = [next EXCEPT ![q] = (@ + Batch) % Width]
  /\ Reply(t, "ok")
  /\ collected' = [collected EXCEPT ![q] = @ \cup partials[t]]
  /\ partials' = [partials EXCEPT ![t] = {}]
  /\ UNCHANGED <<call, mutex, sent, begun, done, size, alive, sql, batch, chunk, faults>>

(* Seeded fault: the reply channels of a dead thread stay open.            *)
DieSilently(t) ==
  /\ alive[t] /\ Fault("die")
  /\ alive' = [alive EXCEPT ![t] = FALSE]
  /\ inbox' = [inbox EXCEPT ![t] = <<>>]
  /\ chunk' = [chunk EXCEPT ![t] = None]
  /\ batch' = [batch EXCEPT ![t] = {}]
  /\ partials' = [partials EXCEPT ![t] = {}]
  /\ UNCHANGED <<call, mutex, sent, reply, collected, scanVars, size, sql>>

(* The thread ends; the senders of its pending replies are dropped.        *)
Die(t) ==
  /\ alive[t] /\ Fault("die")
  /\ alive' = [alive EXCEPT ![t] = FALSE]
  /\ inbox' = [inbox EXCEPT ![t] = <<>>]
  /\ reply' = [q \in Callers |->
                 IF reply[q][t] = "wait" THEN [reply[q] EXCEPT ![t] = "err"] ELSE reply[q]]
  /\ chunk' = [chunk EXCEPT ![t] = None]
  /\ batch' = [batch EXCEPT ![t] = {}]
  /\ partials' = [partials EXCEPT ![t] = {}]
  /\ UNCHANGED <<call, mutex, sent, collected, scanVars, size, sql>>

-----------------------------------------------------------------------------
CallStep(q) == Reuse(q) \/ Recreate(q) \/ Send(q) \/ Prepared(q) \/ Executed(q)

ThreadStep(t) ==
  PrepareSql(t) \/ ClaimBatch(t) \/ Begin(t) \/ Succeed(t) \/ ChunkFails(t) \/ Exhausted(t)

Next ==
  \/ \E q \in Callers : Lock(q) \/ CallStep(q)
  \/ \E t \in Threads : ThreadStep(t) \/ Die(t)

Spec == Init /\ [][Next]_vars

(* The operating system runs every thread; a chunk's execution ends.  The  *)
(* mutex need not be fair: every query that asks has it in the end because *)
(* the others ask once.                                                    *)
Fairness ==
  /\ \A q \in Callers : WF_vars(Lock(q)) /\ WF_vars(CallStep(q))
  /\ \A t \in Threads : WF_vars(ThreadStep(t))

-----------------------------------------------------------------------------
(* PROPERTIES                                                              *)

(* A query that succeeds returns one partial per chunk of the file, each   *)
(* computed under its own SQL, although workers may still run commands of  *)
(* a query that gave up, and share nothing but a counter.                  *)
OwnCompleteResult ==
  \A q \in Callers :
    call[q] = "ok" => collected[q] = {<<c, q>> : c \in Chunks}

(* execute_chunks, for each query, is a scan in the sense of ChunkScan:    *)
(* batches claimed by fetch_add never overlap, and success is reported     *)
(* only when every chunk was scanned.                                      *)
Claimed(q) ==
  [t \in Threads |-> IF chunk[t] # None /\ Command(t).by = q THEN chunk[t] ELSE None]

Outcome(q) ==
  CASE call[q] = "ok"    -> "complete"
    [] call[q] = "error" -> "failed"
    [] OTHER             -> "running"

Scan(q) == INSTANCE ChunkScan WITH
  Workers   <- Threads,
  NoChunk   <- None,
  unclaimed <- Chunks \ begun[q],
  claim     <- Claimed(q),
  scanned   <- done[q],
  enough    <- FALSE,
  result    <- Outcome(q)

ImplementsScans ==
  /\ \A q \in Callers : Scan(q)!Init
  /\ [][\A q \in Callers : [Scan(q)!Next]_(Scan(q)!vars)]_vars

(* Every query returns and gives the mutex back, whatever dies: a reply    *)
(* that never comes shows as a closed channel.                             *)
EveryCallReturns == \A q \in Callers : <>(call[q] \in {"ok", "error"} /\ mutex # q)

-----------------------------------------------------------------------------
(* THE INDUCTIVE INVARIANT                                                 *)

Calls    == {"idle", "pool", "prepare", "execute", "ok", "error"}
Commands == [type : {"prepare", "execute"}, by : Callers]
Answers  == {"none", "wait", "ok", "err"}
Partials == Chunks \X (Callers \cup {None})

CallTypes ==
  /\ call \in [Callers -> Calls]
  /\ mutex \in Callers \cup {None}
  /\ sent \in [Callers -> 0 .. MaxSize]
  /\ reply \in [Callers -> [Threads -> Answers]]

WorkerTypes ==
  /\ size \in 0 .. MaxSize
  /\ alive \in [Threads -> BOOLEAN]
  /\ inbox \in [Threads -> Seq(Commands)]
  /\ sql \in [Threads -> Callers \cup {None}]

ScanTypes ==
  /\ collected \in [Callers -> SUBSET Partials]
  /\ next \in [Callers -> Nat]
  /\ begun \in [Callers -> SUBSET Chunks]
  /\ done \in [Callers -> SUBSET Chunks]
  /\ batch \in [Threads -> SUBSET Chunks]
  /\ chunk \in [Threads -> Chunks \cup {None}]
  /\ partials \in [Threads -> SUBSET Partials]

Executing(t)   == inbox[t] # <<>> /\ Command(t).type = "execute"
Executes(t, q) == Executing(t) /\ Command(t).by = q

(* One query at a time uses the pool, which has the size it wants.         *)
CallsInv ==
  \A q \in Callers :
    /\ mutex = q <=> call[q] \in {"pool", "prepare", "execute"}
    /\ call[q] \in {"prepare", "execute"} => size = Want[q] /\ sent[q] <= size
    /\ call[q] \in {"idle", "pool"} => sent[q] = 0
    /\ call[q] = "ok" => \A t \in Threads : reply[q][t] # "wait"

(* A query waits for a worker exactly as long as a command of it lies in   *)
(* the worker's channel, at most one at a time.                            *)
RepliesInv ==
  \A t \in Threads :
    /\ alive[t] => t <= size
    /\ inbox[t] # <<>> => alive[t]
    /\ \A i, j \in DOMAIN inbox[t] : inbox[t][i].by = inbox[t][j].by => i = j
    /\ \A q \in Callers :
         /\ reply[q][t] = "wait" <=> \E i \in DOMAIN inbox[t] : inbox[t][i].by = q
         /\ t > sent[q] => reply[q][t] = "none"

(* The worker has the query's plan and no command of it.                   *)
Ready(t, q) ==
  \/ call[q] = "prepare" /\ reply[q][t] = "ok"
  \/ call[q] = "execute" /\ sent[q] < t

(* Commands left behind by queries that gave up come before those of the   *)
(* query at work; an Execute command reaches an empty channel, and finds   *)
(* the plan of its own query.                                              *)
OrderInv ==
  \A t \in Threads :
    /\ \A i \in DOMAIN inbox[t] : i # 1 => inbox[t][i].type = "prepare"
    /\ Executing(t) => sql[t] = Command(t).by
    /\ \A q \in Callers :
         /\ call[q] \in {"prepare", "execute"} =>
              \A i \in DOMAIN inbox[t] :
                inbox[t][i].by = q => i = Len(inbox[t]) /\ inbox[t][i].type = call[q]
         /\ alive[t] /\ Ready(t, q) => inbox[t] = <<>> /\ sql[t] = q

(* What a worker holds is of the query whose Execute command it runs, and  *)
(* no two workers hold the same.                                           *)
ClaimsInv ==
  \A t \in Threads :
    /\ ~Executing(t) => batch[t] = {} /\ chunk[t] = None /\ partials[t] = {}
    /\ \A q \in Callers : Executes(t, q) =>
         /\ \A c \in batch[t] : c < next[q] /\ c \notin begun[q]
         /\ chunk[t] # None => chunk[t] \in begun[q] \ done[q]
         /\ partials[t] \subseteq done[q] \X {q}
         /\ \A u \in Threads \ {t} : Executes(u, q) =>
              /\ batch[t] \cap batch[u] = {}
              /\ chunk[t] # None => chunk[u] # chunk[t]

ProtocolInv == CallTypes /\ WorkerTypes /\ CallsInv /\ RepliesInv /\ OrderInv

(* The chunks of a query, from the counter to the result.                  *)
ScansInv ==
  \A q \in Callers :
    /\ done[q] \subseteq begun[q]
    /\ \A c \in begun[q] : c < next[q]
    /\ collected[q] \subseteq done[q] \X {q}
    /\ call[q] \in {"idle", "pool", "prepare"} => next[q] = 0

(* The counter does not wrap: every worker adds one batch beyond the end,  *)
(* and then answers.                                                       *)
Finished(q) == {t \in Threads : reply[q][t] = "ok"}
CounterInv ==
  \A q \in Callers : next[q] < NChunks + Batch * (Cardinality(Finished(q)) + 1)

(* Nothing is lost unless a worker says so.                                *)
CompleteInv ==
  \A q \in Callers :
    call[q] = "execute" /\ (\A t \in Threads : reply[q][t] # "err") =>
      /\ \A c \in Chunks : c < next[q] =>
           c \in done[q] \/ \E t \in Threads : Executes(t, q) /\ (c \in batch[t] \/ c = chunk[t])
      /\ \A c \in done[q] :
           <<c, q>> \in collected[q] \/ \E t \in Threads : Executes(t, q) /\ <<c, q>> \in partials[t]
      /\ \A t \in Threads : reply[q][t] = "ok" => next[q] >= NChunks

ScanInv == ScanTypes /\ ClaimsInv /\ ScansInv /\ CounterInv /\ CompleteInv

PoolInv == ProtocolInv /\ ScanInv /\ OwnCompleteResult
=============================================================================
