-------------------------- MODULE QueryExec_proofs --------------------------
(* Proofs about QueryExec, for any number of queries, warmers and workers, *)
(* files of up to four chunks and any faults.  ExecInv is shown inductive, *)
(* action by action; NoSilentFallback, OneTaskPerLoop, CleanSuccess and    *)
(* LocalCovers follow from it.  Then every query's partials are shown to   *)
(* be its own (OwnPlanInv), under two conditions, and the module to        *)
(* implement the FIFO lock and, per query, the chunk queue.                *)
EXTENDS QueryExec, Channels, FiniteSetTheorems

-----------------------------------------------------------------------------
(* WHAT A CHANGE LEAVES ALONE                                              *)

(* The sets the actions move in.                                           *)
LEMMA Members ==
  /\ \A w \in Workers : w \in Loops /\ w # Local /\ Path(w) = "pool"
  /\ Local \in Loops /\ Path(Local) = "local"
  /\ \A x \in Loops : x \in Workers \/ x = Local
  /\ Paths = {"pool", "local"}
  /\ NChunks \in Nat /\ NChunks > 0
  /\ \A c \in Chunks : c \in Nat /\ c < NChunks /\ c # None
  /\ Queries \subseteq Planners /\ Warmers \subseteq Planners /\ None \notin Planners
BY QueryAssumption DEF Loops, Paths, Path, Chunks, Planners

(* Loops move on; none starts, and none that was done goes on.             *)
LEMMA StepsKept ==
  ASSUME StepsInv, UNCHANGED <<phase, step, answer>>,
         \A q \in Queries, x \in Loops :
           \/ loop'[q][x] = loop[q][x]
           \/ loop[q][x] \notin {"off", "done", "dead"} /\ loop'[q][x] # "off"
  PROVE  StepsInv'
<1> SUFFICES ASSUME NEW q \in Queries PROVE StepsOf(q)'
  BY DEF StepsInv
<1>1. /\ \A w \in Workers : loop[q][w] = "off" => loop'[q][w] = "off"
      /\ \A w \in Workers : loop[q][w] = "done" => loop'[q][w] = "done"
      /\ \A w \in Workers : loop[q][w] = "dead" => loop'[q][w] = "dead"
      /\ loop[q][Local] = "off" <=> loop'[q][Local] = "off"
      /\ loop[q][Local] = "done" => loop'[q][Local] = "done"
  BY Members
<1> QED
  BY <1>1 DEF StepsInv, StepsOf, Silent

(* A loop and its task change together.                                    *)
LEMMA TasksKept ==
  ASSUME TasksInv,
         \A q \in Queries, x \in Loops :
           \/ /\ loop'[q][x] = loop[q][x] /\ task'[q][x] = task[q][x]
              /\ task[q][x] \in Chunks /\ task[q][x] < dispatch[q][Path(x)] =>
                   task[q][x] < dispatch'[q][Path(x)]
           \/ loop'[q][x] \in {"off", "next", "done"} /\ task'[q][x] = None
           \/ /\ loop'[q][x] \in {"await", "run", "dead"}
              /\ task'[q][x] \in Chunks /\ task'[q][x] < dispatch'[q][Path(x)]
  PROVE  TasksInv'
<1> SUFFICES ASSUME NEW q \in Queries, NEW x \in Loops PROVE TaskOf(q, x)'
  BY DEF TasksInv
<1>1. TaskOf(q, x) /\ Path(x)' = Path(x)
  BY DEF TasksInv, Path
<1> QED
  BY <1>1 DEF TaskOf

(* Prefetches of pruned chunks stay apart from those of others.            *)
LEMMA LoadsKept ==
  ASSUME LoadsInv,
         \A q \in Queries, m \in Paths, c \in Chunks :
           \/ load'[q][m][c] = load[q][m][c]
           \/ load'[q][m][c] \notin {"ready", "pruned"}
           \/ load'[q][m][c] = IF c \in Pruned THEN "pruned" ELSE "ready",
         \A q \in Queries, m \in Paths :
           \/ \A c \in Chunks : load'[q][m][c] = "none" <=> load[q][m][c] = "none"
           \/ \A c \in Chunks : load'[q][m][c] # "none"
  PROVE  LoadsInv'
<1> SUFFICES ASSUME NEW q \in Queries, NEW m \in Paths, NEW c \in Chunks PROVE LoadOf(q, m, c)'
  BY DEF LoadsInv
<1>1. LoadOf(q, m, c) /\ 0 \in Chunks
  BY Members DEF LoadsInv, Chunks
<1> QED
  BY <1>1 DEF LoadOf

(* Nothing of the query is pending at the worker, and so nothing of it is  *)
(* on its way.                                                             *)
Idle(w, q) == loop[q][w] # "dead" /\ \A c \in Chunks : <<q, c>> \notin pending[w]

(* What of the query is on its way was on its way before, perhaps one      *)
(* place further back.                                                     *)
TasksMove(w, q) ==
  \E s \in {0, 1} : \A i \in Tasks(w, q)' :
    i + s \in DOMAIN inbox[w] /\ inbox'[w][i] = inbox[w][i + s]

ResultsMove(w, q) ==
  \E s \in {0, 1} : \A i \in Results(w, q)' :
    i + s \in DOMAIN outbox[w] /\ outbox'[w][i] = outbox[w][i + s]

(* Messages of other kinds come, or the first one goes.                    *)
LEMMA ShiftedMove ==
  ASSUME NEW w \in Workers, NEW q \in Queries
  PROVE  /\ Shifted(inbox[w], inbox'[w], "task") => TasksMove(w, q)
         /\ Shifted(outbox[w], outbox'[w], "result") => ResultsMove(w, q)
BY DEF Shifted, TasksMove, ResultsMove, Tasks, Results

(* There is still at most one.                                             *)
LEMMA TasksShift ==
  ASSUME NEW w \in Workers, NEW q \in Queries, WorkerTypes', TasksMove(w, q),
         \A i, j \in Tasks(w, q) : i = j
  PROVE  /\ \A i, j \in Tasks(w, q)' : i = j
         /\ \A i \in Tasks(w, q)' : \E j \in Tasks(w, q) : inbox[w][j] = inbox'[w][i]
<1>1. PICK s \in {0, 1} : \A i \in Tasks(w, q)' :
        i + s \in DOMAIN inbox[w] /\ inbox'[w][i] = inbox[w][i + s]
  BY DEF TasksMove
<1>2. \A i \in Tasks(w, q)' : i \in Int /\ i + s \in Tasks(w, q) /\ inbox'[w][i] = inbox[w][i + s]
  <2>1. DOMAIN inbox'[w] \subseteq Int
    BY DEF WorkerTypes
  <2> QED
    BY <1>1, <2>1 DEF Tasks
<1>3. ASSUME NEW i \in Tasks(w, q)', NEW j \in Tasks(w, q)' PROVE i = j
  <2>1. i + s = j + s /\ i \in Int /\ j \in Int /\ s \in Int
    BY <1>2
  <2> QED
    BY <2>1
<1> QED
  BY <1>2, <1>3

(* The same of the results on their way back.                              *)
LEMMA ResultsShift ==
  ASSUME NEW w \in Workers, NEW q \in Queries, WorkerTypes', ResultsMove(w, q),
         \A i, j \in Results(w, q) : i = j
  PROVE  /\ \A i, j \in Results(w, q)' : i = j
         /\ \A i \in Results(w, q)' : \E j \in Results(w, q) : outbox[w][j] = outbox'[w][i]
<1>1. PICK s \in {0, 1} : \A i \in Results(w, q)' :
        i + s \in DOMAIN outbox[w] /\ outbox'[w][i] = outbox[w][i + s]
  BY DEF ResultsMove
<1>2. \A i \in Results(w, q)' : i \in Int /\ i + s \in Results(w, q) /\ outbox'[w][i] = outbox[w][i + s]
  <2>1. DOMAIN outbox'[w] \subseteq Int
    BY DEF WorkerTypes
  <2> QED
    BY <1>1, <2>1 DEF Results
<1>3. ASSUME NEW i \in Results(w, q)', NEW j \in Results(w, q)' PROVE i = j
  <2>1. i + s = j + s /\ i \in Int /\ j \in Int /\ s \in Int
    BY <1>2
  <2> QED
    BY <2>1
<1> QED
  BY <1>2, <1>3

(* Nothing of an idle query is on its way.                                 *)
LEMMA NothingFlies ==
  ASSUME FlightInv, WorkerTypes, NEW w \in Workers, NEW q \in Queries, Idle(w, q)
  PROVE  Tasks(w, q) = {} /\ Results(w, q) = {}
<1>1. FlightOf(w, q)
  BY DEF FlightInv
<1>2. /\ \A i \in Tasks(w, q) : inbox[w][i].chunk \in Chunks
      /\ \A i \in Results(w, q) : outbox[w][i].chunk \in Chunks
  <2>1. \A i \in DOMAIN inbox[w] : inbox[w][i] \in Messages
    BY DEF WorkerTypes
  <2>2. \A i \in DOMAIN outbox[w] : outbox[w][i] \in Messages
    BY DEF WorkerTypes
  <2>3. \A e \in Messages : e.type \in {"task", "result"} => e.chunk \in Chunks
    BY DEF Messages
  <2> QED
    BY <2>1, <2>2, <2>3 DEF Tasks, Results
<1> QED
  BY <1>1, <1>2 DEF FlightOf, Idle

(* What a step does that leaves the query's loop at the worker alone.      *)
LEMMA FlightSame ==
  ASSUME NEW w \in Workers, NEW q \in Queries, FlightOf(w, q), WorkerTypes',
         loop'[q][w] = loop[q][w], task'[q][w] = task[q][w],
         \A c : <<q, c>> \in pending'[w] <=> <<q, c>> \in pending[w],
         TasksMove(w, q), ResultsMove(w, q)
  PROVE  FlightOf(w, q)'
<1>1. CASE loop[q][w] = "dead"
  BY <1>1 DEF FlightOf
<1>2. CASE loop[q][w] # "dead"
  <2>1. /\ \A i, j \in Tasks(w, q)' : i = j
        /\ \A i \in Tasks(w, q)' : \E j \in Tasks(w, q) : inbox[w][j] = inbox'[w][i]
    BY <1>2, TasksShift DEF FlightOf
  <2>2. /\ \A i, j \in Results(w, q)' : i = j
        /\ \A i \in Results(w, q)' : \E j \in Results(w, q) : outbox[w][j] = outbox'[w][i]
    BY <1>2, ResultsShift DEF FlightOf
  <2> QED
    BY <1>2, <2>1, <2>2 DEF FlightOf
<1> QED
  BY <1>1, <1>2

(* Nothing of an idle query is pending or on its way afterwards either.    *)
LEMMA IdleKept ==
  ASSUME FlightInv, WorkerTypes, WorkerTypes', NEW w \in Workers, NEW q \in Queries,
         Idle(w, q), \A c \in Chunks : <<q, c>> \notin pending'[w],
         TasksMove(w, q), ResultsMove(w, q)
  PROVE  FlightOf(w, q)'
<1>1. Tasks(w, q) = {} /\ Results(w, q) = {}
  BY NothingFlies
<1>2. Tasks(w, q)' = {} /\ Results(w, q)' = {}
  BY <1>1, TasksShift, ResultsShift
<1> QED
  BY <1>2 DEF FlightOf

(* Loops with nothing pending may go on; messages that are not tasks or    *)
(* results come and go.                                                    *)
LEMMA FlightKept ==
  ASSUME FlightInv, WorkerTypes, WorkerTypes', UNCHANGED pending,
         \A w \in Workers, q \in Queries :
           \/ loop'[q][w] = loop[q][w] /\ task'[q][w] = task[q][w]
           \/ Idle(w, q),
         \A w \in Workers : Shifted(inbox[w], inbox'[w], "task"),
         \A w \in Workers : Shifted(outbox[w], outbox'[w], "result")
  PROVE  FlightInv'
<1> SUFFICES ASSUME NEW w \in Workers, NEW q \in Queries PROVE FlightOf(w, q)'
  BY DEF FlightInv
<1>1. FlightOf(w, q)
  BY DEF FlightInv
<1>2. TasksMove(w, q) /\ ResultsMove(w, q)
  BY ShiftedMove
<1>3. CASE loop'[q][w] = loop[q][w] /\ task'[q][w] = task[q][w]
  BY <1>1, <1>2, <1>3, FlightSame
<1>4. CASE Idle(w, q)
  BY <1>2, <1>4, IdleKept DEF Idle
<1> QED
  BY <1>3, <1>4

(* A step that leaves the local loop alone.                                *)
LEMMA LocalKept ==
  ASSUME LocalInv,
         \A q \in Queries :
           /\ loop'[q][Local] = loop[q][Local] /\ task'[q][Local] = task[q][Local]
           /\ dispatch'[q]["local"] = dispatch[q]["local"] /\ merged'[q] = merged[q]
  PROVE  LocalInv'
<1> SUFFICES ASSUME NEW q \in Queries PROVE LocalOf(q)'
  BY DEF LocalInv
<1>1. LocalOf(q)
  BY DEF LocalInv
<1> QED
  BY <1>1 DEF LocalOf, Silent

(* A chunk leaves its loop only with a partial.                            *)
LEMMA CoverKept ==
  ASSUME CoverInv,
         \A q \in Queries :
           /\ dispatch'[q]["pool"] = dispatch[q]["pool"]
           /\ \A c \in Chunks : partial[q][c] # None => partial'[q][c] # None
           /\ \A w \in Workers, c \in Chunks : task[q][w] = c => task'[q][w] = c \/ partial'[q][c] # None
           /\ \A w \in Workers : loop'[q][w] = "done" =>
                loop[q][w] = "done" \/ dispatch[q]["pool"] = NChunks
  PROVE  CoverInv'
<1> SUFFICES ASSUME NEW q \in Queries PROVE CoverOf(q)'
  BY DEF CoverInv
<1>1. CoverOf(q)
  BY DEF CoverInv
<1> QED
  BY <1>1 DEF CoverOf

-----------------------------------------------------------------------------
(* THE LOCK                                                                *)

(* The FIFO lock keeps its order.                                          *)
LEMMA LockStep ==
  ASSUME Lock!IndInv, [Lock!Next]_lockVars
  PROVE  Lock!IndInv'
<1>1. ASSUME NEW q \in Queries, Lock!Ask(q) PROVE Lock!IndInv'
  BY <1>1 DEF Lock!Ask, Lock!IndInv, Lock!TypeOK, Lock!Phases, Lock!Ordered, Lock!InOrder
<1>2. ASSUME NEW q \in Queries, Lock!Grant(q) PROVE Lock!IndInv'
  BY <1>2 DEF Lock!Grant, Lock!IndInv, Lock!TypeOK, Lock!Phases, Lock!Ordered, Lock!InOrder
<1>3. ASSUME NEW q \in Queries, Lock!Release(q) PROVE Lock!IndInv'
  BY <1>3 DEF Lock!Release, Lock!IndInv, Lock!TypeOK, Lock!Phases, Lock!Ordered, Lock!InOrder
<1>4. CASE UNCHANGED lockVars
  BY <1>4 DEF lockVars, Lock!IndInv, Lock!TypeOK, Lock!Ordered, Lock!InOrder
<1> QED
  BY <1>1, <1>2, <1>3, <1>4 DEF Lock!Next

(* Only one query is inside.                                               *)
LEMMA OneQueryInside ==
  ASSUME Lock!IndInv, NEW q \in Queries, NEW r \in Queries,
         phase[q] = "inside", phase[r] = "inside"
  PROVE  q = r
BY DEF Lock!IndInv, Lock!TypeOK, Lock!Phases, Lock!Ordered, Lock!InOrder

-----------------------------------------------------------------------------
(* STEPS OF runChunkQuery                                                  *)

(* A loop that is off has nothing pending.                                 *)
LEMMA OffIsIdle ==
  ASSUME FlightInv, NEW w \in Workers, NEW q \in Queries, loop[q][w] \notin {"run", "dead"}
  PROVE  Idle(w, q)
BY DEF FlightInv, FlightOf, Idle

(* Plans may be on their way to the workers that run.                      *)
PlansSent ==
  /\ \A w \in Workers :
       \/ inbox'[w] = inbox[w]
       \/ up[w] /\ \E p \in Planners : inbox'[w] = Append(inbox[w], [type |-> "plan", by |-> p])
  /\ UNCHANGED <<outbox, wplan, up>>

(* Plans in a channel leave the tasks in it where they were.               *)
LEMMA PlansSentShift ==
  ASSUME WorkerTypes, PlansSent
  PROVE  \A w \in Workers :
           Shifted(inbox[w], inbox'[w], "task") /\ Shifted(outbox[w], outbox'[w], "result")
<1> SUFFICES ASSUME NEW w \in Workers
             PROVE  Shifted(inbox[w], inbox'[w], "task") /\ Shifted(outbox[w], outbox'[w], "result")
  OBVIOUS
<1>1. inbox[w] \in Seq(Messages) /\ outbox[w] \in Seq(Messages)
  BY DEF WorkerTypes
<1>2. Shifted(outbox[w], outbox'[w], "result")
  BY <1>1, ShiftedSame DEF PlansSent
<1>3. CASE inbox'[w] = inbox[w]
  BY <1>1, <1>2, <1>3, ShiftedSame
<1>4. ASSUME NEW p \in Planners, inbox'[w] = Append(inbox[w], [type |-> "plan", by |-> p])
      PROVE  Shifted(inbox[w], inbox'[w], "task")
  <2>1. [type |-> "plan", by |-> p] \in Messages /\ [type |-> "plan", by |-> p].type # "task"
    BY DEF Messages
  <2> QED
    BY <1>1, <1>4, <2>1, ShiftedAppend
<1> QED
  BY <1>2, <1>3, <1>4 DEF PlansSent

(* pool.setPlan sends plans.                                               *)
LEMMA SetPlanSends ==
  ASSUME TypeOK, NEW p \in Planners, SetPlan(p)
  PROVE  PlansSent /\ HandleTypes' /\ WorkerTypes'
<1>1. [type |-> "plan", by |-> p] \in Messages
  BY DEF Messages
<1>2. \A w \in Workers : inbox[w] \in Seq(Messages)
  BY DEF TypeOK, WorkerTypes
<1>3. \A w \in Workers : Post(w, [type |-> "plan", by |-> p]) \in Seq(Messages)
  BY <1>1, <1>2, Appended DEF Post
<1>4. inbox' \in [Workers -> Seq(Messages)]
  BY <1>3 DEF SetPlan
<1>5. HandleTypes' /\ WorkerTypes'
  BY <1>4 DEF SetPlan, TypeOK, HandleTypes, WorkerTypes
<1> QED
  BY <1>5 DEF PlansSent, SetPlan, Post

(* A query moves on and may start loops or send plans.                     *)
CallMoves(q) ==
  /\ [Lock!Next]_lockVars
  /\ UNCHANGED <<dispatch, load, task, merged, partial, pending>>
  /\ PlansSent
  /\ \A r \in Queries \ {q} :
       phase'[r] = phase[r] /\ step'[r] = step[r] /\ answer'[r] = answer[r] /\ loop'[r] = loop[r]
  /\ \A x \in Loops :
       loop'[q][x] = loop[q][x] \/ (loop[q][x] = "off" /\ loop'[q][x] = "next")

(* A step of a query that moves only that query, and starts its loops at   *)
(* most, keeps the invariant.                                              *)
LEMMA CallInd ==
  ASSUME ExecInv, TypeOK', NEW q \in Queries, CallMoves(q), StepsOf(q)'
  PROVE  ExecInv'
<1>1. Lock!IndInv'
  BY LockStep DEF ExecInv, CallMoves
<1>2. StepsInv'
  <2> SUFFICES ASSUME NEW r \in Queries, r # q PROVE StepsOf(r)'
    BY DEF StepsInv
  <2> QED
    BY DEF ExecInv, StepsInv, StepsOf, Silent, CallMoves
<1>3. \A r \in Queries, x \in Loops :
        loop'[r][x] = loop[r][x] \/ (loop[r][x] = "off" /\ loop'[r][x] = "next")
  BY DEF CallMoves
<1>4. TasksInv'
  <2>1. \A r \in Queries, x \in Loops : loop[r][x] = "off" => task[r][x] = None
    BY DEF ExecInv, TasksInv, TaskOf
  <2> QED
    BY <1>3, <2>1, TasksKept DEF ExecInv, CallMoves
<1>5. LoadsInv' /\ PlansInv'
  BY DEF ExecInv, LoadsInv, LoadOf, PlansInv, PlanOf, CallMoves, PlansSent
<1>6. FlightInv'
  <2>1. \A w \in Workers, r \in Queries : loop'[r][w] = loop[r][w] \/ Idle(w, r)
    BY <1>3, Members, OffIsIdle DEF ExecInv
  <2>2. WorkerTypes /\ WorkerTypes' /\ \A w \in Workers :
          Shifted(inbox[w], inbox'[w], "task") /\ Shifted(outbox[w], outbox'[w], "result")
    BY PlansSentShift DEF ExecInv, TypeOK, CallMoves
  <2> QED
    BY <2>1, <2>2, FlightKept DEF ExecInv, CallMoves
<1>7. LocalInv'
  <2> SUFFICES ASSUME NEW r \in Queries PROVE LocalOf(r)'
    BY DEF LocalInv
  <2>1. LocalOf(r) /\ (loop'[r][Local] = loop[r][Local] \/ (loop[r][Local] = "off" /\ loop'[r][Local] = "next"))
    BY <1>3, Members DEF ExecInv, LocalInv
  <2> QED
    BY <2>1 DEF LocalOf, Silent, CallMoves
<1>8. CoverInv'
  <2>1. \A r \in Queries, w \in Workers : loop'[r][w] = "done" => loop[r][w] = "done"
    BY <1>3, Members
  <2> QED
    BY <2>1, CoverKept DEF ExecInv, CallMoves
<1> QED
  BY <1>1, <1>2, <1>4, <1>5, <1>6, <1>7, <1>8 DEF ExecInv

(* Tables that do not change keep their types.                             *)
LEMMA TablesStay ==
  ASSUME TypeOK
  PROVE  /\ UNCHANGED <<loopVars, resultVars>> => LoopTypes'
         /\ UNCHANGED <<dispatch, load, reqCache, task, resultVars>>
            /\ loop' \in [Queries -> [Loops -> LoopStates]] => LoopTypes'
         /\ UNCHANGED <<handleVars, workerVars>> => HandleTypes' /\ WorkerTypes'
<1>1. LoopTypes /\ HandleTypes /\ WorkerTypes
  BY DEF TypeOK
<1> QED
  BY <1>1 DEF LoopTypes, HandleTypes, WorkerTypes, loopVars, resultVars, handleVars, workerVars

(* One query goes to a place in the lock, in its code and in its answer.   *)
Goes(q, p, s, a) ==
  /\ phase'[q] = p /\ step'[q] = s /\ answer'[q] = a
  /\ \A r \in Queries \ {q} :
       phase'[r] = phase[r] /\ step'[r] = step[r] /\ answer'[r] = answer[r]

(* The local loop starts.                                                  *)
LEMMA LocalStarts ==
  ASSUME TypeOK, NEW q \in Queries, loop' = [loop EXCEPT ![q][Local] = "next"]
  PROVE  /\ loop' \in [Queries -> [Loops -> LoopStates]]
         /\ loop'[q][Local] = "next" /\ \A w \in Workers : loop'[q][w] = loop[q][w]
         /\ \A r \in Queries \ {q} : loop'[r] = loop[r]
<1>1. "next" \in LoopStates /\ loop \in [Queries -> [Loops -> LoopStates]]
  BY DEF TypeOK, LoopStates, LoopTypes
<1> QED
  BY <1>1, Members, Replaced2

(* Where a query may go, in one step, without a change in its loops.       *)
LEMMA CallQuiet ==
  ASSUME ExecInv, NEW q \in Queries, QueryTypes', [Lock!Next]_lockVars,
         UNCHANGED <<loopVars, resultVars, handleVars, workerVars>>,
         NEW p, NEW s, NEW a, Goes(q, p, s, a), StepsOf(q)'
  PROVE  ExecInv'
<1>1. TypeOK'
  BY TablesStay DEF ExecInv, TypeOK
<1>2. CallMoves(q)
  BY DEF CallMoves, PlansSent, Goes, loopVars, resultVars, handleVars, workerVars
<1> QED
  BY <1>1, <1>2, CallInd

(* A query asks for the lock.                                              *)
LEMMA AskInd ==
  ASSUME ExecInv, NEW q \in Queries, Ask(q)
  PROVE  ExecInv'
<1>1. QueryTypes'
  BY DEF ExecInv, TypeOK, QueryTypes, Ask, Lock!Ask, Lock!TypeOK, Lock!Phases
<1>2. /\ Goes(q, "waiting", "none", answer[q]) /\ phase[q] = "idle" /\ step[q] = "none"
      /\ [Lock!Next]_lockVars
  BY DEF Goes, Ask, Lock!Ask, Lock!Next, ExecInv, TypeOK, QueryTypes, Lock!TypeOK
<1>3. UNCHANGED <<loopVars, resultVars, handleVars, workerVars>>
  BY DEF Ask
<1>4. StepsOf(q)'
  BY <1>2, <1>3 DEF ExecInv, StepsInv, StepsOf, Silent, Goes, loopVars
<1> QED
  BY <1>1, <1>2, <1>3, <1>4, CallQuiet

(* Its plan is invalid.                                                    *)
LEMMA InvalidInd ==
  ASSUME ExecInv, NEW q \in Queries, Invalid(q)
  PROVE  ExecInv'
<1>1. QueryTypes'
  BY QueryAssumption DEF ExecInv, TypeOK, QueryTypes, Lock!TypeOK, lockVars, Steps, Invalid, Fault
<1>2. Goes(q, "idle", "done", "error") /\ phase[q] = "idle" /\ [Lock!Next]_lockVars
  BY DEF Goes, lockVars, ExecInv, TypeOK, QueryTypes, Lock!TypeOK, Invalid, Fault
<1>3. UNCHANGED <<loopVars, resultVars, handleVars, workerVars>>
  BY DEF Invalid, Fault
<1>4. StepsOf(q)'
  BY <1>2, <1>3 DEF ExecInv, StepsInv, StepsOf, Silent, Goes, loopVars
<1> QED
  BY <1>1, <1>2, <1>3, <1>4, CallQuiet

(* Every loop of the pool has returned.                                    *)
LEMMA ScanEndsInd ==
  ASSUME ExecInv, NEW q \in Queries, ScanEnds(q)
  PROVE  ExecInv'
<1>1. QueryTypes'
  BY DEF ExecInv, TypeOK, QueryTypes, Lock!TypeOK, lockVars, Steps, ScanEnds
<1>2. /\ Goes(q, phase[q], "reduce", answer[q]) /\ [Lock!Next]_lockVars
      /\ step[q] = "scan" /\ \A w \in Workers : loop[q][w] = "done"
  BY DEF Goes, lockVars, ExecInv, TypeOK, QueryTypes, Lock!TypeOK, ScanEnds
<1>3. UNCHANGED <<loopVars, resultVars, handleVars, workerVars>>
  BY DEF ScanEnds
<1>4. StepsOf(q)'
  BY <1>2, <1>3 DEF ExecInv, StepsInv, StepsOf, Silent, Goes, loopVars
<1> QED
  BY <1>1, <1>2, <1>3, <1>4, CallQuiet

(* The query returns to its caller.                                        *)
LEMMA ReturnInd ==
  ASSUME ExecInv, NEW q \in Queries, Return(q)
  PROVE  ExecInv'
<1>1. QueryTypes'
  BY DEF ExecInv, TypeOK, QueryTypes, Lock!TypeOK, lockVars, Steps, Return
<1>2. Goes(q, phase[q], "done", answer[q]) /\ step[q] = "settled" /\ [Lock!Next]_lockVars
  BY DEF Goes, lockVars, ExecInv, TypeOK, QueryTypes, Lock!TypeOK, Return, queryVars
<1>3. UNCHANGED <<loopVars, resultVars, handleVars, workerVars>>
  BY DEF Return, queryVars
<1>4. StepsOf(q)'
  BY <1>2, <1>3 DEF ExecInv, StepsInv, StepsOf, Silent, Goes, loopVars
<1> QED
  BY <1>1, <1>2, <1>3, <1>4, CallQuiet

(* The lock is released with an answer.                                    *)
LEMMA SettleInd ==
  ASSUME ExecInv, NEW q \in Queries, NEW a \in {"pool", "local", "error"}, Settle(q, a),
         QueryTypes', UNCHANGED <<dispatch, load, reqCache, task, resultVars, handleVars, workerVars>>,
         step[q] \in {"acquire", "plan", "scan", "reduce", "local"},
         a = "pool" => step[q] = "reduce",
         a = "local" => step[q] = "local" /\ loop[q][Local] = "done",
         step[q] = "scan" => \E w \in Workers : loop[q][w] = "dead"
  PROVE  ExecInv'
<1>0. phase \in [Queries -> Lock!Phases] /\ step \in [Queries -> Steps] /\ DOMAIN answer = Queries
  BY DEF ExecInv, TypeOK, QueryTypes, Lock!TypeOK
<1>1. Goes(q, "released", "settled", a) /\ [Lock!Next]_lockVars
  <2>1. Lock!Next
    BY DEF Settle, Lock!Next
  <2> QED
    BY <1>0, <2>1 DEF Goes, Settle, Lock!Release
<1>2. UNCHANGED <<loopVars, resultVars, handleVars, workerVars>>
  BY DEF Settle, loopVars
<1>3. StepsOf(q)'
  BY <1>1, <1>2 DEF ExecInv, StepsInv, StepsOf, Silent, Goes, loopVars
<1> QED
  BY <1>1, <1>2, <1>3, CallQuiet

(* The local path begins.                                                  *)
LEMMA LocalInd ==
  ASSUME ExecInv, NEW q \in Queries, QueryTypes', [Lock!Next]_lockVars, Goes(q, "inside", "local", answer[q]),
         loop' = [loop EXCEPT ![q][Local] = "next"],
         UNCHANGED <<dispatch, load, reqCache, task, resultVars, handleVars, workerVars>>,
         \/ phase[q] = "inside" /\ step[q] \in {"acquire", "plan", "scan"}
         \/ phase[q] = "waiting" /\ step[q] = "none",
         step[q] = "scan" => \E w \in Workers : loop[q][w] = "dead",
         q \notin Explicit \ Approx
  PROVE  ExecInv'
<1>1. /\ loop' \in [Queries -> [Loops -> LoopStates]]
      /\ loop'[q][Local] = "next" /\ \A w \in Workers : loop'[q][w] = loop[q][w]
      /\ \A r \in Queries \ {q} : loop'[r] = loop[r]
  BY LocalStarts DEF ExecInv
<1>2. TypeOK'
  BY <1>1, TablesStay DEF ExecInv, TypeOK
<1>3. loop[q][Local] = "off" /\ answer[q] = "none"
  BY DEF ExecInv, StepsInv, StepsOf, Silent, TypeOK, QueryTypes
<1>4. CallMoves(q)
  BY <1>1, <1>3, Members DEF CallMoves, PlansSent, Goes, resultVars, handleVars, workerVars
<1>5. StepsOf(q)'
  BY <1>1, <1>3 DEF ExecInv, StepsInv, StepsOf, Silent, Goes
<1> QED
  BY <1>2, <1>4, <1>5, CallInd

(* The catch block falls back or fails.                                    *)
LEMMA CatchInd ==
  ASSUME ExecInv, NEW q \in Queries, Catch(q), QueryTypes',
         UNCHANGED <<dispatch, load, reqCache, task, resultVars, handleVars, workerVars>>,
         step[q] \in {"acquire", "plan", "scan"},
         step[q] = "scan" => \E w \in Workers : loop[q][w] = "dead"
  PROVE  ExecInv'
<1>1. CASE q \in Explicit
  BY <1>1, SettleInd DEF Catch
<1>2. CASE q \notin Explicit
  <2>1. /\ step' = [step EXCEPT ![q] = "local"] /\ loop' = [loop EXCEPT ![q][Local] = "next"]
        /\ UNCHANGED <<lockVars, answer>>
    BY <1>2 DEF Catch, StartLocal
  <2>2. phase[q] = "inside" /\ Goes(q, "inside", "local", answer[q]) /\ [Lock!Next]_lockVars
    BY <2>1 DEF ExecInv, StepsInv, StepsOf, Goes, lockVars, TypeOK, QueryTypes
  <2> QED
    BY <1>2, <2>1, <2>2, LocalInd
<1> QED
  BY <1>1, <1>2

(* withContextLock lets the query in.                                      *)
LEMMA BeginInd ==
  ASSUME ExecInv, NEW q \in Queries, Begin(q)
  PROVE  ExecInv'
<1>1. QueryTypes'
  BY DEF ExecInv, TypeOK, QueryTypes, Begin, Lock!Grant, Lock!TypeOK, Lock!Phases, Steps
<1>2. /\ phase[q] = "waiting" /\ step[q] = "none" /\ answer[q] = "none" /\ [Lock!Next]_lockVars
      /\ UNCHANGED <<dispatch, load, reqCache, task, resultVars, handleVars, workerVars>>
  BY DEF Begin, Lock!Grant, Lock!Next, ExecInv, StepsInv, StepsOf, TypeOK, QueryTypes
<1>3. phase' = [phase EXCEPT ![q] = "inside"] /\ UNCHANGED answer
  BY DEF Begin, Lock!Grant
<1>4. phase \in [Queries -> Lock!Phases] /\ step \in [Queries -> Steps] /\ DOMAIN answer = Queries
  BY DEF ExecInv, TypeOK, QueryTypes, Lock!TypeOK
<1>5. CASE /\ q \in Approx
           /\ step' = [step EXCEPT ![q] = "local"] /\ loop' = [loop EXCEPT ![q][Local] = "next"]
  <2>1. Goes(q, "inside", "local", answer[q])
    BY <1>3, <1>4, <1>5 DEF Goes
  <2> QED
    BY <1>1, <1>2, <1>5, <2>1, LocalInd
<1>6. CASE step' = [step EXCEPT ![q] = "acquire"] /\ UNCHANGED loop
  <2>1. Goes(q, "inside", "acquire", answer[q])
    BY <1>3, <1>4, <1>6 DEF Goes
  <2>2. UNCHANGED <<loopVars, resultVars, handleVars, workerVars>>
    BY <1>2, <1>6 DEF loopVars
  <2>3. StepsOf(q)'
    BY <1>2, <1>6, <2>1 DEF ExecInv, StepsInv, StepsOf, Silent, Goes
  <2> QED
    BY <1>1, <1>2, <2>1, <2>2, <2>3, CallQuiet
<1> QED
  BY <1>5, <1>6 DEF Begin

(* The query takes the pool and sends its plan.                            *)
LEMMA AcquireInd ==
  ASSUME ExecInv, NEW q \in Queries, Acquire(q)
  PROVE  ExecInv'
<1>1. QueryTypes'
  BY DEF ExecInv, TypeOK, QueryTypes, Acquire, lockVars, Lock!TypeOK, Steps
<1>2. PlansSent /\ HandleTypes' /\ WorkerTypes'
  BY Members, SetPlanSends DEF ExecInv, Acquire
<1>3. TypeOK'
  BY <1>1, <1>2, TablesStay DEF ExecInv, TypeOK, Acquire
<1>4. Goes(q, phase[q], "plan", answer[q]) /\ step[q] = "acquire" /\ [Lock!Next]_lockVars
  BY DEF Goes, Acquire, lockVars, ExecInv, TypeOK, QueryTypes
<1>5. CallMoves(q)
  BY <1>2, <1>4 DEF CallMoves, Goes, Acquire, SetPlan, loopVars, resultVars
<1>6. StepsOf(q)'
  BY <1>4 DEF ExecInv, StepsInv, StepsOf, Silent, Goes, Acquire, loopVars
<1> QED
  BY <1>3, <1>5, <1>6, CallInd

(* The pool cannot be created.                                             *)
LEMMA SpawnFailsInd ==
  ASSUME ExecInv, NEW q \in Queries, SpawnFails(q)
  PROVE  ExecInv'
<1>1. QueryTypes'
  <2>1. /\ phase' \in [Queries -> Lock!Phases] /\ step' \in [Queries -> Steps] /\ UNCHANGED ahead
        /\ answer' \in [Queries -> {"none", "pool", "local", "error"}]
    BY DEF ExecInv, TypeOK, QueryTypes, SpawnFails, Catch, Settle, StartLocal, lockVars,
           Lock!Release, Lock!TypeOK, Lock!Phases, Steps
  <2>2. faults' \in 0 .. MaxFaults
    BY QueryAssumption DEF ExecInv, TypeOK, QueryTypes, SpawnFails, Fault
  <2> QED
    BY <2>1, <2>2 DEF ExecInv, TypeOK, QueryTypes, SpawnFails, Lock!TypeOK
<1>2. /\ Catch(q) /\ step[q] = "acquire"
      /\ UNCHANGED <<dispatch, load, reqCache, task, resultVars, handleVars, workerVars>>
  BY DEF SpawnFails
<1> QED
  BY <1>1, <1>2, CatchInd

(* Every plan has been acknowledged: the loops start.                      *)
LEMMA PlannedInd ==
  ASSUME ExecInv, NEW q \in Queries, Planned(q)
  PROVE  ExecInv'
<1>1. QueryTypes'
  BY DEF ExecInv, TypeOK, QueryTypes, Planned, lockVars, Lock!TypeOK, Steps
<1>2. /\ loop \in [Queries -> [Loops -> LoopStates]] /\ "next" \in LoopStates
      /\ loop' = [loop EXCEPT ![q] = [x \in Loops |-> IF x \in Workers THEN "next" ELSE @[x]]]
  BY DEF ExecInv, TypeOK, LoopTypes, LoopStates, Planned
<1>3. /\ loop' \in [Queries -> [Loops -> LoopStates]]
      /\ \A r \in Queries \ {q} : loop'[r] = loop[r]
      /\ \A w \in Workers : loop'[q][w] = "next"
      /\ loop'[q][Local] = loop[q][Local]
  BY <1>2, Members
<1>4. /\ Goes(q, phase[q], "scan", answer[q]) /\ step[q] = "plan" /\ [Lock!Next]_lockVars
      /\ UNCHANGED <<dispatch, load, reqCache, task, resultVars, handleVars, workerVars>>
  BY DEF Goes, Planned, lockVars, ExecInv, TypeOK, QueryTypes
<1>5. TypeOK'
  BY <1>1, <1>3, <1>4, TablesStay DEF ExecInv, TypeOK
<1>6. \A w \in Workers : loop[q][w] = "off"
  BY <1>4 DEF ExecInv, StepsInv, StepsOf, Silent
<1>7. CallMoves(q)
  <2>1. \A x \in Loops : loop'[q][x] = loop[q][x] \/ (loop[q][x] = "off" /\ loop'[q][x] = "next")
    BY <1>3, <1>6, Members
  <2> QED
    BY <1>3, <1>4, <2>1 DEF CallMoves, PlansSent, Goes, resultVars, handleVars, workerVars
<1>8. StepsOf(q)'
  BY <1>3, <1>4 DEF ExecInv, StepsInv, StepsOf, Silent, Goes
<1> QED
  BY <1>5, <1>7, <1>8, CallInd

(* A setPlan or a loop of the pool fails.                                  *)
LEMMA PoolFailsInd ==
  ASSUME ExecInv, NEW q \in Queries, PoolFails(q)
  PROVE  ExecInv'
<1>1. QueryTypes'
  <2>1. /\ phase' \in [Queries -> Lock!Phases] /\ step' \in [Queries -> Steps] /\ UNCHANGED ahead
        /\ answer' \in [Queries -> {"none", "pool", "local", "error"}]
    BY DEF ExecInv, TypeOK, QueryTypes, PoolFails, Catch, Settle, StartLocal, lockVars,
           Lock!Release, Lock!TypeOK, Lock!Phases, Steps
  <2> QED
    BY <2>1 DEF ExecInv, TypeOK, QueryTypes, PoolFails, Lock!TypeOK
<1>2. /\ Catch(q) /\ step[q] \in {"plan", "scan"}
      /\ step[q] = "scan" => \E w \in Workers : loop[q][w] = "dead"
      /\ UNCHANGED <<dispatch, load, reqCache, task, resultVars, handleVars, workerVars>>
  BY DEF PoolFails
<1> QED
  BY <1>1, <1>2, CatchInd

(* The partials are reduced, or that throws.                               *)
LEMMA ReduceInd ==
  ASSUME ExecInv, NEW q \in Queries, Reduce(q)
  PROVE  ExecInv'
<1>1. QueryTypes'
  <2>1. /\ phase' \in [Queries -> Lock!Phases] /\ step' \in [Queries -> Steps] /\ UNCHANGED ahead
        /\ answer' \in [Queries -> {"none", "pool", "local", "error"}]
    BY DEF ExecInv, TypeOK, QueryTypes, Reduce, Settle, Lock!Release, Lock!TypeOK, Lock!Phases, Steps
  <2>2. faults' \in 0 .. MaxFaults
    BY QueryAssumption DEF ExecInv, TypeOK, QueryTypes, Reduce, Fault, NoFault
  <2> QED
    BY <2>1, <2>2 DEF ExecInv, TypeOK, QueryTypes, Reduce, Lock!TypeOK
<1>2. /\ Settle(q, "pool") \/ Settle(q, "error")
      /\ step[q] = "reduce"
      /\ UNCHANGED <<dispatch, load, reqCache, task, resultVars, handleVars, workerVars>>
  BY DEF Reduce
<1> QED
  BY <1>1, <1>2, SettleInd DEF Reduce

(* runLocalChunks returns or throws.                                       *)
LEMMA LocalEndsInd ==
  ASSUME ExecInv, NEW q \in Queries, LocalEnds(q)
  PROVE  ExecInv'
<1>1. QueryTypes'
  <2>1. /\ phase' \in [Queries -> Lock!Phases] /\ step' \in [Queries -> Steps] /\ UNCHANGED ahead
        /\ answer' \in [Queries -> {"none", "pool", "local", "error"}]
    BY DEF ExecInv, TypeOK, QueryTypes, LocalEnds, Settle, Lock!Release, Lock!TypeOK, Lock!Phases, Steps
  <2> QED
    BY <2>1 DEF ExecInv, TypeOK, QueryTypes, LocalEnds, Lock!TypeOK
<1>2. /\ (Settle(q, "local") /\ loop[q][Local] = "done") \/ Settle(q, "error")
      /\ step[q] = "local"
      /\ UNCHANGED <<dispatch, load, reqCache, task, resultVars, handleVars, workerVars>>
  BY DEF LocalEnds
<1> QED
  BY <1>1, <1>2, SettleInd

-----------------------------------------------------------------------------
(* STEPS THAT LEAVE THE LOOPS ALONE                                        *)

(* Prefetches, plans and acknowledgements come and go.                     *)
LEMMA QuietInd ==
  ASSUME ExecInv, TypeOK', LoadsInv', PlansInv',
         UNCHANGED <<lockVars, queryVars, dispatch, loop, task, resultVars, pending>>,
         \A w \in Workers : Shifted(inbox[w], inbox'[w], "task"),
         \A w \in Workers : Shifted(outbox[w], outbox'[w], "result")
  PROVE  ExecInv'
<1>1. Lock!IndInv'
  BY LockStep DEF ExecInv, lockVars
<1>2. StepsInv'
  BY StepsKept DEF ExecInv, lockVars, queryVars
<1>3. TasksInv'
  BY TasksKept DEF ExecInv
<1>4. FlightInv'
  BY FlightKept DEF ExecInv, TypeOK
<1>5. LocalInv'
  BY LocalKept DEF ExecInv, resultVars
<1>6. CoverInv'
  BY CoverKept DEF ExecInv, resultVars
<1> QED
  BY <1>1, <1>2, <1>3, <1>4, <1>5, <1>6 DEF ExecInv

(* The channels that a step does not touch.                                *)
LEMMA ChannelsSame ==
  ASSUME WorkerTypes
  PROVE  /\ UNCHANGED inbox => \A w \in Workers : Shifted(inbox[w], inbox'[w], "task")
         /\ UNCHANGED outbox => \A w \in Workers : Shifted(outbox[w], outbox'[w], "result")
<1>1. \A w \in Workers : inbox[w] \in Seq(Messages) /\ outbox[w] \in Seq(Messages)
  BY DEF WorkerTypes
<1> QED
  BY <1>1, ShiftedSame

(* A prefetch that uses the plan keeps the invariant.                      *)
LEMMA UsePlanInd ==
  ASSUME ExecInv, NEW q \in Queries, NEW m \in Paths, NEW c \in Chunks, UsePlan(q, m, c)
  PROVE  ExecInv'
<1>1. PICK s \in {"failed", IF c \in Pruned THEN "pruned" ELSE "ready"} :
        load' = [load EXCEPT ![q][m][c] = s]
  BY DEF UsePlan
<1>2. s \in LoadStates
  BY DEF LoadStates
<1>3. /\ load' \in [Queries -> [Paths -> [Chunks -> LoadStates]]]
      /\ load'[q][m][c] = s
      /\ \A r \in Queries, n \in Paths, d \in Chunks :
           r # q \/ n # m \/ d # c => load'[r][n][d] = load[r][n][d]
  <2>1. load \in [Queries -> [Paths -> [Chunks -> LoadStates]]]
    BY DEF ExecInv, TypeOK, LoopTypes
  <2> QED
    BY <1>1, <1>2, <2>1, Replaced3
<1>4. reqCache' \in Queries \cup {None}
  BY DEF ExecInv, TypeOK, LoopTypes, UsePlan
<1>5. UNCHANGED <<lockVars, queryVars, dispatch, loop, task, resultVars, handleVars,
                  workerVars, poolUp, warm, faults>>
  BY DEF UsePlan
<1>6. TypeOK'
  <2>1. QueryTypes'
    BY <1>5 DEF ExecInv, TypeOK, QueryTypes, lockVars, queryVars, Lock!TypeOK
  <2>2. LoopTypes'
    BY <1>3, <1>4, <1>5 DEF ExecInv, TypeOK, LoopTypes, resultVars
  <2> QED
    BY <1>5, <2>1, <2>2, TablesStay DEF ExecInv, TypeOK
<1>7. LoadsInv'
  <2>1. load[q][m][c] = "reading" /\ s \in {"failed", "pruned", "ready"}
    BY DEF UsePlan
  <2>2. \A r \in Queries, n \in Paths, d \in Chunks :
          load'[r][n][d] = "none" <=> load[r][n][d] = "none"
    BY <1>3, <2>1
  <2> QED
    BY <1>1, <1>3, <2>2, LoadsKept DEF ExecInv
<1>8. PlansInv'
  BY <1>5 DEF ExecInv, PlansInv, PlanOf, workerVars
<1> QED
  BY <1>5, <1>6, <1>7, <1>8, QuietInd, ChannelsSame DEF ExecInv, TypeOK, workerVars, handleVars

(* So does one whose read fails.                                           *)
LEMMA ReadFailsInd ==
  ASSUME ExecInv, NEW q \in Queries, NEW m \in Paths, NEW c \in Chunks, ReadFails(q, m, c)
  PROVE  ExecInv'
<1>1. load' = [load EXCEPT ![q][m][c] = "failed"] /\ "failed" \in LoadStates
  BY DEF ReadFails, LoadStates
<1>3. /\ load' \in [Queries -> [Paths -> [Chunks -> LoadStates]]]
      /\ load'[q][m][c] = "failed"
      /\ \A r \in Queries, n \in Paths, d \in Chunks :
           r # q \/ n # m \/ d # c => load'[r][n][d] = load[r][n][d]
  <2>1. load \in [Queries -> [Paths -> [Chunks -> LoadStates]]]
    BY DEF ExecInv, TypeOK, LoopTypes
  <2> QED
    BY <1>1, <2>1, Replaced3
<1>5. UNCHANGED <<lockVars, queryVars, dispatch, reqCache, loop, task, resultVars, handleVars,
                  workerVars, poolUp, warm>>
  BY DEF ReadFails
<1>6. TypeOK'
  <2>0. faults' \in 0 .. MaxFaults
    BY QueryAssumption DEF ExecInv, TypeOK, QueryTypes, ReadFails, Fault
  <2>1. QueryTypes'
    BY <1>5, <2>0 DEF ExecInv, TypeOK, QueryTypes, lockVars, queryVars, Lock!TypeOK
  <2>2. LoopTypes'
    BY <1>3, <1>5 DEF ExecInv, TypeOK, LoopTypes, resultVars
  <2> QED
    BY <1>5, <2>1, <2>2, TablesStay DEF ExecInv, TypeOK
<1>7. LoadsInv'
  <2>1. load[q][m][c] = "reading"
    BY DEF ReadFails
  <2>2. \A r \in Queries, n \in Paths, d \in Chunks :
          load'[r][n][d] = "none" <=> load[r][n][d] = "none"
    BY <1>3, <2>1
  <2> QED
    BY <1>3, <2>2, LoadsKept DEF ExecInv
<1>8. PlansInv'
  BY <1>5 DEF ExecInv, PlansInv, PlanOf, workerVars
<1> QED
  BY <1>5, <1>6, <1>7, <1>8, QuietInd, ChannelsSame DEF ExecInv, TypeOK, workerVars, handleVars

(* A worker takes a message and answers it.                                *)
LEMMA Replied ==
  ASSUME WorkerTypes, NEW w \in Workers, inbox[w] # <<>>, NEW msg \in Messages, Reply(w, msg)
  PROVE  /\ inbox' \in [Workers -> Seq(Messages)] /\ outbox' \in [Workers -> Seq(Messages)]
         /\ inbox'[w] = Tail(inbox[w]) /\ outbox'[w] = Append(outbox[w], msg)
         /\ \A v \in Workers \ {w} : inbox'[v] = inbox[v] /\ outbox'[v] = outbox[v]
         /\ Head(inbox[w]) \in Messages
         /\ \A v \in Workers : Shifted(inbox[v], inbox'[v], "task")
         /\ msg.type # "result" => \A v \in Workers : Shifted(outbox[v], outbox'[v], "result")
<1>1. \A v \in Workers : inbox[v] \in Seq(Messages) /\ outbox[v] \in Seq(Messages)
  BY DEF WorkerTypes
<1>2. /\ Tail(inbox[w]) \in Seq(Messages) /\ Append(outbox[w], msg) \in Seq(Messages)
      /\ Head(inbox[w]) \in Messages
  BY <1>1, Popped, Appended
<1>3. /\ inbox' \in [Workers -> Seq(Messages)] /\ outbox' \in [Workers -> Seq(Messages)]
      /\ inbox'[w] = Tail(inbox[w]) /\ outbox'[w] = Append(outbox[w], msg)
      /\ \A v \in Workers \ {w} : inbox'[v] = inbox[v] /\ outbox'[v] = outbox[v]
  BY <1>2 DEF WorkerTypes, Reply
<1>4. Shifted(inbox[w], Tail(inbox[w]), "task")
  BY <1>1, ShiftedTail
<1>5. msg.type # "result" => Shifted(outbox[w], Append(outbox[w], msg), "result")
  BY <1>1, ShiftedAppend
<1>6. \A v \in Workers \ {w} : Shifted(inbox[v], inbox'[v], "task") /\ Shifted(outbox[v], outbox'[v], "result")
  BY <1>1, <1>3, ShiftedSame
<1> QED
  BY <1>2, <1>3, <1>4, <1>5, <1>6

(* A worker's plan, and what it answers, leave its loops alone.            *)
LEMMA WorkerQuiet ==
  ASSUME ExecInv, WorkerTypes', PlansInv', faults' \in 0 .. MaxFaults,
         UNCHANGED <<lockVars, queryVars, loopVars, resultVars, handleVars, poolUp, warm>>,
         \A w \in Workers : Shifted(inbox[w], inbox'[w], "task"),
         \A w \in Workers : Shifted(outbox[w], outbox'[w], "result")
  PROVE  ExecInv'
<1>1. TypeOK'
  <2>1. QueryTypes'
    BY DEF ExecInv, TypeOK, QueryTypes, lockVars, queryVars, Lock!TypeOK
  <2>2. LoopTypes'
    BY TablesStay DEF ExecInv
  <2>3. HandleTypes'
    BY DEF ExecInv, TypeOK, HandleTypes, handleVars
  <2> QED
    BY <2>1, <2>2, <2>3 DEF TypeOK
<1>2. LoadsInv'
  BY DEF ExecInv, LoadsInv, LoadOf, loopVars
<1> QED
  BY <1>1, <1>2, QuietInd DEF loopVars, handleVars

(* A worker that takes a plan, or fails to, keeps the invariant.           *)
LEMMA HandlePlanInd ==
  ASSUME ExecInv, NEW w \in Workers, HandlePlan(w)
  PROVE  ExecInv'
<1>1. WorkerTypes /\ PlansInv
  BY DEF ExecInv, TypeOK
<1>2. PICK msg \in Messages : msg.type # "result" /\ Reply(w, msg)
  <2>1. [type |-> "planned"] \in Messages /\ [type |-> "planned"].type # "result"
    BY DEF Messages
  <2>2. [type |-> "error"] \in Messages /\ [type |-> "error"].type # "result"
    BY DEF Messages
  <2> QED
    BY <2>1, <2>2 DEF HandlePlan
<1>3. inbox[w] # <<>> /\ Head(inbox[w]).type = "plan"
  BY DEF HandlePlan
<1>4. /\ inbox' \in [Workers -> Seq(Messages)] /\ outbox' \in [Workers -> Seq(Messages)]
      /\ inbox'[w] = Tail(inbox[w])
      /\ \A v \in Workers \ {w} : inbox'[v] = inbox[v] /\ outbox'[v] = outbox[v]
      /\ Head(inbox[w]) \in Messages
      /\ \A v \in Workers : Shifted(inbox[v], inbox'[v], "task")
      /\ \A v \in Workers : Shifted(outbox[v], outbox'[v], "result")
  BY <1>1, <1>2, <1>3, Replied
<1>5. Head(inbox[w]).by \in Planners
  BY <1>3, <1>4 DEF Messages
<1>6. /\ wplan' \in [Workers -> [by : Planners \cup {None}, live : BOOLEAN, ran : BOOLEAN]]
      /\ \A v \in Workers \ {w} : wplan'[v] = wplan[v]
      /\ wplan'[w].live \/ wplan'[w].ran => wplan'[w].by # None
  <2>0. /\ wplan \in [Workers -> [by : Planners \cup {None}, live : BOOLEAN, ran : BOOLEAN]]
        /\ wplan[w].live \/ wplan[w].ran => wplan[w].by # None
    BY <1>1 DEF WorkerTypes, PlansInv, PlanOf
  <2>1. CASE wplan' = [wplan EXCEPT ![w] = [by |-> Head(inbox[w]).by, live |-> TRUE, ran |-> FALSE]]
    BY <2>0, <2>1, <1>5, Members
  <2>2. CASE wplan' = [wplan EXCEPT ![w].live = FALSE]
    BY <2>0, <2>2
  <2> QED
    BY <2>1, <2>2 DEF HandlePlan
<1>7. UNCHANGED <<lockVars, queryVars, loopVars, resultVars, handleVars, up, poolUp, warm>>
  BY DEF HandlePlan
<1>8. WorkerTypes'
  BY <1>1, <1>4, <1>6, <1>7 DEF WorkerTypes
<1>9. PlansInv'
  <2>1. up[w]
    BY <1>1, <1>3 DEF PlansInv, PlanOf
  <2> QED
    BY <2>1, <1>1, <1>4, <1>6, <1>7 DEF PlansInv, PlanOf
<1>10. faults' \in 0 .. MaxFaults
  BY QueryAssumption DEF HandlePlan, Fault, NoFault, ExecInv, TypeOK, QueryTypes
<1> QED
  BY <1>4, <1>7, <1>8, <1>9, <1>10, WorkerQuiet

(* A crash leaves an empty inbox and an error for the handle.              *)
LEMMA CrashInd ==
  ASSUME ExecInv, NEW w \in Workers, Crash(w)
  PROVE  ExecInv'
<1>1. WorkerTypes /\ PlansInv /\ \A v \in Workers : inbox[v] \in Seq(Messages) /\ outbox[v] \in Seq(Messages)
  BY DEF ExecInv, TypeOK, WorkerTypes
<1>2. [type |-> "error"] \in Messages /\ [type |-> "error"].type # "result"
  BY DEF Messages
<1>3. Append(outbox[w], [type |-> "error"]) \in Seq(Messages) /\ <<>> \in Seq(Messages)
  BY <1>1, <1>2, Appended
<1>4. UNCHANGED <<lockVars, queryVars, loopVars, resultVars, handleVars, wplan, poolUp, warm>>
  BY DEF Crash
<1>5. WorkerTypes'
  BY <1>1, <1>3, <1>4 DEF WorkerTypes, Crash
<1>6. PlansInv'
  BY <1>1, <1>4 DEF PlansInv, PlanOf, Crash, WorkerTypes
<1>7. \A v \in Workers : Shifted(inbox[v], inbox'[v], "task")
  <2>1. inbox'[w] = <<>> /\ \A v \in Workers \ {w} : inbox'[v] = inbox[v]
    BY <1>1 DEF Crash, WorkerTypes
  <2>2. Shifted(inbox[w], <<>>, "task")
    BY ShiftedEmpty
  <2>3. \A v \in Workers \ {w} : Shifted(inbox[v], inbox'[v], "task")
    BY <1>1, <2>1, ShiftedSame
  <2> QED
    BY <2>1, <2>2, <2>3
<1>8. \A v \in Workers : Shifted(outbox[v], outbox'[v], "result")
  <2>1. /\ outbox'[w] = Append(outbox[w], [type |-> "error"])
        /\ \A v \in Workers \ {w} : outbox'[v] = outbox[v]
    BY <1>1 DEF Crash, WorkerTypes
  <2>2. Shifted(outbox[w], Append(outbox[w], [type |-> "error"]), "result")
    BY <1>1, <1>2, ShiftedAppend
  <2>3. \A v \in Workers \ {w} : Shifted(outbox[v], outbox'[v], "result")
    BY <1>1, <2>1, ShiftedSame
  <2> QED
    BY <2>1, <2>2, <2>3
<1>9. faults' \in 0 .. MaxFaults
  BY QueryAssumption DEF Crash, Fault, ExecInv, TypeOK, QueryTypes
<1> QED
  BY <1>4, <1>5, <1>6, <1>7, <1>8, <1>9, WorkerQuiet

(* A handle takes a message of its worker.                                 *)
LEMMA Taken ==
  ASSUME WorkerTypes, NEW w \in Workers, outbox[w] # <<>>,
         outbox' = [outbox EXCEPT ![w] = Tail(@)], UNCHANGED <<inbox, wplan, up>>
  PROVE  /\ WorkerTypes' /\ outbox'[w] = Tail(outbox[w])
         /\ \A v \in Workers \ {w} : outbox'[v] = outbox[v]
         /\ Head(outbox[w]) \in Messages
         /\ \A v \in Workers : Shifted(inbox[v], inbox'[v], "task")
         /\ \A v \in Workers : Shifted(outbox[v], outbox'[v], "result")
<1>1. \A v \in Workers : inbox[v] \in Seq(Messages) /\ outbox[v] \in Seq(Messages)
  BY DEF WorkerTypes
<1>2. Tail(outbox[w]) \in Seq(Messages) /\ Head(outbox[w]) \in Messages
  BY <1>1, Popped
<1>3. /\ WorkerTypes' /\ outbox'[w] = Tail(outbox[w])
      /\ \A v \in Workers \ {w} : outbox'[v] = outbox[v]
  BY <1>2 DEF WorkerTypes
<1>4. Shifted(outbox[w], Tail(outbox[w]), "result")
  BY <1>1, ShiftedTail
<1>5. \A v \in Workers \ {w} : Shifted(outbox[v], outbox'[v], "result")
  BY <1>1, <1>3, ShiftedSame
<1>6. \A v \in Workers : Shifted(inbox[v], inbox'[v], "task")
  BY ChannelsSame
<1> QED
  BY <1>2, <1>3, <1>4, <1>5, <1>6

(* plannedResolve and plannedReject change the promise of one setPlan.     *)
LEMMA AckedTypes ==
  ASSUME HandleTypes, NEW w \in Workers, NEW a \in {"ok", "err"}
  PROVE  Acked(w, a) \in [Planners -> [Workers -> {"none", "wait", "ok", "err"}]]
<1>1. CASE Waiting(w)
  <2>1. bound[w] \in Planners /\ ack \in [Planners -> [Workers -> {"none", "wait", "ok", "err"}]]
    BY <1>1 DEF HandleTypes, Waiting
  <2> QED
    BY <1>1, <2>1, Replaced2 DEF Acked
<1>2. CASE ~Waiting(w)
  BY <1>2 DEF Acked, HandleTypes
<1> QED
  BY <1>1, <1>2

(* A "planned" reply touches no task.                                      *)
LEMMA OnPlannedInd ==
  ASSUME ExecInv, NEW w \in Workers, OnPlanned(w)
  PROVE  ExecInv'
<1>1. /\ outbox[w] # <<>> /\ outbox' = [outbox EXCEPT ![w] = Tail(@)] /\ ack' = Acked(w, "ok")
      /\ UNCHANGED <<lockVars, queryVars, loopVars, resultVars, bound, pending,
                     inbox, wplan, up, poolUp, warm, faults>>
  BY DEF OnPlanned
<1>2. /\ WorkerTypes'
      /\ \A v \in Workers : Shifted(inbox[v], inbox'[v], "task")
      /\ \A v \in Workers : Shifted(outbox[v], outbox'[v], "result")
  BY <1>1, Taken DEF ExecInv, TypeOK
<1>3. TypeOK'
  <2>1. QueryTypes'
    BY <1>1 DEF ExecInv, TypeOK, QueryTypes, lockVars, queryVars, Lock!TypeOK
  <2>2. HandleTypes'
    BY <1>1, AckedTypes DEF ExecInv, TypeOK, HandleTypes
  <2> QED
    BY <1>1, <1>2, <2>1, <2>2, TablesStay DEF ExecInv, TypeOK
<1>4. LoadsInv' /\ PlansInv'
  BY <1>1 DEF ExecInv, LoadsInv, LoadOf, PlansInv, PlanOf, loopVars
<1> QED
  BY <1>1, <1>2, <1>3, <1>4, QuietInd DEF loopVars

(* warmWorkers sends plans, which are no tasks.                            *)
LEMMA WarmStartInd ==
  ASSUME ExecInv, NEW p \in Warmers, WarmStart(p)
  PROVE  ExecInv'
<1>1. PlansSent /\ HandleTypes' /\ WorkerTypes'
  BY Members, SetPlanSends DEF ExecInv, WarmStart
<1>2. /\ UNCHANGED <<lockVars, queryVars, loopVars, resultVars, faults, pending>>
      /\ poolUp' = TRUE /\ warm' = [warm EXCEPT ![p] = "plan"]
  BY DEF WarmStart, SetPlan
<1>3. TypeOK'
  <2>1. QueryTypes'
    BY <1>2 DEF ExecInv, TypeOK, QueryTypes, lockVars, queryVars, Lock!TypeOK
  <2> QED
    BY <1>1, <1>2, <2>1, TablesStay DEF ExecInv, TypeOK
<1>4. LoadsInv' /\ PlansInv'
  BY <1>1, <1>2 DEF ExecInv, LoadsInv, LoadOf, PlansInv, PlanOf, loopVars, PlansSent
<1>5. /\ \A w \in Workers : Shifted(inbox[w], inbox'[w], "task")
      /\ \A w \in Workers : Shifted(outbox[w], outbox'[w], "result")
  BY <1>1, PlansSentShift DEF ExecInv, TypeOK
<1> QED
  BY <1>2, <1>3, <1>4, <1>5, QuietInd DEF loopVars

(* Its end changes nothing but its own state.                              *)
LEMMA WarmEndInd ==
  ASSUME ExecInv, NEW p \in Warmers, WarmEnd(p)
  PROVE  ExecInv'
<1>1. /\ UNCHANGED <<lockVars, queryVars, loopVars, resultVars, handleVars, workerVars, poolUp, faults>>
      /\ warm' = [warm EXCEPT ![p] = "done"]
  BY DEF WarmEnd
<1>2. TypeOK'
  <2>1. QueryTypes'
    BY <1>1 DEF ExecInv, TypeOK, QueryTypes, lockVars, queryVars, Lock!TypeOK
  <2> QED
    BY <1>1, <2>1, TablesStay DEF ExecInv, TypeOK
<1>3. LoadsInv' /\ PlansInv'
  BY <1>1 DEF ExecInv, LoadsInv, LoadOf, PlansInv, PlanOf, loopVars, workerVars
<1> QED
  BY <1>1, <1>2, <1>3, QuietInd, ChannelsSame
     DEF ExecInv, TypeOK, loopVars, handleVars, workerVars

-----------------------------------------------------------------------------
(* STEPS OF THE LOOPS                                                      *)

(* A message more that is not a task, or not a result, of the query.       *)
LEMMA SentMove ==
  ASSUME WorkerTypes, NEW w \in Workers, NEW q \in Queries, NEW e \in Messages
  PROVE  /\ inbox'[w] = Append(inbox[w], e) /\ (e.type = "task" => e.by # q) => TasksMove(w, q)
         /\ outbox'[w] = Append(outbox[w], e) /\ (e.type = "result" => e.by # q) => ResultsMove(w, q)
<1>1. inbox[w] \in Seq(Messages) /\ outbox[w] \in Seq(Messages)
  BY DEF WorkerTypes
<1>2. ASSUME inbox'[w] = Append(inbox[w], e), e.type = "task" => e.by # q PROVE TasksMove(w, q)
  <2>1. \A i \in DOMAIN inbox'[w] :
          \/ i + 0 \in DOMAIN inbox[w] /\ inbox'[w][i] = inbox[w][i + 0]
          \/ inbox'[w][i] = e
    BY <1>1, <1>2, Appended
  <2> QED
    BY <1>2, <2>1 DEF TasksMove, Tasks
<1>3. ASSUME outbox'[w] = Append(outbox[w], e), e.type = "result" => e.by # q PROVE ResultsMove(w, q)
  <2>1. \A i \in DOMAIN outbox'[w] :
          \/ i + 0 \in DOMAIN outbox[w] /\ outbox'[w][i] = outbox[w][i + 0]
          \/ outbox'[w][i] = e
    BY <1>1, <1>3, Appended
  <2> QED
    BY <1>3, <2>1 DEF ResultsMove, Results
<1> QED
  BY <1>2, <1>3

(* One loop goes on.                                                       *)
LEMMA LoopSet ==
  ASSUME TypeOK, NEW q \in Queries, NEW x \in Loops, NEW s \in LoopStates,
         loop' = [loop EXCEPT ![q][x] = s]
  PROVE  /\ loop' \in [Queries -> [Loops -> LoopStates]]
         /\ loop'[q][x] = s
         /\ \A r \in Queries, y \in Loops : r # q \/ y # x => loop'[r][y] = loop[r][y]
<1>1. loop \in [Queries -> [Loops -> LoopStates]]
  BY DEF TypeOK, LoopTypes
<1> QED
  BY <1>1, Replaced2

(* One loop takes or drops a chunk.                                        *)
LEMMA TaskSet ==
  ASSUME TypeOK, NEW q \in Queries, NEW x \in Loops, NEW c \in Chunks \cup {None},
         task' = [task EXCEPT ![q][x] = c]
  PROVE  /\ task' \in [Queries -> [Loops -> Chunks \cup {None}]]
         /\ task'[q][x] = c
         /\ \A r \in Queries, y \in Loops : r # q \/ y # x => task'[r][y] = task[r][y]
<1>1. task \in [Queries -> [Loops -> Chunks \cup {None}]]
  BY DEF TypeOK, LoopTypes
<1> QED
  BY <1>1, Replaced2

(* One chunk gets its partial.                                             *)
LEMMA PartialSet ==
  ASSUME TypeOK, NEW q \in Queries, NEW c \in Chunks, NEW p \in Planners,
         partial' = [partial EXCEPT ![q][c] = p]
  PROVE  /\ partial' \in [Queries -> [Chunks -> Planners \cup {None}]]
         /\ partial'[q][c] = p /\ p # None
         /\ \A r \in Queries, d \in Chunks : r # q \/ d # c => partial'[r][d] = partial[r][d]
<1>1. partial \in [Queries -> [Chunks -> Planners \cup {None}]]
  BY DEF TypeOK, LoopTypes
<1> QED
  BY <1>1, Replaced2, Members

(* next() is called.                                                       *)
LEMMA ClaimInd ==
  ASSUME ExecInv, NEW q \in Queries, NEW x \in Loops, Claim(q, x)
  PROVE  ExecInv'
<1> DEFINE m == Path(x)
<1>1. m \in Paths /\ loop[q][x] = "next" /\ task[q][x] = None
  BY DEF Claim, ExecInv, TasksInv, TaskOf, Path, Paths
<1>2. /\ dispatch \in [Queries -> [Paths -> 0 .. NChunks]]
      /\ load \in [Queries -> [Paths -> [Chunks -> LoadStates]]]
      /\ "reading" \in LoadStates /\ {"await", "done"} \subseteq LoopStates
  BY DEF ExecInv, TypeOK, LoopTypes, LoadStates, LoopStates
<1>3. load' = [load EXCEPT ![q][m] = Staged(q, m)]
  BY DEF Claim
<1>4. Staged(q, m) \in [Chunks -> LoadStates]
  BY <1>1, <1>2 DEF Staged
<1>5. load' \in [Queries -> [Paths -> [Chunks -> LoadStates]]]
  BY <1>1, <1>2, <1>3, <1>4, Replaced2
<1>6. LoadsInv'
  <2>1. \A r \in Queries, n \in Paths : load'[r][n] = IF r = q /\ n = m THEN Staged(q, m) ELSE load[r][n]
    BY <1>1, <1>2, <1>3, <1>4, Replaced2
  <2>2. \A r \in Queries, n \in Paths, c \in Chunks :
          load'[r][n][c] = load[r][n][c] \/ load'[r][n][c] = "reading"
    <3>1. \A c \in Chunks : Staged(q, m)[c] \in {load[q][m][c], "reading"}
      BY DEF Staged
    <3> QED
      BY <2>1, <3>1
  <2>3. \A r \in Queries, n \in Paths :
          \/ \A c \in Chunks : load'[r][n][c] = "none" <=> load[r][n][c] = "none"
          \/ \A c \in Chunks : load'[r][n][c] # "none"
    <3>1. \A c \in Chunks : Staged(q, m)[c] # "none"
      BY DEF Staged
    <3> QED
      BY <2>1, <3>1
  <2> QED
    BY <2>2, <2>3, LoadsKept DEF ExecInv
<1>7. UNCHANGED <<lockVars, queryVars, reqCache, resultVars, handleVars,
                  workerVars, poolUp, warm, faults>>
  BY DEF Claim
<1>8. \/ /\ dispatch[q][m] < NChunks /\ task' = [task EXCEPT ![q][x] = dispatch[q][m]]
         /\ dispatch' = [dispatch EXCEPT ![q][m] = @ + 1] /\ loop' = [loop EXCEPT ![q][x] = "await"]
      \/ /\ ~(dispatch[q][m] < NChunks)
         /\ UNCHANGED <<task, dispatch>> /\ loop' = [loop EXCEPT ![q][x] = "done"]
  BY DEF Claim, Left
<1>9. /\ loop' \in [Queries -> [Loops -> LoopStates]]
      /\ loop'[q][x] \in {"await", "done"}
      /\ \A r \in Queries, y \in Loops : r # q \/ y # x => loop'[r][y] = loop[r][y]
  BY <1>2, <1>8, LoopSet DEF ExecInv
<1>10. CASE /\ dispatch[q][m] < NChunks /\ task' = [task EXCEPT ![q][x] = dispatch[q][m]]
            /\ dispatch' = [dispatch EXCEPT ![q][m] = @ + 1] /\ loop' = [loop EXCEPT ![q][x] = "await"]
  <2>1. /\ dispatch[q][m] \in Chunks /\ dispatch[q][m] + 1 \in 0 .. NChunks
        /\ dispatch[q][m] \in Nat
    BY <1>1, <1>2, <1>10, Members DEF Chunks
  <2>2. /\ dispatch' \in [Queries -> [Paths -> 0 .. NChunks]]
        /\ dispatch'[q][m] = dispatch[q][m] + 1
        /\ \A r \in Queries, n \in Paths : r # q \/ n # m => dispatch'[r][n] = dispatch[r][n]
    <3>1. dispatch' = [dispatch EXCEPT ![q][m] = dispatch[q][m] + 1]
      BY <1>10
    <3> QED
      BY <1>1, <1>2, <2>1, <3>1, Replaced2
  <2>3. /\ task' \in [Queries -> [Loops -> Chunks \cup {None}]]
        /\ task'[q][x] = dispatch[q][m]
        /\ \A r \in Queries, y \in Loops : r # q \/ y # x => task'[r][y] = task[r][y]
    BY <1>10, <2>1, TaskSet, ZenonT(60) DEF ExecInv
  <2>4. loop'[q][x] = "await"
    BY <1>2, <1>10, LoopSet DEF ExecInv
  <2>5. TypeOK'
    <3>1. QueryTypes'
      BY <1>7 DEF ExecInv, TypeOK, QueryTypes, lockVars, queryVars, Lock!TypeOK
    <3>2. LoopTypes'
      BY <1>5, <1>7, <1>9, <2>2, <2>3 DEF ExecInv, TypeOK, LoopTypes, resultVars
    <3> QED
      BY <1>7, <3>1, <3>2, TablesStay DEF ExecInv, TypeOK
  <2>6. Lock!IndInv' /\ StepsInv' /\ PlansInv'
    <3>1. Lock!IndInv'
      BY <1>7, LockStep DEF ExecInv, lockVars
    <3>2. StepsInv'
      BY <1>1, <1>7, <1>9, <2>4, StepsKept DEF ExecInv, lockVars, queryVars
    <3> QED
      BY <1>7, <3>1, <3>2 DEF ExecInv, PlansInv, PlanOf, workerVars
  <2>7. TasksInv'
    <3>1. task'[q][x] < dispatch'[q][Path(x)]
      BY <2>1, <2>2, <2>3
    <3>2. \A r \in Queries, y \in Loops : r # q \/ y # x =>
            (task[r][y] \in Chunks /\ task[r][y] < dispatch[r][Path(y)] =>
               task[r][y] < dispatch'[r][Path(y)])
      <4> SUFFICES ASSUME NEW r \in Queries, NEW y \in Loops, task[r][y] \in Chunks,
                          task[r][y] < dispatch[r][Path(y)]
                   PROVE  task[r][y] < dispatch'[r][Path(y)]
        OBVIOUS
      <4>1. task[r][y] \in Nat
        BY Members
      <4>2. CASE r = q /\ Path(y) = m
        BY <2>1, <2>2, <4>1, <4>2
      <4>3. CASE r # q \/ Path(y) # m
        BY <2>2, <4>3 DEF Path, Paths
      <4> QED
        BY <4>2, <4>3
    <3> QED
      BY <1>9, <2>1, <2>3, <2>4, <3>1, <3>2, TasksKept DEF ExecInv
  <2>8. FlightInv'
    BY <1>1, <1>7, <1>9, <2>3, <2>5, FlightKept, OffIsIdle, ChannelsSame, Members
       DEF ExecInv, TypeOK, handleVars, workerVars
  <2>9. LocalInv'
    <3> SUFFICES ASSUME NEW r \in Queries PROVE LocalOf(r)'
      BY DEF LocalInv
    <3>1. LocalOf(r)
      BY DEF ExecInv, LocalInv
    <3>2. CASE r = q /\ x = Local
      <4>1. /\ dispatch'[r]["local"] = dispatch[r]["local"] + 1 /\ dispatch[r]["local"] \in Nat
            /\ task'[r][Local] = dispatch[r]["local"] /\ loop'[r][Local] = "await"
        BY <2>1, <2>2, <2>3, <2>4, <3>2, Members
      <4>2. merged'[r] = 0 .. dispatch[r]["local"] - 1
        BY <1>1, <1>7, <3>1, <3>2 DEF LocalOf, resultVars
      <4> QED
        BY <4>1, <4>2 DEF LocalOf, Silent
    <3>3. CASE r # q \/ x # Local
      <4>1. /\ loop'[r][Local] = loop[r][Local] /\ task'[r][Local] = task[r][Local]
            /\ dispatch'[r]["local"] = dispatch[r]["local"]
        BY <1>9, <2>2, <2>3, <3>3, Members
      <4> QED
        BY <1>7, <3>1, <4>1 DEF LocalOf, Silent, resultVars
    <3> QED
      BY <3>2, <3>3
  <2>10. CoverInv'
    <3> SUFFICES ASSUME NEW r \in Queries PROVE CoverOf(r)'
      BY DEF CoverInv
    <3>1. CoverOf(r)
      BY DEF ExecInv, CoverInv
    <3>2. CASE r = q /\ x \in Workers
      <4>1. /\ dispatch'[q]["pool"] = dispatch[q]["pool"] + 1 /\ dispatch[q]["pool"] \in Nat
            /\ task'[q][x] = dispatch[q]["pool"]
        BY <2>1, <2>2, <2>3, <3>2, Members
      <4>2. ASSUME NEW c \in Chunks, c < dispatch'[q]["pool"]
            PROVE  partial'[q][c] # None \/ \E w \in Workers : task'[q][w] = c
        <5>1. c < dispatch[q]["pool"] \/ c = dispatch[q]["pool"]
          BY <4>1, <4>2, Members
        <5>2. CASE c = dispatch[q]["pool"]
          BY <3>2, <4>1, <5>2
        <5>3. ASSUME NEW w \in Workers, task[q][w] = c PROVE task'[q][w] = c
          <6>1. w # x
            BY <1>1, <5>3, Members
          <6> QED
            BY <2>3, <5>3, <6>1, Members
        <5> QED
          BY <1>7, <3>1, <3>2, <5>1, <5>2, <5>3 DEF CoverOf, resultVars
      <4>3. ASSUME NEW w \in Workers, loop'[q][w] = "done" PROVE FALSE
        <5>1. w # x /\ loop[q][w] = "done"
          BY <1>9, <2>4, <4>3, Members
        <5>2. dispatch[q]["pool"] = NChunks
          BY <3>1, <3>2, <5>1 DEF CoverOf
        <5> QED
          BY <1>10, <3>2, <5>2, Members
      <4> QED
        BY <3>2, <4>2, <4>3 DEF CoverOf
    <3>3. CASE r # q \/ x = Local
      <4>1. /\ dispatch'[r]["pool"] = dispatch[r]["pool"]
            /\ \A w \in Workers : loop'[r][w] = loop[r][w] /\ task'[r][w] = task[r][w]
        BY <1>9, <2>2, <2>3, <3>3, Members
      <4> QED
        BY <1>7, <3>1, <4>1 DEF CoverOf, resultVars
    <3> QED
      BY <3>2, <3>3, Members
  <2> QED
    BY <1>6, <2>5, <2>6, <2>7, <2>8, <2>9, <2>10 DEF ExecInv
<1>11. CASE ~(dispatch[q][m] < NChunks) /\ UNCHANGED <<task, dispatch>> /\ loop' = [loop EXCEPT ![q][x] = "done"]
  <2>1. dispatch[q][m] = NChunks
    <3>1. dispatch[q][m] \in 0 .. NChunks
      BY <1>1, <1>2
    <3> QED
      BY <1>11, <3>1, Members
  <2>4. loop'[q][x] = "done"
    BY <1>2, <1>11, LoopSet DEF ExecInv
  <2>5. TypeOK'
    <3>1. QueryTypes'
      BY <1>7 DEF ExecInv, TypeOK, QueryTypes, lockVars, queryVars, Lock!TypeOK
    <3>2. LoopTypes'
      BY <1>5, <1>7, <1>9, <1>11 DEF ExecInv, TypeOK, LoopTypes, resultVars
    <3> QED
      BY <1>7, <3>1, <3>2, TablesStay DEF ExecInv, TypeOK
  <2>6. Lock!IndInv' /\ StepsInv' /\ PlansInv'
    <3>1. Lock!IndInv'
      BY <1>7, LockStep DEF ExecInv, lockVars
    <3>2. StepsInv'
      BY <1>1, <1>7, <1>9, <2>4, StepsKept DEF ExecInv, lockVars, queryVars
    <3> QED
      BY <1>7, <3>1, <3>2 DEF ExecInv, PlansInv, PlanOf, workerVars
  <2>7. TasksInv'
    BY <1>1, <1>9, <1>11, <2>4, TasksKept DEF ExecInv
  <2>8. FlightInv'
    BY <1>1, <1>7, <1>9, <1>11, <2>5, FlightKept, OffIsIdle, ChannelsSame, Members
       DEF ExecInv, TypeOK, handleVars, workerVars
  <2>9. LocalInv'
    <3> SUFFICES ASSUME NEW r \in Queries PROVE LocalOf(r)'
      BY DEF LocalInv
    <3>1. LocalOf(r)
      BY DEF ExecInv, LocalInv
    <3>2. CASE r = q /\ x = Local
      BY <1>1, <1>7, <1>11, <2>1, <2>4, <3>1, <3>2, Members DEF LocalOf, Silent, resultVars
    <3>3. CASE r # q \/ x # Local
      <4>1. loop'[r][Local] = loop[r][Local]
        BY <1>9, <3>3, Members
      <4> QED
        BY <1>7, <1>11, <3>1, <4>1 DEF LocalOf, Silent, resultVars
    <3> QED
      BY <3>2, <3>3
  <2>10. CoverInv'
    <3>1. \A r \in Queries, w \in Workers :
            loop'[r][w] = "done" => loop[r][w] = "done" \/ dispatch[r]["pool"] = NChunks
      BY <1>9, <2>1, Members
    <3> QED
      BY <1>7, <1>11, <3>1, CoverKept DEF ExecInv, resultVars
  <2> QED
    BY <1>6, <2>5, <2>6, <2>7, <2>8, <2>9, <2>10 DEF ExecInv
<1> QED
  BY <1>8, <1>10, <1>11

(* The tables of the queries and of the lock when only loops, tasks and    *)
(* results change.                                                         *)
LEMMA QueriesStay ==
  ASSUME ExecInv, UNCHANGED <<lockVars, queryVars, poolUp, warm>>, faults' \in 0 .. MaxFaults
  PROVE  QueryTypes' /\ Lock!IndInv'
<1>1. QueryTypes'
  BY DEF ExecInv, TypeOK, QueryTypes, lockVars, queryVars, Lock!TypeOK
<1>2. Lock!IndInv'
  BY LockStep DEF ExecInv, lockVars
<1> QED
  BY <1>1, <1>2

(* The payload's promise settles.                                          *)
LEMMA ReceiveInd ==
  ASSUME ExecInv, NEW q \in Queries, NEW x \in Loops, Receive(q, x)
  PROVE  ExecInv'
<1> DEFINE c == task[q][x]
           m == Path(x)
           s == load[q][m][c]
           e == [type |-> "task", by |-> q, chunk |-> c]
<1>1. /\ loop[q][x] = "await" /\ c \in Chunks /\ c < dispatch[q][m] /\ m \in Paths
      /\ s \in {"ready", "pruned", "failed"}
  BY DEF Receive, ExecInv, TasksInv, TaskOf, Path, Paths
<1>2. /\ UNCHANGED <<lockVars, queryVars, dispatch, reqCache, task, resultVars, ack, bound,
                     outbox, wplan, up, poolUp, warm, faults>>
      /\ loop' = [loop EXCEPT ![q][x] = IF s = "failed" THEN "dead" ELSE "run"]
      /\ load' = IF s = "failed" THEN load ELSE [load EXCEPT ![q][m][c] = "taken"]
      /\ IF x \in Workers /\ s = "ready"
           THEN /\ pending' = [pending EXCEPT ![x] = @ \cup {<<q, c>>}]
                /\ inbox' = [inbox EXCEPT ![x] = Post(x, e)]
           ELSE UNCHANGED <<pending, inbox>>
  BY DEF Receive
<1> HIDE DEF c, m, s, e
<1>3. /\ loop' \in [Queries -> [Loops -> LoopStates]]
      /\ loop'[q][x] = IF s = "failed" THEN "dead" ELSE "run"
      /\ \A r \in Queries, y \in Loops : r # q \/ y # x => loop'[r][y] = loop[r][y]
  <2>1. PICK l \in LoopStates : l = IF s = "failed" THEN "dead" ELSE "run"
    BY DEF LoopStates
  <2>2. loop' = [loop EXCEPT ![q][x] = l] /\ TypeOK
    BY <1>2, <2>1 DEF ExecInv
  <2>3. /\ loop' \in [Queries -> [Loops -> LoopStates]]
        /\ loop'[q][x] = l
        /\ \A r \in Queries, y \in Loops : r # q \/ y # x => loop'[r][y] = loop[r][y]
    BY <2>2, LoopSet, ZenonT(60)
  <2> QED
    BY <2>1, <2>3
<1>4. /\ load' \in [Queries -> [Paths -> [Chunks -> LoadStates]]]
      /\ \A r \in Queries, n \in Paths, d \in Chunks :
           load'[r][n][d] = load[r][n][d] \/ (load'[r][n][d] = "taken" /\ load[r][n][d] # "none")
  <2>1. load \in [Queries -> [Paths -> [Chunks -> LoadStates]]] /\ "taken" \in LoadStates
    BY DEF ExecInv, TypeOK, LoopTypes, LoadStates
  <2>2. CASE s = "failed"
    BY <1>2, <2>1, <2>2
  <2>3. CASE s # "failed"
    <3>1. load' = [load EXCEPT ![q][m][c] = "taken"]
      BY <1>2, <2>3
    <3>2. /\ load' \in [Queries -> [Paths -> [Chunks -> LoadStates]]]
          /\ load'[q][m][c] = "taken"
          /\ \A r \in Queries, n \in Paths, d \in Chunks :
               r # q \/ n # m \/ d # c => load'[r][n][d] = load[r][n][d]
      BY <1>1, <2>1, <3>1, Replaced3
    <3>3. load[q][m][c] # "none"
      BY <1>1 DEF s
    <3> QED
      BY <3>2, <3>3
  <2> QED
    BY <2>2, <2>3
<1>5. LoadsInv'
  BY <1>4, LoadsKept DEF ExecInv
<1>6. QueryTypes' /\ Lock!IndInv' /\ StepsInv'
  <2>1. QueryTypes' /\ Lock!IndInv'
    BY <1>2, QueriesStay DEF ExecInv, TypeOK, QueryTypes
  <2>2. StepsInv'
    BY <1>1, <1>2, <1>3, StepsKept DEF ExecInv, lockVars, queryVars
  <2> QED
    BY <2>1, <2>2
<1>7. LoopTypes'
  BY <1>2, <1>3, <1>4 DEF ExecInv, TypeOK, LoopTypes, resultVars
<1>8. TasksInv'
  <2>1. task'[q][x] = c
    BY <1>2 DEF c
  <2> QED
    BY <1>1, <1>2, <1>3, <2>1, TasksKept DEF ExecInv, m
<1>9. LocalInv'
  <2> SUFFICES ASSUME NEW r \in Queries PROVE LocalOf(r)'
    BY DEF LocalInv
  <2>1. LocalOf(r) /\ Local \in Loops
    BY Members DEF ExecInv, LocalInv
  <2>2. \/ loop'[r][Local] = loop[r][Local]
        \/ loop[r][Local] = "await" /\ loop'[r][Local] \in {"run", "dead"}
    BY <1>1, <1>3, <2>1
  <2> QED
    BY <1>2, <2>1, <2>2 DEF LocalOf, Silent, resultVars
<1>10. CoverInv'
  <2>1. \A r \in Queries, w \in Workers : loop'[r][w] = "done" => loop[r][w] = "done"
    BY <1>3, Members
  <2> QED
    BY <1>2, <2>1, CoverKept DEF ExecInv, resultVars
<1>11. CASE ~(x \in Workers /\ s = "ready")
  <2>1. UNCHANGED <<pending, inbox>>
    BY <1>2, <1>11
  <2>2. HandleTypes' /\ WorkerTypes' /\ PlansInv'
    BY <1>2, <2>1 DEF ExecInv, TypeOK, HandleTypes, WorkerTypes, PlansInv, PlanOf
  <2>3. FlightInv'
    BY <1>1, <1>2, <1>3, <2>1, <2>2, FlightKept, OffIsIdle, ChannelsSame, Members
       DEF ExecInv, TypeOK
  <2> QED
    BY <1>5, <1>6, <1>7, <1>8, <1>9, <1>10, <2>2, <2>3 DEF ExecInv, TypeOK
<1>12. CASE x \in Workers /\ s = "ready"
  <2>1. /\ pending' = [pending EXCEPT ![x] = @ \cup {<<q, c>>}]
        /\ inbox' = [inbox EXCEPT ![x] = Post(x, e)]
    BY <1>2, <1>12
  <2>2. e \in Messages /\ e.type = "task" /\ e.by = q /\ e.chunk = c
    BY <1>1 DEF Messages, e
  <2>3. inbox \in [Workers -> Seq(Messages)] /\ pending \in [Workers -> SUBSET (Queries \X Chunks)]
    BY DEF ExecInv, TypeOK, HandleTypes, WorkerTypes
  <2>4. Post(x, e) \in Seq(Messages)
    BY <1>12, <2>2, <2>3, Appended DEF Post
  <2>5. /\ pending' \in [Workers -> SUBSET (Queries \X Chunks)]
        /\ pending'[x] = pending[x] \cup {<<q, c>>}
        /\ \A w \in Workers \ {x} : pending'[w] = pending[w]
    <3>1. pending[x] \cup {<<q, c>>} \in SUBSET (Queries \X Chunks)
      BY <1>1, <1>12, <2>3
    <3> QED
      BY <1>12, <2>1, <2>3, <3>1
  <2>6. /\ inbox' \in [Workers -> Seq(Messages)] /\ inbox'[x] = Post(x, e)
        /\ \A w \in Workers \ {x} : inbox'[w] = inbox[w]
    BY <1>12, <2>1, <2>3, <2>4
  <2>7. HandleTypes' /\ WorkerTypes'
    BY <1>2, <2>5, <2>6 DEF ExecInv, TypeOK, HandleTypes, WorkerTypes
  <2>8. PlansInv'
    <3>1. \A w \in Workers : ~up[w] => inbox'[w] = inbox[w]
      BY <2>6 DEF Post
    <3> QED
      BY <1>2, <3>1 DEF ExecInv, PlansInv, PlanOf
  <2>9. FlightInv'
    <3> SUFFICES ASSUME NEW w \in Workers, NEW r \in Queries PROVE FlightOf(w, r)'
      BY DEF FlightInv
    <3>0. FlightOf(w, r) /\ WorkerTypes /\ inbox[w] \in Seq(Messages) /\ outbox'[w] = outbox[w]
      BY <1>2, <2>3 DEF ExecInv, FlightInv, TypeOK
    <3>1. ResultsMove(w, r) /\ (inbox'[w] = inbox[w] => TasksMove(w, r))
      BY <3>0, ShiftedMove, ShiftedSame DEF WorkerTypes
    <3>2. CASE w # x
      <4>1. inbox'[w] = inbox[w] /\ pending'[w] = pending[w] /\ loop'[r][w] = loop[r][w] /\ task'[r][w] = task[r][w]
        BY <1>2, <1>3, <2>5, <2>6, <3>2, Members
      <4> QED
        BY <2>7, <3>0, <3>1, <4>1, FlightSame
    <3>3. CASE w = x /\ r # q
      <4>1. /\ loop'[r][w] = loop[r][w] /\ task'[r][w] = task[r][w]
            /\ \A d : <<r, d>> \in pending'[w] <=> <<r, d>> \in pending[w]
        BY <1>2, <1>3, <2>5, <3>3, Members
      <4>2. TasksMove(w, r)
        BY <2>2, <2>6, <3>0, <3>1, <3>3, SentMove DEF Post
      <4> QED
        BY <2>7, <3>0, <3>1, <4>1, <4>2, FlightSame
    <3>4. CASE w = x /\ r = q
      <4>1. Idle(x, q)
        BY <1>1, <1>12, OffIsIdle DEF ExecInv
      <4>2. Tasks(x, q) = {} /\ Results(x, q) = {}
        BY <1>12, <3>0, <4>1, NothingFlies DEF ExecInv
      <4>3. Results(x, q)' = {}
        BY <1>2, <4>2 DEF Results
      <4>4. /\ \A i \in Tasks(x, q)' : inbox'[x][i] = e
            /\ \A i, j \in Tasks(x, q)' : i = j
        <5>1. CASE up[x]
          <6>1. inbox'[x] = Append(inbox[x], e)
            BY <2>6, <5>1 DEF Post
          <6>2. /\ \A i \in DOMAIN inbox'[x] : i \in DOMAIN inbox[x] \/ i = Len(inbox[x]) + 1
                /\ \A i \in DOMAIN inbox[x] : inbox'[x][i] = inbox[x][i]
                /\ inbox'[x][Len(inbox[x]) + 1] = e
            BY <2>2, <3>0, <3>4, <6>1, Appended
          <6> QED
            BY <4>2, <6>2 DEF Tasks
        <5>2. CASE ~up[x]
          BY <2>6, <4>2, <5>2 DEF Post, Tasks
        <5> QED
          BY <5>1, <5>2
      <4>5. task'[q][x] = c /\ loop'[q][x] = "run"
        BY <1>2, <1>3, <1>12 DEF c
      <4>6. c \notin Pruned
        BY <1>1, <1>12 DEF ExecInv, LoadsInv, LoadOf, s
      <4>7. \A d \in Chunks : <<q, d>> \in pending'[x] <=> d = c
        BY <2>5, <4>1 DEF Idle
      <4>8. \A i \in Tasks(x, q)' : <<q, inbox'[x][i].chunk>> \in pending'[x]
        BY <1>1, <2>2, <4>4, <4>7
      <4> QED
        BY <3>4, <4>3, <4>4, <4>5, <4>6, <4>7, <4>8 DEF FlightOf
    <3> QED
      BY <3>2, <3>3, <3>4
  <2> QED
    BY <1>5, <1>6, <1>7, <1>8, <1>9, <1>10, <2>7, <2>8, <2>9 DEF ExecInv, TypeOK
<1> QED
  BY <1>11, <1>12

(* A pruned chunk gets an empty partial.                                   *)
LEMMA EmptyPartialInd ==
  ASSUME ExecInv, NEW q \in Queries, NEW x \in Loops, EmptyPartial(q, x)
  PROVE  ExecInv'
<1>1. /\ x \in Workers /\ loop[q][x] = "run" /\ task[q][x] \in Pruned /\ task[q][x] \in Chunks
      /\ loop' = [loop EXCEPT ![q][x] = "next"] /\ task' = [task EXCEPT ![q][x] = None]
      /\ partial' = [partial EXCEPT ![q][task[q][x]] = q]
      /\ UNCHANGED <<lockVars, queryVars, dispatch, load, reqCache, merged, handleVars,
                     workerVars, poolUp, warm, faults>>
  BY DEF EmptyPartial, ExecInv, TasksInv, TaskOf
<1>2. /\ loop' \in [Queries -> [Loops -> LoopStates]]
      /\ loop'[q][x] = "next"
      /\ \A r \in Queries, y \in Loops : r # q \/ y # x => loop'[r][y] = loop[r][y]
  BY <1>1, LoopSet DEF ExecInv, LoopStates
<1>3. /\ task' \in [Queries -> [Loops -> Chunks \cup {None}]]
      /\ task'[q][x] = None
      /\ \A r \in Queries, y \in Loops : r # q \/ y # x => task'[r][y] = task[r][y]
  BY <1>1, TaskSet, ZenonT(60) DEF ExecInv
<1>4. /\ partial' \in [Queries -> [Chunks -> Planners \cup {None}]]
      /\ partial'[q][task[q][x]] # None
      /\ \A r \in Queries, d \in Chunks :
           r # q \/ d # task[q][x] => partial'[r][d] = partial[r][d]
  <2>1. PICK d \in Chunks : d = task[q][x]
    BY <1>1
  <2>2. partial' = [partial EXCEPT ![q][d] = q] /\ q \in Planners /\ TypeOK
    BY <1>1, <2>1, Members DEF ExecInv
  <2>3. /\ partial' \in [Queries -> [Chunks -> Planners \cup {None}]]
        /\ partial'[q][d] = q /\ q # None
        /\ \A r \in Queries, b \in Chunks : r # q \/ b # d => partial'[r][b] = partial[r][b]
    BY <2>2, PartialSet, ZenonT(60)
  <2> QED
    BY <2>1, <2>3
<1>5. QueryTypes' /\ Lock!IndInv'
  BY <1>1, QueriesStay DEF ExecInv, TypeOK, QueryTypes
<1>6. StepsInv'
  BY <1>1, <1>2, StepsKept DEF ExecInv, lockVars, queryVars
<1>7. TypeOK'
  <2>1. LoopTypes'
    BY <1>1, <1>2, <1>3, <1>4 DEF ExecInv, TypeOK, LoopTypes
  <2> QED
    BY <1>1, <1>5, <2>1, TablesStay DEF ExecInv, TypeOK
<1>8. TasksInv'
  BY <1>1, <1>2, <1>3, TasksKept DEF ExecInv
<1>9. LoadsInv' /\ PlansInv'
  BY <1>1 DEF ExecInv, LoadsInv, LoadOf, PlansInv, PlanOf, workerVars
<1>10. FlightInv'
  <2>1. Idle(x, q)
    BY <1>1 DEF ExecInv, FlightInv, FlightOf, Idle
  <2> QED
    BY <1>1, <1>2, <1>3, <1>7, <2>1, FlightKept, ChannelsSame, Members
       DEF ExecInv, TypeOK, handleVars, workerVars
<1>11. LocalInv'
  BY <1>1, <1>2, <1>3, LocalKept, Members DEF ExecInv
<1>12. CoverInv'
  <2>1. \A r \in Queries, w \in Workers : loop'[r][w] = "done" => loop[r][w] = "done"
    BY <1>2, Members
  <2>2. \A r \in Queries, d \in Chunks : partial[r][d] # None => partial'[r][d] # None
    BY <1>4
  <2>3. \A r \in Queries, w \in Workers, d \in Chunks :
          task[r][w] = d => task'[r][w] = d \/ partial'[r][d] # None
    BY <1>3, <1>4, Members
  <2> QED
    BY <1>1, <2>1, <2>2, <2>3, CoverKept DEF ExecInv
<1> QED
  BY <1>5, <1>6, <1>7, <1>8, <1>9, <1>10, <1>11, <1>12 DEF ExecInv

(* The local loop executes its chunk.                                      *)
LEMMA ExecLocalInd ==
  ASSUME ExecInv, NEW q \in Queries, ExecLocal(q)
  PROVE  ExecInv'
<1> DEFINE d == dispatch[q]["local"]
<1>1. PICK s \in {"next"} \cup (IF q \in Limited THEN {"done"} ELSE {}) :
        loop' = [loop EXCEPT ![q][Local] = s]
  BY DEF ExecLocal
<1>2. /\ loop[q][Local] = "run" /\ task[q][Local] \in Chunks
      /\ task' = [task EXCEPT ![q][Local] = None]
      /\ merged' = [merged EXCEPT ![q] = @ \cup {task[q][Local]}]
      /\ UNCHANGED <<lockVars, queryVars, dispatch, load, reqCache, partial, handleVars,
                     workerVars, poolUp, warm, faults>>
  BY Members DEF ExecLocal, ExecInv, TasksInv, TaskOf
<1>3. Local \in Loops /\ s \in LoopStates
  BY <1>1, Members DEF LoopStates
<1>4. /\ loop' \in [Queries -> [Loops -> LoopStates]]
      /\ loop'[q][Local] = s
      /\ \A r \in Queries, y \in Loops : r # q \/ y # Local => loop'[r][y] = loop[r][y]
  BY <1>1, <1>3, LoopSet, ZenonT(60) DEF ExecInv
<1>5. /\ task' \in [Queries -> [Loops -> Chunks \cup {None}]]
      /\ task'[q][Local] = None
      /\ \A r \in Queries, y \in Loops : r # q \/ y # Local => task'[r][y] = task[r][y]
  BY <1>2, <1>3, TaskSet, ZenonT(60) DEF ExecInv
<1>6. /\ merged' \in [Queries -> SUBSET Chunks]
      /\ merged'[q] = merged[q] \cup {task[q][Local]}
      /\ \A r \in Queries \ {q} : merged'[r] = merged[r]
  <2>1. merged \in [Queries -> SUBSET Chunks]
    BY DEF ExecInv, TypeOK, LoopTypes
  <2>2. merged[q] \cup {task[q][Local]} \in SUBSET Chunks
    BY <1>2, <2>1
  <2> QED
    BY <1>2, <2>1, <2>2
<1>7. QueryTypes' /\ Lock!IndInv'
  BY <1>2, QueriesStay DEF ExecInv, TypeOK, QueryTypes
<1>8. StepsInv'
  BY <1>1, <1>2, <1>4, StepsKept DEF ExecInv, lockVars, queryVars
<1>9. TypeOK'
  <2>1. LoopTypes'
    BY <1>2, <1>4, <1>5, <1>6 DEF ExecInv, TypeOK, LoopTypes
  <2> QED
    BY <1>2, <1>7, <2>1, TablesStay DEF ExecInv, TypeOK
<1>10. TasksInv'
  BY <1>1, <1>2, <1>4, <1>5, TasksKept DEF ExecInv
<1>11. LoadsInv' /\ PlansInv'
  BY <1>2 DEF ExecInv, LoadsInv, LoadOf, PlansInv, PlanOf, workerVars
<1>12. FlightInv'
  BY <1>2, <1>4, <1>5, <1>9, FlightKept, ChannelsSame, Members
     DEF ExecInv, TypeOK, handleVars, workerVars
<1>13. LocalInv'
  <2> SUFFICES ASSUME NEW r \in Queries PROVE LocalOf(r)'
    BY DEF LocalInv
  <2>1. LocalOf(r)
    BY DEF ExecInv, LocalInv
  <2>2. CASE r # q
    BY <1>2, <1>3, <1>4, <1>5, <1>6, <2>1, <2>2 DEF LocalOf, Silent
  <2>3. CASE r = q
    <3>1. d \in Nat /\ dispatch'[q]["local"] = d
      BY <1>2, Members DEF ExecInv, TypeOK, LoopTypes
    <3>2. d > 0 /\ task[q][Local] = d - 1 /\ merged[q] = 0 .. d - 2
      BY <1>2, <2>1, <2>3 DEF LocalOf
    <3>3. merged'[q] = 0 .. d - 1
      BY <1>6, <3>1, <3>2
    <3>4. s = "done" => q \in Limited
      BY <1>1
    <3> QED
      BY <1>1, <1>4, <2>3, <3>1, <3>2, <3>3, <3>4 DEF LocalOf, Silent
  <2> QED
    BY <2>2, <2>3
<1>14. CoverInv'
  <2>1. \A r \in Queries, w \in Workers : loop'[r][w] = loop[r][w] /\ task'[r][w] = task[r][w]
    BY <1>4, <1>5, Members
  <2> QED
    BY <1>2, <2>1, CoverKept DEF ExecInv
<1> QED
  BY <1>7, <1>8, <1>9, <1>10, <1>11, <1>12, <1>13, <1>14 DEF ExecInv

(* The local loop dies on the chunk it holds.                              *)
LEMMA ExecLocalFailsInd ==
  ASSUME ExecInv, NEW q \in Queries, ExecLocalFails(q)
  PROVE  ExecInv'
<1>1. /\ loop[q][Local] = "run" /\ loop' = [loop EXCEPT ![q][Local] = "dead"]
      /\ UNCHANGED <<lockVars, queryVars, dispatch, load, reqCache, task, resultVars,
                     handleVars, workerVars, poolUp, warm>>
  BY DEF ExecLocalFails
<1>2. Local \in Loops /\ "dead" \in LoopStates
  BY Members DEF LoopStates
<1>3. /\ loop' \in [Queries -> [Loops -> LoopStates]]
      /\ loop'[q][Local] = "dead"
      /\ \A r \in Queries, y \in Loops : r # q \/ y # Local => loop'[r][y] = loop[r][y]
  BY <1>1, <1>2, LoopSet, ZenonT(60) DEF ExecInv
<1>4. faults' \in 0 .. MaxFaults
  BY QueryAssumption DEF ExecLocalFails, Fault, ExecInv, TypeOK, QueryTypes
<1>5. QueryTypes' /\ Lock!IndInv'
  BY <1>1, <1>4, QueriesStay
<1>6. StepsInv'
  BY <1>1, <1>3, StepsKept DEF ExecInv, lockVars, queryVars
<1>7. TypeOK'
  BY <1>1, <1>3, <1>5, TablesStay DEF ExecInv, TypeOK
<1>8. TasksInv'
  <2>1. task[q][Local] \in Chunks /\ task[q][Local] < dispatch[q][Path(Local)]
    BY <1>1, <1>2 DEF ExecInv, TasksInv, TaskOf
  <2> QED
    BY <1>1, <1>2, <1>3, <2>1, TasksKept DEF ExecInv
<1>9. LoadsInv' /\ PlansInv'
  BY <1>1 DEF ExecInv, LoadsInv, LoadOf, PlansInv, PlanOf, workerVars
<1>10. FlightInv'
  BY <1>1, <1>3, <1>7, FlightKept, ChannelsSame, Members
     DEF ExecInv, TypeOK, handleVars, workerVars
<1>11. LocalInv'
  <2> SUFFICES ASSUME NEW r \in Queries PROVE LocalOf(r)'
    BY DEF LocalInv
  <2>1. LocalOf(r)
    BY DEF ExecInv, LocalInv
  <2>2. \/ loop'[r][Local] = loop[r][Local]
        \/ loop[r][Local] = "run" /\ loop'[r][Local] = "dead"
    BY <1>1, <1>2, <1>3
  <2> QED
    BY <1>1, <2>1, <2>2 DEF LocalOf, Silent, resultVars
<1>12. CoverInv'
  <2>1. \A r \in Queries, w \in Workers : loop'[r][w] = loop[r][w]
    BY <1>3, Members
  <2> QED
    BY <1>1, <2>1, CoverKept DEF ExecInv, resultVars
<1> QED
  BY <1>5, <1>6, <1>7, <1>8, <1>9, <1>10, <1>11, <1>12 DEF ExecInv

-----------------------------------------------------------------------------
(* STEPS OF THE HANDLES, AND TASKS IN THE WORKERS                          *)

(* An error fails every pending task of the handle.                        *)
LEMMA OnErrorInd ==
  ASSUME ExecInv, NEW w \in Workers, OnError(w)
  PROVE  ExecInv'
<1>1. /\ outbox[w] # <<>> /\ outbox' = [outbox EXCEPT ![w] = Tail(@)] /\ ack' = Acked(w, "err")
      /\ loop' = [q \in Queries |->
                    IF <<q, task[q][w]>> \in pending[w]
                      THEN [loop[q] EXCEPT ![w] = "dead"] ELSE loop[q]]
      /\ pending' = [pending EXCEPT ![w] = {}]
      /\ UNCHANGED <<lockVars, queryVars, dispatch, load, reqCache, task, resultVars, bound,
                     inbox, wplan, up, poolUp, warm, faults>>
  BY DEF OnError
<1>2. w \in Loops /\ "dead" \in LoopStates /\ w # Local
  BY Members DEF LoopStates
<1>3. /\ loop' \in [Queries -> [Loops -> LoopStates]]
      /\ \A q \in Queries : loop'[q][w] = IF <<q, task[q][w]>> \in pending[w] THEN "dead" ELSE loop[q][w]
      /\ \A q \in Queries, y \in Loops : y # w => loop'[q][y] = loop[q][y]
  <2>1. loop \in [Queries -> [Loops -> LoopStates]]
    BY DEF ExecInv, TypeOK, LoopTypes
  <2> QED
    BY <1>1, <1>2, <2>1
<1>4. \A q \in Queries : <<q, task[q][w]>> \in pending[w] =>
        loop[q][w] = "run" /\ task[q][w] \in Chunks
  <2>1. pending[w] \subseteq Queries \X Chunks
    BY DEF ExecInv, TypeOK, HandleTypes
  <2> QED
    BY <2>1 DEF ExecInv, FlightInv, FlightOf
<1>5. /\ WorkerTypes'
      /\ \A v \in Workers : Shifted(inbox[v], inbox'[v], "task")
      /\ \A v \in Workers : Shifted(outbox[v], outbox'[v], "result")
  BY <1>1, Taken DEF ExecInv, TypeOK
<1>6. QueryTypes' /\ Lock!IndInv'
  BY <1>1, QueriesStay DEF ExecInv, TypeOK, QueryTypes
<1>7. /\ pending' \in [Workers -> SUBSET (Queries \X Chunks)] /\ pending'[w] = {}
      /\ \A v \in Workers \ {w} : pending'[v] = pending[v]
  BY <1>1 DEF ExecInv, TypeOK, HandleTypes
<1>8. TypeOK'
  <2>1. HandleTypes'
    BY <1>1, <1>7, AckedTypes DEF ExecInv, TypeOK, HandleTypes
  <2> QED
    BY <1>1, <1>3, <1>5, <1>6, <2>1, TablesStay DEF ExecInv, TypeOK
<1>9. StepsInv'
  BY <1>1, <1>2, <1>3, <1>4, StepsKept DEF ExecInv, lockVars, queryVars
<1>10. TasksInv'
  <2>1. \A q \in Queries : <<q, task[q][w]>> \in pending[w] =>
          task[q][w] \in Chunks /\ task[q][w] < dispatch[q][Path(w)]
    BY <1>2, <1>4 DEF ExecInv, TasksInv, TaskOf
  <2> QED
    BY <1>1, <1>3, <2>1, TasksKept DEF ExecInv
<1>11. LoadsInv' /\ PlansInv'
  BY <1>1 DEF ExecInv, LoadsInv, LoadOf, PlansInv, PlanOf
<1>12. FlightInv'
  <2> SUFFICES ASSUME NEW v \in Workers, NEW q \in Queries PROVE FlightOf(v, q)'
    BY DEF FlightInv
  <2>0. FlightOf(v, q) /\ FlightInv /\ WorkerTypes
    BY DEF ExecInv, FlightInv, TypeOK
  <2>1. TasksMove(v, q) /\ ResultsMove(v, q)
    BY <1>5, ShiftedMove
  <2>2. CASE v # w
    BY <1>1, <1>3, <1>5, <1>7, <2>0, <2>1, <2>2, FlightSame, Members
  <2>3. CASE v = w /\ (loop[q][w] = "dead" \/ <<q, task[q][w]>> \in pending[w])
    <3>1. loop'[q][w] = "dead"
      BY <1>3, <2>3
    <3> QED
      BY <1>7, <2>3, <3>1 DEF FlightOf
  <2>4. CASE v = w /\ loop[q][w] # "dead" /\ <<q, task[q][w]>> \notin pending[w]
    <3>1. Idle(w, q)
      BY <2>0, <2>4 DEF FlightOf, Idle
    <3> QED
      BY <1>5, <1>7, <2>0, <2>1, <2>4, <3>1, IdleKept
  <2> QED
    BY <2>2, <2>3, <2>4
<1>13. LocalInv'
  BY <1>1, <1>2, <1>3, LocalKept, Members DEF ExecInv, resultVars
<1>14. CoverInv'
  <2>1. \A r \in Queries, v \in Workers : loop'[r][v] = "done" => loop[r][v] = "done"
    BY <1>3, Members
  <2> QED
    BY <1>1, <2>1, CoverKept DEF ExecInv, resultVars
<1> QED
  BY <1>6, <1>8, <1>9, <1>10, <1>11, <1>12, <1>13, <1>14 DEF ExecInv

(* A result resolves the task it names, if that is pending.                *)
LEMMA OnResultInd ==
  ASSUME ExecInv, NEW w \in Workers, OnResult(w)
  PROVE  ExecInv'
<1> DEFINE msg == Head(outbox[w])
<1>1. /\ outbox[w] # <<>> /\ outbox' = [outbox EXCEPT ![w] = Tail(@)] /\ msg.type = "result"
      /\ pending' = [pending EXCEPT ![w] = @ \ {<<msg.by, msg.chunk>>}]
      /\ UNCHANGED <<lockVars, queryVars, dispatch, load, reqCache, merged, ack, bound,
                     inbox, wplan, up, poolUp, warm, faults>>
  BY DEF OnResult
<1>2. /\ WorkerTypes' /\ msg \in Messages /\ outbox'[w] = Tail(outbox[w])
      /\ \A v \in Workers : Shifted(inbox[v], inbox'[v], "task")
      /\ \A v \in Workers : Shifted(outbox[v], outbox'[v], "result")
  BY <1>1, Taken DEF ExecInv, TypeOK
<1>3. PICK q \in Queries, c \in Chunks, p \in Planners :
        msg.by = q /\ msg.chunk = c /\ msg.under = p
  BY <1>1, <1>2 DEF Messages
<1>4. IF <<q, c>> \in pending[w]
        THEN /\ partial' = [partial EXCEPT ![q][c] = p]
             /\ loop' = [loop EXCEPT ![q][w] = "next"]
             /\ task' = [task EXCEPT ![q][w] = None]
        ELSE UNCHANGED <<partial, loop, task>>
  BY <1>3 DEF OnResult, Entry
<1>5. /\ pending' \in [Workers -> SUBSET (Queries \X Chunks)]
      /\ pending'[w] = pending[w] \ {<<q, c>>}
      /\ \A v \in Workers \ {w} : pending'[v] = pending[v]
  BY <1>1, <1>3 DEF ExecInv, TypeOK, HandleTypes
<1>6. 1 \in Results(w, q) /\ outbox[w][1].chunk = c
  <2>1. outbox[w] \in Seq(Messages)
    BY DEF ExecInv, TypeOK, WorkerTypes
  <2>2. msg = outbox[w][1] /\ 1 \in DOMAIN outbox[w]
    BY <1>1, <2>1, Popped
  <2> QED
    BY <1>1, <1>3, <2>2 DEF Results
<1> HIDE DEF msg
<1>7. QueryTypes' /\ Lock!IndInv' /\ HandleTypes' /\ w \in Loops /\ w # Local
  BY <1>1, <1>5, QueriesStay, Members DEF ExecInv, TypeOK, QueryTypes, HandleTypes
<1>8. LoadsInv' /\ PlansInv'
  BY <1>1 DEF ExecInv, LoadsInv, LoadOf, PlansInv, PlanOf
<1>9. \A v \in Workers, r \in Queries :
        v # w \/ r # q => \A d : <<r, d>> \in pending'[v] <=> <<r, d>> \in pending[v]
  BY <1>5
<1>10. \A v \in Workers, r \in Queries :
         TasksMove(v, r) /\ ResultsMove(v, r) /\ FlightOf(v, r) /\ FlightInv /\ WorkerTypes
  BY <1>2, ShiftedMove DEF ExecInv, FlightInv, TypeOK
<1>11. CASE <<q, c>> \in pending[w]
  <2>1. /\ loop' = [loop EXCEPT ![q][w] = "next"] /\ task' = [task EXCEPT ![q][w] = None]
        /\ partial' = [partial EXCEPT ![q][c] = p] /\ TypeOK /\ "next" \in LoopStates
    BY <1>4, <1>11 DEF ExecInv, LoopStates
  <2>2. /\ loop' \in [Queries -> [Loops -> LoopStates]]
        /\ loop'[q][w] = "next"
        /\ \A r \in Queries, y \in Loops : r # q \/ y # w => loop'[r][y] = loop[r][y]
    BY <1>7, <2>1, LoopSet, ZenonT(60)
  <2>3. /\ task' \in [Queries -> [Loops -> Chunks \cup {None}]]
        /\ task'[q][w] = None
        /\ \A r \in Queries, y \in Loops : r # q \/ y # w => task'[r][y] = task[r][y]
    BY <1>7, <2>1, TaskSet, ZenonT(60)
  <2>4. /\ partial' \in [Queries -> [Chunks -> Planners \cup {None}]]
        /\ partial'[q][c] = p /\ p # None
        /\ \A r \in Queries, d \in Chunks : r # q \/ d # c => partial'[r][d] = partial[r][d]
    BY <2>1, PartialSet, ZenonT(60)
  <2>5. loop[q][w] = "run" /\ task[q][w] = c
    BY <1>10, <1>11 DEF FlightOf
  <2>6. TypeOK'
    BY <1>1, <1>2, <1>7, <2>2, <2>3, <2>4 DEF ExecInv, TypeOK, LoopTypes
  <2>7. StepsInv'
    BY <1>1, <2>2, <2>5, StepsKept DEF ExecInv, lockVars, queryVars
  <2>8. TasksInv'
    BY <1>1, <2>2, <2>3, TasksKept DEF ExecInv
  <2>9. FlightInv'
    <3> SUFFICES ASSUME NEW v \in Workers, NEW r \in Queries PROVE FlightOf(v, r)'
      BY DEF FlightInv
    <3>1. CASE v # w \/ r # q
      <4>1. loop'[r][v] = loop[r][v] /\ task'[r][v] = task[r][v]
        BY <2>2, <2>3, <3>1, Members
      <4> QED
        BY <1>2, <1>9, <1>10, <3>1, <4>1, FlightSame
    <3>2. CASE v = w /\ r = q
      <4>1. Tasks(w, q) = {} /\ Results(w, q) = {1} /\ \A d \in Chunks : <<q, d>> \in pending[w] => d = c
        BY <1>6, <1>10, <2>5 DEF FlightOf
      <4>2. Tasks(w, q)' = {}
        BY <1>2, <1>10, <4>1, TasksShift
      <4>3. Results(w, q)' = {}
        <5>0. outbox[w] \in Seq(Messages) /\ outbox[w] # <<>> /\ outbox'[w] = Tail(outbox[w])
          BY <1>1, <1>2 DEF ExecInv, TypeOK, WorkerTypes
        <5>1. \A i \in DOMAIN outbox'[w] :
                i \in Nat \ {0} /\ i + 1 \in DOMAIN outbox[w] /\ outbox'[w][i] = outbox[w][i + 1]
          BY <5>0, Popped
        <5>2. \A i \in Results(w, q)' : i \in Nat \ {0} /\ i + 1 \in Results(w, q)
          BY <5>1 DEF Results
        <5>3. \A i \in Results(w, q)' : i \in Nat \ {0} /\ i + 1 = 1
          BY <4>1, <5>2
        <5> QED
          BY <5>3
      <4>4. \A d \in Chunks : <<q, d>> \notin pending'[w]
        BY <1>5, <4>1
      <4> QED
        BY <3>2, <4>2, <4>3, <4>4 DEF FlightOf
    <3> QED
      BY <3>1, <3>2
  <2>10. LocalInv'
    BY <1>1, <1>7, <2>2, <2>3, LocalKept, Members DEF ExecInv
  <2>11. CoverInv'
    <3>1. \A r \in Queries, v \in Workers : loop'[r][v] = "done" => loop[r][v] = "done"
      BY <2>2, Members
    <3>2. \A r \in Queries, d \in Chunks : partial[r][d] # None => partial'[r][d] # None
      BY <2>4
    <3>3. \A r \in Queries, v \in Workers, d \in Chunks :
            task[r][v] = d => task'[r][v] = d \/ partial'[r][d] # None
      BY <2>3, <2>4, <2>5, Members
    <3> QED
      BY <1>1, <3>1, <3>2, <3>3, CoverKept DEF ExecInv
  <2> QED
    BY <1>7, <1>8, <2>6, <2>7, <2>8, <2>9, <2>10, <2>11 DEF ExecInv
<1>12. CASE <<q, c>> \notin pending[w]
  <2>1. UNCHANGED <<partial, loop, task>>
    BY <1>4, <1>12
  <2>2. TypeOK'
    BY <1>1, <1>2, <1>7, <2>1 DEF ExecInv, TypeOK, LoopTypes
  <2>3. StepsInv' /\ TasksInv'
    BY <1>1, <2>1, StepsKept, TasksKept DEF ExecInv, lockVars, queryVars
  <2>4. FlightInv'
    <3>1. \A v \in Workers, r \in Queries : \A d : <<r, d>> \in pending'[v] <=> <<r, d>> \in pending[v]
      BY <1>5, <1>12
    <3> QED
      BY <1>2, <1>10, <2>1, <3>1, FlightSame DEF FlightInv
  <2>5. LocalInv' /\ CoverInv'
    BY <1>1, <2>1, LocalKept, CoverKept DEF ExecInv
  <2> QED
    BY <1>7, <1>8, <2>2, <2>3, <2>4, <2>5 DEF ExecInv
<1> QED
  BY <1>11, <1>12

(* A worker executes a task, or fails.                                     *)
LEMMA HandleTaskInd ==
  ASSUME ExecInv, NEW w \in Workers, HandleTask(w)
  PROVE  ExecInv'
<1> DEFINE msg == Head(inbox[w])
           done == [type |-> "result", by |-> msg.by, chunk |-> msg.chunk, under |-> wplan[w].by]
<1>1. /\ inbox[w] # <<>> /\ msg.type = "task"
      /\ UNCHANGED <<lockVars, queryVars, loopVars, resultVars, handleVars, up, poolUp, warm>>
      /\ \/ (wplan[w].live \/ wplan[w].ran) /\ Reply(w, done)
         \/ Reply(w, [type |-> "error"])
      /\ \/ wplan' = [wplan EXCEPT ![w].ran = TRUE] /\ (wplan[w].live \/ wplan[w].ran)
         \/ UNCHANGED wplan
  BY DEF HandleTask
<1>2. WorkerTypes /\ PlansInv /\ inbox[w] \in Seq(Messages) /\ outbox[w] \in Seq(Messages)
  BY DEF ExecInv, TypeOK, WorkerTypes
<1>3. msg \in Messages /\ msg = inbox[w][1] /\ 1 \in DOMAIN inbox[w]
  BY <1>1, <1>2, Popped
<1>4. PICK q \in Queries, c \in Chunks : msg.by = q /\ msg.chunk = c
  BY <1>1, <1>3 DEF Messages
<1>5. faults' \in 0 .. MaxFaults
  BY QueryAssumption DEF HandleTask, Fault, NoFault, ExecInv, TypeOK, QueryTypes
<1>6. /\ wplan' \in [Workers -> [by : Planners \cup {None}, live : BOOLEAN, ran : BOOLEAN]]
      /\ \A v \in Workers : wplan'[v].live \/ wplan'[v].ran => wplan'[v].by # None
  BY <1>1, <1>2, ZenonT(60) DEF WorkerTypes, PlansInv, PlanOf
<1>7. up[w]
  BY <1>1, <1>2 DEF PlansInv, PlanOf
<1> HIDE DEF msg
<1>8. ASSUME NEW e \in Messages, Reply(w, e)
      PROVE  WorkerTypes' /\ PlansInv'
  <2>1. /\ inbox' \in [Workers -> Seq(Messages)] /\ outbox' \in [Workers -> Seq(Messages)]
        /\ \A v \in Workers \ {w} : inbox'[v] = inbox[v]
    BY <1>1, <1>2, <1>8, Replied
  <2> QED
    BY <1>1, <1>2, <1>6, <1>7, <2>1 DEF WorkerTypes, PlansInv, PlanOf
<1>9. CASE Reply(w, [type |-> "error"])
  <2>1. [type |-> "error"] \in Messages /\ [type |-> "error"].type # "result"
    BY DEF Messages
  <2>2. /\ \A v \in Workers : Shifted(inbox[v], inbox'[v], "task")
        /\ \A v \in Workers : Shifted(outbox[v], outbox'[v], "result")
    BY <1>1, <1>2, <1>9, <2>1, Replied
  <2>3. WorkerTypes' /\ PlansInv'
    BY <1>8, <1>9, <2>1
  <2> QED
    BY <1>1, <1>5, <2>2, <2>3, WorkerQuiet
<1>10. CASE (wplan[w].live \/ wplan[w].ran) /\ Reply(w, done)
  <2>1. done \in Messages /\ done.type = "result" /\ done.by = q /\ done.chunk = c
    <3>1. wplan[w].by \in Planners
      BY <1>2, <1>10 DEF WorkerTypes, PlansInv, PlanOf
    <3> QED
      BY <1>4, <3>1 DEF Messages
  <2> HIDE DEF done
  <2>2. /\ inbox'[w] = Tail(inbox[w]) /\ outbox'[w] = Append(outbox[w], done)
        /\ \A v \in Workers \ {w} : inbox'[v] = inbox[v] /\ outbox'[v] = outbox[v]
        /\ \A v \in Workers : Shifted(inbox[v], inbox'[v], "task")
    BY <1>1, <1>2, <1>10, <2>1, Replied
  <2>3. WorkerTypes' /\ PlansInv'
    BY <1>8, <1>10, <2>1
  <2>4. UNCHANGED <<phase, step, answer, dispatch, load, loop, task, merged, partial, pending>>
    BY <1>1 DEF lockVars, queryVars, loopVars, resultVars, handleVars
  <2>5. TypeOK'
    <3>1. QueryTypes'
      BY <1>1, <1>5 DEF ExecInv, TypeOK, QueryTypes, lockVars, queryVars, Lock!TypeOK
    <3>2. LoopTypes'
      BY <1>1, TablesStay DEF ExecInv
    <3>3. HandleTypes'
      BY <1>1 DEF ExecInv, TypeOK, HandleTypes, handleVars
    <3> QED
      BY <2>3, <3>1, <3>2, <3>3 DEF TypeOK
  <2>6. Lock!IndInv' /\ StepsInv' /\ TasksInv' /\ LoadsInv' /\ LocalInv' /\ CoverInv'
    <3>1. Lock!IndInv' /\ StepsInv'
      BY <1>1, <2>4, LockStep, StepsKept DEF ExecInv, lockVars
    <3>2. TasksInv' /\ LoadsInv'
      BY <2>4, TasksKept DEF ExecInv, LoadsInv, LoadOf
    <3> QED
      BY <2>4, <3>1, <3>2, LocalKept, CoverKept DEF ExecInv
  <2>7. FlightInv'
    <3> SUFFICES ASSUME NEW v \in Workers, NEW r \in Queries PROVE FlightOf(v, r)'
      BY DEF FlightInv
    <3>0. FlightOf(v, r) /\ TasksMove(v, r) /\ outbox[v] \in Seq(Messages)
      BY <1>2, <2>2, ShiftedMove DEF ExecInv, FlightInv, WorkerTypes
    <3>1. CASE v # w \/ r # q
      <4>1. ResultsMove(v, r)
        <5>1. CASE v # w
          BY <2>2, <3>0, <5>1, ShiftedMove, ShiftedSame
        <5>2. CASE v = w /\ r # q
          BY <1>2, <2>1, <2>2, <5>2, SentMove
        <5> QED
          BY <3>1, <5>1, <5>2
      <4> QED
        BY <2>3, <2>4, <3>0, <4>1, FlightSame
    <3>2. CASE v = w /\ r = q /\ loop[q][w] = "dead"
      BY <2>4, <3>0, <3>2 DEF FlightOf
    <3>3. CASE v = w /\ r = q /\ loop[q][w] # "dead"
      <4>1. 1 \in Tasks(w, q) /\ inbox[w][1].chunk = c
        BY <1>1, <1>3, <1>4 DEF Tasks
      <4>2. Tasks(w, q) = {1} /\ Results(w, q) = {} /\ <<q, c>> \in pending[w]
        BY <3>0, <3>3, <4>1 DEF FlightOf
      <4>3. Tasks(w, q)' = {}
        <5>1. \A i \in DOMAIN inbox'[w] :
                i \in Nat \ {0} /\ i + 1 \in DOMAIN inbox[w] /\ inbox'[w][i] = inbox[w][i + 1]
          BY <1>1, <1>2, <2>2, Popped
        <5>2. \A i \in Tasks(w, q)' : i \in Nat \ {0} /\ i + 1 \in Tasks(w, q)
          BY <5>1 DEF Tasks
        <5>3. \A i \in Tasks(w, q)' : i \in Nat \ {0} /\ i + 1 = 1
          BY <4>2, <5>2
        <5> QED
          BY <5>3
      <4>4. \A i \in Results(w, q)' : i = Len(outbox[w]) + 1 /\ outbox'[w][i] = done
        <5>1. /\ \A i \in DOMAIN outbox'[w] : i \in DOMAIN outbox[w] \/ i = Len(outbox[w]) + 1
              /\ \A i \in DOMAIN outbox[w] : outbox'[w][i] = outbox[w][i]
              /\ outbox'[w][Len(outbox[w]) + 1] = done
          BY <1>2, <2>1, <2>2, Appended
        <5> QED
          BY <4>2, <5>1 DEF Results
      <4>5. /\ \A i, j \in Results(w, q)' : i = j
            /\ \A i \in Results(w, q)' : <<q, outbox'[w][i].chunk>> \in pending'[w]
        BY <2>1, <2>4, <4>2, <4>4
      <4> QED
        BY <2>4, <3>0, <3>3, <4>3, <4>5 DEF FlightOf
    <3> QED
      BY <3>1, <3>2, <3>3
  <2> QED
    BY <2>3, <2>5, <2>6, <2>7 DEF ExecInv
<1> QED
  BY <1>1, <1>9, <1>10

-----------------------------------------------------------------------------
(* THE THEOREMS                                                            *)

(* Nothing has begun.                                                      *)
LEMMA ExecInit ==
  ASSUME Init
  PROVE  ExecInv
<1>1. Lock!IndInv
  BY DEF Init, Lock!Init, Lock!IndInv, Lock!TypeOK, Lock!Phases, Lock!Ordered, Lock!InOrder
<1>2. QueryTypes
  <2>1. Lock!TypeOK
    BY <1>1 DEF Lock!IndInv
  <2>2. faults \in 0 .. MaxFaults
    BY QueryAssumption DEF Init
  <2> QED
    BY <2>1, <2>2 DEF Init, QueryTypes, Steps
<1>3. LoopTypes
  BY QueryAssumption DEF Init, LoopTypes, LoadStates, LoopStates, Chunks
<1>4. HandleTypes
  BY DEF Init, HandleTypes
<1>5. WorkerTypes
  BY DEF Init, WorkerTypes
<1>6. /\ \A q \in Queries : phase[q] = "idle" /\ step[q] = "none" /\ answer[q] = "none"
      /\ \A q \in Queries, x \in Loops : loop[q][x] = "off" /\ task[q][x] = None
      /\ \A q \in Queries, m \in Paths : dispatch[q][m] = 0
      /\ \A q \in Queries : merged[q] = {}
  BY DEF Init, Lock!Init
<1>7. StepsInv
  BY <1>6, Members DEF StepsInv, StepsOf, Silent
<1>8. TasksInv
  BY <1>6 DEF TasksInv, TaskOf
<1>9. LoadsInv
  <2>1. 0 \in Chunks
    BY Members DEF Chunks
  <2> QED
    BY <2>1 DEF Init, LoadsInv, LoadOf
<1>10. FlightInv
  BY <1>6 DEF Init, FlightInv, FlightOf, Tasks, Results
<1>11. PlansInv
  BY DEF Init, PlansInv, PlanOf
<1>12. LocalInv
  <2>1. 0 .. 0 - 1 = {} /\ \A q \in Queries : dispatch[q]["local"] = 0 /\ loop[q][Local] = "off"
    BY <1>6, Members
  <2> QED
    BY <1>6, <2>1 DEF LocalInv, LocalOf, Silent
<1>13. CoverInv
  BY <1>6, Members DEF CoverInv, CoverOf
<1> QED
  BY <1>1, <1>2, <1>3, <1>4, <1>5, <1>7, <1>8, <1>9, <1>10, <1>11, <1>12, <1>13
     DEF ExecInv, TypeOK

(* A step that changes nothing.                                            *)
LEMMA ExecStutter ==
  ASSUME ExecInv, UNCHANGED vars
  PROVE  ExecInv'
<1>1. UNCHANGED <<lockVars, queryVars, loopVars, resultVars, handleVars, workerVars,
                  poolUp, warm, faults>>
  BY DEF vars
<1>2. WorkerTypes' /\ PlansInv'
  BY <1>1 DEF ExecInv, TypeOK, WorkerTypes, PlansInv, PlanOf, workerVars
<1> QED
  BY <1>1, <1>2, WorkerQuiet, ChannelsSame DEF ExecInv, TypeOK, QueryTypes, workerVars

(* Every step keeps the inductive invariant.                               *)
LEMMA ExecStep ==
  ASSUME ExecInv, [Next]_vars
  PROVE  ExecInv'
<1>1. ASSUME NEW q \in Queries, Ask(q) \/ Invalid(q) \/ QueryStep(q) \/ LocalStep(q)
      PROVE  ExecInv'
  BY <1>1, AskInd, InvalidInd, BeginInd, AcquireInd, SpawnFailsInd, PlannedInd, PoolFailsInd,
     ScanEndsInd, ReduceInd, LocalEndsInd, ReturnInd, ExecLocalInd, ExecLocalFailsInd
     DEF QueryStep, LocalStep
<1>2. ASSUME NEW q \in Queries, NEW x \in Loops, LoopStep(q, x)
      PROVE  ExecInv'
  BY <1>2, ClaimInd, ReceiveInd, EmptyPartialInd DEF LoopStep
<1>3. ASSUME NEW q \in Queries, NEW m \in Paths, NEW c \in Chunks, LoadStep(q, m, c)
      PROVE  ExecInv'
  BY <1>3, UsePlanInd, ReadFailsInd DEF LoadStep
<1>4. ASSUME NEW w \in Workers, WorkerStep(w) \/ HandleStep(w) \/ Crash(w)
      PROVE  ExecInv'
  BY <1>4, HandlePlanInd, HandleTaskInd, OnPlannedInd, OnErrorInd, OnResultInd, CrashInd
     DEF WorkerStep, HandleStep
<1>5. ASSUME NEW p \in Warmers, WarmStart(p) \/ WarmEnd(p)
      PROVE  ExecInv'
  BY <1>5, WarmStartInd, WarmEndInd
<1> QED
  BY <1>1, <1>2, <1>3, <1>4, <1>5, ExecStutter DEF Next

(* The inductive invariant holds for any number of queries, warmers and    *)
(* workers, whatever faults happen: every table has its type, every query  *)
(* stands where its lock, its loops and its answer say, at most one        *)
(* message of a query is on its way between a handle and its worker, and   *)
(* every chunk handed out has a partial or a loop that holds it.           *)
THEOREM ExecInductive == Spec => []ExecInv
<1>1. Init => ExecInv
  BY ExecInit
<1>2. ExecInv /\ [Next]_vars => ExecInv'
  BY ExecStep
<1> QED
  BY <1>1, <1>2, PTL DEF Spec

(* Every table keeps its type.                                             *)
THEOREM ExecTypes == Spec => []TypeOK
<1>1. ExecInv => TypeOK
  BY DEF ExecInv
<1> QED
  BY <1>1, ExecInductive, PTL

(* runChunkQuery never falls back to the main thread when the caller chose *)
(* the number of workers, whatever fails in the pool.                      *)
THEOREM ExplicitNeverFallsBack == Spec => []NoSilentFallback
<1>1. ASSUME ExecInv PROVE NoSilentFallback
  <2> SUFFICES ASSUME NEW q \in Explicit \ Approx
               PROVE  loop[q][Local] = "off" /\ answer[q] # "local"
    BY DEF NoSilentFallback
  <2>1. q \in Queries
    BY QueryAssumption
  <2> QED
    BY <1>1, <2>1 DEF ExecInv, StepsInv, StepsOf, Silent
<1> QED
  BY <1>1, ExecInductive, PTL

(* A loop has one task at a time in its worker, so an error, which fails   *)
(* all tasks pending at the handle, takes down one loop per query.         *)
THEOREM OneTaskAtATime == Spec => []OneTaskPerLoop
<1>1. ASSUME ExecInv PROVE OneTaskPerLoop
  <2> SUFFICES ASSUME NEW w \in Workers, NEW q \in Queries
               PROVE  /\ Cardinality({c \in Chunks : <<q, c>> \in pending[w]}) <= 1
                      /\ \A c \in Chunks : <<q, c>> \in pending[w] => task[q][w] = c /\ loop[q][w] = "run"
    BY DEF OneTaskPerLoop
  <2>1. \A c \in Chunks : <<q, c>> \in pending[w] => task[q][w] = c /\ loop[q][w] = "run"
    BY <1>1 DEF ExecInv, FlightInv, FlightOf
  <2>2. PICK t : t = task[q][w]
    OBVIOUS
  <2>3. Cardinality({c \in Chunks : <<q, c>> \in pending[w]}) <= 1
    <3> DEFINE A == {c \in Chunks : <<q, c>> \in pending[w]}
    <3>1. A \in SUBSET {t}
      BY <2>1, <2>2
    <3>2. IsFiniteSet({t}) /\ Cardinality({t}) = 1
      BY FS_Singleton
    <3> HIDE DEF A
    <3>3. Cardinality(A) <= Cardinality({t})
      BY <3>1, <3>2, FS_Subset
    <3>4. Cardinality(A) <= 1
      BY <3>2, <3>3
    <3> QED
      BY <3>4 DEF A
  <2> QED
    BY <2>1, <2>3
<1> QED
  BY <1>1, ExecInductive, PTL

(* A query that the pool has answered has no loop, no pending task and no  *)
(* message on its way, however often loops died and handles failed.        *)
THEOREM PoolLeavesNothing == Spec => []CleanSuccess
<1>1. ASSUME ExecInv PROVE CleanSuccess
  <2> SUFFICES ASSUME NEW q \in Queries, answer[q] = "pool", NEW w \in Workers
               PROVE  /\ loop[q][w] = "done"
                      /\ \A c \in Chunks : <<q, c>> \notin pending[w]
                      /\ \A i \in DOMAIN inbox[w] :
                           inbox[w][i].type = "task" => inbox[w][i].by # q
    BY DEF CleanSuccess
  <2>1. loop[q][w] = "done"
    BY <1>1 DEF ExecInv, StepsInv, StepsOf
  <2>2. Idle(w, q)
    BY <1>1, <2>1, OffIsIdle DEF ExecInv
  <2>3. Tasks(w, q) = {}
    BY <1>1, <2>2, NothingFlies DEF ExecInv, TypeOK
  <2> QED
    BY <2>1, <2>2, <2>3 DEF Tasks, Idle
<1> QED
  BY <1>1, ExecInductive, PTL

(* A local answer, also one after a failed scan in the pool, executed the  *)
(* whole file, or a prefix of it when the query has a limit.               *)
THEOREM LocalAnswersCover == Spec => []LocalCovers
<1>1. ASSUME ExecInv PROVE LocalCovers
  <2> SUFFICES ASSUME NEW q \in Queries, answer[q] = "local"
               PROVE  \/ merged[q] = Chunks
                      \/ q \in Limited /\ \E k \in Chunks : merged[q] = 0 .. k
    BY DEF LocalCovers
  <2> DEFINE d == dispatch[q]["local"]
  <2>1. loop[q][Local] = "done"
    BY <1>1 DEF ExecInv, StepsInv, StepsOf
  <2>2. merged[q] = 0 .. d - 1 /\ (d = NChunks \/ (q \in Limited /\ d > 0))
    BY <1>1, <2>1 DEF ExecInv, LocalInv, LocalOf
  <2>3. d \in 0 .. NChunks
    BY <1>1, Members DEF ExecInv, TypeOK, LoopTypes
  <2> HIDE DEF d
  <2>4. CASE d = NChunks
    BY <2>2, <2>4 DEF Chunks
  <2>5. CASE q \in Limited /\ d > 0
    <3>1. d - 1 \in Chunks
      BY <2>3, <2>5, Members DEF Chunks
    <3> QED
      BY <2>2, <2>5, <3>1
  <2> QED
    BY <2>2, <2>4, <2>5
<1> QED
  BY <1>1, ExecInductive, PTL

(* Seen through who waits and who is inside, runChunkQuery is a FIFO lock: *)
(* every step of a query, a loop, a worker or a handle asks, grants or     *)
(* releases it, or leaves it alone.                                        *)
THEOREM ImplementsLock == Spec => LockRespected
<1>1. Init => Lock!Init
  BY DEF Init
<1>2. [Next]_vars => [Lock!Next]_(Lock!vars)
  <2> SUFFICES ASSUME [Next]_vars PROVE [Lock!Next]_lockVars
    BY DEF Lock!vars, lockVars
  <2>1. ASSUME NEW q \in Queries, Ask(q) \/ Invalid(q) \/ QueryStep(q) \/ LocalStep(q)
        PROVE  [Lock!Next]_lockVars
    BY <2>1 DEF Lock!Next, Ask, Invalid, QueryStep, LocalStep, Begin, Acquire, SpawnFails, Planned,
       PoolFails, ScanEnds, Reduce, LocalEnds, Return, Catch, Settle, StartLocal, ExecLocal,
       ExecLocalFails
  <2>2. ASSUME NEW q \in Queries, NEW x \in Loops, LoopStep(q, x)
        PROVE  UNCHANGED lockVars
    BY <2>2 DEF LoopStep, Claim, Receive, EmptyPartial
  <2>3. ASSUME NEW q \in Queries, NEW m \in Paths, NEW c \in Chunks, LoadStep(q, m, c)
        PROVE  UNCHANGED lockVars
    BY <2>3 DEF LoadStep, UsePlan, ReadFails
  <2>4. ASSUME NEW w \in Workers, WorkerStep(w) \/ HandleStep(w) \/ Crash(w)
        PROVE  UNCHANGED lockVars
    BY <2>4 DEF WorkerStep, HandleStep, HandlePlan, HandleTask, OnPlanned, OnError, OnResult, Crash
  <2>5. ASSUME NEW p \in Warmers, WarmStart(p) \/ WarmEnd(p)
        PROVE  UNCHANGED lockVars
    BY <2>5 DEF WarmStart, WarmEnd
  <2>6. CASE UNCHANGED vars
    BY <2>6 DEF vars
  <2> QED
    BY <2>1, <2>2, <2>3, <2>4, <2>5, <2>6 DEF Next
<1> QED
  BY <1>1, <1>2, PTL DEF Spec, LockRespected, Lock!Spec

-----------------------------------------------------------------------------
(* THE PLAN OF A QUERY IN THE POOL                                         *)

(* A step that sends no plan and takes none from an inbox.                 *)
LEMMA OwnSame ==
  ASSUME NEW w \in Workers, NEW q \in Queries, OwnPlanOf(w, q),
         inbox'[w] = inbox[w], wplan'[w].by = wplan[w].by, up'[w] => up[w], ResultsMove(w, q)
  PROVE  OwnPlanOf(w, q)'
<1>1. Tasks(w, q)' = Tasks(w, q) /\ Plans(w)' = Plans(w)
  BY DEF Tasks, Plans
<1>2. \A i \in Results(w, q)' : \E j \in Results(w, q) : outbox'[w][i] = outbox[w][j]
  BY DEF ResultsMove, Results
<1> QED
  BY <1>1, <1>2 DEF OwnPlanOf

(* Channels that stay move nothing.                                        *)
LEMMA StayMove ==
  ASSUME WorkerTypes, NEW w \in Workers, NEW q \in Queries
  PROVE  /\ inbox'[w] = inbox[w] => TasksMove(w, q)
         /\ outbox'[w] = outbox[w] => ResultsMove(w, q)
BY ShiftedMove, ShiftedSame DEF WorkerTypes

(* A query moves on, without the workers.                                  *)
LEMMA CallOwn ==
  ASSUME ExecInv, OwnPlanInv, UNCHANGED <<workerVars, partial>>,
         \A q \in Queries : UsesPool(q)' => UsesPool(q),
         \A q \in Queries : MayUsePool(q)' => MayUsePool(q)
  PROVE  OwnPlanInv'
<1>1. ASSUME NEW w \in Workers, NEW q \in Queries, UsesPool(q)'
      PROVE  OwnPlanOf(w, q)'
  <2>1. OwnPlanOf(w, q) /\ WorkerTypes
    BY <1>1 DEF OwnPlanInv, ExecInv, TypeOK
  <2> QED
    BY <2>1, OwnSame, StayMove DEF workerVars
<1> QED
  BY <1>1 DEF OwnPlanInv

(* Loops, prefetches and acknowledgements move on.                         *)
LEMMA QuietOwn ==
  ASSUME ExecInv, OwnPlanInv, UNCHANGED <<workerVars, partial, queryVars>>
  PROVE  OwnPlanInv'
BY CallOwn DEF queryVars, UsesPool, MayUsePool

(* A handle takes a message that leaves the partials alone.                *)
LEMMA TakenOwn ==
  ASSUME ExecInv, OwnPlanInv, NEW w \in Workers, outbox[w] # <<>>,
         outbox' = [outbox EXCEPT ![w] = Tail(@)],
         UNCHANGED <<inbox, wplan, up, queryVars>>
  PROVE  \A v \in Workers, q \in Queries : UsesPool(q)' => OwnPlanOf(v, q)'
<1> SUFFICES ASSUME NEW v \in Workers, NEW q \in Queries, UsesPool(q)'
             PROVE  OwnPlanOf(v, q)'
  OBVIOUS
<1>1. OwnPlanOf(v, q)
  BY DEF OwnPlanInv, UsesPool, queryVars
<1>2. ResultsMove(v, q)
  BY Taken, ShiftedMove DEF ExecInv, TypeOK
<1> QED
  BY <1>1, <1>2, OwnSame

(* Plans are sent by the only query inside.                                *)
LEMMA AcquireOwn ==
  ASSUME ExecInv, OwnPlanInv, NEW q \in Queries, Acquire(q)
  PROVE  OwnPlanInv'
<1>1. /\ step[q] = "acquire" /\ step' = [step EXCEPT ![q] = "plan"]
      /\ UNCHANGED <<answer, partial, outbox, wplan, up>>
      /\ inbox' = [w \in Workers |-> Post(w, [type |-> "plan", by |-> q])]
  BY DEF Acquire, SetPlan, resultVars
<1>2. step \in [Queries -> Steps]
  BY DEF ExecInv, TypeOK, QueryTypes
<1>3. ASSUME NEW r \in Queries, UsesPool(r)'
      PROVE  r = q
  <2>1. CASE r # q
    <3>1. UsesPool(r)
      BY <1>1, <1>2, <1>3, <2>1 DEF UsesPool
    <3>2. phase[r] = "inside" /\ phase[q] = "inside"
      BY <1>1, <3>1 DEF ExecInv, StepsInv, StepsOf, UsesPool
    <3> QED
      BY <2>1, <3>2, OneQueryInside DEF ExecInv
  <2> QED
    BY <2>1
<1>4. ASSUME NEW w \in Workers PROVE OwnPlanOf(w, q)'
  <2> DEFINE e == [type |-> "plan", by |-> q]
  <2>1. inbox[w] \in Seq(Messages) /\ e \in Messages /\ e.type = "plan" /\ e.by = q
    BY Members DEF ExecInv, TypeOK, WorkerTypes, Messages
  <2>2. inbox'[w] = Post(w, e)
    BY <1>1
  <2> HIDE DEF e
  <2>3. Idle(w, q)
    BY <1>1, OffIsIdle DEF ExecInv, StepsInv, StepsOf, Silent
  <2>4. Tasks(w, q) = {} /\ Results(w, q) = {}
    BY <2>3, NothingFlies DEF ExecInv, TypeOK
  <2>5. Results(w, q)' = {}
    BY <1>1, <2>4 DEF Results
  <2>6. CASE up[w]
    <3>1. inbox'[w] = Append(inbox[w], e)
      BY <2>2, <2>6 DEF Post
    <3>2. /\ Len(inbox[w]) \in Nat /\ DOMAIN inbox[w] = 1 .. Len(inbox[w])
          /\ DOMAIN inbox'[w] = 1 .. Len(inbox[w]) + 1
          /\ \A i \in 1 .. Len(inbox[w]) : inbox'[w][i] = inbox[w][i]
          /\ inbox'[w][Len(inbox[w]) + 1] = e
      BY <2>1, <3>1, Appended
    <3>3. Tasks(w, q)' = {}
      BY <2>1, <2>4, <3>2 DEF Tasks
    <3>4. Len(inbox[w]) + 1 \in Plans(w)' /\ inbox'[w][Len(inbox[w]) + 1].by = q
      BY <2>1, <3>2 DEF Plans
    <3>5. \A i \in Plans(w)' : i = Len(inbox[w]) + 1 \/ i < Len(inbox[w]) + 1
      BY <3>2 DEF Plans
    <3> QED
      BY <2>5, <3>3, <3>4, <3>5 DEF OwnPlanOf
  <2>7. CASE ~up[w]
    <3>1. inbox'[w] = <<>>
      BY <2>2, <2>7 DEF Post, ExecInv, PlansInv, PlanOf
    <3> QED
      BY <1>1, <2>5, <2>7, <3>1 DEF OwnPlanOf, Tasks, Plans
  <2> QED
    BY <2>6, <2>7
<1>5. \A r \in Queries : MayUsePool(r)' => MayUsePool(r)
  BY <1>1, <1>2 DEF MayUsePool, UsesPool
<1> QED
  BY <1>1, <1>3, <1>4, <1>5 DEF OwnPlanInv

(* A task is sent after the plans.                                         *)
LEMMA ReceiveOwn ==
  ASSUME ExecInv, OwnPlanInv, NEW q \in Queries, NEW x \in Loops, Receive(q, x)
  PROVE  OwnPlanInv'
<1> DEFINE e == [type |-> "task", by |-> q, chunk |-> task[q][x]]
<1>1. /\ UNCHANGED <<queryVars, partial, outbox, wplan, up>>
      /\ loop[q][x] = "await"
      /\ UNCHANGED inbox \/ (x \in Workers /\ inbox' = [inbox EXCEPT ![x] = Post(x, e)])
  BY DEF Receive, resultVars
<1>2. e \in Messages /\ e.type = "task"
  <2>1. task[q][x] \in Chunks
    BY <1>1 DEF ExecInv, TasksInv, TaskOf
  <2> QED
    BY <2>1 DEF Messages
<1> HIDE DEF e
<1>3. CASE UNCHANGED inbox
  BY <1>1, <1>3, QuietOwn DEF workerVars
<1>4. CASE x \in Workers /\ inbox' = [inbox EXCEPT ![x] = Post(x, e)]
  <2>1. inbox \in [Workers -> Seq(Messages)] /\ WorkerTypes
    BY DEF ExecInv, TypeOK, WorkerTypes
  <2>2. ASSUME NEW w \in Workers, NEW r \in Queries, UsesPool(r)' PROVE OwnPlanOf(w, r)'
    <3>1. OwnPlanOf(w, r) /\ ResultsMove(w, r)
      BY <1>1, <2>1, <2>2, StayMove DEF OwnPlanInv, UsesPool, queryVars
    <3>2. CASE inbox'[w] = inbox[w]
      BY <1>1, <3>1, <3>2, OwnSame
    <3>3. CASE inbox'[w] = Append(inbox[w], e)
      <4>1. /\ Len(inbox[w]) \in Nat /\ DOMAIN inbox[w] = 1 .. Len(inbox[w])
            /\ DOMAIN inbox'[w] = 1 .. Len(inbox[w]) + 1
            /\ \A i \in 1 .. Len(inbox[w]) : inbox'[w][i] = inbox[w][i]
            /\ inbox'[w][Len(inbox[w]) + 1] = e
        BY <1>2, <2>1, <3>3, Appended
      <4>2. Plans(w)' = Plans(w) /\ \A i \in Plans(w) : i \in 1 .. Len(inbox[w])
        BY <1>2, <4>1 DEF Plans
      <4>3. \A i \in Tasks(w, r)' : i \in Tasks(w, r) \/ i = Len(inbox[w]) + 1
        BY <4>1 DEF Tasks
      <4>4. \A i \in Tasks(w, r)', j \in Plans(w)' : j < i
        BY <3>1, <4>1, <4>2, <4>3 DEF OwnPlanOf
      <4>5. \A i \in Plans(w)' : inbox'[w][i] = inbox[w][i]
        BY <4>1, <4>2
      <4>6. Results(w, r)' = Results(w, r)
        BY <1>1 DEF Results
      <4> QED
        BY <1>1, <3>1, <4>2, <4>4, <4>5, <4>6 DEF OwnPlanOf
    <3>4. inbox'[w] = inbox[w] \/ inbox'[w] = Append(inbox[w], e)
      BY <1>4, <2>1 DEF Post
    <3> QED
      BY <3>2, <3>3, <3>4
  <2> QED
    BY <1>1, <2>2 DEF OwnPlanInv, MayUsePool, UsesPool, queryVars
<1> QED
  BY <1>1, <1>3, <1>4

(* An empty partial stands under the query's own name.                     *)
LEMMA EmptyPartialOwn ==
  ASSUME ExecInv, OwnPlanInv, NEW q \in Queries, NEW x \in Loops, EmptyPartial(q, x)
  PROVE  OwnPlanInv'
<1>1. /\ UNCHANGED <<queryVars, workerVars>>
      /\ partial' = [partial EXCEPT ![q][task[q][x]] = q]
  BY DEF EmptyPartial
<1>2. \A w \in Workers, r \in Queries : UsesPool(r)' => OwnPlanOf(w, r)'
  <2> SUFFICES ASSUME NEW w \in Workers, NEW r \in Queries, UsesPool(r)'
               PROVE  OwnPlanOf(w, r)'
    OBVIOUS
  <2>1. OwnPlanOf(w, r) /\ WorkerTypes
    BY <1>1 DEF OwnPlanInv, UsesPool, queryVars, ExecInv, TypeOK
  <2> QED
    BY <1>1, <2>1, OwnSame, StayMove DEF workerVars
<1>3. \A r \in Queries, c \in Chunks : partial'[r][c] \in {partial[r][c], r}
  BY <1>1 DEF ExecInv, TypeOK, LoopTypes
<1> QED
  BY <1>1, <1>2, <1>3 DEF OwnPlanInv, MayUsePool, UsesPool, queryVars

(* A worker takes a plan: what is left in its inbox moves up.              *)
LEMMA HandlePlanOwn ==
  ASSUME ExecInv, OwnPlanInv, "plan" \notin Faults, NEW w \in Workers, HandlePlan(w)
  PROVE  OwnPlanInv'
<1>1. /\ inbox[w] # <<>> /\ Head(inbox[w]).type = "plan"
      /\ wplan' = [wplan EXCEPT ![w] = [by |-> Head(inbox[w]).by, live |-> TRUE, ran |-> FALSE]]
      /\ Reply(w, [type |-> "planned"])
      /\ UNCHANGED <<queryVars, resultVars, up>>
  BY DEF HandlePlan, Fault
<1>2. /\ WorkerTypes /\ inbox[w] \in Seq(Messages)
      /\ [type |-> "planned"] \in Messages /\ [type |-> "planned"].type # "result"
  BY DEF ExecInv, TypeOK, WorkerTypes, Messages
<1>3. /\ inbox'[w] = Tail(inbox[w])
      /\ \A v \in Workers \ {w} : inbox'[v] = inbox[v]
      /\ \A v \in Workers : Shifted(outbox[v], outbox'[v], "result")
  BY <1>1, <1>2, Replied
<1>4. /\ wplan'[w].by = Head(inbox[w]).by
      /\ \A v \in Workers \ {w} : wplan'[v] = wplan[v]
  BY <1>1, <1>2 DEF WorkerTypes
<1>5. ASSUME NEW v \in Workers, NEW q \in Queries, UsesPool(q)' PROVE OwnPlanOf(v, q)'
  <2>1. OwnPlanOf(v, q) /\ ResultsMove(v, q)
    BY <1>1, <1>3, <1>5, ShiftedMove DEF OwnPlanInv, UsesPool, queryVars
  <2>2. CASE v # w
    BY <1>1, <1>3, <1>4, <2>1, <2>2, OwnSame
  <2>3. CASE v = w
    <3>1. /\ \A i \in DOMAIN inbox'[w] :
               i \in Nat \ {0} /\ i + 1 \in DOMAIN inbox[w] /\ inbox'[w][i] = inbox[w][i + 1]
          /\ \A i \in DOMAIN inbox[w] :
               i = 1 \/ (i \in Nat /\ i > 1 /\ i - 1 \in DOMAIN inbox'[w] /\ inbox'[w][i - 1] = inbox[w][i])
          /\ inbox[w][1] = Head(inbox[w]) /\ 1 \in DOMAIN inbox[w]
      BY <1>1, <1>2, <1>3, Popped
    <3>2. /\ \A i \in Tasks(w, q)' : i \in Nat \ {0} /\ i + 1 \in Tasks(w, q)
          /\ \A i \in Plans(w)' : i \in Nat \ {0} /\ i + 1 \in Plans(w) /\ inbox'[w][i].by = inbox[w][i + 1].by
          /\ \A i \in Plans(w) : i = 1 \/ (i \in Nat /\ i > 1 /\ i - 1 \in Plans(w)')
          /\ 1 \in Plans(w)
      BY <1>1, <3>1 DEF Tasks, Plans
    <3>3. \A i \in Tasks(w, q)', j \in Plans(w)' : j < i
      <4> SUFFICES ASSUME NEW i \in Tasks(w, q)', NEW j \in Plans(w)' PROVE j < i
        OBVIOUS
      <4>1. j + 1 < i + 1 /\ i \in Nat /\ j \in Nat
        BY <2>1, <2>3, <3>2 DEF OwnPlanOf
      <4> QED
        BY <4>1
    <3>4. \A i \in Plans(w)' : inbox'[w][i].by = q \/ \E j \in Plans(w)' : i < j
      <4> SUFFICES ASSUME NEW i \in Plans(w)', inbox'[w][i].by # q PROVE \E j \in Plans(w)' : i < j
        OBVIOUS
      <4>1. i \in Nat \ {0} /\ i + 1 \in Plans(w) /\ inbox[w][i + 1].by # q
        BY <3>2
      <4>2. PICK k \in Plans(w) : i + 1 < k
        BY <2>1, <2>3, <4>1 DEF OwnPlanOf
      <4>3. k \in Nat /\ k - 1 \in Plans(w)' /\ i < k - 1
        BY <3>2, <4>1, <4>2
      <4> QED
        BY <4>3
    <3>5. up'[w] => wplan'[w].by = q \/ Plans(w)' # {}
      <4>1. CASE inbox[w][1].by = q
        BY <1>4, <3>1, <4>1
      <4>2. CASE inbox[w][1].by # q
        <5>1. PICK k \in Plans(w) : 1 < k
          BY <2>1, <2>3, <3>2, <4>2 DEF OwnPlanOf
        <5>2. k - 1 \in Plans(w)'
          BY <3>2, <5>1
        <5> QED
          BY <5>2
      <4> QED
        BY <4>1, <4>2
    <3>6. \A i \in Results(w, q)' : outbox'[w][i].under = q
      BY <2>1, <2>3 DEF OwnPlanOf, ResultsMove, Results
    <3> QED
      BY <2>3, <3>3, <3>4, <3>5, <3>6 DEF OwnPlanOf
  <2> QED
    BY <2>2, <2>3
<1> QED
  BY <1>1, <1>5 DEF OwnPlanInv, MayUsePool, UsesPool, queryVars, resultVars

(* A worker takes a task: no plan is before it, so it has the one of the   *)
(* query that uses the pool.                                               *)
LEMMA HandleTaskOwn ==
  ASSUME ExecInv, OwnPlanInv, NEW w \in Workers, HandleTask(w)
  PROVE  OwnPlanInv'
<1> DEFINE done == [type |-> "result", by |-> Head(inbox[w]).by, chunk |-> Head(inbox[w]).chunk,
                    under |-> wplan[w].by]
<1>1. /\ inbox[w] # <<>> /\ Head(inbox[w]).type = "task"
      /\ wplan' = [wplan EXCEPT ![w].ran = TRUE] \/ UNCHANGED wplan
      /\ \/ (wplan[w].live \/ wplan[w].ran) /\ Reply(w, done)
         \/ Reply(w, [type |-> "error"])
      /\ UNCHANGED <<queryVars, resultVars, up>>
  BY DEF HandleTask
<1>2. /\ WorkerTypes /\ inbox[w] \in Seq(Messages) /\ outbox[w] \in Seq(Messages)
      /\ [type |-> "error"] \in Messages
  BY DEF ExecInv, TypeOK, WorkerTypes, Messages
<1>3. \A v \in Workers : wplan'[v].by = wplan[v].by
  <2>1. wplan \in [Workers -> [by : Planners \cup {None}, live : BOOLEAN, ran : BOOLEAN]]
    BY <1>2 DEF WorkerTypes
  <2>2. CASE wplan' = [wplan EXCEPT ![w].ran = TRUE]
    BY <2>1, <2>2
  <2> QED
    BY <1>1, <2>2
<1>4. up[w]
  BY <1>1 DEF ExecInv, PlansInv, PlanOf
<1>5. Head(inbox[w]) \in Messages /\ Head(inbox[w]) = inbox[w][1] /\ 1 \in DOMAIN inbox[w]
  BY <1>1, <1>2, Popped
<1>6. wplan[w].live \/ wplan[w].ran => done \in Messages
  <2>1. wplan[w].live \/ wplan[w].ran => wplan[w].by \in Planners
    BY <1>2 DEF WorkerTypes, ExecInv, PlansInv, PlanOf
  <2>2. Head(inbox[w]).by \in Queries /\ Head(inbox[w]).chunk \in Chunks
    BY <1>1, <1>5 DEF Messages
  <2> QED
    BY <2>1, <2>2 DEF Messages
<1>7. done.type = "result" /\ done.by = inbox[w][1].by /\ done.under = wplan[w].by
  BY <1>5
<1> HIDE DEF done
<1>8. PICK e \in Messages : Reply(w, e) /\ (e.type = "result" => e = done)
  BY <1>1, <1>2, <1>6
<1>9. /\ inbox'[w] = Tail(inbox[w]) /\ outbox'[w] = Append(outbox[w], e)
      /\ \A v \in Workers \ {w} : inbox'[v] = inbox[v] /\ outbox'[v] = outbox[v]
  BY <1>1, <1>2, <1>8, Replied
<1>10. ASSUME NEW v \in Workers, NEW q \in Queries, UsesPool(q)' PROVE OwnPlanOf(v, q)'
  <2>1. OwnPlanOf(v, q)
    BY <1>1, <1>10 DEF OwnPlanInv, UsesPool, queryVars
  <2>2. CASE v # w
    BY <1>1, <1>2, <1>3, <1>9, <2>1, <2>2, OwnSame, StayMove
  <2>3. CASE v = w
    <3>1. \A i \in DOMAIN inbox'[w] :
            i \in Nat \ {0} /\ i + 1 \in DOMAIN inbox[w] /\ inbox'[w][i] = inbox[w][i + 1]
      BY <1>1, <1>2, <1>9, Popped
    <3>2. \A i \in DOMAIN inbox[w] :
            i = 1 \/ (i \in Nat /\ i > 1 /\ i - 1 \in DOMAIN inbox'[w] /\ inbox'[w][i - 1] = inbox[w][i])
      BY <1>1, <1>2, <1>9, Popped
    <3>3. /\ \A i \in Tasks(w, q)' : i \in Nat \ {0} /\ i + 1 \in Tasks(w, q)
          /\ \A i \in Plans(w)' : i \in Nat \ {0} /\ i + 1 \in Plans(w) /\ inbox'[w][i].by = inbox[w][i + 1].by
      BY <3>1 DEF Tasks, Plans
    <3>4. \A i \in Plans(w) : i \in Nat /\ i > 1 /\ i - 1 \in Plans(w)'
      BY <1>1, <1>5, <3>2 DEF Plans
    <3>5. \A i \in Tasks(w, q)', j \in Plans(w)' : j < i
      <4> SUFFICES ASSUME NEW i \in Tasks(w, q)', NEW j \in Plans(w)' PROVE j < i
        OBVIOUS
      <4>1. j + 1 < i + 1 /\ i \in Nat /\ j \in Nat
        BY <2>1, <2>3, <3>3 DEF OwnPlanOf
      <4> QED
        BY <4>1
    <3>6. \A i \in Plans(w)' : inbox'[w][i].by = q \/ \E j \in Plans(w)' : i < j
      <4> SUFFICES ASSUME NEW i \in Plans(w)', inbox'[w][i].by # q PROVE \E j \in Plans(w)' : i < j
        OBVIOUS
      <4>1. i \in Nat \ {0} /\ i + 1 \in Plans(w) /\ inbox[w][i + 1].by # q
        BY <3>3
      <4>2. PICK k \in Plans(w) : i + 1 < k
        BY <2>1, <2>3, <4>1 DEF OwnPlanOf
      <4>3. k \in Nat /\ k - 1 \in Plans(w)' /\ i < k - 1
        BY <3>4, <4>1, <4>2
      <4> QED
        BY <4>3
    <3>7. up'[w] => wplan'[w].by = q \/ Plans(w)' # {}
      BY <1>1, <1>3, <2>1, <2>3, <3>4 DEF OwnPlanOf
    <3>8. \A i \in Results(w, q)' : outbox'[w][i].under = q
      <4> SUFFICES ASSUME NEW i \in Results(w, q)' PROVE outbox'[w][i].under = q
        OBVIOUS
      <4>1. \/ i \in DOMAIN outbox[w] /\ outbox'[w][i] = outbox[w][i]
            \/ outbox'[w][i] = e
        BY <1>2, <1>8, <1>9, Appended DEF Results
      <4>2. CASE i \in DOMAIN outbox[w] /\ outbox'[w][i] = outbox[w][i]
        BY <2>1, <2>3, <4>2 DEF OwnPlanOf, Results
      <4>3. CASE outbox'[w][i] = e
        <5>1. e = done /\ inbox[w][1].by = q
          BY <1>7, <1>8, <4>3 DEF Results
        <5>2. 1 \in Tasks(w, q)
          BY <1>1, <1>5, <5>1 DEF Tasks
        <5>3. Plans(w) = {}
          <6>1. \A j \in Plans(w) : j \in Nat /\ j > 1 /\ j < 1
            BY <2>1, <2>3, <3>4, <5>2 DEF OwnPlanOf
          <6> QED
            BY <6>1
        <5>4. wplan[w].by = q
          BY <1>4, <2>1, <2>3, <5>3 DEF OwnPlanOf
        <5> QED
          BY <1>7, <4>3, <5>1, <5>4
      <4> QED
        BY <4>1, <4>2, <4>3
    <3> QED
      BY <2>3, <3>5, <3>6, <3>7, <3>8 DEF OwnPlanOf
  <2> QED
    BY <2>2, <2>3
<1> QED
  BY <1>1, <1>10 DEF OwnPlanInv, MayUsePool, UsesPool, queryVars, resultVars

(* A worker dies with all that it had received.                            *)
LEMMA CrashOwn ==
  ASSUME ExecInv, OwnPlanInv, NEW w \in Workers, Crash(w)
  PROVE  OwnPlanInv'
<1>1. /\ up' = [up EXCEPT ![w] = FALSE] /\ inbox' = [inbox EXCEPT ![w] = <<>>]
      /\ outbox' = [outbox EXCEPT ![w] = Append(@, [type |-> "error"])]
      /\ UNCHANGED <<queryVars, resultVars, wplan>>
  BY DEF Crash
<1>2. /\ WorkerTypes /\ [type |-> "error"] \in Messages /\ [type |-> "error"].type # "result"
      /\ up \in [Workers -> BOOLEAN] /\ DOMAIN inbox = Workers /\ DOMAIN outbox = Workers
  BY DEF ExecInv, TypeOK, WorkerTypes, Messages
<1>3. ASSUME NEW v \in Workers, NEW q \in Queries, UsesPool(q)' PROVE OwnPlanOf(v, q)'
  <2>1. OwnPlanOf(v, q)
    BY <1>1, <1>3 DEF OwnPlanInv, UsesPool, queryVars
  <2>2. ResultsMove(v, q)
    <3>1. CASE v # w
      BY <1>1, <1>2, <3>1, StayMove
    <3>2. CASE v = w
      BY <1>1, <1>2, <3>2, SentMove
    <3> QED
      BY <3>1, <3>2
  <2>3. CASE v # w
    BY <1>1, <1>2, <2>1, <2>2, <2>3, OwnSame
  <2>4. CASE v = w
    <3>1. inbox'[w] = <<>> /\ ~up'[w]
      BY <1>1, <1>2
    <3>2. \A i \in Results(w, q)' : outbox'[w][i].under = q
      BY <2>1, <2>2, <2>4 DEF OwnPlanOf, ResultsMove, Results
    <3> QED
      BY <2>4, <3>1, <3>2 DEF OwnPlanOf, Tasks, Plans
  <2> QED
    BY <2>3, <2>4
<1> QED
  BY <1>1, <1>3 DEF OwnPlanInv, MayUsePool, UsesPool, queryVars, resultVars

(* A result that is taken for a query in the pool is under its own plan.   *)
LEMMA OnResultOwn ==
  ASSUME ExecInv, OwnPlanInv, NEW w \in Workers, OnResult(w)
  PROVE  OwnPlanInv'
<1> DEFINE msg == Head(outbox[w])
<1>1. /\ outbox[w] # <<>> /\ outbox' = [outbox EXCEPT ![w] = Tail(@)] /\ msg.type = "result"
      /\ UNCHANGED <<inbox, wplan, up, queryVars>>
      /\ \/ UNCHANGED partial
         \/ /\ <<msg.by, msg.chunk>> \in pending[w]
            /\ partial' = [partial EXCEPT ![msg.by][msg.chunk] = msg.under]
  BY DEF OnResult, Entry
<1>2. \A v \in Workers, q \in Queries : UsesPool(q)' => OwnPlanOf(v, q)'
  BY <1>1, TakenOwn
<1>3. msg \in Messages /\ msg = outbox[w][1] /\ 1 \in DOMAIN outbox[w]
  BY <1>1, Popped DEF ExecInv, TypeOK, WorkerTypes
<1>4. PICK q \in Queries, c \in Chunks, p \in Planners :
        msg.by = q /\ msg.chunk = c /\ msg.under = p
  BY <1>1, <1>3 DEF Messages
<1>5. UNCHANGED partial \/ (<<q, c>> \in pending[w] /\ partial' = [partial EXCEPT ![q][c] = p])
  BY <1>1, <1>4
<1> HIDE DEF msg
<1>6. \A r \in Queries : MayUsePool(r)' = MayUsePool(r)
  BY <1>1 DEF MayUsePool, UsesPool, queryVars
<1>7. CASE UNCHANGED partial
  BY <1>2, <1>6, <1>7 DEF OwnPlanInv
<1>8. CASE <<q, c>> \in pending[w] /\ partial' = [partial EXCEPT ![q][c] = p]
  <2>1. loop[q][w] = "run"
    BY <1>8 DEF ExecInv, FlightInv, FlightOf
  <2>2. MayUsePool(q) => UsesPool(q)
    BY <2>1 DEF ExecInv, StepsInv, StepsOf, Silent, MayUsePool
  <2>3. 1 \in Results(w, q) /\ outbox[w][1].under = p
    BY <1>1, <1>3, <1>4 DEF Results
  <2>4. MayUsePool(q) => p = q
    BY <2>2, <2>3 DEF OwnPlanInv, OwnPlanOf
  <2>5. \A r \in Queries, d \in Chunks : r # q \/ d # c => partial'[r][d] = partial[r][d]
    BY <1>8, PartialSet DEF ExecInv
  <2>6. partial'[q][c] = p
    BY <1>8, PartialSet DEF ExecInv
  <2> QED
    BY <1>2, <1>6, <2>4, <2>5, <2>6 DEF OwnPlanInv
<1> QED
  BY <1>5, <1>7, <1>8

(* A step that keeps every table the plans are about.                      *)
LEMMA OwnStep ==
  ASSUME ExecInv, OwnPlanInv, [Next]_vars, Warmers = {}, "plan" \notin Faults
  PROVE  OwnPlanInv'
<1>0. step \in [Queries -> Steps] /\ DOMAIN answer = Queries
  BY DEF ExecInv, TypeOK, QueryTypes
<1>1. ASSUME NEW q \in Queries, Ask(q) \/ Invalid(q) \/ Begin(q) \/ SpawnFails(q) \/ Planned(q)
                                \/ PoolFails(q) \/ ScanEnds(q) \/ Reduce(q) \/ LocalEnds(q) \/ Return(q)
      PROVE  OwnPlanInv'
  <2>1. UNCHANGED <<workerVars, partial>>
    BY <1>1 DEF Ask, Invalid, Begin, SpawnFails, Planned, PoolFails, ScanEnds, Reduce, LocalEnds,
       Return, resultVars
  <2>2. \A r \in Queries : UsesPool(r)' => UsesPool(r)
    BY <1>0, <1>1 DEF UsesPool, Ask, Invalid, Begin, SpawnFails, Planned, PoolFails, ScanEnds, Reduce,
       LocalEnds, Return, Catch, Settle, StartLocal
  <2>3. \A r \in Queries : MayUsePool(r)' => MayUsePool(r)
    <3> SUFFICES ASSUME NEW r \in Queries, MayUsePool(r)' PROVE MayUsePool(r)
      OBVIOUS
    <3>1. CASE step'[r] \in {"none", "acquire"}
      BY <1>0, <1>1, <3>1 DEF MayUsePool, UsesPool, Ask, Invalid, Begin, SpawnFails, Planned,
         PoolFails, ScanEnds, Reduce, LocalEnds, Return, Catch, Settle, StartLocal,
         ExecInv, StepsInv, StepsOf, Lock!Grant
    <3>2. CASE answer'[r] = "pool"
      BY <1>0, <1>1, <3>2 DEF MayUsePool, UsesPool, Ask, Invalid, Begin, SpawnFails, Planned,
         PoolFails, ScanEnds, Reduce, LocalEnds, Return, Catch, Settle, StartLocal
    <3> QED
      BY <2>2, <3>1, <3>2 DEF MayUsePool
  <2> QED
    BY <2>1, <2>2, <2>3, CallOwn
<1>2. ASSUME NEW q \in Queries, Acquire(q) PROVE OwnPlanInv'
  BY <1>2, AcquireOwn
<1>3. ASSUME NEW q \in Queries, LocalStep(q) PROVE OwnPlanInv'
  BY <1>3, QuietOwn DEF LocalStep, ExecLocal, ExecLocalFails, resultVars
<1>4. ASSUME NEW q \in Queries, NEW x \in Loops, LoopStep(q, x) PROVE OwnPlanInv'
  <2>1. CASE Claim(q, x)
    BY <2>1, QuietOwn DEF Claim, resultVars
  <2> QED
    BY <1>4, <2>1, ReceiveOwn, EmptyPartialOwn DEF LoopStep
<1>5. ASSUME NEW q \in Queries, NEW m \in Paths, NEW c \in Chunks, LoadStep(q, m, c)
      PROVE  OwnPlanInv'
  BY <1>5, QuietOwn DEF LoadStep, UsePlan, ReadFails, resultVars
<1>6. ASSUME NEW w \in Workers, OnPlanned(w) \/ OnError(w) PROVE OwnPlanInv'
  <2>1. /\ outbox[w] # <<>> /\ outbox' = [outbox EXCEPT ![w] = Tail(@)]
        /\ UNCHANGED <<inbox, wplan, up, queryVars, partial>>
    BY <1>6 DEF OnPlanned, OnError, resultVars
  <2>2. \A v \in Workers, q \in Queries : UsesPool(q)' => OwnPlanOf(v, q)'
    BY <2>1, TakenOwn
  <2> QED
    BY <2>1, <2>2 DEF OwnPlanInv, MayUsePool, UsesPool, queryVars
<1>7. ASSUME NEW w \in Workers, WorkerStep(w) \/ OnResult(w) \/ Crash(w) PROVE OwnPlanInv'
  BY <1>7, HandlePlanOwn, HandleTaskOwn, OnResultOwn, CrashOwn DEF WorkerStep
<1>8. CASE UNCHANGED vars
  BY <1>8, QuietOwn DEF vars, resultVars
<1> QED
  BY <1>1, <1>2, <1>3, <1>4, <1>5, <1>6, <1>7, <1>8 DEF Next, QueryStep, HandleStep

(* When nobody warms the workers while queries run and no plan fails in a  *)
(* worker, every partial of an answer from the pool was computed under the *)
(* query's own plan: whatever else fails, and however many queries have    *)
(* left loops, tasks and replies behind.                                   *)
THEOREM PartialsAreOwn ==
  ASSUME Warmers = {}, "plan" \notin Faults
  PROVE  Spec => []OwnPartials
<1>1. Init => OwnPlanInv
  BY DEF Init, OwnPlanInv, UsesPool
<1>2. ExecInv /\ OwnPlanInv /\ [Next]_vars => OwnPlanInv'
  BY OwnStep
<1>3. ASSUME ExecInv, OwnPlanInv PROVE OwnPartials
  <2> SUFFICES ASSUME NEW q \in Queries, answer[q] = "pool", NEW c \in Chunks
               PROVE  partial[q][c] = q
    BY DEF OwnPartials
  <2>1. \A w \in Workers : loop[q][w] = "done" /\ task[q][w] = None
    BY <1>3, Members DEF ExecInv, StepsInv, StepsOf, TasksInv, TaskOf
  <2>2. PICK w \in Workers : TRUE
    BY QueryAssumption
  <2>3. dispatch[q]["pool"] = NChunks
    BY <1>3, <2>1, <2>2 DEF ExecInv, CoverInv, CoverOf
  <2>4. partial[q][c] # None
    BY <1>3, <2>1, <2>3, Members DEF ExecInv, CoverInv, CoverOf
  <2> QED
    BY <1>3, <2>4 DEF OwnPlanInv, MayUsePool
<1> QED
  BY <1>1, <1>2, <1>3, ExecInductive, PTL DEF Spec

-----------------------------------------------------------------------------
(* EACH QUERY'S LOOPS ARE A CHUNK QUEUE                                    *)

(* The tables of a query's pool scan; starting a loop does not show.       *)
PoolSame(q) ==
  /\ dispatch'[q]["pool"] = dispatch[q]["pool"]
  /\ load'[q]["pool"] = load[q]["pool"]
  /\ partial'[q] = partial[q]
  /\ \A w \in Workers :
       /\ task'[q][w] = task[q][w]
       /\ loop'[q][w] = loop[q][w] \/ (loop[q][w] = "off" /\ loop'[q][w] = "next")

(* What the promise of a scan reads as.                                    *)
OutcomeOf(q) ==
  /\ (\E w \in Workers : loop[q][w] = "dead") => QueueOutcome(q) = "rejected"
  /\ (\A w \in Workers : loop[q][w] # "dead") =>
       QueueOutcome(q) = IF Resolved(q) THEN "resolved" ELSE "running"

(* Of the two guards of the mapping only one holds, before and after a     *)
(* step.                                                                   *)
LEMMA OutcomeIs ==
  ASSUME NEW q \in Queries
  PROVE  OutcomeOf(q) /\ OutcomeOf(q)'
<1>1. OutcomeOf(q)
  <2>1. Resolved(q) => \A w \in Workers : loop[q][w] # "dead"
    BY DEF Resolved
  <2> QED
    BY <2>1 DEF OutcomeOf, QueueOutcome
<1>2. OutcomeOf(q)'
  <2>1. Resolved(q)' => \A w \in Workers : loop'[q][w] # "dead"
    BY DEF Resolved
  <2> QED
    BY <2>1 DEF OutcomeOf, QueueOutcome
<1> QED
  BY <1>1, <1>2

(* Nothing of a scan changes when its tables and its end do not.           *)
LEMMA QueueStays ==
  ASSUME NEW q \in Queries, PoolSame(q),
         (\A w \in Workers : loop[q][w] # "dead") => Resolved(q)' = Resolved(q)
  PROVE  UNCHANGED Queue(q)!vars
<1>1. UNCHANGED <<QueueBuild(q), QueueLoad(q), QueueTask(q), QueueScanned(q)>>
  BY DEF PoolSame, QueueBuild, QueueLoad, QueueTask, QueueScanned
<1>2. UNCHANGED QueueLoop(q)
  <2>1. \A w \in Workers :
          (IF loop'[q][w] = "off" THEN "next" ELSE loop'[q][w]) = IF loop[q][w] = "off" THEN "next" ELSE loop[q][w]
    BY DEF PoolSame
  <2> QED
    BY <2>1 DEF QueueLoop
<1>3. UNCHANGED QueueOutcome(q)
  <2>1. \A w \in Workers : loop'[q][w] = "dead" <=> loop[q][w] = "dead"
    BY DEF PoolSame
  <2>2. CASE \E w \in Workers : loop[q][w] = "dead"
    BY <2>1, <2>2, OutcomeIs DEF OutcomeOf
  <2>3. CASE \A w \in Workers : loop[q][w] # "dead"
    BY <2>1, <2>3, OutcomeIs DEF OutcomeOf
  <2> QED
    BY <2>2, <2>3
<1> QED
  BY <1>1, <1>2, <1>3 DEF PoolSame, Queue!vars

(* A query's scan stays as it is while the query stands where it did.      *)
LEMMA QueueQuiet ==
  ASSUME NEW q \in Queries, PoolSame(q), step'[q] = step[q]
  PROVE  UNCHANGED Queue(q)!vars
<1>1. Resolved(q)' = Resolved(q)
  <2>1. \A w \in Workers : loop'[q][w] = "done" <=> loop[q][w] = "done"
    BY DEF PoolSame
  <2> QED
    BY <2>1 DEF Resolved
<1> QED
  BY <1>1, QueueStays

(* The sizes a queue computes are the sizes of its sets.                   *)
LEMMA QueueSizes ==
  ASSUME NEW q \in Queries, NEW S
  PROVE  Queue(q)!Cardinality(S) = Cardinality(S)
BY DEF Queue!Cardinality, Cardinality

(* stage() reaches the end of the file: the cap is four at least.          *)
LEMMA StageEnds ==
  ASSUME NEW q \in Queries, NEW ld,
         QueueBuild(q) = NChunks \/ (QueueBuild(q) = 0 /\ \A c \in Chunks : ld[c] = "none")
  PROVE  Queue(q)!StageTo(ld) = NChunks
<1> DEFINE cap  == Queue(q)!PrefetchCap
           size == Queue(q)!Cardinality(Queue(q)!Staged(ld))
<1>1. cap \in Nat /\ cap >= 4
  <2>1. Queue(q)!Cardinality(Workers) \in Nat
    BY QueueSizes, QueryAssumption, FS_CardinalityType
  <2> QED
    BY <2>1 DEF Queue!PrefetchCap
<1>2. Queue(q)!Staged(ld) \subseteq 0 .. NChunks - 1
  BY DEF Queue!Staged, Queue!Chunks
<1>3. IsFiniteSet(0 .. NChunks - 1)
  BY Members, FS_Interval
<1>4. size \in Nat
  <2>1. Cardinality(Queue(q)!Staged(ld)) \in Nat
    BY <1>2, <1>3, FS_Subset, FS_CardinalityType
  <2> QED
    BY <2>1, QueueSizes
<1>5. QueueBuild(q) = 0 => size = 0
  <2>1. SUFFICES ASSUME QueueBuild(q) = 0
                 PROVE  size = 0
    OBVIOUS
  <2>2. \A c \in Chunks : ld[c] = "none"
    BY <2>1, Members
  <2>3. Queue(q)!Staged(ld) = {}
    BY <2>2 DEF Queue!Staged, Queue!Chunks, Chunks
  <2>4. Cardinality({}) = 0
    BY FS_EmptySet
  <2> QED
    BY <2>3, <2>4, QueueSizes
<1>6. Queue(q)!StageTo(ld) = IF cap - size <= 0 THEN QueueBuild(q)
                            ELSE IF QueueBuild(q) + (cap - size) < NChunks
                                   THEN QueueBuild(q) + (cap - size) ELSE NChunks
  BY DEF Queue!StageTo
<1>7. NChunks \in 1 .. 4
  BY QueryAssumption
<1> HIDE DEF cap, size
<1>8. CASE QueueBuild(q) = NChunks
  BY <1>1, <1>4, <1>6, <1>7, <1>8
<1>9. CASE QueueBuild(q) = 0
  BY <1>1, <1>5, <1>6, <1>7, <1>9
<1> QED
  BY <1>8, <1>9

(* So the first call of next() stages the whole file, and later ones       *)
(* nothing.                                                                *)
LEMMA Stages ==
  ASSUME NEW q \in Queries, NEW ld,
         QueueBuild(q) = NChunks \/ (QueueBuild(q) = 0 /\ \A c \in Chunks : ld[c] = "none"),
         QueueBuild(q)' = NChunks,
         QueueLoad(q)' = [c \in Chunks |-> IF QueueBuild(q) = 0 THEN "loading" ELSE ld[c]]
  PROVE  Queue(q)!Stage(ld)
<1>1. Queue(q)!StageTo(ld) = NChunks
  BY StageEnds
<1>2. Queue(q)!Chunks = Chunks
  BY DEF Queue!Chunks, Chunks
<1>3. \A c \in Chunks : c \in QueueBuild(q) .. NChunks - 1 <=> QueueBuild(q) = 0
  BY Members DEF Chunks
<1>4. QueueLoad(q)' = [c \in Chunks |-> IF c \in QueueBuild(q) .. NChunks - 1 THEN "loading" ELSE ld[c]]
  BY <1>3
<1> QED
  BY <1>1, <1>2, <1>4 DEF Queue!Stage

(* The prefetches of a query, before and after its first call of next().   *)
LEMMA Prefetched ==
  ASSUME ExecInv, NEW q \in Queries
  PROVE  /\ QueueBuild(q) \in {0, NChunks} /\ 0 # NChunks /\ 0 \in Chunks
         /\ QueueBuild(q) = 0 <=> \A c \in Chunks : load[q]["pool"][c] = "none"
         /\ QueueBuild(q) = NChunks <=> \A c \in Chunks : load[q]["pool"][c] # "none"
<1>1. 0 # NChunks /\ 0 \in Chunks /\ "pool" \in Paths
  BY Members DEF Chunks, Paths
<1>2. \A c \in Chunks : load[q]["pool"][c] = "none" <=> load[q]["pool"][0] = "none"
  BY <1>1 DEF ExecInv, LoadsInv, LoadOf
<1> QED
  BY <1>1, <1>2 DEF QueueBuild

(* The loops have not begun, or have ended, when the query leaves the pool.*)
LEMMA CallQueue ==
  ASSUME ExecInv, ExecInv', NEW q \in Queries, NEW r \in Queries,
         \/ Ask(q) \/ Invalid(q) \/ Begin(q) \/ Acquire(q) \/ SpawnFails(q) \/ Planned(q)
         \/ PoolFails(q) \/ Reduce(q) \/ LocalEnds(q) \/ Return(q)
  PROVE  UNCHANGED Queue(r)!vars
<1>0. /\ step \in [Queries -> Steps]
      /\ loop \in [Queries -> [Loops -> LoopStates]] /\ "next" \in LoopStates
      /\ \A w \in Workers : w \in Loops /\ w # Local
  BY Members DEF ExecInv, TypeOK, QueryTypes, LoopTypes, LoopStates
<1>1. UNCHANGED <<dispatch, load, task, partial>>
  BY DEF Ask, Invalid, Begin, Acquire, SpawnFails, Planned, PoolFails, Reduce, LocalEnds, Return,
     loopVars, resultVars
<1>2. CASE Planned(q)
  <2>1. /\ step' = [step EXCEPT ![q] = "scan"] /\ step[q] = "plan"
        /\ loop' = [loop EXCEPT ![q] = [x \in Loops |-> IF x \in Workers THEN "next" ELSE @[x]]]
    BY <1>2 DEF Planned
  <2>2. \A w \in Workers : loop[q][w] = "off"
    BY <2>1 DEF ExecInv, StepsInv, StepsOf, Silent
  <2>3. \A w \in Workers : loop'[r][w] = loop[r][w] \/ (loop[r][w] = "off" /\ loop'[r][w] = "next")
    BY <1>0, <2>1, <2>2
  <2>4. PoolSame(r)
    BY <1>1, <2>3 DEF PoolSame
  <2>5. Resolved(r)' = Resolved(r)
    <3>1. CASE r = q
      BY <1>0, <2>1, <3>1 DEF Resolved
    <3>2. CASE r # q
      BY <1>0, <2>1, <3>2 DEF Resolved
    <3> QED
      BY <3>1, <3>2
  <2> QED
    BY <2>4, <2>5, QueueStays
<1>3. CASE ~Planned(q)
  <2>1. UNCHANGED loop \/ loop' = [loop EXCEPT ![q][Local] = "next"]
    BY <1>3 DEF Ask, Invalid, Begin, Acquire, SpawnFails, Planned, PoolFails, Reduce, LocalEnds, Return,
       Catch, Settle, StartLocal, loopVars
  <2>2. \A w \in Workers : loop'[r][w] = loop[r][w]
    BY <1>0, <2>1
  <2>3. PoolSame(r)
    BY <1>1, <2>2 DEF PoolSame
  <2>4. CASE r # q \/ step'[r] = step[r]
    <3>1. step'[r] = step[r]
      BY <1>0, <1>3, <2>4 DEF Ask, Invalid, Begin, Acquire, SpawnFails, PoolFails, Reduce, LocalEnds,
         Return, Catch, Settle, StartLocal
    <3> QED
      BY <2>3, <3>1, QueueQuiet
  <2>5. CASE r = q /\ \E w \in Workers : loop[q][w] # "done"
    <3>1. ~Resolved(r) /\ ~Resolved(r)'
      BY <2>2, <2>5 DEF Resolved
    <3>2. Resolved(r)' = Resolved(r)
      BY <3>1 DEF Resolved
    <3> QED
      BY <2>3, <3>2, QueueStays
  <2>6. CASE r = q /\ step'[q] # step[q] /\ \A w \in Workers : loop[q][w] = "done"
    <3>1. PICK w \in Workers : TRUE
      BY QueryAssumption
    <3>2. loop[q][w] = "done" /\ \A v \in Workers : loop[q][v] = "done"
      BY <2>6
    <3>3. step[q] \in {"reduce", "settled"}
      <4>1. step[q] \notin {"none", "acquire", "plan"}
        BY <3>2 DEF ExecInv, StepsInv, StepsOf, Silent
      <4>2. step[q] # "local"
        BY <3>2 DEF ExecInv, StepsInv, StepsOf, Silent
      <4>3. ~PoolFails(q)
        BY <3>2, <4>1 DEF PoolFails
      <4> QED
        BY <1>0, <1>3, <2>6, <4>1, <4>2, <4>3 DEF Ask, Invalid, Begin, Acquire, SpawnFails, Reduce,
           LocalEnds, Return, Lock!Grant, Lock!Ask, ExecInv, StepsInv, StepsOf, queryVars
    <3>4. step'[q] \in {"settled", "done"}
      BY <1>0, <1>3, <3>3 DEF Ask, Invalid, Begin, Acquire, SpawnFails, PoolFails, Reduce, LocalEnds,
         Return, Settle, Lock!Grant, ExecInv, StepsInv, StepsOf
    <3>5. Resolved(r)' = Resolved(r)
      BY <2>2, <2>6, <3>3, <3>4 DEF Resolved
    <3> QED
      BY <2>3, <2>6, <3>5, QueueStays
  <2> QED
    BY <2>4, <2>5, <2>6
<1> QED
  BY <1>2, <1>3

(* Steps of other queries, of the local loop, of workers and of handles do *)
(* not show in a query's scan.                                             *)
LEMMA OthersQueue ==
  ASSUME ExecInv, NEW r \in Queries, UNCHANGED <<step, dispatch, load, partial>>,
         \A w \in Workers : loop'[r][w] = loop[r][w] /\ task'[r][w] = task[r][w]
  PROVE  UNCHANGED Queue(r)!vars
<1>1. PoolSame(r) /\ step'[r] = step[r]
  BY DEF PoolSame
<1> QED
  BY <1>1, QueueQuiet

(* The promise of runChunkTasks resolves when the query sees that all its  *)
(* loops have returned.                                                    *)
LEMMA ScanQueue ==
  ASSUME ExecInv, NEW q \in Queries, NEW r \in Queries, ScanEnds(q)
  PROVE  [Queue(r)!Next]_(Queue(r)!vars)
<1>1. /\ step[q] = "scan" /\ step' = [step EXCEPT ![q] = "reduce"]
      /\ \A w \in Workers : loop[q][w] = "done" /\ loop'[q][w] = "done"
      /\ UNCHANGED <<dispatch, load, loop, task, partial>>
  BY DEF ScanEnds, loopVars, resultVars
<1>2. step \in [Queries -> Steps]
  BY DEF ExecInv, TypeOK, QueryTypes
<1>3. PoolSame(r)
  BY <1>1 DEF PoolSame
<1>4. CASE r # q
  <2>1. step'[r] = step[r]
    BY <1>1, <1>2, <1>4
  <2> QED
    BY <1>3, <2>1, QueueQuiet
<1>5. CASE r = q
  <2>1. ~Resolved(q) /\ Resolved(q)'
    BY <1>1, <1>2 DEF Resolved
  <2>2. QueueOutcome(q) = "running" /\ QueueOutcome(q)' = "resolved"
    BY <1>1, <2>1, OutcomeIs DEF OutcomeOf
  <2>3. \A w \in Workers : QueueLoop(q)[w] = "done"
    BY <1>1 DEF QueueLoop
  <2>4. UNCHANGED <<QueueBuild(q), QueueLoad(q), QueueLoop(q), QueueTask(q), QueueScanned(q),
                    dispatch[q]["pool"]>>
    BY <1>1 DEF QueueBuild, QueueLoad, QueueLoop, QueueTask, QueueScanned
  <2>5. Queue(q)!Resolve
    BY <2>2, <2>3, <2>4 DEF Queue!Resolve
  <2> QED
    BY <1>5, <2>5 DEF Queue!Next
<1> QED
  BY <1>4, <1>5

(* While a loop has not ended the scan runs, or another loop has died.     *)
LEMMA LoopActive ==
  ASSUME ExecInv, NEW q \in Queries, NEW w \in Workers, loop[q][w] \in {"next", "await", "run"}
  PROVE  /\ QueueOutcome(q) = "running" \/ \E v \in Workers : loop[q][v] = "dead"
         /\ QueueOutcome(q) \in {"running", "rejected"}
         /\ step[q] = "scan" \/ \E v \in Workers : loop[q][v] = "dead"
<1>1. ~Resolved(q)
  BY DEF Resolved
<1>2. step[q] = "scan" \/ \E v \in Workers : loop[q][v] = "dead"
  <2>1. StepsOf(q) /\ step[q] \in Steps
    BY DEF ExecInv, StepsInv, TypeOK, QueryTypes
  <2>2. loop[q][w] \notin {"off", "done"}
    OBVIOUS
  <2>3. step[q] \notin {"none", "acquire", "plan", "reduce"}
    BY <2>1, <2>2 DEF StepsOf, Silent
  <2>4. step[q] \in {"local", "settled", "done"} => \E v \in Workers : loop[q][v] = "dead"
    BY <2>1, <2>2 DEF StepsOf, Silent
  <2> QED
    BY <2>1, <2>3, <2>4 DEF Steps
<1> QED
  BY <1>1, <1>2, OutcomeIs DEF OutcomeOf

(* A loop that goes on, and does not die, leaves the promise as it is.     *)
LEMMA OutcomeKept ==
  ASSUME ExecInv, NEW q \in Queries, NEW w \in Workers, loop[q][w] \in {"next", "await", "run"},
         loop'[q][w] # "dead", UNCHANGED step,
         \A v \in Workers \ {w} : loop'[q][v] = loop[q][v]
  PROVE  UNCHANGED QueueOutcome(q)
<1>1. (\E v \in Workers : loop'[q][v] = "dead") <=> \E v \in Workers : loop[q][v] = "dead"
  OBVIOUS
<1>2. CASE \E v \in Workers : loop[q][v] = "dead"
  BY <1>1, <1>2, OutcomeIs DEF OutcomeOf
<1>3. CASE \A v \in Workers : loop[q][v] # "dead"
  <2>1. step[q] = "scan"
    BY <1>3, LoopActive
  <2>2. ~Resolved(q) /\ ~Resolved(q)'
    BY <2>1 DEF Resolved
  <2> QED
    BY <1>1, <1>3, <2>2, OutcomeIs DEF OutcomeOf
<1> QED
  BY <1>2, <1>3

(* The first loop that dies rejects the promise.                           *)
LEMMA OutcomeRejects ==
  ASSUME ExecInv, NEW q \in Queries, NEW w \in Workers, loop[q][w] \in {"next", "await", "run"},
         loop'[q][w] = "dead"
  PROVE  QueueOutcome(q)' = IF QueueOutcome(q) = "running" THEN "rejected" ELSE QueueOutcome(q)
<1>1. QueueOutcome(q)' = "rejected"
  BY OutcomeIs DEF OutcomeOf
<1> QED
  BY <1>1, LoopActive

(* One loop, or one task, of a scan changes.                               *)
LEMMA QueueLoopSet ==
  ASSUME ExecInv, NEW q \in Queries, NEW w \in Workers, NEW s \in LoopStates \ {"off"},
         loop' = [loop EXCEPT ![q][w] = s]
  PROVE  /\ QueueLoop(q)' = [QueueLoop(q) EXCEPT ![w] = s]
         /\ loop'[q][w] = s /\ \A v \in Workers \ {w} : loop'[q][v] = loop[q][v]
         /\ \A r \in Queries \ {q} : \A v \in Workers : loop'[r][v] = loop[r][v]
<1>0. w \in Loops /\ loop \in [Queries -> [Loops -> LoopStates]]
  BY Members DEF ExecInv, TypeOK, LoopTypes
<1>1. /\ loop'[q][w] = s
      /\ \A r \in Queries, y \in Loops : r # q \/ y # w => loop'[r][y] = loop[r][y]
  BY <1>0
<1>2. \A v \in Workers : v \in Loops
  BY Members
<1>3. \A v \in Workers \ {w} : loop'[q][v] = loop[q][v]
  BY <1>1, <1>2
<1>4. QueueLoop(q)' = [QueueLoop(q) EXCEPT ![w] = s]
  BY <1>1, <1>3 DEF QueueLoop
<1> QED
  BY <1>1, <1>2, <1>3, <1>4

(* One loop of a scan takes or drops a chunk.                              *)
LEMMA QueueTaskSet ==
  ASSUME ExecInv, NEW q \in Queries, NEW w \in Workers, NEW c \in Chunks \cup {None},
         task' = [task EXCEPT ![q][w] = c]
  PROVE  /\ QueueTask(q)' = [QueueTask(q) EXCEPT ![w] = c]
         /\ \A r \in Queries \ {q} : \A v \in Workers : task'[r][v] = task[r][v]
<1>0. w \in Loops /\ task \in [Queries -> [Loops -> Chunks \cup {None}]]
  BY Members DEF ExecInv, TypeOK, LoopTypes
<1>1. /\ task'[q][w] = c
      /\ \A r \in Queries, y \in Loops : r # q \/ y # w => task'[r][y] = task[r][y]
  BY <1>0
<1>2. \A v \in Workers : v \in Loops
  BY Members
<1>3. \A v \in Workers \ {w} : task'[q][v] = task[q][v]
  BY <1>1, <1>2
<1>4. QueueTask(q)' = [QueueTask(q) EXCEPT ![w] = c]
  BY <1>1, <1>3 DEF QueueTask
<1> QED
  BY <1>1, <1>2, <1>4

(* A prefetch of a scan settles.                                           *)
LEMMA LoadQueue ==
  ASSUME ExecInv, NEW q \in Queries, NEW m \in Paths, NEW c \in Chunks, NEW r \in Queries,
         LoadStep(q, m, c)
  PROVE  [Queue(r)!Next]_(Queue(r)!vars)
<1>1. PICK s \in {"ready", "pruned", "failed"} : load' = [load EXCEPT ![q][m][c] = s]
  <2>1. CASE UsePlan(q, m, c)
    BY <2>1 DEF UsePlan
  <2>2. CASE ReadFails(q, m, c)
    BY <2>2 DEF ReadFails
  <2> QED
    BY <2>1, <2>2 DEF LoadStep
<1>2. /\ load[q][m][c] = "reading"
      /\ UNCHANGED <<step, dispatch, loop, task, partial>>
  BY DEF LoadStep, UsePlan, ReadFails, queryVars, resultVars
<1>3. /\ load \in [Queries -> [Paths -> [Chunks -> LoadStates]]] /\ s \in LoadStates
      /\ "pool" \in Paths
  BY Members DEF ExecInv, TypeOK, LoopTypes, LoadStates
<1>4. /\ load'[q][m][c] = s
      /\ \A n \in Paths, d \in Chunks : n # m \/ d # c => load'[q][n][d] = load[q][n][d]
      /\ \A n \in Paths : n # m => load'[q][n] = load[q][n]
      /\ r # q => load'[r] = load[r]
  BY <1>1, <1>3
<1>5. CASE r # q \/ m # "pool"
  <2>1. load'[r]["pool"] = load[r]["pool"]
    BY <1>3, <1>4, <1>5
  <2>2. PoolSame(r) /\ step'[r] = step[r]
    BY <1>2, <2>1 DEF PoolSame
  <2> QED
    BY <2>2, QueueQuiet
<1>6. CASE r = q /\ m = "pool"
  <2>1. QueueLoad(q)[c] = "loading" /\ c \in Queue(q)!Chunks
    BY <1>2, <1>6 DEF QueueLoad, Queue!Chunks, Chunks
  <2>2. PICK t \in {"ready", "failed"} : t = IF s = "pruned" THEN "ready" ELSE s
    OBVIOUS
  <2>3. QueueLoad(q)' = [QueueLoad(q) EXCEPT ![c] = t]
    <3>1. \A d \in Chunks : d # c => load'[q]["pool"][d] = load[q]["pool"][d]
      BY <1>3, <1>4, <1>6
    <3>2. load'[q]["pool"][c] = s
      BY <1>4, <1>6
    <3> QED
      BY <2>2, <3>1, <3>2 DEF QueueLoad
  <2>4. QueueBuild(q)' = QueueBuild(q)
    <3>1. load'[q]["pool"][0] = "none" <=> load[q]["pool"][0] = "none"
      BY <1>2, <1>3, <1>4, <1>6, Prefetched
    <3> QED
      BY <3>1 DEF QueueBuild
  <2>5. QueueOutcome(q)' = QueueOutcome(q)
    BY <1>2 DEF QueueOutcome, Resolved
  <2>6. UNCHANGED <<QueueLoop(q), QueueTask(q), QueueScanned(q), dispatch[q]["pool"]>>
    BY <1>2 DEF QueueLoop, QueueTask, QueueScanned
  <2>7. Queue(q)!Load(c)
    BY <2>1, <2>3, <2>4, <2>5, <2>6 DEF Queue!Load
  <2> QED
    BY <1>6, <2>1, <2>7 DEF Queue!Next
<1> QED
  BY <1>5, <1>6

(* next(), in the tables of the scan.                                      *)
LEMMA ClaimQueue ==
  ASSUME ExecInv, NEW q \in Queries, NEW x \in Loops, NEW r \in Queries, Claim(q, x)
  PROVE  [Queue(r)!Next]_(Queue(r)!vars)
<1> DEFINE m == Path(x)
<1>0. m \in Paths /\ "pool" \in Paths /\ \A w \in Workers : w \in Loops
  BY Members DEF Path
<1>1. /\ dispatch \in [Queries -> [Paths -> 0 .. NChunks]]
      /\ load \in [Queries -> [Paths -> [Chunks -> LoadStates]]]
      /\ loop \in [Queries -> [Loops -> LoopStates]]
      /\ task \in [Queries -> [Loops -> Chunks \cup {None}]]
      /\ {"await", "done"} \subseteq LoopStates \ {"off"}
  BY DEF ExecInv, TypeOK, LoopTypes, LoopStates
<1>2. /\ loop[q][x] = "next" /\ UNCHANGED <<step, partial>>
      /\ load' = [load EXCEPT ![q][m] = Staged(q, m)]
  BY DEF Claim, queryVars, resultVars
<1>3. \/ /\ dispatch[q][m] < NChunks /\ task' = [task EXCEPT ![q][x] = dispatch[q][m]]
         /\ dispatch' = [dispatch EXCEPT ![q][m] = @ + 1] /\ loop' = [loop EXCEPT ![q][x] = "await"]
      \/ /\ ~(dispatch[q][m] < NChunks)
         /\ UNCHANGED <<task, dispatch>> /\ loop' = [loop EXCEPT ![q][x] = "done"]
  BY DEF Claim, Left
<1>4. /\ load'[q][m] = Staged(q, m)
      /\ r # q => load'[r] = load[r]
      /\ \A n \in Paths : n # m => load'[q][n] = load[q][n]
  BY <1>0, <1>1, <1>2
<1> HIDE DEF m
<1>5. CASE r # q \/ x = Local
  <2>1. load'[r]["pool"] = load[r]["pool"]
    <3>1. x = Local => m # "pool"
      BY Members DEF m
    <3> QED
      BY <1>0, <1>4, <1>5, <3>1
  <2>2. dispatch'[r]["pool"] = dispatch[r]["pool"]
    <3>1. x = Local => m # "pool"
      BY Members DEF m
    <3> QED
      BY <1>0, <1>1, <1>3, <1>5, <3>1
  <2>3. \A w \in Workers : loop'[r][w] = loop[r][w] /\ task'[r][w] = task[r][w]
    <3>1. x = Local => x \notin Workers
      BY QueryAssumption
    <3> QED
      BY <1>0, <1>1, <1>3, <1>5, <3>1
  <2>4. PoolSame(r) /\ step'[r] = step[r]
    BY <1>2, <2>1, <2>2, <2>3 DEF PoolSame
  <2> QED
    BY <2>4, QueueQuiet
<1>6. CASE r = q /\ x \in Workers
  <2>1. m = "pool" /\ QueueLoop(q)[x] = "next"
    BY <1>2, <1>6, Members DEF m, QueueLoop
  <2>2. Queue(q)!Stage(QueueLoad(q))
    <3>1. QueueBuild(q)' = NChunks
      BY <1>4, <2>1, Prefetched DEF QueueBuild, Staged
    <3>2. QueueBuild(q) = NChunks \/ (QueueBuild(q) = 0 /\ \A c \in Chunks : QueueLoad(q)[c] = "none")
      BY Prefetched DEF QueueLoad
    <3>3. \A c \in Chunks : load'[q]["pool"][c] = IF QueueBuild(q) = 0 THEN "reading" ELSE load[q]["pool"][c]
      BY <1>4, <2>1, Prefetched DEF Staged
    <3>4. QueueLoad(q)' = [c \in Chunks |-> IF QueueBuild(q) = 0 THEN "loading" ELSE QueueLoad(q)[c]]
      BY <3>3 DEF QueueLoad
    <3> QED
      BY <3>1, <3>2, <3>4, Stages
  <2>3. PICK s \in {"await", "done"} : loop' = [loop EXCEPT ![q][x] = s]
    BY <1>3
  <2>4. /\ QueueLoop(q)' = [QueueLoop(q) EXCEPT ![x] = s]
        /\ loop'[q][x] = s /\ \A v \in Workers \ {x} : loop'[q][v] = loop[q][v]
    BY <1>1, <1>6, <2>3, QueueLoopSet, ZenonT(60)
  <2>5. UNCHANGED <<QueueOutcome(q), QueueScanned(q)>>
    <3>1. UNCHANGED QueueOutcome(q)
      BY <1>2, <1>6, <2>4, OutcomeKept
    <3>2. UNCHANGED QueueScanned(q)
      BY <1>2 DEF QueueScanned
    <3> QED
      BY <3>1, <3>2
  <2>6. CASE /\ dispatch[q][m] < NChunks /\ task' = [task EXCEPT ![q][x] = dispatch[q][m]]
             /\ dispatch' = [dispatch EXCEPT ![q][m] = @ + 1] /\ loop' = [loop EXCEPT ![q][x] = "await"]
    <3>0. PICK d \in 0 .. NChunks : d = dispatch[q]["pool"]
      BY <1>0, <1>1
    <3>1. d \in Chunks /\ dispatch'[q]["pool"] = dispatch[q]["pool"] + 1
      <4>1. d < NChunks /\ NChunks \in Nat
        BY <2>1, <2>6, <3>0, Members
      <4>2. d \in Chunks
        BY <4>1 DEF Chunks
      <4>3. dispatch' = [dispatch EXCEPT ![q]["pool"] = dispatch[q]["pool"] + 1]
        BY <2>1, <2>6
      <4> QED
        BY <1>0, <1>1, <4>2, <4>3
    <3>2. QueueTask(q)' = [QueueTask(q) EXCEPT ![x] = dispatch[q]["pool"]]
      <4>1. task' = [task EXCEPT ![q][x] = d] /\ x \in Workers /\ d \in Chunks \cup {None}
        BY <1>6, <2>1, <2>6, <3>0, <3>1
      <4>2. QueueTask(q)' = [QueueTask(q) EXCEPT ![x] = d]
        BY <4>1, QueueTaskSet
      <4> QED
        BY <3>0, <4>2
    <3>3. s = "await"
      BY <1>0, <1>1, <1>6, <2>4, <2>6
    <3>4. Queue(q)!Claim(x)
      BY <2>1, <2>2, <2>4, <2>5, <2>6, <3>0, <3>1, <3>2, <3>3 DEF Queue!Claim
    <3> QED
      BY <1>6, <3>4 DEF Queue!Next, Queue!LoopStep
  <2>7. CASE /\ ~(dispatch[q][m] < NChunks)
             /\ UNCHANGED <<task, dispatch>> /\ loop' = [loop EXCEPT ![q][x] = "done"]
    <3>1. dispatch[q]["pool"] >= NChunks
      BY <1>0, <1>1, <2>1, <2>7, Members
    <3>2. UNCHANGED <<QueueTask(q), dispatch[q]["pool"]>>
      BY <2>7 DEF QueueTask
    <3>3. s = "done"
      BY <1>0, <1>1, <1>6, <2>4, <2>7
    <3>4. Queue(q)!Exhausted(x)
      BY <2>1, <2>2, <2>4, <2>5, <3>1, <3>2, <3>3 DEF Queue!Exhausted
    <3> QED
      BY <1>6, <3>4 DEF Queue!Next, Queue!LoopStep
  <2> QED
    BY <1>3, <2>6, <2>7
<1> QED
  BY <1>5, <1>6, Members

(* A payload, or its failure, reaches the loop that waits for it.          *)
LEMMA ReceiveQueue ==
  ASSUME ExecInv, NEW q \in Queries, NEW x \in Loops, NEW r \in Queries, Receive(q, x)
  PROVE  [Queue(r)!Next]_(Queue(r)!vars)
<1>0. "pool" \in Paths /\ \A w \in Workers : w \in Loops
  BY Members
<1>1. /\ load \in [Queries -> [Paths -> [Chunks -> LoadStates]]]
      /\ loop \in [Queries -> [Loops -> LoopStates]]
      /\ {"run", "dead"} \subseteq LoopStates \ {"off"}
  BY DEF ExecInv, TypeOK, LoopTypes, LoopStates
<1>2. /\ loop[q][x] = "await" /\ task[q][x] \in Chunks
      /\ UNCHANGED <<step, dispatch, task, partial>>
  BY DEF Receive, queryVars, resultVars, ExecInv, TasksInv, TaskOf
<1>3. PICK m \in Paths, c \in Chunks, s \in {"ready", "pruned", "failed"} :
        m = Path(x) /\ c = task[q][x] /\ s = load[q][m][c]
  BY <1>2, Members DEF Receive, Path
<1>4. /\ loop' = [loop EXCEPT ![q][x] = IF s = "failed" THEN "dead" ELSE "run"]
      /\ load' = IF s = "failed" THEN load ELSE [load EXCEPT ![q][m][c] = "taken"]
  BY <1>3 DEF Receive
<1>5. CASE r # q \/ x = Local
  <2>1. load'[r]["pool"] = load[r]["pool"]
    <3>1. x = Local => m # "pool"
      BY <1>3, Members
    <3> QED
      BY <1>0, <1>1, <1>4, <1>5, <3>1
  <2>2. \A w \in Workers : loop'[r][w] = loop[r][w]
    <3>1. x = Local => x \notin Workers
      BY QueryAssumption
    <3> QED
      BY <1>0, <1>1, <1>4, <1>5, <3>1
  <2>3. PoolSame(r) /\ step'[r] = step[r]
    BY <1>2, <2>1, <2>2 DEF PoolSame
  <2> QED
    BY <2>3, QueueQuiet
<1>6. CASE r = q /\ x \in Workers
  <2>1. m = "pool" /\ QueueLoop(q)[x] = "await" /\ QueueTask(q)[x] = c
    BY <1>2, <1>3, <1>6, Members DEF QueueLoop, QueueTask
  <2>2. UNCHANGED <<QueueTask(q), QueueScanned(q), dispatch[q]["pool"]>>
    BY <1>2 DEF QueueTask, QueueScanned
  <2>3. CASE s = "failed"
    <3>1. loop' = [loop EXCEPT ![q][x] = "dead"] /\ UNCHANGED load
      BY <1>4, <2>3
    <3>2. QueueLoop(q)' = [QueueLoop(q) EXCEPT ![x] = "dead"] /\ loop'[q][x] = "dead"
      BY <1>1, <1>6, <3>1, QueueLoopSet, ZenonT(60)
    <3>3. QueueLoad(q)[c] = "failed"
      BY <1>3, <2>1, <2>3 DEF QueueLoad
    <3>4. UNCHANGED <<QueueLoad(q), QueueBuild(q)>>
      BY <3>1 DEF QueueLoad, QueueBuild
    <3>5. QueueOutcome(q)' = IF QueueOutcome(q) = "running" THEN "rejected" ELSE QueueOutcome(q)
      BY <1>2, <1>6, <3>2, OutcomeRejects
    <3>6. Queue(q)!ReceiveError(x)
      BY <2>1, <2>2, <3>2, <3>3, <3>4, <3>5 DEF Queue!ReceiveError, Queue!Reject
    <3> QED
      BY <1>6, <3>6 DEF Queue!Next, Queue!LoopStep
  <2>4. CASE s # "failed"
    <3>1. loop' = [loop EXCEPT ![q][x] = "run"] /\ load' = [load EXCEPT ![q]["pool"][c] = "taken"]
      BY <1>4, <2>1, <2>4
    <3>2. /\ QueueLoop(q)' = [QueueLoop(q) EXCEPT ![x] = "run"] /\ loop'[q][x] = "run"
          /\ \A v \in Workers \ {x} : loop'[q][v] = loop[q][v]
      BY <1>1, <1>6, <3>1, QueueLoopSet, ZenonT(60)
    <3>3. QueueLoad(q)[c] = "ready" /\ QueueBuild(q) = NChunks
      <4>1. load[q]["pool"][c] \in {"ready", "pruned"}
        BY <1>3, <2>1, <2>4
      <4> QED
        BY <4>1, Prefetched DEF QueueLoad
    <3>4. load'[q]["pool"] = [load[q]["pool"] EXCEPT ![c] = "taken"]
      BY <1>0, <1>1, <3>1
    <3>5. QueueLoad(q)' = [QueueLoad(q) EXCEPT ![c] = "taken"] /\ QueueBuild(q)' = NChunks
      <4>1. load[q]["pool"] \in [Chunks -> LoadStates] /\ \A d \in Chunks : load[q]["pool"][d] # "none"
        BY <1>0, <1>1, <3>3, Prefetched
      <4>2. load'[q]["pool"][c] = "taken" /\ \A d \in Chunks \ {c} : load'[q]["pool"][d] = load[q]["pool"][d]
        BY <3>4, <4>1
      <4>3. load'[q]["pool"][0] # "none"
        BY <4>1, <4>2, Prefetched
      <4> QED
        BY <4>2, <4>3 DEF QueueLoad, QueueBuild
    <3>6. Queue(q)!Stage([QueueLoad(q) EXCEPT ![QueueTask(q)[x]] = "taken"])
      <4>1. PICK ld : ld = [QueueLoad(q) EXCEPT ![c] = "taken"]
        OBVIOUS
      <4>2. ld = [d \in Chunks |-> ld[d]]
        BY <4>1 DEF QueueLoad
      <4>3. QueueLoad(q)' = [d \in Chunks |-> IF QueueBuild(q) = 0 THEN "loading" ELSE ld[d]]
        <5>1. QueueBuild(q) # 0
          BY <3>3, Members
        <5>2. QueueLoad(q)' = ld
          BY <3>5, <4>1
        <5> QED
          BY <4>2, <5>1, <5>2
      <4>4. Queue(q)!Stage(ld)
        BY <3>3, <3>5, <4>3, Stages
      <4> QED
        BY <2>1, <4>1, <4>4
    <3>7. QueueOutcome(q)' = QueueOutcome(q)
      BY <1>2, <1>6, <3>2, OutcomeKept
    <3>8. Queue(q)!Receive(x)
      BY <2>1, <2>2, <3>2, <3>3, <3>6, <3>7 DEF Queue!Receive
    <3> QED
      BY <1>6, <3>8 DEF Queue!Next, Queue!LoopStep
  <2> QED
    BY <2>3, <2>4
<1> QED
  BY <1>5, <1>6, Members

(* A loop gets the partial of its chunk.                                   *)
Gets(q, w, c, p) ==
  /\ loop[q][w] = "run" /\ task[q][w] = c
  /\ partial' = [partial EXCEPT ![q][c] = p]
  /\ loop' = [loop EXCEPT ![q][w] = "next"]
  /\ task' = [task EXCEPT ![q][w] = None]
  /\ UNCHANGED <<step, dispatch, load>>

(* That is Run of the queue of its query, and shows in no other queue.     *)
LEMMA RunQueue ==
  ASSUME ExecInv, NEW q \in Queries, NEW w \in Workers, NEW c \in Chunks, NEW p \in Planners,
         NEW r \in Queries, Gets(q, w, c, p)
  PROVE  [Queue(r)!Next]_(Queue(r)!vars)
<1>1. TypeOK /\ "next" \in LoopStates \ {"off"} /\ None \in Chunks \cup {None}
  BY DEF ExecInv, LoopStates
<1>2. loop[q][w] = "run" /\ task[q][w] = c /\ UNCHANGED <<step, dispatch, load>>
  BY DEF Gets
<1>3. loop' = [loop EXCEPT ![q][w] = "next"]
  BY DEF Gets
<1>4. task' = [task EXCEPT ![q][w] = None]
  BY DEF Gets
<1>5. partial' = [partial EXCEPT ![q][c] = p]
  BY DEF Gets
<1>6. /\ QueueLoop(q)' = [QueueLoop(q) EXCEPT ![w] = "next"] /\ loop'[q][w] = "next"
      /\ \A v \in Workers \ {w} : loop'[q][v] = loop[q][v]
      /\ \A u \in Queries \ {q} : \A v \in Workers : loop'[u][v] = loop[u][v]
  <2>1. loop \in [Queries -> [Loops -> LoopStates]] /\ w \in Loops /\ Workers \subseteq Loops
    BY <1>1, Members DEF TypeOK, LoopTypes
  <2>2. /\ loop'[q][w] = "next" /\ \A v \in Workers \ {w} : loop'[q][v] = loop[q][v]
        /\ \A u \in Queries \ {q} : loop'[u] = loop[u]
    BY <1>3, <2>1
  <2>3. QueueLoop(q)' = [QueueLoop(q) EXCEPT ![w] = "next"]
    BY <2>2 DEF QueueLoop
  <2> QED
    BY <2>2, <2>3
<1>7. /\ QueueTask(q)' = [QueueTask(q) EXCEPT ![w] = None]
      /\ \A u \in Queries \ {q} : \A v \in Workers : task'[u][v] = task[u][v]
  BY <1>1, <1>4, QueueTaskSet
<1>8. /\ partial'[q][c] = p /\ p # None
      /\ \A d \in Chunks : d # c => partial'[q][d] = partial[q][d]
      /\ \A u \in Queries \ {q} : partial'[u] = partial[u]
  <2>1. partial \in [Queries -> [Chunks -> Planners \cup {None}]]
    BY <1>1 DEF TypeOK, LoopTypes
  <2>2. /\ partial'[q][c] = p /\ p # None
        /\ \A u \in Queries, d \in Chunks : u # q \/ d # c => partial'[u][d] = partial[u][d]
    BY <1>1, <1>5, PartialSet, ZenonT(60)
  <2>3. \A u \in Queries \ {q} : partial'[u] = partial[u]
    BY <1>5, <2>1
  <2> QED
    BY <2>2, <2>3
<1>9. CASE r # q
  <2>1. PoolSame(r) /\ step'[r] = step[r]
    BY <1>6, <1>7, <1>8, <1>9, <1>2 DEF PoolSame
  <2> QED
    BY <2>1, QueueQuiet
<1>10. CASE r = q
  <2>1. QueueScanned(q)' = QueueScanned(q) \cup {c}
    BY <1>8 DEF QueueScanned
  <2>2. QueueOutcome(q)' = QueueOutcome(q)
    BY <1>6, <1>2, OutcomeKept
  <2>3. UNCHANGED <<QueueBuild(q), QueueLoad(q), dispatch[q]["pool"]>>
    BY <1>2 DEF QueueBuild, QueueLoad
  <2>4. QueueLoop(q)[w] = "run" /\ QueueTask(q)[w] = c
    BY <1>2 DEF QueueLoop, QueueTask
  <2>5. Queue(q)!Run(w)
    BY <1>6, <1>7, <2>1, <2>2, <2>3, <2>4 DEF Queue!Run
  <2> QED
    BY <1>10, <2>5 DEF Queue!Next, Queue!LoopStep
<1> QED
  BY <1>9, <1>10

(* A pruned chunk runs without asking the worker.                          *)
LEMMA EmptyQueue ==
  ASSUME ExecInv, NEW q \in Queries, NEW x \in Loops, NEW r \in Queries, EmptyPartial(q, x)
  PROVE  [Queue(r)!Next]_(Queue(r)!vars)
<1>1. PICK c \in Chunks : c = task[q][x]
  BY DEF EmptyPartial, ExecInv, TasksInv, TaskOf
<1>2. x \in Workers /\ Gets(q, x, c, q)
  BY <1>1 DEF EmptyPartial, Gets, queryVars
<1>3. q \in Planners
  BY DEF Planners
<1> QED
  BY <1>1, <1>2, <1>3, RunQueue

(* A result runs the chunk it names, when that is still pending.           *)
LEMMA ResultQueue ==
  ASSUME ExecInv, NEW w \in Workers, NEW r \in Queries, OnResult(w)
  PROVE  [Queue(r)!Next]_(Queue(r)!vars)
<1> DEFINE msg == Head(outbox[w])
<1>1. /\ outbox[w] # <<>> /\ outbox' = [outbox EXCEPT ![w] = Tail(@)] /\ msg.type = "result"
      /\ UNCHANGED <<step, dispatch, load>>
  BY DEF OnResult, queryVars
<1>2. msg \in Messages
  BY <1>1, Taken DEF ExecInv, TypeOK, OnResult
<1>3. PICK q \in Queries, c \in Chunks, p \in Planners :
        msg.by = q /\ msg.chunk = c /\ msg.under = p
  BY <1>1, <1>2 DEF Messages
<1>4. IF <<q, c>> \in pending[w]
        THEN /\ partial' = [partial EXCEPT ![q][c] = p]
             /\ loop' = [loop EXCEPT ![q][w] = "next"]
             /\ task' = [task EXCEPT ![q][w] = None]
        ELSE UNCHANGED <<partial, loop, task>>
  BY <1>3 DEF OnResult, Entry
<1> HIDE DEF msg
<1>5. CASE <<q, c>> \in pending[w]
  <2>1. task[q][w] = c /\ loop[q][w] = "run"
    BY <1>5 DEF ExecInv, FlightInv, FlightOf
  <2>2. Gets(q, w, c, p)
    BY <1>1, <1>4, <1>5, <2>1 DEF Gets
  <2> QED
    BY <2>2, RunQueue
<1>6. CASE <<q, c>> \notin pending[w]
  BY <1>1, <1>4, <1>6, OthersQueue
<1> QED
  BY <1>5, <1>6

(* A failed task ends its loop.                                            *)
LEMMA ErrorQueue ==
  ASSUME ExecInv, NEW w \in Workers, NEW r \in Queries, OnError(w)
  PROVE  [Queue(r)!Next]_(Queue(r)!vars)
<1>1. /\ loop' = [q \in Queries |->
                    IF <<q, task[q][w]>> \in pending[w]
                      THEN [loop[q] EXCEPT ![w] = "dead"] ELSE loop[q]]
      /\ UNCHANGED <<step, dispatch, load, task, partial>>
  BY DEF OnError, queryVars, resultVars
<1>2. /\ loop[r] \in [Loops -> LoopStates] /\ \A v \in Workers : v \in Loops
      /\ pending[w] \subseteq Queries \X Chunks
  BY Members DEF ExecInv, TypeOK, LoopTypes, HandleTypes
<1>3. CASE <<r, task[r][w]>> \notin pending[w]
  <2>1. loop'[r] = loop[r]
    BY <1>1, <1>3
  <2> QED
    BY <1>1, <2>1, OthersQueue
<1>4. CASE <<r, task[r][w]>> \in pending[w]
  <2>1. loop[r][w] = "run" /\ task[r][w] \in Chunks
    BY <1>2, <1>4 DEF ExecInv, FlightInv, FlightOf
  <2>2. loop'[r][w] = "dead" /\ \A v \in Workers \ {w} : loop'[r][v] = loop[r][v]
    BY <1>1, <1>2, <1>4
  <2>3. QueueLoop(r)' = [QueueLoop(r) EXCEPT ![w] = "dead"] /\ QueueLoop(r)[w] = "run"
    BY <2>1, <2>2 DEF QueueLoop
  <2>4. QueueOutcome(r)' = IF QueueOutcome(r) = "running" THEN "rejected" ELSE QueueOutcome(r)
    BY <2>1, <2>2, OutcomeRejects
  <2>5. UNCHANGED <<QueueBuild(r), QueueLoad(r), QueueTask(r), QueueScanned(r), dispatch[r]["pool"]>>
    BY <1>1 DEF QueueBuild, QueueLoad, QueueTask, QueueScanned
  <2>6. Queue(r)!RunError(w)
    BY <2>3, <2>4, <2>5 DEF Queue!RunError, Queue!Reject
  <2> QED
    BY <2>6 DEF Queue!Next, Queue!LoopStep
<1> QED
  BY <1>3, <1>4

(* The local loop executes a chunk, or fails.                              *)
LEMMA LocalQueue ==
  ASSUME ExecInv, NEW q \in Queries, NEW r \in Queries, LocalStep(q)
  PROVE  UNCHANGED Queue(r)!vars
<1>1. /\ \A w \in Workers : w \in Loops /\ w # Local
      /\ loop \in [Queries -> [Loops -> LoopStates]]
      /\ task \in [Queries -> [Loops -> Chunks \cup {None}]]
  BY Members DEF ExecInv, TypeOK, LoopTypes
<1>2. /\ UNCHANGED <<step, dispatch, load, partial>>
      /\ \E s : loop' = [loop EXCEPT ![q][Local] = s]
      /\ UNCHANGED task \/ task' = [task EXCEPT ![q][Local] = None]
  BY DEF LocalStep, ExecLocal, ExecLocalFails, queryVars, resultVars
<1>3. \A w \in Workers : loop'[r][w] = loop[r][w] /\ task'[r][w] = task[r][w]
  BY <1>1, <1>2
<1> QED
  BY <1>2, <1>3, OthersQueue

(* Before the query asks, its scan has not begun.                          *)
LEMMA InitQueue ==
  ASSUME Init, NEW q \in Queries
  PROVE  Queue(q)!Init
<1>1. /\ dispatch[q]["pool"] = 0
      /\ \A c \in Chunks : load[q]["pool"][c] = "none" /\ partial[q][c] = None
      /\ \A w \in Workers : loop[q][w] = "off" /\ task[q][w] = None
      /\ step[q] = "none"
  BY Members DEF Init
<1>2. 0 \in Chunks
  BY Members DEF Chunks
<1>3. QueueBuild(q) = 0 /\ QueueLoad(q) = [c \in Chunks |-> "none"]
  BY <1>1, <1>2 DEF QueueBuild, QueueLoad
<1>4. QueueLoop(q) = [w \in Workers |-> "next"] /\ QueueTask(q) = [w \in Workers |-> None]
  BY <1>1 DEF QueueLoop, QueueTask
<1>5. QueueScanned(q) = {}
  BY <1>1 DEF QueueScanned
<1>6. QueueOutcome(q) = "running"
  BY <1>1, OutcomeIs DEF OutcomeOf, Resolved
<1> QED
  BY <1>1, <1>3, <1>4, <1>5, <1>6 DEF Queue!Init, Queue!Chunks, Chunks

(* Every step is a step of the queue of each query, or does not show in    *)
(* it.                                                                     *)
LEMMA QueueStep ==
  ASSUME ExecInv, ExecInv', [Next]_vars, NEW r \in Queries
  PROVE  [Queue(r)!Next]_(Queue(r)!vars)
<1>1. ASSUME NEW q \in Queries, Ask(q) \/ Invalid(q) \/ QueryStep(q) \/ LocalStep(q)
      PROVE  [Queue(r)!Next]_(Queue(r)!vars)
  BY <1>1, CallQueue, ScanQueue, LocalQueue DEF QueryStep
<1>2. ASSUME NEW q \in Queries, NEW x \in Loops, LoopStep(q, x)
      PROVE  [Queue(r)!Next]_(Queue(r)!vars)
  BY <1>2, ClaimQueue, ReceiveQueue, EmptyQueue DEF LoopStep
<1>3. ASSUME NEW q \in Queries, NEW m \in Paths, NEW c \in Chunks, LoadStep(q, m, c)
      PROVE  [Queue(r)!Next]_(Queue(r)!vars)
  BY <1>3, LoadQueue
<1>4. ASSUME NEW w \in Workers, OnError(w) \/ OnResult(w)
      PROVE  [Queue(r)!Next]_(Queue(r)!vars)
  BY <1>4, ErrorQueue, ResultQueue
<1>5. ASSUME NEW w \in Workers, WorkerStep(w) \/ OnPlanned(w) \/ Crash(w)
      PROVE  UNCHANGED Queue(r)!vars
  BY <1>5, OthersQueue DEF WorkerStep, HandlePlan, HandleTask, OnPlanned, Crash, queryVars, loopVars,
     resultVars
<1>6. ASSUME NEW p \in Warmers, WarmStart(p) \/ WarmEnd(p)
      PROVE  UNCHANGED Queue(r)!vars
  BY <1>6, OthersQueue DEF WarmStart, WarmEnd, queryVars, loopVars, resultVars
<1>7. CASE UNCHANGED vars
  BY <1>7, OthersQueue DEF vars, queryVars, loopVars, resultVars
<1> QED
  BY <1>1, <1>2, <1>3, <1>4, <1>5, <1>6, <1>7 DEF Next, HandleStep

(* The pool loops of every query behave as one ChunkQueue, for any number  *)
(* of queries and workers and whatever faults happen: what is proved of    *)
(* the queue (each chunk is claimed by one loop, a scan that resolves is   *)
(* complete) holds of every query on the shared pool, also of the loops    *)
(* of a query that has long been answered.                                 *)
THEOREM ImplementsQueues == Spec => QueuesRespected
<1>1. Init => \A q \in Queries : Queue(q)!Init
  BY InitQueue
<1>2. ExecInv /\ ExecInv' /\ [Next]_vars =>
        [\A q \in Queries : [Queue(q)!Next]_(Queue(q)!vars)]_vars
  BY QueueStep
<1> QED
  BY <1>1, <1>2, ExecInductive, PTL DEF Spec, QueuesRespected
=============================================================================
