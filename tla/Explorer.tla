------------------------------ MODULE Explorer ------------------------------
(***************************************************************************)
(* The explorer: a page whose client sends one message at a time to a      *)
(* worker, and the worker's event pipelines, which run the engine and its  *)
(* effects (open a file, warm the workers, query) until no event is left.  *)
(*                                                                         *)
(* The worker's handler is asynchronous: a second message is taken up while*)
(* the first is still awaiting an effect.  The client's queue keeps that   *)
(* from happening, until an error event clears the queue with a reply      *)
(* still under way.                                                        *)
(***************************************************************************)
EXTENDS ExplorerEngine, FiniteSets

CONSTANTS UserEvents,   \* what the page's controls and its address bar dispatch
          MaxJobs,      \* bound on messages, the initial one included
          MaxErrors,    \* bound on error events
          MaxThrows     \* bound on workers that fail to warm

ASSUME ExplorerAssumption ==
  /\ \A e \in UserEvents : UserEvent(e)
  /\ MaxJobs \in Nat \ {0} /\ MaxErrors \in Nat /\ MaxThrows \in Nat

VARIABLES jobs, busy, view, ready, pageError,   \* the page and its client
          toWorker, toPage,                     \* messages under way
          pipes, eng, store,                    \* the worker
          outcome, errors, thrown, asked        \* history

page == <<jobs, busy, view, ready, pageError>>
worker == <<pipes, eng, store>>
vars == <<jobs, busy, view, ready, pageError, toWorker, toPage, pipes, eng, store,
          outcome, errors, thrown, asked>>

JobIds == 1..MaxJobs

\* What a query effect runs: the draft it carries, or a preset.
Plan(f) == IF f.type = "RunPreset" THEN f.preset ELSE f.draft
Runs(fx) == {i \in DOMAIN fx : fx[i].type \in {"RunQueryDraft", "RunPreset"}}

Sent == {i \in JobIds : outcome[i] # "none"}
NextId == Cardinality(Sent) + 1
NoFile == [file |-> None, warmed |-> None]
InitJob == [id |-> 1, kind |-> "init", event |-> [type |-> "Init"]]

Init ==
  /\ jobs = <<InitJob>> /\ busy = TRUE /\ toWorker = <<InitJob>>
  /\ view = None /\ ready = FALSE /\ pageError = FALSE
  /\ toPage = <<>> /\ pipes = <<>> /\ eng = Initial /\ store = NoFile
  /\ outcome = [i \in JobIds |-> IF i = 1 THEN "pending" ELSE "none"]
  /\ errors = 0 /\ thrown = 0 /\ asked = None

----------------------------------------------------------------------------
(* The client.  pump posts the first job when none is being answered.      *)

\* Seeded fault: pump posts without looking at busy.
Pump_Always(queue, idle) ==
  IF queue # <<>> THEN toWorker' = Append(toWorker, Head(queue)) /\ busy' = TRUE
  ELSE toWorker' = toWorker /\ busy' = ~idle

Pump(queue, idle) ==
  IF idle /\ queue # <<>> THEN toWorker' = Append(toWorker, Head(queue)) /\ busy' = TRUE
  ELSE toWorker' = toWorker /\ busy' = ~idle

Job(id, kind, e) == [id |-> id, kind |-> kind, event |-> e]

Enqueue(kind, e) ==
  /\ NextId <= MaxJobs
  /\ jobs' = Append(jobs, Job(NextId, kind, e))
  /\ Pump(jobs', ~busy)
  /\ outcome' = [outcome EXCEPT ![NextId] = "pending"]

\* The controls are there once the engine is up and until an error replaces
\* the whole view; the address bar works at any time.
Dispatch(e) ==
  /\ e.type = "WorkspaceHydrate" \/ (ready /\ ~pageError)
  /\ IF e.type = "OpenFile"
       THEN Enqueue("openFile", [type |-> "OpenSource", source |-> e.file])
       ELSE Enqueue("event", e)
  /\ UNCHANGED <<view, ready, pageError, toPage, worker, errors, thrown, asked>>

\* onmessage: the first job is answered with whatever reply comes first.  When
\* a file chosen by the user is rejected, the page reports it to the engine.
OnMessage ==
  /\ toPage # <<>>
  /\ toPage' = Tail(toPage)
  /\ LET reply == Head(toPage)
         job == Head(jobs)
         rest == Tail(jobs)
         report == reply.kind = "error" /\ job.kind = "openFile" /\ NextId <= MaxJobs
         queue == IF report THEN Append(rest, Job(NextId, "event", [type |-> "QueryFailed"]))
                            ELSE rest
         settled == [outcome EXCEPT ![job.id] =
                       IF reply.kind = "error" THEN "rejected"
                       ELSE IF reply.id = job.id THEN "own" ELSE "foreign"]
     IN  IF jobs = <<>>
           THEN busy' = FALSE /\ UNCHANGED <<jobs, toWorker, view, ready, pageError, outcome>>
           ELSE /\ jobs' = queue
                /\ Pump(queue, TRUE)
                /\ view' = IF reply.kind = "error" THEN view ELSE reply.view
                /\ ready' = (ready \/ (reply.kind # "error" /\ job.kind = "init"))
                /\ pageError' = (pageError \/ (reply.kind = "error" /\ job.kind # "openFile"))
                /\ outcome' = IF report THEN [settled EXCEPT ![NextId] = "pending"] ELSE settled
  /\ UNCHANGED <<worker, errors, thrown, asked>>

\* onerror with the worker alive: every job is rejected and the queue cleared.
\* The window hears of the error as well and tells the engine that no file
\* could be opened; chosen files report their rejection.
OnError ==
  /\ errors < MaxErrors
  /\ errors' = errors + 1
  /\ LET opens == Cardinality({k \in DOMAIN jobs : jobs[k].kind = "openFile"})
         room == MaxJobs - Cardinality(Sent)
         report(i) == IF i <= opens THEN [type |-> "QueryFailed"] ELSE [type |-> "FileOpenFailed"]
         queue == [i \in 1..(IF opens < room THEN opens + 1 ELSE room) |->
                     Job(NextId + i - 1, "event", report(i))]
     IN  /\ jobs' = queue
         /\ Pump(queue, TRUE)
         /\ outcome' = [i \in JobIds |->
                          IF \E k \in DOMAIN jobs : jobs[k].id = i THEN "rejected"
                          ELSE IF \E k \in DOMAIN queue : queue[k].id = i THEN "pending"
                          ELSE outcome[i]]
  /\ pageError' = (pageError \/ \E k \in DOMAIN jobs : jobs[k].kind # "openFile")
  /\ UNCHANGED <<view, ready, toPage, worker, thrown, asked>>

----------------------------------------------------------------------------
(* The worker.  A pipe is one run of the asynchronous message handler: the *)
(* events it still has to give the engine, the effects of the last one,    *)
(* and the file an effect under way has taken from the store.              *)

Answer(id, kind, v) == toPage' = Append(toPage, [id |-> id, kind |-> kind, view |-> v])
DropPipe(p) == pipes' = [q \in DOMAIN pipes \ {p} |-> pipes[q]]
NoEffect == [on |-> FALSE, file |-> None]

Receive ==
  /\ toWorker # <<>>
  /\ toWorker' = Tail(toWorker)
  /\ LET m == Head(toWorker)
         pipe == [queue |-> IF m.kind = "event" THEN <<m.event>> ELSE <<>>,
                  effects |-> IF m.kind = "openFile" THEN <<m.event>> ELSE <<>>,
                  effect |-> NoEffect, view |-> None]
     IN  IF m.kind = "init"
           THEN /\ eng' = Reset(eng)
                /\ Answer(m.id, "initialized", ViewModel(eng'))
                /\ UNCHANGED pipes
           ELSE /\ pipes' = [q \in DOMAIN pipes \cup {m.id} |->
                               IF q = m.id THEN pipe ELSE pipes[q]]
                /\ UNCHANGED <<eng, toPage>>
  /\ UNCHANGED <<page, store, outcome, errors, thrown, asked>>

\* runPipeline: the next event goes through the engine once the effects of
\* the one before it are done.
Handle(p) ==
  /\ pipes[p].effects = <<>> /\ pipes[p].queue # <<>>
  /\ LET h == HandleEvent(eng, Head(pipes[p].queue))
         runs == {Plan(h.effects[i]) : i \in Runs(h.effects)}
     IN  /\ eng' = h.state
         /\ pipes' = [pipes EXCEPT ![p].queue = Tail(@), ![p].effects = h.effects,
                                   ![p].view = ViewModel(h.state)]
         /\ asked' = IF runs = {} THEN asked ELSE CHOOSE plan \in runs : TRUE
  /\ UNCHANGED <<page, toWorker, toPage, store, outcome, errors, thrown>>

Finish(p) ==
  /\ pipes[p].effects = <<>> /\ pipes[p].queue = <<>>
  /\ Answer(p, "response", pipes[p].view)
  /\ DropPipe(p)
  /\ UNCHANGED <<page, toWorker, eng, store, outcome, errors, thrown, asked>>

----------------------------------------------------------------------------
(* Effects.  Each reads the store before its first await.                  *)

EffectDone(p, events) ==
  pipes' = [pipes EXCEPT ![p].queue = @ \o events, ![p].effects = Tail(@),
                         ![p].effect = NoEffect]

\* Without a file a query and a crate's detail fail at once, warming does nothing.
WithoutFile(type) ==
  CASE type = "WarmWorkers" -> <<>>
    [] type = "LoadCrateDetail" -> <<[type |-> "CrateDetailFailed"]>>
    [] OTHER -> <<[type |-> "QueryFailed"]>>

StartEffect(p) ==
  /\ pipes[p].effects # <<>> /\ ~pipes[p].effect.on
  /\ LET f == Head(pipes[p].effects)
         under == [on |-> TRUE, file |-> store.file]
     IN  CASE f.type = "OpenSource" ->
                /\ store' = NoFile
                /\ pipes' = [pipes EXCEPT ![p].effect = under]
           [] f.type # "OpenSource" /\ store.file = None ->
                EffectDone(p, WithoutFile(f.type)) /\ UNCHANGED store
           [] OTHER ->
                pipes' = [pipes EXCEPT ![p].effect = under] /\ UNCHANGED store
  /\ UNCHANGED <<page, toWorker, toPage, eng, outcome, errors, thrown, asked>>

\* openSource: whatever fails leaves the store empty.
OpenSource(p) ==
  /\ pipes[p].effect.on /\ Head(pipes[p].effects).type = "OpenSource"
  /\ LET file == Head(pipes[p].effects).source
     IN  \/ store' = [file |-> file, warmed |-> None]
            /\ EffectDone(p, <<[type |-> "FileOpened", file |-> file]>>)
         \/ store' = NoFile
            /\ EffectDone(p, <<[type |-> "FileOpenFailed"]>>)
  /\ UNCHANGED <<page, toWorker, toPage, eng, outcome, errors, thrown, asked>>

Queries == {"RunQueryDraft", "RunPreset", "LoadCrateDetail"}

QueryAnswer(f, file) ==
  IF f.type = "LoadCrateDetail"
    THEN [type |-> "CrateDetailDone", detail |-> [crate |-> f.crate, file |-> file]]
    ELSE [type |-> "QueryDone", result |-> [plan |-> Plan(f), file |-> file]]

\* A query warms the workers first when the store says they are not; either
\* part may throw, and the handler turns that into a failure event.
Query(p) ==
  /\ pipes[p].effect.on /\ Head(pipes[p].effects).type \in Queries
  /\ LET f == Head(pipes[p].effects)
     IN  \/ store' = [store EXCEPT !.warmed = f.workers]
            /\ EffectDone(p, <<QueryAnswer(f, pipes[p].effect.file)>>)
         \/ store' \in {store, [store EXCEPT !.warmed = f.workers]}
            /\ EffectDone(p, WithoutFile(f.type))
  /\ UNCHANGED <<page, toWorker, toPage, eng, outcome, errors, thrown, asked>>

Warm(p) ==
  /\ pipes[p].effect.on /\ Head(pipes[p].effects).type = "WarmWorkers"
  /\ store' = [store EXCEPT !.warmed = Head(pipes[p].effects).workers]
  /\ EffectDone(p, <<[type |-> "WorkersWarmed"]>>)
  /\ UNCHANGED <<page, toWorker, toPage, eng, outcome, errors, thrown, asked>>

\* Warming on its own has no handler around it: the throw ends the pipeline,
\* and the effects after it, the first query among them, never run.
\* Seeded fault: the handler has no catch, and the throw gives no reply.
WarmThrows_NoReply(p) ==
  /\ pipes[p].effect.on /\ Head(pipes[p].effects).type = "WarmWorkers"
  /\ store.warmed # Head(pipes[p].effects).workers
  /\ thrown < MaxThrows
  /\ thrown' = thrown + 1
  /\ DropPipe(p)
  /\ UNCHANGED <<page, toWorker, toPage, eng, store, outcome, errors, asked>>

WarmThrows(p) ==
  /\ pipes[p].effect.on /\ Head(pipes[p].effects).type = "WarmWorkers"
  /\ store.warmed # Head(pipes[p].effects).workers
  /\ thrown < MaxThrows
  /\ thrown' = thrown + 1
  /\ Answer(p, "error", None)
  /\ DropPipe(p)
  /\ UNCHANGED <<page, toWorker, eng, store, outcome, errors, asked>>

----------------------------------------------------------------------------

PipeStep(p) == Handle(p) \/ Finish(p) \/ StartEffect(p) \/ OpenSource(p) \/ Query(p) \/ Warm(p)

Next ==
  \/ \E e \in UserEvents : Dispatch(e)
  \/ OnMessage
  \/ OnError
  \/ Receive
  \/ \E p \in DOMAIN pipes : PipeStep(p) \/ WarmThrows(p)

\* The event loops of the page and of the worker run; every open, warm-up and
\* query ends.
Fairness ==
  /\ WF_vars(OnMessage) /\ WF_vars(Receive)
  /\ \A p \in JobIds : WF_vars(p \in DOMAIN pipes /\ (PipeStep(p) \/ WarmThrows(p)))

Spec == Init /\ [][Next]_vars /\ Fairness

----------------------------------------------------------------------------
(* Properties.                                                             *)

Idle == pipes = <<>> /\ toWorker = <<>>
Quiet == Idle /\ jobs = <<>> /\ toPage = <<>>

\* The client pairs replies with jobs by their order alone: no promise is
\* settled with another message's answer unless an error event cleared the
\* queue while a reply was under way.
AnswersOwnJob == errors = 0 => \A i \in JobIds : outcome[i] # "foreign"

\* What is shown as the result of the last run is that run's answer, over the
\* file the engine believes to be open: no earlier answer is shown instead.
DoneShowsLatestRun ==
  (errors = 0 /\ eng.query = "Done") => eng.result = [plan |-> asked, file |-> eng.meta]

\* With no work left in the worker no phase still promises some: nothing is
\* Loading or Running for ever, and nothing Warming unless an error event let
\* two opens overlap: then a warm-up may find the store empty, and no event
\* ends its phase.  A warm-up that throws is the other exception.
PhasesSettle ==
  (Idle /\ thrown = 0) =>
     /\ eng.load # "Loading" /\ eng.detailPhase # "Loading" /\ eng.query # "Running"
     /\ errors = 0 => eng.query # "Warming"

\* The engine says Ready exactly of the file the worker has open.
ReadyMeansOpen == (Idle /\ errors = 0 /\ eng.load = "Ready") => store.file = eng.meta

\* The detail next to a selected crate is that crate's, and a plan kept from
\* the last run is never shown for another draft.
DetailOfSelection ==
  (errors = 0 /\ eng.detailPhase = "Ready" /\ eng.selected # None) => eng.detail.crate = eng.selected
PreviewFresh == eng.built # None => eng.built = eng.draft

\* When everything has been answered the page shows the engine's state.
ViewFollowsEngine == (Quiet /\ errors = 0 /\ thrown = 0 /\ ready) => view = ViewModel(eng)

\* The page tells the truth: results, phases, details and previews are of the latest run,
\* the open file, the selected crate and the current draft, although the events that bring
\* them carry no query number and arrive long after they were asked for.
ShowsTheTruth ==
  DoneShowsLatestRun /\ PhasesSettle /\ ReadyMeansOpen /\ DetailOfSelection /\ PreviewFresh /\ ViewFollowsEngine

\* Undo and redo move a cursor along one timeline of workspaces: neither
\* loses, repeats or reorders a workspace, whatever has changed in between.
Timeline(s) ==
  LET redo == s.history.redo
      n == Len(redo)
  IN  s.history.undo \o <<Snapshot(s)>> \o [i \in 1..n |-> redo[n + 1 - i]]

UndoKeepsTimeline ==
  [][\A p \in DOMAIN pipes :
       (Handle(p) /\ Head(pipes[p].queue).type \in {"Undo", "Redo"}) => Timeline(eng') = Timeline(eng)]_vars

\* Every message the page sends is answered or rejected in the end, error
\* events and failing effects included.
JobsSettle == \A i \in JobIds : outcome[i] = "pending" ~> outcome[i] # "pending"

----------------------------------------------------------------------------
(* What holds at every step, and why the properties above do.              *)

\* What the page asks of the engine, its reports of failures included.
Requests ==
  {e \in UserEvents : e.type # "OpenFile"} \cup [type : {"QueryFailed", "FileOpenFailed"}]
Events == Requests \cup AnswerEvents

Jobs ==
  [id : JobIds, kind : {"init"}, event : {[type |-> "Init"]}]
  \cup [id : JobIds, kind : {"event"}, event : Requests]
  \cup [id : JobIds, kind : {"openFile"}, event : [type : {"OpenSource"}, source : Files]]

MaybeView == ViewStates \cup {None}
Replies == [id : JobIds, kind : {"initialized", "response", "error"}, view : MaybeView]
Pipes ==
  [queue : Seq(Events), effects : Seq(Effects),
   effect : [on : BOOLEAN, file : MaybeFile], view : MaybeView]

TypeOK ==
  /\ jobs \in Seq(Jobs) /\ busy \in BOOLEAN /\ view \in MaybeView
  /\ ready \in BOOLEAN /\ pageError \in BOOLEAN
  /\ toWorker \in Seq(Jobs) /\ toPage \in Seq(Replies)
  /\ DOMAIN pipes \subseteq JobIds /\ pipes \in [DOMAIN pipes -> Pipes]
  /\ eng \in EngineStates
  /\ store \in [file : MaybeFile, warmed : WorkerCounts \cup {None}]
  /\ outcome \in [JobIds -> {"none", "pending", "own", "foreign", "rejected"}]
  /\ errors \in Nat /\ thrown \in Nat /\ asked \in Drafts \cup Presets \cup {None}

\* Messages are numbered one after the other and taken up in that order, so no
\* pipeline is ever started over another.
IdsInv ==
  /\ \E n \in JobIds : Sent = 1..n
  /\ \A k \in DOMAIN jobs : jobs[k].id \in Sent
  /\ \A k \in DOMAIN toWorker : toWorker[k].id \in Sent
  /\ DOMAIN pipes \subseteq Sent
  /\ \A i, k \in DOMAIN jobs : i < k => jobs[i].id < jobs[k].id
  /\ \A i, k \in DOMAIN toWorker : i < k => toWorker[i].id < toWorker[k].id
  /\ \A k \in DOMAIN toWorker : \A p \in DOMAIN pipes : p < toWorker[k].id
  /\ \A k \in DOMAIN jobs \ {1} :
       /\ \A i \in DOMAIN toWorker : toWorker[i].id < jobs[k].id
       /\ \A p \in DOMAIN pipes : p < jobs[k].id
  /\ busy <=> jobs # <<>>

\* A pipeline awaits one answer at most, after those that only say that the
\* workers are warm: nothing a user asked for overtakes an answer.
OrderInv ==
  \A p \in DOMAIN pipes :
    LET q == pipes[p].queue
        fx == pipes[p].effects
    IN  /\ \A i \in DOMAIN fx : i < Len(fx) => fx[i].type = "WarmWorkers"
        /\ \A i \in DOMAIN q : (i < Len(q) \/ fx # <<>>) => q[i].type = "WorkersWarmed"
        /\ pipes[p].effect.on => fx # <<>>

\* Some pipeline still has one of these effects to run or one of their answers
\* to hand over.
Awaits(types, answers) ==
  \E p \in DOMAIN pipes :
    \/ \E i \in DOMAIN pipes[p].effects : pipes[p].effects[i].type \in types
    \/ \E i \in DOMAIN pipes[p].queue : pipes[p].queue[i].type \in answers

Opening == Awaits({"OpenSource"}, {"FileOpened", "FileOpenFailed"})

PhaseInv ==
  thrown = 0 =>
    /\ eng.load = "Loading" => Opening
    /\ eng.query = "Running" => Awaits({"RunQueryDraft", "RunPreset"}, {"QueryDone", "QueryFailed"})
    /\ eng.detailPhase = "Loading" => Awaits({"LoadCrateDetail"}, {"CrateDetailDone", "CrateDetailFailed"})
    /\ (errors = 0 /\ eng.query = "Warming") => Awaits({"WarmWorkers"}, {"WorkersWarmed"})

\* Until an error event the first job is in one place: on its way, in its
\* pipeline, or answered.
SingleFlight ==
  errors = 0 =>
    /\ Len(toWorker) + Cardinality(DOMAIN pipes) + Len(toPage) = (IF busy THEN 1 ELSE 0)
    /\ \A k \in DOMAIN toWorker : toWorker[k] = jobs[1]
    /\ \A p \in DOMAIN pipes : p = jobs[1].id
    /\ \A k \in DOMAIN toPage : toPage[k].id = jobs[1].id

\* Until an error event what a pipeline runs and what it hands over is about
\* the latest run, the open file and the selected crate.
FreshPipe(q) ==
  /\ q.view = ViewModel(eng) \/ q.queue # <<>> \/ \E i \in DOMAIN q.effects : q.effects[i].type = "OpenSource"
  /\ \A i \in Runs(q.effects) : Plan(q.effects[i]) = asked /\ store.file = eng.meta
  /\ \A i \in DOMAIN q.effects :
       /\ q.effects[i].type = "LoadCrateDetail" => q.effects[i].crate = eng.selected
       /\ q.effects[i].type = "WarmWorkers" => store.file = eng.meta /\ eng.meta \in Files
  /\ (q.effect.on /\ Head(q.effects).type \in {"RunQueryDraft", "RunPreset"}) => q.effect.file = eng.meta
  /\ \A i \in DOMAIN q.queue :
       /\ q.queue[i].type = "QueryDone" => q.queue[i].result = [plan |-> asked, file |-> eng.meta]
       /\ q.queue[i].type = "CrateDetailDone" => q.queue[i].detail.crate = eng.selected
       /\ q.queue[i].type = "FileOpened" => store.file = q.queue[i].file

FreshInv ==
  errors = 0 =>
    /\ \A p \in DOMAIN pipes : FreshPipe(pipes[p])
    /\ (eng.load = "Ready" /\ ~Opening) => store.file = eng.meta /\ eng.meta \in Files

\* Until an error event or a throw the reply under way, and what the page
\* shows while it has nothing under way, is the view of the engine's state.
ViewInv ==
  (errors = 0 /\ thrown = 0) =>
    /\ \A k \in DOMAIN toPage : toPage[k].kind # "error" /\ toPage[k].view = ViewModel(eng)
    /\ (ready /\ (toWorker # <<>> \/ ~busy)) => view = ViewModel(eng)

ExplorerInv ==
  /\ TypeOK /\ IdsInv /\ OrderInv /\ PhaseInv /\ SingleFlight /\ FreshInv /\ ViewInv
  /\ AnswersOwnJob /\ DoneShowsLatestRun /\ DetailOfSelection /\ PreviewFresh
=============================================================================
