--------------------------- MODULE Explorer_proofs ---------------------------
(***************************************************************************)
(* Proofs about the explorer: its page, its client, its worker and its     *)
(* engine, for any controls, any number of messages and any error events.  *)
(*                                                                         *)
(* First what the reducer promises of every transition (Faithful), then    *)
(* what every action does to the queues and the pipelines, then the parts  *)
(* of ExplorerInv one after the other, and the properties from it.         *)
(***************************************************************************)
EXTENDS Explorer, Channels, FiniteSetTheorems, TLAPS

(* What reaches the engine: a request, or the answer of an effect.         *)
EngineEvent(e) == (UserEvent(e) /\ e.type # "OpenFile") \/ e \in AnswerEvents

(* The effects of a transition, as a set.                                  *)
FX(h) == {h.effects[i] : i \in DOMAIN h.effects}
RunTypes == {"RunQueryDraft", "RunPreset"}

(* What the reducer promises of a transition h from the state s on the     *)
(* event e: a phase is entered with the effect that ends it and left by    *)
(* the answer, what is asked for is about the new state, and what is       *)
(* shown comes from the answer.                                            *)
Faithful(s, e, h) ==
  /\ (s.built # None => s.built = s.draft) => (h.state.built # None => h.state.built = h.state.draft)
  /\ h.state.load = "Loading" =>
       \/ s.load = "Loading" /\ e.type \notin {"FileOpened", "FileOpenFailed"}
       \/ \E f \in FX(h) : f.type = "OpenSource"
  /\ h.state.query = "Running" =>
       \/ s.query = "Running" /\ e.type \notin {"QueryDone", "QueryFailed"}
       \/ \E f \in FX(h) : f.type \in RunTypes
  /\ h.state.query = "Warming" =>
       \/ s.query = "Warming" /\ e.type # "WorkersWarmed"
       \/ \E f \in FX(h) : f.type = "WarmWorkers"
  /\ h.state.detailPhase = "Loading" =>
       \/ s.detailPhase = "Loading" /\ e.type \notin {"CrateDetailDone", "CrateDetailFailed"}
       \/ \E f \in FX(h) : f.type = "LoadCrateDetail"
  /\ h.state.load = "Ready" =>
       \/ e.type = "FileOpened" /\ h.state.meta = e.file
       \/ s.load = "Ready" /\ h.state.meta = s.meta /\ e.type \notin {"FileOpened", "FileOpenFailed"}
  /\ \A f \in FX(h) : f.type \in RunTypes \cup {"WarmWorkers"} => h.state.load = "Ready"
  /\ \A f \in FX(h) : f.type = "LoadCrateDetail" => f.crate = h.state.selected
  /\ h.state.query = "Done" =>
       /\ \/ e.type = "QueryDone" /\ h.state.result = e.result
          \/ s.query = "Done" /\ h.state.result = s.result
       /\ h.state.meta = s.meta /\ \A f \in FX(h) : f.type \notin RunTypes
  /\ (h.state.detailPhase = "Ready" /\ h.state.selected # None) =>
       /\ \/ e.type = "CrateDetailDone" /\ h.state.detail = e.detail
          \/ s.detailPhase = "Ready" /\ h.state.detail = s.detail
       /\ h.state.selected = s.selected
  /\ e.type = "WorkersWarmed" =>
       /\ h.effects = <<>> /\ FX(h) = {} /\ h.state.meta = s.meta /\ h.state.selected = s.selected

(* A transition to a state, with effects that only warm the workers        *)
(* before the last.                                                        *)
WellFormed(h) ==
  /\ h.state \in EngineStates
  /\ h.effects \in Seq(Effects)
  /\ \A i \in DOMAIN h.effects : i < Len(h.effects) => h.effects[i].type = "WarmWorkers"

(* A transition without effects.                                           *)
LEMMA OnlyFX == ASSUME NEW s PROVE FX(Only(s)) = {} /\ Only(s).state = s /\ Only(s).effects = <<>>
BY DEF FX, Only

(* A transition with one effect.                                           *)
LEMMA WithFX == ASSUME NEW s, NEW f PROVE FX(With(s, f)) = {f} /\ With(s, f).state = s /\ With(s, f).effects = <<f>>
BY DEF FX, With

(* A transition without effects to a state is well formed.                 *)
LEMMA OnlyWell == ASSUME NEW s \in EngineStates PROVE WellFormed(Only(s))
BY DEF Only, WellFormed

(* So is one with an effect.                                               *)
LEMMA WithWell == ASSUME NEW s \in EngineStates, NEW f \in Effects PROVE WellFormed(With(s, f))
BY DEF With, WellFormed

(* Opening a file asks for that file.                                      *)
LEMMA LoadWell == ASSUME NEW s \in EngineStates, NEW src \in Files PROVE WellFormed(Loading(s, src))
<1>1. [s EXCEPT !.load = "Loading"] \in EngineStates
  BY DEF EngineStates, Phases
<1>2. [type |-> "OpenSource", source |-> src] \in Effects
  BY DEF Effects
<1> QED BY <1>1, <1>2, WithWell DEF Loading

(* Running the draft asks for a query over the draft.                      *)
LEMMA RunBuilderWell == ASSUME NEW s \in EngineStates PROVE WellFormed(RunBuilder(s))
<1>1. [s EXCEPT !.query = "Error"] \in EngineStates
  BY DEF EngineStates, QueryPhases
<1>2. [s EXCEPT !.query = "Running", !.result = None, !.built = s.draft] \in EngineStates
  BY DEF EngineStates, QueryPhases, MaybeResult
<1>3. [type |-> "RunQueryDraft", draft |-> s.draft, workers |-> s.workers] \in Effects
  BY DEF Effects, EngineStates
<1> QED BY <1>1, <1>2, <1>3, WithWell, OnlyWell DEF RunBuilder

(* The effect that warms the workers.                                      *)
LEMMA WarmEffect == ASSUME NEW n \in WorkerCounts PROVE [type |-> "WarmWorkers", workers |-> n] \in Effects
BY DEF Effects

(* Running a preset asks for a query or changes nothing.                   *)
LEMMA RunPresetWell == ASSUME NEW s \in EngineStates, NEW p PROVE WellFormed(RunPreset(s, p))
<1>1. [s EXCEPT !.query = "Running", !.result = None, !.built = None] \in EngineStates
  BY DEF EngineStates, QueryPhases, MaybeResult
<1>2. p \in Presets => [type |-> "RunPreset", preset |-> p, workers |-> s.workers] \in Effects
  BY DEF Effects, EngineStates
<1> QED BY <1>1, <1>2, WithWell, OnlyWell, RunBuilderWell DEF RunPreset

(* What runs a query keeps everything but the query, its result and its     *)
(* plan.                                                                    *)
RunsOnly(s, h) ==
  /\ h.state.load = s.load /\ h.state.meta = s.meta /\ h.state.selected = s.selected
  /\ h.state.detail = s.detail /\ h.state.detailPhase = s.detailPhase
  /\ h.state.draft = s.draft
  /\ h.state.built = s.built \/ h.state.built = None \/ h.state.built = s.draft
  /\ \/ h.state.query = s.query /\ h.state.result = s.result /\ FX(h) = {}
     \/ h.state.query = "Error" /\ FX(h) = {}
     \/ h.state.query = "Running" /\ \E f : FX(h) = {f} /\ f.type \in RunTypes
  /\ FX(h) # {} => \E f : h.effects = <<f>> /\ f.type \in RunTypes
  /\ FX(h) = {} => h.effects = <<>>

(* Running the draft changes the query alone.                              *)
LEMMA RunBuilderRuns ==
  ASSUME NEW s \in EngineStates PROVE RunsOnly(s, RunBuilder(s))
<1>1. CASE s.draft \in Unplannable
  <2> DEFINE t == [s EXCEPT !.query = "Error"]
  <2>1. RunBuilder(s) = Only(t)
    BY <1>1 DEF RunBuilder
  <2>2. /\ t.load = s.load /\ t.meta = s.meta /\ t.selected = s.selected /\ t.detail = s.detail
        /\ t.detailPhase = s.detailPhase /\ t.draft = s.draft /\ t.built = s.built /\ t.query = "Error"
    BY DEF EngineStates
  <2> HIDE DEF t
  <2> QED
    BY <2>1, <2>2, OnlyFX DEF RunsOnly
<1>2. CASE s.draft \notin Unplannable
  <2> DEFINE t == [s EXCEPT !.query = "Running", !.result = None, !.built = s.draft]
             f == [type |-> "RunQueryDraft", draft |-> s.draft, workers |-> s.workers]
  <2>1. RunBuilder(s) = With(t, f)
    BY <1>2 DEF RunBuilder
  <2>2. /\ t.load = s.load /\ t.meta = s.meta /\ t.selected = s.selected /\ t.detail = s.detail
        /\ t.detailPhase = s.detailPhase /\ t.draft = s.draft /\ t.built = s.draft /\ t.query = "Running"
    BY DEF EngineStates
  <2>3. f.type \in RunTypes
    BY DEF RunTypes
  <2>4. FX(RunBuilder(s)) = {f} /\ RunBuilder(s).effects = <<f>> /\ RunBuilder(s).state = t
    BY <2>1, WithFX
  <2> HIDE DEF t, f
  <2>5. \E g : RunBuilder(s).effects = <<g>> /\ g.type \in RunTypes
    BY <2>3, <2>4, Zenon
  <2>6. \E g : FX(RunBuilder(s)) = {g} /\ g.type \in RunTypes
    BY <2>3, <2>4, Zenon
  <2>7. FX(RunBuilder(s)) # {}
    BY <2>4
  <2> QED
    BY <2>2, <2>4, <2>5, <2>6, <2>7, Zenon DEF RunsOnly
<1> QED
  BY <1>1, <1>2

(* So does running a preset.                                               *)
LEMMA RunPresetRuns ==
  ASSUME NEW s \in EngineStates, NEW p PROVE RunsOnly(s, RunPreset(s, p))
<1>1. CASE s.load # "Ready"
  <2>1. RunPreset(s, p) = Only(s)
    BY <1>1 DEF RunPreset
  <2> QED
    BY <2>1, OnlyFX DEF RunsOnly
<1>2. CASE s.load = "Ready" /\ p \notin Presets
  BY <1>2, RunBuilderRuns DEF RunPreset
<1>3. CASE s.load = "Ready" /\ p \in Presets
  <2> DEFINE t == [s EXCEPT !.query = "Running", !.result = None, !.built = None]
             f == [type |-> "RunPreset", preset |-> p, workers |-> s.workers]
  <2>1. RunPreset(s, p) = With(t, f)
    BY <1>3 DEF RunPreset
  <2>2. /\ t.load = s.load /\ t.meta = s.meta /\ t.selected = s.selected /\ t.detail = s.detail
        /\ t.detailPhase = s.detailPhase /\ t.draft = s.draft /\ t.built = None /\ t.query = "Running"
    BY DEF EngineStates
  <2>3. f.type \in RunTypes
    BY DEF RunTypes
  <2>4. FX(RunPreset(s, p)) = {f} /\ RunPreset(s, p).effects = <<f>> /\ RunPreset(s, p).state = t
    BY <2>1, WithFX
  <2> HIDE DEF t, f
  <2>5. \E g : RunPreset(s, p).effects = <<g>> /\ g.type \in RunTypes
    BY <2>3, <2>4, Zenon
  <2>6. \E g : FX(RunPreset(s, p)) = {g} /\ g.type \in RunTypes
    BY <2>3, <2>4, Zenon
  <2>7. FX(RunPreset(s, p)) # {}
    BY <2>4
  <2> QED
    BY <2>2, <2>4, <2>5, <2>6, <2>7, Zenon DEF RunsOnly
<1> QED
  BY <1>1, <1>2, <1>3

(* Running the query again asks for one query at most.                     *)
LEMMA RequeryWell == ASSUME NEW s \in EngineStates PROVE WellFormed(RequeryAfterRestore(s))
BY OnlyWell, RunBuilderWell DEF RequeryAfterRestore

(* It changes the query alone, and only with a file open.                  *)
LEMMA RequeryRuns ==
  ASSUME NEW s \in EngineStates
  PROVE  RunsOnly(s, RequeryAfterRestore(s)) /\ (FX(RequeryAfterRestore(s)) # {} => s.load = "Ready")
<1>1. CASE s.load # "Ready"
  <2>1. RequeryAfterRestore(s) = Only(s)
    BY <1>1 DEF RequeryAfterRestore
  <2> QED
    BY <2>1, OnlyFX DEF RunsOnly
<1>2. CASE s.load = "Ready"
  BY <1>2, RunBuilderRuns DEF RequeryAfterRestore
<1> QED
  BY <1>1, <1>2

(* A query run from a state that differs from s in its draft, its workspace *)
(* and its plan at most.                                                    *)
LEMMA RunsFaithful ==
  ASSUME NEW s \in EngineStates, NEW e, e.type \notin {"FileOpened", "FileOpenFailed", "QueryDone", "QueryFailed",
                    "WorkersWarmed", "CrateDetailDone", "CrateDetailFailed"},
         NEW u \in EngineStates, NEW h, RunsOnly(u, h), FX(h) # {} => u.load = "Ready",
         u.load = s.load, u.meta = s.meta, u.query = s.query, u.result = s.result,
         \/ u.selected = s.selected /\ u.detail = s.detail /\ u.detailPhase = s.detailPhase
         \/ u.detailPhase = "Idle",
         u.built = None \/ (u.built = s.built /\ u.draft = s.draft)
  PROVE  Faithful(s, e, h)
<1>1. /\ h.state.load = s.load /\ h.state.meta = s.meta /\ h.state.draft = u.draft
      /\ h.state.selected = u.selected /\ h.state.detail = u.detail /\ h.state.detailPhase = u.detailPhase
      /\ \/ h.state.query = s.query /\ h.state.result = s.result /\ FX(h) = {}
         \/ h.state.query = "Error" /\ FX(h) = {}
         \/ h.state.query = "Running" /\ \E f : FX(h) = {f} /\ f.type \in RunTypes
  BY DEF RunsOnly
<1>2. h.state.built = u.built \/ h.state.built = None \/ h.state.built = u.draft
  BY DEF RunsOnly
<1>3. FX(h) # {} => s.load = "Ready"
  OBVIOUS
<1>4. (s.built # None => s.built = s.draft) => (h.state.built # None => h.state.built = h.state.draft)
  BY <1>1, <1>2
<1>5. \A f \in FX(h) : f.type \in RunTypes
  BY <1>1
<1>6. /\ h.state.query = "Running" => s.query = "Running" \/ \E f \in FX(h) : f.type \in RunTypes
      /\ h.state.query = "Warming" => s.query = "Warming"
      /\ h.state.query = "Done" => s.query = "Done" /\ h.state.result = s.result /\ FX(h) = {}
  BY <1>1
<1> QED
  BY <1>1, <1>3, <1>4, <1>5, <1>6 DEF Faithful, RunTypes

(* Load.                                                                   *)
LEMMA ReduceLoad ==
  ASSUME NEW s \in EngineStates, NEW e, EngineEvent(e), e.type = "Load"
  PROVE  WellFormed(Reduce(s, e)) /\ Faithful(s, e, Reduce(s, e))
<1>1. Reduce(s, e) = Loading(s, e.source)
  BY DEF Reduce
<1>2. e.source \in Files
  BY DEF EngineEvent, UserEvent, AnswerEvents, PlainRequests
<1> DEFINE t == [s EXCEPT !.load = "Loading"]
<1>3. FX(Loading(s, e.source)) = {[type |-> "OpenSource", source |-> e.source]} /\ Loading(s, e.source).state = t
  BY WithFX DEF Loading
<1>4. Faithful(s, e, Loading(s, e.source))
  BY <1>3 DEF Faithful, RunTypes, EngineStates
<1> QED
  BY <1>1, <1>2, <1>4, LoadWell

(* A reset leads to a state.                                               *)
LEMMA ResetWell == ASSUME NEW s \in EngineStates PROVE Reset(s) \in EngineStates
<1>1. NoHistory \in [undo : Seq(Workspaces), redo : Seq(Workspaces)]
  BY DEF NoHistory
<1>2. MaxWorkers \in WorkerCounts
  BY EngineAssumption DEF WorkerCounts
<1>3. Initial \in EngineStates
  BY <1>1, <1>2, EngineAssumption
     DEF Initial, EngineStates, Phases, QueryPhases, MaybeFile, MaybeCrate, MaybeResult, MaybeDetail, ViewIds
<1>4. s.nextView \in Nat
  BY DEF EngineStates
<1> QED
  BY <1>3, <1>4 DEF Reset, EngineStates

(* FileOpenFailed: the engine starts over.                                 *)
LEMMA ReduceOpenFailed ==
  ASSUME NEW s \in EngineStates, NEW e, EngineEvent(e), e.type = "FileOpenFailed"
  PROVE  WellFormed(Reduce(s, e)) /\ Faithful(s, e, Reduce(s, e))
<1> DEFINE t == [Reset(s) EXCEPT !.load = "Error"]
<1>1. Reduce(s, e) = Only(t)
  BY DEF Reduce
<1>2. t \in EngineStates
  BY ResetWell, ZenonT(60) DEF EngineStates, Phases
<1>3. /\ t.load = "Error" /\ t.query = "Idle" /\ t.built = None
      /\ t.detailPhase = "Idle"
  BY DEF EngineStates, Initial, Reset
<1> HIDE DEF t
<1>4. Faithful(s, e, Only(t))
  BY <1>3, OnlyFX DEF Faithful
<1> QED
  BY <1>1, <1>2, <1>4, OnlyWell

(* The events that edit the draft drop the preview.                        *)
LEMMA ReduceEdit ==
  ASSUME NEW s \in EngineStates, NEW e, EngineEvent(e), e.type = "Edit"
  PROVE  WellFormed(Reduce(s, e)) /\ Faithful(s, e, Reduce(s, e))
<1> DEFINE t == [s EXCEPT !.draft = e.draft, !.built = None]
<1>0. e.draft \in Drafts
  BY DEF EngineEvent, UserEvent, AnswerEvents, PlainRequests
<1>1. Reduce(s, e) = Only(t)
  BY DEF Reduce, SyncDraft
<1>2. t \in EngineStates
  BY <1>0 DEF EngineStates
<1>3. /\ t.load = s.load /\ t.meta = s.meta /\ t.query = s.query /\ t.result = s.result
      /\ t.draft = e.draft /\ t.built = None /\ t.selected = s.selected
      /\ t.detail = s.detail /\ t.detailPhase = s.detailPhase
  BY DEF EngineStates, SyncDraft
<1> HIDE DEF t
<1>4. Faithful(s, e, Only(t))
  BY <1>3, OnlyFX DEF Faithful
<1> QED
  BY <1>1, <1>2, <1>4, OnlyWell

(* WorkersChanged.                                                         *)
LEMMA ReduceWorkersChanged ==
  ASSUME NEW s \in EngineStates, NEW e, EngineEvent(e), e.type = "WorkersChanged"
  PROVE  WellFormed(Reduce(s, e)) /\ Faithful(s, e, Reduce(s, e))
<1> DEFINE t == [s EXCEPT !.workers = ClampWorkers(e.workers)]
<1>0. ClampWorkers(e.workers) \in WorkerCounts
  BY EngineAssumption DEF WorkerCounts, ClampWorkers, EngineEvent, UserEvent, AnswerEvents, PlainRequests
<1>1. Reduce(s, e) = Only(t)
  BY DEF Reduce
<1>2. t \in EngineStates
  BY <1>0 DEF EngineStates
<1>3. /\ t.load = s.load /\ t.meta = s.meta /\ t.query = s.query /\ t.result = s.result
      /\ t.draft = s.draft /\ t.built = s.built /\ t.selected = s.selected
      /\ t.detail = s.detail /\ t.detailPhase = s.detailPhase
  BY DEF EngineStates
<1> HIDE DEF t
<1>4. Faithful(s, e, Only(t))
  BY <1>3, OnlyFX DEF Faithful
<1> QED
  BY <1>1, <1>2, <1>4, OnlyWell

(* QueryDone.                                                              *)
LEMMA ReduceQueryDone ==
  ASSUME NEW s \in EngineStates, NEW e, EngineEvent(e), e.type = "QueryDone"
  PROVE  WellFormed(Reduce(s, e)) /\ Faithful(s, e, Reduce(s, e))
<1> DEFINE t == [s EXCEPT !.query = "Done", !.result = e.result]
<1>0. e.result \in Results
  BY DEF EngineEvent, UserEvent, AnswerEvents, PlainRequests
<1>1. Reduce(s, e) = Only(t)
  BY DEF Reduce
<1>2. t \in EngineStates
  BY <1>0 DEF EngineStates, QueryPhases, MaybeResult
<1>3. /\ t.load = s.load /\ t.meta = s.meta /\ t.query = "Done" /\ t.result = e.result
      /\ t.draft = s.draft /\ t.built = s.built /\ t.selected = s.selected
      /\ t.detail = s.detail /\ t.detailPhase = s.detailPhase
  BY DEF EngineStates
<1> HIDE DEF t
<1>4. Faithful(s, e, Only(t))
  BY <1>3, OnlyFX DEF Faithful
<1> QED
  BY <1>1, <1>2, <1>4, OnlyWell

(* QueryFailed.                                                            *)
LEMMA ReduceQueryFailed ==
  ASSUME NEW s \in EngineStates, NEW e, EngineEvent(e), e.type = "QueryFailed"
  PROVE  WellFormed(Reduce(s, e)) /\ Faithful(s, e, Reduce(s, e))
<1> DEFINE t == [s EXCEPT !.query = "Error"]
<1>1. Reduce(s, e) = Only(t)
  BY DEF Reduce
<1>2. t \in EngineStates
  BY DEF EngineStates, QueryPhases
<1>3. /\ t.load = s.load /\ t.meta = s.meta /\ t.query = "Error" /\ t.result = s.result
      /\ t.draft = s.draft /\ t.built = s.built /\ t.selected = s.selected
      /\ t.detail = s.detail /\ t.detailPhase = s.detailPhase
  BY DEF EngineStates
<1> HIDE DEF t
<1>4. Faithful(s, e, Only(t))
  BY <1>3, OnlyFX DEF Faithful
<1> QED
  BY <1>1, <1>2, <1>4, OnlyWell

(* RouteSet.                                                               *)
LEMMA ReduceRouteSet ==
  ASSUME NEW s \in EngineStates, NEW e, EngineEvent(e), e.type = "RouteSet"
  PROVE  WellFormed(Reduce(s, e)) /\ Faithful(s, e, Reduce(s, e))
<1> DEFINE t == [s EXCEPT !.route = e.route]
<1>0. e.route \in Routes
  BY DEF EngineEvent, UserEvent, AnswerEvents, PlainRequests
<1>1. Reduce(s, e) = Only(t)
  BY DEF Reduce
<1>2. t \in EngineStates
  BY <1>0 DEF EngineStates
<1>3. /\ t.load = s.load /\ t.meta = s.meta /\ t.query = s.query /\ t.result = s.result
      /\ t.draft = s.draft /\ t.built = s.built /\ t.selected = s.selected
      /\ t.detail = s.detail /\ t.detailPhase = s.detailPhase
  BY DEF EngineStates
<1> HIDE DEF t
<1>4. Faithful(s, e, Only(t))
  BY <1>3, OnlyFX DEF Faithful
<1> QED
  BY <1>1, <1>2, <1>4, OnlyWell

(* CrateDetailClose.                                                       *)
LEMMA ReduceDetailClose ==
  ASSUME NEW s \in EngineStates, NEW e, EngineEvent(e), e.type = "CrateDetailClose"
  PROVE  WellFormed(Reduce(s, e)) /\ Faithful(s, e, Reduce(s, e))
<1> DEFINE t == [s EXCEPT !.selected = None, !.detail = None, !.detailPhase = "Idle"]
<1>1. Reduce(s, e) = Only(t)
  BY DEF Reduce
<1>2. t \in EngineStates
  BY DEF EngineStates, Phases, MaybeCrate, MaybeDetail
<1>3. /\ t.load = s.load /\ t.meta = s.meta /\ t.query = s.query /\ t.result = s.result
      /\ t.draft = s.draft /\ t.built = s.built /\ t.selected = None /\ t.detail = None
      /\ t.detailPhase = "Idle"
  BY DEF EngineStates
<1> HIDE DEF t
<1>4. Faithful(s, e, Only(t))
  BY <1>3, OnlyFX DEF Faithful
<1> QED
  BY <1>1, <1>2, <1>4, OnlyWell

(* CratePin.                                                               *)
LEMMA ReducePin ==
  ASSUME NEW s \in EngineStates, NEW e, EngineEvent(e), e.type = "CratePin"
  PROVE  WellFormed(Reduce(s, e)) /\ Faithful(s, e, Reduce(s, e))
<1> DEFINE t == [s EXCEPT !.pinned = @ \cup {e.crate}]
<1>0. e.crate \in Crates
  BY DEF EngineEvent, UserEvent, AnswerEvents, PlainRequests
<1>1. Reduce(s, e) = Only(t)
  BY DEF Reduce
<1>2. t \in EngineStates
  BY <1>0 DEF EngineStates
<1>3. /\ t.load = s.load /\ t.meta = s.meta /\ t.query = s.query /\ t.result = s.result
      /\ t.draft = s.draft /\ t.built = s.built /\ t.selected = s.selected
      /\ t.detail = s.detail /\ t.detailPhase = s.detailPhase
  BY DEF EngineStates
<1> HIDE DEF t
<1>4. Faithful(s, e, Only(t))
  BY <1>3, OnlyFX DEF Faithful
<1> QED
  BY <1>1, <1>2, <1>4, OnlyWell

(* CrateUnpin.                                                             *)
LEMMA ReduceUnpin ==
  ASSUME NEW s \in EngineStates, NEW e, EngineEvent(e), e.type = "CrateUnpin"
  PROVE  WellFormed(Reduce(s, e)) /\ Faithful(s, e, Reduce(s, e))
<1> DEFINE t == [s EXCEPT !.pinned = @ \ {e.crate}]
<1>1. Reduce(s, e) = Only(t)
  BY DEF Reduce
<1>2. t \in EngineStates
  BY DEF EngineStates
<1>3. /\ t.load = s.load /\ t.meta = s.meta /\ t.query = s.query /\ t.result = s.result
      /\ t.draft = s.draft /\ t.built = s.built /\ t.selected = s.selected
      /\ t.detail = s.detail /\ t.detailPhase = s.detailPhase
  BY DEF EngineStates
<1> HIDE DEF t
<1>4. Faithful(s, e, Only(t))
  BY <1>3, OnlyFX DEF Faithful
<1> QED
  BY <1>1, <1>2, <1>4, OnlyWell

(* CrateDetailDone.                                                        *)
LEMMA ReduceDetailDone ==
  ASSUME NEW s \in EngineStates, NEW e, EngineEvent(e), e.type = "CrateDetailDone"
  PROVE  WellFormed(Reduce(s, e)) /\ Faithful(s, e, Reduce(s, e))
<1> DEFINE t == [s EXCEPT !.detail = e.detail, !.detailPhase = "Ready"]
<1>0. e.detail \in Details
  BY DEF EngineEvent, UserEvent, AnswerEvents, PlainRequests
<1>1. Reduce(s, e) = Only(t)
  BY DEF Reduce
<1>2. t \in EngineStates
  BY <1>0 DEF EngineStates, Phases, MaybeDetail
<1>3. /\ t.load = s.load /\ t.meta = s.meta /\ t.query = s.query /\ t.result = s.result
      /\ t.draft = s.draft /\ t.built = s.built /\ t.selected = s.selected
      /\ t.detail = e.detail /\ t.detailPhase = "Ready"
  BY DEF EngineStates
<1> HIDE DEF t
<1>4. Faithful(s, e, Only(t))
  BY <1>3, OnlyFX DEF Faithful
<1> QED
  BY <1>1, <1>2, <1>4, OnlyWell

(* CrateDetailFailed.                                                      *)
LEMMA ReduceDetailFailed ==
  ASSUME NEW s \in EngineStates, NEW e, EngineEvent(e), e.type = "CrateDetailFailed"
  PROVE  WellFormed(Reduce(s, e)) /\ Faithful(s, e, Reduce(s, e))
<1> DEFINE t == [s EXCEPT !.detail = None, !.detailPhase = "Error"]
<1>1. Reduce(s, e) = Only(t)
  BY DEF Reduce
<1>2. t \in EngineStates
  BY DEF EngineStates, Phases, MaybeDetail
<1>3. /\ t.load = s.load /\ t.meta = s.meta /\ t.query = s.query /\ t.result = s.result
      /\ t.draft = s.draft /\ t.built = s.built /\ t.selected = s.selected
      /\ t.detail = None /\ t.detailPhase = "Error"
  BY DEF EngineStates
<1> HIDE DEF t
<1>4. Faithful(s, e, Only(t))
  BY <1>3, OnlyFX DEF Faithful
<1> QED
  BY <1>1, <1>2, <1>4, OnlyWell

(* SavedViewSave.                                                          *)
LEMMA ReduceViewSave ==
  ASSUME NEW s \in EngineStates, NEW e, EngineEvent(e), e.type = "SavedViewSave"
  PROVE  WellFormed(Reduce(s, e)) /\ Faithful(s, e, Reduce(s, e))
<1> DEFINE t == [s EXCEPT !.views = @ \cup {[id |-> s.nextView, draft |-> s.draft]}, !.active = s.nextView, !.nextView = @ + 1]
<1>1. Reduce(s, e) = Only(t)
  BY DEF Reduce, SavedViewSave
<1>0. /\ s.views \cup {[id |-> s.nextView, draft |-> s.draft]} \in SUBSET SavedViews
      /\ s.nextView \in ViewIds /\ s.nextView + 1 \in Nat
  BY DEF EngineStates, SavedViews, ViewIds
<1>2. t \in EngineStates
  BY <1>0 DEF EngineStates
<1>3. /\ t.load = s.load /\ t.meta = s.meta /\ t.query = s.query /\ t.result = s.result
      /\ t.draft = s.draft /\ t.built = s.built /\ t.selected = s.selected
      /\ t.detail = s.detail /\ t.detailPhase = s.detailPhase
  BY DEF EngineStates
<1> HIDE DEF t
<1>4. Faithful(s, e, Only(t))
  BY <1>3, OnlyFX DEF Faithful
<1> QED
  BY <1>1, <1>2, <1>4, OnlyWell

(* SavedViewRemove.                                                        *)
LEMMA ReduceViewRemove ==
  ASSUME NEW s \in EngineStates, NEW e, EngineEvent(e), e.type = "SavedViewRemove"
  PROVE  WellFormed(Reduce(s, e)) /\ Faithful(s, e, Reduce(s, e))
<1> DEFINE t == [s EXCEPT !.views = {v \in @ : v.id # e.id}, !.active = IF @ = e.id THEN None ELSE @]
<1>1. Reduce(s, e) = Only(t)
  BY DEF Reduce, SavedViewRemove
<1>2. t \in EngineStates
  BY DEF EngineStates, SavedViews, ViewIds
<1>3. /\ t.load = s.load /\ t.meta = s.meta /\ t.query = s.query /\ t.result = s.result
      /\ t.draft = s.draft /\ t.built = s.built /\ t.selected = s.selected
      /\ t.detail = s.detail /\ t.detailPhase = s.detailPhase
  BY DEF EngineStates
<1> HIDE DEF t
<1>4. Faithful(s, e, Only(t))
  BY <1>3, OnlyFX DEF Faithful
<1> QED
  BY <1>1, <1>2, <1>4, OnlyWell

(* WorkersWarmed ends a warm-up, never a query.                            *)
LEMMA ReduceWarmed ==
  ASSUME NEW s \in EngineStates, NEW e, EngineEvent(e), e.type = "WorkersWarmed"
  PROVE  WellFormed(Reduce(s, e)) /\ Faithful(s, e, Reduce(s, e))
<1> DEFINE t == IF s.query # "Running" THEN [s EXCEPT !.query = "Idle"] ELSE s
<1>1. Reduce(s, e) = Only(t)
  BY DEF Reduce, WorkersWarmed
<1>2. t \in EngineStates
  BY DEF EngineStates, QueryPhases
<1>3. /\ t.load = s.load /\ t.meta = s.meta
      /\ t.query = (IF s.query # "Running" THEN "Idle" ELSE s.query)
      /\ t.result = s.result /\ t.draft = s.draft /\ t.built = s.built
      /\ t.selected = s.selected /\ t.detail = s.detail
      /\ t.detailPhase = s.detailPhase
  BY DEF EngineStates
<1> HIDE DEF t
<1>4. Faithful(s, e, Only(t))
  BY <1>3, OnlyFX DEF Faithful
<1> QED
  BY <1>1, <1>2, <1>4, OnlyWell

(* RunQuery.                                                               *)
LEMMA ReduceRunQuery ==
  ASSUME NEW s \in EngineStates, NEW e, EngineEvent(e), e.type = "RunQuery"
  PROVE  WellFormed(Reduce(s, e)) /\ Faithful(s, e, Reduce(s, e))
<1>1. Reduce(s, e) = RequeryAfterRestore(s)
  BY DEF Reduce
<1>2. RunsOnly(s, RequeryAfterRestore(s)) /\ (FX(RequeryAfterRestore(s)) # {} => s.load = "Ready")
  BY RequeryRuns
<1>3. Faithful(s, e, RequeryAfterRestore(s))
  BY <1>2, RunsFaithful
<1> QED
  BY <1>1, <1>3, RequeryWell

(* PresetSelected.                                                         *)
LEMMA ReducePreset ==
  ASSUME NEW s \in EngineStates, NEW e, EngineEvent(e), e.type = "PresetSelected"
  PROVE  WellFormed(Reduce(s, e)) /\ Faithful(s, e, Reduce(s, e))
<1> DEFINE h == RunPreset(s, e.preset)
<1>1. Reduce(s, e) = h
  BY DEF Reduce
<1>2. RunsOnly(s, h)
  BY RunPresetRuns
<1>3. FX(h) # {} => s.load = "Ready"
  <2>1. s.load # "Ready" => h = Only(s)
    BY DEF RunPreset
  <2> QED
    BY <2>1, OnlyFX
<1>4. WellFormed(h)
  BY RunPresetWell
<1> HIDE DEF h
<1>5. Faithful(s, e, h)
  BY <1>2, <1>3, RunsFaithful
<1> QED
  BY <1>1, <1>4, <1>5

(* WarmWorkers.                                                            *)
LEMMA ReduceWarm ==
  ASSUME NEW s \in EngineStates, NEW e, EngineEvent(e), e.type = "WarmWorkers"
  PROVE  WellFormed(Reduce(s, e)) /\ Faithful(s, e, Reduce(s, e))
<1>1. Reduce(s, e) = WarmWorkers(s)
  BY DEF Reduce
<1>2. CASE s.load # "Ready"
  <2>1. Reduce(s, e) = Only(s)
    BY <1>1, <1>2 DEF WarmWorkers
  <2>2. Faithful(s, e, Only(s))
    BY OnlyFX DEF Faithful
  <2> QED
    BY <2>1, <2>2, OnlyWell
<1>3. CASE s.load = "Ready"
  <2> DEFINE t == [s EXCEPT !.query = "Warming"]
             f == [type |-> "WarmWorkers", workers |-> s.workers]
  <2>1. Reduce(s, e) = With(t, f)
    BY <1>1, <1>3 DEF WarmWorkers
  <2>2. t \in EngineStates
    BY DEF EngineStates, QueryPhases
  <2>3. f \in Effects /\ f.type = "WarmWorkers"
    BY WarmEffect DEF EngineStates
  <2>4. /\ t.load = s.load /\ t.meta = s.meta /\ t.query = "Warming" /\ t.result = s.result
        /\ t.draft = s.draft /\ t.built = s.built /\ t.selected = s.selected
        /\ t.detail = s.detail /\ t.detailPhase = s.detailPhase
    BY DEF EngineStates
  <2> HIDE DEF t, f
  <2>5. Faithful(s, e, With(t, f))
    BY <1>3, <2>3, <2>4, WithFX DEF Faithful, RunTypes
  <2> QED
    BY <2>1, <2>2, <2>3, <2>5, WithWell
<1> QED
  BY <1>2, <1>3

(* A crate is selected in a state that differs from s in its workspace at   *)
(* most.                                                                    *)
LEMMA SelectCrateFaithful ==
  ASSUME NEW s \in EngineStates, NEW u \in EngineStates, NEW c \in Crates, NEW e,
         e.type \in {"CrateSelect", "WorkspaceHydrate"},
         u.load = s.load, u.meta = s.meta, u.query = s.query, u.result = s.result,
         u.built = None \/ (u.built = s.built /\ u.draft = s.draft)
  PROVE  WellFormed(SelectCrate(u, c)) /\ Faithful(s, e, SelectCrate(u, c))
<1> DEFINE t == [u EXCEPT !.selected = c, !.detail = None, !.detailPhase = "Loading"]
           f == [type |-> "LoadCrateDetail", crate |-> c, workers |-> u.workers]
<1>1. SelectCrate(u, c) = With(t, f)
  BY DEF SelectCrate
<1>2. t \in EngineStates
  BY DEF EngineStates, Phases, MaybeCrate, MaybeDetail
<1>3. f \in Effects /\ f.type = "LoadCrateDetail" /\ f.crate = c
  BY DEF Effects, EngineStates
<1>4. /\ t.load = s.load /\ t.meta = s.meta /\ t.query = s.query /\ t.result = s.result
      /\ t.draft = u.draft /\ t.built = u.built /\ t.selected = c /\ t.detailPhase = "Loading"
  BY DEF EngineStates
<1> HIDE DEF t, f
<1>5. Faithful(s, e, With(t, f))
  BY <1>3, <1>4, WithFX DEF Faithful, RunTypes
<1> QED
  BY <1>1, <1>2, <1>3, <1>5, WithWell

(* CrateSelect.                                                            *)
LEMMA ReduceSelect ==
  ASSUME NEW s \in EngineStates, NEW e, EngineEvent(e), e.type = "CrateSelect"
  PROVE  WellFormed(Reduce(s, e)) /\ Faithful(s, e, Reduce(s, e))
<1>1. e.crate \in Crates
  BY DEF EngineEvent, UserEvent, AnswerEvents, PlainRequests
<1>2. Reduce(s, e) = SelectCrate(s, e.crate)
  BY DEF Reduce
<1> QED
  BY <1>1, <1>2, SelectCrateFaithful

(* WorkspaceHydrate.                                                       *)
LEMMA ReduceHydrate ==
  ASSUME NEW s \in EngineStates, NEW e, EngineEvent(e), e.type = "WorkspaceHydrate"
  PROVE  WellFormed(Reduce(s, e)) /\ Faithful(s, e, Reduce(s, e))
<1> DEFINE w == e.workspace
           t == [s EXCEPT !.route = w.route, !.draft = w.draft, !.selected = w.selected,
                          !.pinned = w.pinned, !.active = w.active, !.built = None]
<1>1. w \in Workspaces
  BY DEF EngineEvent, UserEvent, AnswerEvents, PlainRequests
<1>2. Reduce(s, e) = IF t.selected # None THEN SelectCrate(t, t.selected) ELSE Only(t)
  BY DEF Reduce, WorkspaceHydrate
<1> HIDE DEF w
<1>3. t \in EngineStates
  BY <1>1 DEF EngineStates, Workspaces
<1>4. /\ t.load = s.load /\ t.meta = s.meta /\ t.query = s.query /\ t.result = s.result
      /\ t.built = None /\ t.detail = s.detail /\ t.detailPhase = s.detailPhase
      /\ t.selected \in MaybeCrate
  BY <1>1 DEF EngineStates, Workspaces
<1> HIDE DEF t
<1>5. CASE t.selected # None
  <2>1. t.selected \in Crates
    BY <1>4, <1>5 DEF MaybeCrate
  <2> QED
    BY <1>2, <1>3, <1>4, <1>5, <2>1, SelectCrateFaithful
<1>6. CASE t.selected = None
  <2>1. Faithful(s, e, Only(t))
    BY <1>4, <1>6, OnlyFX DEF Faithful
  <2> QED
    BY <1>2, <1>3, <1>6, <2>1, OnlyWell
<1> QED
  BY <1>5, <1>6

(* SavedViewApply.                                                         *)
LEMMA ReduceViewApply ==
  ASSUME NEW s \in EngineStates, NEW e, EngineEvent(e), e.type = "SavedViewApply"
  PROVE  WellFormed(Reduce(s, e)) /\ Faithful(s, e, Reduce(s, e))
<1> DEFINE found == {v \in s.views : v.id = e.id}
           d == (CHOOSE v \in found : TRUE).draft
           t == [s EXCEPT !.active = e.id, !.draft = d, !.built = None]
<1>1. Reduce(s, e) = IF found = {} THEN Only(s) ELSE RequeryAfterRestore(t)
  BY DEF Reduce, SavedViewApply, SyncDraft
<1>2. CASE found = {}
  <2>1. Faithful(s, e, Only(s))
    BY OnlyFX DEF Faithful
  <2> QED
    BY <1>1, <1>2, <2>1, OnlyWell
<1>3. CASE found # {}
  <2>1. (CHOOSE v \in found : TRUE) \in SavedViews
    BY <1>3 DEF EngineStates
  <2>2. d \in Drafts
    BY <2>1 DEF SavedViews
  <2>3. e.id \in ViewIds
    BY DEF EngineEvent, UserEvent, AnswerEvents, PlainRequests, ViewIds
  <2> HIDE DEF d
  <2>4. t \in EngineStates
    BY <2>2, <2>3 DEF EngineStates
  <2>5. /\ t.load = s.load /\ t.meta = s.meta /\ t.query = s.query /\ t.result = s.result
        /\ t.built = None /\ t.detail = s.detail /\ t.detailPhase = s.detailPhase
        /\ t.selected = s.selected
    BY DEF EngineStates
  <2> HIDE DEF t
  <2>6. RunsOnly(t, RequeryAfterRestore(t)) /\ (FX(RequeryAfterRestore(t)) # {} => t.load = "Ready")
    BY <2>4, RequeryRuns
  <2>7. Faithful(s, e, RequeryAfterRestore(t))
    BY <2>4, <2>5, <2>6, RunsFaithful
  <2> QED
    BY <1>1, <1>3, <2>4, <2>7, RequeryWell
<1> QED
  BY <1>2, <1>3

(* The one event with two effects.                                         *)
LEMMA TwoEffects ==
  ASSUME NEW w \in Effects, NEW f \in Effects, w.type = "WarmWorkers", NEW h,
         h.state \in EngineStates, h.effects = <<w>> \o <<f>>
  PROVE  WellFormed(h) /\ FX(h) = {w, f}
<1> DEFINE fx == <<w>> \o <<f>>
<1>1. fx \in Seq(Effects) /\ Len(fx) = 2 /\ DOMAIN fx = 1 .. 2 /\ fx[1] = w /\ fx[2] = f
  BY Pair
<1> HIDE DEF fx
<1>2. h.effects = fx
  BY DEF fx
<1> QED
  BY <1>1, <1>2 DEF FX, WellFormed

(* FileOpened warms the workers, then runs the first query.                *)
LEMMA ReduceOpened ==
  ASSUME NEW s \in EngineStates, NEW e, EngineEvent(e), e.type = "FileOpened"
  PROVE  WellFormed(Reduce(s, e)) /\ Faithful(s, e, Reduce(s, e))
<1> DEFINE u == [s EXCEPT !.load = "Ready", !.meta = e.file, !.query = "Running",
                          !.result = None, !.history = NoHistory,
                          !.draft = DefaultDraft, !.built = None]
           p == RunPreset(u, DefaultPreset)
           w == [type |-> "WarmWorkers", workers |-> s.workers]
           h == [state |-> p.state, effects |-> <<w>> \o p.effects]
<1>1. Reduce(s, e) = h
  BY DEF Reduce, FileOpened, SyncDraft
<1>2. e.file \in Files
  BY DEF EngineEvent, UserEvent, AnswerEvents, PlainRequests
<1>3. NoHistory \in [undo : Seq(Workspaces), redo : Seq(Workspaces)]
  BY DEF NoHistory
<1>4. u \in EngineStates
  BY <1>2, <1>3, EngineAssumption DEF EngineStates, Phases, QueryPhases, MaybeFile, MaybeResult
<1>5. /\ u.load = "Ready" /\ u.meta = e.file /\ u.query = "Running" /\ u.built = None
      /\ u.detail = s.detail /\ u.detailPhase = s.detailPhase /\ u.selected = s.selected
  BY DEF EngineStates
<1>6. w \in Effects /\ w.type = "WarmWorkers"
  BY WarmEffect DEF EngineStates
<1> HIDE DEF u, w
<1> DEFINE t == [u EXCEPT !.query = "Running", !.result = None, !.built = None]
           f == [type |-> "RunPreset", preset |-> DefaultPreset, workers |-> u.workers]
<1>7. p = With(t, f)
  BY <1>5, EngineAssumption DEF RunPreset
<1>8. t \in EngineStates
  BY <1>4 DEF EngineStates, QueryPhases, MaybeResult
<1>9. f \in Effects /\ f.type \in RunTypes /\ f.type = "RunPreset"
  BY <1>4, EngineAssumption DEF Effects, EngineStates, RunTypes
<1>10. /\ t.load = "Ready" /\ t.meta = e.file /\ t.query = "Running" /\ t.built = None
       /\ t.detail = s.detail /\ t.detailPhase = s.detailPhase /\ t.selected = s.selected
  BY <1>4, <1>5 DEF EngineStates
<1> HIDE DEF t, f
<1>11. p.state = t /\ p.effects = <<f>>
  BY <1>7, WithFX
<1> HIDE DEF p
<1>12. h.state = t /\ h.effects = <<w>> \o <<f>>
  BY <1>11
<1>13. WellFormed(h) /\ FX(h) = {w, f}
  BY <1>6, <1>8, <1>9, <1>12, TwoEffects
<1> HIDE DEF h
<1>15. Faithful(s, e, h)
  BY <1>6, <1>9, <1>10, <1>12, <1>13 DEF Faithful
<1> QED
  BY <1>1, <1>13, <1>15

(* Whatever the event, the reducer keeps its promises.                      *)
LEMMA ReduceFaithful ==
  ASSUME NEW s \in EngineStates, NEW e, EngineEvent(e), e.type \notin {"Undo", "Redo"}
  PROVE  WellFormed(Reduce(s, e)) /\ Faithful(s, e, Reduce(s, e))
<1>1. e.type \in {"Load", "Edit", "PresetSelected", "WorkersChanged", "WarmWorkers", "RunQuery", "RouteSet",
                   "CrateSelect", "CratePin", "CrateUnpin", "CrateDetailClose", "SavedViewSave",
                   "SavedViewApply", "SavedViewRemove", "WorkspaceHydrate",
                   "FileOpened", "FileOpenFailed", "QueryDone", "QueryFailed", "WorkersWarmed",
                   "CrateDetailDone", "CrateDetailFailed"}
  BY DEF EngineEvent, UserEvent, AnswerEvents, PlainRequests
<1>2. CASE e.type \in {"Load", "Edit", "PresetSelected", "WorkersChanged", "WarmWorkers", "RunQuery", "RouteSet",
                   "CrateSelect"}
  BY <1>2, ReduceLoad, ReduceEdit, ReducePreset, ReduceWorkersChanged, ReduceWarm, ReduceRunQuery,
     ReduceRouteSet, ReduceSelect
<1>3. CASE e.type \in {"CratePin", "CrateUnpin", "CrateDetailClose", "SavedViewSave",
                   "SavedViewApply", "SavedViewRemove", "WorkspaceHydrate"}
  BY <1>3, ReducePin, ReduceUnpin, ReduceDetailClose, ReduceViewSave, ReduceViewApply, ReduceViewRemove,
     ReduceHydrate
<1>4. CASE e.type \in {"FileOpened", "FileOpenFailed", "QueryDone", "QueryFailed", "WorkersWarmed",
                   "CrateDetailDone", "CrateDetailFailed"}
  BY <1>4, ReduceOpened, ReduceOpenFailed, ReduceQueryDone, ReduceQueryFailed, ReduceWarmed,
     ReduceDetailDone, ReduceDetailFailed
<1> QED
  BY <1>1, <1>2, <1>3, <1>4

(* The history does not count for what an engine's step promises.           *)
LEMMA HistoryAside ==
  ASSUME NEW s \in EngineStates, NEW e, NEW h, NEW hist, Faithful([s EXCEPT !.history = hist], e, h)
  PROVE  Faithful(s, e, h)
<1> DEFINE t == [s EXCEPT !.history = hist]
<1>1. /\ t.load = s.load /\ t.meta = s.meta /\ t.query = s.query /\ t.result = s.result
      /\ t.draft = s.draft /\ t.built = s.built /\ t.selected = s.selected
      /\ t.detail = s.detail /\ t.detailPhase = s.detailPhase
  BY DEF EngineStates
<1>2. Faithful(t, e, h)
  OBVIOUS
<1> HIDE DEF t
<1> QED
  BY <1>1, <1>2 DEF Faithful

(* A snapshot is a workspace.                                              *)
LEMMA SnapshotWell == ASSUME NEW s \in EngineStates PROVE Snapshot(s) \in Workspaces
BY DEF Snapshot, EngineStates, Workspaces

Histories == [undo : Seq(Workspaces), redo : Seq(Workspaces)]

(* Recording a snapshot keeps the history well formed.                     *)
LEMMA RecordWell ==
  ASSUME NEW h \in Histories, NEW w \in Workspaces PROVE Record(h, w) \in Histories
<1> DEFINE all == Append(h.undo, w)
<1>1. all \in Seq(Workspaces) /\ all # <<>>
  BY Appended DEF Histories
<1>2. Tail(all) \in Seq(Workspaces)
  BY <1>1, Popped
<1>3. <<>> \in Seq(Workspaces)
  OBVIOUS
<1> HIDE DEF all
<1>4. Record(h, w) = [undo |-> IF Len(all) > MaxHistory THEN Tail(all) ELSE all, redo |-> <<>>]
  BY DEF Record, all
<1> QED
  BY <1>1, <1>2, <1>3, <1>4 DEF Histories

(* Going to another workspace: the plan is dropped, the detail closed, and  *)
(* the query run again.                                                     *)
LEMMA RestoreFaithful ==
  ASSUME NEW s \in EngineStates, NEW e, e.type \in {"Undo", "Redo"},
         NEW hist \in Histories, NEW w \in Workspaces
  PROVE  LET u == ApplySnapshot([s EXCEPT !.history = hist], w)
         IN  /\ u \in EngineStates /\ u.history = hist /\ Snapshot(u) = w
             /\ WellFormed(RequeryAfterRestore(u)) /\ Faithful(s, e, RequeryAfterRestore(u))
<1> DEFINE u == ApplySnapshot([s EXCEPT !.history = hist], w)
<1>1. /\ w.route \in Routes /\ w.draft \in Drafts /\ w.selected \in MaybeCrate
      /\ w.pinned \in SUBSET Crates /\ w.active \in ViewIds
      /\ w = [route |-> w.route, draft |-> w.draft, selected |-> w.selected,
               pinned |-> w.pinned, active |-> w.active]
  BY DEF Workspaces
<1>2. u \in EngineStates
  BY <1>1 DEF ApplySnapshot, EngineStates, Histories, Phases, MaybeDetail
<1>3. /\ u.load = s.load /\ u.meta = s.meta /\ u.query = s.query /\ u.result = s.result
      /\ u.built = None /\ u.detailPhase = "Idle" /\ u.history = hist
  BY DEF ApplySnapshot, EngineStates
<1>4. Snapshot(u) = w
  <2>1. /\ u.route = w.route /\ u.draft = w.draft /\ u.selected = w.selected
        /\ u.pinned = w.pinned /\ u.active = w.active
    BY DEF ApplySnapshot, EngineStates
  <2> QED
    BY <1>1, <2>1 DEF Snapshot
<1> HIDE DEF u
<1>5. RunsOnly(u, RequeryAfterRestore(u)) /\ (FX(RequeryAfterRestore(u)) # {} => u.load = "Ready")
  BY <1>2, RequeryRuns
<1>6. Faithful(s, e, RequeryAfterRestore(u))
  BY <1>2, <1>3, <1>5, RunsFaithful
<1>7. WellFormed(RequeryAfterRestore(u))
  BY <1>2, RequeryWell
<1> QED
  BY <1>2, <1>3, <1>4, <1>6, <1>7 DEF u

(* What popping the last one leaves of a stack.                            *)
LEMMA Shortened ==
  ASSUME NEW S, NEW q \in Seq(S), q # <<>>
  PROVE  /\ SubSeq(q, 1, Len(q) - 1) \in Seq(S) /\ Len(SubSeq(q, 1, Len(q) - 1)) = Len(q) - 1
         /\ \A i \in 1 .. Len(q) - 1 : SubSeq(q, 1, Len(q) - 1)[i] = q[i]
         /\ q[Len(q)] \in S
OBVIOUS

(* Every transition of the engine keeps the promise.                       *)
LEMMA HandleFaithful ==
  ASSUME NEW s \in EngineStates, NEW e, EngineEvent(e)
  PROVE  WellFormed(HandleEvent(s, e)) /\ Faithful(s, e, HandleEvent(s, e))
<1>1. CASE e.type = "Undo"
  <2>1. HandleEvent(s, e) = Undo(s)
    BY <1>1, SMTT(60) DEF HandleEvent, Undoable
  <2>2. CASE s.history.undo = <<>>
    <3>1. Undo(s) = Only(s)
      BY <2>2 DEF Undo
    <3>2. Faithful(s, e, Only(s))
      BY <1>1, OnlyFX DEF Faithful
    <3> QED
      BY <2>1, <3>1, <3>2, OnlyWell
  <2>3. CASE s.history.undo # <<>>
    <3> DEFINE q == s.history.undo
               hist == [undo |-> SubSeq(q, 1, Len(q) - 1), redo |-> Append(s.history.redo, Snapshot(s))]
    <3>1. q \in Seq(Workspaces) /\ s.history.redo \in Seq(Workspaces)
      BY DEF EngineStates
    <3>2. Len(q) # 0
      BY <2>3, <3>1, Emptied
    <3>3. Undo(s) = RequeryAfterRestore(ApplySnapshot([s EXCEPT !.history = hist], q[Len(q)]))
      BY <3>2 DEF Undo
    <3>4. hist \in Histories /\ q[Len(q)] \in Workspaces
      BY <2>3, <3>1, SnapshotWell, Shortened, Appended DEF Histories
    <3> HIDE DEF hist, q
    <3> QED
      BY <1>1, <2>1, <3>3, <3>4, RestoreFaithful
  <2> QED
    BY <2>2, <2>3
<1>2. CASE e.type = "Redo"
  <2>1. HandleEvent(s, e) = Redo(s)
    BY <1>2 DEF HandleEvent, Undoable
  <2>2. CASE s.history.redo = <<>>
    <3>1. Redo(s) = Only(s)
      BY <2>2 DEF Redo
    <3>2. Faithful(s, e, Only(s))
      BY <1>2, OnlyFX DEF Faithful
    <3> QED
      BY <2>1, <3>1, <3>2, OnlyWell
  <2>3. CASE s.history.redo # <<>>
    <3> DEFINE q == s.history.redo
               hist == [undo |-> Append(s.history.undo, Snapshot(s)), redo |-> SubSeq(q, 1, Len(q) - 1)]
    <3>1. q \in Seq(Workspaces) /\ s.history.undo \in Seq(Workspaces)
      BY DEF EngineStates
    <3>2. Len(q) # 0
      BY <2>3, <3>1, Emptied
    <3>3. Redo(s) = RequeryAfterRestore(ApplySnapshot([s EXCEPT !.history = hist], q[Len(q)]))
      BY <3>2 DEF Redo
    <3>4. hist \in Histories /\ q[Len(q)] \in Workspaces
      BY <2>3, <3>1, SnapshotWell, Shortened, Appended DEF Histories
    <3> HIDE DEF hist, q
    <3> QED
      BY <1>2, <2>1, <3>3, <3>4, RestoreFaithful
  <2> QED
    BY <2>2, <2>3
<1>3. CASE e.type \notin {"Undo", "Redo"}
  <2> DEFINE hist == IF e.type \in Undoable THEN Record(s.history, Snapshot(s)) ELSE s.history
             t == [s EXCEPT !.history = hist]
  <2>1. hist \in Histories
    BY RecordWell, SnapshotWell DEF EngineStates, Histories
  <2>2. t \in EngineStates
    BY <2>1 DEF EngineStates, Histories
  <2>3. HandleEvent(s, e) = Reduce(t, e)
    <3>1. CASE e.type \in Undoable
      BY <1>3, <3>1 DEF HandleEvent
    <3>2. CASE e.type \notin Undoable
      <4>1. t = s
        BY <3>2 DEF EngineStates
      <4> QED
        BY <1>3, <3>2, <4>1 DEF HandleEvent
    <3> QED
      BY <3>1, <3>2
  <2>4. WellFormed(Reduce(t, e)) /\ Faithful(t, e, Reduce(t, e))
    BY <1>3, <2>2, ReduceFaithful
  <2> HIDE DEF hist
  <2> QED
    BY <2>3, <2>4, HistoryAside
<1> QED
  BY <1>1, <1>2, <1>3

(* What the page is shown of a state.                                      *)
LEMMA ViewWell == ASSUME NEW s \in EngineStates PROVE ViewModel(s) \in ViewStates
<1>1. {<<v.id, v.id = s.active>> : v \in s.views} \in SUBSET (Nat \X BOOLEAN)
  <2> SUFFICES ASSUME NEW v \in s.views PROVE <<v.id, v.id = s.active>> \in Nat \X BOOLEAN
    BY Zenon
  <2> DEFINE b == v.id = s.active
  <2>1. v.id \in Nat
    BY DEF EngineStates, SavedViews
  <2>2. b \in BOOLEAN
    BY Zenon
  <2> HIDE DEF b
  <2>3. <<v.id, b>> \in Nat \X BOOLEAN
    BY <2>1, <2>2
  <2> QED
    BY <2>3 DEF b
<1>2. /\ (IF s.built = None THEN s.draft ELSE s.built) \in Drafts
      /\ (s.history.undo # <<>>) \in BOOLEAN /\ (s.history.redo # <<>>) \in BOOLEAN
  BY DEF EngineStates
<1>3. /\ s.load \in Phases /\ s.meta \in MaybeFile /\ s.workers \in WorkerCounts /\ s.route \in Routes
      /\ s.draft \in Drafts /\ s.query \in QueryPhases /\ s.result \in MaybeResult
      /\ s.selected \in MaybeCrate /\ s.detail \in MaybeDetail /\ s.detailPhase \in Phases
      /\ s.pinned \in SUBSET Crates
  BY DEF EngineStates
<1> QED
  BY <1>1, <1>2, <1>3 DEF ViewModel, ViewStates

(* Every event of a pipeline is one of the engine's.                       *)
LEMMA AnEngineEvent == ASSUME NEW e \in Events PROVE EngineEvent(e)
BY ExplorerAssumption DEF Events, Requests, EngineEvent, AnswerEvents

(* What the end of an effect does to its pipeline.                         *)
LEMMA EffectDoneMeans ==
  ASSUME TypeOK, NEW p \in DOMAIN pipes, pipes[p].effects # <<>>, NEW evs \in Seq(Events), EffectDone(p, evs)
  PROVE  /\ DOMAIN pipes' = DOMAIN pipes /\ pipes' \in [DOMAIN pipes' -> Pipes]
         /\ \A r \in DOMAIN pipes : r # p => pipes'[r] = pipes[r]
         /\ pipes'[p].queue = pipes[p].queue \o evs /\ pipes'[p].effects = Tail(pipes[p].effects)
         /\ pipes'[p].effect = NoEffect /\ pipes'[p].view = pipes[p].view
<1>1. pipes \in [DOMAIN pipes -> Pipes] /\ pipes[p] \in Pipes
  BY DEF TypeOK
<1>2. /\ pipes[p].queue \in Seq(Events) /\ pipes[p].effects \in Seq(Effects) /\ pipes[p].view \in MaybeView
  BY <1>1 DEF Pipes
<1>3. pipes[p].queue \o evs \in Seq(Events) /\ Tail(pipes[p].effects) \in Seq(Effects)
  BY <1>2, Popped, Concat
<1>4. NoEffect \in [on : BOOLEAN, file : MaybeFile]
  BY DEF NoEffect, MaybeFile
<1>5. /\ DOMAIN pipes' = DOMAIN pipes
      /\ \A r \in DOMAIN pipes : r # p => pipes'[r] = pipes[r]
      /\ pipes' = [r \in DOMAIN pipes |-> pipes'[r]]
  BY <1>1 DEF EffectDone
<1>6. pipes'[p] = [[[pipes[p] EXCEPT !.queue = pipes[p].queue \o evs] EXCEPT !.effects = Tail(pipes[p].effects)]
                      EXCEPT !.effect = NoEffect]
  BY <1>1 DEF EffectDone, Pipes
<1>7. pipes'[p] \in Pipes
  BY <1>1, <1>2, <1>3, <1>4, <1>6 DEF Pipes
<1>8. /\ pipes'[p].queue = pipes[p].queue \o evs /\ pipes'[p].effects = Tail(pipes[p].effects)
      /\ pipes'[p].effect = NoEffect /\ pipes'[p].view = pipes[p].view
  BY <1>1, <1>6 DEF Pipes
<1> QED
  BY <1>1, <1>5, <1>7, <1>8

(* The event an effect answers with.                                        *)
AnswerTo(f, under, ev) ==
  \/ f.type = "OpenSource" /\ ev \in {[type |-> "FileOpened", file |-> f.source], [type |-> "FileOpenFailed"]}
  \/ f.type = "WarmWorkers" /\ ev = [type |-> "WorkersWarmed"]
  \/ f.type = "LoadCrateDetail" /\ \/ ev = [type |-> "CrateDetailFailed"]
                                   \/ ev = [type |-> "CrateDetailDone", detail |-> [crate |-> f.crate, file |-> under.file]]
  \/ f.type \in RunTypes /\ \/ ev = [type |-> "QueryFailed"]
                            \/ under.on /\ ev = [type |-> "QueryDone", result |-> [plan |-> Plan(f), file |-> under.file]]

(* What the steps of an effect have in common: it begins, or it ends with   *)
(* an answer, or it had nothing to do.                                      *)
Begins(p) ==
  /\ ~pipes[p].effect.on
  /\ pipes' = [pipes EXCEPT ![p].effect = [on |-> TRUE, file |-> store.file]]
  /\ IF Head(pipes[p].effects).type = "OpenSource" THEN store' = NoFile ELSE store' = store

EndsWith(p, f, ev) ==
  /\ ev \in Events
  /\ AnswerTo(f, pipes[p].effect, ev) /\ EffectDone(p, <<ev>>)
  /\ f.type # "OpenSource" => store'.file = store.file
  /\ ev.type = "FileOpened" => store'.file = ev.file

Ends(p) ==
  LET f == Head(pipes[p].effects) IN
  /\ store' \in [file : MaybeFile, warmed : WorkerCounts \cup {None}]
  /\ \/ /\ f.type = "WarmWorkers" /\ store.file = None /\ store' = store
        /\ EffectDone(p, <<>>)
     \/ \E ev : EndsWith(p, f, ev)

(* What an effect carries.                                                 *)
LEMMA EffectTyped ==
  ASSUME NEW f \in Effects
  PROVE  /\ f.type \in {"OpenSource", "WarmWorkers", "LoadCrateDetail"} \cup RunTypes
         /\ f.type = "OpenSource" => f.source \in Files
         /\ f.type = "LoadCrateDetail" => f.crate \in Crates
         /\ f.type \in RunTypes => Plan(f) \in Drafts \cup Presets
         /\ f.type # "OpenSource" => f.workers \in WorkerCounts
BY DEF Effects, RunTypes, Plan

(* The answer of an effect is an event.                                    *)
LEMMA AnswerTyped ==
  ASSUME NEW f \in Effects, NEW under, under.file \in MaybeFile, NEW ev, AnswerTo(f, under, ev)
  PROVE  ev \in Events
<1>1. ev \in AnswerEvents
  BY EffectTyped DEF AnswerTo, AnswerEvents, Results, Details
<1> QED
  BY <1>1 DEF Events

(* Every step of an effect begins it or ends it.                           *)
LEMMA EffectSteps ==
  ASSUME TypeOK, OrderInv, NEW p \in DOMAIN pipes,
         StartEffect(p) \/ OpenSource(p) \/ Query(p) \/ Warm(p)
  PROVE  /\ pipes[p].effects # <<>> /\ (Begins(p) \/ Ends(p))
         /\ UNCHANGED <<page, toWorker, toPage, eng, outcome, errors, thrown, asked>>
<1> DEFINE f == Head(pipes[p].effects)
<1>1. pipes[p] \in Pipes /\ store \in [file : MaybeFile, warmed : WorkerCounts \cup {None}]
  BY DEF TypeOK
<1>2. pipes[p].effects \in Seq(Effects) /\ pipes[p].effect.file \in MaybeFile
  BY <1>1 DEF Pipes
<1>3. pipes[p].effects # <<>>
  BY DEF StartEffect, OpenSource, Query, Warm, OrderInv
<1>4. f \in Effects
  BY <1>2, <1>3, Popped
<1> HIDE DEF f
<1>5. /\ UNCHANGED <<page, toWorker, toPage, eng, outcome, errors, thrown, asked>>
  BY DEF StartEffect, OpenSource, Query, Warm
<1> SUFFICES Begins(p) \/ Ends(p)
  BY <1>3, <1>5, Zenon
<1>6. CASE StartEffect(p)
  <2>1. CASE f.type = "OpenSource"
    BY <1>6, <2>1 DEF StartEffect, Begins, f
  <2>2. CASE f.type # "OpenSource" /\ store.file # None
    BY <1>6, <2>2 DEF StartEffect, Begins, f
  <2>3. CASE f.type = "WarmWorkers" /\ store.file = None
    <3>1. EffectDone(p, WithoutFile(f.type)) /\ UNCHANGED store
      BY <1>6, <2>3 DEF StartEffect, f
    <3>2. WithoutFile(f.type) = <<>>
      BY <2>3 DEF WithoutFile
    <3> QED
      BY <1>1, <2>3, <3>1, <3>2 DEF Ends, f
  <2>4. CASE f.type \in RunTypes \cup {"LoadCrateDetail"} /\ store.file = None
    <3>1. EffectDone(p, WithoutFile(f.type)) /\ UNCHANGED store
      BY <1>6, <2>4 DEF StartEffect, f, RunTypes
    <3> DEFINE ev == IF f.type = "LoadCrateDetail" THEN [type |-> "CrateDetailFailed"] ELSE [type |-> "QueryFailed"]
    <3>2. WithoutFile(f.type) = <<ev>>
      BY <2>4 DEF WithoutFile, RunTypes
    <3>3. AnswerTo(f, pipes[p].effect, ev) /\ ev.type # "FileOpened"
      BY <2>4 DEF AnswerTo, RunTypes
    <3> HIDE DEF ev
    <3>4. ev \in Events
      BY <1>2, <1>4, <3>3, AnswerTyped
    <3>5. EndsWith(p, f, ev) /\ store' \in [file : MaybeFile, warmed : WorkerCounts \cup {None}]
      BY <1>1, <3>1, <3>2, <3>3, <3>4 DEF EndsWith
    <3> QED
      BY <3>5, Zenon DEF Ends, f
  <2> QED
    BY <1>4, <2>1, <2>2, <2>3, <2>4, EffectTyped
<1>7. CASE OpenSource(p)
  <2>1. f.type = "OpenSource"
    BY <1>7 DEF OpenSource, f
  <2>2. f.source \in Files
    BY <1>4, <2>1, EffectTyped
  <2>3. CASE /\ store' = [file |-> f.source, warmed |-> None]
             /\ EffectDone(p, <<[type |-> "FileOpened", file |-> f.source]>>)
    <3> DEFINE ev == [type |-> "FileOpened", file |-> f.source]
    <3>1. AnswerTo(f, pipes[p].effect, ev) /\ ev.file = f.source
      BY <2>1 DEF AnswerTo
    <3>2. EffectDone(p, <<ev>>)
      BY <2>3
    <3> HIDE DEF ev
    <3>3. ev \in Events
      BY <1>2, <1>4, <3>1, AnswerTyped
    <3>4. store' \in [file : MaybeFile, warmed : WorkerCounts \cup {None}] /\ store'.file = ev.file
      BY <2>2, <2>3, <3>1 DEF MaybeFile
    <3>5. EndsWith(p, f, ev)
      BY <2>1, <3>1, <3>2, <3>3, <3>4 DEF EndsWith
    <3> QED
      BY <3>4, <3>5, Zenon DEF Ends, f
  <2>4. CASE store' = NoFile /\ EffectDone(p, <<[type |-> "FileOpenFailed"]>>)
    <3> DEFINE ev == [type |-> "FileOpenFailed"]
    <3>1. AnswerTo(f, pipes[p].effect, ev) /\ ev.type # "FileOpened"
      BY <2>1 DEF AnswerTo
    <3>2. EffectDone(p, <<ev>>)
      BY <2>4
    <3> HIDE DEF ev
    <3>3. ev \in Events
      BY <1>2, <1>4, <3>1, AnswerTyped
    <3>4. store' \in [file : MaybeFile, warmed : WorkerCounts \cup {None}]
      BY <2>4 DEF MaybeFile, NoFile
    <3>5. EndsWith(p, f, ev)
      BY <2>1, <3>1, <3>2, <3>3, <3>4 DEF EndsWith
    <3> QED
      BY <3>4, <3>5, Zenon DEF Ends, f
  <2> QED
    BY <1>7, <2>3, <2>4 DEF OpenSource, f
<1>8. CASE Query(p)
  <2>1. f.type \in RunTypes \cup {"LoadCrateDetail"} /\ pipes[p].effect.on
    BY <1>8 DEF Query, Queries, RunTypes, f
  <2>2. PICK ev : /\ EffectDone(p, <<ev>>)
                  /\ \/ ev = QueryAnswer(f, pipes[p].effect.file)
                     \/ <<ev>> = WithoutFile(f.type)
    <3>1. CASE EffectDone(p, <<QueryAnswer(f, pipes[p].effect.file)>>)
      BY <3>1
    <3>2. CASE EffectDone(p, WithoutFile(f.type))
      <4>1. \E ev : WithoutFile(f.type) = <<ev>>
        BY <2>1 DEF WithoutFile, RunTypes
      <4> QED
        BY <3>2, <4>1
    <3> QED
      BY <1>8, <3>1, <3>2 DEF Query, f
  <2>3. AnswerTo(f, pipes[p].effect, ev) /\ ev.type # "FileOpened"
    BY <2>1, <2>2 DEF AnswerTo, RunTypes, QueryAnswer, WithoutFile
  <2>4. ev \in Events
    BY <1>2, <1>4, <2>3, AnswerTyped
  <2>5. store' \in {store, [store EXCEPT !.warmed = f.workers]}
    BY <1>8 DEF Query, f
  <2>6. store' \in [file : MaybeFile, warmed : WorkerCounts \cup {None}] /\ store'.file = store.file
    BY <1>1, <1>4, <2>1, <2>5, EffectTyped DEF RunTypes
  <2>7. EndsWith(p, f, ev)
    BY <2>1, <2>2, <2>3, <2>4, <2>6 DEF EndsWith
  <2> QED
    BY <2>6, <2>7, Zenon DEF Ends, f
<1>9. CASE Warm(p)
  <2>1. f.type = "WarmWorkers"
    BY <1>9 DEF Warm, f
  <2> DEFINE ev == [type |-> "WorkersWarmed"]
  <2>2. AnswerTo(f, pipes[p].effect, ev) /\ ev.type # "FileOpened"
    BY <2>1 DEF AnswerTo
  <2>3. EffectDone(p, <<ev>>)
    BY <1>9 DEF Warm
  <2> HIDE DEF ev
  <2>4. ev \in Events
    BY <1>2, <1>4, <2>2, AnswerTyped
  <2>5. store' = [store EXCEPT !.warmed = f.workers]
    BY <1>9 DEF Warm, f
  <2>6. store' \in [file : MaybeFile, warmed : WorkerCounts \cup {None}] /\ store'.file = store.file
    BY <1>1, <1>4, <2>1, <2>5, EffectTyped DEF RunTypes
  <2>7. EndsWith(p, f, ev)
    BY <2>1, <2>2, <2>3, <2>4, <2>6 DEF EndsWith
  <2> QED
    BY <2>6, <2>7, Zenon DEF Ends, f
<1> QED
  BY <1>3, <1>5, <1>6, <1>7, <1>8, <1>9

(* The number of the next message.                                         *)
LEMMA Numbering ==
  ASSUME IdsInv, NEW n \in JobIds, Sent = 1 .. n
  PROVE  NextId = n + 1 /\ Cardinality(Sent) = n /\ n \in Nat /\ n >= 1 /\ n <= MaxJobs
<1>1. n \in Nat /\ n >= 1 /\ n <= MaxJobs
  BY ExplorerAssumption DEF JobIds
<1>2. Cardinality(1 .. n) = n
  BY <1>1, FS_Interval
<1> QED
  BY <1>1, <1>2 DEF NextId

(* The client posts its first job when none is being answered.             *)
LEMMA PumpMeans ==
  ASSUME NEW queue \in Seq(Jobs), NEW idle \in BOOLEAN, toWorker \in Seq(Jobs), Pump(queue, idle)
  PROVE  /\ toWorker' \in Seq(Jobs) /\ busy' \in BOOLEAN
         /\ idle /\ queue # <<>> => busy' /\ toWorker' = Append(toWorker, queue[1])
         /\ ~(idle /\ queue # <<>>) => toWorker' = toWorker /\ busy' = ~idle
<1>1. CASE idle /\ queue # <<>>
  <2>1. Head(queue) = queue[1] /\ Head(queue) \in Jobs
    BY <1>1, Popped
  <2>2. busy' = TRUE /\ toWorker' = Append(toWorker, queue[1])
    BY <1>1, <2>1 DEF Pump
  <2>3. toWorker' \in Seq(Jobs)
    BY <2>1, <2>2, Appended
  <2> QED
    BY <1>1, <2>2, <2>3
<1>2. CASE ~(idle /\ queue # <<>>)
  <2>1. toWorker' = toWorker /\ busy' = ~idle
    BY <1>2 DEF Pump
  <2> QED
    BY <1>2, <2>1
<1> QED
  BY <1>1, <1>2

(* What the page's steps do to the queue keeps the numbering.               *)
LEMMA PostStep ==
  ASSUME TypeOK, IdsInv, NEW n \in JobIds, Sent = 1 .. n, NEW m \in JobIds, n <= m, Sent' = 1 .. m,
         jobs' \in Seq(Jobs), UNCHANGED pipes,
         \A k \in DOMAIN jobs' : jobs'[k].id \in 1 .. m,
         \A i, k \in DOMAIN jobs' : i < k => jobs'[i].id < jobs'[k].id,
         \A k \in DOMAIN jobs' : (k # 1 \/ toWorker' # toWorker) =>
           /\ \A i \in DOMAIN toWorker : toWorker[i].id < jobs'[k].id
           /\ \A p \in DOMAIN pipes : p < jobs'[k].id,
         toWorker' = toWorker \/ (jobs' # <<>> /\ toWorker' = Append(toWorker, jobs'[1])),
         busy' <=> jobs' # <<>>
  PROVE  IdsInv'
<1>1. toWorker \in Seq(Jobs) /\ n \in Nat /\ m \in Nat
  BY DEF TypeOK, JobIds
<1>2. \A k \in DOMAIN jobs' : jobs'[k].id \in Nat
  OBVIOUS
<1>3. \A i \in DOMAIN toWorker : toWorker[i].id \in 1 .. n
  BY DEF IdsInv
<1>4. \A p \in DOMAIN pipes : p \in 1 .. n
  BY DEF IdsInv
<1>5. CASE toWorker' = toWorker
  <2>1. \A k \in DOMAIN toWorker' : toWorker'[k].id \in 1 .. m
    BY <1>1, <1>3, <1>5
  <2>2. \A p \in DOMAIN pipes' : p \in 1 .. m
    BY <1>1, <1>4
  <2>3. \A i, k \in DOMAIN toWorker' : i < k => toWorker'[i].id < toWorker'[k].id
    BY <1>5 DEF IdsInv
  <2>4. \A k \in DOMAIN toWorker' : \A p \in DOMAIN pipes' : p < toWorker'[k].id
    BY <1>5 DEF IdsInv
  <2> QED
    BY <1>5, <2>1, <2>2, <2>3, <2>4 DEF IdsInv
<1>6. CASE toWorker' # toWorker
  <2>1. jobs' # <<>> /\ 1 \in DOMAIN jobs' /\ jobs'[1] \in Jobs
    BY <1>6, Popped
  <2>2. /\ DOMAIN toWorker' = 1 .. Len(toWorker) + 1 /\ DOMAIN toWorker = 1 .. Len(toWorker) /\ Len(toWorker) \in Nat
        /\ \A i \in 1 .. Len(toWorker) : toWorker'[i] = toWorker[i]
        /\ toWorker'[Len(toWorker) + 1] = jobs'[1]
    BY <1>1, <1>6, <2>1, Appended
  <2>3. \A k \in DOMAIN toWorker' : toWorker'[k].id \in 1 .. m
    BY <1>1, <1>3, <2>1, <2>2
  <2>4. \A p \in DOMAIN pipes' : p \in 1 .. m
    BY <1>1, <1>4
  <2>5. \A i \in DOMAIN toWorker : toWorker[i].id < jobs'[1].id
    BY <1>6, <2>1
  <2>6. \A i, k \in DOMAIN toWorker : i < k => toWorker[i].id < toWorker[k].id
    BY DEF IdsInv
  <2>7. \A i, k \in DOMAIN toWorker' : i < k => toWorker'[i].id < toWorker'[k].id
    BY <2>2, <2>5, <2>6
  <2>8. \A p \in DOMAIN pipes : p < jobs'[1].id
    BY <1>6, <2>1
  <2>9. \A k \in DOMAIN toWorker : \A p \in DOMAIN pipes : p < toWorker[k].id
    BY DEF IdsInv
  <2>10. \A k \in DOMAIN toWorker' : \A p \in DOMAIN pipes' : p < toWorker'[k].id
    BY <2>2, <2>8, <2>9
  <2>11. \A k \in DOMAIN jobs' \ {1} : \A i \in DOMAIN toWorker' : toWorker'[i].id < jobs'[k].id
    <3> SUFFICES ASSUME NEW k \in DOMAIN jobs', k # 1, NEW i \in DOMAIN toWorker' PROVE toWorker'[i].id < jobs'[k].id
      OBVIOUS
    <3>1. CASE i \in DOMAIN toWorker
      BY <2>2, <3>1
    <3>2. CASE i = Len(toWorker) + 1
      <4>1. 1 < k
        OBVIOUS
      <4> QED
        BY <2>1, <2>2, <3>2, <4>1
    <3> QED
      BY <2>2, <3>1, <3>2
  <2>12. \A k \in DOMAIN jobs' \ {1} : \A p \in DOMAIN pipes' : p < jobs'[k].id
    OBVIOUS
  <2> QED
    BY <2>3, <2>4, <2>7, <2>10, <2>11, <2>12 DEF IdsInv
<1> QED
  BY <1>5, <1>6

(* What makes a job.                                                       *)
LEMMA JobTyped ==
  ASSUME NEW i \in JobIds
  PROVE  /\ \A e \in Requests : Job(i, "event", e) \in Jobs
         /\ \A s \in Files : Job(i, "openFile", [type |-> "OpenSource", source |-> s]) \in Jobs
         /\ \A kind, e : Job(i, kind, e).id = i /\ Job(i, kind, e).kind = kind /\ Job(i, kind, e).event = e
BY DEF Job, Jobs

(* What a job carries.                                                     *)
LEMMA JobFields ==
  ASSUME NEW j \in Jobs
  PROVE  /\ j.id \in JobIds /\ j.kind \in {"init", "event", "openFile"}
         /\ j.kind = "event" => j.event \in Requests
         /\ j.kind = "openFile" => j.event \in Effects /\ j.event.type = "OpenSource"
BY DEF Jobs, Effects

(* No request looks like an answer that brings something.                  *)
LEMMA Asking ==
  ASSUME NEW e \in Requests
  PROVE  e \in Events /\ e.type \notin {"QueryDone", "CrateDetailDone", "FileOpened"}
<1>1. CASE e \in UserEvents
  <2>1. UserEvent(e)
    BY <1>1, ExplorerAssumption
  <2> QED
    BY <2>1 DEF UserEvent, PlainRequests, Events
<1>2. CASE e \in [type : {"QueryFailed", "FileOpenFailed"}]
  BY <1>2 DEF Events
<1> QED
  BY <1>1, <1>2 DEF Requests

(* What the page reports of a failure is a request.                        *)
LEMMA Reports == [type |-> "QueryFailed"] \in Requests /\ [type |-> "FileOpenFailed"] \in Requests
BY DEF Requests

(* Dispatch: a job more, posted at once when none is being answered.        *)
Queued(j) ==
  /\ j \in Jobs /\ j.id = NextId /\ NextId <= MaxJobs
  /\ jobs' = Append(jobs, j)
  /\ Pump(jobs', ~busy)
  /\ outcome' = [outcome EXCEPT ![NextId] = "pending"]

(* A dispatched event is one job more.                                     *)
LEMMA DispatchMeans ==
  ASSUME TypeOK, IdsInv, NEW e \in UserEvents, Dispatch(e)
  PROVE  /\ \E j : Queued(j)
         /\ UNCHANGED <<view, ready, pageError, toPage, worker, errors, thrown, asked>>
<1>1. PICK n \in JobIds : Sent = 1 .. n
  BY DEF IdsInv
<1>2. NextId = n + 1 /\ n \in Nat
  BY <1>1, Numbering
<1>3. CASE e.type = "OpenFile"
  <2>1. e.file \in Files
    BY <1>3, ExplorerAssumption DEF UserEvent, PlainRequests
  <2> DEFINE j == Job(NextId, "openFile", [type |-> "OpenSource", source |-> e.file])
  <2>2. NextId <= MaxJobs /\ NextId \in JobIds
    BY <1>2, <1>3, ExplorerAssumption DEF Dispatch, Enqueue, JobIds
  <2>3. Queued(j)
    BY <1>3, <2>1, <2>2, JobTyped DEF Dispatch, Enqueue, Queued
  <2> QED
    BY <2>3 DEF Dispatch
<1>4. CASE e.type # "OpenFile"
  <2> DEFINE j == Job(NextId, "event", e)
  <2>2. NextId <= MaxJobs /\ NextId \in JobIds
    BY <1>2, <1>4, ExplorerAssumption DEF Dispatch, Enqueue, JobIds
  <2>3. e \in Requests
    BY <1>4 DEF Requests
  <2>4. Queued(j)
    BY <1>4, <2>2, <2>3, JobTyped DEF Dispatch, Enqueue, Queued
  <2> QED
    BY <2>4 DEF Dispatch
<1> QED
  BY <1>3, <1>4

(* One message more has been sent.                                         *)
LEMMA SentMore ==
  ASSUME TypeOK, NEW n \in JobIds, Sent = 1 .. n, n + 1 <= MaxJobs, NEW o,
         o \in [JobIds -> {"none", "pending", "own", "foreign", "rejected"}],
         \A i \in JobIds : o[i] = "none" <=> outcome[i] = "none",
         outcome' = [o EXCEPT ![n + 1] = "pending"]
  PROVE  Sent' = 1 .. n + 1
<1>1. n \in Nat /\ n >= 1 /\ n + 1 \in JobIds
  BY ExplorerAssumption DEF JobIds
<1>2. \A i \in JobIds : outcome'[i] # "none" <=> (i \in 1 .. n \/ i = n + 1)
  BY <1>1 DEF Sent, TypeOK
<1> QED
  BY <1>1, <1>2 DEF Sent, JobIds

(* A job more keeps the numbering, and what is under way.                  *)
LEMMA QueuedStep ==
  ASSUME TypeOK, IdsInv, NEW j, Queued(j), UNCHANGED pipes
  PROVE  /\ jobs' \in Seq(Jobs) /\ busy' \in BOOLEAN /\ toWorker' \in Seq(Jobs)
         /\ outcome' \in [JobIds -> {"none", "pending", "own", "foreign", "rejected"}]
         /\ IdsInv'
         /\ busy' /\ jobs' # <<>>
         /\ busy => toWorker' = toWorker /\ jobs'[1] = jobs[1]
         /\ ~busy => jobs' [1] = j /\ toWorker' = Append(toWorker, j)
         /\ \A i \in JobIds : outcome'[i] = "foreign" => outcome[i] = "foreign"
<1>1. PICK n \in JobIds : Sent = 1 .. n
  BY DEF IdsInv
<1>2. NextId = n + 1 /\ n \in Nat /\ n + 1 <= MaxJobs /\ n + 1 \in JobIds
  BY <1>1, Numbering, ExplorerAssumption DEF Queued, JobIds
<1>3. jobs \in Seq(Jobs) /\ toWorker \in Seq(Jobs) /\ busy \in BOOLEAN
      /\ outcome \in [JobIds -> {"none", "pending", "own", "foreign", "rejected"}]
  BY DEF TypeOK
<1>4. j \in Jobs /\ j.id = n + 1 /\ jobs' = Append(jobs, j) /\ outcome' = [outcome EXCEPT ![n + 1] = "pending"]
  BY <1>2 DEF Queued
<1>5. /\ jobs' \in Seq(Jobs) /\ jobs' # <<>> /\ DOMAIN jobs' = 1 .. Len(jobs) + 1 /\ DOMAIN jobs = 1 .. Len(jobs)
      /\ \A i \in 1 .. Len(jobs) : jobs'[i] = jobs[i]
      /\ jobs'[Len(jobs) + 1] = j /\ Len(jobs) \in Nat
  BY <1>3, <1>4, Appended
<1>6. /\ toWorker' \in Seq(Jobs) /\ busy' \in BOOLEAN
      /\ ~busy => busy' /\ toWorker' = Append(toWorker, jobs'[1])
      /\ busy => toWorker' = toWorker /\ busy'
  <2>1. Pump(jobs', ~busy) /\ (~busy) \in BOOLEAN
    BY <1>3 DEF Queued
  <2> QED
    BY <1>3, <1>5, <2>1, PumpMeans
<1>7. Sent' = 1 .. n + 1
  BY <1>1, <1>2, <1>3, <1>4, SentMore
<1>8. outcome' \in [JobIds -> {"none", "pending", "own", "foreign", "rejected"}]
      /\ \A i \in JobIds : outcome'[i] = "foreign" => outcome[i] = "foreign"
  BY <1>2, <1>3, <1>4
<1>9. busy <=> Len(jobs) # 0
  BY <1>3, Emptied DEF IdsInv
<1>10. \A k \in DOMAIN jobs : jobs[k].id \in 1 .. n
  BY <1>1 DEF IdsInv
<1>11. \A k \in DOMAIN jobs' : jobs'[k].id \in 1 .. n + 1
  BY <1>2, <1>4, <1>5, <1>10
<1>12. \A i, k \in DOMAIN jobs' : i < k => jobs'[i].id < jobs'[k].id
  <2>1. \A i, k \in DOMAIN jobs : i < k => jobs[i].id < jobs[k].id
    BY DEF IdsInv
  <2> QED
    BY <1>2, <1>4, <1>5, <1>10, <2>1
<1>13. \A k \in DOMAIN jobs' : (k # 1 \/ toWorker' # toWorker) =>
           /\ \A i \in DOMAIN toWorker : toWorker[i].id < jobs'[k].id
           /\ \A p \in DOMAIN pipes : p < jobs'[k].id
  <2>1. \A i \in DOMAIN toWorker : toWorker[i].id \in 1 .. n
    BY <1>1 DEF IdsInv
  <2>2. \A p \in DOMAIN pipes : p \in 1 .. n
    BY <1>1 DEF IdsInv
  <2>3. \A k \in DOMAIN jobs \ {1} :
           /\ \A i \in DOMAIN toWorker : toWorker[i].id < jobs[k].id
           /\ \A p \in DOMAIN pipes : p < jobs[k].id
    BY DEF IdsInv
  <2> SUFFICES ASSUME NEW k \in DOMAIN jobs', k # 1 \/ toWorker' # toWorker
               PROVE  /\ \A i \in DOMAIN toWorker : toWorker[i].id < jobs'[k].id
                      /\ \A p \in DOMAIN pipes : p < jobs'[k].id
    OBVIOUS
  <2>4. CASE k = Len(jobs) + 1
    <3>1. jobs'[k].id = n + 1
      BY <1>4, <1>5, <2>4
    <3> QED
      BY <1>2, <2>1, <2>2, <3>1
  <2>5. CASE k \in DOMAIN jobs
    <3>1. busy
      BY <1>5, <1>9, <2>5
    <3>2. k # 1
      BY <1>6, <3>1
    <3> QED
      BY <1>5, <2>3, <2>5, <3>2
  <2> QED
    BY <1>5, <2>4, <2>5
<1>14. IdsInv'
  <2>1. n <= n + 1 /\ n + 1 \in JobIds
    BY <1>2
  <2>2. toWorker' = toWorker \/ (jobs' # <<>> /\ toWorker' = Append(toWorker, jobs'[1]))
    BY <1>3, <1>5, <1>6
  <2>3. busy' <=> jobs' # <<>>
    BY <1>3, <1>5, <1>6
  <2> QED
    BY <1>1, <1>5, <1>7, <1>11, <1>12, <1>13, <2>1, <2>2, <2>3, PostStep
<1>15. busy => jobs'[1] = jobs[1]
  BY <1>5, <1>9
<1>16. ~busy => jobs'[1] = j
  BY <1>5, <1>9
<1> QED
  BY <1>3, <1>5, <1>6, <1>8, <1>14, <1>15, <1>16

(* What can have become of the messages.                                   *)
Outcomes == [JobIds -> {"none", "pending", "own", "foreign", "rejected"}]

(* The first job has its answer, and maybe a report comes after the others. *)
LEMMA OnMessageMeans ==
  ASSUME TypeOK, IdsInv, OnMessage, jobs # <<>>
  PROVE  /\ jobs' \in Seq(Jobs) /\ busy' \in BOOLEAN /\ toWorker' \in Seq(Jobs) /\ outcome' \in Outcomes
         /\ IdsInv'
         /\ jobs' # <<>> => busy' /\ toWorker' = Append(toWorker, jobs'[1])
         /\ jobs' = <<>> => ~busy' /\ toWorker' = toWorker
         /\ \A i \in JobIds : outcome'[i] = "foreign" => outcome[i] = "foreign" \/ Head(toPage).id # jobs[1].id
<1> DEFINE reply == Head(toPage)
           job == Head(jobs)
           rest == Tail(jobs)
           report == reply.kind = "error" /\ job.kind = "openFile" /\ NextId <= MaxJobs
           j == Job(NextId, "event", [type |-> "QueryFailed"])
           queue == IF report THEN Append(rest, j) ELSE rest
           settled == [outcome EXCEPT ![job.id] = IF reply.kind = "error" THEN "rejected"
                                                  ELSE IF reply.id = job.id THEN "own" ELSE "foreign"]
<1>1. PICK n \in JobIds : Sent = 1 .. n
  BY DEF IdsInv
<1>2. NextId = n + 1 /\ n \in Nat /\ n >= 1 /\ MaxJobs \in Nat
  BY <1>1, Numbering, ExplorerAssumption
<1>3. jobs \in Seq(Jobs) /\ toWorker \in Seq(Jobs) /\ outcome \in Outcomes
  BY DEF TypeOK, Outcomes
<1>4. /\ jobs' = queue /\ Pump(queue, TRUE)
      /\ outcome' = IF report THEN [settled EXCEPT ![NextId] = "pending"] ELSE settled
      /\ UNCHANGED pipes
  BY DEF OnMessage, worker
<1>5. /\ job = jobs[1] /\ job \in Jobs /\ rest \in Seq(Jobs) /\ Len(rest) = Len(jobs) - 1
      /\ DOMAIN rest = 1 .. Len(jobs) - 1 /\ DOMAIN jobs = 1 .. Len(jobs) /\ Len(jobs) \in Nat \ {0}
      /\ \A i \in 1 .. Len(jobs) - 1 : rest[i] = jobs[i + 1]
  BY <1>3, Popped
<1>15. \A k \in DOMAIN jobs : jobs[k].id \in 1 .. n
  BY <1>1 DEF IdsInv
<1>16. /\ 1 \in DOMAIN jobs
       /\ \A k \in DOMAIN rest : k \in Nat /\ k + 1 \in DOMAIN jobs \ {1} /\ rest[k] = jobs[k + 1]
  BY <1>5
<1>6. job.id \in 1 .. n
  BY <1>5, <1>15, <1>16
<1>7. settled \in Outcomes /\ \A i \in JobIds : settled[i] = "none" <=> outcome[i] = "none"
  <2>1. job.id \in JobIds /\ outcome[job.id] # "none"
    BY <1>1, <1>6 DEF Sent
  <2> QED
    BY <1>3, <2>1 DEF Outcomes
<1>8. \A i \in JobIds : settled[i] = "foreign" => outcome[i] = "foreign" \/ reply.id # job.id
  BY <1>3 DEF Outcomes
<1> HIDE DEF settled, job, reply, rest
<1>9. \A k \in DOMAIN rest : rest[k].id \in 1 .. n
  BY <1>15, <1>16
<1>10. \A i, k \in DOMAIN rest : i < k => rest[i].id < rest[k].id
  <2>1. \A i, k \in DOMAIN jobs : i < k => jobs[i].id < jobs[k].id
    BY DEF IdsInv
  <2> SUFFICES ASSUME NEW i \in DOMAIN rest, NEW k \in DOMAIN rest, i < k PROVE rest[i].id < rest[k].id
    OBVIOUS
  <2>2. i + 1 < k + 1 /\ rest[i] = jobs[i + 1] /\ rest[k] = jobs[k + 1] /\ i + 1 \in DOMAIN jobs /\ k + 1 \in DOMAIN jobs
    BY <1>16
  <2> QED
    BY <2>1, <2>2
<1>11. \A k \in DOMAIN rest :
           /\ \A i \in DOMAIN toWorker : toWorker[i].id < rest[k].id
           /\ \A p \in DOMAIN pipes : p < rest[k].id
  <2>1. \A k \in DOMAIN jobs \ {1} :
           /\ \A i \in DOMAIN toWorker : toWorker[i].id < jobs[k].id
           /\ \A p \in DOMAIN pipes : p < jobs[k].id
    BY DEF IdsInv
  <2> QED
    BY <1>16, <2>1
<1>12. ASSUME queue \in Seq(Jobs), NEW m \in JobIds, n <= m, Sent' = 1 .. m,
              \A k \in DOMAIN queue : queue[k].id \in 1 .. m,
              \A i, k \in DOMAIN queue : i < k => queue[i].id < queue[k].id,
              \A k \in DOMAIN queue :
                 /\ \A i \in DOMAIN toWorker : toWorker[i].id < queue[k].id
                 /\ \A p \in DOMAIN pipes : p < queue[k].id
       PROVE  /\ jobs' \in Seq(Jobs) /\ busy' \in BOOLEAN /\ toWorker' \in Seq(Jobs)
              /\ IdsInv'
              /\ jobs' # <<>> => busy' /\ toWorker' = Append(toWorker, jobs'[1])
              /\ jobs' = <<>> => ~busy' /\ toWorker' = toWorker
  <2> HIDE DEF queue
  <2>1. TRUE \in BOOLEAN
    OBVIOUS
  <2>2. /\ toWorker' \in Seq(Jobs) /\ busy' \in BOOLEAN
        /\ queue # <<>> => busy' /\ toWorker' = Append(toWorker, queue[1])
        /\ queue = <<>> => toWorker' = toWorker /\ ~busy'
    BY <1>3, <1>4, <1>12, <2>1, PumpMeans
  <2>3. jobs' = queue
    BY <1>4
  <2>4. /\ toWorker' = toWorker \/ (jobs' # <<>> /\ toWorker' = Append(toWorker, jobs'[1]))
        /\ busy' <=> jobs' # <<>>
    BY <2>2, <2>3
  <2>5. UNCHANGED pipes
    BY <1>4
  <2>6. IdsInv'
    BY <1>1, <1>12, <2>3, <2>4, <2>5, PostStep
  <2> QED
    BY <1>12, <2>2, <2>3, <2>6
<1>13. CASE report
  <2>1. n + 1 \in JobIds /\ j \in Jobs /\ j.id = n + 1
    <3>1. n + 1 \in JobIds
      BY <1>2, <1>13 DEF JobIds
    <3>2. j = Job(n + 1, "event", [type |-> "QueryFailed"])
      BY <1>2
    <3> QED
      BY <3>1, <3>2, JobTyped, Reports
  <2> HIDE DEF j
  <2>2. /\ queue = Append(rest, j) /\ outcome' = [settled EXCEPT ![n + 1] = "pending"]
    BY <1>2, <1>4, <1>13
  <2>3. /\ queue \in Seq(Jobs) /\ DOMAIN queue = 1 .. Len(rest) + 1 /\ Len(rest) \in Nat
        /\ \A i \in 1 .. Len(rest) : queue[i] = rest[i]
        /\ queue[Len(rest) + 1] = j /\ DOMAIN rest = 1 .. Len(rest)
    BY <1>5, <2>1, <2>2, Appended
  <2>4. Sent' = 1 .. n + 1
    BY <1>1, <1>2, <1>7, <1>13, <2>2, SentMore DEF Outcomes
  <2> HIDE DEF queue
  <2>5. \A k \in DOMAIN queue : queue[k].id \in 1 .. n + 1
    BY <1>2, <1>9, <2>1, <2>3
  <2>6. \A i, k \in DOMAIN queue : i < k => queue[i].id < queue[k].id
    BY <1>2, <1>9, <1>10, <2>1, <2>3
  <2>7. \A k \in DOMAIN queue :
           /\ \A i \in DOMAIN toWorker : toWorker[i].id < queue[k].id
           /\ \A p \in DOMAIN pipes : p < queue[k].id
    <3>1. \A i \in DOMAIN toWorker : toWorker[i].id \in 1 .. n
      BY <1>1 DEF IdsInv
    <3>2. \A p \in DOMAIN pipes : p \in 1 .. n
      BY <1>1 DEF IdsInv
    <3> SUFFICES ASSUME NEW k \in DOMAIN queue
                 PROVE  /\ \A i \in DOMAIN toWorker : toWorker[i].id < queue[k].id
                        /\ \A p \in DOMAIN pipes : p < queue[k].id
      OBVIOUS
    <3>3. CASE k \in DOMAIN rest
      BY <1>11, <2>3, <3>3
    <3>4. CASE k = Len(rest) + 1
      BY <1>2, <2>1, <2>3, <3>1, <3>2, <3>4
    <3> QED
      BY <2>3, <3>3, <3>4
  <2>8. outcome' \in Outcomes /\ \A i \in JobIds : outcome'[i] = "foreign" => settled[i] = "foreign"
    BY <1>7, <2>1, <2>2 DEF Outcomes
  <2>9. n <= n + 1
    BY <1>2
  <2> QED
    BY <1>5, <1>8, <1>12, <2>1, <2>3, <2>4, <2>5, <2>6, <2>7, <2>8, <2>9 DEF reply
<1>14. CASE ~report
  <2>1. queue = rest /\ outcome' = settled
    BY <1>4, <1>14
  <2>2. Sent' = 1 .. n
    <3>1. \A i \in JobIds : outcome'[i] # "none" <=> outcome[i] # "none"
      BY <1>7, <2>1
    <3> QED
      BY <1>1, <3>1 DEF Sent
  <2> HIDE DEF queue
  <2>3. n <= n
    BY <1>2
  <2> QED
    BY <1>5, <1>7, <1>8, <1>9, <1>10, <1>11, <1>12, <2>1, <2>2, <2>3 DEF reply
<1> QED
  BY <1>13, <1>14

(* An error event: the reports are the whole queue.                         *)
LEMMA OnErrorMeans ==
  ASSUME TypeOK, IdsInv, OnError
  PROVE  /\ jobs' \in Seq(Jobs) /\ busy' \in BOOLEAN /\ toWorker' \in Seq(Jobs) /\ outcome' \in Outcomes
         /\ IdsInv'
<1> DEFINE opens == Cardinality({k \in DOMAIN jobs : jobs[k].kind = "openFile"})
           room == MaxJobs - Cardinality(Sent)
           report(i) == IF i <= opens THEN [type |-> "QueryFailed"] ELSE [type |-> "FileOpenFailed"]
           m == IF opens < room THEN opens + 1 ELSE room
           queue == [i \in 1 .. m |-> Job(NextId + i - 1, "event", report(i))]
<1>1. PICK n \in JobIds : Sent = 1 .. n
  BY DEF IdsInv
<1>2. NextId = n + 1 /\ Cardinality(Sent) = n /\ n \in Nat /\ n >= 1 /\ MaxJobs \in Nat /\ n <= MaxJobs
  BY <1>1, Numbering, ExplorerAssumption
<1>3. jobs \in Seq(Jobs) /\ toWorker \in Seq(Jobs) /\ outcome \in Outcomes
  BY DEF TypeOK, Outcomes
<1>4. opens \in Nat
  <2>1. DOMAIN jobs = 1 .. Len(jobs) /\ Len(jobs) \in Nat
    BY <1>3
  <2>2. IsFiniteSet(1 .. Len(jobs))
    BY <2>1, FS_Interval
  <2>3. IsFiniteSet({k \in DOMAIN jobs : jobs[k].kind = "openFile"})
    BY <2>1, <2>2, FS_Subset
  <2> QED
    BY <2>3, FS_CardinalityType
<1>5. m \in Nat /\ n + m <= MaxJobs
  BY <1>2, <1>4
<1>6. /\ jobs' = queue /\ Pump(queue, TRUE) /\ UNCHANGED pipes
      /\ outcome' = [i \in JobIds |->
                       IF \E k \in DOMAIN jobs : jobs[k].id = i THEN "rejected"
                       ELSE IF \E k \in DOMAIN queue : queue[k].id = i THEN "pending"
                       ELSE outcome[i]]
  BY DEF OnError, worker
<1>7. \A i : report(i) \in Requests
  BY Reports
<1> HIDE DEF opens, room, m, report
<1>8. \A i \in 1 .. m : n + i \in JobIds /\ Job(n + i, "event", report(i)) \in Jobs /\ Job(n + i, "event", report(i)).id = n + i
  <2> SUFFICES ASSUME NEW i \in 1 .. m PROVE n + i \in JobIds /\ Job(n + i, "event", report(i)) \in Jobs /\ Job(n + i, "event", report(i)).id = n + i
    OBVIOUS
  <2>1. n + i \in JobIds
    BY <1>2, <1>5 DEF JobIds
  <2> QED
    BY <1>7, <2>1, JobTyped
<1>9. \A i \in 1 .. m : NextId + i - 1 = n + i
  BY <1>2, <1>5
<1>10. /\ queue \in Seq(Jobs) /\ DOMAIN queue = 1 .. m
       /\ \A i \in 1 .. m : queue[i].id = n + i
  BY <1>5, <1>8, <1>9
<1> HIDE DEF queue
<1>11. outcome' \in Outcomes
  BY <1>3, <1>6 DEF Outcomes
<1>12. Sent' = 1 .. n + m
  <2>1. \A k \in DOMAIN jobs : jobs[k].id \in 1 .. n
    BY <1>1 DEF IdsInv
  <2>2. \A i \in JobIds : (\E k \in DOMAIN queue : queue[k].id = i) <=> i \in n + 1 .. n + m
    <3> SUFFICES ASSUME NEW i \in JobIds PROVE (\E k \in DOMAIN queue : queue[k].id = i) <=> i \in n + 1 .. n + m
      OBVIOUS
    <3>1. i \in n + 1 .. n + m => i - n \in 1 .. m /\ queue[i - n].id = i
      BY <1>2, <1>5, <1>10 DEF JobIds
    <3>2. (\E k \in DOMAIN queue : queue[k].id = i) => i \in n + 1 .. n + m
      BY <1>2, <1>5, <1>10
    <3> QED
      BY <1>10, <3>1, <3>2
  <2>3. \A i \in JobIds : outcome[i] # "none" <=> i \in 1 .. n
    BY <1>1 DEF Sent
  <2>4. \A i \in JobIds : outcome'[i] # "none" <=> (i \in 1 .. n \/ i \in n + 1 .. n + m)
    <3> SUFFICES ASSUME NEW i \in JobIds PROVE outcome'[i] # "none" <=> (i \in 1 .. n \/ i \in n + 1 .. n + m)
      OBVIOUS
    <3>1. CASE \E k \in DOMAIN jobs : jobs[k].id = i
      BY <1>6, <2>1, <3>1
    <3>2. CASE ~(\E k \in DOMAIN jobs : jobs[k].id = i) /\ \E k \in DOMAIN queue : queue[k].id = i
      BY <1>6, <2>2, <3>2
    <3>3. CASE ~(\E k \in DOMAIN jobs : jobs[k].id = i) /\ ~(\E k \in DOMAIN queue : queue[k].id = i)
      <4>1. outcome'[i] = outcome[i]
        BY <1>6, <3>3
      <4> QED
        BY <2>2, <2>3, <3>3, <4>1
    <3> QED
      BY <3>1, <3>2, <3>3
  <2> QED
    BY <1>2, <1>5, <2>4 DEF Sent, JobIds
<1>13. /\ toWorker' \in Seq(Jobs) /\ busy' \in BOOLEAN
       /\ queue # <<>> => busy' /\ toWorker' = Append(toWorker, queue[1])
       /\ queue = <<>> => toWorker' = toWorker /\ ~busy'
  <2>1. TRUE \in BOOLEAN
    OBVIOUS
  <2> QED
    BY <1>3, <1>6, <1>10, <2>1, PumpMeans
<1>14. IdsInv'
  <2>1. n <= n + m /\ n + m \in JobIds
    BY <1>2, <1>5 DEF JobIds
  <2>2. \A k \in DOMAIN queue : queue[k].id \in 1 .. n + m
    BY <1>2, <1>5, <1>10
  <2>3. \A i, k \in DOMAIN queue : i < k => queue[i].id < queue[k].id
    BY <1>2, <1>5, <1>10
  <2>4. \A k \in DOMAIN queue :
           /\ \A i \in DOMAIN toWorker : toWorker[i].id < queue[k].id
           /\ \A p \in DOMAIN pipes : p < queue[k].id
    <3>1. \A i \in DOMAIN toWorker : toWorker[i].id \in 1 .. n
      BY <1>1 DEF IdsInv
    <3>2. \A p \in DOMAIN pipes : p \in 1 .. n
      BY <1>1 DEF IdsInv
    <3> QED
      BY <1>2, <1>5, <1>10, <3>1, <3>2
  <2>5. jobs' = queue /\ UNCHANGED pipes
    BY <1>6
  <2>6. /\ toWorker' = toWorker \/ (jobs' # <<>> /\ toWorker' = Append(toWorker, jobs'[1]))
        /\ busy' <=> jobs' # <<>>
    BY <1>13, <2>5
  <2> QED
    BY <1>1, <1>10, <1>12, <2>1, <2>2, <2>3, <2>4, <2>5, <2>6, PostStep
<1> QED
  BY <1>6, <1>10, <1>11, <1>13, <1>14

(* What a pipeline is made of.                                             *)
LEMMA PipeTyped ==
  ASSUME TypeOK, NEW p \in DOMAIN pipes
  PROVE  /\ pipes[p] \in Pipes /\ p \in JobIds
         /\ pipes[p].queue \in Seq(Events) /\ pipes[p].effects \in Seq(Effects)
         /\ pipes[p].effect.on \in BOOLEAN /\ pipes[p].effect.file \in MaybeFile
         /\ pipes[p].view \in MaybeView
BY DEF TypeOK, Pipes

(* A pipeline that ends leaves the others alone and gives one reply.        *)
LEMMA EndMeans ==
  ASSUME TypeOK, NEW p \in DOMAIN pipes, NEW kind \in {"response", "error"}, NEW v \in MaybeView,
         Answer(p, kind, v), DropPipe(p)
  PROVE  /\ DOMAIN pipes' = DOMAIN pipes \ {p} /\ pipes' \in [DOMAIN pipes' -> Pipes]
         /\ \A r \in DOMAIN pipes' : pipes'[r] = pipes[r]
         /\ toPage' \in Seq(Replies) /\ Len(toPage') = Len(toPage) + 1 /\ Len(toPage) \in Nat
         /\ \E a \in Replies : toPage' = Append(toPage, a) /\ a.id = p /\ a.kind = kind /\ a.view = v
<1> DEFINE a == [id |-> p, kind |-> kind, view |-> v]
<1>1. a \in Replies
  BY PipeTyped DEF Replies
<1>2. toPage' = Append(toPage, a) /\ toPage \in Seq(Replies)
  BY DEF Answer, TypeOK
<1>3. a.id = p /\ a.kind = kind /\ a.view = v
  OBVIOUS
<1> HIDE DEF a
<1>4. toPage' \in Seq(Replies) /\ Len(toPage') = Len(toPage) + 1 /\ Len(toPage) \in Nat
  BY <1>1, <1>2, Appended
<1>5. /\ DOMAIN pipes' = DOMAIN pipes \ {p} /\ pipes' \in [DOMAIN pipes' -> Pipes]
      /\ \A r \in DOMAIN pipes' : pipes'[r] = pipes[r]
  BY DEF DropPipe, TypeOK
<1> QED
  BY <1>1, <1>2, <1>3, <1>4, <1>5

(* A pipeline that finishes answers with the view it has.                  *)
LEMMA FinishMeans ==
  ASSUME TypeOK, NEW p \in DOMAIN pipes, Finish(p)
  PROVE  /\ pipes[p].queue = <<>> /\ pipes[p].effects = <<>>
         /\ DOMAIN pipes' = DOMAIN pipes \ {p} /\ pipes' \in [DOMAIN pipes' -> Pipes]
         /\ \A r \in DOMAIN pipes' : pipes'[r] = pipes[r]
         /\ toPage' \in Seq(Replies) /\ Len(toPage') = Len(toPage) + 1 /\ Len(toPage) \in Nat
         /\ \E a \in Replies : toPage' = Append(toPage, a) /\ a.id = p /\ a.kind = "response" /\ a.view = pipes[p].view
         /\ UNCHANGED <<page, toWorker, eng, store, outcome, errors, thrown, asked>>
<1>1. pipes[p].view \in MaybeView
  BY PipeTyped
<1>2. Answer(p, "response", pipes[p].view) /\ DropPipe(p)
  BY DEF Finish
<1>3. /\ pipes[p].queue = <<>> /\ pipes[p].effects = <<>>
      /\ UNCHANGED <<page, toWorker, eng, store, outcome, errors, thrown, asked>>
  BY DEF Finish
<1> QED
  BY <1>1, <1>2, <1>3, EndMeans, ZenonT(60)

(* A warm-up that throws answers with an error.                            *)
LEMMA WarmThrowsMeans ==
  ASSUME TypeOK, NEW p \in DOMAIN pipes, WarmThrows(p)
  PROVE  /\ DOMAIN pipes' = DOMAIN pipes \ {p} /\ pipes' \in [DOMAIN pipes' -> Pipes]
         /\ \A r \in DOMAIN pipes' : pipes'[r] = pipes[r]
         /\ toPage' \in Seq(Replies) /\ Len(toPage') = Len(toPage) + 1 /\ Len(toPage) \in Nat
         /\ \E a \in Replies : toPage' = Append(toPage, a) /\ a.id = p
         /\ thrown' = thrown + 1 /\ thrown' \in Nat /\ thrown' # 0
         /\ UNCHANGED <<page, toWorker, eng, store, outcome, errors, asked>>
<1>1. None \in MaybeView
  BY DEF MaybeView
<1>2. Answer(p, "error", None) /\ DropPipe(p)
  BY DEF WarmThrows
<1>3. /\ thrown' = thrown + 1 /\ thrown' \in Nat /\ thrown' # 0
      /\ UNCHANGED <<page, toWorker, eng, store, outcome, errors, asked>>
  BY DEF WarmThrows, TypeOK
<1>4. /\ DOMAIN pipes' = DOMAIN pipes \ {p} /\ pipes' \in [DOMAIN pipes' -> Pipes]
      /\ \A r \in DOMAIN pipes' : pipes'[r] = pipes[r]
      /\ toPage' \in Seq(Replies) /\ Len(toPage') = Len(toPage) + 1 /\ Len(toPage) \in Nat
      /\ \E a \in Replies : toPage' = Append(toPage, a) /\ a.id = p /\ a.kind = "error" /\ a.view = None
  BY <1>1, <1>2, EndMeans, ZenonT(60)
<1> QED
  BY <1>3, <1>4

(* The pipeline a message starts.                                           *)
NewPipe(m) ==
  [queue |-> IF m.kind = "event" THEN <<m.event>> ELSE <<>>,
   effects |-> IF m.kind = "openFile" THEN <<m.event>> ELSE <<>>,
   effect |-> NoEffect, view |-> None]

(* A new pipeline is one.                                                  *)
LEMMA NewPipeTyped == ASSUME NEW m \in Jobs PROVE NewPipe(m) \in Pipes
<1>1. /\ (IF m.kind = "event" THEN <<m.event>> ELSE <<>>) \in Seq(Events)
      /\ (IF m.kind = "openFile" THEN <<m.event>> ELSE <<>>) \in Seq(Effects)
  BY JobFields, Asking
<1>2. NoEffect \in [on : BOOLEAN, file : MaybeFile] /\ None \in MaybeView
  BY DEF NoEffect, MaybeFile, MaybeView
<1> QED
  BY <1>1, <1>2 DEF NewPipe, Pipes

(* A message resets the engine or starts a pipeline.                       *)
LEMMA ReceiveMeans ==
  ASSUME TypeOK, IdsInv, Receive
  PROVE  LET m == toWorker[1] IN
         /\ toWorker # <<>> /\ toWorker' = Tail(toWorker) /\ m \in Jobs /\ m.id \notin DOMAIN pipes
         /\ UNCHANGED <<page, store, outcome, errors, thrown, asked>>
         /\ \/ /\ m.kind = "init" /\ UNCHANGED pipes /\ eng' = Reset(eng) /\ eng' \in EngineStates
               /\ \E a \in Replies : toPage' = Append(toPage, a) /\ a.id = m.id /\ a.kind = "initialized" /\ a.view = ViewModel(eng')
            \/ /\ m.kind # "init" /\ UNCHANGED <<eng, toPage>>
               /\ DOMAIN pipes' = DOMAIN pipes \cup {m.id} /\ pipes' \in [DOMAIN pipes' -> Pipes]
               /\ pipes'[m.id] = NewPipe(m)
               /\ \A r \in DOMAIN pipes : pipes'[r] = pipes[r]
<1> DEFINE m == toWorker[1]
<1>1. toWorker \in Seq(Jobs) /\ toWorker # <<>> /\ toWorker' = Tail(toWorker)
  BY DEF TypeOK, Receive
<1>2. Head(toWorker) = m /\ m \in Jobs /\ 1 \in DOMAIN toWorker
  BY <1>1, Popped
<1>3. m.id \notin DOMAIN pipes
  <2>1. \A p \in DOMAIN pipes : p < m.id
    BY <1>2 DEF IdsInv
  <2>2. m.id \in JobIds
    BY <1>2, JobFields
  <2> QED
    BY <2>1, <2>2 DEF JobIds
<1>4. UNCHANGED <<page, store, outcome, errors, thrown, asked>>
  BY DEF Receive
<1>5. CASE m.kind = "init"
  <2> DEFINE a == [id |-> m.id, kind |-> "initialized", view |-> ViewModel(eng')]
  <2>1. eng' = Reset(eng) /\ toPage' = Append(toPage, a) /\ UNCHANGED pipes
    BY <1>2, <1>5 DEF Receive, Answer
  <2>2. eng' \in EngineStates
    BY <2>1, ResetWell DEF TypeOK
  <2>3. ViewModel(eng') \in MaybeView
    BY <2>2, ViewWell DEF MaybeView
  <2>4. a \in Replies
    BY <1>2, <2>3, JobFields DEF Replies
  <2>5. a.id = m.id /\ a.kind = "initialized" /\ a.view = ViewModel(eng')
    OBVIOUS
  <2> HIDE DEF a
  <2>6. \E b \in Replies : toPage' = Append(toPage, b) /\ b.id = m.id /\ b.kind = "initialized" /\ b.view = ViewModel(eng')
    BY <2>1, <2>4, <2>5
  <2> QED
    BY <1>1, <1>2, <1>3, <1>4, <1>5, <2>1, <2>2, <2>6
<1>6. CASE m.kind # "init"
  <2>1. /\ pipes' = [q \in DOMAIN pipes \cup {m.id} |-> IF q = m.id THEN NewPipe(m) ELSE pipes[q]]
        /\ UNCHANGED <<eng, toPage>>
    BY <1>2, <1>6 DEF Receive, NewPipe
  <2>2. NewPipe(m) \in Pipes /\ pipes \in [DOMAIN pipes -> Pipes]
    BY <1>2, NewPipeTyped DEF TypeOK
  <2>3. /\ DOMAIN pipes' = DOMAIN pipes \cup {m.id} /\ pipes' \in [DOMAIN pipes' -> Pipes]
        /\ pipes'[m.id] = NewPipe(m)
        /\ \A r \in DOMAIN pipes : pipes'[r] = pipes[r]
    BY <1>3, <2>1, <2>2
  <2> QED
    BY <1>1, <1>2, <1>3, <1>4, <1>6, <2>1, <2>3
<1> QED
  BY <1>5, <1>6

(* The engine takes the next event of a pipeline.                           *)
LEMMA HandleMeans ==
  ASSUME TypeOK, NEW p \in DOMAIN pipes, Handle(p)
  PROVE  LET e == Head(pipes[p].queue)
             h == HandleEvent(eng, e)
         IN  /\ pipes[p].effects = <<>> /\ pipes[p].queue # <<>> /\ e \in Events
             /\ WellFormed(h) /\ Faithful(eng, e, h) /\ eng' = h.state
             /\ DOMAIN pipes' = DOMAIN pipes /\ pipes' \in [DOMAIN pipes' -> Pipes]
             /\ \A r \in DOMAIN pipes : r # p => pipes'[r] = pipes[r]
             /\ pipes'[p].queue = Tail(pipes[p].queue) /\ pipes'[p].effects = h.effects
             /\ pipes'[p].effect = pipes[p].effect /\ pipes'[p].view = ViewModel(eng')
             /\ UNCHANGED <<page, toWorker, toPage, store, outcome, errors, thrown>>
<1> DEFINE e == Head(pipes[p].queue)
           h == HandleEvent(eng, e)
<1>1. pipes[p].effects = <<>> /\ pipes[p].queue # <<>> /\ UNCHANGED <<page, toWorker, toPage, store, outcome, errors, thrown>>
  BY DEF Handle
<1>2. pipes[p] \in Pipes /\ pipes \in [DOMAIN pipes -> Pipes] /\ pipes[p].queue \in Seq(Events)
  BY PipeTyped DEF TypeOK
<1>3. e \in Events /\ Tail(pipes[p].queue) \in Seq(Events)
  BY <1>1, <1>2, Popped
<1>4. WellFormed(h) /\ Faithful(eng, e, h)
  BY <1>3, AnEngineEvent, HandleFaithful DEF TypeOK
<1>5. /\ eng' = h.state
      /\ pipes' = [pipes EXCEPT ![p].queue = Tail(@), ![p].effects = h.effects, ![p].view = ViewModel(h.state)]
  BY DEF Handle
<1> HIDE DEF e, h
<1>6. h.state \in EngineStates /\ h.effects \in Seq(Effects)
  BY <1>4 DEF WellFormed
<1>7. ViewModel(h.state) \in MaybeView
  BY <1>6, ViewWell DEF MaybeView
<1>8. /\ DOMAIN pipes' = DOMAIN pipes
      /\ \A r \in DOMAIN pipes : r # p => pipes'[r] = pipes[r]
      /\ pipes' = [r \in DOMAIN pipes |-> pipes'[r]]
  BY <1>2, <1>5
<1>9. pipes'[p] = [[[pipes[p] EXCEPT !.queue = Tail(pipes[p].queue)] EXCEPT !.effects = h.effects]
                      EXCEPT !.view = ViewModel(h.state)]
  BY <1>2, <1>5 DEF Pipes
<1>10. pipes'[p] \in Pipes
  BY <1>2, <1>3, <1>6, <1>7, <1>9 DEF Pipes
<1>11. /\ pipes'[p].queue = Tail(pipes[p].queue) /\ pipes'[p].effects = h.effects
       /\ pipes'[p].effect = pipes[p].effect /\ pipes'[p].view = ViewModel(h.state)
  BY <1>2, <1>9 DEF Pipes
<1>12. pipes' \in [DOMAIN pipes' -> Pipes]
  BY <1>2, <1>8, <1>10
<1> QED
  BY <1>1, <1>3, <1>4, <1>5, <1>8, <1>11, <1>12 DEF e, h

(* What an effect does to its pipeline.                                     *)
LEMMA BeginsMeans ==
  ASSUME TypeOK, NEW p \in DOMAIN pipes, Begins(p)
  PROVE  /\ DOMAIN pipes' = DOMAIN pipes /\ pipes' \in [DOMAIN pipes' -> Pipes]
         /\ \A r \in DOMAIN pipes : r # p => pipes'[r] = pipes[r]
         /\ pipes'[p].queue = pipes[p].queue /\ pipes'[p].effects = pipes[p].effects
         /\ pipes'[p].effect.file = store.file /\ pipes'[p].view = pipes[p].view
         /\ store' \in [file : MaybeFile, warmed : WorkerCounts \cup {None}]
         /\ Head(pipes[p].effects).type # "OpenSource" => store' = store
<1>1. pipes[p] \in Pipes /\ pipes \in [DOMAIN pipes -> Pipes] /\ store \in [file : MaybeFile, warmed : WorkerCounts \cup {None}]
  BY PipeTyped DEF TypeOK
<1> DEFINE u == [on |-> TRUE, file |-> store.file]
<1>2. u \in [on : BOOLEAN, file : MaybeFile] /\ u.file = store.file
  BY <1>1
<1>3. pipes' = [pipes EXCEPT ![p].effect = u]
  BY DEF Begins
<1>4. NoFile \in [file : MaybeFile, warmed : WorkerCounts \cup {None}]
  BY DEF NoFile, MaybeFile
<1>5. /\ store' \in [file : MaybeFile, warmed : WorkerCounts \cup {None}]
      /\ Head(pipes[p].effects).type # "OpenSource" => store' = store
  BY <1>1, <1>4 DEF Begins
<1> HIDE DEF u
<1>6. /\ DOMAIN pipes' = DOMAIN pipes
      /\ \A r \in DOMAIN pipes : r # p => pipes'[r] = pipes[r]
      /\ pipes' = [r \in DOMAIN pipes |-> pipes'[r]]
      /\ pipes'[p] = [pipes[p] EXCEPT !.effect = u]
  BY <1>1, <1>3
<1>7. /\ pipes'[p] \in Pipes
      /\ pipes'[p].queue = pipes[p].queue /\ pipes'[p].effects = pipes[p].effects
      /\ pipes'[p].effect = u /\ pipes'[p].view = pipes[p].view
  BY <1>1, <1>2, <1>6 DEF Pipes
<1> QED
  BY <1>1, <1>2, <1>5, <1>6, <1>7

(* An effect that ends hands over one event at most.                       *)
LEMMA EndsDone ==
  ASSUME TypeOK, NEW p \in DOMAIN pipes, pipes[p].effects # <<>>, Ends(p)
  PROVE  \E evs \in Seq(Events) :
           /\ EffectDone(p, evs) /\ Len(evs) <= 1
           /\ \/ evs = <<>> /\ Head(pipes[p].effects).type = "WarmWorkers" /\ store.file = None
              \/ \E ev : evs = <<ev>> /\ EndsWith(p, Head(pipes[p].effects), ev)
<1>1. CASE EffectDone(p, <<>>) /\ Head(pipes[p].effects).type = "WarmWorkers" /\ store.file = None
  <2>1. <<>> \in Seq(Events) /\ Len(<<>>) <= 1
    OBVIOUS
  <2> QED
    BY <1>1, <2>1
<1>2. CASE \E ev : EndsWith(p, Head(pipes[p].effects), ev)
  <2>1. PICK ev : EndsWith(p, Head(pipes[p].effects), ev)
    BY <1>2
  <2>2. <<ev>> \in Seq(Events) /\ Len(<<ev>>) <= 1 /\ EffectDone(p, <<ev>>)
    BY <2>1 DEF EndsWith
  <2> QED
    BY <2>1, <2>2
<1> QED
  BY <1>1, <1>2 DEF Ends

(* Every step keeps the types.                                             *)
LEMMA TypeNext == ASSUME TypeOK, IdsInv, OrderInv, [Next]_vars PROVE TypeOK'
<1>1. ASSUME NEW e \in UserEvents, Dispatch(e) PROVE TypeOK'
  <2>1. /\ \E j : Queued(j)
        /\ UNCHANGED <<view, ready, pageError, toPage, worker, errors, thrown, asked>>
    BY <1>1, DispatchMeans
  <2>2. UNCHANGED pipes
    BY <2>1 DEF worker
  <2>3. jobs' \in Seq(Jobs) /\ busy' \in BOOLEAN /\ toWorker' \in Seq(Jobs)
         /\ outcome' \in [JobIds -> {"none", "pending", "own", "foreign", "rejected"}]
    BY <2>1, <2>2, QueuedStep
  <2> QED
    BY <2>1, <2>3 DEF TypeOK, worker
<1>2. CASE OnMessage
  <2>1. UNCHANGED <<worker, errors, thrown, asked>> /\ toPage # <<>> /\ toPage' = Tail(toPage)
    BY <1>2 DEF OnMessage
  <2>2. toPage' \in Seq(Replies) /\ Head(toPage) \in Replies
    BY <2>1, Popped DEF TypeOK
  <2>3. CASE jobs = <<>>
    <3>1. busy' = FALSE /\ UNCHANGED <<jobs, toWorker, view, ready, pageError, outcome>>
      BY <1>2, <2>3 DEF OnMessage
    <3> QED
      BY <2>1, <2>2, <3>1 DEF TypeOK, worker
  <2>4. CASE jobs # <<>>
    <3>1. jobs' \in Seq(Jobs) /\ busy' \in BOOLEAN /\ toWorker' \in Seq(Jobs) /\ outcome' \in Outcomes
      BY <1>2, <2>4, OnMessageMeans
    <3>2. view' \in {view, Head(toPage).view} /\ ready' \in BOOLEAN /\ pageError' \in BOOLEAN
      <4>1. /\ view' = IF Head(toPage).kind = "error" THEN view ELSE Head(toPage).view
            /\ ready' = (ready \/ (Head(toPage).kind # "error" /\ Head(jobs).kind = "init"))
            /\ pageError' = (pageError \/ (Head(toPage).kind = "error" /\ Head(jobs).kind # "openFile"))
        BY <1>2, <2>4 DEF OnMessage
      <4>2. ready' \in BOOLEAN
        BY <4>1, Zenon
      <4>3. pageError' \in BOOLEAN
        BY <4>1, Zenon
      <4>4. view' \in {view, Head(toPage).view}
        BY <4>1
      <4> QED
        BY <4>2, <4>3, <4>4
    <3>3. view' \in MaybeView
      BY <2>2, <3>2 DEF TypeOK, Replies
    <3> QED
      BY <2>1, <2>2, <3>1, <3>2, <3>3 DEF TypeOK, worker, Outcomes
  <2> QED
    BY <2>3, <2>4
<1>3. CASE OnError
  <2>1. jobs' \in Seq(Jobs) /\ busy' \in BOOLEAN /\ toWorker' \in Seq(Jobs) /\ outcome' \in Outcomes
    BY <1>3, OnErrorMeans
  <2>2. /\ UNCHANGED <<view, ready, toPage, worker, thrown, asked>> /\ errors' = errors + 1
    BY <1>3 DEF OnError
  <2>3. pageError' \in BOOLEAN
    <3>1. pageError' = (pageError \/ \E k \in DOMAIN jobs : jobs[k].kind # "openFile")
      BY <1>3 DEF OnError
    <3> QED
      BY <3>1, Zenon
  <2> QED
    BY <2>1, <2>2, <2>3 DEF TypeOK, worker, Outcomes
<1>4. CASE Receive
  <2> DEFINE m == toWorker[1]
  <2>1. /\ toWorker # <<>> /\ toWorker' = Tail(toWorker) /\ m \in Jobs /\ m.id \in JobIds
        /\ UNCHANGED <<page, store, outcome, errors, thrown, asked>>
    BY <1>4, ReceiveMeans, JobFields
  <2>2. toWorker' \in Seq(Jobs)
    BY <2>1, Popped DEF TypeOK
  <2>3. CASE UNCHANGED pipes /\ eng' \in EngineStates /\ \E a \in Replies : toPage' = Append(toPage, a)
    <3>1. toPage' \in Seq(Replies)
      BY <2>3, Appended DEF TypeOK
    <3> QED
      BY <2>1, <2>2, <2>3, <3>1 DEF TypeOK, page
  <2>4. CASE UNCHANGED <<eng, toPage>> /\ DOMAIN pipes' = DOMAIN pipes \cup {m.id} /\ pipes' \in [DOMAIN pipes' -> Pipes]
    BY <2>1, <2>2, <2>4 DEF TypeOK, page
  <2> QED
    BY <1>4, <2>3, <2>4, ReceiveMeans
<1>5. ASSUME NEW p \in DOMAIN pipes, Handle(p) PROVE TypeOK'
  <2> DEFINE h == HandleEvent(eng, Head(pipes[p].queue))
             runs == {Plan(h.effects[i]) : i \in Runs(h.effects)}
  <2>1. /\ WellFormed(h) /\ eng' = h.state /\ DOMAIN pipes' = DOMAIN pipes /\ pipes' \in [DOMAIN pipes' -> Pipes]
        /\ UNCHANGED <<page, toWorker, toPage, store, outcome, errors, thrown>>
    BY <1>5, HandleMeans
  <2>2. asked' = IF runs = {} THEN asked ELSE CHOOSE plan \in runs : TRUE
    BY <1>5 DEF Handle
  <2> HIDE DEF h
  <2>3. eng' \in EngineStates /\ h.effects \in Seq(Effects)
    BY <2>1 DEF WellFormed
  <2>4. \A i \in Runs(h.effects) : Plan(h.effects[i]) \in Drafts \cup Presets
    BY <2>3, EffectTyped DEF Runs, RunTypes
  <2>5. asked' \in Drafts \cup Presets \cup {None}
    <3>1. runs \subseteq Drafts \cup Presets
      BY <2>4
    <3> QED
      BY <2>2, <3>1 DEF TypeOK
  <2> QED
    BY <2>1, <2>3, <2>5 DEF TypeOK, page
<1>6. ASSUME NEW p \in DOMAIN pipes, Finish(p) PROVE TypeOK'
  BY <1>6, FinishMeans, ZenonT(60) DEF TypeOK, page
<1>7. ASSUME NEW p \in DOMAIN pipes, StartEffect(p) \/ OpenSource(p) \/ Query(p) \/ Warm(p) PROVE TypeOK'
  <2>1. /\ pipes[p].effects # <<>> /\ (Begins(p) \/ Ends(p))
        /\ UNCHANGED <<page, toWorker, toPage, eng, outcome, errors, thrown, asked>>
    BY <1>7, EffectSteps
  <2>2. CASE Begins(p)
    BY <2>1, <2>2, BeginsMeans DEF TypeOK, page
  <2>3. CASE Ends(p)
    <3>1. store' \in [file : MaybeFile, warmed : WorkerCounts \cup {None}]
      BY <2>3 DEF Ends
    <3>2. PICK evs \in Seq(Events) : EffectDone(p, evs)
      BY <2>1, <2>3, EndsDone
    <3>3. DOMAIN pipes' = DOMAIN pipes /\ pipes' \in [DOMAIN pipes' -> Pipes]
      BY <2>1, <3>2, EffectDoneMeans
    <3> QED
      BY <2>1, <3>1, <3>3 DEF TypeOK, page
  <2> QED
    BY <2>1, <2>2, <2>3
<1>8. ASSUME NEW p \in DOMAIN pipes, WarmThrows(p) PROVE TypeOK'
  BY <1>8, WarmThrowsMeans, ZenonT(60) DEF TypeOK, page
<1>9. CASE UNCHANGED vars
  BY <1>9 DEF TypeOK, vars
<1> QED
  BY <1>1, <1>2, <1>3, <1>4, <1>5, <1>6, <1>7, <1>8, <1>9 DEF Next, PipeStep

(* Every step keeps the numbering.                                         *)
LEMMA IdsNext == ASSUME TypeOK, IdsInv, OrderInv, [Next]_vars PROVE IdsInv'
<1>1. ASSUME NEW e \in UserEvents, Dispatch(e) PROVE IdsInv'
  <2>1. /\ \E j : Queued(j)
        /\ UNCHANGED <<view, ready, pageError, toPage, worker, errors, thrown, asked>>
    BY <1>1, DispatchMeans
  <2>2. UNCHANGED pipes
    BY <2>1 DEF worker
  <2> QED
    BY <2>1, <2>2, QueuedStep
<1>2. CASE OnMessage
  <2>1. CASE jobs = <<>>
    <3>1. busy' = FALSE /\ UNCHANGED <<jobs, toWorker, outcome, pipes>>
      BY <1>2, <2>1 DEF OnMessage, worker
    <3> QED
      BY <2>1, <3>1 DEF IdsInv, Sent
  <2> QED
    BY <1>2, <2>1, OnMessageMeans
<1>3. CASE OnError
  BY <1>3, OnErrorMeans
<1>4. ASSUME DOMAIN pipes' \subseteq DOMAIN pipes, UNCHANGED <<page, toWorker, outcome>> PROVE IdsInv'
  <2>1. UNCHANGED <<jobs, busy, toWorker, outcome>>
    BY <1>4 DEF page
  <2> QED
    BY <1>4, <2>1 DEF IdsInv, Sent
<1>5. CASE Receive
  <2> DEFINE m == toWorker[1]
  <2>1. /\ toWorker # <<>> /\ toWorker' = Tail(toWorker) /\ m \in Jobs
        /\ UNCHANGED <<jobs, busy, outcome>> /\ DOMAIN pipes' \subseteq DOMAIN pipes \cup {m.id}
    BY <1>5, ReceiveMeans DEF page
  <2>2. /\ DOMAIN toWorker' = 1 .. Len(toWorker) - 1 /\ DOMAIN toWorker = 1 .. Len(toWorker) /\ Len(toWorker) \in Nat \ {0}
        /\ \A i \in 1 .. Len(toWorker) - 1 : toWorker'[i] = toWorker[i + 1]
    BY <2>1, Popped DEF TypeOK
  <2>3. /\ 1 \in DOMAIN toWorker
        /\ \A i \in DOMAIN toWorker' : i \in Nat /\ i + 1 \in DOMAIN toWorker /\ 1 < i + 1 /\ toWorker'[i] = toWorker[i + 1]
    BY <2>2
  <2>4. Sent' = Sent
    BY <2>1 DEF Sent
  <2>5. \A i, k \in DOMAIN toWorker : i < k => toWorker[i].id < toWorker[k].id
    BY DEF IdsInv
  <2>6. \A i, k \in DOMAIN toWorker' : i < k => toWorker'[i].id < toWorker'[k].id
    <3> SUFFICES ASSUME NEW i \in DOMAIN toWorker', NEW k \in DOMAIN toWorker', i < k PROVE toWorker'[i].id < toWorker'[k].id
      OBVIOUS
    <3>1. i + 1 < k + 1
      BY <2>3
    <3> QED
      BY <2>3, <2>5, <3>1
  <2>7. \A k \in DOMAIN toWorker' : m.id < toWorker'[k].id
    BY <2>3, <2>5
  <2>8. \A k \in DOMAIN toWorker' : \A p \in DOMAIN pipes' : p < toWorker'[k].id
    BY <2>1, <2>3, <2>7 DEF IdsInv
  <2>9. \A k \in DOMAIN toWorker' : toWorker'[k].id \in Sent
    BY <2>3 DEF IdsInv
  <2>10. m.id \in Sent
    BY <2>3 DEF IdsInv
  <2>11. \A k \in DOMAIN jobs' \ {1} :
       /\ \A i \in DOMAIN toWorker' : toWorker'[i].id < jobs'[k].id
       /\ \A p \in DOMAIN pipes' : p < jobs'[k].id
    BY <2>1, <2>3 DEF IdsInv
  <2> QED
    BY <2>1, <2>4, <2>6, <2>8, <2>9, <2>10, <2>11 DEF IdsInv
<1>6. ASSUME NEW p \in DOMAIN pipes, Handle(p) PROVE IdsInv'
  BY <1>4, <1>6, HandleMeans
<1>7. ASSUME NEW p \in DOMAIN pipes, Finish(p) PROVE IdsInv'
  BY <1>4, <1>7, FinishMeans
<1>8. ASSUME NEW p \in DOMAIN pipes, StartEffect(p) \/ OpenSource(p) \/ Query(p) \/ Warm(p) PROVE IdsInv'
  <2>1. /\ pipes[p].effects # <<>> /\ (Begins(p) \/ Ends(p))
        /\ UNCHANGED <<page, toWorker, outcome>>
    BY <1>8, EffectSteps
  <2>2. DOMAIN pipes' = DOMAIN pipes
    BY <2>1, BeginsMeans, EndsDone, EffectDoneMeans
  <2> QED
    BY <1>4, <2>1, <2>2
<1>9. ASSUME NEW p \in DOMAIN pipes, WarmThrows(p) PROVE IdsInv'
  BY <1>4, <1>9, WarmThrowsMeans
<1>10. CASE UNCHANGED vars
  BY <1>10 DEF IdsInv, vars, Sent
<1> QED
  BY <1>1, <1>2, <1>3, <1>5, <1>6, <1>7, <1>8, <1>9, <1>10 DEF Next, PipeStep

(* The order within one pipeline.                                           *)
Ordered(q) ==
  /\ \A i \in DOMAIN q.effects : i < Len(q.effects) => q.effects[i].type = "WarmWorkers"
  /\ \A i \in DOMAIN q.queue : (i < Len(q.queue) \/ q.effects # <<>>) => q.queue[i].type = "WorkersWarmed"
  /\ q.effect.on => q.effects # <<>>

(* OrderInv pipeline by pipeline.                                          *)
LEMMA OrderIs == OrderInv <=> \A p \in DOMAIN pipes : Ordered(pipes[p])
BY DEF OrderInv, Ordered

(* The same after a step.                                                  *)
LEMMA OrderIsPrimed == OrderInv' <=> \A p \in DOMAIN pipes' : Ordered(pipes'[p])
BY DEF OrderInv, Ordered

(* Every step keeps the order within the pipelines.                        *)
LEMMA OrderNext == ASSUME TypeOK, IdsInv, OrderInv, [Next]_vars PROVE OrderInv'
<1>1. \A p \in DOMAIN pipes : Ordered(pipes[p])
  BY OrderIs
<1>2. CASE UNCHANGED pipes
  BY <1>2 DEF OrderInv
<1>3. ASSUME NEW e \in UserEvents, Dispatch(e) PROVE OrderInv'
  BY <1>2, <1>3, DispatchMeans DEF worker
<1>4. CASE OnMessage \/ OnError
  BY <1>2, <1>4 DEF OnMessage, OnError, worker
<1>5. CASE Receive
  <2> DEFINE m == toWorker[1]
  <2>1. m \in Jobs
    BY <1>5, ReceiveMeans
  <2>2. Ordered(NewPipe(m))
    <3>1. CASE m.kind = "event"
      <4> DEFINE e == m.event
      <4>1. NewPipe(m).queue = <<e>> /\ NewPipe(m).effects = <<>> /\ NewPipe(m).effect.on = FALSE
        BY <3>1 DEF NewPipe, NoEffect
      <4>2. DOMAIN <<e>> = {1} /\ Len(<<e>>) = 1 /\ DOMAIN <<>> = {}
        OBVIOUS
      <4> QED
        BY <4>1, <4>2 DEF Ordered
    <3>2. CASE m.kind # "event"
      <4> DEFINE e == m.event
      <4>1. NewPipe(m).queue = <<>> /\ NewPipe(m).effects \in {<<e>>, <<>>} /\ NewPipe(m).effect.on = FALSE
        BY <3>2 DEF NewPipe, NoEffect
      <4>2. DOMAIN <<e>> = {1} /\ Len(<<e>>) = 1 /\ DOMAIN <<>> = {}
        OBVIOUS
      <4>3. \A i \in DOMAIN NewPipe(m).effects : ~(i < Len(NewPipe(m).effects))
        <5>1. CASE NewPipe(m).effects = <<e>>
          BY <4>2, <5>1
        <5>2. CASE NewPipe(m).effects = <<>>
          BY <4>2, <5>2
        <5> QED BY <4>1, <5>1, <5>2
      <4> QED
        BY <4>1, <4>2, <4>3 DEF Ordered
    <3> QED
      BY <3>1, <3>2
  <2>3. CASE /\ DOMAIN pipes' = DOMAIN pipes \cup {m.id} /\ pipes'[m.id] = NewPipe(m)
             /\ \A r \in DOMAIN pipes : pipes'[r] = pipes[r]
    BY <1>1, <2>2, <2>3, OrderIsPrimed
  <2> QED
    BY <1>2, <1>5, <2>3, ReceiveMeans
<1>6. ASSUME NEW p \in DOMAIN pipes, Handle(p) PROVE OrderInv'
  <2> DEFINE q == pipes[p].queue
             h == HandleEvent(eng, Head(q))
  <2>1. /\ pipes[p].effects = <<>> /\ q # <<>> /\ q \in Seq(Events)
        /\ WellFormed(h) /\ Faithful(eng, Head(q), h)
    BY <1>6, HandleMeans, PipeTyped
  <2>2. /\ DOMAIN pipes' = DOMAIN pipes
        /\ \A r \in DOMAIN pipes : r # p => pipes'[r] = pipes[r]
        /\ pipes'[p].queue = Tail(q) /\ pipes'[p].effects = h.effects
        /\ pipes'[p].effect = pipes[p].effect
    BY <1>6, HandleMeans
  <2> HIDE DEF h, q
  <2>3. /\ Len(Tail(q)) = Len(q) - 1 /\ DOMAIN Tail(q) = 1 .. Len(q) - 1 /\ Head(q) = q[1]
        /\ \A i \in 1 .. Len(q) - 1 : Tail(q)[i] = q[i + 1] /\ DOMAIN q = 1 .. Len(q) /\ Len(q) \in Nat \ {0}
    BY <2>1, Popped
  <2>4. \A i \in DOMAIN q : i < Len(q) => q[i].type = "WorkersWarmed"
    BY <1>1 DEF Ordered, q
  <2>5. \A i \in DOMAIN Tail(q) : i < Len(Tail(q)) => Tail(q)[i].type = "WorkersWarmed"
    BY <2>3, <2>4
  <2>6. DOMAIN Tail(q) # {} => h.effects = <<>>
    <3>1. DOMAIN Tail(q) # {} => 1 \in DOMAIN q /\ 1 < Len(q)
      BY <2>3
    <3>2. DOMAIN Tail(q) # {} => Head(q).type = "WorkersWarmed"
      BY <2>3, <2>4, <3>1
    <3> QED
      BY <2>1, <3>2 DEF Faithful
  <2>7. \A i \in DOMAIN h.effects : i < Len(h.effects) => h.effects[i].type = "WarmWorkers"
    BY <2>1 DEF WellFormed
  <2>8. ~pipes[p].effect.on
    BY <1>1, <2>1 DEF Ordered
  <2>9. Ordered(pipes'[p])
    BY <2>2, <2>5, <2>6, <2>7, <2>8 DEF Ordered
  <2> QED
    BY <1>1, <2>2, <2>9, OrderIsPrimed
<1>7. ASSUME NEW p \in DOMAIN pipes, Finish(p) \/ WarmThrows(p) PROVE OrderInv'
  <2>1. /\ DOMAIN pipes' \subseteq DOMAIN pipes
        /\ \A r \in DOMAIN pipes' : pipes'[r] = pipes[r]
    BY <1>7, FinishMeans, WarmThrowsMeans
  <2> QED
    BY <1>1, <2>1, OrderIsPrimed
<1>8. ASSUME NEW p \in DOMAIN pipes, StartEffect(p) \/ OpenSource(p) \/ Query(p) \/ Warm(p) PROVE OrderInv'
  <2> DEFINE q == pipes[p].queue
             fx == pipes[p].effects
  <2>1. /\ fx # <<>> /\ (Begins(p) \/ Ends(p)) /\ fx \in Seq(Effects) /\ q \in Seq(Events)
    BY <1>8, EffectSteps, PipeTyped
  <2>2. CASE Begins(p)
    <3>1. Ordered(pipes'[p])
      BY <1>1, <2>1, <2>2, BeginsMeans DEF Ordered
    <3> QED
      BY <1>1, <2>2, <3>1, BeginsMeans, OrderIsPrimed
  <2>3. CASE Ends(p)
    <3>1. PICK evs \in Seq(Events) :
           /\ EffectDone(p, evs) /\ Len(evs) <= 1
           /\ \/ evs = <<>> /\ Head(fx).type = "WarmWorkers"
              \/ \E ev : evs = <<ev>> /\ EndsWith(p, Head(fx), ev)
      BY <2>1, <2>3, EndsDone
    <3>2. /\ DOMAIN pipes' = DOMAIN pipes
          /\ \A r \in DOMAIN pipes : r # p => pipes'[r] = pipes[r]
          /\ pipes'[p].queue = q \o evs /\ pipes'[p].effects = Tail(fx)
          /\ pipes'[p].effect = NoEffect
      BY <2>1, <3>1, EffectDoneMeans
    <3>3. Ordered(pipes[p])
      BY <1>1
    <3>4. /\ \A i \in DOMAIN q : q[i].type = "WorkersWarmed"
          /\ \A i \in DOMAIN fx : i < Len(fx) => fx[i].type = "WarmWorkers"
      BY <2>1, <3>3 DEF Ordered
    <3> HIDE DEF q, fx
    <3>5. /\ Len(Tail(fx)) = Len(fx) - 1 /\ DOMAIN Tail(fx) = 1 .. Len(fx) - 1 /\ Head(fx) = fx[1]
          /\ \A i \in 1 .. Len(fx) - 1 : Tail(fx)[i] = fx[i + 1]
          /\ DOMAIN fx = 1 .. Len(fx) /\ Len(fx) \in Nat \ {0}
          /\ Tail(fx) = <<>> <=> Len(fx) = 1
      BY <2>1, Popped
    <3>6. \A i \in DOMAIN Tail(fx) : i < Len(Tail(fx)) => Tail(fx)[i].type = "WarmWorkers"
      BY <3>4, <3>5
    <3>7. \A i \in DOMAIN evs : Tail(fx) # <<>> => evs[i].type = "WorkersWarmed"
      <4>1. Tail(fx) # <<>> => fx[1].type = "WarmWorkers"
        <5>1. Tail(fx) # <<>> => 1 \in DOMAIN fx /\ 1 < Len(fx)
          BY <3>5
        <5> QED
          BY <3>4, <5>1
      <4>2. CASE evs = <<>>
        BY <4>2
      <4>3. CASE \E ev : evs = <<ev>> /\ EndsWith(p, Head(fx), ev)
        <5>1. PICK ev : evs = <<ev>> /\ EndsWith(p, Head(fx), ev)
          BY <4>3
        <5>2. Tail(fx) # <<>> => ev.type = "WorkersWarmed"
          BY <3>5, <4>1, <5>1 DEF EndsWith, AnswerTo, RunTypes
        <5>3. \A i \in DOMAIN evs : evs[i] = ev
          BY <5>1
        <5> QED
          BY <5>2, <5>3
      <4> QED
        BY <3>1, <4>2, <4>3
    <3>8. /\ DOMAIN (q \o evs) = 1 .. Len(q) + Len(evs) /\ Len(q \o evs) = Len(q) + Len(evs)
          /\ \A i \in 1 .. Len(q) : (q \o evs)[i] = q[i]
          /\ \A i \in 1 .. Len(evs) : (q \o evs)[Len(q) + i] = evs[i]
          /\ DOMAIN q = 1 .. Len(q) /\ DOMAIN evs = 1 .. Len(evs) /\ Len(q) \in Nat /\ Len(evs) \in Nat
      BY <2>1, Concat
    <3>9. \A i \in DOMAIN (q \o evs) : (i < Len(q \o evs) \/ Tail(fx) # <<>>) => (q \o evs)[i].type = "WorkersWarmed"
      <4> SUFFICES ASSUME NEW i \in DOMAIN (q \o evs), i < Len(q \o evs) \/ Tail(fx) # <<>>
                   PROVE  (q \o evs)[i].type = "WorkersWarmed"
        OBVIOUS
      <4>1. CASE i \in 1 .. Len(q)
        BY <3>4, <3>8, <4>1
      <4>2. CASE i \notin 1 .. Len(q)
        <5>1. i = Len(q) + 1 /\ Len(evs) = 1 /\ 1 \in 1 .. Len(evs)
          BY <3>1, <3>8, <4>2
        <5>2. Tail(fx) # <<>>
          BY <3>8, <5>1
        <5> QED
          BY <3>7, <3>8, <5>1, <5>2
      <4> QED
        BY <4>1, <4>2
    <3>10. Ordered(pipes'[p])
      BY <3>2, <3>6, <3>9 DEF Ordered, NoEffect
    <3> QED
      BY <1>1, <3>2, <3>10, OrderIsPrimed
  <2> QED
    BY <2>1, <2>2, <2>3
<1>9. CASE UNCHANGED vars
  BY <1>2, <1>9 DEF vars
<1> QED
  BY <1>3, <1>4, <1>5, <1>6, <1>7, <1>8, <1>9 DEF Next, PipeStep

(* Until an error event the first job is in one place: on its way to the   *)
(* worker, in its pipeline, or answered.                                   *)
Flight(tw, P, tp, b, q) ==
  /\ Len(tw) + Cardinality(P) + Len(tp) = (IF b THEN 1 ELSE 0)
  /\ \A k \in DOMAIN tw : tw[k] = q[1]
  /\ \A p \in P : p = q[1].id
  /\ \A k \in DOMAIN tp : tp[k].id = q[1].id

(* The four places: with the client, on its way, in a pipeline, answered.  *)
AtRest(tw, P, tp, b, q) == ~b /\ tw = <<>> /\ P = {} /\ tp = <<>>
Posted(tw, P, tp, b, q) == b /\ Len(tw) = 1 /\ tw # <<>> /\ tw[1] = q[1] /\ P = {} /\ tp = <<>>
Piped(tw, P, tp, b, q) == b /\ tw = <<>> /\ P = {q[1].id} /\ tp = <<>>
Answered(tw, P, tp, b, q) ==
  b /\ tw = <<>> /\ P = {} /\ Len(tp) = 1 /\ tp # <<>> /\ tp[1].id = q[1].id

(* Three counts that make one.                                             *)
LEMMA SumOfThree ==
  ASSUME NEW x \in Nat, NEW y \in Nat, NEW z \in Nat
  PROVE  /\ x + y + z = 0 <=> x = 0 /\ y = 0 /\ z = 0
         /\ x + y + z = 1 => \/ x = 1 /\ y = 0 /\ z = 0
                             \/ x = 0 /\ y = 1 /\ z = 0
                             \/ x = 0 /\ y = 0 /\ z = 1
         /\ x = 1 /\ y = 0 /\ z = 0 => x + y + z = 1
         /\ x = 0 /\ y = 1 /\ z = 0 => x + y + z = 1
         /\ x = 0 /\ y = 0 /\ z = 1 => x + y + z = 1
OBVIOUS

(* The counts say that the job is in one of the places.                    *)
LEMMA OnePlace ==
  ASSUME NEW A, NEW B, NEW tw \in Seq(A), NEW P, IsFiniteSet(P), NEW tp \in Seq(B), NEW b \in BOOLEAN, NEW q
  PROVE  Flight(tw, P, tp, b, q) <=>
           AtRest(tw, P, tp, b, q) \/ Posted(tw, P, tp, b, q) \/ Piped(tw, P, tp, b, q) \/ Answered(tw, P, tp, b, q)
<1>1. /\ Len(tw) \in Nat /\ Len(tp) \in Nat /\ DOMAIN tw = 1 .. Len(tw) /\ DOMAIN tp = 1 .. Len(tp)
      /\ tw = <<>> <=> Len(tw) = 0
      /\ tp = <<>> <=> Len(tp) = 0
  BY Emptied
<1>2. Cardinality(P) \in Nat /\ (P = {} <=> Cardinality(P) = 0)
  BY FS_CardinalityType, FS_EmptySet
<1>3. \A x : Cardinality({x}) = 1
  BY FS_Singleton
<1> DEFINE sum == Len(tw) + Cardinality(P) + Len(tp)
<1>9. /\ sum = 0 <=> Len(tw) = 0 /\ Cardinality(P) = 0 /\ Len(tp) = 0
      /\ sum = 1 => \/ Len(tw) = 1 /\ Cardinality(P) = 0 /\ Len(tp) = 0
                    \/ Len(tw) = 0 /\ Cardinality(P) = 1 /\ Len(tp) = 0
                    \/ Len(tw) = 0 /\ Cardinality(P) = 0 /\ Len(tp) = 1
      /\ Len(tw) = 1 /\ Cardinality(P) = 0 /\ Len(tp) = 0 => sum = 1
      /\ Len(tw) = 0 /\ Cardinality(P) = 1 /\ Len(tp) = 0 => sum = 1
      /\ Len(tw) = 0 /\ Cardinality(P) = 0 /\ Len(tp) = 1 => sum = 1
  <2>1. Len(tw) \in Nat /\ Cardinality(P) \in Nat /\ Len(tp) \in Nat
    BY <1>1, <1>2
  <2> QED
    BY <2>1, SumOfThree
<1>10. /\ Len(tw) = 1 => DOMAIN tw = {1}
       /\ Len(tp) = 1 => DOMAIN tp = {1}
       /\ Len(tw) = 0 => DOMAIN tw = {}
       /\ Len(tp) = 0 => DOMAIN tp = {}
  BY <1>1
<1>11. Flight(tw, P, tp, b, q) <=>
         /\ b => sum = 1
         /\ ~b => sum = 0
         /\ \A k \in DOMAIN tw : tw[k] = q[1]
         /\ \A p \in P : p = q[1].id
         /\ \A k \in DOMAIN tp : tp[k].id = q[1].id
  <2>1. b => (IF b THEN 1 ELSE 0) = 1
    BY Zenon
  <2>2. ~b => (IF b THEN 1 ELSE 0) = 0
    BY Zenon
  <2>3. (b => sum = 1) /\ (~b => sum = 0) <=> sum = (IF b THEN 1 ELSE 0)
    BY <2>1, <2>2, Zenon
  <2> QED
    BY <2>3, Zenon DEF Flight
<1> HIDE DEF sum
<1>12. \A x : P = {x} => Cardinality(P) = 1
  BY <1>3
<1>4. ASSUME Flight(tw, P, tp, b, q)
      PROVE  AtRest(tw, P, tp, b, q) \/ Posted(tw, P, tp, b, q) \/ Piped(tw, P, tp, b, q) \/ Answered(tw, P, tp, b, q)
  <2>1. CASE ~b
    BY <1>1, <1>2, <1>4, <1>9, <1>11, <2>1, Zenon DEF AtRest
  <2>2. CASE b /\ Len(tw) = 1 /\ Cardinality(P) = 0 /\ Len(tp) = 0
    <3>1. tw[1] = q[1] /\ tw # <<>>
      BY <1>1, <1>4, <1>10, <1>11, <2>2
    <3> QED
      BY <1>1, <1>2, <2>2, <3>1, Zenon DEF Posted
  <2>3. CASE b /\ Len(tw) = 0 /\ Cardinality(P) = 1 /\ Len(tp) = 0
    <3>1. P # {}
      BY <1>2, <2>3
    <3>2. P = {q[1].id}
      BY <1>4, <1>11, <3>1
    <3> QED
      BY <1>1, <2>3, <3>2, Zenon DEF Piped
  <2>4. CASE b /\ Len(tw) = 0 /\ Cardinality(P) = 0 /\ Len(tp) = 1
    <3>1. tp[1].id = q[1].id /\ tp # <<>>
      BY <1>1, <1>4, <1>10, <1>11, <2>4
    <3> QED
      BY <1>1, <1>2, <2>4, <3>1, Zenon DEF Answered
  <2> QED
    BY <1>4, <1>9, <1>11, <2>1, <2>2, <2>3, <2>4, Zenon
<1>5. ASSUME AtRest(tw, P, tp, b, q) PROVE Flight(tw, P, tp, b, q)
  <2>1. ~b /\ Len(tw) = 0 /\ Cardinality(P) = 0 /\ Len(tp) = 0 /\ P = {}
    BY <1>1, <1>2, <1>5, Zenon DEF AtRest
  <2>2. sum = 0 /\ DOMAIN tw = {} /\ DOMAIN tp = {}
    BY <1>9, <1>10, <2>1
  <2> QED
    BY <1>11, <2>1, <2>2, Zenon
<1>6. ASSUME Posted(tw, P, tp, b, q) PROVE Flight(tw, P, tp, b, q)
  <2>1. b /\ Len(tw) = 1 /\ Cardinality(P) = 0 /\ Len(tp) = 0 /\ P = {} /\ tw[1] = q[1]
    BY <1>1, <1>2, <1>6, Zenon DEF Posted
  <2>2. sum = 1 /\ DOMAIN tw = {1} /\ DOMAIN tp = {}
    BY <1>9, <1>10, <2>1
  <2> QED
    BY <1>11, <2>1, <2>2, Zenon
<1>7. ASSUME Piped(tw, P, tp, b, q) PROVE Flight(tw, P, tp, b, q)
  <2>1. b /\ Len(tw) = 0 /\ Cardinality(P) = 1 /\ Len(tp) = 0 /\ P = {q[1].id}
    BY <1>1, <1>7, <1>12, Zenon DEF Piped
  <2>2. sum = 1 /\ DOMAIN tw = {} /\ DOMAIN tp = {}
    BY <1>9, <1>10, <2>1
  <2> QED
    BY <1>11, <2>1, <2>2, Zenon
<1>8. ASSUME Answered(tw, P, tp, b, q) PROVE Flight(tw, P, tp, b, q)
  <2>1. b /\ Len(tw) = 0 /\ Cardinality(P) = 0 /\ Len(tp) = 1 /\ P = {} /\ tp[1].id = q[1].id
    BY <1>1, <1>2, <1>8, Zenon DEF Answered
  <2>2. sum = 1 /\ DOMAIN tw = {} /\ DOMAIN tp = {1}
    BY <1>9, <1>10, <2>1
  <2> QED
    BY <1>11, <2>1, <2>2, Zenon
<1> QED
  BY <1>4, <1>5, <1>6, <1>7, <1>8, Zenon

(* The same of the explorer's state.                                       *)
LEMMA PipesFinite == ASSUME TypeOK PROVE IsFiniteSet(DOMAIN pipes)
<1>1. IsFiniteSet(JobIds)
  BY FS_Interval, ExplorerAssumption DEF JobIds
<1> QED
  BY <1>1, FS_Subset DEF TypeOK

(* The same after a step.                                                  *)
LEMMA PipesFinitePrimed == ASSUME TypeOK' PROVE IsFiniteSet(DOMAIN pipes')
<1>1. IsFiniteSet(JobIds)
  BY FS_Interval, ExplorerAssumption DEF JobIds
<1>2. DOMAIN pipes' \subseteq JobIds
  BY DEF TypeOK, JobIds
<1> QED
  BY <1>1, <1>2, FS_Subset

(* SingleFlight, as one of the four places.                                *)
LEMMA FlightIs ==
  ASSUME TypeOK, SingleFlight, errors = 0
  PROVE  \/ AtRest(toWorker, DOMAIN pipes, toPage, busy, jobs) \/ Posted(toWorker, DOMAIN pipes, toPage, busy, jobs)
         \/ Piped(toWorker, DOMAIN pipes, toPage, busy, jobs) \/ Answered(toWorker, DOMAIN pipes, toPage, busy, jobs)
<1>1. Flight(toWorker, DOMAIN pipes, toPage, busy, jobs)
  BY DEF SingleFlight, Flight
<1>2. toWorker \in Seq(Jobs) /\ toPage \in Seq(Replies) /\ busy \in BOOLEAN
  BY DEF TypeOK
<1> QED
  BY <1>1, <1>2, PipesFinite, OnePlace

(* The same after a step.                                                  *)
LEMMA FlightGives ==
  ASSUME TypeOK',
         \/ AtRest(toWorker', DOMAIN pipes', toPage', busy', jobs')
         \/ Posted(toWorker', DOMAIN pipes', toPage', busy', jobs')
         \/ Piped(toWorker', DOMAIN pipes', toPage', busy', jobs')
         \/ Answered(toWorker', DOMAIN pipes', toPage', busy', jobs')
  PROVE  SingleFlight'
<1>1. toWorker' \in Seq(Jobs') /\ toPage' \in Seq(Replies') /\ busy' \in BOOLEAN
  BY DEF TypeOK
<1>2. Flight(toWorker', DOMAIN pipes', toPage', busy', jobs')
  BY <1>1, PipesFinitePrimed, OnePlace
<1> QED
  BY <1>2 DEF SingleFlight, Flight

(* Error events and throws are only ever counted up.                       *)
LEMMA StillNoError == ASSUME TypeOK, [Next]_vars, errors' = 0 PROVE errors = 0
<1>1. errors \in Nat
  BY DEF TypeOK
<1>2. errors' = errors \/ errors' = errors + 1
  <2>1. CASE OnError
    BY <2>1 DEF OnError
  <2>2. CASE ~OnError
    BY <2>2, Zenon DEF Next, vars, Dispatch, OnMessage, Receive, PipeStep, Handle, Finish, StartEffect, OpenSource, Query, Warm, WarmThrows
  <2> QED
    BY <2>1, <2>2
<1> QED
  BY <1>1, <1>2

(* A step that leaves no throw found none.                                 *)
LEMMA StillNoThrow == ASSUME TypeOK, [Next]_vars, thrown' = 0 PROVE thrown = 0 /\ ~\E p \in DOMAIN pipes : WarmThrows(p)
<1>1. thrown \in Nat
  BY DEF TypeOK
<1>2. CASE \E p \in DOMAIN pipes : WarmThrows(p)
  BY <1>1, <1>2 DEF WarmThrows
<1>3. CASE ~\E p \in DOMAIN pipes : WarmThrows(p)
  <2>1. thrown' = thrown
    BY <1>3, Zenon DEF Next, vars, Dispatch, OnMessage, OnError, Receive, PipeStep, Handle, Finish, StartEffect, OpenSource, Query, Warm
  <2> QED
    BY <1>3, <2>1
<1> QED
  BY <1>2, <1>3

(* Every step keeps the first job in one place until an error event.       *)
LEMMA SingleNext ==
  ASSUME TypeOK, IdsInv, OrderInv, SingleFlight, [Next]_vars, TypeOK' PROVE SingleFlight'
<1> SUFFICES ASSUME errors' = 0 PROVE SingleFlight'
  BY DEF SingleFlight
<1>0. errors = 0
  BY StillNoError
<1>00. busy <=> jobs # <<>>
  BY DEF IdsInv
<1>1. ASSUME NEW e \in UserEvents, Dispatch(e) PROVE SingleFlight'
  <2>1. /\ \E j : Queued(j)
        /\ UNCHANGED <<view, ready, pageError, toPage, worker, errors, thrown, asked>>
    BY <1>1, DispatchMeans
  <2>2. UNCHANGED pipes /\ toWorker \in Seq(Jobs)
    BY <2>1 DEF worker, TypeOK
  <2>3. PICK j : Queued(j)
    BY <2>1
  <2>4. /\ busy' /\ j \in Jobs
        /\ busy => toWorker' = toWorker /\ jobs'[1] = jobs[1]
        /\ ~busy => jobs'[1] = j /\ toWorker' = Append(toWorker, j)
    BY <2>2, <2>3, QueuedStep DEF Queued
  <2>5. CASE busy
    <3>1. jobs'[1] = jobs[1] /\ busy' /\ UNCHANGED <<toWorker, pipes, toPage>>
      BY <2>1, <2>2, <2>4, <2>5
    <3> QED
      BY <1>0, <2>5, <3>1, FlightIs, FlightGives DEF AtRest, Posted, Piped, Answered
  <2>6. CASE ~busy
    <3>1. toWorker = <<>> /\ DOMAIN pipes = {} /\ toPage = <<>>
      BY <1>0, <2>6, FlightIs DEF AtRest, Posted, Piped, Answered
    <3>2. toWorker' = Append(toWorker, j)
      BY <2>4, <2>6
    <3>3. Len(toWorker) = 0
      BY <2>2, <3>1, Emptied
    <3>4. Len(toWorker') = 1 /\ toWorker'[1] = j /\ toWorker' # <<>>
      BY <2>2, <2>4, <3>2, <3>3, Appended
    <3>5. Posted(toWorker', DOMAIN pipes', toPage', busy', jobs')
      BY <2>1, <2>2, <2>4, <2>6, <3>1, <3>4 DEF Posted
    <3> QED
      BY <3>5, FlightGives
  <2> QED
    BY <2>5, <2>6
<1>2. CASE OnMessage
  <2>1. UNCHANGED pipes /\ toPage # <<>> /\ toPage' = Tail(toPage) /\ toPage \in Seq(Replies) /\ toWorker \in Seq(Jobs)
    BY <1>2 DEF OnMessage, worker, TypeOK
  <2>2. busy /\ toWorker = <<>> /\ DOMAIN pipes = {} /\ Len(toPage) = 1
    BY <1>0, <2>1, FlightIs DEF AtRest, Posted, Piped, Answered
  <2>3. toPage' = <<>>
    BY <2>1, <2>2, Popped
  <2>4. /\ jobs' # <<>> => busy' /\ toWorker' = Append(toWorker, jobs'[1])
        /\ jobs' = <<>> => ~busy' /\ toWorker' = toWorker
        /\ jobs' \in Seq(Jobs)
    BY <1>00, <1>2, <2>2, OnMessageMeans
  <2>5. CASE jobs' = <<>>
    <3>1. AtRest(toWorker', DOMAIN pipes', toPage', busy', jobs')
      BY <2>1, <2>2, <2>3, <2>4, <2>5 DEF AtRest
    <3> QED
      BY <3>1, FlightGives
  <2>6. CASE jobs' # <<>>
    <3>1. jobs'[1] \in Jobs
      BY <2>4, <2>6, Popped
    <3>2. Len(toWorker) = 0
      BY <2>1, <2>2, Emptied
    <3>3. \E j \in Jobs : j = jobs'[1] /\ toWorker' = Append(toWorker, j)
      BY <2>4, <2>6, <3>1
    <3>5. Len(toWorker') = 1 /\ toWorker'[1] = jobs'[1] /\ toWorker' # <<>>
      BY <2>1, <3>2, <3>3, Appended
    <3>4. Posted(toWorker', DOMAIN pipes', toPage', busy', jobs')
      BY <2>1, <2>2, <2>3, <2>4, <2>6, <3>5 DEF Posted
    <3> QED
      BY <3>4, FlightGives
  <2> QED
    BY <2>5, <2>6
<1>3. CASE OnError
  BY <1>0, <1>3 DEF OnError
<1>4. CASE Receive
  <2> DEFINE m == toWorker[1]
  <2>1. /\ toWorker # <<>> /\ toWorker' = Tail(toWorker) /\ toWorker \in Seq(Jobs) /\ toPage \in Seq(Replies)
        /\ UNCHANGED <<jobs, busy>>
    BY <1>4, ReceiveMeans DEF page, TypeOK
  <2>2. busy /\ Len(toWorker) = 1 /\ m = jobs[1] /\ DOMAIN pipes = {} /\ toPage = <<>>
    BY <1>0, <2>1, FlightIs DEF AtRest, Posted, Piped, Answered
  <2>3. toWorker' = <<>>
    BY <2>1, <2>2, Popped
  <2>4. CASE UNCHANGED pipes /\ \E a \in Replies : toPage' = Append(toPage, a) /\ a.id = m.id
    <3>1. PICK a \in Replies : toPage' = Append(toPage, a) /\ a.id = m.id
      BY <2>4
    <3>2. Len(toPage) = 0
      BY <2>1, <2>2, Emptied
    <3>3. Len(toPage') = 1 /\ toPage'[1] = a /\ toPage' # <<>>
      BY <2>1, <3>1, <3>2, Appended
    <3>4. Answered(toWorker', DOMAIN pipes', toPage', busy', jobs')
      BY <2>1, <2>2, <2>3, <2>4, <3>1, <3>3 DEF Answered
    <3> QED
      BY <3>4, FlightGives
  <2>5. CASE UNCHANGED toPage /\ DOMAIN pipes' = DOMAIN pipes \cup {m.id}
    <3>1. Piped(toWorker', DOMAIN pipes', toPage', busy', jobs')
      BY <2>1, <2>2, <2>3, <2>5 DEF Piped
    <3> QED
      BY <3>1, FlightGives
  <2> QED
    BY <1>4, <2>4, <2>5, ReceiveMeans
<1>5. ASSUME DOMAIN pipes' = DOMAIN pipes, UNCHANGED <<jobs, busy, toWorker, toPage>> PROVE SingleFlight'
  BY <1>0, <1>5, FlightIs, FlightGives
<1>6. ASSUME NEW p \in DOMAIN pipes, Finish(p) \/ WarmThrows(p) PROVE SingleFlight'
  <2>1. /\ DOMAIN pipes' = DOMAIN pipes \ {p} /\ UNCHANGED <<jobs, busy, toWorker>>
        /\ \E a \in Replies : toPage' = Append(toPage, a) /\ a.id = p
        /\ toPage \in Seq(Replies)
    BY <1>6, FinishMeans, WarmThrowsMeans DEF page, TypeOK
  <2>2. busy /\ toWorker = <<>> /\ DOMAIN pipes = {p} /\ p = jobs[1].id /\ toPage = <<>>
    BY <1>0, <1>6, FlightIs DEF AtRest, Posted, Piped, Answered
  <2>3. PICK a \in Replies : toPage' = Append(toPage, a) /\ a.id = p
    BY <2>1
  <2>4. Len(toPage) = 0
    BY <2>1, <2>2, Emptied
  <2>5. Len(toPage') = 1 /\ toPage'[1] = a /\ toPage' # <<>>
    BY <2>1, <2>3, <2>4, Appended
  <2>6. Answered(toWorker', DOMAIN pipes', toPage', busy', jobs')
    BY <2>1, <2>2, <2>3, <2>5 DEF Answered
  <2> QED
    BY <2>6, FlightGives
<1>7. ASSUME NEW p \in DOMAIN pipes, Handle(p) PROVE SingleFlight'
  BY <1>5, <1>7, HandleMeans DEF page
<1>8. ASSUME NEW p \in DOMAIN pipes, StartEffect(p) \/ OpenSource(p) \/ Query(p) \/ Warm(p) PROVE SingleFlight'
  <2>1. /\ pipes[p].effects # <<>> /\ (Begins(p) \/ Ends(p))
        /\ UNCHANGED <<jobs, busy, toWorker, toPage>>
    BY <1>8, EffectSteps DEF page
  <2>2. DOMAIN pipes' = DOMAIN pipes
    BY <2>1, BeginsMeans, EndsDone, EffectDoneMeans
  <2> QED
    BY <1>5, <2>1, <2>2
<1>9. CASE UNCHANGED vars
  BY <1>5, <1>9, SMTT(60) DEF vars
<1> QED
  BY <1>1, <1>2, <1>3, <1>4, <1>6, <1>7, <1>8, <1>9 DEF Next, PipeStep

(* A reply can be another job's only when an error event cleared the queue. *)
LEMMA AnswersNext ==
  ASSUME TypeOK, IdsInv, OrderInv, SingleFlight, AnswersOwnJob, [Next]_vars PROVE AnswersOwnJob'
<1> SUFFICES ASSUME errors' = 0, NEW i \in JobIds, outcome'[i] = "foreign" PROVE FALSE
  BY DEF AnswersOwnJob, JobIds
<1>0. errors = 0
  BY StillNoError
<1>1. outcome[i] # "foreign"
  BY <1>0 DEF AnswersOwnJob
<1>2. ASSUME NEW e \in UserEvents, Dispatch(e) PROVE FALSE
  <2>1. \E j : Queued(j) /\ UNCHANGED pipes
    BY <1>2, DispatchMeans DEF worker
  <2> QED
    BY <1>1, <2>1, QueuedStep
<1>3. CASE OnMessage
  <2>1. jobs # <<>>
    BY <1>1, <1>3 DEF OnMessage
  <2>2. Head(toPage).id # jobs[1].id
    BY <1>1, <1>3, <2>1, OnMessageMeans
  <2>3. toPage # <<>> /\ toPage \in Seq(Replies)
    BY <1>3 DEF OnMessage, TypeOK
  <2> QED
    BY <1>0, <2>2, <2>3, FlightIs, Popped DEF AtRest, Posted, Piped, Answered
<1>4. CASE OnError
  BY <1>0, <1>4 DEF OnError
<1>5. CASE UNCHANGED outcome
  BY <1>1, <1>5
<1> QED
  BY <1>2, <1>3, <1>4, <1>5, ZenonT(60) DEF Next, vars, Receive, PipeStep, Handle, Finish, StartEffect, OpenSource, Query, Warm, WarmThrows

(* What one pipeline still has to run or to hand over.                     *)
PipeAwaits(q, types, answers) ==
  \/ \E i \in DOMAIN q.effects : q.effects[i].type \in types
  \/ \E i \in DOMAIN q.queue : q.queue[i].type \in answers

(* Awaits pipeline by pipeline, before and after a step.                   *)
LEMMA AwaitsIs ==
  ASSUME NEW types, NEW answers
  PROVE  /\ Awaits(types, answers) <=> \E p \in DOMAIN pipes : PipeAwaits(pipes[p], types, answers)
         /\ Awaits(types, answers)' <=> \E p \in DOMAIN pipes' : PipeAwaits(pipes'[p], types, answers)
<1>1. Awaits(types, answers) <=> \E p \in DOMAIN pipes : PipeAwaits(pipes[p], types, answers)
  BY Zenon DEF Awaits, PipeAwaits
<1>2. Awaits(types, answers)' <=> \E p \in DOMAIN pipes' : PipeAwaits(pipes'[p], types, answers)
  BY Zenon DEF Awaits, PipeAwaits
<1> QED
  BY <1>1, <1>2

(* The engine keeps a promise, or an effect it asks for does.              *)
LEMMA HandleAwaits ==
  ASSUME TypeOK, NEW p \in DOMAIN pipes, Handle(p), NEW types, NEW answers,
         \/ Awaits(types, answers) /\ Head(pipes[p].queue).type \notin answers
         \/ \E f \in FX(HandleEvent(eng, Head(pipes[p].queue))) : f.type \in types
  PROVE  Awaits(types, answers)'
<1> DEFINE q == pipes[p].queue
           h == HandleEvent(eng, Head(q))
<1>1. /\ DOMAIN pipes' = DOMAIN pipes /\ pipes[p].effects = <<>>
      /\ \A r \in DOMAIN pipes : r # p => pipes'[r] = pipes[r]
      /\ pipes'[p].queue = Tail(q) /\ pipes'[p].effects = h.effects
      /\ q # <<>> /\ q \in Seq(Events)
  BY HandleMeans, PipeTyped
<1>2. CASE \E f \in FX(h) : f.type \in types
  <2> HIDE DEF h
  <2>1. \E i \in DOMAIN h.effects : h.effects[i].type \in types
    BY <1>2 DEF FX
  <2>2. PipeAwaits(pipes'[p], types, answers)
    BY <1>1, <2>1 DEF PipeAwaits
  <2> QED
    BY <1>1, <2>2, AwaitsIs
<1>3. CASE Awaits(types, answers) /\ Head(q).type \notin answers
  <2>1. PICK r \in DOMAIN pipes : PipeAwaits(pipes[r], types, answers)
    BY <1>3, AwaitsIs
  <2>2. CASE r # p
    <3>1. pipes'[r] = pipes[r] /\ r \in DOMAIN pipes'
      BY <1>1, <2>2
    <3> QED
      BY <2>1, <3>1, AwaitsIs
  <2>3. CASE r = p
    <3>1. PICK i \in DOMAIN q : q[i].type \in answers
      BY <1>1, <2>1, <2>3 DEF PipeAwaits
    <3> HIDE DEF q, h
    <3>2. /\ DOMAIN Tail(q) = 1 .. Len(q) - 1 /\ Head(q) = q[1]
          /\ \A k \in 1 .. Len(q) - 1 : Tail(q)[k] = q[k + 1]
          /\ DOMAIN q = 1 .. Len(q) /\ Len(q) \in Nat \ {0}
      BY <1>1, Popped
    <3>3. i # 1
      BY <1>3, <3>1, <3>2
    <3>4. i - 1 \in DOMAIN Tail(q) /\ Tail(q)[i - 1] = q[i]
      <4>1. i - 1 \in 1 .. Len(q) - 1 /\ (i - 1) + 1 = i
        BY <3>2, <3>3
      <4> QED
        BY <3>2, <4>1
    <3>5. PipeAwaits(pipes'[p], types, answers)
      BY <1>1, <3>1, <3>4 DEF PipeAwaits
    <3> QED
      BY <1>1, <3>5, AwaitsIs
  <2> QED
    BY <2>2, <2>3
<1> QED
  BY <1>2, <1>3

(* The answer of an effect takes its place.                                *)
LEMMA EndsAwaits ==
  ASSUME TypeOK, NEW p \in DOMAIN pipes, pipes[p].effects # <<>>, Ends(p), NEW types, NEW answers,
         Awaits(types, answers),
         \A ev : Head(pipes[p].effects).type \in types /\ AnswerTo(Head(pipes[p].effects), pipes[p].effect, ev)
                   => ev.type \in answers,
         Head(pipes[p].effects).type = "WarmWorkers" /\ "WarmWorkers" \in types => store.file # None
  PROVE  Awaits(types, answers)'
<1> DEFINE q == pipes[p].queue
           fx == pipes[p].effects
           f == Head(fx)
<1>1. q \in Seq(Events) /\ fx \in Seq(Effects) /\ fx # <<>>
  BY PipeTyped
<1>2. PICK evs \in Seq(Events) :
        /\ EffectDone(p, evs)
        /\ \/ f.type \notin types
           \/ \E ev : evs = <<ev>> /\ AnswerTo(f, pipes[p].effect, ev)
  <2>1. PICK evs \in Seq(Events) :
           /\ EffectDone(p, evs) /\ Len(evs) <= 1
           /\ \/ evs = <<>> /\ Head(pipes[p].effects).type = "WarmWorkers" /\ store.file = None
              \/ \E ev : evs = <<ev>> /\ EndsWith(p, Head(pipes[p].effects), ev)
    BY EndsDone
  <2>2. CASE \E ev : evs = <<ev>> /\ EndsWith(p, Head(pipes[p].effects), ev)
    BY <2>1, <2>2, Zenon DEF EndsWith
  <2>3. CASE evs = <<>> /\ Head(pipes[p].effects).type = "WarmWorkers" /\ store.file = None
    <3>1. f.type \notin types
      BY <2>3
    <3> QED
      BY <2>1, <3>1
  <2> QED
    BY <2>1, <2>2, <2>3
<1>3. /\ DOMAIN pipes' = DOMAIN pipes
      /\ \A r \in DOMAIN pipes : r # p => pipes'[r] = pipes[r]
      /\ pipes'[p].queue = q \o evs /\ pipes'[p].effects = Tail(fx)
  BY <1>2, EffectDoneMeans
<1>4. PICK r \in DOMAIN pipes : PipeAwaits(pipes[r], types, answers)
  BY AwaitsIs
<1>5. CASE r # p
  <2>1. pipes'[r] = pipes[r] /\ r \in DOMAIN pipes'
    BY <1>3, <1>5
  <2> QED
    BY <1>4, <2>1, AwaitsIs
<1>6. CASE r = p
  <2>0. \/ \E i \in DOMAIN q : q[i].type \in answers
        \/ \E i \in DOMAIN fx : fx[i].type \in types
    BY <1>4, <1>6 DEF PipeAwaits
  <2> HIDE DEF q, fx, f
  <2>1. /\ DOMAIN (q \o evs) = 1 .. Len(q) + Len(evs)
        /\ \A i \in 1 .. Len(q) : (q \o evs)[i] = q[i]
        /\ \A i \in 1 .. Len(evs) : (q \o evs)[Len(q) + i] = evs[i]
        /\ DOMAIN q = 1 .. Len(q) /\ DOMAIN evs = 1 .. Len(evs) /\ Len(q) \in Nat /\ Len(evs) \in Nat
    BY <1>1, Concat
  <2>2. SUFFICES PipeAwaits(pipes'[p], types, answers)
    BY <1>3, AwaitsIs
  <2>3. CASE \E i \in DOMAIN q : q[i].type \in answers
    <3>1. PICK i \in DOMAIN q : q[i].type \in answers
      BY <2>3
    <3>2. i \in DOMAIN (q \o evs) /\ (q \o evs)[i] = q[i]
      BY <2>1, <3>1
    <3> QED
      BY <1>3, <3>1, <3>2 DEF PipeAwaits
  <2>4. CASE \E i \in DOMAIN fx : fx[i].type \in types
    <3>1. PICK i \in DOMAIN fx : fx[i].type \in types
      BY <2>4
    <3>2. /\ DOMAIN Tail(fx) = 1 .. Len(fx) - 1 /\ f = fx[1]
          /\ \A k \in 1 .. Len(fx) - 1 : Tail(fx)[k] = fx[k + 1]
          /\ DOMAIN fx = 1 .. Len(fx) /\ Len(fx) \in Nat \ {0}
      BY <1>1, Popped DEF f
    <3>3. CASE i # 1
      <4>1. i - 1 \in 1 .. Len(fx) - 1 /\ (i - 1) + 1 = i
        BY <3>2, <3>3
      <4>2. i - 1 \in DOMAIN Tail(fx) /\ Tail(fx)[i - 1] = fx[i]
        BY <3>2, <4>1
      <4> QED
        BY <1>3, <3>1, <4>2 DEF PipeAwaits
    <3>4. CASE i = 1
      <4>1. PICK ev : evs = <<ev>> /\ AnswerTo(f, pipes[p].effect, ev)
        BY <1>2, <3>1, <3>2, <3>4
      <4>2. ev.type \in answers
        BY <3>1, <3>2, <3>4, <4>1 DEF f, fx
      <4>3. 1 \in DOMAIN evs /\ evs[1] = ev /\ Len(evs) = 1
        BY <4>1
      <4>4. Len(q) + 1 \in DOMAIN (q \o evs) /\ (q \o evs)[Len(q) + 1] = ev
        BY <2>1, <4>3
      <4> QED
        BY <1>3, <4>2, <4>4 DEF PipeAwaits
    <3> QED
      BY <3>3, <3>4
  <2> QED
    BY <2>0, <2>3, <2>4
<1> QED
  BY <1>5, <1>6

(* Nothing else takes a promise away.                                      *)
LEMMA OthersAwait ==
  ASSUME TypeOK, NEW types, NEW answers, Awaits(types, answers),
         \A r \in DOMAIN pipes :
           \/ pipes[r].queue = <<>> /\ pipes[r].effects = <<>>
           \/ /\ r \in DOMAIN pipes'
              /\ pipes'[r].queue = pipes[r].queue /\ pipes'[r].effects = pipes[r].effects
  PROVE  Awaits(types, answers)'
<1>1. PICK r \in DOMAIN pipes : PipeAwaits(pipes[r], types, answers)
  BY AwaitsIs
<1>2. ~(pipes[r].queue = <<>> /\ pipes[r].effects = <<>>)
  BY <1>1 DEF PipeAwaits
<1>3. r \in DOMAIN pipes' /\ PipeAwaits(pipes'[r], types, answers)
  BY <1>1, <1>2 DEF PipeAwaits
<1> QED
  BY <1>3, AwaitsIs

(* What each phase waits for.                                              *)
OpenAnswers == {"FileOpened", "FileOpenFailed"}
QueryAnswers == {"QueryDone", "QueryFailed"}
DetailAnswers == {"CrateDetailDone", "CrateDetailFailed"}

(* What the phases wait for.                                               *)
LEMMA PhaseIs ==
  ASSUME PhaseInv, thrown = 0
  PROVE  /\ eng.load = "Loading" => Awaits({"OpenSource"}, OpenAnswers)
         /\ eng.query = "Running" => Awaits(RunTypes, QueryAnswers)
         /\ eng.detailPhase = "Loading" => Awaits({"LoadCrateDetail"}, DetailAnswers)
         /\ errors = 0 /\ eng.query = "Warming" => Awaits({"WarmWorkers"}, {"WorkersWarmed"})
BY Zenon DEF PhaseInv, Opening, OpenAnswers, QueryAnswers, DetailAnswers, RunTypes

(* The same after a step.                                                  *)
LEMMA PhaseGives ==
  ASSUME eng'.load = "Loading" => Awaits({"OpenSource"}, OpenAnswers)',
         eng'.query = "Running" => Awaits(RunTypes, QueryAnswers)',
         eng'.detailPhase = "Loading" => Awaits({"LoadCrateDetail"}, DetailAnswers)',
         errors' = 0 /\ eng'.query = "Warming" => Awaits({"WarmWorkers"}, {"WorkersWarmed"})'
  PROVE  PhaseInv'
BY Zenon DEF PhaseInv, Opening, OpenAnswers, QueryAnswers, DetailAnswers, RunTypes

(* Every step keeps somebody at work on what a phase promises.             *)
LEMMA PhaseNext ==
  ASSUME TypeOK, IdsInv, OrderInv, PhaseInv, FreshInv, [Next]_vars PROVE PhaseInv'
<1> SUFFICES ASSUME thrown' = 0 PROVE PhaseInv'
  BY DEF PhaseInv
<1>0. thrown = 0 /\ ~\E p \in DOMAIN pipes : WarmThrows(p)
  BY StillNoThrow
<1>1. errors' = 0 => errors = 0
  BY StillNoError
<1>2. /\ eng.load = "Loading" => Awaits({"OpenSource"}, OpenAnswers)
      /\ eng.query = "Running" => Awaits(RunTypes, QueryAnswers)
      /\ eng.detailPhase = "Loading" => Awaits({"LoadCrateDetail"}, DetailAnswers)
      /\ errors = 0 /\ eng.query = "Warming" => Awaits({"WarmWorkers"}, {"WorkersWarmed"})
  BY <1>0, PhaseIs
<1>3. ASSUME UNCHANGED eng,
             \A r \in DOMAIN pipes :
               \/ pipes[r].queue = <<>> /\ pipes[r].effects = <<>>
               \/ /\ r \in DOMAIN pipes'
                  /\ pipes'[r].queue = pipes[r].queue /\ pipes'[r].effects = pipes[r].effects
      PROVE  PhaseInv'
  <2>1. \A types, answers : Awaits(types, answers) => Awaits(types, answers)'
    BY <1>3, OthersAwait
  <2> QED
    BY <1>1, <1>2, <1>3, <2>1, PhaseGives
<1>4. CASE UNCHANGED <<eng, pipes>>
  BY <1>3, <1>4
<1>5. CASE Receive
  <2>1. CASE eng' = Reset(eng)
    <3>1. eng'.load = "Idle" /\ eng'.query = "Idle" /\ eng'.detailPhase = "Idle"
      BY <2>1 DEF Reset, Initial
    <3> QED
      BY <3>1, PhaseGives
  <2>2. CASE UNCHANGED eng /\ \A r \in DOMAIN pipes : r \in DOMAIN pipes' /\ pipes'[r] = pipes[r]
    BY <1>3, <2>2
  <2> QED
    BY <1>5, <2>1, <2>2, ReceiveMeans
<1>6. ASSUME NEW p \in DOMAIN pipes, Handle(p) PROVE PhaseInv'
  <2> DEFINE e == Head(pipes[p].queue)
             h == HandleEvent(eng, e)
  <2>1. Faithful(eng, e, h) /\ eng' = h.state /\ UNCHANGED errors
    BY <1>6, HandleMeans
  <2>2. \A types, answers :
          \/ Awaits(types, answers) /\ e.type \notin answers
          \/ \E f \in FX(h) : f.type \in types
          => Awaits(types, answers)'
    BY <1>6, HandleAwaits
  <2> HIDE DEF h, e
  <2>3. eng'.load = "Loading" => Awaits({"OpenSource"}, OpenAnswers)'
    <3>1. eng'.load = "Loading" =>
            \/ eng.load = "Loading" /\ e.type \notin OpenAnswers
            \/ \E f \in FX(h) : f.type \in {"OpenSource"}
      BY <2>1 DEF Faithful, OpenAnswers
    <3> QED
      BY <1>2, <2>2, <3>1, Zenon
  <2>4. eng'.query = "Running" => Awaits(RunTypes, QueryAnswers)'
    <3>1. eng'.query = "Running" =>
            \/ eng.query = "Running" /\ e.type \notin QueryAnswers
            \/ \E f \in FX(h) : f.type \in RunTypes
      BY <2>1 DEF Faithful, QueryAnswers
    <3> QED
      BY <1>2, <2>2, <3>1, Zenon
  <2>5. eng'.detailPhase = "Loading" => Awaits({"LoadCrateDetail"}, DetailAnswers)'
    <3>1. eng'.detailPhase = "Loading" =>
            \/ eng.detailPhase = "Loading" /\ e.type \notin DetailAnswers
            \/ \E f \in FX(h) : f.type \in {"LoadCrateDetail"}
      BY <2>1 DEF Faithful, DetailAnswers
    <3> QED
      BY <1>2, <2>2, <3>1, Zenon
  <2>6. errors' = 0 /\ eng'.query = "Warming" => Awaits({"WarmWorkers"}, {"WorkersWarmed"})'
    <3>1. eng'.query = "Warming" =>
            \/ eng.query = "Warming" /\ e.type \notin {"WorkersWarmed"}
            \/ \E f \in FX(h) : f.type \in {"WarmWorkers"}
      BY <2>1 DEF Faithful
    <3> QED
      BY <1>1, <1>2, <2>2, <3>1, Zenon
  <2> QED
    BY <2>3, <2>4, <2>5, <2>6, PhaseGives
<1>7. ASSUME NEW p \in DOMAIN pipes, Finish(p) PROVE PhaseInv'
  <2>1. /\ pipes[p].queue = <<>> /\ pipes[p].effects = <<>> /\ UNCHANGED eng
        /\ DOMAIN pipes' = DOMAIN pipes \ {p}
        /\ \A r \in DOMAIN pipes' : pipes'[r] = pipes[r]
    BY <1>7, FinishMeans
  <2> QED
    BY <1>3, <2>1
<1>8. ASSUME NEW p \in DOMAIN pipes, StartEffect(p) \/ OpenSource(p) \/ Query(p) \/ Warm(p) PROVE PhaseInv'
  <2> DEFINE f == Head(pipes[p].effects)
  <2>1. /\ pipes[p].effects # <<>> /\ (Begins(p) \/ Ends(p)) /\ UNCHANGED <<eng, errors>>
    BY <1>8, EffectSteps
  <2>2. CASE Begins(p)
    <3>1. \A r \in DOMAIN pipes : /\ r \in DOMAIN pipes'
                                  /\ pipes'[r].queue = pipes[r].queue /\ pipes'[r].effects = pipes[r].effects
      BY <2>2, BeginsMeans
    <3> QED
      BY <1>3, <2>1, <3>1
  <2>3. CASE Ends(p)
    <3>1. ASSUME NEW types, NEW answers, Awaits(types, answers),
                 \A ev : f.type \in types /\ AnswerTo(f, pipes[p].effect, ev) => ev.type \in answers,
                 f.type = "WarmWorkers" /\ "WarmWorkers" \in types => store.file # None
          PROVE  Awaits(types, answers)'
      BY <2>1, <2>3, <3>1, EndsAwaits
    <3>2. eng.load = "Loading" => Awaits({"OpenSource"}, OpenAnswers)'
      <4>1. \A ev : f.type \in {"OpenSource"} /\ AnswerTo(f, pipes[p].effect, ev) => ev.type \in OpenAnswers
        BY DEF AnswerTo, OpenAnswers, RunTypes
      <4>2. "WarmWorkers" \notin {"OpenSource"}
        OBVIOUS
      <4> QED
        BY <1>2, <3>1, <4>1, <4>2, Zenon
    <3>3. eng.query = "Running" => Awaits(RunTypes, QueryAnswers)'
      <4>1. \A ev : f.type \in RunTypes /\ AnswerTo(f, pipes[p].effect, ev) => ev.type \in QueryAnswers
        BY DEF AnswerTo, QueryAnswers, RunTypes
      <4>2. "WarmWorkers" \notin RunTypes
        BY DEF RunTypes
      <4> QED
        BY <1>2, <3>1, <4>1, <4>2, Zenon
    <3>4. eng.detailPhase = "Loading" => Awaits({"LoadCrateDetail"}, DetailAnswers)'
      <4>1. \A ev : f.type \in {"LoadCrateDetail"} /\ AnswerTo(f, pipes[p].effect, ev) => ev.type \in DetailAnswers
        BY DEF AnswerTo, DetailAnswers, RunTypes
      <4>2. "WarmWorkers" \notin {"LoadCrateDetail"}
        OBVIOUS
      <4> QED
        BY <1>2, <3>1, <4>1, <4>2, Zenon
    <3>5. errors = 0 /\ eng.query = "Warming" => Awaits({"WarmWorkers"}, {"WorkersWarmed"})'
      <4>1. \A ev : f.type \in {"WarmWorkers"} /\ AnswerTo(f, pipes[p].effect, ev) => ev.type \in {"WorkersWarmed"}
        BY DEF AnswerTo, RunTypes
      <4>2. errors = 0 /\ f.type = "WarmWorkers" => store.file # None
        <5>1. f = pipes[p].effects[1] /\ 1 \in DOMAIN pipes[p].effects
          BY <2>1, PipeTyped, Popped
        <5> QED
          BY <5>1, EngineAssumption DEF FreshInv, FreshPipe
      <4> QED
        BY <1>2, <3>1, <4>1, <4>2, Zenon
    <3> QED
      BY <2>1, <3>2, <3>3, <3>4, <3>5, PhaseGives
  <2> QED
    BY <2>1, <2>2, <2>3
<1>9. CASE UNCHANGED vars
  BY <1>4, <1>9 DEF vars
<1>10. ASSUME NEW e \in UserEvents, Dispatch(e) PROVE PhaseInv'
  BY <1>4, <1>10 DEF Dispatch, worker
<1>11. CASE OnMessage \/ OnError
  BY <1>4, <1>11 DEF OnMessage, OnError, worker
<1> QED
  BY <1>0, <1>5, <1>6, <1>7, <1>8, <1>9, <1>10, <1>11 DEF Next, PipeStep

(* An engine that is not opening a file keeps what a quiet one knew.       *)
LEMMA OpeningKept ==
  ASSUME TypeOK, ~Opening',
         \A r \in DOMAIN pipes :
           \/ pipes[r].queue = <<>> /\ pipes[r].effects = <<>>
           \/ /\ r \in DOMAIN pipes'
              /\ pipes'[r].queue = pipes[r].queue /\ pipes'[r].effects = pipes[r].effects
  PROVE  ~Opening
<1>1. Awaits({"OpenSource"}, OpenAnswers) => Awaits({"OpenSource"}, OpenAnswers)'
  BY OthersAwait
<1> QED
  BY <1>1, Zenon DEF Opening, OpenAnswers

(* Nor does one that handles another event.                                *)
LEMMA HandleOpening ==
  ASSUME TypeOK, NEW p \in DOMAIN pipes, Handle(p), ~Opening', Head(pipes[p].queue).type \notin OpenAnswers
  PROVE  ~Opening
<1>1. Awaits({"OpenSource"}, OpenAnswers) => Awaits({"OpenSource"}, OpenAnswers)'
  BY HandleAwaits
<1> QED
  BY <1>1, Zenon DEF Opening, OpenAnswers

(* Nor does one whose effect ends.                                         *)
LEMMA EndsOpening ==
  ASSUME TypeOK, NEW p \in DOMAIN pipes, pipes[p].effects # <<>>, Ends(p), ~Opening'
  PROVE  ~Opening
<1> DEFINE f == Head(pipes[p].effects)
<1>1. \A ev : f.type \in {"OpenSource"} /\ AnswerTo(f, pipes[p].effect, ev) => ev.type \in OpenAnswers
  BY DEF AnswerTo, OpenAnswers, RunTypes
<1>2. "WarmWorkers" \notin {"OpenSource"}
  OBVIOUS
<1>3. Awaits({"OpenSource"}, OpenAnswers) => Awaits({"OpenSource"}, OpenAnswers)'
  BY <1>1, <1>2, EndsAwaits
<1> QED
  BY <1>3, Zenon DEF Opening, OpenAnswers

(* A pipeline's events and effects, as a fresh pipeline has them.          *)
FreshQueue(q, a, e, s) ==
  \A i \in DOMAIN q :
    /\ q[i].type = "QueryDone" => q[i].result = [plan |-> a, file |-> e.meta]
    /\ q[i].type = "CrateDetailDone" => q[i].detail.crate = e.selected
    /\ q[i].type = "FileOpened" => s.file = q[i].file
FreshEffects(fx, a, e, s) ==
  /\ \A i \in Runs(fx) : Plan(fx[i]) = a /\ s.file = e.meta
  /\ \A i \in DOMAIN fx :
       /\ fx[i].type = "LoadCrateDetail" => fx[i].crate = e.selected
       /\ fx[i].type = "WarmWorkers" => s.file = e.meta /\ e.meta \in Files
FreshSeen(q, e) ==
  q.view = ViewModel(e) \/ q.queue # <<>> \/ \E i \in DOMAIN q.effects : q.effects[i].type = "OpenSource"
FreshEffect(q, e) ==
  (q.effect.on /\ Head(q.effects).type \in RunTypes) => q.effect.file = e.meta
Fresh(q, a, e, s) ==
  FreshSeen(q, e) /\ FreshEffects(q.effects, a, e, s) /\ FreshEffect(q, e) /\ FreshQueue(q.queue, a, e, s)
FreshStore(opening, e, s) == (e.load = "Ready" /\ ~opening) => s.file = e.meta /\ e.meta \in Files

(* FreshInv, part by part.                                                 *)
LEMMA FreshIs ==
  ASSUME FreshInv, errors = 0
  PROVE  FreshStore(Opening, eng, store) /\ \A p \in DOMAIN pipes : Fresh(pipes[p], asked, eng, store)
BY Zenon DEF FreshInv, FreshPipe, Fresh, FreshSeen, FreshEffects, FreshEffect, FreshQueue, FreshStore, RunTypes

(* The same after a step.                                                  *)
LEMMA FreshGives ==
  ASSUME FreshStore(Opening', eng', store'), \A p \in DOMAIN pipes' : Fresh(pipes'[p], asked', eng', store')
  PROVE  FreshInv'
BY Zenon DEF FreshInv, FreshPipe, Fresh, FreshSeen, FreshEffects, FreshEffect, FreshQueue, FreshStore, RunTypes

(* A message that is taken up finds the worker without a pipeline.         *)
LEMMA FreshReceive ==
  ASSUME TypeOK, IdsInv, SingleFlight, FreshInv, Receive, errors = 0 PROVE FreshInv'
<1> DEFINE m == toWorker[1]
<1>1. /\ toWorker # <<>> /\ m \in Jobs /\ UNCHANGED <<store, asked>>
  BY ReceiveMeans
<1>2. DOMAIN pipes = {}
  BY <1>1, FlightIs DEF AtRest, Posted, Piped, Answered
<1>3. CASE UNCHANGED pipes /\ eng' = Reset(eng)
  <2>1. eng'.load = "Idle"
    BY <1>3 DEF Reset, Initial
  <2>2. FreshStore(Opening', eng', store')
    BY <2>1 DEF FreshStore
  <2> QED
    BY <1>2, <1>3, <2>2, FreshGives
<1>4. CASE m.kind # "init" /\ UNCHANGED eng /\ DOMAIN pipes' = DOMAIN pipes \cup {m.id} /\ pipes'[m.id] = NewPipe(m)
  <2> DEFINE q == NewPipe(m)
             e == m.event
  <2>1. /\ q.effect.on = FALSE
        /\ q.queue = (IF m.kind = "event" THEN <<e>> ELSE <<>>)
        /\ q.effects = (IF m.kind = "openFile" THEN <<e>> ELSE <<>>)
    BY DEF NewPipe, NoEffect
  <2>2. /\ m.kind = "event" \/ m.kind = "openFile"
        /\ m.kind = "event" => e.type \notin {"QueryDone", "CrateDetailDone", "FileOpened"}
        /\ m.kind = "openFile" => e.type = "OpenSource"
    BY <1>1, <1>4, JobFields, Asking
  <2> HIDE DEF q, e
  <2>3. \A i \in DOMAIN q.effects : q.effects[i].type = "OpenSource"
    BY <2>1, <2>2
  <2>4. \A i \in DOMAIN q.queue : q.queue[i].type \notin {"QueryDone", "CrateDetailDone", "FileOpened"}
    BY <2>1, <2>2
  <2>5. q.queue # <<>> \/ \E i \in DOMAIN q.effects : q.effects[i].type = "OpenSource"
    <3>1. CASE m.kind = "event"
      BY <2>1, <3>1
    <3>2. CASE m.kind = "openFile"
      <4>1. q.effects = <<e>> /\ 1 \in DOMAIN <<e>>
        BY <2>1, <3>2
      <4> QED
        BY <2>3, <4>1
    <3> QED
      BY <2>2, <3>1, <3>2
  <2>6. Fresh(q, asked, eng, store)
    BY <2>1, <2>3, <2>4, <2>5 DEF Fresh, FreshSeen, FreshEffects, FreshEffect, FreshQueue, Runs
  <2>7. FreshStore(Opening', eng', store')
    <3>1. ~Opening
      BY <1>2 DEF Opening, Awaits
    <3> QED
      BY <1>1, <1>4, <3>1, FreshIs DEF FreshStore
  <2> QED
    BY <1>1, <1>2, <1>4, <2>6, <2>7, FreshGives DEF q
<1> QED
  BY <1>3, <1>4, ReceiveMeans

(* A pipeline that ends leaves the worker without one.                     *)
LEMMA FreshLeft ==
  ASSUME TypeOK, SingleFlight, FreshInv, errors = 0, NEW p \in DOMAIN pipes, DOMAIN pipes' = DOMAIN pipes \ {p},
         UNCHANGED <<eng, store>>,
         \/ pipes[p].queue = <<>> /\ pipes[p].effects = <<>>
         \/ pipes[p].effects # <<>> /\ Head(pipes[p].effects).type = "WarmWorkers"
  PROVE  FreshInv'
<1>1. DOMAIN pipes = {p}
  BY FlightIs DEF AtRest, Posted, Piped, Answered
<1>2. FreshStore(FALSE, eng, store)
  <2>1. CASE pipes[p].queue = <<>> /\ pipes[p].effects = <<>>
    <3>1. ~Opening
      BY <1>1, <2>1 DEF Opening, Awaits
    <3> QED
      BY <3>1, FreshIs DEF FreshStore
  <2>2. CASE pipes[p].effects # <<>> /\ Head(pipes[p].effects).type = "WarmWorkers"
    <3>1. 1 \in DOMAIN pipes[p].effects /\ pipes[p].effects[1].type = "WarmWorkers"
      BY <2>2, PipeTyped, Popped
    <3> QED
      BY <3>1, FreshIs DEF FreshStore, Fresh, FreshEffects
  <2> QED
    BY <2>1, <2>2
<1>3. FreshStore(Opening', eng', store')
  BY <1>2 DEF FreshStore
<1> QED
  BY <1>1, <1>3, FreshGives

(* The engine's effects ask for what is the latest now.                    *)
LEMMA OneRun ==
  ASSUME NEW h, WellFormed(h), NEW i \in Runs(h.effects), NEW k \in Runs(h.effects) PROVE i = k
<1>1. /\ h.effects \in Seq(Effects)
      /\ \A j \in DOMAIN h.effects : j < Len(h.effects) => h.effects[j].type = "WarmWorkers"
  BY DEF WellFormed
<1> DEFINE fx == h.effects
<1> HIDE DEF fx
<1>2. DOMAIN fx = 1 .. Len(fx) /\ Len(fx) \in Nat
  BY <1>1 DEF fx
<1>3. \A j \in Runs(fx) : j \in DOMAIN fx /\ ~(j < Len(fx))
  BY <1>1 DEF Runs, fx
<1>4. \A j \in Runs(fx) : j = Len(fx)
  BY <1>2, <1>3
<1> QED
  BY <1>4 DEF fx

(* The engine asks for what is the latest, and hands over the rest.        *)
LEMMA FreshHandle ==
  ASSUME TypeOK, IdsInv, OrderInv, SingleFlight, FreshInv, errors = 0, NEW p \in DOMAIN pipes, Handle(p)
  PROVE  FreshInv'
<1> DEFINE q == pipes[p].queue
           e == Head(q)
           h == HandleEvent(eng, e)
           runs == {Plan(h.effects[i]) : i \in Runs(h.effects)}
<1>1. /\ pipes[p].effects = <<>> /\ q # <<>> /\ e \in Events /\ q \in Seq(Events)
      /\ WellFormed(h) /\ Faithful(eng, e, h) /\ eng' = h.state /\ UNCHANGED store
      /\ DOMAIN pipes' = DOMAIN pipes
      /\ pipes'[p].queue = Tail(q) /\ pipes'[p].effects = h.effects
      /\ pipes'[p].effect = pipes[p].effect /\ pipes'[p].view = ViewModel(eng')
  BY HandleMeans, PipeTyped
<1>2. asked' = IF runs = {} THEN asked ELSE CHOOSE plan \in runs : TRUE
  BY DEF Handle
<1>3. \A i, k \in Runs(h.effects) : i = k
  BY <1>1, OneRun
<1>4. DOMAIN pipes = {p}
  BY FlightIs DEF AtRest, Posted, Piped, Answered
<1>5. FreshStore(Opening, eng, store) /\ FreshQueue(q, asked, eng, store)
  BY FreshIs DEF Fresh
<1>6. ~pipes[p].effect.on
  BY <1>1 DEF OrderInv
<1>7. \A i \in DOMAIN q : i < Len(q) => q[i].type = "WorkersWarmed"
  BY DEF OrderInv
<1>8. e.type \notin OpenAnswers /\ ~Opening' => ~Opening
  BY HandleOpening
<1>9. e.type = "FileOpened" => e.file \in Files
  BY <1>1, ExplorerAssumption DEF Events, Requests, UserEvent, PlainRequests, AnswerEvents
<1> HIDE DEF q, e, h
<1>10. /\ Len(Tail(q)) = Len(q) - 1 /\ DOMAIN Tail(q) = 1 .. Len(q) - 1 /\ e = q[1]
       /\ \A i \in 1 .. Len(q) - 1 : Tail(q)[i] = q[i + 1]
       /\ DOMAIN q = 1 .. Len(q) /\ Len(q) \in Nat \ {0}
  BY <1>1, Popped DEF e
<1>11. 1 \in DOMAIN q /\ \A i \in DOMAIN Tail(q) : i + 1 \in DOMAIN q /\ Tail(q)[i] = q[i + 1] /\ 1 < Len(q)
  BY <1>10
<1>12. DOMAIN Tail(q) # {} => e.type = "WorkersWarmed"
  BY <1>7, <1>10, <1>11
<1>13. e.type = "FileOpened" => store.file = e.file
  BY <1>5, <1>10, <1>11 DEF FreshQueue
<1>14. FreshStore(Opening', eng', store')
  BY <1>1, <1>5, <1>8, <1>9, <1>13 DEF FreshStore, Faithful, OpenAnswers
<1>15. \A i \in DOMAIN h.effects : h.effects[i] \in FX(h)
  BY DEF FX
<1>16. ASSUME NEW n \in DOMAIN h.effects, h.effects[n].type \in RunTypes \cup {"WarmWorkers"}
       PROVE  store.file = eng'.meta /\ eng'.meta \in Files
  <2>1. eng'.load = "Ready"
    BY <1>1, <1>15, <1>16 DEF Faithful
  <2>2. CASE e.type = "FileOpened" /\ eng'.meta = e.file
    BY <1>9, <1>13, <2>2
  <2>3. CASE eng.load = "Ready" /\ eng'.meta = eng.meta /\ e.type \notin {"FileOpened", "FileOpenFailed"}
    <3>1. DOMAIN Tail(q) = {}
      <4>1. h.effects # <<>>
        BY <1>16
      <4> QED
        BY <1>1, <1>12, <4>1 DEF Faithful
    <3>2. \A i \in DOMAIN q : i = 1
      BY <1>10, <3>1
    <3>3. ~Opening
      <4>1. \A i \in DOMAIN q : q[i].type \notin {"FileOpened", "FileOpenFailed"}
        BY <1>10, <2>3, <3>2
      <4>2. ~\E i \in DOMAIN pipes[p].effects : pipes[p].effects[i].type \in {"OpenSource"}
        BY <1>1
      <4> QED
        BY <1>4, <4>1, <4>2 DEF Opening, Awaits, q
    <3> QED
      BY <1>5, <2>3, <3>3 DEF FreshStore
  <2> QED
    BY <1>1, <2>1, <2>2, <2>3 DEF Faithful
<1>17. ASSUME NEW i \in Runs(h.effects) PROVE Plan(h.effects[i]) = asked' /\ store.file = eng'.meta
  <2>1. runs = {Plan(h.effects[i])}
    BY <1>3
  <2>2. asked' = Plan(h.effects[i])
    BY <1>2, <2>1
  <2> QED
    BY <1>16, <2>2 DEF Runs, RunTypes
<1>18. FreshEffects(h.effects, asked', eng', store')
  BY <1>1, <1>15, <1>16, <1>17 DEF FreshEffects, Faithful
<1>19. FreshQueue(Tail(q), asked', eng', store')
  <2> SUFFICES ASSUME NEW i \in DOMAIN Tail(q)
               PROVE  /\ Tail(q)[i].type = "QueryDone" => Tail(q)[i].result = [plan |-> asked', file |-> eng'.meta]
                      /\ Tail(q)[i].type = "CrateDetailDone" => Tail(q)[i].detail.crate = eng'.selected
                      /\ Tail(q)[i].type = "FileOpened" => store'.file = Tail(q)[i].file
    BY DEF FreshQueue
  <2>1. h.effects = <<>> /\ eng'.meta = eng.meta /\ eng'.selected = eng.selected
    BY <1>1, <1>12 DEF Faithful
  <2>2. asked' = asked
    <3>1. runs = {}
      BY <2>1 DEF Runs
    <3> QED
      BY <1>2, <3>1
  <2>3. i + 1 \in DOMAIN q /\ Tail(q)[i] = q[i + 1]
    BY <1>11
  <2> QED
    BY <1>1, <1>5, <2>1, <2>2, <2>3 DEF FreshQueue
<1>20. FreshSeen(pipes'[p], eng')
  BY <1>1 DEF FreshSeen
<1>21. FreshEffect(pipes'[p], eng')
  BY <1>1, <1>6 DEF FreshEffect
<1>22. Fresh(pipes'[p], asked', eng', store')
  BY <1>1, <1>18, <1>19, <1>20, <1>21 DEF Fresh
<1> QED
  BY <1>1, <1>4, <1>14, <1>22, FreshGives

(* An effect that begins takes the file the engine believes to be open.    *)
LEMMA FreshBegins ==
  ASSUME TypeOK, OrderInv, SingleFlight, FreshInv, errors = 0, NEW p \in DOMAIN pipes,
         pipes[p].effects # <<>>, Begins(p), UNCHANGED <<eng, asked>>
  PROVE  FreshInv'
<1> DEFINE fx == pipes[p].effects
           q == pipes[p].queue
<1>1. /\ DOMAIN pipes' = DOMAIN pipes
      /\ pipes'[p].queue = q /\ pipes'[p].effects = fx
      /\ pipes'[p].effect.file = store.file /\ pipes'[p].view = pipes[p].view
      /\ Head(fx).type # "OpenSource" => store' = store
      /\ fx \in Seq(Effects)
  BY BeginsMeans, PipeTyped
<1>2. DOMAIN pipes = {p}
  BY FlightIs DEF AtRest, Posted, Piped, Answered
<1>3. FreshStore(Opening, eng, store) /\ Fresh(pipes[p], asked, eng, store)
  BY FreshIs
<1>4. ~Opening' => ~Opening
  BY <1>1, <1>2, OpeningKept
<1>5. /\ \A i \in DOMAIN q : q[i].type = "WorkersWarmed"
      /\ \A i \in DOMAIN fx : i < Len(fx) => fx[i].type = "WarmWorkers"
  BY DEF OrderInv
<1>6. FreshSeen(pipes'[p], eng')
  BY <1>1, <1>3 DEF Fresh, FreshSeen
<1>7. FreshQueue(q, asked', eng', store')
  BY <1>5 DEF FreshQueue
<1>0. fx # <<>>
  OBVIOUS
<1> HIDE DEF fx, q
<1>8. /\ Head(fx) = fx[1] /\ DOMAIN fx = 1 .. Len(fx) /\ Len(fx) \in Nat \ {0} /\ 1 \in DOMAIN fx
  BY <1>0, <1>1, Popped
<1>9. CASE Head(fx).type = "OpenSource"
  <2>1. \A i \in DOMAIN fx : i = 1
    BY <1>5, <1>8, <1>9
  <2>2. \A i \in DOMAIN fx : fx[i].type = "OpenSource"
    BY <1>8, <1>9, <2>1
  <2>3. FreshEffects(fx, asked', eng', store')
    BY <2>2 DEF FreshEffects, Runs
  <2>4. FreshEffect(pipes'[p], eng')
    BY <1>1, <1>9 DEF FreshEffect, RunTypes
  <2>5. Opening'
    <3>1. \E i \in DOMAIN pipes'[p].effects : pipes'[p].effects[i].type \in {"OpenSource"}
      BY <1>1, <1>8, <2>2
    <3> QED
      BY <1>1, <3>1 DEF Opening, Awaits
  <2>6. FreshStore(Opening', eng', store')
    BY <2>5 DEF FreshStore
  <2> QED
    BY <1>1, <1>2, <1>6, <1>7, <2>3, <2>4, <2>6, FreshGives DEF Fresh
<1>10. CASE Head(fx).type # "OpenSource"
  <2>1. FreshEffects(fx, asked', eng', store')
    BY <1>1, <1>3, <1>10 DEF Fresh, fx
  <2>2. FreshEffect(pipes'[p], eng')
    <3>1. Head(fx).type \in RunTypes => 1 \in Runs(fx)
      BY <1>8 DEF Runs, RunTypes
    <3> QED
      BY <1>1, <1>3, <3>1 DEF FreshEffect, Fresh, FreshEffects, fx
  <2>3. FreshStore(Opening', eng', store')
    BY <1>1, <1>3, <1>4, <1>10 DEF FreshStore
  <2> QED
    BY <1>1, <1>2, <1>6, <1>7, <2>1, <2>2, <2>3, FreshGives DEF Fresh
<1> QED
  BY <1>9, <1>10

(* The answer of an effect is about the latest run and the open file.      *)
LEMMA FreshEnds ==
  ASSUME TypeOK, OrderInv, SingleFlight, FreshInv, errors = 0, NEW p \in DOMAIN pipes,
         pipes[p].effects # <<>>, Ends(p), UNCHANGED <<eng, asked>>
  PROVE  FreshInv'
<1> DEFINE fx == pipes[p].effects
           q == pipes[p].queue
           f == Head(fx)
<1>1. DOMAIN pipes = {p}
  BY FlightIs DEF AtRest, Posted, Piped, Answered
<1>2. FreshStore(Opening, eng, store) /\ Fresh(pipes[p], asked, eng, store)
  BY FreshIs
<1>3. ~Opening' => ~Opening
  BY EndsOpening
<1>4. /\ \A i \in DOMAIN q : q[i].type = "WorkersWarmed"
      /\ \A i \in DOMAIN fx : i < Len(fx) => fx[i].type = "WarmWorkers"
  BY DEF OrderInv
<1>5. fx \in Seq(Effects) /\ q \in Seq(Events) /\ fx # <<>>
  BY PipeTyped
<1>6. FreshEffects(fx, asked, eng, store)
  BY <1>2 DEF Fresh
<1>7. f = fx[1] /\ 1 \in DOMAIN fx
  BY <1>5, Popped
<1>8. PICK evs \in Seq(Events) :
           /\ EffectDone(p, evs) /\ Len(evs) <= 1
           /\ \/ evs = <<>> /\ f.type = "WarmWorkers" /\ store.file = None
              \/ \E ev : evs = <<ev>> /\ EndsWith(p, f, ev)
  BY <1>5, EndsDone
<1>9. PICK ev : evs = <<ev>> /\ EndsWith(p, f, ev)
  <2>1. f.type = "WarmWorkers" => store.file # None
    BY <1>6, <1>7, EngineAssumption DEF FreshEffects
  <2> QED
    BY <1>8, <2>1
<1>10. /\ DOMAIN pipes' = DOMAIN pipes
       /\ pipes'[p].queue = q \o evs /\ pipes'[p].effects = Tail(fx)
       /\ pipes'[p].effect = NoEffect
  BY <1>5, <1>8, EffectDoneMeans
<1>11. /\ AnswerTo(f, pipes[p].effect, ev)
       /\ f.type # "OpenSource" => store'.file = store.file
       /\ ev.type = "FileOpened" => store'.file = ev.file
  BY <1>9 DEF EndsWith
<1>12. FreshEffect(pipes[p], eng)
  BY <1>2 DEF Fresh
<1>13. f.type = "OpenSource" => Opening
  <2>1. f.type = "OpenSource" => \E i \in DOMAIN pipes[p].effects : pipes[p].effects[i].type \in {"OpenSource"}
    BY <1>7
  <2> QED
    BY <2>1 DEF Opening, Awaits
<1> DEFINE k == pipes[p].effect
<1>20. (k.on /\ f.type \in RunTypes) => k.file = eng.meta
  BY <1>12 DEF FreshEffect
<1> HIDE DEF fx, q, f, k
<1>14. /\ DOMAIN (q \o evs) = 1 .. Len(q) + 1
       /\ \A i \in 1 .. Len(q) : (q \o evs)[i] = q[i]
       /\ (q \o evs)[Len(q) + 1] = ev
       /\ DOMAIN q = 1 .. Len(q) /\ Len(q) \in Nat
  <2>1. Len(evs) = 1 /\ evs[1] = ev /\ 1 \in 1 .. Len(evs)
    BY <1>9
  <2>2. /\ DOMAIN (q \o evs) = 1 .. Len(q) + Len(evs)
        /\ \A i \in 1 .. Len(q) : (q \o evs)[i] = q[i]
        /\ \A i \in 1 .. Len(evs) : (q \o evs)[Len(q) + i] = evs[i]
    BY <1>5, <1>8, Concat
  <2>3. DOMAIN q = 1 .. Len(q) /\ Len(q) \in Nat
    BY <1>5
  <2> QED
    BY <2>1, <2>2, <2>3
<1>15. FreshSeen(pipes'[p], eng')
  <2>1. Len(q) + 1 \in DOMAIN (q \o evs)
    BY <1>14
  <2>2. q \o evs # <<>>
    BY <2>1
  <2> QED
    BY <1>10, <2>2 DEF FreshSeen
<1>16. FreshEffect(pipes'[p], eng')
  BY <1>10 DEF FreshEffect, NoEffect
<1>17. FreshEffects(Tail(fx), asked', eng', store')
  <2>1. /\ DOMAIN Tail(fx) = 1 .. Len(fx) - 1 /\ DOMAIN fx = 1 .. Len(fx) /\ Len(fx) \in Nat \ {0}
        /\ \A i \in 1 .. Len(fx) - 1 : Tail(fx)[i] = fx[i + 1]
    BY <1>5, Popped
  <2>2. \A i \in DOMAIN Tail(fx) : i + 1 \in DOMAIN fx /\ Tail(fx)[i] = fx[i + 1] /\ 1 < Len(fx)
    BY <2>1
  <2>3. \A i \in DOMAIN Tail(fx) : store'.file = store.file
    <3> SUFFICES ASSUME NEW i \in DOMAIN Tail(fx) PROVE store'.file = store.file
      OBVIOUS
    <3>1. fx[1].type = "WarmWorkers"
      BY <1>4, <1>7, <2>2
    <3> QED
      BY <1>7, <1>11, <3>1
  <2>4. \A i \in Runs(Tail(fx)) : i \in DOMAIN Tail(fx) /\ i + 1 \in Runs(fx)
    BY <2>2 DEF Runs
  <2> QED
    BY <1>6, <2>2, <2>3, <2>4 DEF FreshEffects
<1>18. FreshQueue(q \o evs, asked', eng', store')
  <2>1. /\ ev.type = "QueryDone" => ev.result = [plan |-> asked, file |-> eng.meta]
        /\ ev.type = "CrateDetailDone" => ev.detail.crate = eng.selected
        /\ ev.type = "FileOpened" => store'.file = ev.file
    <3>1. ev.type = "QueryDone" => ev.result = [plan |-> asked, file |-> eng.meta]
      <4>1. ASSUME ev.type = "QueryDone" PROVE f.type \in RunTypes /\ k.on /\ ev.result = [plan |-> Plan(f), file |-> k.file]
        BY <1>11, <4>1 DEF AnswerTo, k
      <4>2. f.type \in RunTypes => Plan(f) = asked
        <5>1. f.type \in RunTypes => 1 \in Runs(fx)
          BY <1>7 DEF Runs, RunTypes
        <5> QED
          BY <1>6, <1>7, <5>1 DEF FreshEffects
      <4> QED
        BY <1>20, <4>1, <4>2
    <3>2. ev.type = "CrateDetailDone" => ev.detail.crate = eng.selected
      <4>1. ASSUME ev.type = "CrateDetailDone" PROVE f.type = "LoadCrateDetail" /\ ev.detail.crate = f.crate
        BY <1>11, <4>1 DEF AnswerTo
      <4> QED
        BY <1>6, <1>7, <4>1 DEF FreshEffects
    <3> QED
      BY <1>11, <3>1, <3>2
  <2>2. \A i \in DOMAIN (q \o evs) : (q \o evs)[i] = ev \/ (q \o evs)[i].type = "WorkersWarmed"
    <3> SUFFICES ASSUME NEW i \in DOMAIN (q \o evs) PROVE (q \o evs)[i] = ev \/ (q \o evs)[i].type = "WorkersWarmed"
      OBVIOUS
    <3>1. i \in 1 .. Len(q) \/ i = Len(q) + 1
      BY <1>14
    <3> QED
      BY <1>4, <1>14, <3>1
  <2> QED
    BY <2>1, <2>2 DEF FreshQueue
<1>19. FreshStore(Opening', eng', store')
  BY <1>2, <1>3, <1>11, <1>13 DEF FreshStore
<1> QED
  BY <1>1, <1>10, <1>15, <1>16, <1>17, <1>18, <1>19, FreshGives DEF Fresh

(* Every step keeps the pipelines fresh until an error event.              *)
LEMMA FreshNext ==
  ASSUME TypeOK, IdsInv, OrderInv, SingleFlight, FreshInv, [Next]_vars PROVE FreshInv'
<1> SUFFICES ASSUME errors' = 0 PROVE FreshInv'
  BY DEF FreshInv
<1>0. errors = 0
  BY StillNoError
<1>1. CASE UNCHANGED <<eng, asked, store, pipes>>
  <2>1. FreshStore(Opening', eng', store')
    <3>1. FreshStore(Opening, eng, store)
      BY <1>0, FreshIs
    <3>2. ~Opening' => ~Opening
      BY <1>1, OpeningKept
    <3> QED
      BY <1>1, <3>1, <3>2 DEF FreshStore
  <2> QED
    BY <1>0, <1>1, <2>1, FreshIs, FreshGives
<1>2. CASE Receive
  BY <1>0, <1>2, FreshReceive
<1>3. ASSUME NEW p \in DOMAIN pipes, Handle(p) PROVE FreshInv'
  BY <1>0, <1>3, FreshHandle
<1>4. ASSUME NEW p \in DOMAIN pipes, Finish(p) PROVE FreshInv'
  BY <1>0, <1>4, FinishMeans, FreshLeft
<1>5. ASSUME NEW p \in DOMAIN pipes, WarmThrows(p) PROVE FreshInv'
  <2>1. pipes[p].effects # <<>> /\ Head(pipes[p].effects).type = "WarmWorkers"
    BY <1>5 DEF WarmThrows, OrderInv
  <2> QED
    BY <1>0, <1>5, <2>1, WarmThrowsMeans, FreshLeft
<1>6. ASSUME NEW p \in DOMAIN pipes, StartEffect(p) \/ OpenSource(p) \/ Query(p) \/ Warm(p) PROVE FreshInv'
  <2>1. /\ pipes[p].effects # <<>> /\ (Begins(p) \/ Ends(p)) /\ UNCHANGED <<eng, asked>>
    BY <1>6, EffectSteps
  <2> QED
    BY <1>0, <1>6, <2>1, FreshBegins, FreshEnds
<1>7. ASSUME NEW e \in UserEvents, Dispatch(e) PROVE FreshInv'
  BY <1>1, <1>7 DEF Dispatch, worker
<1>8. CASE OnMessage \/ OnError
  BY <1>1, <1>8 DEF OnMessage, OnError, worker
<1>9. CASE UNCHANGED vars
  BY <1>1, <1>9 DEF vars
<1> QED
  BY <1>2, <1>3, <1>4, <1>5, <1>6, <1>7, <1>8, <1>9 DEF Next, PipeStep

(* Only the engine's own steps change what it shows.                       *)
EngineStep ==
  \/ UNCHANGED <<eng, asked>>
  \/ eng' = Reset(eng) /\ UNCHANGED asked
  \/ \E p \in DOMAIN pipes : Handle(p)

(* Every step is one of the engine, a reset, or leaves it alone.           *)
LEMMA EngineSteps == ASSUME TypeOK, IdsInv, OrderInv, [Next]_vars PROVE EngineStep
<1>1. CASE Receive
  BY <1>1, ReceiveMeans DEF EngineStep
<1>2. ASSUME NEW p \in DOMAIN pipes, PipeStep(p) \/ WarmThrows(p) PROVE EngineStep
  BY <1>2, EffectSteps, FinishMeans, WarmThrowsMeans, Zenon DEF EngineStep, PipeStep
<1>3. CASE OnMessage \/ OnError \/ (\E e \in UserEvents : Dispatch(e)) \/ UNCHANGED vars
  BY <1>3 DEF EngineStep, OnMessage, OnError, Dispatch, vars, worker
<1> QED
  BY <1>1, <1>2, <1>3 DEF Next

(* Every step keeps what is shown about what was asked for last.           *)
LEMMA ShownNext ==
  ASSUME TypeOK, IdsInv, OrderInv, FreshInv, DoneShowsLatestRun, DetailOfSelection, PreviewFresh, [Next]_vars
  PROVE  DoneShowsLatestRun' /\ DetailOfSelection' /\ PreviewFresh'
<1>0. errors' = 0 => errors = 0
  BY StillNoError
<1>1. CASE UNCHANGED <<eng, asked>>
  BY <1>0, <1>1 DEF DoneShowsLatestRun, DetailOfSelection, PreviewFresh
<1>2. CASE eng' = Reset(eng)
  <2>1. eng'.query = "Idle" /\ eng'.detailPhase = "Idle" /\ eng'.built = None
    BY <1>2 DEF Reset, Initial
  <2> QED
    BY <2>1 DEF DoneShowsLatestRun, DetailOfSelection, PreviewFresh
<1>3. ASSUME NEW p \in DOMAIN pipes, Handle(p) PROVE DoneShowsLatestRun' /\ DetailOfSelection' /\ PreviewFresh'
  <2> DEFINE q == pipes[p].queue
             e == Head(q)
             h == HandleEvent(eng, e)
             runs == {Plan(h.effects[i]) : i \in Runs(h.effects)}
  <2>1. q # <<>> /\ q \in Seq(Events) /\ Faithful(eng, e, h) /\ eng' = h.state
    BY <1>3, HandleMeans, PipeTyped
  <2>2. asked' = IF runs = {} THEN asked ELSE CHOOSE plan \in runs : TRUE
    BY <1>3 DEF Handle
  <2>3. errors = 0 => FreshQueue(q, asked, eng, store)
    BY FreshIs DEF Fresh
  <2> HIDE DEF q, e, h
  <2>4. e = q[1] /\ 1 \in DOMAIN q
    BY <2>1, Popped DEF e
  <2>5. errors = 0 => /\ e.type = "QueryDone" => e.result = [plan |-> asked, file |-> eng.meta]
                      /\ e.type = "CrateDetailDone" => e.detail.crate = eng.selected
    BY <2>3, <2>4 DEF FreshQueue
  <2>6. DoneShowsLatestRun'
    <3> SUFFICES ASSUME errors = 0, eng'.query = "Done" PROVE eng'.result = [plan |-> asked', file |-> eng'.meta]
      BY <1>0 DEF DoneShowsLatestRun
    <3>1. \A f \in FX(h) : f.type \notin RunTypes
      BY <2>1 DEF Faithful
    <3>2. runs = {}
      BY <3>1 DEF Runs, FX, RunTypes
    <3>3. asked' = asked /\ eng'.meta = eng.meta
      BY <2>1, <2>2, <3>2 DEF Faithful
    <3>4. \/ e.type = "QueryDone" /\ eng'.result = e.result
          \/ eng.query = "Done" /\ eng'.result = eng.result
      BY <2>1 DEF Faithful
    <3> QED
      BY <2>5, <3>3, <3>4 DEF DoneShowsLatestRun
  <2>7. DetailOfSelection'
    <3> SUFFICES ASSUME errors = 0, eng'.detailPhase = "Ready", eng'.selected # None PROVE eng'.detail.crate = eng'.selected
      BY <1>0 DEF DetailOfSelection
    <3>1. /\ \/ e.type = "CrateDetailDone" /\ eng'.detail = e.detail
             \/ eng.detailPhase = "Ready" /\ eng'.detail = eng.detail
          /\ eng'.selected = eng.selected
      BY <2>1 DEF Faithful
    <3> QED
      BY <2>5, <3>1 DEF DetailOfSelection
  <2>8. PreviewFresh'
    BY <2>1 DEF Faithful, PreviewFresh
  <2> QED
    BY <2>6, <2>7, <2>8
<1> QED
  BY <1>1, <1>2, <1>3, EngineSteps DEF EngineStep

(* Every step keeps the page and the reply to it up to date.               *)
LEMMA ViewNext ==
  ASSUME TypeOK, IdsInv, OrderInv, SingleFlight, FreshInv, ViewInv, [Next]_vars PROVE ViewInv'
<1> SUFFICES ASSUME errors' = 0, thrown' = 0 PROVE ViewInv'
  BY DEF ViewInv
<1>0. errors = 0 /\ thrown = 0 /\ ~\E p \in DOMAIN pipes : WarmThrows(p)
  BY StillNoError, StillNoThrow
<1>1. /\ \A k \in DOMAIN toPage : toPage[k].kind # "error" /\ toPage[k].view = ViewModel(eng)
      /\ (ready /\ (toWorker # <<>> \/ ~busy)) => view = ViewModel(eng)
  BY <1>0 DEF ViewInv
<1>2. busy <=> jobs # <<>>
  BY DEF IdsInv
<1>3. ASSUME NEW e \in UserEvents, Dispatch(e) PROVE ViewInv'
  <2>1. /\ \E j : Queued(j)
        /\ UNCHANGED <<view, ready, toPage, eng, pipes>>
    BY <1>3, DispatchMeans DEF worker
  <2>2. busy' /\ (busy => toWorker' = toWorker)
    BY <2>1, QueuedStep
  <2>3. (ready' /\ (toWorker' # <<>> \/ ~busy')) => view' = ViewModel(eng')
    <3>1. CASE busy
      BY <1>1, <2>1, <2>2, <3>1
    <3>2. CASE ~busy
      BY <1>1, <2>1, <3>2
    <3> QED
      BY <3>1, <3>2
  <2> QED
    BY <1>1, <2>1, <2>3 DEF ViewInv
<1>4. CASE OnMessage
  <2>1. toPage # <<>> /\ toPage' = Tail(toPage) /\ toPage \in Seq(Replies) /\ UNCHANGED eng
    BY <1>4 DEF OnMessage, worker, TypeOK
  <2>2. busy /\ Len(toPage) = 1
    BY <1>0, <2>1, FlightIs DEF AtRest, Posted, Piped, Answered
  <2>3. toPage' = <<>> /\ Head(toPage) = toPage[1] /\ 1 \in DOMAIN toPage
    BY <2>1, <2>2, Popped
  <2>4. view' = IF Head(toPage).kind = "error" THEN view ELSE Head(toPage).view
    BY <1>2, <1>4, <2>2 DEF OnMessage
  <2>5. view' = ViewModel(eng')
    BY <1>1, <2>1, <2>3, <2>4
  <2> QED
    BY <2>3, <2>5 DEF ViewInv
<1>5. CASE Receive
  <2> DEFINE m == toWorker[1]
  <2>1. /\ toWorker # <<>> /\ toWorker' = Tail(toWorker) /\ toWorker \in Seq(Jobs) /\ toPage \in Seq(Replies)
        /\ UNCHANGED busy
    BY <1>5, ReceiveMeans DEF page, TypeOK
  <2>2. busy /\ Len(toWorker) = 1 /\ toPage = <<>>
    BY <1>0, <2>1, FlightIs DEF AtRest, Posted, Piped, Answered
  <2>3. toWorker' = <<>> /\ busy'
    BY <2>1, <2>2, Popped
  <2>4. CASE \E a \in Replies : toPage' = Append(toPage, a) /\ a.kind = "initialized" /\ a.view = ViewModel(eng')
    <3>1. PICK a \in Replies : toPage' = Append(toPage, a) /\ a.kind = "initialized" /\ a.view = ViewModel(eng')
      BY <2>4
    <3>2. \A k \in DOMAIN toPage' : toPage'[k] = a
      <4>1. Len(toPage) = 0
        BY <2>1, <2>2, Emptied
      <4>2. DOMAIN toPage' = 1 .. 1 /\ toPage'[1] = a
        BY <2>1, <3>1, <4>1, Appended
      <4> QED
        BY <4>2
    <3> QED
      BY <2>3, <3>1, <3>2 DEF ViewInv
  <2>5. CASE UNCHANGED toPage
    BY <2>2, <2>3, <2>5 DEF ViewInv
  <2> QED
    BY <1>5, <2>4, <2>5, ReceiveMeans
<1>6. ASSUME NEW p \in DOMAIN pipes, UNCHANGED <<toPage, toWorker, busy>> PROVE ViewInv'
  <2>1. busy /\ toWorker = <<>> /\ toPage = <<>>
    BY <1>0, <1>6, FlightIs DEF AtRest, Posted, Piped, Answered
  <2> QED
    BY <1>6, <2>1 DEF ViewInv
<1>7. ASSUME NEW p \in DOMAIN pipes, Handle(p) PROVE ViewInv'
  BY <1>6, <1>7, HandleMeans DEF page
<1>8. ASSUME NEW p \in DOMAIN pipes, StartEffect(p) \/ OpenSource(p) \/ Query(p) \/ Warm(p) PROVE ViewInv'
  BY <1>6, <1>8, EffectSteps DEF page
<1>9. ASSUME NEW p \in DOMAIN pipes, Finish(p) PROVE ViewInv'
  <2>1. /\ pipes[p].queue = <<>> /\ pipes[p].effects = <<>> /\ UNCHANGED <<busy, toWorker, eng>>
        /\ \E a \in Replies : toPage' = Append(toPage, a) /\ a.kind = "response" /\ a.view = pipes[p].view
        /\ toPage \in Seq(Replies)
    BY <1>9, FinishMeans DEF page, TypeOK
  <2>2. busy /\ toWorker = <<>> /\ toPage = <<>>
    BY <1>0, <1>9, FlightIs DEF AtRest, Posted, Piped, Answered
  <2>3. pipes[p].view = ViewModel(eng)
    BY <1>0, <2>1, FreshIs DEF Fresh, FreshSeen
  <2>4. PICK a \in Replies : toPage' = Append(toPage, a) /\ a.kind = "response" /\ a.view = pipes[p].view
    BY <2>1
  <2>5. \A k \in DOMAIN toPage' : toPage'[k] = a
    <3>1. Len(toPage) = 0
      BY <2>1, <2>2, Emptied
    <3>2. DOMAIN toPage' = 1 .. 1 /\ toPage'[1] = a
      BY <2>1, <2>4, <3>1, Appended
    <3> QED
      BY <3>2
  <2> QED
    BY <2>1, <2>2, <2>3, <2>4, <2>5 DEF ViewInv
<1>10. CASE OnError
  <2>1. errors \in Nat /\ errors' = errors + 1
    BY <1>10 DEF OnError, TypeOK
  <2> QED
    BY <1>0, <2>1
<1>11. CASE UNCHANGED vars
  BY <1>1, <1>11 DEF vars, ViewInv
<1> QED
  BY <1>0, <1>3, <1>4, <1>5, <1>7, <1>8, <1>9, <1>10, <1>11 DEF Next, PipeStep

(* The invariant holds when the page has just loaded.                      *)
LEMMA InitHolds == ASSUME Init PROVE ExplorerInv
<1>1. Initial \in EngineStates
  BY EngineAssumption DEF Initial, EngineStates, Phases, QueryPhases, MaybeFile, MaybeCrate, MaybeResult, MaybeDetail, WorkerCounts, ViewIds, NoHistory
<1>2. InitJob \in Jobs /\ 1 \in JobIds
  BY ExplorerAssumption DEF InitJob, Jobs, JobIds
<1>3. Sent = {1}
  BY <1>2 DEF Init, Sent
<1>4. /\ jobs = <<InitJob>> /\ busy = TRUE /\ toWorker = <<InitJob>> /\ toPage = <<>> /\ pipes = <<>> /\ eng = Initial
      /\ errors = 0 /\ thrown = 0 /\ ready = FALSE
  BY DEF Init
<1>5. <<InitJob>> \in Seq(Jobs) /\ <<InitJob>>[1] = InitJob /\ DOMAIN <<InitJob>> = {1} /\ Len(<<InitJob>>) = 1
  BY <1>2
<1>6. DOMAIN <<>> = {} /\ Len(<<>>) = 0
  OBVIOUS
<1>7. TypeOK
  <2>1. <<>> \in Seq(Replies)
    OBVIOUS
  <2>2. NoFile \in [file : MaybeFile, warmed : WorkerCounts \cup {None}]
    BY DEF NoFile, MaybeFile
  <2>3. outcome \in [JobIds -> {"none", "pending", "own", "foreign", "rejected"}]
    BY DEF Init
  <2>4. pipes \in [DOMAIN pipes -> Pipes] /\ DOMAIN pipes \subseteq JobIds
    BY <1>4, <1>6
  <2>5. view \in MaybeView
    BY DEF Init, MaybeView
  <2>6. store \in [file : MaybeFile, warmed : WorkerCounts \cup {None}]
    BY <2>2 DEF Init
  <2>7. busy \in BOOLEAN /\ ready \in BOOLEAN /\ pageError \in BOOLEAN
    BY DEF Init
  <2>8. jobs \in Seq(Jobs) /\ toWorker \in Seq(Jobs) /\ toPage \in Seq(Replies) /\ eng \in EngineStates
    BY <1>1, <1>4, <1>5, <2>1
  <2>9. errors \in Nat /\ thrown \in Nat /\ asked \in Drafts \cup Presets \cup {None}
    BY DEF Init
  <2> QED
    BY <2>3, <2>4, <2>5, <2>6, <2>7, <2>8, <2>9, Zenon DEF TypeOK
<1>8. IdsInv
  <2>1. Sent = 1 .. 1
    BY <1>3
  <2>2. InitJob.id = 1
    BY DEF InitJob
  <2>3. \E n \in JobIds : Sent = 1 .. n
    BY <1>2, <2>1
  <2>4. /\ \A k \in DOMAIN jobs : k = 1 /\ jobs[k].id \in Sent
        /\ \A k \in DOMAIN toWorker : k = 1 /\ toWorker[k].id \in Sent
    BY <1>3, <1>4, <1>5, <2>2
  <2>5. busy <=> jobs # <<>>
    BY <1>4
  <2> QED
    BY <1>4, <1>6, <2>3, <2>4, <2>5 DEF IdsInv
<1>9. OrderInv
  BY <1>4, <1>6 DEF OrderInv
<1>10. PhaseInv
  BY <1>1, <1>4 DEF PhaseInv, Initial
<1>11. SingleFlight
  <2>1. Posted(toWorker, DOMAIN pipes, toPage, busy, jobs)
    BY <1>4, <1>5, <1>6 DEF Posted
  <2>2. Flight(toWorker, DOMAIN pipes, toPage, busy, jobs)
    <3>1. toWorker \in Seq(Jobs) /\ toPage \in Seq(Replies) /\ busy \in BOOLEAN
      BY <1>7 DEF TypeOK
    <3> QED
      BY <1>7, <2>1, <3>1, PipesFinite, OnePlace
  <2> QED
    BY <2>2 DEF SingleFlight, Flight
<1>12. FreshInv
  BY <1>4, <1>6 DEF FreshInv, Initial
<1>13. ViewInv
  BY <1>4, <1>6 DEF ViewInv
<1>14. AnswersOwnJob
  BY DEF AnswersOwnJob, Init
<1>15. DoneShowsLatestRun /\ DetailOfSelection /\ PreviewFresh
  BY <1>4 DEF DoneShowsLatestRun, DetailOfSelection, PreviewFresh, Initial
<1> QED
  BY <1>7, <1>8, <1>9, <1>10, <1>11, <1>12, <1>13, <1>14, <1>15 DEF ExplorerInv

(* Every step keeps the invariant.                                         *)
LEMMA StepHolds == ASSUME ExplorerInv, [Next]_vars PROVE ExplorerInv'
<1>1. /\ TypeOK /\ IdsInv /\ OrderInv /\ PhaseInv /\ SingleFlight /\ FreshInv /\ ViewInv
      /\ AnswersOwnJob /\ DoneShowsLatestRun /\ DetailOfSelection /\ PreviewFresh
  BY DEF ExplorerInv
<1>2. TypeOK'
  BY <1>1, TypeNext
<1>3. IdsInv' /\ OrderInv' /\ PhaseInv'
  BY <1>1, IdsNext, OrderNext, PhaseNext
<1>4. SingleFlight' /\ FreshInv' /\ ViewInv'
  BY <1>1, <1>2, SingleNext, FreshNext, ViewNext
<1>5. AnswersOwnJob' /\ DoneShowsLatestRun' /\ DetailOfSelection' /\ PreviewFresh'
  BY <1>1, AnswersNext, ShownNext
<1> QED
  BY <1>2, <1>3, <1>4, <1>5 DEF ExplorerInv

(* ExplorerInv is an inductive invariant of the explorer: the types, the   *)
(* numbering, the order in the pipelines, and what is fresh in them.       *)
THEOREM Inductive == Spec => []ExplorerInv
<1>1. Init => ExplorerInv
  BY InitHolds
<1>2. ExplorerInv /\ [Next]_vars => ExplorerInv'
  BY StepHolds
<1> QED
  BY <1>1, <1>2, PTL DEF Spec

(* The invariant says that the page tells the truth.                       *)
LEMMA Truth == ASSUME ExplorerInv PROVE ShowsTheTruth
<1>1. /\ TypeOK /\ IdsInv /\ PhaseInv /\ FreshInv /\ ViewInv
      /\ DoneShowsLatestRun /\ DetailOfSelection /\ PreviewFresh
  BY DEF ExplorerInv
<1>2. ASSUME Idle PROVE \A types, answers : ~Awaits(types, answers)
  <2>1. DOMAIN pipes = {}
    BY <1>2 DEF Idle
  <2> QED
    BY <2>1 DEF Awaits
<1>3. PhasesSettle
  <2> SUFFICES ASSUME Idle, thrown = 0
               PROVE  /\ eng.load # "Loading" /\ eng.detailPhase # "Loading" /\ eng.query # "Running"
                      /\ errors = 0 => eng.query # "Warming"
    BY DEF PhasesSettle
  <2> QED
    BY <1>1, <1>2, PhaseIs
<1>4. ReadyMeansOpen
  <2> SUFFICES ASSUME Idle, errors = 0, eng.load = "Ready" PROVE store.file = eng.meta
    BY DEF ReadyMeansOpen
  <2>1. ~Opening
    BY <1>2 DEF Opening
  <2> QED
    BY <1>1, <2>1 DEF FreshInv
<1>5. ViewFollowsEngine
  <2> SUFFICES ASSUME Quiet, errors = 0, thrown = 0, ready PROVE view = ViewModel(eng)
    BY DEF ViewFollowsEngine
  <2>1. ~busy
    BY <1>1 DEF Quiet, IdsInv
  <2> QED
    BY <1>1, <2>1 DEF ViewInv
<1> QED
  BY <1>1, <1>3, <1>4, <1>5 DEF ShowsTheTruth

(* ShowsTheTruth: results, phases, details, previews and the view the      *)
(* page shows are of the latest run, the open file, the selected crate     *)
(* and the current draft (client.ts, worker.ts and the engine), for every  *)
(* set of controls, any number of messages, error events and throws.       *)
THEOREM Truthful == Spec => []ShowsTheTruth
<1>1. ExplorerInv => ShowsTheTruth
  BY Truth
<1> QED
  BY <1>1, Inductive, PTL

(* AnswersOwnJob: without an error event no promise of client.ts is        *)
(* settled with another message's answer.                                  *)
THEOREM OwnAnswers == Spec => []AnswersOwnJob
<1>1. ExplorerInv => AnswersOwnJob
  BY DEF ExplorerInv
<1> QED
  BY <1>1, Inductive, PTL

(* Undo and redo: the timeline of a history, as a sequence.                *)
Reversed(q) == [i \in 1 .. Len(q) |-> q[Len(q) + 1 - i]]
Line(undo, w, redo) == undo \o <<w>> \o Reversed(redo)

(* Sequences are equal when their elements are.                            *)
LEMMA SameSequence ==
  ASSUME NEW S, NEW q \in Seq(S), NEW r \in Seq(S), Len(q) = Len(r), \A i \in 1 .. Len(q) : q[i] = r[i]
  PROVE  q = r
OBVIOUS

(* A timeline, place by place.                                             *)
IsLine(x, S, u, w, r) ==
  /\ x \in Seq(S) /\ Len(x) = Len(u) + 1 + Len(r)
  /\ \A i \in 1 .. Len(u) : x[i] = u[i]
  /\ x[Len(u) + 1] = w
  /\ \A j \in 1 .. Len(r) : x[Len(u) + 1 + j] = r[Len(r) + 1 - j]

(* The timeline of two stacks and the workspace between them.              *)
LEMMA LineIs ==
  ASSUME NEW S, NEW u \in Seq(S), NEW w \in S, NEW r \in Seq(S)
  PROVE  IsLine(Line(u, w, r), S, u, w, r)
<1> DEFINE one == <<w>>
           v == Reversed(r)
           a == u \o one
<1>1. one \in Seq(S) /\ Len(one) = 1 /\ one[1] = w
  OBVIOUS
<1>2. /\ v \in Seq(S) /\ Len(v) = Len(r) /\ Len(r) \in Nat
      /\ \A j \in 1 .. Len(r) : v[j] = r[Len(r) + 1 - j]
  <2>1. Len(r) \in Nat /\ \A j \in 1 .. Len(r) : r[Len(r) + 1 - j] \in S
    OBVIOUS
  <2>2. v \in [1 .. Len(r) -> S] /\ \A j \in 1 .. Len(r) : v[j] = r[Len(r) + 1 - j]
    BY <2>1 DEF Reversed
  <2> HIDE DEF v
  <2>3. v \in Seq(S) /\ Len(v) = Len(r)
    BY <2>1, <2>2
  <2> QED
    BY <2>1, <2>2, <2>3
<1>3. Line(u, w, r) = a \o v
  BY DEF Line
<1> HIDE DEF one, v
<1>4. /\ a \in Seq(S) /\ Len(a) = Len(u) + 1 /\ Len(u) \in Nat
      /\ \A i \in 1 .. Len(u) : a[i] = u[i]
      /\ a[Len(u) + 1] = w
  <2>0. u \in Seq(S) /\ one \in Seq(S)
    BY <1>1
  <2>1. /\ a \in Seq(S) /\ Len(a) = Len(u) + Len(one)
        /\ \A i \in 1 .. Len(u) : a[i] = u[i]
        /\ \A i \in 1 .. Len(one) : a[Len(u) + i] = one[i]
    BY <2>0, Concat
  <2>2. 1 \in 1 .. Len(one)
    BY <1>1
  <2> QED
    BY <1>1, <2>1, <2>2
<1> HIDE DEF a
<1>50. a \in Seq(S) /\ v \in Seq(S)
  BY <1>2, <1>4
<1>5. /\ a \o v \in Seq(S) /\ Len(a \o v) = Len(a) + Len(v)
      /\ \A i \in 1 .. Len(a) : (a \o v)[i] = a[i]
      /\ \A i \in 1 .. Len(v) : (a \o v)[Len(a) + i] = v[i]
  BY <1>50, Concat
<1>6. \A i \in 1 .. Len(u) : (a \o v)[i] = u[i]
  BY <1>4, <1>5
<1>7. (a \o v)[Len(u) + 1] = w
  BY <1>4, <1>5
<1>8. \A j \in 1 .. Len(r) : (a \o v)[Len(u) + 1 + j] = r[Len(r) + 1 - j]
  BY <1>2, <1>4, <1>5
<1>9. Len(a \o v) = Len(u) + 1 + Len(r)
  BY <1>2, <1>4, <1>5
<1> QED
  BY <1>2, <1>3, <1>4, <1>5, <1>6, <1>7, <1>8, <1>9 DEF IsLine

(* The workspace left goes where the one gone to came from.                *)
LEMMA UndoLine ==
  ASSUME NEW S, NEW u \in Seq(S), u # <<>>, NEW w \in S, NEW r \in Seq(S)
  PROVE  Line(SubSeq(u, 1, Len(u) - 1), u[Len(u)], Append(r, w)) = Line(u, w, r)
<1> DEFINE n == Len(u)
           m == Len(r)
           v == SubSeq(u, 1, Len(u) - 1)
           a == Append(r, w)
           x == Line(v, u[Len(u)], a)
           y == Line(u, w, r)
<1>1. n \in Nat /\ n >= 1 /\ m \in Nat
  BY Emptied
<1>2. v \in Seq(S) /\ Len(v) = n - 1 /\ (\A i \in 1 .. n - 1 : v[i] = u[i]) /\ u[n] \in S
  BY Shortened
<1>3. a \in Seq(S) /\ Len(a) = m + 1 /\ (\A i \in 1 .. m : a[i] = r[i]) /\ a[m + 1] = w
  BY Appended
<1> HIDE DEF v, a
<1>40. v \in Seq(S) /\ a \in Seq(S) /\ u[Len(u)] \in S
  BY <1>2, <1>3
<1>4. /\ x \in Seq(S) /\ Len(x) = Len(v) + 1 + Len(a)
      /\ \A i \in 1 .. Len(v) : x[i] = v[i]
      /\ x[Len(v) + 1] = u[n]
      /\ \A j \in 1 .. Len(a) : x[Len(v) + 1 + j] = a[Len(a) + 1 - j]
  <2>1. IsLine(x, S, v, u[Len(u)], a)
    BY <1>40, LineIs
  <2> HIDE DEF x
  <2> QED
    BY <2>1 DEF IsLine
<1>5. /\ y \in Seq(S) /\ Len(y) = n + 1 + m
      /\ \A i \in 1 .. n : y[i] = u[i]
      /\ y[n + 1] = w
      /\ \A j \in 1 .. m : y[n + 1 + j] = r[m + 1 - j]
  <2>1. IsLine(y, S, u, w, r)
    BY LineIs
  <2> HIDE DEF y
  <2> QED
    BY <2>1 DEF IsLine
<1> HIDE DEF x, y, n, m
<1>6. Len(x) = n + 1 + m
  BY <1>1, <1>2, <1>3, <1>4
<1>7. ASSUME NEW i \in 1 .. n + 1 + m PROVE x[i] = y[i]
  <2>1. CASE i \in 1 .. n - 1
    BY <1>1, <1>2, <1>4, <1>5, <2>1
  <2>2. CASE i = n
    <3>1. x[n] = u[n]
      BY <1>1, <1>2, <1>4
    <3> QED
      BY <1>1, <1>5, <2>2, <3>1
  <2>3. CASE i = n + 1
    <3>1. 1 \in 1 .. Len(a) /\ Len(v) + 1 + 1 = n + 1 /\ Len(a) + 1 - 1 = m + 1
      BY <1>1, <1>2, <1>3
    <3>2. x[Len(v) + 1 + 1] = a[Len(a) + 1 - 1]
      BY <1>4, <3>1
    <3> QED
      BY <1>3, <1>5, <2>3, <3>1, <3>2
  <2>4. CASE i \in n + 2 .. n + 1 + m
    <3>1. PICK j \in 1 .. m : i = n + 1 + j
      <4>1. i - (n + 1) \in 1 .. m /\ i = n + 1 + (i - (n + 1))
        BY <1>1, <2>4
      <4> QED
        BY <4>1
    <3>2. j + 1 \in 1 .. Len(a) /\ Len(v) + 1 + (j + 1) = i /\ Len(a) + 1 - (j + 1) = m + 1 - j /\ m + 1 - j \in 1 .. m
      BY <1>1, <1>2, <1>3, <3>1
    <3>3. x[Len(v) + 1 + (j + 1)] = a[Len(a) + 1 - (j + 1)]
      BY <1>4, <3>2
    <3>4. x[i] = r[m + 1 - j]
      BY <1>3, <3>2, <3>3
    <3> QED
      BY <1>5, <3>1, <3>4
  <2> QED
    BY <1>1, <2>1, <2>2, <2>3, <2>4
<1>8. x = y
  BY <1>4, <1>5, <1>6, <1>7, SameSequence
<1> QED
  BY <1>8 DEF x, y, v, a

(* Redo is undo the other way round.                                       *)
LEMMA RedoLine ==
  ASSUME NEW S, NEW u \in Seq(S), NEW w \in S, NEW r \in Seq(S), r # <<>>
  PROVE  Line(Append(u, w), r[Len(r)], SubSeq(r, 1, Len(r) - 1)) = Line(u, w, r)
<1> DEFINE a == Append(u, w)
           v == SubSeq(r, 1, Len(r) - 1)
           z == r[Len(r)]
<1>1. a \in Seq(S) /\ a # <<>> /\ Len(a) = Len(u) + 1 /\ a[Len(u) + 1] = w /\ \A i \in 1 .. Len(u) : a[i] = u[i]
  BY Appended
<1>2. v \in Seq(S) /\ z \in S /\ Len(v) = Len(r) - 1 /\ \A i \in 1 .. Len(r) - 1 : v[i] = r[i]
  BY Shortened
<1>3. Len(u) \in Nat /\ Len(r) \in Nat /\ Len(r) >= 1
  BY Emptied
<1> HIDE DEF a, v, z
<1>4. SubSeq(a, 1, Len(a) - 1) = u
  <2> DEFINE b == SubSeq(a, 1, Len(a) - 1)
  <2>1. b \in Seq(S) /\ Len(b) = Len(a) - 1 /\ \A i \in 1 .. Len(a) - 1 : b[i] = a[i]
    BY <1>1, Shortened
  <2> HIDE DEF b
  <2>2. Len(b) = Len(u) /\ \A i \in 1 .. Len(u) : b[i] = u[i]
    BY <1>1, <1>3, <2>1
  <2>3. b = u
    BY <2>1, <2>2, SameSequence
  <2> QED
    BY <2>3 DEF b
<1>5. Append(v, z) = r
  <2> DEFINE b == Append(v, z)
  <2>1. b \in Seq(S) /\ Len(b) = Len(v) + 1 /\ b[Len(v) + 1] = z /\ \A i \in 1 .. Len(v) : b[i] = v[i]
    BY <1>2, Appended
  <2> HIDE DEF b
  <2>2. Len(b) = Len(r)
    BY <1>2, <1>3, <2>1
  <2>3. ASSUME NEW i \in 1 .. Len(r) PROVE b[i] = r[i]
    <3>1. CASE i = Len(r)
      BY <1>2, <1>3, <2>1, <3>1 DEF z
    <3>2. CASE i # Len(r)
      BY <1>2, <1>3, <2>1, <3>2
    <3> QED
      BY <3>1, <3>2
  <2>4. b = r
    BY <2>1, <2>2, <2>3, SameSequence
  <2> QED
    BY <2>4 DEF b
<1>6. a[Len(a)] = w
  BY <1>1, <1>3
<1>7. Line(SubSeq(a, 1, Len(a) - 1), a[Len(a)], Append(v, z)) = Line(a, z, v)
  BY <1>1, <1>2, UndoLine
<1> QED
  BY <1>4, <1>5, <1>6, <1>7 DEF a, v, z

(* Running the query again changes neither the workspace nor its history.  *)
LEMMA RequeryKeeps ==
  ASSUME NEW u \in EngineStates
  PROVE  Snapshot(RequeryAfterRestore(u).state) = Snapshot(u) /\ RequeryAfterRestore(u).state.history = u.history
<1> DEFINE t == RequeryAfterRestore(u).state
<1>1. t \in {u, [u EXCEPT !.query = "Error"], [u EXCEPT !.query = "Running", !.result = None, !.built = u.draft]}
  BY DEF RequeryAfterRestore, RunBuilder, Only, With
<1>2. t.route = u.route /\ t.draft = u.draft /\ t.selected = u.selected /\ t.pinned = u.pinned /\ t.active = u.active
      /\ t.history = u.history
  BY <1>1 DEF EngineStates
<1> QED
  BY <1>2 DEF Snapshot

(* The timeline of a state is that of its history.                         *)
LEMMA TimelineIs == ASSUME NEW s PROVE Timeline(s) = Line(s.history.undo, Snapshot(s), s.history.redo)
BY DEF Timeline, Line, Reversed

(* Neither undo nor redo changes the timeline.                             *)
LEMMA RestoreKeeps ==
  ASSUME NEW s \in EngineStates, NEW e, e.type \in {"Undo", "Redo"}
  PROVE  Timeline(HandleEvent(s, e).state) = Timeline(s)
<1> DEFINE undo == s.history.undo
           redo == s.history.redo
           cur == Snapshot(s)
<1>1. undo \in Seq(Workspaces) /\ redo \in Seq(Workspaces) /\ cur \in Workspaces
  BY SnapshotWell DEF EngineStates
<1>2. ASSUME NEW hist \in Histories, NEW w \in Workspaces
      PROVE  LET t == RequeryAfterRestore(ApplySnapshot([s EXCEPT !.history = hist], w)).state
             IN  Timeline(t) = Line(hist.undo, w, hist.redo)
  <2> DEFINE u == ApplySnapshot([s EXCEPT !.history = hist], w)
  <2>1. u \in EngineStates /\ u.history = hist /\ Snapshot(u) = w
    BY RestoreFaithful
  <2> HIDE DEF u
  <2> QED
    BY <2>1, RequeryKeeps, TimelineIs DEF u
<1>3. CASE e.type = "Undo"
  <2>1. HandleEvent(s, e) = Undo(s)
    BY <1>3 DEF HandleEvent, Undoable
  <2>2. CASE undo = <<>>
    <3>1. Undo(s) = Only(s)
      BY <2>2 DEF Undo
    <3> QED
      BY <2>1, <3>1 DEF Only
  <2>3. CASE undo # <<>>
    <3> DEFINE hist == [undo |-> SubSeq(undo, 1, Len(undo) - 1), redo |-> Append(redo, cur)]
    <3>1. Len(undo) # 0
      BY <1>1, <2>3, Emptied
    <3>2. Undo(s) = RequeryAfterRestore(ApplySnapshot([s EXCEPT !.history = hist], undo[Len(undo)]))
      BY <3>1 DEF Undo
    <3>3. hist \in Histories /\ undo[Len(undo)] \in Workspaces
      BY <1>1, <2>3, Shortened, Appended DEF Histories
    <3>4. hist.undo = SubSeq(undo, 1, Len(undo) - 1) /\ hist.redo = Append(redo, cur)
      OBVIOUS
    <3> HIDE DEF hist, undo, redo, cur
    <3>5. Line(hist.undo, undo[Len(undo)], hist.redo) = Line(undo, cur, redo)
      BY <1>1, <2>3, <3>4, UndoLine
    <3>6. Timeline(Undo(s).state) = Line(undo, cur, redo)
      BY <1>2, <3>2, <3>3, <3>5
    <3> QED
      BY <2>1, <3>6, TimelineIs DEF undo, redo, cur
  <2> QED
    BY <2>2, <2>3
<1>4. CASE e.type = "Redo"
  <2>1. HandleEvent(s, e) = Redo(s)
    BY <1>4 DEF HandleEvent, Undoable
  <2>2. CASE redo = <<>>
    <3>1. Redo(s) = Only(s)
      BY <2>2 DEF Redo
    <3> QED
      BY <2>1, <3>1 DEF Only
  <2>3. CASE redo # <<>>
    <3> DEFINE hist == [undo |-> Append(undo, cur), redo |-> SubSeq(redo, 1, Len(redo) - 1)]
    <3>1. Len(redo) # 0
      BY <1>1, <2>3, Emptied
    <3>2. Redo(s) = RequeryAfterRestore(ApplySnapshot([s EXCEPT !.history = hist], redo[Len(redo)]))
      BY <3>1 DEF Redo
    <3>3. hist \in Histories /\ redo[Len(redo)] \in Workspaces
      BY <1>1, <2>3, Shortened, Appended DEF Histories
    <3>4. hist.undo = Append(undo, cur) /\ hist.redo = SubSeq(redo, 1, Len(redo) - 1)
      OBVIOUS
    <3> HIDE DEF hist, undo, redo, cur
    <3>5. Line(hist.undo, redo[Len(redo)], hist.redo) = Line(undo, cur, redo)
      BY <1>1, <2>3, <3>4, RedoLine
    <3>6. Timeline(Redo(s).state) = Line(undo, cur, redo)
      BY <1>2, <3>2, <3>3, <3>5
    <3> QED
      BY <2>1, <3>6, TimelineIs DEF undo, redo, cur
  <2> QED
    BY <2>2, <2>3
<1> QED
  BY <1>3, <1>4

(* UndoKeepsTimeline: handle_event's Undo and Redo move along one          *)
(* timeline of workspaces and lose, repeat or reorder none, for histories  *)
(* of any length.                                                          *)
THEOREM TimelineKept == Spec => UndoKeepsTimeline
<1>1. ExplorerInv /\ [Next]_vars =>
        [\A p \in DOMAIN pipes :
           (Handle(p) /\ Head(pipes[p].queue).type \in {"Undo", "Redo"}) => Timeline(eng') = Timeline(eng)]_vars
  <2> SUFFICES ASSUME ExplorerInv, NEW p \in DOMAIN pipes, Handle(p), Head(pipes[p].queue).type \in {"Undo", "Redo"}
               PROVE  Timeline(eng') = Timeline(eng)
    OBVIOUS
  <2>1. eng \in EngineStates /\ TypeOK
    BY DEF ExplorerInv, TypeOK
  <2>2. eng' = HandleEvent(eng, Head(pipes[p].queue)).state
    BY <2>1, HandleMeans
  <2> QED
    BY <2>1, <2>2, RestoreKeeps
<1> QED
  BY <1>1, Inductive, PTL DEF Spec, UndoKeepsTimeline
=============================================================================
