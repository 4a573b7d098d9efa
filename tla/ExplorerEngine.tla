--------------------------- MODULE ExplorerEngine ---------------------------
(***************************************************************************)
(* The explorer's engine: a reducer from a state and an event to a state   *)
(* and the effects the worker runs for it (apps/explorer/engine/src).      *)
(*                                                                         *)
(* A query draft is abstract: the seven events that edit one replace it by *)
(* another, and build_query_plan tells drafts apart by whether it rejects  *)
(* them (Unplannable: an aggregate without a group-by key).  Status texts, *)
(* the schema, the typed URL, the drawer flag and the order of the saved   *)
(* views are left out.                                                     *)
(***************************************************************************)
EXTENDS Naturals, Sequences

CONSTANTS Files,        \* what can be opened
          Drafts, Unplannable, DefaultDraft,
          Presets, DefaultPreset,
          Crates, Routes, HomeRoute,
          MaxWorkers,   \* the clamp of WorkersChanged (16 in the code)
          MaxHistory,   \* MAX_HISTORY (50 in the code)
          None

ASSUME EngineAssumption ==
  /\ DefaultDraft \in Drafts /\ Unplannable \subseteq Drafts
  /\ DefaultPreset \in Presets /\ HomeRoute \in Routes
  /\ None \notin Files
  /\ MaxWorkers \in Nat \ {0} /\ MaxHistory \in Nat \ {0}

----------------------------------------------------------------------------
(* What the engine's state, its events and its effects are made of.        *)

Phases == {"Idle", "Loading", "Ready", "Error"}
QueryPhases == {"Idle", "Warming", "Running", "Done", "Error"}
MaybeFile == Files \cup {None}
MaybeCrate == Crates \cup {None}
Results == [plan : Drafts \cup Presets, file : MaybeFile]
Details == [crate : Crates, file : MaybeFile]
MaybeResult == Results \cup {None}
MaybeDetail == Details \cup {None}
WorkerCounts == 1..MaxWorkers
ViewIds == Nat \cup {None}
SavedViews == [id : Nat, draft : Drafts]

\* WorkspaceState, what a snapshot keeps.
Workspaces ==
  [route : Routes, draft : Drafts, selected : MaybeCrate, pinned : SUBSET Crates, active : ViewIds]

\* AppState, as far as it is modelled.
EngineStates ==
  [load : Phases, meta : MaybeFile, workers : WorkerCounts, route : Routes,
   draft : Drafts, built : Drafts \cup {None}, query : QueryPhases, result : MaybeResult,
   selected : MaybeCrate, detail : MaybeDetail, detailPhase : Phases, pinned : SUBSET Crates,
   views : SUBSET SavedViews, active : ViewIds,
   history : [undo : Seq(Workspaces), redo : Seq(Workspaces)], nextView : Nat]

Effects ==
  [type : {"OpenSource"}, source : Files]
  \cup [type : {"RunQueryDraft"}, draft : Drafts, workers : WorkerCounts]
  \cup [type : {"RunPreset"}, preset : Presets, workers : WorkerCounts]
  \cup [type : {"WarmWorkers"}, workers : WorkerCounts]
  \cup [type : {"LoadCrateDetail"}, crate : Crates, workers : WorkerCounts]

\* What the effects answer.
AnswerEvents ==
  [type : {"FileOpened"}, file : Files]
  \cup [type : {"QueryDone"}, result : Results]
  \cup [type : {"CrateDetailDone"}, detail : Details]
  \cup [type : {"FileOpenFailed", "WorkersWarmed", "QueryFailed", "CrateDetailFailed"}]

\* What a control or the address bar asks for.
PlainRequests ==
  {"WarmWorkers", "RunQuery", "CrateDetailClose", "SavedViewSave", "Undo", "Redo"}
UserEvent(e) ==
  \/ e.type \in PlainRequests
  \/ e.type = "Load" /\ e.source \in Files
  \/ e.type = "OpenFile" /\ e.file \in Files
  \/ e.type = "Edit" /\ e.draft \in Drafts
  \/ e.type = "PresetSelected"
  \/ e.type = "WorkersChanged" /\ e.workers \in Nat
  \/ e.type = "RouteSet" /\ e.route \in Routes
  \/ e.type \in {"CrateSelect", "CratePin", "CrateUnpin"} /\ e.crate \in Crates
  \/ e.type \in {"SavedViewApply", "SavedViewRemove"} /\ e.id \in Nat
  \/ e.type = "WorkspaceHydrate" /\ e.workspace \in Workspaces

----------------------------------------------------------------------------

NoHistory == [undo |-> <<>>, redo |-> <<>>]

\* AppState::initial, and what it leaves: the counter of saved views.
Initial ==
  [load |-> "Idle", meta |-> None, workers |-> MaxWorkers, route |-> HomeRoute,
   draft |-> DefaultDraft, built |-> None, query |-> "Idle", result |-> None,
   selected |-> None, detail |-> None, detailPhase |-> "Idle", pinned |-> {},
   views |-> {}, active |-> None, history |-> NoHistory,
   nextView |-> 1]  \* a process-wide counter: no reset puts it back

Reset(s) == [Initial EXCEPT !.nextView = s.nextView]

----------------------------------------------------------------------------
(* Undo history: two stacks of workspace snapshots.                        *)

Snapshot(s) ==
  [route |-> s.route, draft |-> s.draft, selected |-> s.selected,
   pinned |-> s.pinned, active |-> s.active]

ApplySnapshot(s, w) ==
  [s EXCEPT !.route = w.route, !.draft = w.draft, !.selected = w.selected,
            !.pinned = w.pinned, !.active = w.active, !.built = None,
            !.detail = None, !.detailPhase = "Idle"]

\* The newest MaxHistory snapshots stay, and whatever was undone is forgotten.
Record(h, w) ==
  LET all == Append(h.undo, w)
  IN  [undo |-> IF Len(all) > MaxHistory THEN Tail(all) ELSE all, redo |-> <<>>]

Undoable ==
  {"RouteSet", "Edit", "PresetSelected", "RunQuery", "SavedViewApply",
   "CrateSelect", "CrateDetailClose"}

----------------------------------------------------------------------------
(* A transition is the new state with the effects it asks for.             *)

Only(s) == [state |-> s, effects |-> <<>>]
With(s, fx) == [state |-> s, effects |-> <<fx>>]

SyncDraft(s, d) == [s EXCEPT !.draft = d, !.built = None]

Loading(s, src) == With([s EXCEPT !.load = "Loading"], [type |-> "OpenSource", source |-> src])

RunBuilder(s) ==
  IF s.draft \in Unplannable
    THEN Only([s EXCEPT !.query = "Error"])
    ELSE With([s EXCEPT !.query = "Running", !.result = None, !.built = s.draft],
              [type |-> "RunQueryDraft", draft |-> s.draft, workers |-> s.workers])

\* A preset the data set does not have falls back to the draft's own query.
RunPreset(s, p) ==
  IF s.load # "Ready" THEN Only(s)
  ELSE IF p \notin Presets THEN RunBuilder(s)
  ELSE With([s EXCEPT !.query = "Running", !.result = None, !.built = None],
            [type |-> "RunPreset", preset |-> p, workers |-> s.workers])

\* Seeded fault: the detail on show stays until the new one arrives.
SelectCrate_KeepsDetail(s, c) ==
  With([s EXCEPT !.selected = c], [type |-> "LoadCrateDetail", crate |-> c, workers |-> s.workers])

SelectCrate(s, c) ==
  With([s EXCEPT !.selected = c, !.detail = None, !.detailPhase = "Loading"],
       [type |-> "LoadCrateDetail", crate |-> c, workers |-> s.workers])

RequeryAfterRestore(s) == IF s.load # "Ready" THEN Only(s) ELSE RunBuilder(s)

FileOpened(s, file) ==
  LET open == SyncDraft([s EXCEPT !.load = "Ready", !.meta = file, !.query = "Running",
                                  !.result = None, !.history = NoHistory], DefaultDraft)
      preset == RunPreset(open, DefaultPreset)
  IN  [state |-> preset.state,
       effects |-> <<[type |-> "WarmWorkers", workers |-> s.workers]>> \o preset.effects]

WarmWorkers(s) ==
  IF s.load # "Ready" THEN Only(s)
  ELSE With([s EXCEPT !.query = "Warming"], [type |-> "WarmWorkers", workers |-> s.workers])

WorkersWarmed(s) ==
  Only(IF s.query # "Running" THEN [s EXCEPT !.query = "Idle"] ELSE s)

SavedViewSave(s) ==
  Only([s EXCEPT !.views = @ \cup {[id |-> s.nextView, draft |-> s.draft]},
                 !.active = s.nextView, !.nextView = @ + 1])

SavedViewApply(s, id) ==
  LET found == {v \in s.views : v.id = id}
      draft == (CHOOSE v \in found : TRUE).draft
  IN  IF found = {} THEN Only(s)
      ELSE RequeryAfterRestore(SyncDraft([s EXCEPT !.active = id], draft))

SavedViewRemove(s, id) ==
  Only([s EXCEPT !.views = {v \in @ : v.id # id},
                 !.active = IF @ = id THEN None ELSE @])

\* A shared link replaces the workspace; only a selected crate is loaded again.
WorkspaceHydrate(s, w) ==
  LET t == [s EXCEPT !.route = w.route, !.draft = w.draft, !.selected = w.selected,
                     !.pinned = w.pinned, !.active = w.active, !.built = None]
  IN  IF t.selected # None THEN SelectCrate(t, t.selected) ELSE Only(t)

ClampWorkers(n) == IF n < 1 THEN 1 ELSE IF n > MaxWorkers THEN MaxWorkers ELSE n

Reduce(s, e) ==
  CASE e.type = "Load" -> Loading(s, e.source)
    [] e.type = "FileOpenFailed" -> Only([Reset(s) EXCEPT !.load = "Error"])
    [] e.type = "FileOpened" -> FileOpened(s, e.file)
    [] e.type = "Edit" -> Only(SyncDraft(s, e.draft))
    [] e.type = "PresetSelected" -> RunPreset(s, e.preset)
    [] e.type = "WorkersChanged" ->
         Only([s EXCEPT !.workers = ClampWorkers(e.workers)])
    [] e.type = "WarmWorkers" -> WarmWorkers(s)
    [] e.type = "WorkersWarmed" -> WorkersWarmed(s)
    [] e.type = "RunQuery" -> RequeryAfterRestore(s)
    [] e.type = "QueryDone" -> Only([s EXCEPT !.query = "Done", !.result = e.result])
    [] e.type = "QueryFailed" -> Only([s EXCEPT !.query = "Error"])
    [] e.type = "RouteSet" -> Only([s EXCEPT !.route = e.route])
    [] e.type = "CrateSelect" -> SelectCrate(s, e.crate)
    [] e.type = "CrateDetailClose" ->
         Only([s EXCEPT !.selected = None, !.detail = None, !.detailPhase = "Idle"])
    [] e.type = "CratePin" -> Only([s EXCEPT !.pinned = @ \cup {e.crate}])
    [] e.type = "CrateUnpin" -> Only([s EXCEPT !.pinned = @ \ {e.crate}])
    [] e.type = "CrateDetailDone" ->
         Only([s EXCEPT !.detail = e.detail, !.detailPhase = "Ready"])
    [] e.type = "CrateDetailFailed" ->
         Only([s EXCEPT !.detail = None, !.detailPhase = "Error"])
    [] e.type = "SavedViewSave" -> SavedViewSave(s)
    [] e.type = "SavedViewApply" -> SavedViewApply(s, e.id)
    [] e.type = "SavedViewRemove" -> SavedViewRemove(s, e.id)
    [] e.type = "WorkspaceHydrate" -> WorkspaceHydrate(s, e.workspace)

----------------------------------------------------------------------------
(* Engine::handle_event.  The snapshot is taken before the event, and also *)
(* for an event the reducer then ignores.                                  *)

\* Seeded fault: the workspace restored goes to the redo stack, not the one left.
Undo_PushesRestored(s) ==
  LET h == s.history
      n == Len(h.undo)
  IN  IF n = 0 THEN Only(s)
      ELSE RequeryAfterRestore(
             ApplySnapshot([s EXCEPT !.history = [undo |-> SubSeq(h.undo, 1, n - 1),
                                                  redo |-> Append(h.redo, h.undo[n])]],
                           h.undo[n]))

Undo(s) ==
  LET h == s.history
      n == Len(h.undo)
  IN  IF n = 0 THEN Only(s)
      ELSE RequeryAfterRestore(
             ApplySnapshot([s EXCEPT !.history = [undo |-> SubSeq(h.undo, 1, n - 1),
                                                  redo |-> Append(h.redo, Snapshot(s))]],
                           h.undo[n]))

Redo(s) ==
  LET h == s.history
      n == Len(h.redo)
  IN  IF n = 0 THEN Only(s)
      ELSE RequeryAfterRestore(
             ApplySnapshot([s EXCEPT !.history = [undo |-> Append(h.undo, Snapshot(s)),
                                                  redo |-> SubSeq(h.redo, 1, n - 1)]],
                           h.redo[n]))

HandleEvent(s, e) ==
  LET t == IF e.type \in Undoable
             THEN [s EXCEPT !.history = Record(@, Snapshot(s))] ELSE s
  IN  CASE e.type = "Undo" -> Undo(t)
        [] e.type = "Redo" -> Redo(t)
        [] OTHER -> Reduce(t, e)

\* select_view_model: the history shows as two flags, the plan preview falls
\* back to the draft's own plan.
ViewModel(s) ==
  [load |-> s.load, meta |-> s.meta, workers |-> s.workers, route |-> s.route,
   draft |-> s.draft, plan |-> IF s.built = None THEN s.draft ELSE s.built,
   query |-> s.query, result |-> s.result,
   canUndo |-> s.history.undo # <<>>, canRedo |-> s.history.redo # <<>>,
   selected |-> s.selected, detail |-> s.detail, detailPhase |-> s.detailPhase,
   pinned |-> s.pinned,
   views |-> {<<v.id, v.id = s.active>> : v \in s.views}]

ViewStates ==
  [load : Phases, meta : MaybeFile, workers : WorkerCounts, route : Routes,
   draft : Drafts, plan : Drafts, query : QueryPhases, result : MaybeResult,
   canUndo : BOOLEAN, canRedo : BOOLEAN, selected : MaybeCrate, detail : MaybeDetail,
   detailPhase : Phases, pinned : SUBSET Crates, views : SUBSET (Nat \X BOOLEAN)]
=============================================================================
