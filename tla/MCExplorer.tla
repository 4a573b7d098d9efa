----------------------------- MODULE MCExplorer -----------------------------
\* A user with two files, two crates and one saved view, and a link that
\* selects a crate.
EXTENDS Explorer

MCUserEvents ==
  {[type |-> "Load", source |-> "f1"], [type |-> "OpenFile", file |-> "f2"],
   [type |-> "Edit", draft |-> "d2"], [type |-> "Edit", draft |-> "noKeys"],
   [type |-> "PresetSelected", preset |-> "other"], [type |-> "PresetSelected", preset |-> "top"],
   [type |-> "WorkersChanged", workers |-> 0],
   [type |-> "WarmWorkers"], [type |-> "RunQuery"], [type |-> "RouteSet", route |-> "board"],
   [type |-> "CrateSelect", crate |-> "a"], [type |-> "CrateDetailClose"],
   [type |-> "CratePin", crate |-> "a"], [type |-> "CrateUnpin", crate |-> "a"],
   [type |-> "SavedViewSave"], [type |-> "SavedViewApply", id |-> 1],
   [type |-> "SavedViewRemove", id |-> 1], [type |-> "Undo"], [type |-> "Redo"],
   [type |-> "WorkspaceHydrate",
    workspace |-> [route |-> "board", draft |-> "d1", selected |-> "b", pinned |-> {}, active |-> None]]}
=============================================================================
