----------------------------- MODULE MCAgentRun -----------------------------
(***************************************************************************)
(* AgentRun for TLC: one tool of each kind the code tells apart, named     *)
(* after a tool of the catalog that is of that kind.                       *)
(***************************************************************************)
EXTENDS AgentRun

Read  == "read_selection"  \* marked: its result is desktop content
Fetch == "fetch_url"       \* behind a consent category, cacheable
Note  == "mood_check"      \* a durable sink
Open  == "open_path"       \* asks to confirm
Ghost == "no_such_tool"    \* a name the model invents

MCActions == {Read, Fetch, Note, Open}
MCNames == MCActions \cup {Ghost}
MCMarked == {Read}
MCSinks == {Note}
MCGated == {Fetch}
MCConfirmed == {Open}
MCCacheable == {Fetch}
=============================================================================
