---------------------------- MODULE BackendProofs ----------------------------
(***************************************************************************)
(* What is asked of the model's server, and of which server.  First, that  *)
(* the backend calls no server reachable but the one that answered, and    *)
(* keeps a pinned cap, for every set of servers, models and pins, any      *)
(* number of tasks under way at once, and every interleaving of the        *)
(* threads.  Then that the answers a research keeps can be cited, whatever *)
(* a refine adds to them, and that follow-ups stay within their cap, for   *)
(* every question, page, cap and age.                                      *)
(***************************************************************************)
EXTENDS ServerChoice, Research, FiniteSetTheorems, SequenceTheorems, TLAPS

-----------------------------------------------------------------------------
(* Types.                                                                  *)

\* The UI thread at a phase of a command, with a server and a model.
LEMMA UiIs ==
    ASSUME ui \in Commands
    PROVE  /\ ui.to \in Servers /\ ui.model \in Models \cup {NoModel}
           /\ \A at \in {"idle", "unreach", "pins", "pin", "flag", "unflag", "default",
                         "recall", "compare", "model", "untest", "uncap", "entry",
                         "pinAgain", "flagAgain", "schedule"} :
                [ui EXCEPT !.at = at] \in Commands
BY DEF Commands

\* The UI thread at rest.
LEMMA NoCommandIs == NoCommand \in Commands
BY ServersAssumption DEF NoCommand, Commands

\* The end of set_model leads to a phase.
LEMMA AfterSwapIs == ASSUME ui \in Commands, AfterSwap PROVE ui' \in Commands
BY UiIs, NoCommandIs DEF AfterSwap, Goto

\* What a task is.
LEMMA TaskIs ==
    ASSUME tasks \in [Slots -> Tasks], NEW s \in Slots
    PROVE  /\ tasks[s] \in Tasks /\ tasks[s].to \in Servers
           /\ tasks[s].does \in {"setup", "switch", "probe", "swap", "voice"}
           /\ tasks[s].model \in Models \cup {NoModel}
BY DEF Tasks

\* A slot given a task holds it, and the others are as they were.
LEMMA TaskSet ==
    ASSUME tasks \in [Slots -> Tasks], NEW s \in Slots, NEW task \in Tasks,
           tasks' = [tasks EXCEPT ![s] = task]
    PROVE  /\ tasks' \in [Slots -> Tasks] /\ tasks'[s] = task
           /\ \A t \in Slots \ {s} : tasks'[t] = tasks[t]
OBVIOUS

\* A task sent to another phase.
LEMMA MoveIs ==
    ASSUME tasks \in [Slots -> Tasks], NEW s \in Slots,
           NEW at \in {"free"} \cup Awaiting \cup Running, Move(s, at)
    PROVE  /\ tasks' \in [Slots -> Tasks]
           /\ tasks'[s].at = at /\ tasks'[s].does = tasks[s].does
           /\ \A t \in Slots \ {s} : tasks'[t] = tasks[t]
<1>1. [tasks[s] EXCEPT !.at = at] \in Tasks
  BY TaskIs DEF Tasks
<1>2. tasks' = [tasks EXCEPT ![s] = [tasks[s] EXCEPT !.at = at]]
  BY DEF Move
<1>3. [tasks[s] EXCEPT !.at = at].at = at /\ [tasks[s] EXCEPT !.at = at].does = tasks[s].does
  BY TaskIs DEF Tasks
<1> QED BY <1>1, <1>2, <1>3, TaskSet

\* A task that starts over at a phase.
LEMMA BecomesIs ==
    ASSUME tasks \in [Slots -> Tasks], NEW s \in Slots,
           NEW at \in {"free"} \cup Awaiting \cup Running,
           NEW does \in {"setup", "switch", "probe", "swap", "voice"}, Becomes(s, at, does)
    PROVE  /\ tasks' \in [Slots -> Tasks]
           /\ tasks'[s].at = at /\ tasks'[s].does = does
           /\ \A t \in Slots \ {s} : tasks'[t] = tasks[t]
<1> DEFINE task == [Free EXCEPT !.at = at, !.does = does]
<1>1. task \in Tasks /\ task.at = at /\ task.does = does
  BY ServersAssumption DEF Free, Tasks
<1>2. tasks' = [tasks EXCEPT ![s] = task]
  BY DEF Becomes
<1> HIDE DEF task
<1> QED BY <1>1, <1>2, TaskSet

\* A task that is over leaves a free slot.
LEMMA DoneIs ==
    ASSUME tasks \in [Slots -> Tasks], NEW s \in Slots, Done(s)
    PROVE  /\ tasks' \in [Slots -> Tasks]
           /\ tasks'[s].at = "free" /\ tasks'[s].does = "setup"
           /\ \A t \in Slots \ {s} : tasks'[t] = tasks[t]
<1>1. Free \in Tasks /\ Free.at = "free" /\ Free.does = "setup"
  BY ServersAssumption DEF Free, Tasks
<1>2. tasks' = [tasks EXCEPT ![s] = Free]
  BY DEF Done
<1> HIDE DEF Free
<1> QED BY <1>1, <1>2, TaskSet

\* What a step leaves of a task: one that neither begins a setup nor hears
\* from a server, and that writes the cap only when it saw no pin.
Leads(s, phases) ==
    /\ tasks' \in [Slots -> Tasks]
    /\ tasks'[s].at \in phases
    /\ tasks'[s].does = "voice" => tasks'[s].at \in {"untest", "uncap"}
    /\ tasks'[s].at = "adopt" => tasks'[s].model \in Models
    /\ \A t \in Slots \ {s} : tasks'[t] = tasks[t]

\* A voice's thread only swaps the model.
VoiceInv == \A s \in Slots : tasks[s].does = "voice" => Task(s) \in {"untest", "uncap"}

\* After a setup or a probe there is the remembering, or nothing.
LEMMA AfterSetupIs ==
    ASSUME tasks \in [Slots -> Tasks], NEW s \in Slots, AfterSetup(s)
    PROVE  Leads(s, {"remember", "free"})
<1>1. CASE tasks[s].does = "switch"
  BY <1>1, BecomesIs DEF AfterSetup, Leads, Running
<1>2. CASE tasks[s].does # "switch"
  BY <1>2, DoneIs DEF AfterSetup, Leads
<1> QED BY <1>1, <1>2

\* Where the steps of a task lead.
LEMMA TaskLeads ==
    ASSUME tasks \in [Slots -> Tasks], VoiceInv, startup \in Memories, url \in Servers,
           model \in Models, NEW s \in Slots
    PROVE  /\ Begin(s) => Leads(s, {"connect"})
           /\ Hears(s) => Leads(s, {"heard", "heardLocal"})
           /\ MarkReachable(s) => Leads(s, {"list", "probe", "free"})
           /\ CheckListed(s) => Leads(s, {"adopt", "probe"})
           /\ Adopt(s) => Leads(s, {"probe"})
           /\ Refused(s) => Leads(s, {"fallback"})
           /\ Unreachable(s) => Leads(s, {"remember", "free"})
           /\ Raises(s) => Leads(s, {"free"})
           /\ Probed(s) => Leads(s, {"remember", "free"} \cup (IF pinned THEN {} ELSE {"derive"}))
           /\ Derive(s) => Leads(s, {"remember", "free"})
           /\ ProbeFails(s) => Leads(s, {"remember", "free"})
           /\ RememberedModel(s) => Leads(s, {"key"})
           /\ RememberedServer(s) => Leads(s, {"keep"})
           /\ Remember(s) => Leads(s, {"free"})
           /\ SwapTest(s) => Leads(s, {"free"} \cup (IF pinned THEN {} ELSE {"uncap"}))
           /\ SwapCap(s) => Leads(s, {"free"})
           /\ \A does \in {"swap", "voice"}, m \in Models :
                Swap(s, does, m) => Leads(s, {"untest"})
<1> DEFINE other == Task(s) \notin {"untest", "uncap"} => tasks[s].does # "voice"
<1>0. other /\ TRUE
  BY DEF VoiceInv
<1>t. tasks[s] \in Tasks
  BY TaskIs
<1>1. ASSUME Begin(s) PROVE Leads(s, {"connect"})
  <2> DEFINE task == [tasks[s] EXCEPT !.at = "connect", !.to = url]
  <2>1. task \in Tasks /\ task.at = "connect" /\ task.does = tasks[s].does
    BY <1>t DEF Tasks, Awaiting
  <2>2. tasks' = [tasks EXCEPT ![s] = task] /\ Task(s) = "begin"
    BY <1>1 DEF Begin
  <2>3. task.does # "voice"
    BY <1>0, <2>1, <2>2
  <2> HIDE DEF task
  <2> QED BY <2>1, <2>2, <2>3, TaskSet DEF Leads
<1>2. ASSUME Hears(s) PROVE Leads(s, {"heard", "heardLocal"})
  <2>1. \/ Move(s, "heard")
        \/ Move(s, "heardLocal")
    BY <1>2 DEF Hears
  <2>2. tasks[s].does # "voice"
    BY <1>0, <1>2 DEF Hears
  <2> QED BY <2>1, <2>2, MoveIs DEF Leads, Running
<1>3. ASSUME MarkReachable(s) PROVE Leads(s, {"list", "probe", "free"})
  <2>1. Move(s, "list") \/ Becomes(s, "probe", tasks[s].does) \/ Done(s)
    BY <1>3 DEF MarkReachable, Probe
  <2>2. tasks[s].does # "voice"
    BY <1>0, <1>3 DEF MarkReachable
  <2>3. tasks[s].does \in {"setup", "switch", "probe", "swap", "voice"}
    BY TaskIs
  <2> QED BY <2>1, <2>2, <2>3, MoveIs, BecomesIs, DoneIs DEF Leads, Running, Awaiting
<1>4. ASSUME CheckListed(s) PROVE Leads(s, {"adopt", "probe"})
  <2>0. tasks[s].does # "voice"
    BY <1>0, <1>4 DEF CheckListed
  <2>1. CASE Probe(s)
    BY <2>0, <2>1, TaskIs, BecomesIs DEF Probe, Leads, Awaiting
  <2>2. ASSUME NEW first \in Models,
               tasks' = [tasks EXCEPT ![s].at = "adopt", ![s].model = first]
        PROVE  Leads(s, {"adopt", "probe"})
    <3> DEFINE task == [tasks[s] EXCEPT !.at = "adopt", !.model = first]
    <3>1. /\ task \in Tasks /\ task.at = "adopt" /\ task.does = tasks[s].does
          /\ task.model \in Models
      BY <1>t DEF Tasks, Running
    <3>2. tasks' = [tasks EXCEPT ![s] = task]
      BY <2>2
    <3> HIDE DEF task
    <3> QED BY <2>0, <3>1, <3>2, TaskSet DEF Leads
  <2>3. \/ Probe(s)
        \/ \E first \in Models : tasks' = [tasks EXCEPT ![s].at = "adopt", ![s].model = first]
    BY <1>4 DEF CheckListed
  <2> QED BY <2>1, <2>2, <2>3
<1>5. ASSUME Adopt(s) PROVE Leads(s, {"probe"})
  <2>1. tasks[s].does # "voice"
    BY <1>0, <1>5 DEF Adopt
  <2> QED BY <1>5, <2>1, TaskIs, BecomesIs DEF Adopt, Probe, Leads, Awaiting
<1>6. ASSUME Refused(s) PROVE Leads(s, {"fallback"})
  <2> DEFINE task == [tasks[s] EXCEPT !.at = "fallback", !.to = Local]
  <2>1. task \in Tasks /\ task.at = "fallback" /\ task.does = tasks[s].does
    BY <1>t, ServersAssumption DEF Tasks, Awaiting
  <2>2. tasks' = [tasks EXCEPT ![s] = task]
    BY <1>6 DEF Refused
  <2>3. tasks[s].does # "voice"
    BY <1>0, <1>6 DEF Refused
  <2> HIDE DEF task
  <2> QED BY <2>1, <2>2, <2>3, TaskSet DEF Leads
<1>7. Unreachable(s) \/ Derive(s) \/ ProbeFails(s) => Leads(s, {"remember", "free"})
  BY AfterSetupIs DEF Unreachable, Derive, ProbeFails
<1>8. Raises(s) \/ Remember(s) \/ SwapCap(s) => Leads(s, {"free"})
  BY DoneIs DEF Raises, Remember, SwapCap, Leads
<1>9. ASSUME Probed(s)
      PROVE  Leads(s, {"remember", "free"} \cup (IF pinned THEN {} ELSE {"derive"}))
  <2>1. CASE pinned
    BY <1>9, <2>1, AfterSetupIs DEF Probed, Leads
  <2>2. CASE ~pinned
    <3>1. tasks[s].does # "voice"
      BY <1>0, <1>9 DEF Probed
    <3> QED BY <1>9, <2>2, <3>1, MoveIs DEF Probed, Leads, Running
  <2> QED BY <2>1, <2>2
<1>10. ASSUME RememberedModel(s) PROVE Leads(s, {"key"})
  <2> DEFINE task == [tasks[s] EXCEPT !.at = "key", !.model = model]
  <2>1. task \in Tasks /\ task.at = "key" /\ task.does = tasks[s].does
    BY <1>t DEF Tasks, Running
  <2>2. tasks' = [tasks EXCEPT ![s] = task]
    BY <1>10 DEF RememberedModel
  <2>3. tasks[s].does # "voice"
    BY <1>0, <1>10 DEF RememberedModel
  <2> HIDE DEF task
  <2> QED BY <2>1, <2>2, <2>3, TaskSet DEF Leads
<1>11. ASSUME RememberedServer(s) PROVE Leads(s, {"keep"})
  <2> DEFINE task == [tasks[s] EXCEPT !.at = "keep", !.to = url]
  <2>1. task \in Tasks /\ task.at = "keep" /\ task.does = tasks[s].does
    BY <1>t DEF Tasks, Running
  <2>2. tasks' = [tasks EXCEPT ![s] = task]
    BY <1>11 DEF RememberedServer
  <2>3. tasks[s].does # "voice"
    BY <1>0, <1>11 DEF RememberedServer
  <2> HIDE DEF task
  <2> QED BY <2>1, <2>2, <2>3, TaskSet DEF Leads
<1>12. ASSUME SwapTest(s) PROVE Leads(s, {"free"} \cup (IF pinned THEN {} ELSE {"uncap"}))
  <2>1. CASE pinned
    BY <1>12, <2>1, DoneIs DEF SwapTest, Leads
  <2>2. CASE ~pinned
    BY <1>12, <2>2, MoveIs DEF SwapTest, Leads, Running
  <2> QED BY <2>1, <2>2
<1>13. ASSUME NEW does \in {"swap", "voice"}, NEW m \in Models, Swap(s, does, m)
       PROVE  Leads(s, {"untest"})
  BY <1>13, BecomesIs DEF Swap, Leads, Running
<1> QED BY <1>1, <1>2, <1>3, <1>4, <1>5, <1>6, <1>7, <1>8, <1>9, <1>10, <1>11, <1>12, <1>13

\* The model a task is about to adopt is one, and so is the one a command is
\* about to set.
ModelInv ==
    /\ \A s \in Slots : Task(s) = "adopt" => tasks[s].model \in Models
    /\ ui.at \in {"compare", "model"} => ui.model \in Models

Typed == TypeOK /\ VoiceInv /\ ModelInv

\* What a step of a task leaves is well typed.
LEMMA LeadsIs ==
    ASSUME VoiceInv, ModelInv, UNCHANGED ui, NEW s \in Slots, NEW phases, Leads(s, phases)
    PROVE  tasks' \in [Slots -> Tasks] /\ VoiceInv' /\ ModelInv'
<1>1. VoiceInv'
  BY DEF Leads, VoiceInv, Task
<1>2. ModelInv'
  BY DEF Leads, ModelInv, Task
<1> QED BY <1>1, <1>2 DEF Leads

\* At startup the configured server is being set up.
LEMMA TypeInit == Init => Typed
<1>1. SUFFICES ASSUME Init PROVE Typed
  OBVIOUS
<1>2. startup \in Memories /\ url \in Servers
  BY <1>1 DEF Init
<1>3. model \in Models
  BY <1>1, <1>2, ModelsAssumption DEF Init, Memories
<1>4. \A s \in Slots : tasks[s] \in Tasks /\ tasks[s].does = "setup" /\ Task(s) # "adopt"
  <2>1. Free \in Tasks /\ Free.does = "setup" /\ Free.at = "free"
    BY ServersAssumption DEF Free, Tasks
  <2>2. [Free EXCEPT !.at = "begin"] \in Tasks /\ [Free EXCEPT !.at = "begin"].does = "setup"
        /\ [Free EXCEPT !.at = "begin"].at = "begin"
    BY ServersAssumption DEF Free, Tasks, Awaiting
  <2> HIDE DEF Free
  <2> QED BY <1>1, <2>1, <2>2 DEF Init, Task
<1>5. tasks \in [Slots -> Tasks] /\ VoiceInv
  <2>1. \E f : tasks = [s \in Slots |-> f[s]]
    BY <1>1 DEF Init
  <2> QED BY <1>4, <2>1 DEF VoiceInv
<1>6. reachable \in BOOLEAN /\ pinned \in BOOLEAN /\ exposed \in BOOLEAN
  <2>1. pinned = TRUE \/ pinned = FALSE
    BY <1>1 DEF Init
  <2>2. reachable = FALSE /\ exposed = FALSE
    BY <1>1, Zenon DEF Init
  <2> QED BY <2>1, <2>2, Zenon
<1>7. chosen \in Servers /\ answered \in Servers /\ remembered \in Memories
  BY <1>1, <1>2, Zenon DEF Init
<1>8. cap \in {"default", "pin", "derived"}
  BY <1>1 DEF Init
<1>9. ui \in Commands /\ ui.at = "idle"
  BY <1>1, NoCommandIs DEF Init, NoCommand
<1>10. ModelInv
  BY <1>4, <1>9 DEF ModelInv
<1> QED BY <1>2, <1>3, <1>5, <1>6, <1>7, <1>8, <1>9, <1>10, Zenon DEF TypeOK, Typed

\* A step of the UI thread keeps the types.
LEMMA TypeUi == Typed /\ UiStep => Typed'
<1> SUFFICES ASSUME Typed, UiStep PROVE Typed'
  OBVIOUS
<1> USE DEF Typed
<1>u. ui \in Commands /\ tasks \in [Slots -> Tasks]
  BY DEF TypeOK
<1>1. ASSUME NEW u \in Servers, Switch(u) PROVE Typed'
  <2>1. ui' \in Commands /\ ui'.at = "unreach"
    BY <1>1 DEF Switch, Commands
  <2> QED BY <1>1, <2>1
          DEF Switch, TypeOK, capVars, memoryVars, VoiceInv, ModelInv, Task
<1>2. ASSUME NEW does \in {"model", "swap"}, NEW m \in Models, Command(does, m) PROVE Typed'
  <2>1. ui' \in Commands /\ ui'.model \in Models
    BY <1>2, ServersAssumption DEF Command, NoCommand, Commands
  <2> QED BY <1>2, <2>1
          DEF Command, TypeOK, linkVars, capVars, memoryVars, VoiceInv, ModelInv, Task
\* A phase that follows another, where no model is about to be set.
<1>g. ASSUME NEW at \in {"pins", "pin", "flag", "unflag", "default", "recall", "untest",
                         "uncap", "entry", "pinAgain", "flagAgain", "schedule"},
             Goto(at)
      PROVE  ui' \in Commands /\ ui'.at \notin {"compare", "model"}
  BY <1>u, <1>g, UiIs DEF Goto, Commands
<1>a. ASSUME AfterSwap PROVE ui' \in Commands /\ ui'.at \notin {"compare", "model"}
  BY <1>u, <1>a, <1>g, NoCommandIs DEF AfterSwap, NoCommand
<1>3. CASE Unreach
  BY <1>3, <1>g DEF Unreach, TypeOK, capVars, memoryVars, VoiceInv, ModelInv, Task
<1>4. CASE LookUpPin
  BY <1>4, <1>g
     DEF LookUpPin, TypeOK, linkVars, capVars, memoryVars, VoiceInv, ModelInv, Task
<1>5. CASE PinCap
  BY <1>5, <1>g DEF PinCap, TypeOK, linkVars, memoryVars, VoiceInv, ModelInv, Task
<1>6. CASE FlagPin
  <2>1. exposed' \in BOOLEAN
    <3>1. exposed' = TRUE \/ exposed' = FALSE
      BY <1>6 DEF FlagPin
    <3> QED BY <3>1, Zenon
  <2>2. pinned' \in BOOLEAN
    BY <1>6, Zenon DEF FlagPin
  <2>3. ui' \in Commands /\ ui'.at \notin {"compare", "model"}
    BY <1>6, <1>g DEF FlagPin
  <2>4. UNCHANGED <<url, reachable, answered, model, cap, startup, remembered, tasks, chosen>>
    BY <1>6 DEF FlagPin, linkVars, memoryVars
  <2>5. TypeOK'
    BY <2>1, <2>2, <2>3, <2>4, Zenon DEF TypeOK
  <2> QED BY <2>3, <2>4, <2>5 DEF VoiceInv, ModelInv, Task
<1>7. CASE Unflag
  BY <1>7, <1>g DEF Unflag, TypeOK, linkVars, memoryVars, VoiceInv, ModelInv, Task
<1>8. CASE DefaultCap
  BY <1>8, <1>g, <1>a DEF DefaultCap, TypeOK, linkVars, memoryVars, VoiceInv, ModelInv, Task
<1>9. CASE Recall
  <2>1. remembered[ui.to] \in Models \cup {NoModel}
    BY <1>u, UiIs DEF TypeOK, Memories
  <2>2. /\ ui' \in Commands
        /\ ui'.at \in {"compare", "model"} => ui'.model \in Models
    BY <1>9, <1>u, <2>1 DEF Recall, Commands
  <2> QED BY <1>9, <2>2
          DEF Recall, TypeOK, linkVars, capVars, memoryVars, VoiceInv, ModelInv, Task
<1>10. CASE Compare
  <2>1. /\ ui' \in Commands
        /\ ui'.at \in {"compare", "model"} => ui'.model \in Models
    BY <1>10, <1>u DEF Compare, Goto, UiAt, Commands, ModelInv
  <2> QED BY <1>10, <2>1
          DEF Compare, TypeOK, linkVars, capVars, memoryVars, VoiceInv, ModelInv, Task
<1>11. CASE SetModel
  <2>1. model' \in Models
    BY <1>11 DEF SetModel, UiAt, ModelInv
  <2> QED BY <1>11, <1>g, <2>1
          DEF SetModel, TypeOK, linkVars, capVars, memoryVars, VoiceInv, ModelInv, Task
<1>12. CASE TestFlag
  BY <1>12, <1>g, <1>a
     DEF TestFlag, TypeOK, linkVars, capVars, memoryVars, VoiceInv, ModelInv, Task
<1>13. CASE LookUpEntry
  BY <1>13, <1>g
     DEF LookUpEntry, TypeOK, linkVars, capVars, memoryVars, VoiceInv, ModelInv, Task
<1>14. ASSUME NEW s \in Slots, ScheduleTask(s) PROVE Typed'
  <2>1. \/ Becomes(s, "begin", "switch")
        \/ Becomes(s, "probe", "probe")
    BY <1>14 DEF ScheduleTask
  <2>2. /\ tasks' \in [Slots -> Tasks]
        /\ tasks'[s].at \in {"begin", "probe"} /\ tasks'[s].does # "voice"
        /\ \A t \in Slots \ {s} : tasks'[t] = tasks[t]
    BY <1>u, <2>1, BecomesIs DEF Awaiting
  <2>3. ui' \in Commands /\ ui'.at = "idle"
    BY <1>14, NoCommandIs DEF ScheduleTask, NoCommand
  <2>4. VoiceInv' /\ ModelInv'
    BY <2>2, <2>3 DEF VoiceInv, ModelInv, Task
  <2> QED BY <1>14, <2>2, <2>3, <2>4
          DEF ScheduleTask, TypeOK, linkVars, capVars, memoryVars
<1> QED BY <1>1, <1>2, <1>3, <1>4, <1>5, <1>6, <1>7, <1>8, <1>9, <1>10, <1>11, <1>12,
           <1>13, <1>14 DEF UiStep

\* A step of a task, or of a voice's thread, keeps the types.
LEMMA TypeTask ==
    ASSUME Typed, NEW s \in Slots, LoopStep(s) \/ VoiceStep(s)
    PROVE  Typed'
<1> USE DEF Typed
<1>u. /\ tasks \in [Slots -> Tasks] /\ startup \in Memories /\ url \in Servers
      /\ model \in Models
  BY DEF TypeOK
<1>t. tasks[s].to \in Servers /\ tasks[s].model \in Models \cup {NoModel}
  BY <1>u, TaskIs
<1>1. \/ Begin(s) \/ Hears(s) \/ MarkReachable(s) \/ CheckListed(s) \/ Adopt(s)
      \/ Refused(s) \/ Unreachable(s) \/ Raises(s) \/ Probed(s) \/ Derive(s)
      \/ ProbeFails(s) \/ RememberedModel(s) \/ RememberedServer(s) \/ Remember(s)
      \/ SwapTest(s) \/ SwapCap(s)
      \/ \E does \in {"swap", "voice"}, m \in Models : Swap(s, does, m)
  BY DEF LoopStep, VoiceStep, TaskStep
<1>2. UNCHANGED ui
  BY <1>1 DEF Begin, Hears, MarkReachable, CheckListed, Adopt, Refused, Unreachable, Raises,
              Probed, Derive, ProbeFails, RememberedModel, RememberedServer, Remember,
              SwapTest, SwapCap, Swap
<1>3. \E phases : Leads(s, phases)
  BY <1>1, <1>u, TaskLeads
<1>4. tasks' \in [Slots -> Tasks] /\ VoiceInv' /\ ModelInv'
  BY <1>2, <1>3, LeadsIs
<1>5. url' \in Servers /\ answered' \in Servers /\ chosen' \in Servers
  BY <1>1, <1>t
     DEF Begin, Hears, MarkReachable, CheckListed, Adopt, Refused, Unreachable, Raises,
         Probed, Derive, ProbeFails, RememberedModel, RememberedServer, Remember, SwapTest,
         SwapCap, Swap, TypeOK, linkVars
<1>6. /\ reachable' = reachable \/ reachable' = TRUE \/ reachable' = FALSE
      /\ UNCHANGED <<pinned, exposed, startup>>
  BY <1>1
     DEF Begin, Hears, MarkReachable, CheckListed, Adopt, Refused, Unreachable, Raises,
         Probed, Derive, ProbeFails, RememberedModel, RememberedServer, Remember, SwapTest,
         SwapCap, Swap, linkVars, capVars, memoryVars
<1>7. /\ reachable' \in BOOLEAN /\ pinned' \in BOOLEAN /\ exposed' \in BOOLEAN
  BY <1>6, Zenon DEF TypeOK
<1>8. cap' \in {"default", "pin", "derived"}
  BY <1>1
     DEF Begin, Hears, MarkReachable, CheckListed, Adopt, Refused, Unreachable, Raises,
         Probed, Derive, ProbeFails, RememberedModel, RememberedServer, Remember, SwapTest,
         SwapCap, Swap, TypeOK, capVars
<1>9. model' \in Models
  BY <1>1
     DEF Begin, Hears, MarkReachable, CheckListed, Adopt, Refused, Unreachable, Raises,
         Probed, Derive, ProbeFails, RememberedModel, RememberedServer, Remember, SwapTest,
         SwapCap, Swap, TypeOK, ModelInv, Task
<1>10. remembered' \in Memories
  <2>1. CASE Remember(s)
    BY <2>1, <1>t DEF Remember, TypeOK, Memories
  <2>2. CASE ~Remember(s)
    BY <1>1, <2>2
       DEF Begin, Hears, MarkReachable, CheckListed, Adopt, Refused, Unreachable, Raises,
           Probed, Derive, ProbeFails, RememberedModel, RememberedServer, SwapTest, SwapCap,
           Swap, TypeOK, memoryVars
  <2> QED BY <2>1, <2>2
<1>11. startup' \in Memories /\ ui' \in Commands
  BY <1>2, <1>6 DEF TypeOK
<1> QED BY <1>4, <1>5, <1>7, <1>8, <1>9, <1>10, <1>11, Zenon DEF TypeOK

\* Commands, setups, probes and swaps keep the types, however they interleave.
LEMMA TypeStep == Typed /\ [Next]_vars => Typed'
<1>1. SUFFICES ASSUME Typed, [Next]_vars PROVE Typed'
  OBVIOUS
<1>2. CASE UiStep
  BY <1>1, <1>2, TypeUi
<1>3. ASSUME NEW s \in Slots, LoopStep(s) \/ VoiceStep(s) PROVE Typed'
  BY <1>1, <1>3, TypeTask
<1>4. CASE UNCHANGED vars
  BY <1>1, <1>4
     DEF Typed, TypeOK, VoiceInv, ModelInv, Task, vars, linkVars, capVars, memoryVars
<1> QED BY <1>1, <1>2, <1>3, <1>4 DEF Next

\* The types, with what a task and a command are about to write.
LEMMA TypedThm == Spec => []Typed
BY TypeInit, TypeStep, PTL DEF Spec

\* The type invariant of the backend, its memories and the tasks on the loop
\* (http_backend.py, _cmd_server).
THEOREM TypeCorrect == Spec => []TypeOK
<1>1. Typed => TypeOK
  BY DEF Typed
<1> QED BY <1>1, TypedThm, PTL

-----------------------------------------------------------------------------
(* The cap.  The flag and the cap are set one after the other, and so the  *)
(* invariant says what holds between the two; and when the flag is set and *)
(* nobody had tested it before, nobody is about to write the cap.          *)

SawNoPin(s) == Task(s) \in {"derive", "uncap"}

PinInv ==
    /\ cap = "pin" => pinned \/ ui.at \in {"flag", "flagAgain", "default"}
    /\ ui.at \in {"default", "uncap"} => ~pinned
    /\ pinned /\ ~exposed => cap = "pin" /\ \A s \in Slots : ~SawNoPin(s)

\* At startup the flag says what the configuration pins.
LEMMA PinInit == Init => PinInv
<1>1. Init => \A s \in Slots : Task(s) \in {"begin", "free"}
  BY DEF Init, Task, Free
<1>2. Init => ui.at = "idle"
  BY DEF Init, NoCommand
<1> QED BY <1>1, <1>2 DEF Init, PinInv, SawNoPin

\* The commands set flag and cap in an order that keeps them together.
LEMMA PinUi == Typed /\ PinInv /\ UiStep => PinInv'
<1> SUFFICES ASSUME ui \in Commands, tasks \in [Slots -> Tasks], PinInv, UiStep PROVE PinInv'
  BY DEF Typed, TypeOK
<1>g. \A at : Goto(at) => ui'.at = at
  BY DEF Goto, Commands
<1>a. AfterSwap => ui'.at \in {"entry", "schedule", "idle"}
  BY <1>g DEF AfterSwap, NoCommand
<1>1. ASSUME NEW u \in Servers, Switch(u) PROVE PinInv'
  BY <1>1 DEF Switch, AtRest, NoCommand, PinInv, SawNoPin, Task, capVars
<1>2. ASSUME NEW does \in {"model", "swap"}, NEW m \in Models, Command(does, m) PROVE PinInv'
  BY <1>2 DEF Command, AtRest, NoCommand, PinInv, SawNoPin, Task, capVars
<1>3. CASE Unreach \/ LookUpPin \/ Compare \/ SetModel \/ LookUpEntry
  BY <1>3, <1>g
     DEF Unreach, LookUpPin, Compare, SetModel, LookUpEntry, UiAt, PinInv, SawNoPin, Task,
         capVars
<1>4. CASE PinCap
  BY <1>4, <1>g DEF PinCap, UiAt, PinInv, SawNoPin, Task
<1>5. CASE FlagPin
  BY <1>5, <1>g DEF FlagPin, UiAt, PinInv, SawNoPin, Task
<1>6. CASE Unflag
  BY <1>6, <1>g DEF Unflag, UiAt, PinInv, SawNoPin, Task
<1>7. CASE DefaultCap
  BY <1>7, <1>g, <1>a DEF DefaultCap, UiAt, PinInv, SawNoPin, Task
<1>8. CASE Recall
  <2>1. ui'.at \in {"entry", "compare"} /\ ui.at = "recall"
    BY <1>8 DEF Recall, UiAt, Commands
  <2> QED BY <1>8, <2>1 DEF Recall, PinInv, SawNoPin, Task, capVars
<1>9. CASE TestFlag
  BY <1>9, <1>g, <1>a DEF TestFlag, UiAt, PinInv, SawNoPin, Task, capVars
<1>10. ASSUME NEW s \in Slots, ScheduleTask(s) PROVE PinInv'
  <2>1. \A t \in Slots : tasks'[t].at \in {"begin", "probe"} \/ tasks'[t] = tasks[t]
    BY <1>10, BecomesIs DEF ScheduleTask, Awaiting
  <2>2. ui'.at = "idle" /\ ui.at = "schedule"
    BY <1>10 DEF ScheduleTask, UiAt, NoCommand
  <2> QED BY <1>10, <2>1, <2>2 DEF ScheduleTask, PinInv, SawNoPin, Task, capVars
<1> QED BY <1>1, <1>2, <1>3, <1>4, <1>5, <1>6, <1>7, <1>8, <1>9, <1>10 DEF UiStep

\* A probe or a swap that sees the flag writes no cap.
LEMMA PinTask ==
    ASSUME Typed, PinInv, NEW s \in Slots, LoopStep(s) \/ VoiceStep(s)
    PROVE  PinInv'
<1>u. /\ tasks \in [Slots -> Tasks] /\ startup \in Memories /\ url \in Servers
      /\ model \in Models /\ VoiceInv
  BY DEF Typed, TypeOK
<1>1. \/ Begin(s) \/ Hears(s) \/ MarkReachable(s) \/ CheckListed(s) \/ Adopt(s)
      \/ Refused(s) \/ Unreachable(s) \/ Raises(s) \/ ProbeFails(s)
      \/ RememberedModel(s) \/ RememberedServer(s) \/ Remember(s)
      \/ \E does \in {"swap", "voice"}, m \in Models : Swap(s, does, m)
      \/ Probed(s) \/ SwapTest(s) \/ Derive(s) \/ SwapCap(s)
  BY DEF LoopStep, VoiceStep, TaskStep
<1>2. UNCHANGED <<ui, pinned, exposed>>
  BY <1>1 DEF Begin, Hears, MarkReachable, CheckListed, Adopt, Refused, Unreachable, Raises,
              Probed, Derive, ProbeFails, RememberedModel, RememberedServer, Remember,
              SwapTest, SwapCap, Swap, capVars
<1>3. pinned => tasks'[s].at \notin {"derive", "uncap"}
  BY <1>1, <1>u, TaskLeads DEF Leads
<1>4. \A t \in Slots \ {s} : tasks'[t] = tasks[t]
  BY <1>1, <1>u, TaskLeads DEF Leads
<1>5. cap' = cap \/ (SawNoPin(s) /\ cap' # "pin")
  <2>1. CASE Derive(s)
    BY <2>1 DEF Derive, SawNoPin
  <2>2. CASE SwapCap(s)
    BY <2>2 DEF SwapCap, SawNoPin
  <2>3. ASSUME ~Derive(s) /\ ~SwapCap(s) PROVE cap' = cap
    BY <1>1, <2>3
       DEF Begin, Hears, MarkReachable, CheckListed, Adopt, Refused, Unreachable, Raises,
           Probed, ProbeFails, RememberedModel, RememberedServer, Remember, SwapTest, Swap,
           capVars
  <2> QED BY <2>1, <2>2, <2>3
<1> QED BY <1>2, <1>3, <1>4, <1>5 DEF PinInv, SawNoPin, Task

\* Flag and cap go together in every interleaving.
LEMMA PinStep == Typed /\ PinInv /\ [Next]_vars => PinInv'
<1>1. SUFFICES ASSUME Typed, PinInv, [Next]_vars PROVE PinInv'
  OBVIOUS
<1>2. CASE UiStep
  BY <1>1, <1>2, PinUi
<1>3. ASSUME NEW s \in Slots, LoopStep(s) \/ VoiceStep(s) PROVE PinInv'
  BY <1>1, <1>3, PinTask
<1>4. CASE UNCHANGED vars
  BY <1>1, <1>4 DEF PinInv, SawNoPin, Task, vars, capVars
<1> QED BY <1>1, <1>2, <1>3, <1>4 DEF Next

\* Between two commands a pinned cap is flagged, and a flag's cap is the pin
\* but for a write decided before the flag was set (set_api_url,
\* _apply_auto_max_tokens, set_model).
THEOREM PinHoldsThm == Spec => []PinHolds
<1>1. PinInv => PinHolds
  BY DEF PinInv, PinHolds, AtRest, NoCommand
<1> QED BY <1>1, TypedThm, PinInit, PinStep, PTL DEF Spec

-----------------------------------------------------------------------------
(* The status.  A server that was just heard is about to be marked, and so *)
(* counts like one that is.                                                *)

Heard(s) == Task(s) \in {"heard", "heardLocal"}

LinkInv == ~Switching /\ (reachable \/ \E s \in Slots : Heard(s)) => url = answered

\* Nothing has been heard at startup.
LEMMA LinkInit == Init => LinkInv
<1>1. Init => ~reachable /\ url = answered
  BY DEF Init
<1> QED BY <1>1 DEF LinkInv

\* A switch changes the server, and only its setup ends it.
LEMMA LinkUi == Typed /\ LinkInv /\ UiStep => LinkInv'
<1> SUFFICES ASSUME ui \in Commands, tasks \in [Slots -> Tasks], LinkInv, UiStep
             PROVE  LinkInv'
  BY DEF Typed, TypeOK
<1>1. ASSUME NEW u \in Servers, Switch(u) PROVE LinkInv'
  <2>1. ui'.does = "switch"
    BY <1>1 DEF Switch
  <2> QED BY <2>1 DEF LinkInv, Switching
<1>2. ASSUME NEW does \in {"model", "swap"}, NEW m \in Models, Command(does, m) PROVE LinkInv'
  <2>1. ui.does # "switch" /\ ui'.does # "switch"
    BY <1>2 DEF Command, AtRest, NoCommand
  <2> QED BY <1>2, <2>1 DEF Command, LinkInv, Switching, Heard, Task, linkVars
<1>3. ASSUME UNCHANGED <<url, answered, tasks>>, ui'.does = ui.does, reachable' => reachable
      PROVE  LinkInv'
  BY <1>3 DEF LinkInv, Switching, Heard, Task
<1>g. \A at : Goto(at) => ui'.does = ui.does
  BY DEF Goto, Commands
<1>a. AfterSwap => ui'.does = ui.does
  <2>1. ui.does \in {"switch", "model", "swap"}
    BY DEF Commands
  <2> QED BY <1>g, <2>1 DEF AfterSwap, NoCommand
<1>4. CASE Unreach
  BY <1>3, <1>4, <1>g DEF Unreach
<1>5. CASE LookUpPin \/ PinCap \/ FlagPin \/ Unflag \/ Compare \/ SetModel \/ LookUpEntry
  BY <1>3, <1>5, <1>g
     DEF LookUpPin, PinCap, FlagPin, Unflag, Compare, SetModel, LookUpEntry, linkVars
<1>6. CASE DefaultCap \/ TestFlag
  BY <1>3, <1>6, <1>g, <1>a DEF DefaultCap, TestFlag, linkVars
<1>7. CASE Recall
  <2>1. ui'.does = ui.does
    BY <1>7 DEF Recall, Commands
  <2> QED BY <1>3, <1>7, <2>1 DEF Recall, linkVars
<1>8. ASSUME NEW s \in Slots, ScheduleTask(s) PROVE LinkInv'
  <2>1. Task(s) = "free" /\ UNCHANGED <<url, reachable, answered>>
    BY <1>8 DEF ScheduleTask, linkVars
  <2>2. CASE ui.does = "switch"
    <3>1. tasks'[s].at = "begin"
      BY <1>8, <2>2, BecomesIs DEF ScheduleTask, Awaiting
    <3> QED BY <3>1 DEF LinkInv, Switching, Task
  <2>3. CASE ui.does # "switch"
    <3>1. tasks'[s].at = "probe" /\ \A t \in Slots \ {s} : tasks'[t] = tasks[t]
      BY <1>8, <2>3, BecomesIs DEF ScheduleTask, Awaiting
    <3>2. Switching => Switching'
      BY <2>1, <2>3, <3>1 DEF Switching, Task
    <3>3. \A t \in Slots : Heard(t)' => Heard(t)
      BY <3>1 DEF Heard, Task
    <3> QED BY <2>1, <3>2, <3>3 DEF LinkInv
  <2> QED BY <2>2, <2>3
<1> QED BY <1>1, <1>2, <1>4, <1>5, <1>6, <1>7, <1>8 DEF UiStep

\* A setup clears the status before it connects, and no other task is then
\* about to set it, since this one has the loop.
LEMMA LinkTask ==
    ASSUME Typed, LinkInv, NEW s \in Slots, LoopStep(s) \/ VoiceStep(s)
    PROVE  LinkInv'
<1>u. /\ tasks \in [Slots -> Tasks] /\ startup \in Memories /\ url \in Servers
      /\ model \in Models /\ VoiceInv
  BY DEF Typed, TypeOK
<1>1. CASE Hears(s)
  BY <1>1 DEF Hears, LinkInv
<1>2. CASE Begin(s)
  <2>1. LoopFree(s)
    BY <1>2, <1>u DEF LoopStep, VoiceStep, Begin, Swap, SwapTest, SwapCap
  <2>2. \A t \in Slots \ {s} : ~Heard(t)
    BY <2>1, <1>u DEF LoopFree, VoiceInv, Heard, Running
  <2>3. tasks'[s].at = "connect" /\ \A t \in Slots \ {s} : tasks'[t] = tasks[t]
    BY <1>2, <1>u, TaskLeads DEF Leads
  <2>4. ~reachable' /\ \A t \in Slots : ~Heard(t)'
    BY <1>2, <2>2, <2>3 DEF Begin, Heard, Task
  <2> QED BY <2>4 DEF LinkInv
<1>3. CASE ~Hears(s) /\ ~Begin(s)
  <2>1. \/ MarkReachable(s) \/ CheckListed(s) \/ Adopt(s)
        \/ Refused(s) \/ Unreachable(s) \/ Raises(s) \/ Probed(s) \/ Derive(s)
        \/ ProbeFails(s) \/ RememberedModel(s) \/ RememberedServer(s) \/ Remember(s)
        \/ SwapTest(s) \/ SwapCap(s)
        \/ \E does \in {"swap", "voice"}, m \in Models : Swap(s, does, m)
    BY <1>3 DEF LoopStep, VoiceStep, TaskStep
  <2>2. /\ UNCHANGED <<url, answered, ui>>
        /\ reachable' => reachable \/ Heard(s)
        /\ Task(s) # "begin"
    BY <2>1
       DEF MarkReachable, CheckListed, Adopt, Refused, Unreachable, Raises, Probed, Derive,
           ProbeFails, RememberedModel, RememberedServer, Remember, SwapTest, SwapCap, Swap,
           linkVars, Heard, Awaiting
  <2>3. /\ tasks'[s].at \notin {"heard", "heardLocal"}
        /\ \A t \in Slots \ {s} : tasks'[t] = tasks[t]
    BY <2>1, <1>u, TaskLeads DEF Leads
  <2>4. Switching => Switching'
    BY <2>2, <2>3 DEF Switching, Task
  <2>5. \A t \in Slots : Heard(t)' => Heard(t)
    BY <2>3 DEF Heard, Task
  <2> QED BY <2>2, <2>4, <2>5 DEF LinkInv
<1> QED BY <1>1, <1>2, <1>3

\* The status is that of the last answer in every interleaving.
LEMMA LinkStep == Typed /\ LinkInv /\ [Next]_vars => LinkInv'
<1>1. SUFFICES ASSUME Typed, LinkInv, [Next]_vars PROVE LinkInv'
  OBVIOUS
<1>2. CASE UiStep
  BY <1>1, <1>2, LinkUi
<1>3. ASSUME NEW s \in Slots, LoopStep(s) \/ VoiceStep(s) PROVE LinkInv'
  BY <1>1, <1>3, LinkTask
<1>4. CASE UNCHANGED vars
  BY <1>1, <1>4 DEF LinkInv, Switching, Heard, Task, vars, linkVars
<1> QED BY <1>1, <1>2, <1>3, <1>4 DEF Next

\* Whatever setup or probe answers late, and wherever in a switch, the server
\* called reachable is the last that answered once the switch's own setup has
\* begun (set_api_url, setup, _try_connect).
THEOREM StatusOKThm == Spec => []StatusOK
<1>1. Typed /\ LinkInv => StatusOK
  BY DEF Typed, LinkInv, StatusOK, ReachableIsAnswered
<1> QED BY <1>1, TypedThm, LinkInit, LinkStep, PTL DEF Spec

-----------------------------------------------------------------------------
(* Research: its invariant is that sources are numbered upwards, each page *)
(* once, in every cached answer and in what a run holds; and that the      *)
(* follow-ups awaited still fit under the cap with those paid for.         *)

USE DEF researchVars, cacheVars

-----------------------------------------------------------------------------
(* Pools of sources.                                                       *)

\* The caps one by one, as the steps below use them.
LEMMA Caps ==
    /\ MaxFetches \in Nat \ {0} /\ PoolCap \in Nat \ {0} /\ MaxFollowups \in Nat \ {0}
    /\ Batch \in Nat \ {0} /\ MaxNew \in Nat
    /\ SlotTtl \in Nat /\ RefineTtl \in Nat /\ CacheTtl \in Nat
BY CapsAssumption, TtlsAssumption

\* Numbered upwards, and each page once.
Ascends(pool) == \A i, j \in DOMAIN pool : i < j => pool[i][1] < pool[j][1]
Distinct(pool) == \A i, j \in DOMAIN pool : pool[i][2] = pool[j][2] => i = j
Sound(pool) == Ascends(pool) /\ Distinct(pool)

\* A pool holds what one run may fetch, or else what the cap allows.
Fits(pool) == Len(pool) <= PoolCap \/ Len(pool) <= MaxFetches

\* Every source of the second comes after all of the first, with another page.
Follows(pool, new) ==
    \A i \in DOMAIN pool, j \in DOMAIN new :
        pool[i][1] < new[j][1] /\ pool[i][2] # new[j][2]

\* What a source in a pool is.
LEMMA PoolIs ==
    ASSUME NEW pool \in Seq(Source)
    PROVE  /\ Len(pool) \in Nat /\ DOMAIN pool = 1..Len(pool)
           /\ \A i \in DOMAIN pool :
                pool[i] \in Source /\ pool[i][1] \in Nat \ {0} /\ pool[i][2] \in Urls
<1>1. \A i \in DOMAIN pool : pool[i] \in Source
  OBVIOUS
<1>2. \A src \in Source : src[1] \in Nat \ {0} /\ src[2] \in Urls
  BY DEF Source
<1> QED BY <1>1, <1>2

\* The numbers of a sound pool tell its sources apart, and so do its pages.
LEMMA SoundIsUnambiguous ==
    ASSUME NEW pool \in Seq(Source), Sound(pool)
    PROVE  Unambiguous(pool)
<1> DEFINE n == Len(pool)
           number == [i \in 1..n |-> pool[i][1]]
           page == [i \in 1..n |-> pool[i][2]]
<1>1. n \in Nat /\ DOMAIN pool = 1..n
  BY PoolIs
<1>2. \A i, j \in 1..n : pool[i][1] = pool[j][1] => i = j
  <2> SUFFICES ASSUME NEW i \in 1..n, NEW j \in 1..n, pool[i][1] = pool[j][1], i # j
               PROVE  FALSE
    OBVIOUS
  <2>1. pool[i][1] \in Nat /\ pool[j][1] \in Nat
    BY <1>1, PoolIs
  <2>2. i < j \/ j < i
    BY <1>1
  <2> QED BY <1>1, <2>1, <2>2 DEF Sound, Ascends
<1>3. \A i, j \in 1..n : pool[i][2] = pool[j][2] => i = j
  BY <1>1 DEF Sound, Distinct
<1> HIDE DEF n
<1>4. number \in Bijection(1..n, Numbers(pool))
  <2>1. number \in [1..n -> Numbers(pool)]
    BY <1>1 DEF Numbers
  <2>2. number \in Injection(1..n, Numbers(pool))
    BY <2>1, <1>2 DEF Injection, IsInjective
  <2>3. number \in Surjection(1..n, Numbers(pool))
    BY <2>1, <1>1 DEF Surjection, Numbers
  <2> QED BY <2>2, <2>3 DEF Bijection
<1>5. page \in Bijection(1..n, UrlsOf(pool))
  <2>1. page \in [1..n -> UrlsOf(pool)]
    BY <1>1 DEF UrlsOf
  <2>2. page \in Injection(1..n, UrlsOf(pool))
    BY <2>1, <1>3 DEF Injection, IsInjective
  <2>3. page \in Surjection(1..n, UrlsOf(pool))
    BY <2>1, <1>1 DEF Surjection, UrlsOf
  <2> QED BY <2>2, <2>3 DEF Bijection
<1>6. ExistsBijection(1..n, Numbers(pool)) /\ ExistsBijection(1..n, UrlsOf(pool))
  BY <1>4, <1>5 DEF ExistsBijection
<1>7. Cardinality(Numbers(pool)) = n /\ Cardinality(UrlsOf(pool)) = n
  BY <1>1, <1>6, FS_CountingElements
<1> QED BY <1>7 DEF n, Unambiguous

\* A search's hits are some pages, each once.
LEMMA HitsAre ==
    ASSUME NEW urls, NEW most \in Nat, NEW hits \in HitLists(urls, most)
    PROVE  \E n \in 1..most :
             hits \in [1..n -> urls] /\ \A i, j \in 1..n : hits[i] = hits[j] => i = j
BY DEF HitLists, IsInjective

\* Reading drops sources and changes none.
LEMMA ReadOfIs ==
    ASSUME NEW pool \in Seq(Source), NEW picked \in Readings(pool)
    PROVE  LET read == ReadOf(pool, picked) IN
           /\ read \in Seq(Source) /\ Len(read) <= Len(pool)
           /\ Sound(pool) => Sound(read)
           /\ \A before : Follows(before, pool) => Follows(before, read)
<1> DEFINE read == ReadOf(pool, picked)
<1>0. Len(pool) \in Nat /\ DOMAIN pool = 1..Len(pool)
  BY PoolIs
<1>1. PICK n \in 1..Len(pool) :
        /\ picked \in [1..n -> DOMAIN pool]
        /\ \A i, j \in 1..n : i < j => picked[i] < picked[j]
  BY DEF Readings
<1>2. n \in Nat /\ n <= Len(pool)
  BY <1>0, <1>1
<1>3. read = [i \in 1..n |-> pool[picked[i]]]
  BY <1>1 DEF ReadOf
<1>4. \A i \in 1..n : pool[picked[i]] \in Source
  BY <1>1, PoolIs
<1>5. read \in Seq(Source) /\ Len(read) = n /\ DOMAIN read = 1..n
      /\ \A i \in 1..n : read[i] = pool[picked[i]] /\ picked[i] \in DOMAIN pool
  BY <1>1, <1>2, <1>3, <1>4
<1>6. ASSUME Sound(pool) PROVE Sound(read)
  <2>1. Ascends(read)
    BY <1>1, <1>5, <1>6 DEF Sound, Ascends
  <2>2. ASSUME NEW i \in 1..n, NEW j \in 1..n, read[i][2] = read[j][2] PROVE i = j
    <3>1. picked[i] = picked[j] /\ picked[i] \in Int
      BY <1>0, <1>5, <1>6, <2>2 DEF Sound, Distinct
    <3>2. ~(i < j) /\ ~(j < i)
      BY <1>1, <3>1
    <3> QED BY <3>2, <1>2
  <2> QED BY <2>1, <2>2, <1>5 DEF Sound, Distinct
<1>7. ASSUME NEW before, Follows(before, pool) PROVE Follows(before, read)
  BY <1>5, <1>7 DEF Follows
<1> QED BY <1>2, <1>5, <1>6, <1>7

\* A new source gets a number above all of the pool's.
LEMMA NextNumberIs ==
    ASSUME NEW pool \in Seq(Source), Ascends(pool), pool # <<>>
    PROVE  NextNumber(pool) \in Nat \ {0} /\ \A i \in DOMAIN pool : pool[i][1] < NextNumber(pool)
<1> DEFINE last == pool[Len(pool)][1]
           most(n) == \A m \in Numbers(pool) : m <= n
<1>1. Len(pool) \in DOMAIN pool /\ last \in Nat /\ last \in Numbers(pool)
  BY PoolIs DEF Numbers
<1>2. \A i \in DOMAIN pool : pool[i][1] <= last /\ pool[i][1] \in Nat
  BY <1>1, PoolIs DEF Ascends
<1>3. most(last)
  BY <1>2 DEF Numbers
<1>4. PICK top \in Numbers(pool) : most(top) /\ NextNumber(pool) = 1 + top
  <2>1. \E n \in Numbers(pool) : most(n)
    BY <1>1, <1>3
  <2> QED BY <2>1 DEF NextNumber
<1>5. top \in Nat
  BY <1>2, <1>4 DEF Numbers
<1>6. \A i \in DOMAIN pool : pool[i][1] <= top
  BY <1>4 DEF Numbers
<1> QED BY <1>2, <1>4, <1>5, <1>6

\* Sources that follow a pool can be put after it.
LEMMA ConcatIs ==
    ASSUME NEW old \in Seq(Source), NEW new \in Seq(Source)
    PROVE  LET all == old \o new IN
           /\ all \in Seq(Source) /\ Len(all) = Len(old) + Len(new)
           /\ \A i \in 1..Len(old) : all[i] = old[i]
           /\ Sound(old) /\ Sound(new) /\ Follows(old, new) => Sound(all)
<1> DEFINE all == old \o new
           n == Len(all)
<1>0. Len(old) \in Nat /\ Len(new) \in Nat /\ DOMAIN old = 1..Len(old) /\ DOMAIN new = 1..Len(new)
  BY PoolIs
<1>1. /\ all \in Seq(Source) /\ n = Len(old) + Len(new)
      /\ \A i \in 1..n : all[i] = IF i <= Len(old) THEN old[i] ELSE new[i - Len(old)]
  BY <1>0, ConcatProperties
<1>2. n \in Nat /\ Len(old) <= n /\ DOMAIN all = 1..n
  BY <1>0, <1>1, PoolIs
<1> HIDE DEF all, n
<1>3. ASSUME Sound(old), Sound(new), Follows(old, new) PROVE Sound(all)
  <2>1. ASSUME NEW i \in 1..n, NEW j \in 1..n, i < j
        PROVE  all[i][1] < all[j][1] /\ all[i][2] # all[j][2]
    <3>1. CASE j <= Len(old)
      <4>1. i \in DOMAIN old /\ j \in DOMAIN old
        BY <3>1, <2>1, <1>0, <1>2
      <4>2. all[i] = old[i] /\ all[j] = old[j]
        BY <3>1, <2>1, <1>0, <1>1, <1>2
      <4>3. i # j
        BY <2>1, <1>2
      <4> QED BY <4>1, <4>2, <4>3, <2>1, <1>3 DEF Sound, Ascends, Distinct
    <3>2. CASE i <= Len(old) /\ j > Len(old)
      <4>1. i \in DOMAIN old /\ j - Len(old) \in DOMAIN new
        BY <3>2, <2>1, <1>0, <1>1, <1>2
      <4>2. all[i] = old[i] /\ all[j] = new[j - Len(old)]
        BY <3>2, <2>1, <1>0, <1>1, <1>2
      <4>3. \A h \in DOMAIN old, k \in DOMAIN new :
              old[h][1] < new[k][1] /\ old[h][2] # new[k][2]
        BY <1>3 DEF Follows
      <4>4. old[i][1] < new[j - Len(old)][1] /\ old[i][2] # new[j - Len(old)][2]
        BY <4>1, <4>3
      <4> QED BY <4>2, <4>4
    <3>3. CASE i > Len(old)
      <4>1. i - Len(old) \in DOMAIN new /\ j - Len(old) \in DOMAIN new
            /\ i - Len(old) < j - Len(old)
        BY <3>3, <2>1, <1>0, <1>1, <1>2
      <4>2. all[i] = new[i - Len(old)] /\ all[j] = new[j - Len(old)]
        BY <3>3, <2>1, <1>0, <1>1, <1>2
      <4> QED BY <4>1, <4>2, <1>3 DEF Sound, Ascends, Distinct
    <3> QED BY <3>1, <3>2, <3>3, <2>1, <1>0, <1>2
  <2>2. Ascends(all)
    BY <2>1, <1>2 DEF Ascends
  <2>3. Distinct(all)
    <3> SUFFICES ASSUME NEW i \in 1..n, NEW j \in 1..n, all[i][2] = all[j][2], i # j
                 PROVE  FALSE
      BY <1>2 DEF Distinct
    <3>1. i < j \/ j < i
      BY <1>2
    <3> QED BY <3>1, <2>1
  <2> QED BY <2>2, <2>3 DEF Sound
<1>4. \A i \in 1..Len(old) : all[i] = old[i]
  BY <1>0, <1>1, <1>2
<1>5. all = old \o new /\ n = Len(all)
  BY DEF all, n
<1> QED BY <1>1, <1>3, <1>4, <1>5

\* The first sources of a pool are as sound as the pool.
LEMMA FirstOfIs ==
    ASSUME NEW pool \in Seq(Source), NEW most \in Nat
    PROVE  LET first == FirstOf(pool, most) IN
           /\ first \in Seq(Source)
           /\ Len(first) = IF Len(pool) < most THEN Len(pool) ELSE most
           /\ \A i \in 1..Len(first) : first[i] = pool[i]
           /\ Sound(pool) => Sound(first)
<1> DEFINE n == IF Len(pool) < most THEN Len(pool) ELSE most
           first == FirstOf(pool, most)
<1>1. Len(pool) \in Nat /\ DOMAIN pool = 1..Len(pool)
  BY PoolIs
<1>2. n \in Nat /\ n <= Len(pool)
  BY <1>1
<1>3. first = [i \in 1..n |-> pool[i]]
  BY DEF FirstOf
<1>4. \A i \in 1..n : pool[i] \in Source
  BY <1>1, <1>2, PoolIs
<1> HIDE DEF n, first
<1>5. first \in Seq(Source) /\ Len(first) = n /\ DOMAIN first = 1..n
      /\ \A i \in 1..n : first[i] = pool[i]
  BY <1>2, <1>3, <1>4
<1>6. \A i \in 1..n : i \in DOMAIN pool
  BY <1>1, <1>2
<1>7. Sound(pool) => Sound(first)
  BY <1>5, <1>6 DEF Sound, Ascends, Distinct
<1> QED BY <1>5, <1>7 DEF n, first

\* What is appended under the cap keeps what was there, or what of it the cap
\* allows.
LEMMA AppendedIs ==
    ASSUME NEW old \in Seq(Source), NEW new \in Seq(Source)
    PROVE  LET both == Appended(old, new) IN
           /\ both \in Seq(Source) /\ Len(both) <= PoolCap
           /\ Len(old) <= PoolCap => IsPrefix(old, both)
           /\ PoolCap < Len(old) => both = FirstOf(old, PoolCap)
           /\ Sound(old) /\ Sound(new) /\ Follows(old, new) => Sound(both)
<1> DEFINE all == old \o new
           both == Appended(old, new)
<1>1. /\ all \in Seq(Source) /\ Len(all) = Len(old) + Len(new)
      /\ \A i \in 1..Len(old) : all[i] = old[i]
      /\ Sound(old) /\ Sound(new) /\ Follows(old, new) => Sound(all)
  BY ConcatIs
<1>2. PoolCap \in Nat /\ both = FirstOf(all, PoolCap)
  BY Caps DEF Appended
<1> HIDE DEF all, both
<1>3. /\ both \in Seq(Source)
      /\ Len(both) = IF Len(all) < PoolCap THEN Len(all) ELSE PoolCap
      /\ \A i \in 1..Len(both) : both[i] = all[i]
      /\ Sound(all) => Sound(both)
  BY <1>1, <1>2, FirstOfIs
<1>4. Len(old) \in Nat /\ Len(new) \in Nat /\ DOMAIN old = 1..Len(old)
      /\ DOMAIN both = 1..Len(both)
  BY <1>3, PoolIs
<1>5. Len(both) <= PoolCap /\ Len(both) \in Nat
  BY <1>1, <1>2, <1>3, <1>4
<1>6. ASSUME Len(old) <= PoolCap PROVE IsPrefix(old, both)
  <2>1. Len(old) <= Len(both)
    BY <1>1, <1>2, <1>3, <1>4, <1>6
  <2>2. SubSeq(old, 1, Len(old)) = [i \in 1..Len(old) |-> old[i]]
    BY <1>4
  <2>3. SubSeq(both, 1, Len(old)) = [i \in 1..Len(old) |-> both[i]]
    BY <1>3, <1>4, <2>1
  <2>4. \A i \in 1..Len(old) : both[i] = old[i]
    BY <1>1, <1>3, <1>4, <1>5, <2>1
  <2> QED BY <2>1, <2>2, <2>3, <2>4 DEF IsPrefix
<1>7. ASSUME PoolCap < Len(old) PROVE both = FirstOf(old, PoolCap)
  <2>1. both = [i \in 1..PoolCap |-> all[i]]
    <3>1. ~(Len(all) < PoolCap)
      BY <1>1, <1>2, <1>4, <1>7
    <3> QED BY <1>2, <3>1 DEF FirstOf
  <2>2. FirstOf(old, PoolCap) = [i \in 1..PoolCap |-> old[i]]
    <3>1. ~(Len(old) < PoolCap)
      BY <1>2, <1>4, <1>7
    <3> QED BY <3>1 DEF FirstOf
  <2>3. \A i \in 1..PoolCap : all[i] = old[i]
    BY <1>1, <1>2, <1>4, <1>7
  <2> QED BY <2>1, <2>2, <2>3
<1> QED BY <1>1, <1>3, <1>5, <1>6, <1>7 DEF both

-----------------------------------------------------------------------------
(* Types.                                                                  *)

Stages == {"idle", "plan", "search", "read", "synth", "web", "refine",
           "supplement", "again", "followup"}
Runs == [key : Keys \cup {NoKey}, via : {"slash", "tool"}, cloud : BOOLEAN,
         pool : Seq(Source), new : Seq(Source)]
Rows == [pool : Seq(Source), age : 0..CacheTtl + 1]
FollowupSlots == [of : Keys, count : Nat, turns : Nat, idle : 0..SlotTtl + 1]

\* The type invariant, conjunct by conjunct.
LEMMA ResearchTypeIs ==
    ResearchType <=>
        /\ stage \in Stages
        /\ run \in Runs
        /\ llm \in {"chat", "research"}
        /\ rows \in [Keys -> Rows \cup {NoRow}]
        /\ newest \in Keys \cup {NoKey}
        /\ slot = NoSlot \/ slot \in FollowupSlots
        /\ calls \subseteq (1..Batch) \X Nat
BY DEF ResearchType, Stages, Runs, Rows, FollowupSlots

\* No run under way is one of the runs.
LEMMA NoRunType == NoRun \in Runs
BY DEF NoRun, Runs

\* At startup the cache is empty and no run is under way.
LEMMA ResearchTypeInit == ResearchInit => ResearchType
<1> SUFFICES ASSUME ResearchInit PROVE ResearchType
  OBVIOUS
<1>1. stage \in Stages /\ run \in Runs /\ llm \in {"chat", "research"}
      /\ newest \in Keys \cup {NoKey} /\ slot = NoSlot /\ calls \subseteq (1..Batch) \X Nat
  BY NoRunType DEF ResearchInit, Stages
<1>2. rows \in [Keys -> Rows \cup {NoRow}]
  BY DEF ResearchInit
<1> QED BY <1>1, <1>2, ResearchTypeIs

\* What a run that ends, and an answer that is kept, leave.
LEMMA EndType ==
    ASSUME End
    PROVE  stage' \in Stages /\ run' \in Runs /\ llm' \in {"chat", "research"}
BY NoRunType DEF End, Stages

\* A stored pool is a row of the cache.
LEMMA StoreType ==
    ASSUME ResearchType, NEW key \in Keys, NEW pool \in Seq(Source), Store(key, pool)
    PROVE  rows' \in [Keys -> Rows \cup {NoRow}] /\ newest' \in Keys
<1>1. [pool |-> pool, age |-> 0] \in Rows
  BY Caps DEF Rows
<1> QED BY <1>1, ResearchTypeIs DEF Store

\* A run that completes leaves rows and a follow-up slot of the right kind.
LEMMA CompleteType ==
    ASSUME ResearchType, run.key \in Keys, NEW pool \in Seq(Source),
           NEW captured \in BOOLEAN, NEW stored \in BOOLEAN,
           Complete(pool, captured, stored)
    PROVE  ResearchType'
<1>1. stage' \in Stages /\ run' \in Runs /\ llm' \in {"chat", "research"}
  BY EndType DEF Complete
<1>2. rows' \in [Keys -> Rows \cup {NoRow}] /\ newest' \in Keys \cup {NoKey}
  <2>1. CASE stored
    BY <2>1, StoreType DEF Complete
  <2>2. CASE ~stored
    BY <2>2, ResearchTypeIs DEF Complete
  <2> QED BY <2>1, <2>2
<1>3. slot' = NoSlot \/ slot' \in FollowupSlots
  <2>1. NewSlot(run.key, captured) = NoSlot \/ NewSlot(run.key, captured) \in FollowupSlots
    BY Caps DEF NewSlot, FollowupSlots
  <2> QED BY <2>1, ResearchTypeIs DEF Complete
<1>4. calls' \subseteq (1..Batch) \X Nat
  BY ResearchTypeIs DEF Complete
<1> QED BY <1>1, <1>2, <1>3, <1>4 DEF ResearchType, Stages, Runs, Rows, FollowupSlots

\* Where a run is, of what question, and what it has read so far.
Piped == {"plan", "search", "read", "synth", "refine", "supplement", "again"}
Pooled == {"read", "synth", "refine", "supplement", "again"}
LocalKeys == Questions \X {"local"}
WebKeys == Questions \X {"web"}

RunOK ==
    /\ stage \in Piped => run.key \in LocalKeys
    /\ stage = "web" => run.key \in WebKeys
    /\ stage \in Pooled => Sound(run.pool) /\ Fits(run.pool)
    /\ Refining => Sound(run.new) /\ Follows(run.pool, run.new)
    /\ Refining =>
        rows[run.key] \in Rows /\ rows[run.key].pool = run.pool /\ run.pool # <<>>

\* The cached answers of the local pipeline are sound.
RowsOK ==
    \A k \in LocalKeys :
        rows[k] # NoRow => Sound(rows[k].pool) /\ Fits(rows[k].pool)

\* The follow-ups awaited are within the cap of the batch, with what is paid.
SlotOK ==
    /\ stage # "followup" => calls = {}
    /\ stage = "followup" => slot \in FollowupSlots
    /\ IsFiniteSet(calls)
    /\ slot # NoSlot \/ stage = "followup" =>
        /\ slot.count + Cardinality(calls) <= MaxFollowups + Batch - 1
        /\ slot.turns <= slot.count + 1
        /\ \A c \in calls : c[2] <= slot.count + 1

ResearchInv == ResearchType /\ RunOK /\ RowsOK /\ SlotOK

\* The keys a run can have.
LEMMA KeysAre ==
    /\ LocalKeys \subseteq Keys /\ WebKeys \subseteq Keys /\ LocalKeys \cap WebKeys = {}
    /\ \A k \in Keys : k \in LocalKeys \/ k \in WebKeys
    /\ \A k \in LocalKeys : k = <<k[1], "local">>
    /\ \A q \in Questions : <<q, "local">> \in LocalKeys /\ <<q, "web">> \in WebKeys
BY DEF Keys, Modes, LocalKeys, WebKeys

\* The run under way has a key of the cache, and so has one on the web.
LEMMA KeyTyped == RunOK /\ stage \in Piped \cup {"web"} => run.key \in Keys
BY KeysAre DEF RunOK

-----------------------------------------------------------------------------
(* Every step keeps the types.                                             *)

\* A run begins with the model, the mode and the row of its question.
LEMMA BeginRunType ==
    ASSUME ResearchType, NEW q \in Questions, NEW asked \in Modes, NEW cloud \in BOOLEAN,
           NEW via \in {"slash", "tool"}, BeginRun(q, asked, cloud, via),
           llm' \in {"chat", "research"}
    PROVE  ResearchType'
<1>1. stage' \in Stages
  BY DEF BeginRun, Stages
<1>2. <<q, RunMode(asked, cloud)>> \in Keys
  BY DEF RunMode, Keys, Modes
<1>3. run' \in Runs
  BY <1>2, NoRunType DEF BeginRun, NoRun, Runs
<1> QED BY <1>1, <1>3 DEF BeginRun, ResearchType, Stages, Runs, Rows, FollowupSlots

\* A command or a tool call starts a run, a refine or a batch, or is refused.
LEMMA StartType ==
    ASSUME ResearchType, Start PROVE ResearchType'
<1>1. ASSUME NEW q \in Questions, NEW asked \in Modes, NEW cloud \in BOOLEAN,
             Ask(q, asked, cloud)
      PROVE  ResearchType'
  BY <1>1, BeginRunType DEF Ask
<1>2. ASSUME NEW q \in Questions, NEW asked \in Modes, NEW cloud \in BOOLEAN,
             AskByTool(q, asked, cloud)
      PROVE  ResearchType'
  <2>1. llm' \in {"chat", "research"}
    BY <1>2, ResearchTypeIs DEF AskByTool
  <2> QED BY <2>1, <1>2, BeginRunType DEF AskByTool
<1>3. CASE Refine
  <2>1. newest \in Keys /\ rows[newest] \in Rows
    BY <1>3, ResearchTypeIs DEF Refine, Fresh
  <2>2. rows[newest].pool \in Seq(Source)
    BY <2>1 DEF Rows
  <2>3. run' \in Runs
    BY <1>3, <2>1, <2>2, NoRunType DEF Refine, NoRun, Runs
  <2>4. stage' \in Stages
    BY <1>3 DEF Refine, Stages
  <2> QED BY <1>3, <2>3, <2>4 DEF Refine, ResearchType, Stages, Runs, Rows, FollowupSlots
<1>4. ASSUME NEW n \in 1..Batch, FollowUp(n) PROVE ResearchType'
  <2>1. slot \in FollowupSlots
    BY <1>4, ResearchTypeIs DEF FollowUp, MayFollowUp
  <2>2. slot.turns \in Nat /\ 1..n \subseteq 1..Batch
    BY <2>1, <1>4, Caps DEF FollowupSlots
  <2>3. calls' \subseteq (1..Batch) \X Nat
    BY <2>2, <1>4 DEF FollowUp
  <2>4. stage' \in Stages
    BY <1>4 DEF FollowUp, Stages
  <2> QED BY <1>4, <2>3, <2>4 DEF FollowUp, ResearchType, Stages, Runs, Rows, FollowupSlots
<1> QED BY <1>1, <1>2, <1>3, <1>4 DEF Start

\* A run that gets another pool, or other new sources, is still one.
LEMMA RunWith ==
    ASSUME ResearchType, NEW pool \in Seq(Source)
    PROVE  [run EXCEPT !.pool = pool] \in Runs /\ [run EXCEPT !.new = pool] \in Runs
BY ResearchTypeIs DEF Runs

\* What a search finds, numbered from a number on.
NumberedFrom(from, hits) == [i \in DOMAIN hits |-> <<from + i - 1, hits[i]>>]

\* Hits numbered from a number on are a sound pool of pages not below it.
LEMMA NumberedHits ==
    ASSUME NEW urls \in SUBSET Urls, NEW most \in Nat, NEW hits \in HitLists(urls, most),
           NEW from \in Nat \ {0}
    PROVE  LET found == NumberedFrom(from, hits) IN
           /\ found \in Seq(Source) /\ Len(found) <= most /\ Sound(found)
           /\ \A i \in DOMAIN found : from <= found[i][1] /\ found[i][2] \in urls
<1> DEFINE found == NumberedFrom(from, hits)
<1>1. PICK n \in 1..most : hits \in [1..n -> urls] /\ \A i, j \in 1..n : hits[i] = hits[j] => i = j
  BY HitsAre
<1>2. n \in Nat /\ n <= most
  BY <1>1
<1>3. found = [i \in 1..n |-> <<from + i - 1, hits[i]>>]
  BY <1>1 DEF NumberedFrom
<1> HIDE DEF found
<1>4. \A i \in 1..n : found[i][1] = from + i - 1 /\ found[i][2] = hits[i] /\ hits[i] \in urls
  BY <1>1, <1>3
<1>5. \A i \in 1..n : from + i - 1 \in Nat \ {0} /\ from <= from + i - 1
  BY <1>2
<1>6. \A i \in 1..n : <<from + i - 1, hits[i]>> \in Source
  BY <1>1, <1>5 DEF Source
<1>7. found \in Seq(Source) /\ Len(found) = n /\ DOMAIN found = 1..n
  BY <1>2, <1>3, <1>6
<1>8. Ascends(found)
  BY <1>2, <1>4, <1>7 DEF Ascends
<1>9. Distinct(found)
  BY <1>1, <1>4, <1>7 DEF Distinct
<1> QED BY <1>2, <1>4, <1>5, <1>7, <1>8, <1>9 DEF Sound, found

\* The hits of a run's one search are numbered from one.
LEMMA FoundIs ==
    ASSUME NEW hits \in HitLists(Urls, MaxFetches)
    PROVE  LET found == [i \in DOMAIN hits |-> <<i, hits[i]>>] IN
           found \in Seq(Source) /\ Len(found) <= MaxFetches /\ Sound(found)
<1>1. PICK n \in 1..MaxFetches : hits \in [1..n -> Urls]
  BY HitsAre, Caps
<1>2. \A i \in DOMAIN hits : 1 + i - 1 = i
  BY <1>1
<1>3. NumberedFrom(1, hits) = [i \in DOMAIN hits |-> <<i, hits[i]>>]
  BY <1>2 DEF NumberedFrom
<1>4. 1 \in Nat \ {0} /\ Urls \in SUBSET Urls /\ MaxFetches \in Nat
  BY Caps
<1>5. LET found == NumberedFrom(1, hits) IN
      found \in Seq(Source) /\ Len(found) <= MaxFetches /\ Sound(found)
  BY <1>4, NumberedHits
<1> QED BY <1>3, <1>5

\* The stages of a run, up to its last write, keep the types.
LEMMA RunStepType ==
    ASSUME ResearchType, RunOK, RunStep PROVE ResearchType'
<1> USE DEF ResearchType, Stages, Runs, Rows, FollowupSlots
<1>1. CASE Fail
  BY <1>1, EndType DEF Fail
<1>2. CASE Planned
  BY <1>2 DEF Planned
<1>3. ASSUME NEW hits \in HitLists(Urls, MaxFetches), Found(hits) PROVE ResearchType'
  <2>1. run' \in Runs
    BY <1>3, FoundIs, RunWith DEF Found
  <2> QED BY <1>3, <2>1 DEF Found
<1>4. ASSUME NEW picked \in Readings(run.pool), Read(picked) PROVE ResearchType'
  <2>1. run.pool \in Seq(Source)
    OBVIOUS
  <2>2. ReadOf(run.pool, picked) \in Seq(Source)
    BY <2>1, ReadOfIs
  <2>3. run' \in Runs
    BY <1>4, <2>2, RunWith DEF Read
  <2> QED BY <1>4, <2>3 DEF Read
<1>5. ASSUME NEW captured \in BOOLEAN, NEW stored \in BOOLEAN, Synthesized(captured, stored)
      PROVE  ResearchType'
  <2>1. run.key \in Keys
    BY <1>5, KeyTyped DEF Synthesized, Piped
  <2>2. run.pool \in Seq(Source)
    OBVIOUS
  <2> HIDE DEF ResearchType, Stages, Runs, Rows, FollowupSlots
  <2> QED BY <1>5, <2>1, <2>2, CompleteType DEF Synthesized
<1>6. ASSUME NEW pool \in WebPools, NEW stored \in BOOLEAN, WebAnswered(pool, stored)
      PROVE  ResearchType'
  <2>1. run.key \in Keys
    BY <1>6, KeyTyped DEF WebAnswered
  <2>2. pool \in Seq(Source)
    BY WebPoolsAssumption DEF Source
  <2> HIDE DEF ResearchType, Stages, Runs, Rows, FollowupSlots
  <2> QED BY <1>6, <2>1, <2>2, CompleteType DEF WebAnswered
<1> QED BY <1>1, <1>2, <1>3, <1>4, <1>5, <1>6 DEF RunStep

\* The sources a refine finds are numbered after the pool's and are not in it.
LEMMA GapIs ==
    ASSUME NEW pool \in Seq(Source), Ascends(pool), pool # <<>>,
           NEW hits \in HitLists(Urls \ UrlsOf(pool), MaxNew)
    PROVE  LET found == [i \in DOMAIN hits |-> <<NextNumber(pool) + i - 1, hits[i]>>] IN
           found \in Seq(Source) /\ Sound(found) /\ Follows(pool, found)
<1> DEFINE from == NextNumber(pool)
           found == NumberedFrom(from, hits)
<1>1. from \in Nat \ {0} /\ \A i \in DOMAIN pool : pool[i][1] < from
  BY NextNumberIs
<1>2. Urls \ UrlsOf(pool) \in SUBSET Urls /\ MaxNew \in Nat
  BY Caps
<1> HIDE DEF from
<1>3. /\ found \in Seq(Source) /\ Sound(found)
      /\ \A i \in DOMAIN found : from <= found[i][1] /\ found[i][2] \in Urls \ UrlsOf(pool)
  BY <1>1, <1>2, NumberedHits
<1> HIDE DEF found
<1>4. ASSUME NEW i \in DOMAIN pool, NEW j \in DOMAIN found
      PROVE  pool[i][1] < found[j][1] /\ pool[i][2] # found[j][2]
  <2>1. pool[i][1] \in Nat /\ found[j][1] \in Nat /\ from \in Nat
    BY <1>1, <1>3, PoolIs
  <2>2. pool[i][1] < from /\ from <= found[j][1]
    BY <1>1, <1>3
  <2>3. pool[i][2] \in UrlsOf(pool)
    BY DEF UrlsOf
  <2> QED BY <1>3, <2>1, <2>2, <2>3
<1> QED BY <1>3, <1>4 DEF Follows, found, from, NumberedFrom

\* What a refine works on, from the invariant.
LEMMA RefiningOn ==
    ASSUME ResearchType, RunOK, Refining
    PROVE  /\ run.pool \in Seq(Source) /\ run.new \in Seq(Source)
           /\ run.pool # <<>> /\ Sound(run.pool) /\ Fits(run.pool)
           /\ run.key \in LocalKeys /\ LocalRow = run.key
           /\ rows[run.key] \in Rows /\ rows[run.key].pool = run.pool
<1>1. stage \in Piped /\ stage \in Pooled
  BY DEF Refining, Piped, Pooled
<1>2. run \in Runs
  BY ResearchTypeIs
<1>3. run.pool \in Seq(Source) /\ run.new \in Seq(Source)
  BY <1>2 DEF Runs
<1>4. run.key \in LocalKeys
  BY <1>1 DEF RunOK
<1>5. LocalRow = run.key
  BY <1>4, KeysAre DEF LocalRow
<1> QED BY <1>1, <1>3, <1>4, <1>5 DEF RunOK

\* The stages of a refine keep the types.
LEMMA RefineStepType ==
    ASSUME ResearchType, RunOK, RefineStep PROVE ResearchType'
<1>1. ASSUME NEW hits \in HitLists(Urls \ UrlsOf(run.pool), MaxNew), Gap(hits)
      PROVE  ResearchType'
  <2>1. run.pool \in Seq(Source) /\ Ascends(run.pool) /\ run.pool # <<>>
    BY <1>1, RefiningOn DEF Gap, Refining, Sound
  <2>2. run' \in Runs
    BY <1>1, <2>1, GapIs, RunWith DEF Gap
  <2> QED BY <1>1, <2>2 DEF Gap, ResearchType, Stages, Runs, Rows, FollowupSlots
<1>2. ASSUME NEW picked \in Readings(run.new), Supplement(picked) PROVE ResearchType'
  <2>1. run.new \in Seq(Source)
    BY ResearchTypeIs DEF Runs
  <2>2. run' \in Runs
    BY <1>2, <2>1, ReadOfIs, RunWith DEF Supplement
  <2> QED BY <1>2, <2>2 DEF Supplement, ResearchType, Stages, Runs, Rows, FollowupSlots
<1>3. CASE RefinedFromCache
  BY <1>3, EndType DEF RefinedFromCache, ResearchType, Stages, Runs, Rows, FollowupSlots
<1>4. CASE RefinedAgain
  <2>1. Refining
    BY <1>4 DEF RefinedAgain, Refining
  <2>2. rows[LocalRow] \in Rows /\ LocalRow \in Keys /\ run.new \in Seq(Source)
        /\ rows[LocalRow].pool \in Seq(Source)
    BY <2>1, RefiningOn, KeysAre
  <2>3. Appended(rows[LocalRow].pool, run.new) \in Seq(Source)
    BY <2>2, AppendedIs
  <2>4. [rows[LocalRow] EXCEPT !.pool = Appended(rows[LocalRow].pool, run.new)] \in Rows
    BY <2>2, <2>3 DEF Rows
  <2>5. rows \in [Keys -> Rows \cup {NoRow}]
    BY ResearchTypeIs
  <2>6. rows' \in [Keys -> Rows \cup {NoRow}]
    BY <1>4, <2>2, <2>4, <2>5 DEF RefinedAgain
  <2> QED BY <1>4, <2>6, EndType DEF RefinedAgain, ResearchType, Stages, Runs, Rows, FollowupSlots
<1>5. CASE RefineCrashes
  BY <1>5, EndType DEF RefineCrashes, ResearchType, Stages, Runs, Rows, FollowupSlots
<1> QED BY <1>1, <1>2, <1>3, <1>4, <1>5 DEF RefineStep

\* A follow-up that is awaited, and the slot it works on.
LEMMA FollowupOn ==
    ASSUME ResearchType, SlotOK, NEW c \in calls
    PROVE  /\ stage = "followup" /\ slot \in FollowupSlots
           /\ c[2] \in Nat /\ slot.count \in Nat /\ slot.turns \in Nat
<1>1. stage = "followup" /\ slot \in FollowupSlots
  BY DEF SlotOK
<1>2. c \in (1..Batch) \X Nat
  BY ResearchTypeIs
<1> QED BY <1>1, <1>2 DEF FollowupSlots

\* A call of a batch that has returned is awaited no more.
LEMMA ReturnedType ==
    ASSUME ResearchType, NEW c, Returned(c)
    PROVE  stage' \in Stages /\ calls' \subseteq (1..Batch) \X Nat
BY DEF Returned, ResearchType, Stages

\* The calls of a batch, in whatever order they return, keep the types.
LEMMA FollowupStepType ==
    ASSUME ResearchType, SlotOK, FollowupStep PROVE ResearchType'
<1>1. ASSUME NEW c \in calls, FollowedUp(c) PROVE ResearchType'
  <2>1. slot' \in FollowupSlots
    <3>1. slot \in FollowupSlots /\ c[2] + 1 \in Nat /\ slot.count + 1 \in Nat
      BY FollowupOn
    <3>2. slot' = [slot EXCEPT !.turns = c[2] + 1, !.count = slot.count + 1, !.idle = 0]
      BY <1>1 DEF FollowedUp
    <3>3. 0 \in 0..SlotTtl + 1
      BY Caps
    <3> QED BY <3>1, <3>2, <3>3 DEF FollowupSlots
  <2>2. stage' \in Stages /\ calls' \subseteq (1..Batch) \X Nat
    BY <1>1, ReturnedType DEF FollowedUp
  <2> QED BY <1>1, <2>1, <2>2 DEF FollowedUp, ResearchType, Stages, Runs, Rows, FollowupSlots
<1>2. ASSUME NEW c \in calls, FollowupFails(c) PROVE ResearchType'
  <2>2. stage' \in Stages /\ calls' \subseteq (1..Batch) \X Nat
    BY <1>2, ReturnedType DEF FollowupFails
  <2> QED BY <1>2, <2>2 DEF FollowupFails, ResearchType, Stages, Runs, Rows, FollowupSlots
<1> QED BY <1>1, <1>2 DEF FollowupStep

\* Time ages rows and slot and changes nothing else of them.
LEMMA TickIs ==
    ASSUME ResearchType, Tick
    PROVE  /\ \A k \in Keys :
                 /\ rows'[k] \in Rows \cup {NoRow}
                 /\ rows[k] = NoRow => rows'[k] = NoRow
                 /\ rows[k] # NoRow =>
                      rows[k] \in Rows /\ rows'[k] \in Rows /\ rows'[k].pool = rows[k].pool
           /\ rows' \in [Keys -> Rows \cup {NoRow}]
           /\ slot = NoSlot => slot' = NoSlot
           /\ slot # NoSlot =>
                /\ slot \in FollowupSlots /\ slot' \in FollowupSlots
                /\ slot'.count = slot.count /\ slot'.turns = slot.turns
<1>1. \A most \in Nat : \A age \in 0..most : Older(age, most) \in 0..most
  <2> SUFFICES ASSUME NEW most \in Nat, NEW age \in 0..most PROVE Older(age, most) \in 0..most
    OBVIOUS
  <2>1. age \in Nat
    OBVIOUS
  <2>2. CASE age < most
    BY <2>1, <2>2 DEF Older
  <2>3. CASE ~(age < most)
    BY <2>3 DEF Older
  <2> QED BY <2>2, <2>3
<1>2. ASSUME NEW k \in Keys, rows[k] # NoRow
      PROVE  rows[k] \in Rows /\ rows'[k] \in Rows /\ rows'[k].pool = rows[k].pool
  <2>1. rows[k] \in Rows
    BY <1>2, ResearchTypeIs
  <2>2. rows'[k] = [rows[k] EXCEPT !.age = Older(rows[k].age, CacheTtl + 1)]
    BY <1>2 DEF Tick
  <2>3. Older(rows[k].age, CacheTtl + 1) \in 0..CacheTtl + 1
    <3>1. CacheTtl + 1 \in Nat /\ rows[k].age \in 0..CacheTtl + 1
      BY <2>1, Caps DEF Rows
    <3> QED BY <1>1, <3>1
  <2> QED BY <2>1, <2>2, <2>3 DEF Rows
<1>3. \A k \in Keys : rows[k] = NoRow => rows'[k] = NoRow
  BY DEF Tick
<1>4. rows' \in [Keys -> Rows \cup {NoRow}]
  <2>1. \A k \in Keys : rows'[k] \in Rows \cup {NoRow}
    BY <1>2, <1>3
  <2>2. rows' = [k \in Keys |-> rows'[k]]
    BY DEF Tick
  <2> QED BY <2>1, <2>2
<1>5. ASSUME slot # NoSlot
      PROVE  /\ slot \in FollowupSlots /\ slot' \in FollowupSlots
             /\ slot'.count = slot.count /\ slot'.turns = slot.turns
  <2>1. slot \in FollowupSlots
    BY <1>5, ResearchTypeIs
  <2>2. slot' = [slot EXCEPT !.idle = Older(slot.idle, SlotTtl + 1)]
    BY <1>5 DEF Tick
  <2>3. Older(slot.idle, SlotTtl + 1) \in 0..SlotTtl + 1
    BY <1>1, <2>1, Caps DEF FollowupSlots
  <2> QED BY <2>1, <2>2, <2>3 DEF FollowupSlots
<1>6. slot = NoSlot => slot' = NoSlot
  BY DEF Tick
<1> QED BY <1>2, <1>3, <1>4, <1>5, <1>6

\* Every step keeps the types.
LEMMA ResearchTypeStep ==
    ResearchType /\ RunOK /\ SlotOK /\ [ResearchNext]_researchVars => ResearchType'
<1> SUFFICES ASSUME ResearchType, RunOK, SlotOK, [ResearchNext]_researchVars
             PROVE  ResearchType'
  OBVIOUS
<1>1. CASE Expired
  BY <1>1 DEF Expired, ResearchType
<1>2. CASE Tick
  BY <1>2, TickIs DEF Tick, ResearchType, Rows, FollowupSlots
<1>3. CASE Restart
  BY <1>3, EndType DEF Restart, ResearchType, Stages, Runs
<1>4. CASE UNCHANGED researchVars
  BY <1>4 DEF ResearchType
<1> QED BY <1>1, <1>2, <1>3, <1>4, StartType, RunStepType, RefineStepType, FollowupStepType
        DEF ResearchNext

-----------------------------------------------------------------------------
(* Every step keeps what a run works on.                                   *)

\* Away from the pipeline nothing is asked of the run.
LEMMA RestKeepsRun ==
    ASSUME stage' \in {"idle", "search", "followup"},
           stage' = "search" => stage \in Piped /\ run' = run,
           RunOK
    PROVE  RunOK'
BY DEF RunOK, Piped, Pooled, Refining

\* A step that leaves the run and the row it refines alone keeps what holds of it.
LEMMA SameKeepsRun ==
    ASSUME RunOK, stage' = stage, run' = run,
           Refining => rows'[run.key] \in Rows /\ rows'[run.key].pool = rows[run.key].pool
    PROVE  RunOK'
BY DEF RunOK, Refining

\* A refine starts from a row that is sound, any other run from nothing.
LEMMA StartRun ==
    ASSUME ResearchType, RunOK, RowsOK, Start PROVE RunOK'
<1>1. ASSUME NEW q \in Questions, NEW asked \in Modes, NEW cloud \in BOOLEAN,
             NEW via, BeginRun(q, asked, cloud, via)
      PROVE  RunOK'
  <2>1. run'.key = <<q, RunMode(asked, cloud)>>
    BY <1>1 DEF BeginRun, NoRun
  <2>2. CASE RunMode(asked, cloud) = "web"
    <3>1. stage' = "web" /\ run'.key \in WebKeys
      BY <1>1, <2>1, <2>2, KeysAre DEF BeginRun
    <3> QED BY <3>1 DEF RunOK, Piped, Pooled, Refining
  <2>3. CASE RunMode(asked, cloud) # "web"
    <3>1. RunMode(asked, cloud) = "local"
      BY <2>3 DEF RunMode, Modes
    <3>2. stage' = "plan" /\ run'.key \in LocalKeys
      BY <1>1, <2>1, <2>3, <3>1, KeysAre DEF BeginRun
    <3> QED BY <3>2 DEF RunOK, Piped, Pooled, Refining
  <2> QED BY <2>2, <2>3
<1>2. CASE Refine
  <2>1. newest \in Keys /\ rows[newest] \in Rows /\ rows[newest] # NoRow
    BY <1>2, ResearchTypeIs DEF Refine, Fresh
  <2>2. newest \in LocalKeys
    <3>1. newest \notin WebKeys
      BY <1>2 DEF Refine, HasExcerpts, WebKeys
    <3> QED BY <3>1, <2>1, KeysAre
  <2>3. run'.key = newest /\ run'.pool = rows[newest].pool /\ stage' = "refine" /\ rows' = rows
    BY <1>2 DEF Refine, NoRun
  <2>4. Sound(rows[newest].pool) /\ Fits(rows[newest].pool)
        /\ rows[newest].pool # <<>>
    BY <1>2, <2>1, <2>2 DEF RowsOK, Refine
  <2>5. run'.new = <<>> /\ Sound(run'.new) /\ Follows(run'.pool, run'.new)
    BY <1>2 DEF Refine, NoRun, Sound, Ascends, Distinct, Follows
  <2> QED BY <2>1, <2>2, <2>3, <2>4, <2>5 DEF RunOK, Piped, Pooled, Refining
<1>3. ASSUME NEW n \in 1..Batch, FollowUp(n) PROVE RunOK'
  BY <1>3, RestKeepsRun DEF FollowUp
<1> QED BY <1>1, <1>2, <1>3 DEF Start, Ask, AskByTool

\* What a run has found is numbered one to one at each of its stages.
LEMMA RunStepRun ==
    ASSUME ResearchType, RunOK, RunStep PROVE RunOK'
<1>1. CASE End
  BY <1>1, RestKeepsRun DEF End
<1>2. CASE Planned
  BY <1>2, RestKeepsRun DEF Planned, Piped
<1>3. ASSUME NEW hits \in HitLists(Urls, MaxFetches), Found(hits) PROVE RunOK'
  <2>1. run \in Runs /\ run.key \in LocalKeys /\ stage' = "read"
    BY <1>3, ResearchTypeIs DEF Found, RunOK, Piped
  <2>2. run'.key = run.key /\ run'.pool = [i \in DOMAIN hits |-> <<i, hits[i]>>]
    BY <1>3, <2>1 DEF Found, Runs
  <2>3. run'.pool \in Seq(Source) /\ Len(run'.pool) <= MaxFetches /\ Sound(run'.pool)
    BY <2>2, FoundIs
  <2>4. Fits(run'.pool)
    BY <2>3 DEF Fits
  <2> QED BY <2>1, <2>2, <2>3, <2>4 DEF RunOK, Piped, Pooled, Refining
<1>4. ASSUME NEW picked \in Readings(run.pool), Read(picked) PROVE RunOK'
  <2>1. run \in Runs /\ run.key \in LocalKeys /\ stage' = "synth"
        /\ Sound(run.pool) /\ Fits(run.pool)
    BY <1>4, ResearchTypeIs DEF Read, RunOK, Piped, Pooled
  <2>2. run'.key = run.key /\ run'.pool = ReadOf(run.pool, picked)
    BY <1>4, <2>1 DEF Read, Runs
  <2>3. run.pool \in Seq(Source)
    BY <2>1 DEF Runs
  <2>4. run'.pool \in Seq(Source) /\ Len(run'.pool) <= Len(run.pool) /\ Sound(run'.pool)
    BY <2>1, <2>2, <2>3, ReadOfIs
  <2>5. Fits(run'.pool)
    <3>1. Len(run'.pool) \in Nat /\ Len(run.pool) \in Nat
      BY <2>3, <2>4
    <3> QED BY <2>1, <2>4, <3>1, Caps DEF Fits
  <2> QED BY <2>1, <2>2, <2>4, <2>5 DEF RunOK, Piped, Pooled, Refining
<1> QED BY <1>1, <1>2, <1>3, <1>4 DEF RunStep, Fail, Synthesized, WebAnswered, Complete

\* What a refine has found comes after the pool it answers from.
LEMMA RefineStepRun ==
    ASSUME ResearchType, RunOK, RefineStep PROVE RunOK'
<1>1. ASSUME NEW hits \in HitLists(Urls \ UrlsOf(run.pool), MaxNew), Gap(hits) PROVE RunOK'
  <2>1. Refining
    BY <1>1 DEF Gap, Refining
  <2>2. run \in Runs /\ stage' = "supplement" /\ rows' = rows
    BY <1>1, ResearchTypeIs DEF Gap
  <2>3. /\ run'.key = run.key /\ run'.pool = run.pool
        /\ run'.new = [i \in DOMAIN hits |-> <<NextNumber(run.pool) + i - 1, hits[i]>>]
    BY <1>1, <2>2 DEF Gap, Runs
  <2>4. Sound(run'.new) /\ Follows(run.pool, run'.new)
    BY <2>1, <2>3, RefiningOn, GapIs DEF Sound
  <2> QED BY <2>1, <2>2, <2>3, <2>4, RefiningOn DEF RunOK, Piped, Pooled, Refining
<1>2. ASSUME NEW picked \in Readings(run.new), Supplement(picked) PROVE RunOK'
  <2>1. Refining /\ Sound(run.new) /\ Follows(run.pool, run.new)
    BY <1>2 DEF Supplement, Refining, RunOK
  <2>2. run \in Runs /\ stage' = "again" /\ rows' = rows
    BY <1>2, ResearchTypeIs DEF Supplement
  <2>3. run'.key = run.key /\ run'.pool = run.pool /\ run'.new = ReadOf(run.new, picked)
    BY <1>2, <2>2 DEF Supplement, Runs
  <2>4. Sound(run'.new) /\ Follows(run.pool, run'.new)
    BY <2>1, <2>3, RefiningOn, ReadOfIs
  <2> QED BY <2>1, <2>2, <2>3, <2>4, RefiningOn DEF RunOK, Piped, Pooled, Refining
<1>3. CASE End
  BY <1>3, RestKeepsRun DEF End
<1> QED BY <1>1, <1>2, <1>3 DEF RefineStep, RefinedFromCache, RefinedAgain, RefineCrashes

\* Every step keeps what holds of the run under way.
LEMMA RunOKStep ==
    ASSUME ResearchInv, [ResearchNext]_researchVars PROVE RunOK'
<1> USE DEF ResearchInv
<1>1. CASE FollowupStep
  <2>1. PICK c \in calls : FollowedUp(c) \/ FollowupFails(c)
    BY <1>1 DEF FollowupStep
  <2>2. stage' \in {"idle", "followup"}
    BY <2>1, FollowupOn DEF FollowedUp, FollowupFails, Returned
  <2> QED BY <2>2, RestKeepsRun
<1>2. CASE Expired \/ UNCHANGED researchVars
  <2>1. stage' = stage /\ run' = run /\ rows' = rows
    BY <1>2 DEF Expired
  <2>2. Refining => rows'[run.key] \in Rows /\ rows'[run.key].pool = rows[run.key].pool
    BY <2>1, RefiningOn
  <2> QED BY <2>1, <2>2, SameKeepsRun
<1>3. CASE Tick
  <2>1. stage' = stage /\ run' = run
    BY <1>3 DEF Tick
  <2>2. ASSUME Refining
        PROVE  rows'[run.key] \in Rows /\ rows'[run.key].pool = rows[run.key].pool
    <3>1. run.key \in Keys /\ rows[run.key] \in Rows
      BY <2>2, RefiningOn, KeysAre
    <3>2. CASE rows[run.key] = NoRow
      BY <1>3, <3>1, <3>2, TickIs
    <3>3. CASE rows[run.key] # NoRow
      BY <1>3, <3>1, <3>3, TickIs
    <3> QED BY <3>2, <3>3
  <2> QED BY <2>1, <2>2, SameKeepsRun
<1>4. CASE Restart
  BY <1>4, RestKeepsRun DEF Restart, End
<1> QED BY <1>1, <1>2, <1>3, <1>4, StartRun, RunStepRun, RefineStepRun DEF ResearchNext

-----------------------------------------------------------------------------
(* Every step keeps the cached answers sound.                              *)

\* A run that completes with a sound pool leaves sound rows.
LEMMA CompleteRows ==
    ASSUME ResearchType, RowsOK, NEW pool, NEW captured, NEW stored \in BOOLEAN,
           Complete(pool, captured, stored), run.key \in Keys,
           run.key \in LocalKeys => Sound(pool) /\ Fits(pool)
    PROVE  RowsOK'
<1>1. rows \in [Keys -> Rows \cup {NoRow}]
  BY ResearchTypeIs
<1>2. CASE stored
  <2>1. rows' = [rows EXCEPT ![run.key] = [pool |-> pool, age |-> 0]]
    BY <1>2 DEF Complete, Store
  <2>2. ASSUME NEW k \in LocalKeys, rows'[k] # NoRow
        PROVE  Sound(rows'[k].pool) /\ Fits(rows'[k].pool)
    <3>1. CASE k = run.key
      BY <3>1, <2>1, <1>1
    <3>2. CASE k # run.key
      <4>1. rows'[k] = rows[k]
        BY <3>2, <2>1, <1>1, KeysAre
      <4> QED BY <4>1, <2>2 DEF RowsOK
    <3> QED BY <3>1, <3>2
  <2> QED BY <2>2 DEF RowsOK
<1>3. CASE ~stored
  BY <1>3 DEF Complete, RowsOK
<1> QED BY <1>2, <1>3

\* What a refine writes: the row of its key, which keeps all it had, or what of
\* it the cap allows.
LEMMA RefinedAgainIs ==
    ASSUME ResearchType, RunOK, RefinedAgain
    PROVE  /\ \A k \in Keys : k # run.key => rows'[k] = rows[k]
           /\ rows[run.key] # NoRow =>
                /\ \/ IsPrefix(rows[run.key].pool, rows'[run.key].pool)
                   \/ CutToCap(run.key)
                /\ Sound(rows'[run.key].pool) /\ Fits(rows'[run.key].pool)
           /\ rows[run.key] = NoRow => rows' = rows
<1>1. Refining /\ Sound(run.new) /\ Follows(run.pool, run.new)
  BY DEF RefinedAgain, Refining, RunOK
<1>2. /\ run.pool \in Seq(Source) /\ run.new \in Seq(Source)
      /\ Sound(run.pool) /\ Fits(run.pool)
      /\ run.key \in Keys /\ LocalRow = run.key
      /\ rows[run.key] \in Rows /\ rows[run.key].pool = run.pool
  BY <1>1, RefiningOn, KeysAre
<1>3. rows \in [Keys -> Rows \cup {NoRow}]
  BY ResearchTypeIs
<1>4. CASE rows[run.key] = NoRow
  BY <1>4, <1>2 DEF RefinedAgain
<1>5. CASE rows[run.key] # NoRow
  <2>1. rows' = [rows EXCEPT ![run.key] =
                    [rows[run.key] EXCEPT !.pool = Appended(run.pool, run.new)]]
    BY <1>5, <1>2 DEF RefinedAgain
  <2>2. rows'[run.key] = [rows[run.key] EXCEPT !.pool = Appended(run.pool, run.new)]
    BY <2>1, <1>2, <1>3
  <2>3. rows'[run.key].pool = Appended(run.pool, run.new)
    BY <2>2, <1>2 DEF Rows
  <2>4. \A k \in Keys : k # run.key => rows'[k] = rows[k]
    BY <2>1, <1>3
  <2>5. /\ Len(run.pool) <= PoolCap => IsPrefix(run.pool, Appended(run.pool, run.new))
        /\ PoolCap < Len(run.pool) => Appended(run.pool, run.new) = FirstOf(run.pool, PoolCap)
        /\ Sound(Appended(run.pool, run.new)) /\ Fits(Appended(run.pool, run.new))
    BY <1>1, <1>2, AppendedIs DEF Fits
  <2>6. Len(run.pool) <= PoolCap \/ PoolCap < Len(run.pool)
    BY <1>2, Caps, PoolIs
  <2>7. \/ IsPrefix(rows[run.key].pool, rows'[run.key].pool)
        \/ CutToCap(run.key)
    BY <1>2, <2>3, <2>5, <2>6 DEF CutToCap
  <2> QED BY <1>2, <1>5, <2>3, <2>4, <2>5, <2>7
<1> QED BY <1>4, <1>5

\* Whatever else moves, the rows move in these steps only.
LEMMA RowsMove ==
    ASSUME [ResearchNext]_researchVars
    PROVE  \/ rows' = rows
           \/ RefinedAgain
           \/ Tick
           \/ \E captured \in BOOLEAN, stored \in BOOLEAN : Synthesized(captured, stored)
           \/ \E pool \in WebPools, stored \in BOOLEAN : WebAnswered(pool, stored)
<1>1. CASE Start
  BY <1>1 DEF Start, Ask, AskByTool, BeginRun, Refine, FollowUp
<1>2. CASE RunStep
  BY <1>2 DEF RunStep, Fail, Planned, Found, Read
<1>3. CASE RefineStep
  BY <1>3 DEF RefineStep, Gap, Supplement, RefinedFromCache, RefineCrashes
<1>4. CASE FollowupStep \/ Expired \/ Restart \/ UNCHANGED researchVars
  BY <1>4 DEF FollowupStep, FollowedUp, FollowupFails, Expired, Restart
<1> QED BY <1>1, <1>2, <1>3, <1>4 DEF ResearchNext

\* Every step keeps the local rows sound.
LEMMA RowsOKStep ==
    ASSUME ResearchInv, [ResearchNext]_researchVars PROVE RowsOK'
<1> USE DEF ResearchInv
<1>1. CASE rows' = rows
  BY <1>1 DEF RowsOK
<1>2. CASE RefinedAgain
  <2>1. ASSUME NEW k \in LocalKeys, rows'[k] # NoRow
        PROVE  Sound(rows'[k].pool) /\ Fits(rows'[k].pool)
    <3>1. CASE k # run.key
      BY <1>2, <2>1, <3>1, RefinedAgainIs, KeysAre DEF RowsOK
    <3>2. CASE k = run.key /\ rows[k] # NoRow
      BY <1>2, <3>2, RefinedAgainIs
    <3>3. CASE k = run.key /\ rows[k] = NoRow
      BY <1>2, <2>1, <3>3, RefinedAgainIs DEF RowsOK
    <3> QED BY <3>1, <3>2, <3>3
  <2> QED BY <2>1 DEF RowsOK
<1>3. CASE Tick
  <2>1. ASSUME NEW k \in LocalKeys, rows'[k] # NoRow
        PROVE  Sound(rows'[k].pool) /\ Fits(rows'[k].pool)
    <3>1. k \in Keys /\ rows[k] # NoRow /\ rows'[k].pool = rows[k].pool
      BY <1>3, <2>1, TickIs, KeysAre
    <3> QED BY <3>1 DEF RowsOK
  <2> QED BY <2>1 DEF RowsOK
<1>4. ASSUME NEW captured \in BOOLEAN, NEW stored \in BOOLEAN, Synthesized(captured, stored)
      PROVE  RowsOK'
  <2>1. run.key \in Keys /\ Sound(run.pool) /\ Fits(run.pool)
    BY <1>4, KeyTyped DEF Synthesized, RunOK, Piped, Pooled
  <2> QED BY <1>4, <2>1, CompleteRows DEF Synthesized
<1>5. ASSUME NEW pool \in WebPools, NEW stored \in BOOLEAN, WebAnswered(pool, stored)
      PROVE  RowsOK'
  <2>1. run.key \in Keys /\ run.key \notin LocalKeys
    BY <1>5, KeysAre DEF WebAnswered, RunOK
  <2> QED BY <1>5, <2>1, CompleteRows DEF WebAnswered
<1> QED BY <1>1, <1>2, <1>3, <1>4, <1>5, RowsMove

-----------------------------------------------------------------------------
(* Every step keeps the follow-ups within the cap.                         *)

\* A batch of calls, all sent the same turns.
LEMMA BatchIs ==
    ASSUME NEW n \in 1..Batch, NEW turns
    PROVE  LET batch == {<<i, turns>> : i \in 1..n} IN
           IsFiniteSet(batch) /\ Cardinality(batch) \in Nat /\ Cardinality(batch) <= Batch
<1> DEFINE batch == {<<i, turns>> : i \in 1..n}
           call == [i \in 1..n |-> <<i, turns>>]
<1>1. n \in Nat /\ n <= Batch /\ Batch \in Nat
  BY Caps
<1>2. IsFiniteSet(1..n) /\ Cardinality(1..n) = n
  BY <1>1, FS_Interval
<1>3. call \in Surjection(1..n, batch)
  BY DEF Surjection
<1> HIDE DEF batch, call
<1>4. IsFiniteSet(batch) /\ Cardinality(batch) <= Cardinality(1..n)
  BY <1>2, <1>3, FS_Surjection
<1>5. Cardinality(batch) \in Nat
  BY <1>4, FS_CardinalityType
<1> QED BY <1>1, <1>2, <1>4, <1>5 DEF batch

\* While no follow-up is awaited, the slot may stay, go, or be a new one.
LEMMA QuietSlot ==
    ASSUME ResearchType, SlotOK, stage # "followup", stage' # "followup", calls' = calls,
           \/ slot' \in {slot, NoSlot}
           \/ \E key, captured : slot' = NewSlot(key, captured)
    PROVE  SlotOK'
<1>1. calls = {} /\ IsFiniteSet({}) /\ Cardinality({}) = 0
  BY FS_EmptySet DEF SlotOK
<1>2. CASE slot' \in {slot, NoSlot}
  BY <1>1, <1>2 DEF SlotOK
<1>3. ASSUME NEW key, NEW captured, slot' = NewSlot(key, captured) PROVE SlotOK'
  <2>1. slot' = NoSlot \/ slot' = [of |-> key, count |-> 0, turns |-> 1, idle |-> 0]
    BY <1>3 DEF NewSlot
  <2>2. slot' # NoSlot => slot'.count = 0 /\ slot'.turns = 1
    BY <2>1
  <2>3. 0 + 0 <= MaxFollowups + Batch - 1 /\ 1 <= 0 + 1
    BY Caps
  <2> QED BY <1>1, <2>2, <2>3 DEF SlotOK
<1> QED BY <1>2, <1>3

\* A batch is let in whole where the first of it is under the cap.
LEMMA FollowUpSlot ==
    ASSUME ResearchType, SlotOK, NEW n \in 1..Batch, FollowUp(n) PROVE SlotOK'
<1> DEFINE batch == {<<i, slot.turns>> : i \in 1..n}
<1>1. slot \in FollowupSlots /\ slot' = slot /\ stage' = "followup" /\ calls' = batch
  BY ResearchTypeIs DEF FollowUp, MayFollowUp
<1>2. slot.count \in Nat /\ slot.count < MaxFollowups /\ slot.turns <= slot.count + 1
  BY <1>1 DEF FollowUp, MayFollowUp, SlotOK, FollowupSlots
<1>3. IsFiniteSet(batch) /\ Cardinality(batch) \in Nat /\ Cardinality(batch) <= Batch
  BY BatchIs
<1>4. \A c \in batch : c[2] <= slot.count + 1
  BY <1>2
<1> HIDE DEF batch
<1>5. slot.count + Cardinality(batch) <= MaxFollowups + Batch - 1
  BY <1>2, <1>3, Caps
<1> QED BY <1>1, <1>2, <1>3, <1>4, <1>5 DEF SlotOK

\* A call paid for was awaited, so the two together do not grow.
LEMMA FollowupStepSlot ==
    ASSUME ResearchType, SlotOK, FollowupStep PROVE SlotOK'
<1>1. PICK c \in calls : FollowedUp(c) \/ FollowupFails(c)
  BY DEF FollowupStep
<1>2. /\ stage = "followup" /\ slot \in FollowupSlots
      /\ c[2] \in Nat /\ slot.count \in Nat /\ slot.turns \in Nat
  BY FollowupOn
<1>3. calls' = calls \ {c} /\ stage' = IF calls' = {} THEN "idle" ELSE stage
  BY <1>1 DEF FollowedUp, FollowupFails, Returned
<1>4. /\ IsFiniteSet(calls) /\ IsFiniteSet(calls')
      /\ Cardinality(calls) \in Nat /\ Cardinality(calls') = Cardinality(calls) - 1
  BY <1>3, FS_RemoveElement, FS_CardinalityType DEF SlotOK
<1>5. (stage' # "followup" => calls' = {}) /\ stage' \in {"idle", "followup"}
  BY <1>2, <1>3
<1>6. /\ slot.count + Cardinality(calls) <= MaxFollowups + Batch - 1
      /\ slot.turns <= slot.count + 1
      /\ \A d \in calls : d[2] <= slot.count + 1 /\ d[2] \in Nat
  <2>1. \A d \in calls : d[2] \in Nat
    BY FollowupOn
  <2> QED BY <1>2, <2>1 DEF SlotOK
<1>7. CASE FollowedUp(c)
  <2>1. /\ slot' \in FollowupSlots
        /\ slot'.count = slot.count + 1 /\ slot'.turns = c[2] + 1
    <3>1. slot' = [slot EXCEPT !.turns = c[2] + 1, !.count = slot.count + 1, !.idle = 0]
      BY <1>7 DEF FollowedUp
    <3>2. 0 \in 0..SlotTtl + 1 /\ c[2] + 1 \in Nat /\ slot.count + 1 \in Nat
      BY <1>2, Caps
    <3>3. slot' \in FollowupSlots
      BY <1>2, <3>1, <3>2 DEF FollowupSlots
    <3>4. slot'.count = slot.count + 1 /\ slot'.turns = c[2] + 1
      BY <1>2, <3>1 DEF FollowupSlots
    <3> QED BY <3>3, <3>4
  <2>2. slot'.count + Cardinality(calls') <= MaxFollowups + Batch - 1
    BY <1>2, <1>4, <1>6, <2>1, Caps
  <2>3. slot'.turns <= slot'.count + 1
    BY <1>2, <1>6, <2>1
  <2>4. \A d \in calls' : d[2] <= slot'.count + 1
    BY <1>2, <1>3, <1>6, <2>1
  <2> QED BY <1>4, <1>5, <2>1, <2>2, <2>3, <2>4 DEF SlotOK
<1>8. CASE FollowupFails(c)
  <2>1. slot' = slot
    BY <1>8 DEF FollowupFails
  <2>2. slot.count + Cardinality(calls') <= MaxFollowups + Batch - 1
    BY <1>2, <1>4, <1>6, Caps
  <2>3. \A d \in calls' : d[2] <= slot.count + 1
    BY <1>3, <1>6
  <2> QED BY <1>2, <1>4, <1>5, <1>6, <2>1, <2>2, <2>3 DEF SlotOK
<1> QED BY <1>1, <1>7, <1>8

\* Every step keeps the follow-ups paid and awaited within their bound.
LEMMA SlotOKStep ==
    ASSUME ResearchInv, [ResearchNext]_researchVars PROVE SlotOK'
<1> USE DEF ResearchInv
<1>1. CASE Start
  <2>1. ASSUME NEW n \in 1..Batch, FollowUp(n) PROVE SlotOK'
    BY <2>1, FollowUpSlot
  <2>2. CASE ~ \E n \in 1..Batch : FollowUp(n)
    <3>1. stage = "idle" /\ stage' \in {"plan", "web", "refine"}
          /\ calls' = calls /\ slot' = slot
      BY <1>1, <2>2 DEF Start, Ask, AskByTool, BeginRun, Refine, Idle
    <3> QED BY <3>1, QuietSlot
  <2> QED BY <2>1, <2>2
<1>2. CASE RunStep
  <2>1. stage # "followup" /\ stage' # "followup" /\ calls' = calls
    BY <1>2 DEF RunStep, Fail, Planned, Found, Read, Synthesized, WebAnswered, Complete, End
  <2>2. \/ slot' \in {slot, NoSlot}
        \/ \E key, captured : slot' = NewSlot(key, captured)
    BY <1>2 DEF RunStep, Fail, Planned, Found, Read, Synthesized, WebAnswered, Complete
  <2> QED BY <2>1, <2>2, QuietSlot
<1>3. CASE RefineStep
  <2>1. stage # "followup" /\ stage' # "followup" /\ calls' = calls /\ slot' = slot
    BY <1>3 DEF RefineStep, Gap, Supplement, RefinedFromCache, RefinedAgain, RefineCrashes, End
  <2> QED BY <2>1, QuietSlot
<1>4. CASE Expired
  BY <1>4, QuietSlot DEF Expired, Idle
<1>5. CASE Tick
  <2>1. stage' = stage /\ calls' = calls
    BY <1>5 DEF Tick
  <2>2. stage = "followup" => slot \in FollowupSlots /\ slot' \in FollowupSlots
    BY <1>5, TickIs DEF SlotOK
  <2>3. CASE slot = NoSlot
    BY <1>5, <2>1, <2>3, TickIs DEF SlotOK
  <2>4. CASE slot # NoSlot
    BY <1>5, <2>1, <2>2, <2>4, TickIs DEF SlotOK
  <2> QED BY <2>3, <2>4
<1>6. CASE Restart
  BY <1>6, FS_EmptySet DEF Restart, End, SlotOK
<1>7. CASE UNCHANGED researchVars
  BY <1>7 DEF SlotOK
<1> QED BY <1>1, <1>2, <1>3, <1>4, <1>5, <1>6, <1>7, FollowupStepSlot DEF ResearchNext

-----------------------------------------------------------------------------
(* The theorems.                                                           *)

\* The invariant holds of the empty cache.
LEMMA ResearchInvInit == ResearchInit => ResearchInv
<1> SUFFICES ASSUME ResearchInit PROVE ResearchInv
  OBVIOUS
<1>1. stage = "idle" /\ calls = {} /\ slot = NoSlot
  BY DEF ResearchInit
<1>2. RunOK
  BY <1>1 DEF RunOK, Piped, Pooled, Refining
<1>3. RowsOK
  BY KeysAre DEF RowsOK, ResearchInit
<1>4. SlotOK
  BY <1>1, FS_EmptySet DEF SlotOK
<1> QED BY <1>2, <1>3, <1>4, ResearchTypeInit DEF ResearchInv

\* Every step keeps the invariant.
LEMMA ResearchInvStep == ResearchInv /\ [ResearchNext]_researchVars => ResearchInv'
<1> SUFFICES ASSUME ResearchInv, [ResearchNext]_researchVars PROVE ResearchInv'
  OBVIOUS
<1>1. ResearchType'
  BY ResearchTypeStep DEF ResearchInv
<1>2. RunOK' /\ RowsOK' /\ SlotOK'
  BY RunOKStep, RowsOKStep, SlotOKStep
<1> QED BY <1>1, <1>2 DEF ResearchInv

\* So the invariant holds for ever.
LEMMA ResearchInvariant == ResearchSpec => []ResearchInv
BY ResearchInvInit, ResearchInvStep, PTL DEF ResearchSpec

\* A marker names one page at most, in the pool an answer is about to be made
\* from and in every pool /refine can read, for all pages, caps and numbers of
\* refines.
THEOREM MarkersOKThm == ResearchSpec => []MarkersOK
<1>1. ASSUME ResearchInv PROVE MarkersOK
  <2>1. ASSUME stage = "synth" PROVE Unambiguous(run.pool)
    <3>1. run.pool \in Seq(Source) /\ Sound(run.pool)
      BY <1>1, <2>1, ResearchTypeIs DEF ResearchInv, RunOK, Pooled, Runs
    <3> QED BY <3>1, SoundIsUnambiguous
  <2>2. ASSUME Refining PROVE Unambiguous(run.pool \o run.new)
    <3>1. /\ run.pool \in Seq(Source) /\ run.new \in Seq(Source)
          /\ Sound(run.pool) /\ Sound(run.new) /\ Follows(run.pool, run.new)
      BY <1>1, <2>2, RefiningOn DEF ResearchInv, RunOK
    <3>2. run.pool \o run.new \in Seq(Source) /\ Sound(run.pool \o run.new)
      BY <3>1, ConcatIs
    <3> QED BY <3>2, SoundIsUnambiguous
  <2>3. ASSUME NEW q \in Questions, rows[<<q, "local">>] # NoRow
        PROVE  LET pool == rows[<<q, "local">>].pool IN
               Unambiguous(pool) /\ (Len(pool) <= PoolCap \/ Len(pool) <= MaxFetches)
    <3> DEFINE k == <<q, "local">>
    <3>1. k \in LocalKeys /\ k \in Keys
      BY KeysAre
    <3>2. rows[k] \in Rows
      BY <1>1, <2>3, <3>1, ResearchTypeIs DEF ResearchInv
    <3>3. rows[k].pool \in Seq(Source)
      BY <3>2 DEF Rows
    <3>4. Sound(rows[k].pool) /\ Fits(rows[k].pool)
      BY <1>1, <2>3, <3>1 DEF ResearchInv, RowsOK
    <3> QED BY <3>3, <3>4, SoundIsUnambiguous DEF Fits
  <2> QED BY <1>1, <2>1, <2>2, <2>3 DEF ResearchInv, MarkersOK, MarkersAreUnambiguous
<1> QED BY <1>1, ResearchInvariant, PTL

\* Follow-ups overrun their cap by at most the rest of one batch, for every cap
\* and size of a batch.
THEOREM FollowupsBoundedThm == ResearchSpec => []FollowupsBounded
<1>1. ASSUME ResearchInv PROVE FollowupsBounded
  <2>1. ASSUME slot # NoSlot
        PROVE  slot.count <= MaxFollowups + Batch - 1 /\ slot.turns <= slot.count + 1
    <3>1. slot.count \in Nat
      BY <1>1, <2>1, ResearchTypeIs DEF ResearchInv, FollowupSlots
    <3>2. Cardinality(calls) \in Nat
      BY <1>1, FS_CardinalityType DEF ResearchInv, SlotOK
    <3>3. slot.count + Cardinality(calls) <= MaxFollowups + Batch - 1
          /\ slot.turns <= slot.count + 1
      BY <1>1, <2>1 DEF ResearchInv, SlotOK
    <3> QED BY <3>1, <3>2, <3>3, Caps
  <2> QED BY <2>1 DEF FollowupsBounded
<1> QED BY <1>1, ResearchInvariant, PTL

\* A step during a refine only extends the row the refine read, or cuts it.
LEMMA RefineExtends ==
    ASSUME ResearchInv, [ResearchNext]_researchVars, Refining,
           NEW k \in Keys, Repooled(k)
    PROVE  k = run.key /\ (Extended(k) \/ CutToCap(k))
<1> USE DEF ResearchInv
<1>1. rows' # rows /\ rows[k] # NoRow /\ rows'[k].pool # rows[k].pool
  BY DEF Repooled
<1>2. ~Tick
  BY <1>1, TickIs
<1>3. RefinedAgain
  BY <1>1, <1>2, RowsMove DEF Refining, Synthesized, WebAnswered
<1>4. k = run.key
  BY <1>1, <1>3, RefinedAgainIs
<1>5. IsPrefix(rows[k].pool, rows'[k].pool) \/ CutToCap(k)
  BY <1>1, <1>3, <1>4, RefinedAgainIs
<1> QED BY <1>1, <1>4, <1>5 DEF Extended, IsStrictPrefix

\* A refine adds to the pool it read, after what was there, or cuts what is
\* over the cap, and touches no other, for all caps and pools.
THEOREM RefineExtendsThm == ResearchSpec => RefineExtendsWhatItRead
<1>1. ResearchInv /\ [ResearchNext]_researchVars =>
        [Refining => \A k \in Keys :
            Repooled(k) => k = run.key /\ (Extended(k) \/ CutToCap(k))]_researchVars
  BY RefineExtends
<1> QED BY <1>1, ResearchInvariant, PTL DEF ResearchSpec, RefineExtendsWhatItRead
=============================================================================
