---------------------------- MODULE ServerChoice ----------------------------
(***************************************************************************)
(* Which server and which model answer: HttpBackend's connection           *)
(* (llm/http_backend.py), /server switch and /model (app.py), and the      *)
(* models remembered per server.                                           *)
(*                                                                         *)
(* Threads share the backend's attributes without a lock, and so a step    *)
(* here reads or writes one of them.  The commands run on the UI thread,   *)
(* and schedule tasks on the brain's loop: a setup, which connects, falls  *)
(* back to the local server, probes the context length and, after a        *)
(* switch, remembers the model; or a probe alone.  A task keeps the loop   *)
(* from one await to the next.  The agent and research swap the model on   *)
(* the loop; the fine-tuning of a voice swaps it on a thread of its own.   *)
(*                                                                         *)
(* Left out: what nothing reads (_primary_url, _using_fallback), and what  *)
(* only the next start reads (config.toml).                                *)
(***************************************************************************)
EXTENDS Integers, FiniteSets

CONSTANTS
    Servers,    \* the servers' canonical URLs
    Local,      \* the one the backend falls back to
    Models,
    Default,    \* [llm] model_name
    Pinned,     \* the servers with an entry in per_server_max_tokens
    Known,      \* the servers with an entry in per_server_models
    NoModel,    \* nothing remembered
    MaxTasks    \* bound: how many tasks are under way at once

ASSUME ServersAssumption ==
    Local \in Servers /\ Pinned \subseteq Servers /\ Known \subseteq Servers
ASSUME ModelsAssumption == Default \in Models /\ NoModel \notin Models
ASSUME MaxTasksAssumption == MaxTasks \in Nat \ {0}

VARIABLES
    url,        \* _api_url
    reachable,  \* _reachable
    model,      \* _model_name
    pinned,     \* _max_tokens_pinned
    cap,        \* _max_tokens: the default, the server's pin, or derived
    startup,    \* per_server_models as the backend got it at startup
    remembered, \* config.llm.per_server_models
    ui,         \* the command the UI thread runs, and how far it is
    tasks,      \* the tasks on the loop, and how far each is
    answered,   \* history: the server that answered last
    chosen,     \* history: the server the user asked for last
    exposed     \* history: when the pin was set, a write of the cap that had not
                \* seen it was due, or had just been done

linkVars == <<url, reachable, answered>>
capVars == <<pinned, cap, exposed>>
memoryVars == <<startup, remembered>>
vars == <<linkVars, model, capVars, memoryVars, ui, tasks, chosen>>

Slots == 1..MaxTasks
Memories == [Servers -> Models \cup {NoModel}]

\* Where a task awaits, and where it has the loop to itself.
Awaiting == {"begin", "connect", "fallback", "probe"}
Running == {"heard", "heardLocal", "list", "adopt", "derive", "remember", "key", "keep",
            "untest", "uncap"}
Tasks == [at : {"free"} \cup Awaiting \cup Running,
          does : {"setup", "switch", "probe", "swap", "voice"},
          to : Servers, model : Models \cup {NoModel}]
Free == [at |-> "free", does |-> "setup", to |-> Local, model |-> NoModel]

Commands == [at : {"idle", "unreach", "pins", "pin", "flag", "unflag", "default",
                   "recall", "compare", "model", "untest", "uncap", "entry", "pinAgain",
                   "flagAgain", "schedule"},
             does : {"switch", "model", "swap"},
             to : Servers, model : Models \cup {NoModel}]
NoCommand == [at |-> "idle", does |-> "swap", to |-> Local, model |-> NoModel]
AtRest == ui = NoCommand

Task(s) == tasks[s].at
Move(s, at) == tasks' = [tasks EXCEPT ![s].at = at]
Done(s) == tasks' = [tasks EXCEPT ![s] = Free]
Becomes(s, at, does) == tasks' = [tasks EXCEPT ![s] = [Free EXCEPT !.at = at, !.does = does]]

\* Only one task at a time has the loop; a voice's thread needs none.
LoopFree(s) ==
    \A t \in Slots \ {s} : Task(t) \in Running => tasks[t].does = "voice"

-----------------------------------------------------------------------------
(* The UI thread.                                                          *)

UiAt(at) == ui.at = at
Goto(at) == ui' = [ui EXCEPT !.at = at]
AfterSwap == CASE ui.does = "switch" -> Goto("entry")
               [] ui.does = "model"  -> Goto("schedule")
               [] OTHER              -> ui' = NoCommand

\* set_api_url begins; so does _cmd_server.
Switch(u) ==
    /\ AtRest
    /\ url' = u
    /\ chosen' = u
    /\ ui' = [at |-> "unreach", does |-> "switch", to |-> u, model |-> NoModel]
    /\ UNCHANGED <<reachable, answered, model, capVars, memoryVars, tasks>>

Unreach ==
    /\ UiAt("unreach")
    /\ reachable' = FALSE
    /\ Goto("pins")
    /\ UNCHANGED <<url, answered, model, capVars, memoryVars, tasks, chosen>>

\* Whether the URL, as it is by now, has a pin.
LookUpPin ==
    /\ UiAt("pins")
    /\ IF url \in Pinned THEN Goto("pin") ELSE Goto("unflag")
    /\ UNCHANGED <<linkVars, model, capVars, memoryVars, tasks, chosen>>

\* set_api_url and set_max_tokens set the cap, and then the flag.
PinCap ==
    /\ UiAt("pin") \/ UiAt("pinAgain")
    /\ cap' = "pin"
    /\ Goto(IF UiAt("pin") THEN "flag" ELSE "flagAgain")
    /\ UNCHANGED <<linkVars, model, pinned, exposed, memoryVars, tasks, chosen>>

FlagPin ==
    /\ UiAt("flag") \/ UiAt("flagAgain")
    /\ pinned' = TRUE
    /\ exposed' = (cap # "pin" \/ \E s \in Slots : Task(s) \in {"derive", "uncap"})
    /\ Goto(IF UiAt("flag") THEN "recall" ELSE "schedule")
    /\ UNCHANGED <<linkVars, model, cap, memoryVars, tasks, chosen>>

Unflag ==
    /\ UiAt("unflag")
    /\ pinned' = FALSE
    /\ exposed' = FALSE
    /\ Goto("default")
    /\ UNCHANGED <<linkVars, model, cap, memoryVars, tasks, chosen>>

\* set_api_url's, or the end of set_model.
DefaultCap ==
    /\ UiAt("default") \/ UiAt("uncap")
    /\ cap' = "default"
    /\ IF UiAt("default") THEN Goto("recall") ELSE AfterSwap
    /\ UNCHANGED <<linkVars, model, pinned, exposed, memoryVars, tasks, chosen>>

\* The server's remembered model, if any and if another than the present one.
Recall ==
    /\ UiAt("recall")
    /\ ui' = [ui EXCEPT !.model = remembered[ui.to],
                        !.at = IF remembered[ui.to] = NoModel THEN "entry" ELSE "compare"]
    /\ UNCHANGED <<linkVars, model, capVars, memoryVars, tasks, chosen>>

Compare ==
    /\ UiAt("compare")
    /\ Goto(IF model = ui.model THEN "entry" ELSE "model")
    /\ UNCHANGED <<linkVars, model, capVars, memoryVars, tasks, chosen>>

\* set_model: the model, the test of the flag, and the cap.
SetModel ==
    /\ UiAt("model")
    /\ model' = ui.model
    /\ Goto("untest")
    /\ UNCHANGED <<linkVars, capVars, memoryVars, tasks, chosen>>

TestFlag ==
    /\ UiAt("untest")
    /\ IF pinned THEN AfterSwap ELSE Goto("uncap")
    /\ UNCHANGED <<linkVars, model, capVars, memoryVars, tasks, chosen>>

\* /model, and the voices' commands, begin with set_model.
Command(does, m) ==
    /\ AtRest
    /\ ui' = [NoCommand EXCEPT !.at = "model", !.does = does, !.model = m]
    /\ UNCHANGED <<linkVars, model, capVars, memoryVars, tasks, chosen>>

\* The pin of the server asked for, once more.
LookUpEntry ==
    /\ UiAt("entry")
    /\ Goto(IF ui.to \in Pinned THEN "pinAgain" ELSE "schedule")
    /\ UNCHANGED <<linkVars, model, capVars, memoryVars, tasks, chosen>>

\* _setup_then_remember, or refresh_capability.
ScheduleTask(s) ==
    /\ UiAt("schedule")
    /\ Task(s) = "free"
    /\ IF ui.does = "switch" THEN Becomes(s, "begin", "switch") ELSE Becomes(s, "probe", "probe")
    /\ ui' = NoCommand
    /\ UNCHANGED <<linkVars, model, capVars, memoryVars, chosen>>

-----------------------------------------------------------------------------
(* The tasks.                                                              *)

\* setup, after the old client is closed.  Its write of the status commutes
\* with the commands', which write the same.
SlipBegin(s) ==
    /\ Task(s) = "begin"
    /\ tasks' = [tasks EXCEPT ![s].at = "connect", ![s].to = url]
    /\ UNCHANGED <<linkVars, model, capVars, memoryVars, ui, chosen>>
Begin(s) ==
    /\ Task(s) = "begin"
    /\ reachable' = FALSE
    /\ tasks' = [tasks EXCEPT ![s].at = "connect", ![s].to = url]
    /\ UNCHANGED <<url, answered, model, capVars, memoryVars, ui, chosen>>

Probe(s) == Becomes(s, "probe", tasks[s].does)

\* _try_connect: the server answers.
Hears(s) ==
    /\ Task(s) \in {"connect", "fallback"}
    /\ url' = tasks[s].to
    /\ answered' = tasks[s].to
    /\ Move(s, IF Task(s) = "connect" THEN "heard" ELSE "heardLocal")
    /\ UNCHANGED <<reachable, model, capVars, memoryVars, ui, chosen>>

\* An answer that is not JSON raises.  The fallback adopts no model.
MarkReachable(s) ==
    /\ Task(s) \in {"heard", "heardLocal"}
    /\ reachable' = TRUE
    /\ \/ IF Task(s) = "heard" THEN Move(s, "list") ELSE Probe(s)
       \/ Done(s)
    /\ UNCHANGED <<url, answered, model, capVars, memoryVars, ui, chosen>>

\* A model the server does not list gives way to the first it lists, unless
\* one is remembered for the server.
CheckListed(s) ==
    /\ Task(s) = "list"
    /\ \E listed \in SUBSET Models :
        IF model \in listed \/ listed = {} \/ startup[tasks[s].to] # NoModel
        THEN Probe(s)
        ELSE \E first \in listed :
                tasks' = [tasks EXCEPT ![s].at = "adopt", ![s].model = first]
    /\ UNCHANGED <<linkVars, model, capVars, memoryVars, ui, chosen>>

Adopt(s) ==
    /\ Task(s) = "adopt"
    /\ model' = tasks[s].model
    /\ Probe(s)
    /\ UNCHANGED <<linkVars, capVars, memoryVars, ui, chosen>>

\* server.mode is auto: the local server is tried, if this was not it.  The
\* backend looks at its URL as it is now.
Refused(s) ==
    /\ Task(s) = "connect"
    /\ url # Local
    /\ tasks' = [tasks EXCEPT ![s].at = "fallback", ![s].to = Local]
    /\ UNCHANGED <<linkVars, model, capVars, memoryVars, ui, chosen>>

AfterSetup(s) ==
    IF tasks[s].does = "switch" THEN Becomes(s, "remember", "switch") ELSE Done(s)

\* Neither answers: the outcome is remembered all the same.
Unreachable(s) ==
    /\ \/ Task(s) = "connect" /\ url = Local
       \/ Task(s) = "fallback"
    /\ AfterSetup(s)
    /\ UNCHANGED <<linkVars, model, capVars, memoryVars, ui, chosen>>

\* Another setup closes the client under this one: not an error it expects.
Raises(s) ==
    /\ Task(s) \in Awaiting \ {"begin"}
    /\ \E t \in Slots \ {s} : Task(t) = "begin"
    /\ Done(s)
    /\ UNCHANGED <<linkVars, model, capVars, memoryVars, ui, chosen>>

\* _apply_auto_max_tokens: the test of the flag, and then the write.
SlipProbed(s) ==
    /\ Task(s) = "probe"
    /\ Move(s, "derive")
    /\ UNCHANGED <<linkVars, model, capVars, memoryVars, ui, chosen>>
Probed(s) ==
    /\ Task(s) = "probe"
    /\ IF pinned THEN AfterSetup(s) ELSE Move(s, "derive")
    /\ UNCHANGED <<linkVars, model, capVars, memoryVars, ui, chosen>>

Derive(s) ==
    /\ Task(s) = "derive"
    /\ cap' = "derived"
    /\ AfterSetup(s)
    /\ UNCHANGED <<linkVars, model, pinned, exposed, memoryVars, ui, chosen>>

ProbeFails(s) ==
    /\ Task(s) = "probe"
    /\ AfterSetup(s)
    /\ UNCHANGED <<linkVars, model, capVars, memoryVars, ui, chosen>>

\* _setup_then_remember: whatever model and server there are by now.
RememberedModel(s) ==
    /\ Task(s) = "remember"
    /\ tasks' = [tasks EXCEPT ![s].at = "key", ![s].model = model]
    /\ UNCHANGED <<linkVars, model, capVars, memoryVars, ui, chosen>>

RememberedServer(s) ==
    /\ Task(s) = "key"
    /\ tasks' = [tasks EXCEPT ![s].at = "keep", ![s].to = url]
    /\ UNCHANGED <<linkVars, model, capVars, memoryVars, ui, chosen>>

Remember(s) ==
    /\ Task(s) = "keep"
    /\ remembered' = [remembered EXCEPT ![tasks[s].to] = tasks[s].model]
    /\ Done(s)
    /\ UNCHANGED <<linkVars, model, capVars, startup, ui, chosen>>

\* set_model on the loop, or on a voice's thread.
Swap(s, does, m) ==
    /\ Task(s) = "free"
    /\ model' = m
    /\ Becomes(s, "untest", does)
    /\ UNCHANGED <<linkVars, capVars, memoryVars, ui, chosen>>

SwapTest(s) ==
    /\ Task(s) = "untest"
    /\ IF pinned THEN Done(s) ELSE Move(s, "uncap")
    /\ UNCHANGED <<linkVars, model, capVars, memoryVars, ui, chosen>>

SwapCap(s) ==
    /\ Task(s) = "uncap"
    /\ cap' = "default"
    /\ Done(s)
    /\ UNCHANGED <<linkVars, model, pinned, exposed, memoryVars, ui, chosen>>

-----------------------------------------------------------------------------

\* The app starts with some server, and the brain sets the backend up.
Init ==
    /\ url \in Servers
    /\ reachable = FALSE
    /\ answered = url
    /\ chosen = url
    /\ startup \in {m \in Memories : \A u \in Servers : m[u] = NoModel <=> u \notin Known}
    /\ remembered = startup
    /\ model = IF startup[url] = NoModel THEN Default ELSE startup[url]
    /\ pinned = (url \in Pinned)
    /\ cap = IF url \in Pinned THEN "pin" ELSE "default"
    /\ exposed = FALSE
    /\ ui = NoCommand
    /\ tasks = [s \in Slots |-> IF s = 1 THEN [Free EXCEPT !.at = "begin"] ELSE Free]

UiStep ==
    \/ \E u \in Servers : Switch(u)
    \/ \E does \in {"model", "swap"}, m \in Models : Command(does, m)
    \/ Unreach \/ LookUpPin \/ PinCap \/ FlagPin \/ Unflag \/ DefaultCap
    \/ Recall \/ Compare \/ SetModel \/ TestFlag \/ LookUpEntry
    \/ \E s \in Slots : ScheduleTask(s)

TaskStep(s) ==
    \/ Begin(s) \/ Hears(s) \/ MarkReachable(s) \/ CheckListed(s) \/ Adopt(s)
    \/ Refused(s) \/ Unreachable(s) \/ Raises(s)
    \/ Probed(s) \/ Derive(s) \/ ProbeFails(s)
    \/ RememberedModel(s) \/ RememberedServer(s) \/ Remember(s)
    \/ SwapTest(s) \/ SwapCap(s)
    \/ \E m \in Models : Swap(s, "swap", m)

LoopStep(s) == LoopFree(s) /\ TaskStep(s)

\* A thread of a voice's fine-tuning.
VoiceStep(s) ==
    \/ \E m \in Models : Swap(s, "voice", m)
    \/ tasks[s].does = "voice" /\ (SwapTest(s) \/ SwapCap(s))

Next == UiStep \/ \E s \in Slots : LoopStep(s) \/ VoiceStep(s)

Spec == Init /\ [][Next]_vars

-----------------------------------------------------------------------------
(* Properties.                                                             *)

TypeOK ==
    /\ url \in Servers /\ answered \in Servers /\ chosen \in Servers
    /\ reachable \in BOOLEAN /\ pinned \in BOOLEAN /\ exposed \in BOOLEAN
    /\ model \in Models
    /\ cap \in {"default", "pin", "derived"}
    /\ startup \in Memories /\ remembered \in Memories
    /\ ui \in Commands
    /\ tasks \in [Slots -> Tasks]

\* A switch is under way, or the setup it scheduled has not yet begun.
Switching ==
    \/ ui.does = "switch"
    \/ \E s \in Slots : Task(s) = "begin"

\* The backend calls its server reachable only when that server was the last
\* to answer: an answer to an earlier setup that comes in the middle of a
\* switch may mark the wrong one, but only until the switch's own setup begins
\* (set_api_url, setup, _try_connect).
ReachableIsAnswered == reachable /\ ~Switching => url = answered

StatusOK == TypeOK /\ ReachableIsAnswered

\* Between two commands a pinned cap is flagged as one, and a flag's cap is the
\* pin: no probe and no swap of the model undoes it, but for the one that had
\* tested the flag before the pin was set (set_api_url, set_max_tokens,
\* set_model, _apply_auto_max_tokens).
PinHolds ==
    AtRest => /\ cap = "pin" => pinned
              /\ pinned /\ ~exposed => cap = "pin"

\* What the docstring of _apply_auto_max_tokens says, and the code does not
\* keep: max_tokens is updated when not pinned by the user.
PinIsKept == AtRest /\ pinned => cap # "derived"

\* What the README says of /server switch, and the code does not keep: once
\* nothing is under way, the server is the one asked for, or the local one it
\* falls back to.
SwitchTakes ==
    AtRest /\ (\A s \in Slots : Task(s) = "free") => url \in {chosen, Local}
=============================================================================
