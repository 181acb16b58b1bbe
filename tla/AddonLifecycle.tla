--------------------------- MODULE AddonLifecycle ---------------------------
(***************************************************************************)
(* rust/addon/src/runtime.rs: load and unload of the addon, serialized by  *)
(* OWNER, against callbacks that go through the gate.                      *)
(*                                                                         *)
(* The host is external: a registration may unwind, before or after it     *)
(* took effect, and a callback may be invoked at any time, also while it   *)
(* is being registered and after it was deregistered.                      *)
(***************************************************************************)
EXTENDS CallbackGate, Sequences

Required == <<"Main", "Options", "Input">>
Resources == {"Main", "Options", "Input", "Shortcut"}

(* The mutex is held by a callback or by nobody. *)
ASSUME NoneAssumption == "None" \notin Callbacks

VARIABLES
    step,       \* where the owner is in load or unload
    published,  \* STATE is Some
    resources,  \* RuntimeState::resources, in order of registration
    hosted,     \* what the host has registered
    app,        \* the application thread
    attached,   \* ImGui context and allocators of the host are set
    hook,       \* whose panic hook is installed
    kept,       \* RuntimeState::previous_hook is Some
    unkept,     \* load's own previous_hook is Some
    flagged,    \* Shortcut::registered
    holder,     \* who holds the mutex of the shortcut
    poisoned,   \* the mutex was released by unwinding
    stage       \* where an admitted callback is

lifeVars == <<step, published, resources, hosted, app, attached, hook, kept, unkept,
              flagged, holder, poisoned, stage>>
vars == <<gateVars, lifeVars>>

Steps == {"Idle", "Compose", "Register", "Shortcut", "Publish", "Open", "KeepHook",
          "Shutdown", "TakeState", "Release", "Wait", "Waiting", "Stop", "RestoreHook"}
Stages == {"None", "Acting", "Refreshing", "Drawing", "Done"}

Init ==
    /\ GateInit
    /\ step = "Idle" /\ published = FALSE /\ resources = <<>> /\ hosted = {}
    /\ app = "None" /\ attached = FALSE /\ hook = "Host" /\ kept = FALSE /\ unkept = FALSE
    /\ flagged = FALSE /\ holder = "None" /\ poisoned = FALSE
    /\ stage = [c \in Callbacks |-> "None"]

Goto(next) == step' = next

-----------------------------------------------------------------------------
(* load returns at once when STATE is Some.  Otherwise it reads the attachment  *)
(* and installs its own panic hook.                                              *)
BeginLoad ==
    /\ step = "Idle" /\ ~published
    /\ \/ Goto("Compose") /\ hook' = "Addon" /\ unkept' = TRUE
       \/ Goto("Shutdown") /\ UNCHANGED <<hook, unkept>>      \* Attachment::read fails
    /\ UNCHANGED <<gateVars, published, resources, hosted, app, attached, kept,
                   flagged, holder, poisoned, stage>>

(* compose, ApplicationRuntimeThread::start, and the Dear ImGui context. *)
Compose ==
    /\ step = "Compose"
    /\ \/ /\ Goto("Register")
          /\ app' = "Running" /\ attached' = TRUE
       \/ Goto("Shutdown") /\ UNCHANGED <<app, attached>>
    /\ flagged' = FALSE /\ poisoned' = FALSE           \* a new Runtime
    /\ UNCHANGED <<gateVars, published, resources, hosted, hook, kept, unkept, holder, stage>>

(* The next required resource: recorded before the host is called. *)
Register ==
    /\ step = "Register"
    /\ LET resource == Required[Len(resources) + 1] IN
       /\ resources' = Append(resources, resource)
       /\ \/ /\ hosted' = hosted \cup {resource}
             /\ Goto(IF Len(resources') = Len(Required) THEN "Shortcut" ELSE "Register")
          \/ /\ hosted' \in {hosted, hosted \cup {resource}}      \* the host unwinds
             /\ Goto("Release")
    /\ UNCHANGED <<gateVars, published, app, attached, hook, kept, unkept, flagged, holder, poisoned, stage>>

(* Textures and quick access are optional: whatever happens, loading goes on.  The  *)
(* mutex is locked inside this step only, and an unwinding host poisons it.          *)
AddShortcut ==
    /\ step = "Shortcut"
    /\ \/ UNCHANGED <<resources, hosted, flagged, poisoned>>      \* a texture call unwinds
       \/ /\ resources' = Append(resources, "Shortcut")
          /\ flagged' = TRUE
          /\ \/ hosted' = hosted \cup {"Shortcut"} /\ UNCHANGED poisoned
             \/ hosted' \in {hosted, hosted \cup {"Shortcut"}} /\ poisoned' = TRUE
    /\ Goto("Publish")
    /\ UNCHANGED <<gateVars, published, app, attached, hook, kept, unkept, holder, stage>>

Publish ==
    /\ step = "Publish"
    /\ published' = TRUE
    /\ Goto("Open")
    /\ UNCHANGED <<gateVars, resources, hosted, app, attached, hook, kept, unkept,
                   flagged, holder, poisoned, stage>>

(* assert!(gate.open()): unwinds into the failure path if the gate is not drained. *)
OpenGate ==
    /\ step = "Open"
    /\ IF word = CLOSED THEN Open /\ Goto("KeepHook")
       ELSE Goto("Shutdown") /\ UNCHANGED gateVars
    /\ UNCHANGED <<published, resources, hosted, app, attached, hook, kept, unkept,
                   flagged, holder, poisoned, stage>>

KeepHook ==
    /\ step = "KeepHook"
    /\ kept' = unkept /\ unkept' = FALSE
    /\ Goto("Idle")
    /\ UNCHANGED <<gateVars, published, resources, hosted, app, attached, hook,
                   flagged, holder, poisoned, stage>>

-----------------------------------------------------------------------------
(* unload, which does nothing to an addon that is not loaded. *)
BeginUnload ==
    /\ step = "Idle"
    /\ Goto("Shutdown")
    /\ UNCHANGED <<gateVars, published, resources, hosted, app, attached, hook, kept, unkept,
                   flagged, holder, poisoned, stage>>

(* shutdown, by unload and by a load that failed.  *)
Shutdown ==
    /\ step = "Shutdown"
    /\ Close
    /\ Goto("TakeState")
    /\ UNCHANGED <<published, resources, hosted, app, attached, hook, kept, unkept,
                   flagged, holder, poisoned, stage>>

TakeState ==
    /\ step = "TakeState"
    /\ published' = FALSE
    /\ Goto(IF published THEN "Release" ELSE "RestoreHook")
    /\ UNCHANGED <<gateVars, resources, hosted, app, attached, hook, kept, unkept,
                   flagged, holder, poisoned, stage>>

(* Mutant: the shortcut is not marked as removed. *)
ReleaseKeepingFlag ==
    /\ step = "Release"
    /\ Close
    /\ IF resources = <<>>
       THEN Goto("Wait") /\ UNCHANGED <<resources, hosted, flagged>>
       ELSE LET resource == resources[Len(resources)] IN
            /\ resource = "Shortcut" => holder = "None"
            /\ hosted' = hosted \ {resource}
            /\ resources' = SubSeq(resources, 1, Len(resources) - 1)
            /\ UNCHANGED <<flagged, step>>
    /\ UNCHANGED <<published, app, attached, hook, kept, unkept, holder, poisoned, stage>>

(* release: close, then deregister in reverse.  The shortcut is removed under its   *)
(* mutex, which an admitted render may hold; a poisoned mutex is taken as it is.     *)
Release ==
    /\ step = "Release"
    /\ Close
    /\ IF resources = <<>>
       THEN Goto("Wait") /\ UNCHANGED <<resources, hosted, flagged>>
       ELSE LET resource == resources[Len(resources)] IN
            /\ resource = "Shortcut" => holder = "None"
            /\ hosted' = hosted \ {resource}
            /\ resources' = SubSeq(resources, 1, Len(resources) - 1)
            /\ flagged' = (flagged /\ resource # "Shortcut")
            /\ UNCHANGED step
    /\ UNCHANGED <<published, app, attached, hook, kept, unkept, holder, poisoned, stage>>

(* Mutant: the application is stopped before the callbacks are gone. *)
WaitSkipped ==
    /\ step = "Wait"
    /\ Goto("Stop")
    /\ UNCHANGED <<gateVars, published, resources, hosted, app, attached, hook, kept, unkept,
                   flagged, holder, poisoned, stage>>

WaitForCallbacks ==
    /\ step = "Wait"
    /\ BeginWait
    /\ Goto("Waiting")
    /\ UNCHANGED <<published, resources, hosted, app, attached, hook, kept, unkept,
                   flagged, holder, poisoned, stage>>

WaitStepInUnload ==
    /\ step = "Waiting"
    /\ WaitStep
    /\ Goto(IF waiter' = "None" THEN "Stop" ELSE "Waiting")
    /\ UNCHANGED <<published, resources, hosted, app, attached, hook, kept, unkept,
                   flagged, holder, poisoned, stage>>

(* owner.shutdown joins the application thread; the runtime is dropped, and Dear     *)
(* ImGui forgets the host.  A state that kept the previous hook restores it.          *)
Stop ==
    /\ step = "Stop"
    /\ app' = "None" /\ attached' = FALSE
    /\ hook' = IF kept THEN "Host" ELSE hook
    /\ kept' = FALSE
    /\ Goto("RestoreHook")
    /\ UNCHANGED <<gateVars, published, resources, hosted, unkept, flagged, holder, poisoned, stage>>

(* A load that failed restores the hook it still owns; unload owns none.  (After a     *)
(* failed registration load runs shutdown once more, which finds the gate closed and     *)
(* STATE empty.)                                                                         *)
RestoreHook ==
    /\ step = "RestoreHook"
    /\ hook' = IF unkept THEN "Host" ELSE hook
    /\ unkept' = FALSE
    /\ Goto("Idle")
    /\ UNCHANGED <<gateVars, published, resources, hosted, app, attached, kept,
                   flagged, holder, poisoned, stage>>

OwnerStep ==
    \/ BeginLoad \/ Compose \/ Register \/ AddShortcut \/ Publish \/ OpenGate \/ KeepHook
    \/ BeginUnload \/ Shutdown \/ TakeState \/ Release
    \/ WaitForCallbacks \/ WaitStepInUnload \/ Stop \/ RestoreHook

-----------------------------------------------------------------------------
(* A callback before and after its admission. *)
Approach(c) == (LoadWord(c) \/ Refuse(c) \/ Exchange(c) \/ Notify(c)) /\ UNCHANGED lifeVars

(* STATE.try_lock: None when STATE is empty, and when anybody else holds the lock. *)
TakeRuntime(c) ==
    /\ place[c] = "Inside" /\ stage[c] = "None"
    /\ \/ published /\ stage' = [stage EXCEPT ![c] = "Acting"]
       \/ stage' = [stage EXCEPT ![c] = "Done"]
    /\ UNCHANGED <<gateVars, step, published, resources, hosted, app, attached, hook, kept, unkept,
                   flagged, holder, poisoned>>

(* refresh_shortcut with a changed status removes the shortcut ... *)
RefreshRemove(c) ==
    /\ stage[c] = "Acting"
    /\ holder = "None" /\ ~poisoned /\ flagged
    /\ holder' = c
    /\ hosted' = hosted \ {"Shortcut"}
    /\ stage' = [stage EXCEPT ![c] = "Refreshing"]
    /\ UNCHANGED <<gateVars, step, published, resources, app, attached, hook, kept, unkept,
                   flagged, poisoned>>

(* ... and adds it again; either call of the host may unwind, poisoning the mutex. *)
RefreshAdd(c) ==
    /\ stage[c] = "Refreshing"
    /\ holder' = "None"
    /\ \/ /\ hosted' = hosted \cup {"Shortcut"}
          /\ stage' = [stage EXCEPT ![c] = "Drawing"]
          /\ UNCHANGED poisoned
       \/ /\ hosted' \in {hosted, hosted \cup {"Shortcut"}}
          /\ stage' = [stage EXCEPT ![c] = "Done"]
          /\ poisoned' = TRUE
    /\ UNCHANGED <<gateVars, step, published, resources, app, attached, hook, kept, unkept, flagged>>

(* The action is over, or unwound; the reference to the runtime is dropped first. *)
EndAction(c) ==
    /\ stage[c] \in {"Acting", "Drawing"}
    /\ stage' = [stage EXCEPT ![c] = "Done"]
    /\ UNCHANGED <<gateVars, step, published, resources, hosted, app, attached, hook, kept, unkept,
                   flagged, holder, poisoned>>

Depart(c) ==
    /\ stage[c] = "Done"
    /\ Leave(c)
    /\ stage' = [stage EXCEPT ![c] = "None"]
    /\ UNCHANGED <<step, published, resources, hosted, app, attached, hook, kept, unkept,
                   flagged, holder, poisoned>>

HostStep(c) ==
    \/ Approach(c) \/ TakeRuntime(c) \/ RefreshRemove(c) \/ RefreshAdd(c)
    \/ EndAction(c) \/ Depart(c)

Next == OwnerStep \/ \E c \in Callbacks : HostStep(c)

Spec == Init /\ [][Next]_vars

(* load and unload run to their end, and callbacks that are inside return, while the   *)
(* host may go on calling back for ever.                                                *)
LifeFairness ==
    /\ WF_vars(OwnerStep /\ step # "Idle")
    /\ \A c \in Callbacks : /\ WF_vars(EndAction(c))
                            /\ WF_vars(TakeRuntime(c)) /\ WF_vars(RefreshAdd(c))
                            /\ WF_vars(Depart(c)) /\ WF_vars(Notify(c) /\ UNCHANGED lifeVars)

LiveSpec == Spec /\ LifeFairness

-----------------------------------------------------------------------------
(* Types of the lifecycle, over a well-typed gate. *)
LifeTypeOK ==
    /\ GateTypeOK
    /\ step \in Steps
    /\ published \in BOOLEAN
    /\ resources \in {SubSeq(Required, 1, n) : n \in 0 .. 3} \cup {Append(Required, "Shortcut")}
    /\ hosted \subseteq Resources
    /\ app \in {"None", "Running"} /\ attached \in BOOLEAN
    /\ hook \in {"Host", "Addon"} /\ kept \in BOOLEAN /\ unkept \in BOOLEAN
    /\ flagged \in BOOLEAN /\ poisoned \in BOOLEAN
    /\ holder \in Callbacks \cup {"None"}
    /\ stage \in [Callbacks -> Stages]

(* While a callback uses the runtime, the application thread runs, the context of      *)
(* the host is set and panics stay silent, however late unload comes.                   *)
RuntimeOutlivesCallbacks ==
    \A c \in Callbacks : stage[c] \in {"Acting", "Refreshing", "Drawing"} =>
        place[c] = "Inside" /\ app = "Running" /\ attached /\ hook = "Addon"

(* After unload, and after a load that failed, nothing is left with the host: no        *)
(* registration (not even one that unwound, or a shortcut that a late render put back), *)
(* no thread, no context, no hook, nobody inside.                                       *)
NothingLeftBehind ==
    step = "Idle" /\ ~published =>
        /\ hosted = {} /\ resources = <<>>
        /\ app = "None" /\ ~attached /\ hook = "Host"
        /\ Inside = {}

(* assert!(gate.open(), "Callback gate must be drained before loading"): also after any  *)
(* number of reloads and failed loads.                                                   *)
GateDrainedBeforeLoad == step = "Open" => word = CLOSED

(* An addon that is loaded is complete: required registrations, application, hook, and  *)
(* an open gate.                                                                         *)
LoadedIsComplete ==
    step = "Idle" /\ published =>
        /\ {"Main", "Options", "Input"} \subseteq hosted
        /\ app = "Running" /\ attached /\ hook = "Addon" /\ kept
        /\ word < CLOSED

(* load and unload return, although unload waits for callbacks, for the mutex of the     *)
(* shortcut and for a notification that may be lost.                                     *)
LifecycleReturns == step # "Idle" ~> step = "Idle"

(* A resting addon is all there or all gone: after any sequence of loads, failed loads   *)
(* and unloads the registrations, the thread, the hook and the gate agree.               *)
LifecycleIsWhole == LifeTypeOK /\ NothingLeftBehind /\ GateDrainedBeforeLoad /\ LoadedIsComplete
=============================================================================
