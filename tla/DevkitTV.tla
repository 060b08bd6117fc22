------------------------------ MODULE DevkitTV ------------------------------
(***************************************************************************)
(* kernel/DevkitTV: the screen of a devkit goes off while HDMI is          *)
(* connected and comes back on when it is disconnected.                    *)
(*                                                                         *)
(* Three threads run update_screen: the one that starts the plugin (or the *)
(* thread it creates), the one that calls sceHdmiSetState, and the work    *)
(* queue after a resume.  update_screen reads the HDMI state and then      *)
(* switches the screen: two steps, with no lock around them.               *)
(*                                                                         *)
(* External: SceHdmi keeps the state and calls sceHdmiSetState from one    *)
(* thread; SceSysStateMgr's being loaded decides how the plugin starts;    *)
(* on resume the system updates the controller mask and a little later     *)
(* turns the screen on.  Every call outside may fail, taiHEN's that set    *)
(* the hooks among them.                                                   *)
(***************************************************************************)
EXTENDS Naturals

CONSTANTS Start,    \* values deferred may have
          Races,    \* whether HDMI may change inside one of the Windows
          MaxQueue  \* bound on the work items waiting

ASSUME DevkitAssumption ==
    Start \subseteq BOOLEAN /\ Races \in BOOLEAN /\ MaxQueue \in Nat \ {0}

VARIABLES
    deferred, \* SceSysStateMgr is loaded: start with screen_update_thread
    hdmi,     \* the state sceHdmiGetState returns: 0 disconnected, 1 connected
    screen,   \* the screen of the unit
    plugin,   \* "starting", "started", or "refused" by module_start
    hooks,    \* those that are in place: of sceHdmiSetState ("hdmi") and of
              \* ksceCtrlUpdateMaskForAll ("mask")
    pc,       \* task -> where it is in update_screen
    seen,     \* task -> the state it read last
    queue,    \* screen_workqueue items waiting
    power,    \* "awake", "suspended", or "resuming" until the screen is on
    failed    \* history: a call failed or was not hooked, and no update to the
              \* state HDMI is in went through since

vars == <<deferred, hdmi, screen, plugin, hooks, pc, seen, queue, power, failed>>

Task == {"start", "hdmi", "work"}
Hook == {"hdmi", "mask"}
Running == power # "suspended"
ScreenFor(state) == IF state = 0 THEN "on" ELSE "off"

TypeOK ==
    /\ deferred \in BOOLEAN
    /\ hdmi \in 0..1
    /\ screen \in {"on", "off"}
    /\ plugin \in {"starting", "started", "refused"}
    /\ hooks \subseteq Hook
    /\ pc \in [Task -> {"idle", "read", "act"}]
    /\ seen \in [Task -> 0..1]
    /\ queue \in 0..MaxQueue
    /\ power \in {"awake", "suspended", "resuming"}
    /\ failed \in BOOLEAN

\* module_start begins: it will update the screen or create the thread that
\* will; the screen is on.
Init ==
    /\ deferred \in Start
    /\ hdmi \in 0..1
    /\ screen = "on"
    /\ plugin = "starting" /\ hooks = {}
    /\ pc = [t \in Task |-> IF t = "start" THEN "read" ELSE "idle"]
    /\ seen = [t \in Task |-> 0]
    /\ queue = 0
    /\ power = "awake"
    /\ failed = FALSE

-----------------------------------------------------------------------------
(* update_screen *)

\* sceHdmiGetState.  A failure ends the update.  The deferred start waits
\* five seconds, long after module_start has returned.
update_screen(t) ==
    /\ Running
    /\ pc[t] = "read"
    /\ t = "start" /\ deferred => plugin = "started"
    /\ \/ /\ seen' = [seen EXCEPT ![t] = hdmi]
          /\ pc' = [pc EXCEPT ![t] = "act"]
          /\ UNCHANGED failed
       \/ /\ pc' = [pc EXCEPT ![t] = "idle"]
          /\ failed' = TRUE
          /\ UNCHANGED seen
    /\ UNCHANGED <<deferred, hdmi, screen, plugin, hooks, queue, power>>

\* ksceOledDisplayOn or ksceOledDisplayOff.  One that goes by the present
\* state makes up for a failure before it, unless a resume has still to turn
\* the screen on.
update_screen_with_state(t) ==
    /\ Running
    /\ pc[t] = "act"
    /\ pc' = [pc EXCEPT ![t] = "idle"]
    /\ \/ /\ screen' = ScreenFor(seen[t])
          /\ failed' = (failed /\ ~(seen[t] = hdmi /\ power = "awake"))
       \/ /\ screen' = screen
          /\ failed' = TRUE
    /\ UNCHANGED <<deferred, hdmi, plugin, hooks, seen, queue, power>>

-----------------------------------------------------------------------------
(* The hooks *)

\* A module or a function module_start looks for is not there, or the thread
\* cannot be made or started.
StartRefused ==
    /\ plugin = "starting"
    /\ pc["start"] = "read"
    /\ plugin' = "refused"
    /\ pc' = [pc EXCEPT !["start"] = "idle"]
    /\ UNCHANGED <<deferred, hdmi, screen, hooks, seen, queue, power, failed>>

\* The end of module_start; without the thread it has updated the screen.
\* Whether a hook could be set is not looked at.
InstallHooks ==
    /\ plugin = "starting"
    /\ deferred \/ pc["start"] = "idle"
    /\ plugin' = "started"
    /\ hooks' \in SUBSET Hook
    /\ UNCHANGED <<deferred, hdmi, screen, pc, seen, queue, power, failed>>

\* The moments at which a change of HDMI goes unnoticed: an update has read
\* the state and not acted on it, module_start has updated the screen and not
\* set its hooks, the mask was updated and the screen is not on yet.
Window ==
    \/ \E t \in Task : pc[t] = "act"
    \/ plugin = "starting" /\ pc["start"] = "idle"
    \/ power = "resuming"

\* A call that should have been hooked and was not.
Missed(hook) == plugin = "started" /\ hook \notin hooks

\* Mistake: only a connection is passed on.
Bug_ConnectOnly(state) ==
    /\ Running /\ pc["hdmi"] = "idle" /\ state # hdmi
    /\ Window => Races
    /\ hdmi' = state
    /\ pc' = IF "hdmi" \in hooks /\ state = 1 THEN [pc EXCEPT !["hdmi"] = "read"] ELSE pc
    /\ failed' = (failed \/ Missed("hdmi"))
    /\ UNCHANGED <<deferred, screen, plugin, hooks, seen, queue, power>>

\* sceHdmiSetState stores the state; the hook then updates the screen.
sceHdmiSetState(state) ==
    /\ Running
    /\ pc["hdmi"] = "idle"
    /\ state # hdmi
    /\ Window => Races
    /\ hdmi' = state
    /\ pc' = IF "hdmi" \in hooks THEN [pc EXCEPT !["hdmi"] = "read"] ELSE pc
    /\ failed' = (failed \/ Missed("hdmi"))
    /\ UNCHANGED <<deferred, screen, plugin, hooks, seen, queue, power>>

\* External.
Suspend ==
    /\ power = "awake"
    /\ plugin # "starting"
    /\ queue < MaxQueue
    /\ power' = "suspended"
    /\ screen' = "off"
    /\ UNCHANGED <<deferred, hdmi, plugin, hooks, pc, seen, queue, failed>>

\* Mistake: the work is queued when HDMI is not connected.
Bug_QueueWhenDisconnected ==
    /\ power = "suspended"
    /\ power' = "resuming"
    /\ queue' = IF "mask" \in hooks /\ hdmi = 0 THEN queue + 1 ELSE queue
    /\ UNCHANGED <<deferred, hdmi, screen, plugin, hooks, pc, seen, failed>>

\* Mistake: a mask that is only cleared queues an update too.
Bug_QueueOnAnyMask ==
    /\ power' = IF power = "suspended" THEN "resuming" ELSE power
    /\ queue' = IF "mask" \in hooks /\ hdmi # 0 THEN queue + 1 ELSE queue
    /\ UNCHANGED <<deferred, hdmi, screen, plugin, hooks, pc, seen, failed>>

\* Resume: the hook queues an update when HDMI is connected.  It is not set, or
\* a call of its own fails: nothing is queued.
ksceCtrlUpdateMaskForAll ==
    /\ power = "suspended"
    /\ power' = "resuming"
    /\ \/ /\ "mask" \in hooks
          /\ queue' = (IF hdmi # 0 THEN queue + 1 ELSE queue) /\ UNCHANGED failed
       \/ queue' = queue /\ failed' = TRUE
    /\ UNCHANGED <<deferred, hdmi, screen, plugin, hooks, pc, seen>>

\* External: the system turns the screen on.
ScreenOn ==
    /\ power = "resuming"
    /\ power' = "awake"
    /\ screen' = "on"
    /\ UNCHANGED <<deferred, hdmi, plugin, hooks, pc, seen, queue, failed>>

\* The work queue runs one item at a time; the second it waits first outlasts
\* the resume.
screen_workqueue ==
    /\ power = "awake"
    /\ queue > 0
    /\ pc["work"] = "idle"
    /\ queue' = queue - 1
    /\ pc' = [pc EXCEPT !["work"] = "read"]
    /\ UNCHANGED <<deferred, hdmi, screen, plugin, hooks, seen, power, failed>>

-----------------------------------------------------------------------------

UpdateStep(t) == update_screen(t) \/ update_screen_with_state(t)

Next ==
    \/ \E t \in Task : update_screen(t)
    \/ \E t \in Task : update_screen_with_state(t)
    \/ StartRefused
    \/ InstallHooks
    \/ \E state \in 0..1 : sceHdmiSetState(state)
    \/ Suspend
    \/ ksceCtrlUpdateMaskForAll
    \/ ScreenOn
    \/ screen_workqueue

\* Threads that can run do run.  Nobody has to plug, unplug or suspend; a
\* suspended unit need not resume, a resume once begun is finished.
Fairness ==
    /\ \A t \in Task : WF_vars(UpdateStep(t))
    /\ WF_vars(InstallHooks)
    /\ WF_vars(ScreenOn)
    /\ WF_vars(screen_workqueue)

Spec == Init /\ [][Next]_vars /\ Fairness

-----------------------------------------------------------------------------
(* Properties *)

Quiet ==
    /\ power = "awake"
    /\ plugin = "started"
    /\ queue = 0
    /\ \A t \in Task : pc[t] = "idle"

Agree == screen = ScreenFor(hdmi)

\* "HDMI connected -> screen off, HDMI disconnection -> screen on": when the
\* three tasks have nothing left to do, the screen is what update_screen makes
\* it for the state HDMI is in, unless a call failed or went past a hook that
\* could not be set; one update that succeeds makes up for any number of those.
QuietAgrees == Quiet /\ ~failed => Agree

\* A screen that disagrees with HDMI is put right while the unit runs: by the
\* hook of sceHdmiSetState, and after a resume by the work queue.
Converges == ~Agree ~> (Agree \/ failed \/ power = "suspended" \/ plugin = "refused")

=============================================================================
