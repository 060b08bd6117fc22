--------------------------- MODULE DevkitTV_proofs ---------------------------
(***************************************************************************)
(* Proofs about DevkitTV: its type invariant, and that the screen agrees   *)
(* with HDMI once everything is quiet, as long as HDMI does not change in  *)
(* one of the Windows.                                                     *)
(***************************************************************************)
EXTENDS DevkitTV, TLAPS

\* A suspend happens with room left in the work queue, and nothing takes that
\* room before the resume's own item: what bounds the queue.
RoomToResume == power = "suspended" => queue < MaxQueue

LEMMA RoomStep ==
    ASSUME TypeOK, RoomToResume, [Next]_vars PROVE TypeOK' /\ RoomToResume'
<1>. USE DevkitAssumption DEF DevkitAssumption, TypeOK, Task, RoomToResume
<1>1. ASSUME NEW t \in Task, update_screen(t) PROVE TypeOK' /\ RoomToResume'
  <2>1. UNCHANGED <<deferred, hdmi, screen, plugin, hooks, queue, power>>
    BY <1>1 DEF update_screen
  <2>2. pc' \in [Task -> {"idle", "read", "act"}] /\ seen' \in [Task -> 0..1]
    BY <1>1 DEF update_screen
  <2>3. failed' \in BOOLEAN
    BY <1>1 DEF update_screen
  <2> QED
    BY <2>1, <2>2, <2>3
<1>2. ASSUME NEW t \in Task, update_screen_with_state(t)
      PROVE  TypeOK' /\ RoomToResume'
  BY <1>2 DEF update_screen_with_state, ScreenFor
<1>3. CASE InstallHooks
  BY <1>3 DEF InstallHooks
<1>4. ASSUME NEW state \in 0..1, sceHdmiSetState(state)
      PROVE  TypeOK' /\ RoomToResume'
  <2>1. failed' \in BOOLEAN
    BY <1>4, Zenon DEF sceHdmiSetState
  <2>. QED
    BY <1>4, <2>1 DEF sceHdmiSetState
<1>5. CASE Suspend
  BY <1>5 DEF Suspend
<1>6. CASE ksceCtrlUpdateMaskForAll
  <2>1. queue' = queue \/ queue' = queue + 1
    BY <1>6 DEF ksceCtrlUpdateMaskForAll
  <2>2. queue' \in 0..MaxQueue
    BY <1>6, <2>1 DEF ksceCtrlUpdateMaskForAll
  <2>3. failed' \in BOOLEAN
    BY <1>6, Zenon DEF ksceCtrlUpdateMaskForAll
  <2>. QED
    BY <1>6, <2>2, <2>3 DEF ksceCtrlUpdateMaskForAll
<1>7. CASE ScreenOn
  BY <1>7 DEF ScreenOn
<1>8. CASE screen_workqueue
  BY <1>8 DEF screen_workqueue
<1>9. CASE UNCHANGED vars
  BY <1>9 DEF vars
<1>10. CASE StartRefused
  BY <1>10 DEF StartRefused
<1>. QED
  BY <1>1, <1>2, <1>3, <1>4, <1>5, <1>6, <1>7, <1>8, <1>9, <1>10 DEF Next

\* The variables keep their types: the work queue never holds more than
\* MaxQueue items and no task leaves update_screen's steps.
THEOREM TypeCorrect == Spec => []TypeOK
<1>1. Init => TypeOK /\ RoomToResume
  <2>. SUFFICES ASSUME Init PROVE TypeOK /\ RoomToResume
    OBVIOUS
  <2>1. deferred \in BOOLEAN
    BY DevkitAssumption, Zenon DEF DevkitAssumption, Init
  <2>2. queue \in 0..MaxQueue
    BY DevkitAssumption DEF DevkitAssumption, Init
  <2>3. /\ hdmi \in 0..1
        /\ pc \in [Task -> {"idle", "read", "act"}]
        /\ seen \in [Task -> 0..1]
    BY DEF Init, Task
  <2>. QED
    BY <2>1, <2>2, <2>3 DEF Init, TypeOK, RoomToResume
<1>. QED
  BY <1>1, RoomStep, PTL DEF Spec

(***************************************************************************)
(* Without a change in a window every update acts on the state HDMI is in  *)
(* (SeenFresh).  What remains is that a disagreement nobody failed over    *)
(* has somebody at work on it: an update, a queued item, or the resume,    *)
(* which has queued one when HDMI is connected (Attended).                 *)
(***************************************************************************)
SeenFresh == \A t \in Task : pc[t] = "act" => seen[t] = hdmi

Attended ==
    /\ plugin = "starting" => power = "awake"
    /\ plugin # "refused" =>
          /\ power = "awake" /\ ~failed /\ ~Agree =>
                queue > 0 \/ \E t \in Task : pc[t] # "idle"
          /\ power = "resuming" /\ ~failed /\ hdmi # 0 => queue > 0

IInv == TypeOK /\ SeenFresh /\ Attended

LEMMA IInvInit == Init => SeenFresh /\ Attended
BY DEF Init, SeenFresh, Attended, Agree, ScreenFor, Task

LEMMA IInvStep ==
    ASSUME ~Races, IInv, TypeOK', [Next]_vars
    PROVE  SeenFresh' /\ Attended'
<1>. USE DevkitAssumption DEF DevkitAssumption, IInv, TypeOK, SeenFresh, Attended,
                              Agree, ScreenFor, Task
<1>1. ASSUME NEW t \in Task, update_screen(t) PROVE SeenFresh' /\ Attended'
  BY <1>1 DEF update_screen, Running
<1>2. ASSUME NEW t \in Task, update_screen_with_state(t)
      PROVE  SeenFresh' /\ Attended'
  BY <1>2 DEF update_screen_with_state, Running
<1>3. CASE InstallHooks
  BY <1>3 DEF InstallHooks
<1>4. ASSUME NEW state \in 0..1, sceHdmiSetState(state)
      PROVE  SeenFresh' /\ Attended'
  BY <1>4 DEF sceHdmiSetState, Missed, Window, Running
<1>5. CASE Suspend
  BY <1>5 DEF Suspend
<1>6. CASE ksceCtrlUpdateMaskForAll
  BY <1>6 DEF ksceCtrlUpdateMaskForAll
<1>7. CASE ScreenOn
  BY <1>7 DEF ScreenOn
<1>8. CASE screen_workqueue
  BY <1>8 DEF screen_workqueue
<1>9. CASE UNCHANGED vars
  BY <1>9 DEF vars
<1>10. CASE StartRefused
  BY <1>10 DEF StartRefused
<1>. QED
  BY <1>1, <1>2, <1>3, <1>4, <1>5, <1>6, <1>7, <1>8, <1>9, <1>10 DEF Next

\* As long as HDMI changes outside the windows only, a quiet plugin has the
\* screen HDMI asks for, unless the last call failed or was not hooked: no
\* other order of start-up, updates, suspends and resumes can leave it wrong.
THEOREM QuietPluginAgrees == ASSUME ~Races PROVE Spec => []QuietAgrees
<1>1. Init => SeenFresh /\ Attended
  BY IInvInit
<1>2. TypeOK /\ TypeOK' /\ SeenFresh /\ Attended /\ [Next]_vars
        => SeenFresh' /\ Attended'
  BY IInvStep DEF IInv
<1>3. TypeOK /\ Attended => QuietAgrees
  BY DEF TypeOK, Attended, QuietAgrees, Quiet
<1>. QED
  BY <1>1, <1>2, <1>3, TypeCorrect, PTL DEF Spec

=============================================================================
