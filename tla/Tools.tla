-------------------------------- MODULE Tools --------------------------------
(***************************************************************************)
(* The small plugins and applications side by side: one of them runs, the  *)
(* others are not loaded.                                                  *)
(***************************************************************************)
EXTENDS EmmcDumper, LogBuffer, Dumpers, ModuleLoader, Allocators, ActVerifier, Corelock

VARIABLE tool \* which of them runs

toolVars == <<tool, emVars, logVars, dpVars, mlVars, alVars, avVars, clVars>>

\* One that is not loaded has made none of its choices.
ToolsInit ==
    /\ tool \in {"emmc", "log", "dump", "load", "alloc", "act", "lock"}
    /\ EmInit /\ (tool # "emmc" => drives = {})
    /\ LogInit /\ (tool # "log" => log_report = CHOOSE r \in Reports : TRUE)
    /\ DpInit /\ (tool # "dump" => dp_plugin = "slb2")
    /\ MlInit
    /\ AlInit /\ (tool # "alloc" => al_plugin = "kernel")
    /\ AvInit /\ (tool # "act" => /\ ~av_np /\ av_version = AvFirst /\ av_genuine
                                 /\ av_size = CHOOSE n \in AvWords : TRUE)
    /\ ClInit /\ (tool # "lock" => cl_made = Core /\ cl_pc[0] = "init")

Only(name, others) == tool = name /\ UNCHANGED <<tool, others>>

\* What the tool does when nobody types, and the power stays on.
ToolStep ==
    \/ Only("emmc", <<logVars, dpVars, mlVars, alVars, avVars, clVars>>) /\ EmStep
    \/ Only("log", <<emVars, dpVars, mlVars, alVars, avVars, clVars>>) /\ LogStep
    \/ Only("dump", <<emVars, logVars, mlVars, alVars, avVars, clVars>>) /\ DpStep
    \/ Only("load", <<emVars, logVars, dpVars, alVars, avVars, clVars>>) /\ MlStep
    \/ Only("alloc", <<emVars, logVars, dpVars, mlVars, avVars, clVars>>) /\ AlNext
    \/ Only("act", <<emVars, logVars, dpVars, mlVars, alVars, clVars>>) /\ AvNext
    \/ Only("lock", <<emVars, logVars, dpVars, mlVars, alVars, avVars>>) /\ ClNext

Outside ==
    \/ Only("emmc", <<logVars, dpVars, mlVars, alVars, avVars, clVars>>) /\ Start
    \/ Only("log", <<emVars, dpVars, mlVars, alVars, avVars, clVars>>) /\ LogPowerOff
    \/ Only("dump", <<emVars, logVars, mlVars, alVars, avVars, clVars>>) /\ DpPowerOff
    \/ /\ Only("load", <<emVars, logVars, dpVars, alVars, avVars, clVars>>)
       /\ MlLoadPath \/ MlLoadByNumber \/ MlEmptyLine \/ MlExit

ToolsNext == ToolStep \/ Outside

\* A thread that can run runs: nothing else here waits for anything.
ToolsSpec == ToolsInit /\ [][ToolsNext]_toolVars /\ WF_toolVars(ToolStep)

-----------------------------------------------------------------------------
(* Properties *)

\* The state of every tool is of the kind its code keeps.
ToolsTypeOK ==
    EmTypeOK /\ LogTypeOK /\ DpTypeOK /\ MlTypeOK /\ AlTypeOK /\ AvTypeOK /\ ClTypeOK

\* What was started comes to its end, or to the user.
Ended ==
    CASE tool = "emmc"  -> pc = "end"
      [] tool = "log"   -> log_pc \in {"done", "over"}
      [] tool = "dump"  -> dp_pc = "off" /\ dp_starts = DpMaxStarts
      [] tool = "load"  -> ml_pc \in {"tty", "fault", "end"}
      [] tool = "alloc" -> AlDone
      [] tool = "act"   -> av_pc \in {"ok", "failed"}
      [] tool = "lock"  -> cl_made # Core \/ ClDone

\* Whatever fails, no tool is stuck: a log is closed, a dumper comes to its last
\* partition or returns, a loader has loaded or asks, an allocator test comes to
\* its last step, a verifier to a verdict, and when all threads could be made no
\* core waits in the lock for ever.
ToolFinishes == <>[]Ended

=============================================================================
