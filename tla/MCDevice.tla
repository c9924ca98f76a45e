------------------------------- MODULE MCDevice -------------------------------
(***************************************************************************)
(* The parts of a device that do not depend on each other, in one instance:  *)
(* a behaviour is one of a single part, chosen by `part`, while the others   *)
(* stay in one of their initial states.                                      *)
(***************************************************************************)
EXTENDS ModelRuntime, MobileWorker, ModelDownloader, DesktopEngine, LocalServer,
        OutputPhases

CONSTANTS t1, t2, c1, c2, m1, m2, lm, r1, r2, r3

VARIABLE part

partVars == <<part, runtimeVars, wkVars, dlVars, engVars, srvVars, outVars>>

PartInit ==
    /\ part \in {"runtime", "worker", "download", "engine", "server", "output"}
    /\ RuntimeInit /\ WkInit /\ DlInit /\ EngInit /\ SrvInit /\ OutInit
    /\ part # "runtime" => platform = "ios"
    /\ part # "worker" => build = "ios"
    /\ part # "download" => serves = "ranges" /\ outFile = <<>>
    /\ part # "engine" => local = NoModel /\ modelFile = [m \in AllModels |-> "absent"]
    /\ part # "output" => outBuild = "ios"

\* Two tasks with one application thread, or one task with two.
SmallRuntime == (cpc[c2] = "idle" /\ cload[c2] = 0) \/ tpc[t2] = "new"

PartNext ==
    /\ part' = part
    /\ \/ /\ part = "runtime" /\ RuntimeNext /\ SmallRuntime'
          /\ UNCHANGED <<wkVars, dlVars, engVars, srvVars, outVars>>
       \/ /\ part = "worker" /\ WkNext
          /\ UNCHANGED <<runtimeVars, dlVars, engVars, srvVars, outVars>>
       \/ /\ part = "download" /\ DlNext
          /\ UNCHANGED <<runtimeVars, wkVars, engVars, srvVars, outVars>>
       \/ /\ part = "engine" /\ EngNext
          /\ UNCHANGED <<runtimeVars, wkVars, dlVars, srvVars, outVars>>
       \/ /\ part = "server" /\ SrvNext
          /\ UNCHANGED <<runtimeVars, wkVars, dlVars, engVars, outVars>>
       \/ /\ part = "output" /\ OutNext
          /\ UNCHANGED <<runtimeVars, wkVars, dlVars, engVars, srvVars>>

\* The parts at rest have no enabled action that is fair.
PartSpec ==
    /\ PartInit /\ [][PartNext]_partVars
    /\ RuntimeFairness /\ WkFairness /\ SrvFairness
===============================================================================
