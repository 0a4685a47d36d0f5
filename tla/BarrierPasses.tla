---------------------------- MODULE BarrierPasses ----------------------------
(***************************************************************************)
(* The passes around the barrier simulator, one after the other on the     *)
(* same schedule:                                                          *)
(*   "assign"    AssignPhysicalBarriersPass chooses the PIDs by simulation *)
(*               and VirtualBarrierRewrite writes them into the IR;        *)
(*   "validate"  BarrierSimulationPass simulates the ConfigureBarrierOps   *)
(*               with those fixed PIDs;                                    *)
(*   "hardware"  the NPU runs the schedule: FIFOs in parallel, each PID    *)
(*               reprogrammed with its next VID as it is consumed;         *)
(*   "free"      the NPU runs a WLM schedule: nothing but its barriers and *)
(*               FIFOs holds a task back.                                  *)
(* The last two are external to the compiler; they are what the mapping is *)
(* for.                                                                    *)
(***************************************************************************)
EXTENDS BarrierSimulator

VARIABLES
  pass,     \* the pass that runs
  wlm,      \* whether the PIDs were chosen under the WLM restriction
  active    \* FIFO -> whether its head task has started ("hardware", "free")

passVars == <<vars, pass, wlm, active>>

PassInit ==
  /\ Init
  /\ pass = "assign"
  /\ wlm = (mode = "wlm")
  /\ active = [f \in 1 .. NumFifos |-> FALSE]

SimulatorStep ==
  /\ pass \in {"assign", "validate"}
  /\ Next
  /\ UNCHANGED <<pass, wlm, active>>

Passed(p) == pass = p /\ stage = "done" /\ result = "success"

\* Mutant: PIDs by VID number, not by realId.
RewriteByVid ==
  /\ Passed("assign")
  /\ pass' = "validate"
  /\ Restart("static", [v \in Vids(prog) |-> v % NumPids])
  /\ UNCHANGED <<wlm, active>>

\* VirtualBarrierRewrite gives every ConfigureBarrierOp the realId of its VID;
\* the next pass builds a new simulator from the IR.
RewriteBarriers ==
  /\ Passed("assign")
  /\ pass' = "validate"
  /\ Restart("static", realId)
  /\ UNCHANGED <<wlm, active>>

Slots(users) == MapThenSumSet(LAMBDA t : prog.count[t], users)

\* The blob is loaded.
LoadSchedule(target) ==
  /\ Passed("validate")
  /\ target = "free" => wlm
  /\ pass' = target
  /\ producerCount' = [v \in Vids(prog) |-> Slots(Producers(v))]
  /\ consumerCount' = [v \in Vids(prog) |-> Slots(Consumers(v))]
  /\ toVirtual' = [r \in Pids |-> None]
  /\ prevVid' = [r \in Pids |-> None]
  /\ pos' = [f \in 1 .. NumFifos |-> 1]
  /\ UNCHANGED <<prog, mode, queue, bar, realId, nextReal, pidQueue, stage, step, fifo,
                 progressed, result, wlm, active>>

-----------------------------------------------------------------------------
Running == pass \in {"hardware", "free"}
AllRun == \A f \in 1 .. NumFifos : FifoComplete(f)

\* Mutant: the VID right after the previous one is missed.
NextOfPidSkipsOne(r) == {v \in Vids(prog) : realId[v] = r /\ v > prevVid[r] + 1}

\* linkNextIds: the next VID, in VID order, that uses the same PID.
NextOfPid(r) == {v \in Vids(prog) : realId[v] = r /\ v > prevVid[r]}

ProgramNext(r) ==
  /\ pass = "hardware"
  /\ toVirtual[r] = None
  /\ NextOfPid(r) # {}
  /\ Program(r, Min(NextOfPid(r)))
  /\ UNCHANGED <<prog, mode, parsed, bar, realId, nextReal, pidQueue, control, pass, wlm, active>>

Programmed(v) == pass = "free" \/ toVirtual[realId[v]] = v

StartTask(f) ==
  /\ Running
  /\ ~active[f]
  /\ ~FifoComplete(f)
  /\ \A v \in Vids(prog) :
       /\ InSeq(v, Waits(Task(f))) => Programmed(v) /\ producerCount[v] = 0
       /\ InSeq(v, Posts(Task(f))) => Programmed(v)
  /\ active' = [active EXCEPT ![f] = TRUE]
  /\ consumerCount' = [v \in Vids(prog) |->
       IF InSeq(v, Waits(Task(f))) THEN consumerCount[v] - prog.count[Task(f)] ELSE consumerCount[v]]
  /\ toVirtual' = [r \in Pids |->
       IF \E v \in Vids(prog) : toVirtual[r] = v /\ InSeq(v, Waits(Task(f))) /\ consumerCount'[v] = 0
       THEN None ELSE toVirtual[r]]
  /\ UNCHANGED <<prog, mode, queue, producerCount, bar, realId, prevVid, nextReal, pidQueue,
                 control, pass, wlm>>

FinishTask(f) ==
  /\ Running
  /\ active[f]
  /\ active' = [active EXCEPT ![f] = FALSE]
  /\ producerCount' = [v \in Vids(prog) |->
       IF InSeq(v, Posts(Task(f))) THEN producerCount[v] - prog.count[Task(f)] ELSE producerCount[v]]
  /\ pos' = [pos EXCEPT ![f] = @ + 1]
  /\ UNCHANGED <<prog, mode, queue, consumerCount, mapping, stage, step, fifo, progressed,
                 result, pass, wlm>>

RunStep ==
  \/ \E r \in Pids : ProgramNext(r)
  \/ \E f \in 1 .. NumFifos : StartTask(f) \/ FinishTask(f)

PassNext ==
  \/ SimulatorStep
  \/ RewriteBarriers
  \/ LoadSchedule("hardware")
  \/ LoadSchedule("free")
  \/ RunStep

\* Every FIFO of the NPU and every PID makes its step when it can.
PassSpec ==
  /\ PassInit
  /\ [][PassNext]_passVars
  /\ WF_passVars(RunStep)

-----------------------------------------------------------------------------
(***************************************************************************)
(* Properties.                                                             *)
(***************************************************************************)

\* The mapping AssignPhysicalBarriersPass succeeded with is never refused by
\* BarrierSimulationPass: validating fixed PIDs in VID order, where one VID
\* whose PID is busy holds back all later ones, blocks on no schedule that the
\* search among the free PIDs got through.
AssignedMappingValidates == pass = "validate" => result \in {"none", "success"}

\* A mapping that passed BarrierSimulationPass does not deadlock the NPU in
\* whatever order its FIFOs run and its PIDs are reprogrammed, although the
\* simulator tried a single order.
ValidatedScheduleRuns == Running ~> AllRun

\* canBarrierReusePidFromBarrier: under WLM nothing but the schedule itself
\* orders two VIDs on one PID, so no task may update the later one before
\* every consumer of the earlier one has started.
WlmPidReuseIsOrdered ==
  pass = "free" =>
    \A v, w \in Vids(prog) :
      (v < w /\ realId[v] = realId[w] /\ producerCount[w] < Slots(Producers(w)))
        => consumerCount[v] = 0
=============================================================================
