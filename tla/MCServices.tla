----------------------------- MODULE MCServices -----------------------------
(***************************************************************************)
(* Components whose models share no state, checked in one run: a behaviour *)
(* is one of exactly one of them, chosen in the initial state, under that  *)
(* component's own fairness.                                               *)
(***************************************************************************)
EXTENDS RuntimeKernel, ModelRuntime, ToolTurns, DirectTurns, LocalTurns

MCMaxRounds == [g \in Turns |-> 2]

VARIABLE chosen  \* the component

ServicesInit ==
  /\ chosen \in {"kernel", "model", "tools", "lane", "local"}
  /\ KernelInit /\ RuntimeInit /\ TurnInit /\ DirectInit /\ LocalInit

ServicesNext ==
  /\ UNCHANGED chosen
  /\ \/ /\ chosen = "kernel" /\ KernelNext
        /\ UNCHANGED <<runtimeVars, turnVars, laneVars, localVars>>
     \/ /\ chosen = "model" /\ RuntimeNext
        /\ UNCHANGED <<kernelVars, turnVars, laneVars, localVars>>
     \/ /\ chosen = "tools" /\ TurnNext
        /\ UNCHANGED <<kernelVars, runtimeVars, laneVars, localVars>>
     \/ /\ chosen = "lane" /\ DirectNext
        /\ UNCHANGED <<kernelVars, runtimeVars, turnVars, localVars>>
     \/ /\ chosen = "local" /\ LocalNext
        /\ UNCHANGED <<kernelVars, runtimeVars, turnVars, laneVars>>

\* The steps that the fairness of each component promises.  One condition on all of them
\* asks for less than one condition on each, and is enough.
KernelProgress ==
  \/ StartEnds \/ SupervisorStep \/ TaskEnds
  \/ \E d \in StopCallers :
       \/ ShutdownWaits(d) \/ DeadlineExpires(d) \/ ComponentStops(d) \/ StopEnds(d)
       \/ call[d] = "starting" /\ Stop(d)
ModelProgress ==
  \/ Dispatch \/ LimitCancelWritten \/ ReaderEnds \/ WatchdogFires
  \/ Written \/ WriteFails \/ ShutdownExpires \/ ShutdownJoined
ToolsProgress ==
  \/ TimerExpires \/ DispatchV \/ PipeEnds \/ JoinerFails \/ JoinerPoisons
  \/ WriteFailsV \/ TurnShutdownEnds \/ TurnShutdownExpires \/ \E w \in workers : WorkerStepV(w)
ServicesFairness ==
  /\ WF_kernelVars(chosen = "kernel" /\ KernelProgress)
  /\ WF_runtimeVars(chosen = "model" /\ ModelProgress)
  /\ WF_turnVars(chosen = "tools" /\ ToolsProgress)
  /\ WF_laneVars(chosen = "lane" /\ DirectProgress)
  /\ WF_localVars(chosen = "local" /\ LocalProgress)

ServicesSpec ==
  /\ ServicesInit
  /\ [][ServicesNext]_<<chosen, kernelVars, runtimeVars, turnVars, laneVars, localVars>>
  /\ ServicesFairness

-----------------------------------------------------------------------------
(* The two runtimes promise the same, and the two lanes promise the actor  *)
(* the same; nothing may be left running behind any of them.               *)

\* A generation that is cancelled, and one with tools that fails, settles although the sidecar
\* hangs or a tool never returns (runtime.py:1125, runtime_v3.py:630).
CancelledGenerationsSettle == CancelledSettles /\ CancelledTurnSettles

\* Nothing runs on behind what is over: a user turn, on the routed lane or on the local one,
\* has left no run streaming (conversation_router.py:345-378, conversation_adapter.py:51-71,
\* 242-325), and a stop() of the runtime that returned has left nothing running
\* (kernel.py:744-806).
NothingRunsOn == NoRunLeftStreaming /\ NoLocalTurnLeft /\ ReturnedIsQuiet

\* A user turn asked to cancel returns to the actor, whichever lane it is on
\* and wherever it was (conversation_adapter.py:201-325).
CancelledTurnsReturn == CancelledTurnReturns /\ CancelledLocalTurnReturns
=============================================================================
