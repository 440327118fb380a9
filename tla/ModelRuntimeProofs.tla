------------------------- MODULE ModelRuntimeProofs -------------------------
(***************************************************************************)
(* Proofs about the host's model runtimes and their sidecars.  V2: the two *)
(* pipes agree, and the runtime implements the generation slot.  V3, in    *)
(* the second part: no tool is started late, and the clients of the slot   *)
(* are offered the same.                                                   *)
(***************************************************************************)
EXTENDS ModelRuntime, ToolTurns, FiniteSetTheorems, TLAPS

Requested == Generations \cup {NoGeneration}
Occupants ==
  [gen : Requested, phase : {"none", "created", "accepted", "streaming", "cancelling"}, accepted : BOOLEAN]
Outcomes == {"none", "open"} \cup TerminalResults
Frames ==
  [type : {"generate"}, gen : Generations] \cup [type : {"cancel", "shutdown"}, gen : Requested]
EventTypes == {"ready", "shutdown", "accepted", "delta"} \cup TerminalResults
Codes == {"none", "startup_error", "provider_error", "not_active", "output_limit"} \cup Unconfirmed
Events == [type : EventTypes, gen : Requested, code : Codes]
Jobs == [gen : Requested, abort : BOOLEAN, limit : BOOLEAN, terminal : BOOLEAN, streamed : Nat]

\* What the variables range over, and the shape of an idle slot.
HostType ==
  /\ rtState \in {"new", "starting", "ready", "busy", "shutting_down", "closed", "failed"}
  /\ occupant \in Occupants
  /\ IF occupant.gen = NoGeneration THEN occupant = Idle ELSE occupant.phase # "none"
  /\ handles \in [Generations -> Outcomes]
  /\ limitCancel \in BOOLEAN
WireType ==
  /\ \/ command \in [type : {"generate", "cancel"}, gen : Generations]
     \/ command \in [type : {"none", "shutdown", "closing"}, gen : {NoGeneration}]
  /\ toSidecar \in Seq(Frames) /\ toHost \in Seq(Events)
SidecarType ==
  /\ sidecar \in [work : Jobs, state : {"starting", "serving", "ending", "closing"}, fatal : BOOLEAN]
  /\ process \in {"absent", "running", "exited", "crashed"}
TypeInv == HostType /\ WireType /\ SidecarType

Begun == {g \in Generations : epochs[g] > 0}

\* Epochs grow, and every frame under way is of a generation that has one.
EpochInv ==
  /\ epochs \in [Generations -> Nat]
  /\ IsFiniteSet(Begun) /\ \A g \in Generations : epochs[g] <= Cardinality(Begun)
  /\ \A g \in Generations : handles[g] = "none" => epochs[g] = 0
  /\ \A i \in 1..Len(toHost) : toHost[i].gen # NoGeneration => epochs[toHost[i].gen] > 0
  /\ \A i \in 1..Len(toSidecar) : toSidecar[i].gen # NoGeneration => epochs[toSidecar[i].gen] > 0
  /\ command.gen # NoGeneration => epochs[command.gen] > 0
  /\ sidecar.work.gen # NoGeneration => epochs[sidecar.work.gen] > 0
  /\ occupant.gen # NoGeneration =>
       /\ epochs[occupant.gen] > 0
       /\ \A g \in Generations \ {occupant.gen} : epochs[g] < epochs[occupant.gen]

Alive == rtState \notin {"closed", "failed"}

\* What the state of the runtime says about the two processes.
LifecycleInv ==
  /\ rtFailure # "protocol_violation"
  /\ rtState \in {"new", "starting", "ready", "closed", "failed"} => occupant = Idle
  /\ rtState = "new" =>
       process = "absent" /\ toHost = <<>> /\ sidecar.work.gen = NoGeneration
  /\ \A i, j \in 1..Len(toHost) : toHost[i].type = "ready" =>
       /\ sidecar.state # "starting"
       /\ toHost[j].type = "ready" => i = j
  /\ Alive /\ (\/ sidecar.state = "starting" /\ process # "absent"
               \/ \E i \in 1..Len(toHost) : toHost[i].type = "ready")
       => rtState \in {"starting", "shutting_down"}
  /\ (\/ command.type \in {"shutdown", "closing"} \/ sidecar.state = "closing"
      \/ \E i \in 1..Len(toSidecar) : toSidecar[i].type = "shutdown"
      \/ \E i \in 1..Len(toHost) : toHost[i].type = "shutdown")
       => rtState \in {"shutting_down", "closed", "failed"}

\* No request is on its way to the sidecar.
NoneSent == command.type # "generate" /\ \A i \in 1..Len(toSidecar) : toSidecar[i].type # "generate"

\* At most one request is on its way, and only to a sidecar that is free.
FlightInv ==
  /\ \A i, j \in 1..Len(toSidecar) :
       toSidecar[i].type = "generate" =>
         command.type # "generate" /\ (toSidecar[j].type = "generate" => i = j)
  /\ ~NoneSent => ~Running

\* What is on its way or runs is what the host waits for.
AwaitedInv ==
  Alive =>
    /\ command.type = "generate" => command.gen = occupant.gen
    /\ \A i \in 1..Len(toSidecar) : toSidecar[i].type = "generate" => toSidecar[i].gen = occupant.gen
    /\ Running => sidecar.work.gen = occupant.gen
    /\ limitCancel => occupant.accepted

Of(event, type, g) == event.type = type /\ event.gen = g

\* The frames of the active generation, in the order its sidecar keeps.
ExchangeInv ==
  LET g == occupant.gen IN
  g # NoGeneration =>
    /\ occupant.phase \in {"accepted", "streaming"} => occupant.accepted
    /\ occupant.phase = "created" => ~occupant.accepted
    /\ ~NoneSent => ~occupant.accepted /\ \A i \in 1..Len(toHost) : toHost[i].gen # g
    /\ \A i \in 1..Len(toHost) : toHost[i].gen = g /\ toHost[i].type \in TerminalResults => ~Running
    /\ \A i, j \in 1..Len(toHost) :
         Of(toHost[i], "accepted", g) =>
           ~occupant.accepted /\ (Of(toHost[j], "accepted", g) => i = j)
    /\ Running /\ ~occupant.accepted => \E i \in 1..Len(toHost) : Of(toHost[i], "accepted", g)
    /\ \A i \in 1..Len(toHost) :
         ~occupant.accepted /\ toHost[i].gen = g /\ toHost[i].type \in {"delta", "completed", "cancelled"} =>
           \E j \in 1..(i - 1) : Of(toHost[j], "accepted", g)
    /\ \A i \in 1..Len(toSidecar) :
         Of(toSidecar[i], "cancel", g) =>
           command.type # "generate" /\ \A j \in (i + 1)..Len(toSidecar) : toSidecar[j].type # "generate"

RuntimeInv == TypeInv /\ EpochInv /\ LifecycleInv /\ FlightInv /\ AwaitedInv /\ ExchangeInv
-----------------------------------------------------------------------------
\* Appending to a sequence, in the terms the invariant uses.
LEMMA Appended ==
  ASSUME NEW S, NEW s \in Seq(S), NEW e \in S
  PROVE  /\ Append(s, e) \in Seq(S) /\ Len(Append(s, e)) = Len(s) + 1 /\ Len(s) \in Nat
         /\ \A i \in 1..Len(s) : Append(s, e)[i] = s[i]
         /\ Append(s, e)[Len(s) + 1] = e
         /\ s \o <<e>> = Append(s, e)
         /\ \A i \in 1..(Len(s) + 1) : i \in 1..Len(s) \/ i = Len(s) + 1
  OBVIOUS

\* Taking the head off a sequence, in the terms the invariant uses.
LEMMA Removed ==
  ASSUME NEW S, NEW s \in Seq(S), s # <<>>
  PROVE  /\ Tail(s) \in Seq(S) /\ Len(Tail(s)) = Len(s) - 1 /\ Len(s) \in Nat /\ Len(s) >= 1
         /\ \A i \in 1..(Len(s) - 1) : Tail(s)[i] = s[i + 1]
         /\ Head(s) = s[1] /\ s[1] \in S
  OBVIOUS

\* _fail_runtime settles whatever held the slot and changes nothing of a runtime
\* that has ended.
LEMMA Failing ==
  ASSUME TypeInv, LifecycleInv, EpochInv, NEW kind, FailsRuntime(kind)
  PROVE  /\ rtState' \in {"closed", "failed"} /\ occupant' = Idle
         /\ handles' \in [Generations -> Outcomes]
         /\ \A g \in Generations : handles'[g] = "none" => handles[g] = "none"
         /\ (~Alive \/ kind # "protocol_violation") => rtFailure' # "protocol_violation"
         /\ ~Alive => rtState' = rtState
         /\ occupant' \in Occupants
  <1>1. CASE rtState \in {"closed", "failed"}
    BY <1>1 DEF FailsRuntime, TypeInv, LifecycleInv, Alive, TypeInv, HostType
  <1>2. CASE rtState \notin {"closed", "failed"}
    <2>1. /\ rtState' = "failed" /\ rtFailure' = kind /\ occupant' = Idle
          /\ handles' = IF occupant = Idle THEN handles ELSE Settle(occupant.gen, "failed")
      BY <1>2 DEF FailsRuntime
    <2>2. handles' \in [Generations -> Outcomes]
      BY <2>1 DEF TypeInv, HostType, Settle, TerminalResults, Outcomes
    <2>3. ASSUME NEW g \in Generations PROVE handles'[g] = "none" => handles[g] = "none"
      BY <2>1 DEF TypeInv, HostType, Settle, TerminalResults, Outcomes
    <2>4. Idle \in Occupants
      BY DEF Idle, Requested, Occupants
    <2> QED BY <1>2, <2>1, <2>2, <2>3, <2>4 DEF Alive
  <1> QED BY <1>1, <1>2

\* A runtime that has not been started satisfies the invariant.
LEMMA InitRuntimeInv == ASSUME RuntimeInit PROVE RuntimeInv
  <1> USE RuntimeAssumption DEF RuntimeInit, Requested
  <1>1. TypeInv
    <2>1. HostType BY DEF HostType, Idle, Occupants, Outcomes
    <2>2. WireType BY DEF WireType, NoCommand
    <2>3. Vacant \in Jobs BY DEF Vacant, Jobs
    <2>4. SidecarType BY <2>3 DEF SidecarType
    <2> QED BY <2>1, <2>2, <2>4 DEF TypeInv
  <1>2. EpochInv
    <2>1. Begun = {} BY DEF Begun
    <2>2. IsFiniteSet(Begun) /\ Cardinality(Begun) = 0 BY <2>1, FS_EmptySet
    <2> QED BY <2>2 DEF EpochInv, Idle, NoCommand, Vacant
  <1>3. LifecycleInv BY DEF LifecycleInv, NoCommand, Alive, Vacant
  <1>4. FlightInv BY DEF FlightInv, NoneSent, NoCommand, Running
  <1>5. AwaitedInv BY DEF AwaitedInv, NoCommand, Running
  <1>6. ExchangeInv BY DEF ExchangeInv, Idle
  <1> QED BY <1>1, <1>2, <1>3, <1>4, <1>5, <1>6 DEF RuntimeInv

\* Dropping a frame that is not the occupant's acceptance keeps the exchange in order.
LEMMA FrameDropped ==
  ASSUME RuntimeInv, toHost # <<>>, toHost' = Tail(toHost), UNCHANGED <<command, toSidecar, sideVars>>,
         ~Of(toHost[1], "accepted", occupant.gen),
         occupant'.gen = occupant.gen, occupant'.accepted = occupant.accepted,
         occupant.gen # NoGeneration =>
           /\ occupant'.phase \in {"accepted", "streaming"} => occupant'.accepted
           /\ occupant'.phase = "created" => ~occupant'.accepted
  PROVE  ExchangeInv'
  <1> USE DEF RuntimeInv
  <1> DEFINE g == occupant.gen
  <1>a. /\ toHost' \in Seq(Events) /\ Len(toHost') = Len(toHost) - 1 /\ Len(toHost) \in Nat /\ Len(toHost) >= 1
        /\ \A i \in 1..(Len(toHost) - 1) : toHost'[i] = toHost[i + 1] /\ i + 1 \in 1..Len(toHost)
    BY Removed DEF TypeInv, WireType
  <1>1. CASE g = NoGeneration BY <1>1 DEF ExchangeInv
  <1>2. CASE g # NoGeneration
    <2>1. /\ ~NoneSent' => ~NoneSent
          /\ Running' = Running
      BY DEF NoneSent, Running, sideVars
    <2>2. ASSUME NEW i \in 1..Len(toHost'), ~occupant.accepted, toHost'[i].gen = g,
                 toHost'[i].type \in {"delta", "completed", "cancelled"}
          PROVE  \E j \in 1..(i - 1) : Of(toHost'[j], "accepted", g)
      <3>1. i + 1 \in 1..Len(toHost) /\ toHost'[i] = toHost[i + 1] BY <1>a
      <3>2. PICK j \in 1..((i + 1) - 1) : Of(toHost[j], "accepted", g)
        BY <1>2, <2>2, <3>1 DEF ExchangeInv
      <3>3. j # 1 BY <3>2
      <3>4. j - 1 \in 1..(i - 1) /\ j - 1 \in 1..(Len(toHost) - 1) BY <1>a, <3>2, <3>3
      <3>5. toHost'[j - 1] = toHost[j] BY <1>a, <3>4
      <3> QED BY <3>2, <3>4, <3>5
    <2>3. ASSUME Running', ~occupant.accepted PROVE \E j \in 1..Len(toHost') : Of(toHost'[j], "accepted", g)
      <3>1. PICK j \in 1..Len(toHost) : Of(toHost[j], "accepted", g)
        BY <1>2, <2>1, <2>3 DEF ExchangeInv
      <3>2. j # 1 BY <3>1
      <3>3. j - 1 \in 1..Len(toHost') /\ j - 1 \in 1..(Len(toHost) - 1) BY <1>a, <3>1, <3>2
      <3>4. toHost'[j - 1] = toHost[j] BY <1>a, <3>3
      <3> QED BY <3>1, <3>3, <3>4
    <2>4. ASSUME NEW i \in 1..Len(toHost'), NEW j \in 1..Len(toHost'), Of(toHost'[i], "accepted", g)
          PROVE  ~occupant.accepted /\ (Of(toHost'[j], "accepted", g) => i = j)
      BY <1>2, <1>a, <2>4 DEF ExchangeInv
    <2>5. ASSUME NEW i \in 1..Len(toHost')
          PROVE  /\ ~NoneSent' => toHost'[i].gen # g
                 /\ toHost'[i].gen = g /\ toHost'[i].type \in TerminalResults => ~Running'
      BY <1>2, <1>a, <2>1 DEF ExchangeInv
    <2>6. ~NoneSent' => ~occupant.accepted BY <1>2, <2>1 DEF ExchangeInv
    <2>7. \A i \in 1..Len(toSidecar') :
            Of(toSidecar'[i], "cancel", g) =>
              command'.type # "generate" /\ \A j \in (i + 1)..Len(toSidecar') : toSidecar'[j].type # "generate"
      BY <1>2 DEF ExchangeInv
    <2> HIDE DEF g
    <2> QED BY <1>2, <2>2, <2>3, <2>4, <2>5, <2>6, <2>7 DEF ExchangeInv, g, sideVars
  <1> QED BY <1>1, <1>2
\* start() keeps the invariant.
LEMMA StartRuntimeStep == ASSUME RuntimeInv, StartRuntime PROVE RuntimeInv'
  <1> USE RuntimeAssumption DEF RuntimeInv, Requested
  <1>1. HostType'
    BY DEF HostType, TypeInv, StartRuntime
  <1>2. WireType'
    BY DEF WireType, TypeInv, StartRuntime
  <1>3. SidecarType'
    BY DEF SidecarType, TypeInv, StartRuntime
  <1>4. EpochInv'
    BY DEF EpochInv, StartRuntime, Begun
  <1>5. LifecycleInv'
    BY DEF LifecycleInv, StartRuntime
  <1>6. FlightInv'
    BY DEF FlightInv, StartRuntime, Running, LifecycleInv
  <1>7. AwaitedInv'
    BY DEF AwaitedInv, StartRuntime, Idle, Alive, LifecycleInv
  <1>8. ExchangeInv'
    BY DEF ExchangeInv, StartRuntime, Idle, LifecycleInv
  <1> QED BY <1>1, <1>2, <1>3, <1>4, <1>5, <1>6, <1>7, <1>8 DEF RuntimeInv, TypeInv

\* The startup timeout keeps the invariant.
LEMMA StartTimesOutStep == ASSUME RuntimeInv, StartTimesOut PROVE RuntimeInv'
  <1> USE RuntimeAssumption DEF RuntimeInv, Requested
  <1>0. PICK kind : FailsRuntime(kind) /\ kind # "protocol_violation" BY DEF StartTimesOut
  <1>1. HostType'
    BY <1>0, Failing DEF HostType, TypeInv, StartTimesOut, Idle
  <1>2. WireType'
    BY <1>0, Failing DEF WireType, TypeInv, StartTimesOut
  <1>3. SidecarType'
    BY <1>0, Failing DEF SidecarType, TypeInv, StartTimesOut, sideVars
  <1>4. EpochInv'
    BY <1>0, Failing DEF EpochInv, StartTimesOut, sideVars, Idle, Begun
  <1>5. LifecycleInv'
    BY <1>0, Failing DEF LifecycleInv, StartTimesOut, sideVars, Alive
  <1>6. FlightInv'
    BY <1>0, Failing DEF FlightInv, SidecarType, StartTimesOut, sideVars, NoneSent, Running
  <1>7. AwaitedInv'
    BY <1>0, Failing DEF AwaitedInv, Alive
  <1>8. ExchangeInv'
    BY <1>0, Failing DEF ExchangeInv, Idle
  <1> QED BY <1>1, <1>2, <1>3, <1>4, <1>5, <1>6, <1>7, <1>8 DEF RuntimeInv, TypeInv

\* generate() keeps the invariant.
LEMMA ReserveStep == ASSUME RuntimeInv, NEW g \in Generations, Reserve(g) PROVE RuntimeInv'
  <1> USE RuntimeAssumption DEF RuntimeInv, Requested
  <1>a. /\ occupant.gen = NoGeneration /\ command.type = "none" /\ Alive /\ ~limitCancel /\ rtState = "ready"
        /\ epochs[g] = 0
    BY DEF Reserve, Idle, NoCommand, Alive, AwaitedInv, EpochInv
  <1>b. NoneSent /\ ~Running
    BY <1>a DEF NoneSent, AwaitedInv, TypeInv, WireType, Frames, Running
  <1>c. /\ \A i \in 1..Len(toHost) : toHost[i].gen # g
        /\ \A i \in 1..Len(toSidecar) : toSidecar[i].gen # g
    BY <1>a DEF EpochInv
  <1>d. occupant' = [gen |-> g, phase |-> "created", accepted |-> FALSE] /\ command' = [type |-> "generate", gen |-> g]
    BY DEF Reserve, Command
  <1>1. HostType'
    BY <1>a, <1>b, <1>c, <1>d DEF HostType, TypeInv, Reserve, Occupants, Outcomes
  <1>2. WireType'
    BY <1>a, <1>b, <1>c, <1>d DEF WireType, TypeInv, Reserve
  <1>3. SidecarType'
    BY <1>a, <1>b, <1>c, <1>d DEF SidecarType, TypeInv, Reserve, sideVars
  <1>4. EpochInv'
    <2>0. epochs' = [epochs EXCEPT ![g] = 1 + Cardinality(Begun)] /\ Cardinality(Begun) \in Nat
      BY FS_CardinalityType DEF Begun, Reserve, EpochInv
    <2>a. \A p \in Generations : epochs'[p] = IF p = g THEN 1 + Cardinality(Begun) ELSE epochs[p]
      BY <2>0 DEF EpochInv
    <2>b. Begun' = {p \in Generations : epochs'[p] > 0} BY DEF Begun
    <2>1. Begun' = Begun \cup {g} /\ g \notin Begun /\ epochs'[g] = 1 + Cardinality(Begun)
      <3>1. \A p \in Generations : p \in Begun <=> epochs[p] > 0 BY DEF Begun
      <3>2. Begun \subseteq Generations /\ Begun' \subseteq Generations BY <2>b DEF Begun
      <3>3. \A p \in Generations : p \in Begun' <=> (p \in Begun \/ p = g)
        <4> HIDE DEF Begun
        <4> QED BY <1>a, <2>0, <2>a, <2>b, <3>1 DEF EpochInv
      <3> HIDE DEF Begun
      <3> QED BY <1>a, <2>a, <2>0, <3>1, <3>2, <3>3
    <2>2. IsFiniteSet(Begun') /\ Cardinality(Begun') = Cardinality(Begun) + 1 /\ Cardinality(Begun) \in Nat
      BY <2>1, FS_AddElement, FS_CardinalityType DEF EpochInv
    <2>3. \A p \in Generations \ {g} : epochs'[p] = epochs[p] /\ epochs[p] <= Cardinality(Begun)
      BY DEF Reserve, EpochInv
    <2>4. /\ epochs' \in [Generations -> Nat]
          /\ \A p \in Generations : handles'[p] = "none" => epochs'[p] = 0
          /\ \A p \in Generations : epochs[p] > 0 => epochs'[p] > 0
      BY <1>a, <2>0, <2>1 DEF EpochInv, Reserve, TypeInv, HostType
    <2>5. \A p \in Generations : epochs'[p] <= Cardinality(Begun')
      <3> HIDE DEF Begun
      <3> QED BY <2>1, <2>2, <2>3 DEF EpochInv
    <2>6. ASSUME NEW p \in Generations \ {g} PROVE epochs'[p] < epochs'[g]
      <3> HIDE DEF Begun
      <3> QED BY <2>0, <2>1, <2>3 DEF EpochInv
    <2>7. /\ \A i \in 1..Len(toHost) : toHost[i].gen # NoGeneration => epochs'[toHost[i].gen] > 0
          /\ \A i \in 1..Len(toSidecar) : toSidecar[i].gen # NoGeneration => epochs'[toSidecar[i].gen] > 0
          /\ sidecar.work.gen # NoGeneration => epochs'[sidecar.work.gen] > 0
          /\ epochs'[g] > 0
      <3>1. /\ \A i \in 1..Len(toHost) : toHost[i].gen # NoGeneration => toHost[i].gen \in Generations
            /\ \A i \in 1..Len(toSidecar) : toSidecar[i].gen # NoGeneration => toSidecar[i].gen \in Generations
            /\ sidecar.work.gen # NoGeneration => sidecar.work.gen \in Generations
        <4>1. (\A i \in 1..Len(toHost) : toHost[i] \in Events) /\ \A i \in 1..Len(toSidecar) : toSidecar[i] \in Frames
          BY DEF TypeInv, WireType
        <4>2. sidecar.work.gen \in Requested BY DEF TypeInv, SidecarType, Jobs
        <4> QED BY <4>1, <4>2 DEF Frames, Events
      <3>2. epochs'[g] > 0
        <4> HIDE DEF Begun
        <4> QED BY <2>0, <2>1
      <3> QED BY <2>4, <3>1, <3>2 DEF EpochInv
    <2>8. UNCHANGED <<toHost, toSidecar, sidecar>> BY DEF Reserve, sideVars
    <2> HIDE DEF Begun
    <2> QED BY <1>d, <2>2, <2>4, <2>5, <2>6, <2>7, <2>8 DEF EpochInv
  <1>5. LifecycleInv'
    BY <1>a, <1>b, <1>c, <1>d DEF LifecycleInv, Reserve, sideVars
  <1>6. FlightInv'
    BY <1>a, <1>b, <1>c, <1>d DEF FlightInv, Reserve, sideVars, NoneSent, Running
  <1>7. AwaitedInv'
    BY <1>a, <1>b, <1>c, <1>d DEF AwaitedInv, Reserve, sideVars, NoneSent, Running
  <1>8. ExchangeInv'
    BY <1>a, <1>b, <1>c, <1>d DEF ExchangeInv, Reserve, sideVars, Running, Of
  <1> QED BY <1>1, <1>2, <1>3, <1>4, <1>5, <1>6, <1>7, <1>8 DEF RuntimeInv, TypeInv

\* cancel() keeps the invariant.
LEMMA CancelActiveStep == ASSUME RuntimeInv, NEW g \in Generations, CancelActive(g) PROVE RuntimeInv'
  <1> USE RuntimeAssumption DEF RuntimeInv, Requested
  <1>1. HostType'
    BY DEF HostType, TypeInv, CancelActive, Occupants, TerminalResults
  <1>2. WireType'
    BY DEF WireType, TypeInv, CancelActive, Command
  <1>3. SidecarType'
    BY DEF SidecarType, TypeInv, CancelActive, sideVars
  <1>4. EpochInv'
    BY DEF EpochInv, CancelActive, sideVars, Command, Begun
  <1>5. LifecycleInv'
    BY DEF LifecycleInv, CancelActive, sideVars, Command, Idle, Alive
  <1>6. FlightInv'
    BY DEF FlightInv, CancelActive, sideVars, Command, NoneSent, Running
  <1>7. AwaitedInv'
    BY DEF AwaitedInv, CancelActive, sideVars, Command, Running, Alive
  <1>8. ExchangeInv'
    BY DEF ExchangeInv, CancelActive, sideVars, Command, NoneSent, Running
  <1> QED BY <1>1, <1>2, <1>3, <1>4, <1>5, <1>6, <1>7, <1>8 DEF RuntimeInv, TypeInv

\* A completed write keeps the invariant.
LEMMA WrittenStep == ASSUME RuntimeInv, Written PROVE RuntimeInv'
  <1> USE RuntimeAssumption DEF RuntimeInv, Requested
  <1>a. command \in Frames /\ toSidecar \in Seq(Frames) /\ command.type \in {"generate", "cancel", "shutdown"}
    <2>1. command.type # "none" BY DEF Written, TypeInv, WireType, NoCommand
    <2> QED BY <2>1 DEF Written, TypeInv, WireType, Frames
  <1>b. /\ toSidecar' \in Seq(Frames) /\ Len(toSidecar') = Len(toSidecar) + 1 /\ Len(toSidecar) \in Nat
        /\ \A i \in 1..Len(toSidecar) : toSidecar'[i] = toSidecar[i]
        /\ toSidecar'[Len(toSidecar) + 1] = command
        /\ \A i \in 1..(Len(toSidecar) + 1) : i \in 1..Len(toSidecar) \/ i = Len(toSidecar) + 1
    BY <1>a, Appended DEF Written
  <1>1. HostType'
    BY <1>a, <1>b DEF HostType, TypeInv, Written
  <1>2. WireType'
    BY <1>a, <1>b DEF WireType, TypeInv, Written, Command, NoCommand
  <1>3. SidecarType'
    BY <1>a, <1>b DEF SidecarType, TypeInv, Written, sideVars
  <1>4. EpochInv'
    BY <1>a, <1>b DEF EpochInv, Written, sideVars, Command, NoCommand, Begun
  <1>5. LifecycleInv'
    BY <1>a, <1>b DEF LifecycleInv, Written, sideVars, Command, NoCommand, Alive
  <1>6. FlightInv'
    BY <1>a, <1>b DEF FlightInv, Written, sideVars, Command, NoCommand, Idle, NoneSent, Running
  <1>7. AwaitedInv'
    BY <1>a, <1>b DEF AwaitedInv, Written, sideVars, Command, NoCommand, Running, Alive
  <1>8. ExchangeInv'
    BY <1>a, <1>b DEF ExchangeInv, Written, sideVars, Command, NoCommand, NoneSent, Running
  <1> QED BY <1>1, <1>2, <1>3, <1>4, <1>5, <1>6, <1>7, <1>8 DEF RuntimeInv, TypeInv

\* A request that cannot be encoded keeps the invariant.
LEMMA UnencodableStep == ASSUME RuntimeInv, Unencodable PROVE RuntimeInv'
  <1> USE RuntimeAssumption DEF RuntimeInv, Requested
  <1>1. HostType'
    BY DEF HostType, TypeInv, WireType, Unencodable, Idle, Finishes, Occupants, Outcomes, Settle,
       TerminalResults
  <1>2. WireType'
    BY DEF WireType, TypeInv, Unencodable, NoCommand
  <1>3. SidecarType'
    BY DEF SidecarType, TypeInv, Unencodable, sideVars
  <1>4. EpochInv'
    BY DEF EpochInv, WireType, SidecarType, Unencodable, sideVars, NoCommand, Idle, Finishes, Begun,
       Settle
  <1>5. LifecycleInv'
    BY DEF LifecycleInv, Unencodable, sideVars, NoCommand, Idle, Finishes, Alive
  <1>6. FlightInv'
    BY DEF FlightInv, Unencodable, NoCommand, NoneSent
  <1>7. AwaitedInv'
    BY DEF AwaitedInv, TypeInv, HostType, Unencodable, sideVars, NoCommand, Finishes, NoneSent,
       Running, Alive, ExchangeInv, FlightInv
  <1>8. ExchangeInv'
    BY DEF ExchangeInv, Unencodable, Idle, Finishes
  <1> QED BY <1>1, <1>2, <1>3, <1>4, <1>5, <1>6, <1>7, <1>8 DEF RuntimeInv, TypeInv

\* A failed write keeps the invariant.
LEMMA WriteFailsStep == ASSUME RuntimeInv, WriteFails PROVE RuntimeInv'
  <1> USE RuntimeAssumption DEF RuntimeInv, Requested
  <1>0. PICK kind : FailsRuntime(kind) /\ kind # "protocol_violation" BY DEF WriteFails
  <1>1. HostType'
    BY <1>0, Failing DEF HostType, TypeInv, WriteFails, Idle
  <1>2. WireType'
    BY <1>0, Failing DEF WireType, TypeInv, WriteFails, Command, NoCommand
  <1>3. SidecarType'
    BY <1>0, Failing DEF SidecarType, TypeInv, WriteFails, sideVars
  <1>4. EpochInv'
    BY <1>0, Failing DEF EpochInv, WriteFails, sideVars, Command, NoCommand, Idle, Begun
  <1>5. LifecycleInv'
    BY <1>0, Failing DEF LifecycleInv, WriteFails, sideVars, Alive
  <1>6. FlightInv'
    <2>1. command'.type # "generate" /\ toSidecar' = toSidecar /\ sidecar' = sidecar /\ process' = process
      BY DEF WriteFails, Command, NoCommand, sideVars
    <2> QED BY <2>1 DEF FlightInv, NoneSent, Running
  <1>7. AwaitedInv'
    BY <1>0, Failing DEF AwaitedInv, Alive
  <1>8. ExchangeInv'
    BY <1>0, Failing DEF ExchangeInv, Idle
  <1> QED BY <1>1, <1>2, <1>3, <1>4, <1>5, <1>6, <1>7, <1>8 DEF RuntimeInv, TypeInv

\* The shutdown timeout keeps the invariant.
LEMMA ShutdownExpiresStep == ASSUME RuntimeInv, ShutdownExpires PROVE RuntimeInv'
  <1> USE RuntimeAssumption DEF RuntimeInv, Requested
  <1>1. HostType'
    BY DEF HostType, TypeInv, ShutdownExpires, Idle, Occupants, Outcomes, Settle, TerminalResults
  <1>2. WireType'
    BY DEF WireType, TypeInv, ShutdownExpires, NoCommand
  <1>3. SidecarType'
    BY DEF SidecarType, TypeInv, ShutdownExpires
  <1>4. EpochInv'
    BY DEF EpochInv, ShutdownExpires, NoCommand, Idle, Begun, Settle
  <1>5. LifecycleInv'
    BY DEF LifecycleInv, ShutdownExpires, Alive
  <1>6. FlightInv'
    BY DEF FlightInv, ShutdownExpires, NoCommand, Running
  <1>7. AwaitedInv'
    BY DEF AwaitedInv, ShutdownExpires, Alive
  <1>8. ExchangeInv'
    BY DEF ExchangeInv, ShutdownExpires, Idle
  <1> QED BY <1>1, <1>2, <1>3, <1>4, <1>5, <1>6, <1>7, <1>8 DEF RuntimeInv, TypeInv

\* A joined shutdown keeps the invariant.
LEMMA ShutdownJoinedStep == ASSUME RuntimeInv, ShutdownJoined PROVE RuntimeInv'
  <1> USE RuntimeAssumption DEF RuntimeInv, Requested
  <1>1. HostType'
    BY DEF HostType, TypeInv, ShutdownJoined, Idle, Occupants, Outcomes, Settle, TerminalResults
  <1>2. WireType'
    BY DEF WireType, TypeInv, ShutdownJoined, NoCommand
  <1>3. SidecarType'
    BY DEF SidecarType, TypeInv, ShutdownJoined, sideVars
  <1>4. EpochInv'
    BY DEF EpochInv, ShutdownJoined, sideVars, NoCommand, Idle, Begun, Settle
  <1>5. LifecycleInv'
    BY DEF LifecycleInv, ShutdownJoined, sideVars, Alive
  <1>6. FlightInv'
    BY DEF FlightInv, ShutdownJoined, sideVars, NoCommand, Running
  <1>7. AwaitedInv'
    BY DEF AwaitedInv, ShutdownJoined, Alive
  <1>8. ExchangeInv'
    BY DEF ExchangeInv, ShutdownJoined, Idle
  <1> QED BY <1>1, <1>2, <1>3, <1>4, <1>5, <1>6, <1>7, <1>8 DEF RuntimeInv, TypeInv

\* The watchdog keeps the invariant.
LEMMA WatchdogFiresStep == ASSUME RuntimeInv, WatchdogFires PROVE RuntimeInv'
  <1> USE RuntimeAssumption DEF RuntimeInv, Requested
  <1>0. PICK kind : FailsRuntime(kind) /\ kind # "protocol_violation" BY DEF WatchdogFires
  <1>1. HostType'
    BY <1>0, Failing DEF HostType, TypeInv, WatchdogFires, Idle
  <1>2. WireType'
    BY <1>0, Failing DEF WireType, TypeInv, WatchdogFires
  <1>3. SidecarType'
    BY <1>0, Failing DEF SidecarType, TypeInv, WatchdogFires, sideVars
  <1>4. EpochInv'
    BY <1>0, Failing DEF EpochInv, WatchdogFires, sideVars, Idle, Begun
  <1>5. LifecycleInv'
    BY <1>0, Failing DEF LifecycleInv, WatchdogFires, sideVars, Alive
  <1>6. FlightInv'
    BY <1>0, Failing DEF FlightInv, WatchdogFires, sideVars, NoneSent, Running
  <1>7. AwaitedInv'
    BY <1>0, Failing DEF AwaitedInv, Alive
  <1>8. ExchangeInv'
    BY <1>0, Failing DEF ExchangeInv, Idle
  <1> QED BY <1>1, <1>2, <1>3, <1>4, <1>5, <1>6, <1>7, <1>8 DEF RuntimeInv, TypeInv

\* The sidecar's crash keeps the invariant.
LEMMA CrashesStep == ASSUME RuntimeInv, Crashes PROVE RuntimeInv'
  <1> USE RuntimeAssumption DEF RuntimeInv, Requested
  <1>1. HostType'
    BY DEF HostType, TypeInv, Crashes, ownVars
  <1>2. WireType'
    BY DEF WireType, TypeInv, Crashes, ownVars
  <1>3. SidecarType'
    BY DEF SidecarType, TypeInv, Crashes
  <1>4. EpochInv'
    BY DEF EpochInv, Crashes, ownVars, Begun
  <1>5. LifecycleInv'
    BY DEF LifecycleInv, Crashes, ownVars, Alive
  <1>6. FlightInv'
    BY DEF FlightInv, Crashes, ownVars, Running
  <1>7. AwaitedInv'
    BY DEF AwaitedInv, Crashes, ownVars, Running, Alive
  <1>8. ExchangeInv'
    BY DEF ExchangeInv, Crashes, ownVars, NoneSent, Running
  <1> QED BY <1>1, <1>2, <1>3, <1>4, <1>5, <1>6, <1>7, <1>8 DEF RuntimeInv, TypeInv
\* The ready frame keeps the invariant.
LEMMA ReadyReceivedStep == ASSUME RuntimeInv, ReadyReceived PROVE RuntimeInv'
  <1> USE RuntimeAssumption DEF RuntimeInv, Requested
  <1>a. /\ toHost' \in Seq(Events) /\ Len(toHost') = Len(toHost) - 1 /\ Len(toHost) \in Nat /\ Len(toHost) >= 1
        /\ \A i \in 1..(Len(toHost) - 1) : toHost'[i] = toHost[i + 1] /\ i + 1 \in 1..Len(toHost)
        /\ Head(toHost) = toHost[1] /\ toHost[1] \in Events /\ 1 \in 1..Len(toHost)
    BY Removed DEF ReadyReceived, Received, TypeInv, WireType
  <1>b. rtState \in {"starting", "shutting_down"} \/ ~Alive
    BY <1>a DEF ReadyReceived, Received, LifecycleInv
  <1>c. \/ rtState = "starting" /\ rtState' = "ready" /\ UNCHANGED <<rtFailure, occupant, handles>>
        \/ UNCHANGED <<rtState, rtFailure, occupant, handles>>
    BY <1>b DEF ReadyReceived, FailsRuntime, Alive
  <1>1. HostType'
    BY <1>a, <1>b, <1>c DEF HostType, TypeInv, ReadyReceived
  <1>2. WireType'
    BY <1>a, <1>b, <1>c DEF WireType, TypeInv, ReadyReceived, Received
  <1>3. SidecarType'
    BY <1>a, <1>b, <1>c DEF SidecarType, TypeInv, ReadyReceived, sideVars, Received
  <1>4. EpochInv'
    BY <1>a, <1>b, <1>c DEF EpochInv, ReadyReceived, sideVars, Received, Begun
  <1>5. LifecycleInv'
    BY <1>a, <1>b, <1>c DEF LifecycleInv, SidecarType, ReadyReceived, sideVars, Idle, Received,
       Alive
  <1>6. FlightInv'
    BY <1>a, <1>b, <1>c DEF FlightInv, ReadyReceived, sideVars, Received, NoneSent, Running
  <1>7. AwaitedInv'
    BY <1>a, <1>b, <1>c DEF AwaitedInv, ReadyReceived, sideVars, Received, Running, Alive
  <1>8. ExchangeInv'
    <2>1. toHost # <<>> /\ toHost' = Tail(toHost) /\ UNCHANGED <<command, toSidecar, sideVars>>
      BY <1>c DEF ReadyReceived, Received
    <2>2. ~Of(toHost[1], "accepted", occupant.gen)
      BY <1>a, <1>c DEF ReadyReceived, Received, Of
    <2>3. occupant' = occupant BY <1>c
    <2> QED BY <2>1, <2>2, <2>3, FrameDropped DEF ExchangeInv
  <1> QED BY <1>1, <1>2, <1>3, <1>4, <1>5, <1>6, <1>7, <1>8 DEF RuntimeInv, TypeInv

\* The shutdown frame keeps the invariant.
LEMMA ShutdownReceivedStep == ASSUME RuntimeInv, ShutdownReceived PROVE RuntimeInv'
  <1> USE RuntimeAssumption DEF RuntimeInv, Requested
  <1>a. /\ toHost' \in Seq(Events) /\ Len(toHost') = Len(toHost) - 1 /\ Len(toHost) \in Nat /\ Len(toHost) >= 1
        /\ \A i \in 1..(Len(toHost) - 1) : toHost'[i] = toHost[i + 1] /\ i + 1 \in 1..Len(toHost)
        /\ Head(toHost) = toHost[1] /\ toHost[1] \in Events /\ 1 \in 1..Len(toHost)
    BY Removed DEF ShutdownReceived, Received, TypeInv, WireType
  <1>b. UNCHANGED <<rtState, rtFailure, occupant, handles>>
    BY <1>a DEF ShutdownReceived, Received, LifecycleInv, FailsRuntime, Alive
  <1>1. HostType'
    BY <1>a, <1>b DEF HostType, TypeInv, ShutdownReceived
  <1>2. WireType'
    BY <1>a, <1>b DEF WireType, TypeInv, ShutdownReceived, Received
  <1>3. SidecarType'
    BY <1>a, <1>b DEF SidecarType, TypeInv, ShutdownReceived, sideVars, Received
  <1>4. EpochInv'
    BY <1>a, <1>b DEF EpochInv, ShutdownReceived, sideVars, Received, Begun
  <1>5. LifecycleInv'
    BY <1>a, <1>b DEF LifecycleInv, HostType, WireType, ShutdownReceived, sideVars, Received, Alive
  <1>6. FlightInv'
    BY <1>a, <1>b DEF FlightInv, ShutdownReceived, sideVars, Idle, Received, NoneSent, Running
  <1>7. AwaitedInv'
    BY <1>a, <1>b DEF AwaitedInv, ShutdownReceived, sideVars, Received, Running, Alive
  <1>8. ExchangeInv'
    <2>1. toHost # <<>> /\ toHost' = Tail(toHost) /\ UNCHANGED <<command, toSidecar, sideVars>>
      BY <1>b DEF ShutdownReceived, Received
    <2>2. ~Of(toHost[1], "accepted", occupant.gen)
      BY <1>a, <1>b DEF ShutdownReceived, Received, Of
    <2>3. occupant' = occupant BY <1>b
    <2> QED BY <2>1, <2>2, <2>3, FrameDropped DEF ExchangeInv
  <1> QED BY <1>1, <1>2, <1>3, <1>4, <1>5, <1>6, <1>7, <1>8 DEF RuntimeInv, TypeInv

\* The sidecar's own failure frame keeps the invariant.
LEMMA SidecarFailedReceivedStep == ASSUME RuntimeInv, SidecarFailedReceived PROVE RuntimeInv'
  <1> USE RuntimeAssumption DEF RuntimeInv, Requested
  <1>a. /\ toHost' \in Seq(Events) /\ Len(toHost') = Len(toHost) - 1 /\ Len(toHost) \in Nat /\ Len(toHost) >= 1
        /\ \A i \in 1..(Len(toHost) - 1) : toHost'[i] = toHost[i + 1] /\ i + 1 \in 1..Len(toHost)
        /\ Head(toHost) = toHost[1] /\ toHost[1] \in Events /\ 1 \in 1..Len(toHost)
    BY Removed DEF SidecarFailedReceived, Received, TypeInv, WireType
  <1>0. PICK kind : FailsRuntime(kind) /\ kind # "protocol_violation" BY DEF SidecarFailedReceived
  <1>1. HostType'
    BY <1>0, Failing, <1>a DEF HostType, TypeInv, SidecarFailedReceived, Idle
  <1>2. WireType'
    BY <1>0, Failing, <1>a DEF WireType, TypeInv, SidecarFailedReceived, Received
  <1>3. SidecarType'
    BY <1>0, Failing, <1>a DEF SidecarType, TypeInv, SidecarFailedReceived, sideVars, Received
  <1>4. EpochInv'
    BY <1>0, Failing, <1>a DEF EpochInv, SidecarFailedReceived, sideVars, Idle, Received, Begun
  <1>5. LifecycleInv'
    BY <1>0, Failing, <1>a DEF LifecycleInv, HostType, SidecarFailedReceived, sideVars, Received,
       Alive
  <1>6. FlightInv'
    BY <1>0, Failing, <1>a DEF FlightInv, SidecarFailedReceived, sideVars, Idle, Received, NoneSent,
       Running
  <1>7. AwaitedInv'
    BY <1>0, Failing, <1>a DEF AwaitedInv, Alive
  <1>8. ExchangeInv'
    BY <1>0, Failing, <1>a DEF ExchangeInv, Idle
  <1> QED BY <1>1, <1>2, <1>3, <1>4, <1>5, <1>6, <1>7, <1>8 DEF RuntimeInv, TypeInv

\* A frame of a generation the host does not wait for keeps the invariant.
LEMMA StrayReceivedStep == ASSUME RuntimeInv, StrayReceived PROVE RuntimeInv'
  <1> USE RuntimeAssumption DEF RuntimeInv, Requested
  <1>a. /\ toHost' \in Seq(Events) /\ Len(toHost') = Len(toHost) - 1 /\ Len(toHost) \in Nat /\ Len(toHost) >= 1
        /\ \A i \in 1..(Len(toHost) - 1) : toHost'[i] = toHost[i + 1] /\ i + 1 \in 1..Len(toHost)
        /\ Head(toHost) = toHost[1] /\ toHost[1] \in Events /\ 1 \in 1..Len(toHost)
    BY Removed DEF StrayReceived, Received, TypeInv, WireType
  <1>b. Head(toHost).gen \in Generations /\ epochs[Head(toHost).gen] > 0
    BY <1>a DEF StrayReceived, EpochInv, Events
  <1>c. Ignorable(Head(toHost))
    <2>1. CASE occupant = Idle BY <1>b, <2>1 DEF Ignorable
    <2>2. CASE occupant # Idle
      <3>1. occupant.gen # NoGeneration /\ Head(toHost).gen # occupant.gen
        BY <2>2 DEF StrayReceived, Addressed, TypeInv, HostType
      <3> QED BY <1>b, <2>2, <3>1 DEF Ignorable, EpochInv
    <2> QED BY <2>1, <2>2
  <1>d. UNCHANGED <<rtState, rtFailure, occupant, handles, limitCancel, epochs, command, toSidecar, sideVars>>
    BY <1>c DEF StrayReceived, Received
  <1>e. ~Addressed(Head(toHost)) BY DEF StrayReceived
  <1>f. toHost # <<>> /\ toHost' = Tail(toHost) BY DEF StrayReceived, Received
  <1> HIDE DEF StrayReceived
  <1>1. HostType'
    BY <1>a, <1>d, <1>e DEF HostType, TypeInv
  <1>2. WireType'
    BY <1>a, <1>d, <1>e DEF WireType, TypeInv
  <1>3. SidecarType'
    BY <1>a, <1>d, <1>e DEF SidecarType, TypeInv, sideVars
  <1>g. UNCHANGED <<rtState, rtFailure, occupant, handles, limitCancel, epochs, command, toSidecar, sidecar, process>>
    BY <1>d DEF sideVars
  <1>4. EpochInv'
    <2>1. \A i \in 1..Len(toHost') : toHost'[i].gen # NoGeneration => epochs[toHost'[i].gen] > 0
      BY <1>a DEF EpochInv
    <2>2. UNCHANGED Begun
      BY <1>g DEF Begun
    <2> QED BY <1>g, <2>1, <2>2 DEF EpochInv
  <1>5. LifecycleInv'
    <2>1. \A i, j \in 1..Len(toHost') : toHost'[i].type = "ready" =>
            /\ sidecar.state # "starting"
            /\ toHost'[j].type = "ready" => i = j
      <3>1. \A i \in 1..Len(toHost') : i \in Int /\ toHost'[i] = toHost[i + 1] /\ i + 1 \in 1..Len(toHost)
        BY <1>a
      <3>2. \A i, j \in 1..Len(toHost) : toHost[i].type = "ready" =>
              /\ sidecar.state # "starting"
              /\ toHost[j].type = "ready" => i = j
        BY DEF LifecycleInv
      <3> TAKE i, j \in 1..Len(toHost')
      <3> HAVE toHost'[i].type = "ready"
      <3>3. toHost[i + 1].type = "ready" /\ i \in Int /\ j \in Int
        BY <3>1
      <3> QED BY <3>1, <3>2, <3>3
    <2>2. \A type : (\E i \in 1..Len(toHost') : toHost'[i].type = type)
                     => \E i \in 1..Len(toHost) : toHost[i].type = type
      BY <1>a
    <2> QED BY <1>f, <1>g, <2>1, <2>2 DEF LifecycleInv, Alive
  <1>6. FlightInv'
    BY <1>a, <1>d, <1>e DEF FlightInv, sideVars, Received, Addressed, NoneSent, Running
  <1>7. AwaitedInv'
    BY <1>a, <1>d, <1>e DEF AwaitedInv, sideVars, Running, Alive
  <1>8. ExchangeInv'
    <2>1. toHost # <<>> /\ toHost' = Tail(toHost) /\ UNCHANGED <<command, toSidecar, sideVars>>
      BY <1>d, <1>e, <1>f DEF StrayReceived, Received
    <2>2. ~Of(toHost[1], "accepted", occupant.gen)
      BY <1>a, <1>d, <1>e, <1>f DEF StrayReceived, Addressed, Of, Idle
    <2>3. occupant' = occupant BY <1>d, <1>e, <1>f
    <2> QED BY <2>1, <2>2, <2>3, FrameDropped DEF ExchangeInv
  <1> QED BY <1>1, <1>2, <1>3, <1>4, <1>5, <1>6, <1>7, <1>8 DEF RuntimeInv, TypeInv

\* An acceptance keeps the invariant.
LEMMA AcceptedReceivedStep == ASSUME RuntimeInv, AcceptedReceived PROVE RuntimeInv'
  <1> USE RuntimeAssumption DEF RuntimeInv, Requested
  <1>a. /\ toHost' \in Seq(Events) /\ Len(toHost') = Len(toHost) - 1 /\ Len(toHost) \in Nat /\ Len(toHost) >= 1
        /\ \A i \in 1..(Len(toHost) - 1) : toHost'[i] = toHost[i + 1] /\ i + 1 \in 1..Len(toHost)
        /\ Head(toHost) = toHost[1] /\ toHost[1] \in Events /\ 1 \in 1..Len(toHost)
    BY Removed DEF AcceptedReceived, Received, TypeInv, WireType
  <1>b. /\ Of(toHost[1], "accepted", occupant.gen) /\ occupant.gen \in Generations
    BY <1>a DEF AcceptedReceived, Received, Addressed, Of, TypeInv, HostType, Occupants
  <1>c. ~occupant.accepted /\ Alive /\ NoneSent
        /\ \A i \in 1..Len(toHost) : Of(toHost[i], "accepted", occupant.gen) => i = 1
    BY <1>a, <1>b DEF ExchangeInv, LifecycleInv, Alive, Of, Idle
  <1>d. MayAccept
    BY <1>a, <1>b, <1>c DEF MayAccept, ExchangeInv, TypeInv, HostType, Occupants
  <1>e. /\ occupant' = [gen |-> occupant.gen, accepted |-> TRUE,
                       phase |-> IF occupant.phase = "created" THEN "accepted" ELSE occupant.phase]
        /\ UNCHANGED <<rtState, rtFailure, handles, limitCancel, epochs, command, toSidecar, sideVars>>
    BY <1>d DEF AcceptedReceived, Received, TypeInv, HostType, Occupants
  <1> HIDE DEF AcceptedReceived
  <1>1. HostType'
    BY <1>a, <1>b, <1>c, <1>d, <1>e DEF HostType, TypeInv, Occupants
  <1>2. WireType'
    BY <1>a, <1>b, <1>c, <1>d, <1>e DEF WireType, TypeInv
  <1>3. SidecarType'
    BY <1>a, <1>b, <1>c, <1>d, <1>e DEF SidecarType, TypeInv, sideVars
  <1>4. EpochInv'
    BY <1>a, <1>b, <1>c, <1>d, <1>e DEF EpochInv, AcceptedReceived, sideVars, Begun
  <1>5. LifecycleInv'
    BY <1>a, <1>b, <1>c, <1>d, <1>e DEF LifecycleInv, WireType, SidecarType, AcceptedReceived,
       sideVars, Idle
  <1>6. FlightInv'
    BY <1>a, <1>b, <1>c, <1>d, <1>e DEF FlightInv, NoneSent
  <1>7. AwaitedInv'
    BY <1>a, <1>b, <1>c, <1>d, <1>e DEF AwaitedInv, sideVars, Running
  <1>8. ExchangeInv'
    BY <1>a, <1>b, <1>c, <1>d, <1>e DEF ExchangeInv, AcceptedReceived, sideVars, Received, NoneSent,
       Running
  <1> QED BY <1>1, <1>2, <1>3, <1>4, <1>5, <1>6, <1>7, <1>8 DEF RuntimeInv, TypeInv
\* The frame just read fails the runtime: the invariant is kept, as nothing is awaited
\* of a failed one.
LEMMA FrameFails ==
  ASSUME RuntimeInv, NEW kind, FailsRuntime(kind), kind # "protocol_violation" \/ ~Alive,
         toHost # <<>>, toHost' = Tail(toHost), limitCancel' \in BOOLEAN,
         UNCHANGED <<epochs, command, toSidecar, sideVars>>
  PROVE  RuntimeInv'
  <1> USE RuntimeAssumption DEF RuntimeInv, Requested
  <1>a. /\ toHost' \in Seq(Events) /\ Len(toHost') = Len(toHost) - 1 /\ Len(toHost) \in Nat /\ Len(toHost) >= 1
        /\ \A i \in 1..(Len(toHost) - 1) : toHost'[i] = toHost[i + 1] /\ i + 1 \in 1..Len(toHost)
        /\ Head(toHost) = toHost[1] /\ toHost[1] \in Events /\ 1 \in 1..Len(toHost)
    BY Removed DEF TypeInv, WireType
  <1>1. HostType'
    BY <1>a, Failing DEF HostType, Idle
  <1>2. WireType'
    BY <1>a, Failing DEF WireType, TypeInv
  <1>3. SidecarType'
    BY <1>a, Failing DEF SidecarType, TypeInv, sideVars
  <1>4. EpochInv'
    BY <1>a, Failing DEF EpochInv, sideVars, Idle, Begun
  <1>5. LifecycleInv'
    BY <1>a, Failing DEF LifecycleInv, sideVars, Alive
  <1>6. FlightInv'
    BY <1>a, Failing DEF FlightInv, sideVars, NoneSent, Running
  <1>7. AwaitedInv'
    BY <1>a, Failing DEF AwaitedInv, Alive
  <1>8. ExchangeInv'
    BY <1>a, Failing DEF ExchangeInv, Idle
  <1> QED BY <1>1, <1>2, <1>3, <1>4, <1>5, <1>6, <1>7, <1>8 DEF RuntimeInv, TypeInv

\* The frame just read leaves the occupant where it is, with another phase.
LEMMA FramePassed ==
  ASSUME RuntimeInv, occupant.gen # NoGeneration, NEW phase \in {"streaming", "cancelling"},
         occupant' = [gen |-> occupant.gen, accepted |-> occupant.accepted, phase |-> phase],
         phase = "streaming" => occupant.accepted,
         handles' \in {handles, Settle(occupant.gen, "failed")},
         limitCancel' \in BOOLEAN, limitCancel' => occupant.accepted,
         ~Of(toHost[1], "accepted", occupant.gen),
         toHost # <<>>, toHost' = Tail(toHost),
         UNCHANGED <<rtState, rtFailure, epochs, command, toSidecar, sideVars>>
  PROVE  RuntimeInv'
  <1> USE RuntimeAssumption DEF RuntimeInv, Requested
  <1>a. /\ toHost' \in Seq(Events) /\ Len(toHost') = Len(toHost) - 1 /\ Len(toHost) \in Nat /\ Len(toHost) >= 1
        /\ \A i \in 1..(Len(toHost) - 1) : toHost'[i] = toHost[i + 1] /\ i + 1 \in 1..Len(toHost)
        /\ Head(toHost) = toHost[1] /\ toHost[1] \in Events /\ 1 \in 1..Len(toHost)
    BY Removed DEF TypeInv, WireType
  <1>b. occupant # Idle /\ rtState \in {"busy", "shutting_down"} /\ rtState' = rtState
    BY DEF Idle, LifecycleInv, TypeInv, HostType
  <1>1. HostType'
    BY <1>a, <1>b DEF HostType, TypeInv, SidecarType, Command, NoCommand, Idle, Vacant, Occupants,
       Outcomes, Settle, TerminalResults
  <1>2. WireType'
    BY <1>a, <1>b DEF WireType, TypeInv
  <1>3. SidecarType'
    BY <1>a, <1>b DEF SidecarType, TypeInv, sideVars
  <1>4. EpochInv'
    BY <1>a, <1>b DEF EpochInv, TypeInv, HostType, WireType, sideVars, Idle, Begun, Settle
  <1>5. LifecycleInv'
    BY <1>a, <1>b DEF LifecycleInv, WireType, sideVars, Alive
  <1>6. FlightInv'
    BY <1>a, <1>b DEF FlightInv, sideVars, Idle, NoneSent, Running
  <1>7. AwaitedInv'
    BY <1>a, <1>b DEF AwaitedInv, sideVars, Running, Alive
  <1>8. ExchangeInv'
    BY FrameDropped DEF ExchangeInv
  <1> QED BY <1>1, <1>2, <1>3, <1>4, <1>5, <1>6, <1>7, <1>8 DEF RuntimeInv, TypeInv

\* The frame just read is the occupant's last: it vacates the slot.
LEMMA OccupantFinishes ==
  ASSUME RuntimeInv, NEW result \in TerminalResults, Finishes(result),
         occupant.gen # NoGeneration, NoneSent, ~Running, ~limitCancel,
         toHost # <<>>, toHost' = Tail(toHost),
         UNCHANGED <<limitCancel, epochs, command, toSidecar, sideVars>>
  PROVE  RuntimeInv'
  <1> USE RuntimeAssumption DEF RuntimeInv, Requested
  <1>a. /\ toHost' \in Seq(Events) /\ Len(toHost') = Len(toHost) - 1 /\ Len(toHost) \in Nat /\ Len(toHost) >= 1
        /\ \A i \in 1..(Len(toHost) - 1) : toHost'[i] = toHost[i + 1] /\ i + 1 \in 1..Len(toHost)
        /\ Head(toHost) = toHost[1] /\ toHost[1] \in Events /\ 1 \in 1..Len(toHost)
    BY Removed DEF TypeInv, WireType
  <1>b. /\ handles' = Settle(occupant.gen, result) /\ occupant' = Idle
        /\ rtState' = IF rtState = "busy" THEN "ready" ELSE rtState
        /\ rtFailure' = rtFailure
    BY DEF Finishes
  <1>c. \A g \in Generations : handles'[g] = "none" => handles[g] = "none"
    BY <1>b DEF Settle, TerminalResults, TypeInv, HostType
  <1>1. HostType'
    BY <1>a, <1>b, <1>c DEF HostType, TypeInv, Idle, Occupants, Outcomes, Settle
  <1>2. WireType'
    BY <1>a, <1>b, <1>c DEF WireType, TypeInv
  <1>3. SidecarType'
    BY <1>a, <1>b, <1>c DEF SidecarType, TypeInv, sideVars
  <1>4. EpochInv'
    <2>1. epochs' = epochs /\ command' = command /\ toSidecar' = toSidecar /\ sidecar' = sidecar
      BY DEF sideVars
    <2>2. \A i \in 1..Len(toHost') : toHost'[i].gen # NoGeneration => epochs[toHost'[i].gen] > 0
      BY <1>a DEF EpochInv
    <2>3. occupant'.gen = NoGeneration /\ Begun' = Begun BY <1>b, <2>1 DEF Idle, Begun
    <2> HIDE DEF Begun
    <2> QED BY <1>c, <2>1, <2>2, <2>3 DEF EpochInv
  <1>5. LifecycleInv'
    <2>1. /\ command' = command /\ toSidecar' = toSidecar /\ sidecar' = sidecar /\ process' = process
          /\ occupant' = Idle /\ rtFailure' = rtFailure /\ occupant # Idle
      BY <1>b DEF sideVars, Idle
    <2>2. /\ rtState \in {"busy", "shutting_down"} /\ rtState' \in {"ready", "shutting_down"}
          /\ rtState' = "ready" <=> rtState = "busy"
      BY <1>b, <2>1 DEF LifecycleInv, TypeInv, HostType
    <2>3. \A i, j \in 1..Len(toHost') : toHost'[i].type = "ready" =>
            /\ sidecar.state # "starting"
            /\ toHost'[j].type = "ready" => i = j
      BY <1>a DEF LifecycleInv
    <2>4. /\ (\E i \in 1..Len(toHost') : toHost'[i].type = "ready") => \E i \in 1..Len(toHost) : toHost[i].type = "ready"
          /\ (\E i \in 1..Len(toHost') : toHost'[i].type = "shutdown") => \E i \in 1..Len(toHost) : toHost[i].type = "shutdown"
      BY <1>a
    <2> QED BY <2>1, <2>2, <2>3, <2>4 DEF LifecycleInv, Alive
  <1>6. FlightInv'
    BY <1>a, <1>b, <1>c DEF FlightInv, SidecarType, NoneSent
  <1>7. AwaitedInv'
    BY <1>a, <1>b, <1>c DEF AwaitedInv, sideVars, NoneSent, Running
  <1>8. ExchangeInv'
    BY <1>a, <1>b, <1>c DEF ExchangeInv, Idle
  <1> QED BY <1>1, <1>2, <1>3, <1>4, <1>5, <1>6, <1>7, <1>8 DEF RuntimeInv, TypeInv

\* A delta keeps the invariant.
LEMMA DeltaReceivedStep == ASSUME RuntimeInv, DeltaReceived PROVE RuntimeInv'
  <1> USE RuntimeAssumption DEF RuntimeInv, Requested
  <1>a. /\ toHost' \in Seq(Events) /\ Len(toHost') = Len(toHost) - 1 /\ Len(toHost) \in Nat /\ Len(toHost) >= 1
        /\ \A i \in 1..(Len(toHost) - 1) : toHost'[i] = toHost[i + 1] /\ i + 1 \in 1..Len(toHost)
        /\ Head(toHost) = toHost[1] /\ toHost[1] \in Events /\ 1 \in 1..Len(toHost)
    BY Removed DEF DeltaReceived, Received, TypeInv, WireType
  <1>b. /\ Of(toHost[1], "delta", occupant.gen) /\ occupant.gen # NoGeneration
        /\ toHost # <<>> /\ toHost' = Tail(toHost) /\ UNCHANGED <<epochs, command, toSidecar, sideVars>>
        /\ ~limitCancel
    BY <1>a DEF DeltaReceived, Received, Addressed, Of, TypeInv, HostType
  <1>c. /\ ~Of(toHost[1], "accepted", occupant.gen) /\ occupant.phase # "created"
        /\ occupant.phase \in {"accepted", "streaming"} => occupant.accepted
        /\ limitCancel \in BOOLEAN
    BY <1>a, <1>b DEF ExchangeInv, Of, TypeInv, HostType
  <1>d. /\ occupant = [gen |-> occupant.gen, accepted |-> occupant.accepted, phase |-> occupant.phase]
        /\ \A phase : [occupant EXCEPT !.phase = phase] =
                        [gen |-> occupant.gen, accepted |-> occupant.accepted, phase |-> phase]
    BY DEF TypeInv, HostType, Occupants
  <1>1. CASE occupant.phase = "cancelling" /\ UNCHANGED <<rtState, rtFailure, occupant, handles, limitCancel>>
    BY <1>1, <1>b, <1>c, <1>d, FramePassed
  <1>2. CASE /\ occupant.phase \in {"accepted", "streaming"}
             /\ occupant' = [occupant EXCEPT !.phase = "streaming"]
             /\ UNCHANGED <<rtState, rtFailure, handles, limitCancel>>
    BY <1>2, <1>b, <1>c, <1>d, FramePassed
  <1>3. CASE /\ occupant.phase \in {"accepted", "streaming"}
             /\ FailsRuntime("queue_overflow") /\ UNCHANGED limitCancel
    BY <1>3, <1>b, <1>c, FrameFails
  <1>4. CASE /\ occupant.phase \in {"accepted", "streaming"}
             /\ occupant' = [occupant EXCEPT !.phase = "cancelling"]
             /\ handles' = Settle(occupant.gen, "failed")
             /\ limitCancel' = TRUE
             /\ UNCHANGED <<rtState, rtFailure>>
    BY <1>4, <1>b, <1>c, <1>d, FramePassed
  <1> QED BY <1>1, <1>2, <1>3, <1>4, <1>c DEF DeltaReceived

\* A terminal frame keeps the invariant.
LEMMA TerminalReceivedStep == ASSUME RuntimeInv, TerminalReceived PROVE RuntimeInv'
  <1> USE RuntimeAssumption DEF RuntimeInv, Requested
  <1>0. PICK type \in TerminalResults :
         /\ Received(type) /\ Addressed(Head(toHost))
         /\ IF type = "failed"
            THEN IF Head(toHost).code \in Unconfirmed THEN FailsRuntime("generation_failed")
                 ELSE Finishes("failed")
            ELSE IF occupant.phase = "created" THEN FailsRuntime("protocol_violation")
                 ELSE Finishes(type)
    BY DEF TerminalReceived
  <1>a. /\ toHost' \in Seq(Events) /\ Len(toHost') = Len(toHost) - 1 /\ Len(toHost) \in Nat /\ Len(toHost) >= 1
        /\ \A i \in 1..(Len(toHost) - 1) : toHost'[i] = toHost[i + 1] /\ i + 1 \in 1..Len(toHost)
        /\ Head(toHost) = toHost[1] /\ toHost[1] \in Events /\ 1 \in 1..Len(toHost)
    BY <1>0, Removed DEF Received, TypeInv, WireType
  <1>b. /\ Of(toHost[1], type, occupant.gen) /\ occupant.gen # NoGeneration
        /\ toHost # <<>> /\ toHost' = Tail(toHost) /\ UNCHANGED <<epochs, command, toSidecar, sideVars>>
        /\ ~limitCancel /\ UNCHANGED limitCancel /\ limitCancel \in BOOLEAN
    BY <1>0, <1>a DEF TerminalReceived, Received, Addressed, Of, TypeInv, HostType
  <1>c. NoneSent /\ ~Running
    BY <1>a, <1>b DEF ExchangeInv, Of
  <1>d. type # "failed" => occupant.phase # "created"
    BY <1>a, <1>b DEF ExchangeInv, Of, TerminalResults
  <1>1. CASE FailsRuntime("generation_failed") BY <1>1, <1>b, FrameFails
  <1>2. CASE \E result \in TerminalResults : Finishes(result) BY <1>2, <1>b, <1>c, OccupantFinishes
  <1> QED BY <1>0, <1>1, <1>2, <1>d DEF TerminalResults
\* The host fails the runtime without having read a frame.
LEMMA HostFails ==
  ASSUME RuntimeInv, NEW kind, FailsRuntime(kind), kind # "protocol_violation" \/ ~Alive,
         limitCancel' \in BOOLEAN,
         UNCHANGED <<epochs, command, toSidecar, toHost, sideVars>>
  PROVE  RuntimeInv'
  <1> USE RuntimeAssumption DEF RuntimeInv, Requested
  <1>1. HostType'
    BY Failing DEF HostType, Idle
  <1>2. WireType'
    BY Failing DEF WireType, TypeInv
  <1>3. SidecarType'
    BY Failing DEF SidecarType, TypeInv, sideVars
  <1>4. EpochInv'
    BY Failing DEF EpochInv, sideVars, Idle, Begun
  <1>5. LifecycleInv'
    BY Failing DEF LifecycleInv, sideVars, Alive
  <1>6. FlightInv'
    BY Failing DEF FlightInv, sideVars, Idle, NoneSent, Running
  <1>7. AwaitedInv'
    BY Failing DEF AwaitedInv, Alive
  <1>8. ExchangeInv'
    BY Failing DEF ExchangeInv, Idle
  <1> QED BY <1>1, <1>2, <1>3, <1>4, <1>5, <1>6, <1>7, <1>8 DEF RuntimeInv, TypeInv

\* A step that only forgets the cancel owed to the output limit keeps the invariant.
LEMMA NothingSaid ==
  ASSUME RuntimeInv, limitCancel' \in {limitCancel, FALSE},
         UNCHANGED <<rtState, rtFailure, occupant, handles, epochs, command, toSidecar, toHost, sideVars>>
  PROVE  RuntimeInv'
  <1> USE RuntimeAssumption DEF RuntimeInv, Requested
  <1>1. HostType'
    BY DEF HostType, TypeInv, WireType, SidecarType, ownVars, sideVars, Command, NoCommand, Idle,
       Vacant, Occupants, Outcomes, Settle, TerminalResults
  <1>2. WireType'
    BY DEF WireType, TypeInv
  <1>3. SidecarType'
    BY DEF SidecarType, TypeInv, sideVars
  <1>4. EpochInv'
    BY DEF EpochInv, sideVars, Begun
  <1>5. LifecycleInv'
    BY DEF LifecycleInv, sideVars, Alive
  <1>6. FlightInv'
    BY DEF FlightInv, sideVars, NoneSent, Running
  <1>7. AwaitedInv'
    BY DEF AwaitedInv, TypeInv, HostType, WireType, SidecarType, ownVars, sideVars, Command,
       NoCommand, Idle, Vacant, NoneSent, Running, Alive
  <1>8. ExchangeInv'
    BY DEF ExchangeInv, sideVars, NoneSent, Running
  <1> QED BY <1>1, <1>2, <1>3, <1>4, <1>5, <1>6, <1>7, <1>8 DEF RuntimeInv, TypeInv

\* Shutting down a runtime nobody started closes it.
LEMMA NewCloses ==
  ASSUME RuntimeInv, rtState = "new", rtState' = "closed", occupant = Idle,
         UNCHANGED <<rtFailure, occupant, handles, epochs, command, limitCancel, toSidecar, toHost, sideVars>>
  PROVE  RuntimeInv'
  <1> USE RuntimeAssumption DEF RuntimeInv, Requested
  <1>1. HostType'
    BY DEF HostType, TypeInv
  <1>2. WireType'
    BY DEF WireType, TypeInv
  <1>3. SidecarType'
    BY DEF SidecarType, TypeInv, sideVars
  <1>4. EpochInv'
    BY DEF EpochInv, sideVars, Begun
  <1>5. LifecycleInv'
    BY DEF LifecycleInv, sideVars
  <1>6. FlightInv'
    BY DEF FlightInv, SidecarType, sideVars, NoneSent, Running
  <1>7. AwaitedInv'
    BY DEF AwaitedInv, Alive
  <1>8. ExchangeInv'
    BY DEF ExchangeInv, Idle
  <1> QED BY <1>1, <1>2, <1>3, <1>4, <1>5, <1>6, <1>7, <1>8 DEF RuntimeInv, TypeInv

\* shutdown() of an idle runtime closes admission and orders the shutdown frame.
LEMMA AdmissionCloses ==
  ASSUME RuntimeInv, Alive, rtState' = "shutting_down", occupant = Idle, occupant' = Idle,
         command.type = "none", command' = [type |-> "shutdown", gen |-> NoGeneration],
         UNCHANGED <<rtFailure, handles, epochs, limitCancel, toSidecar, toHost, sideVars>>
  PROVE  RuntimeInv'
  <1> USE RuntimeAssumption DEF RuntimeInv, Requested
  <1>1. HostType'
    BY DEF HostType, TypeInv
  <1>2. WireType'
    BY DEF WireType, TypeInv
  <1>3. SidecarType'
    BY DEF SidecarType, TypeInv, sideVars
  <1>4. EpochInv'
    BY DEF EpochInv, sideVars, Begun
  <1>5. LifecycleInv'
    BY DEF LifecycleInv, sideVars
  <1>6. FlightInv'
    BY DEF FlightInv, sideVars, NoneSent, Running
  <1>7. AwaitedInv'
    BY DEF AwaitedInv, sideVars, Running
  <1>8. ExchangeInv'
    BY DEF ExchangeInv, Idle
  <1> QED BY <1>1, <1>2, <1>3, <1>4, <1>5, <1>6, <1>7, <1>8 DEF RuntimeInv, TypeInv

\* shutdown() of a busy runtime also cancels the occupant: its cancel frame goes behind
\* the occupant's request, which is already written.
LEMMA AdmissionClosesOnOccupant ==
  ASSUME RuntimeInv, Alive, rtState' = "shutting_down", occupant.gen # NoGeneration,
         occupant' = [gen |-> occupant.gen, phase |-> "cancelling", accepted |-> occupant.accepted],
         command.type = "none", command' = [type |-> "shutdown", gen |-> NoGeneration],
         toSidecar' = Append(toSidecar, [type |-> "cancel", gen |-> occupant.gen]),
         UNCHANGED <<rtFailure, handles, epochs, limitCancel, toHost, sideVars>>
  PROVE  RuntimeInv'
  <1> USE RuntimeAssumption DEF RuntimeInv, Requested
  <1> DEFINE c == [type |-> "cancel", gen |-> occupant.gen]
  <1>0. c \in Frames /\ c.type = "cancel" /\ c.gen = occupant.gen /\ toSidecar \in Seq(Frames)
    BY DEF Frames, TypeInv, WireType, HostType, Occupants
  <1>00. toSidecar' = Append(toSidecar, c) OBVIOUS
  <1> HIDE DEF c
  <1>a. /\ toSidecar' \in Seq(Frames) /\ Len(toSidecar') = Len(toSidecar) + 1 /\ Len(toSidecar) \in Nat
        /\ \A i \in 1..Len(toSidecar) : toSidecar'[i] = toSidecar[i]
        /\ toSidecar'[Len(toSidecar) + 1] = c
        /\ \A i \in 1..(Len(toSidecar) + 1) : i \in 1..Len(toSidecar) \/ i = Len(toSidecar) + 1
    BY <1>0, <1>00, Appended
  <1>1. HostType'
    BY <1>0, <1>a DEF HostType, TypeInv, Occupants
  <1>2. WireType'
    BY <1>0, <1>a DEF WireType, TypeInv
  <1>3. SidecarType'
    BY <1>0, <1>a DEF SidecarType, TypeInv, sideVars
  <1>4. EpochInv'
    BY <1>0, <1>a DEF EpochInv, WireType, sideVars, Begun
  <1>5. LifecycleInv'
    BY <1>0, <1>a DEF LifecycleInv, WireType, sideVars
  <1>6. FlightInv'
    BY <1>0, <1>a DEF FlightInv, sideVars, NoneSent, Running
  <1>7. AwaitedInv'
    BY <1>0, <1>a DEF AwaitedInv, sideVars, Running
  <1>8. ExchangeInv'
    BY <1>0, <1>a DEF ExchangeInv, sideVars, NoneSent, Running
  <1> QED BY <1>1, <1>2, <1>3, <1>4, <1>5, <1>6, <1>7, <1>8 DEF RuntimeInv, TypeInv

\* A cancel frame of the occupant goes behind its request.
LEMMA CancelSent ==
  ASSUME RuntimeInv, occupant.gen # NoGeneration, command.type # "generate", NoneSent,
         toSidecar' = Append(toSidecar, [type |-> "cancel", gen |-> occupant.gen]),
         UNCHANGED <<rtState, rtFailure, occupant, handles, epochs, command, toHost, sideVars>>,
         limitCancel' = FALSE
  PROVE  RuntimeInv'
  <1> USE RuntimeAssumption DEF RuntimeInv, Requested
  <1> DEFINE c == [type |-> "cancel", gen |-> occupant.gen]
  <1>0. c \in Frames /\ c.type = "cancel" /\ c.gen = occupant.gen /\ toSidecar \in Seq(Frames)
    BY DEF Frames, TypeInv, WireType, HostType, Occupants
  <1>00. toSidecar' = Append(toSidecar, c) OBVIOUS
  <1> HIDE DEF c
  <1>a. /\ toSidecar' \in Seq(Frames) /\ Len(toSidecar') = Len(toSidecar) + 1 /\ Len(toSidecar) \in Nat
        /\ \A i \in 1..Len(toSidecar) : toSidecar'[i] = toSidecar[i]
        /\ toSidecar'[Len(toSidecar) + 1] = c
        /\ \A i \in 1..(Len(toSidecar) + 1) : i \in 1..Len(toSidecar) \/ i = Len(toSidecar) + 1
    BY <1>0, <1>00, Appended
  <1>1. HostType'
    BY <1>0, <1>a DEF HostType, TypeInv, WireType, SidecarType, ownVars, sideVars, Command,
       NoCommand, Idle, Vacant, Occupants, Outcomes, Settle, TerminalResults
  <1>2. WireType'
    BY <1>0, <1>a DEF WireType, TypeInv
  <1>3. SidecarType'
    BY <1>0, <1>a DEF SidecarType, TypeInv, sideVars
  <1>4. EpochInv'
    BY <1>0, <1>a DEF EpochInv, sideVars, Begun
  <1>5. LifecycleInv'
    BY <1>0, <1>a DEF LifecycleInv, SidecarType, sideVars, Alive
  <1>6. FlightInv'
    BY <1>0, <1>a DEF FlightInv, NoneSent
  <1>7. AwaitedInv'
    BY <1>0, <1>a DEF AwaitedInv, sideVars, Running, Alive
  <1>8. ExchangeInv'
    BY <1>0, <1>a DEF ExchangeInv, sideVars, Idle, NoneSent, Running
  <1> QED BY <1>1, <1>2, <1>3, <1>4, <1>5, <1>6, <1>7, <1>8 DEF RuntimeInv, TypeInv

\* The cancel that follows the output limit keeps the invariant.
LEMMA LimitCancelWrittenStep == ASSUME RuntimeInv, LimitCancelWritten PROVE RuntimeInv'
  <1> USE RuntimeAssumption DEF RuntimeInv, Requested
  <1>1. CASE ~broken /\ occupant # Idle /\ toSidecar' = Append(toSidecar, Command("cancel", occupant.gen))
             /\ UNCHANGED <<rtState, rtFailure, occupant, handles, broken>>
    <2>1. Alive /\ occupant.accepted /\ occupant.gen # NoGeneration
      BY <1>1 DEF LimitCancelWritten, LifecycleInv, AwaitedInv, Alive, TypeInv, HostType
    <2>2. NoneSent BY <2>1 DEF ExchangeInv
    <2> QED BY <1>1, <2>1, <2>2, CancelSent DEF LimitCancelWritten, Command, NoneSent
  <1>2. CASE FailsRuntime("crashed") /\ toSidecar' = toSidecar
    BY <1>2, HostFails DEF LimitCancelWritten
  <1>3. CASE toSidecar' = toSidecar /\ UNCHANGED <<rtState, rtFailure, occupant, handles, broken>>
    BY <1>3, NothingSaid DEF LimitCancelWritten
  <1> QED BY <1>1, <1>2, <1>3 DEF LimitCancelWritten

\* The end of the sidecar's output keeps the invariant.
LEMMA ReaderEndsStep == ASSUME RuntimeInv, ReaderEnds PROVE RuntimeInv'
  <1> USE DEF RuntimeInv
  <1>1. CASE UNCHANGED <<rtState, rtFailure, occupant, handles>>
    BY <1>1, NothingSaid DEF ReaderEnds
  <1>2. CASE FailsRuntime("crashed")
    BY <1>2, HostFails DEF ReaderEnds, TypeInv, HostType
  <1> QED BY <1>1, <1>2 DEF ReaderEnds

\* shutdown() keeps the invariant.
LEMMA ShutdownStartsStep == ASSUME RuntimeInv, ShutdownStarts PROVE RuntimeInv'
  <1> USE RuntimeAssumption DEF RuntimeInv, Requested
  <1>a. command.type = "none" /\ Alive /\ (occupant = Idle <=> occupant.gen = NoGeneration)
    BY DEF ShutdownStarts, NoCommand, Idle, Alive, TypeInv, HostType
  <1>1. CASE rtState = "new"
    <2>1. /\ rtState' = "closed" /\ occupant = Idle /\ limitCancel' = limitCancel
          /\ UNCHANGED <<rtFailure, occupant, handles, epochs, command, toSidecar, toHost, sideVars>>
      BY <1>1 DEF ShutdownStarts, LifecycleInv
    <2> QED BY <1>1, <2>1, NewCloses
  <1>2. CASE rtState # "new" /\ occupant = Idle
    <2>1. /\ rtState' = "shutting_down" /\ occupant' = Idle
          /\ command' = [type |-> "shutdown", gen |-> NoGeneration]
          /\ UNCHANGED <<rtFailure, handles, epochs, toSidecar, toHost, limitCancel, sideVars>>
      BY <1>2 DEF ShutdownStarts, Command
    <2> QED BY <1>2, <1>a, <2>1, AdmissionCloses
  <1>3. CASE rtState # "new" /\ occupant # Idle
    <2>1. /\ rtState' = "shutting_down"
          /\ occupant' = [gen |-> occupant.gen, phase |-> "cancelling", accepted |-> occupant.accepted]
          /\ command' = [type |-> "shutdown", gen |-> NoGeneration]
          /\ toSidecar' = Append(toSidecar, [type |-> "cancel", gen |-> occupant.gen])
          /\ UNCHANGED <<rtFailure, handles, epochs, limitCancel, toHost, sideVars>>
      BY <1>3 DEF ShutdownStarts, Command, TypeInv, HostType, Occupants
    <2> QED BY <1>3, <1>a, <2>1, AdmissionClosesOnOccupant
  <1> QED BY <1>1, <1>2, <1>3
\* The sidecar's job reports its only terminal and no longer runs.
LEMMA JobReported ==
  ASSUME RuntimeInv, Running, NEW e \in Events, e.gen = sidecar.work.gen, e.type \in TerminalResults,
         toHost' = Append(toHost, e), SidecarType', ~Running',
         sidecar'.work.gen = sidecar.work.gen, sidecar'.state = sidecar.state, process' # "absent",
         UNCHANGED <<toSidecar, rtState, rtFailure, occupant, handles, epochs, command, limitCancel>>
  PROVE  RuntimeInv'
  <1> USE RuntimeAssumption DEF RuntimeInv, Requested
  <1>a. /\ toHost' \in Seq(Events) /\ Len(toHost') = Len(toHost) + 1 /\ Len(toHost) \in Nat
        /\ \A i \in 1..Len(toHost) : toHost'[i] = toHost[i]
        /\ toHost'[Len(toHost) + 1] = e
        /\ \A i \in 1..(Len(toHost) + 1) : i \in 1..Len(toHost) \/ i = Len(toHost) + 1
    BY Appended DEF TypeInv, WireType
  <1>b. NoneSent /\ process = "running" /\ sidecar.work.gen # NoGeneration
    BY DEF FlightInv, Running
  <1>c. e.type \notin {"ready", "shutdown", "accepted", "delta"} BY DEF TerminalResults
  <1>1. HostType'
    BY <1>a, <1>b, <1>c DEF HostType, TypeInv
  <1>2. WireType'
    BY <1>a, <1>b, <1>c DEF WireType, TypeInv
  <1>3. SidecarType'
    OBVIOUS
  <1>4. EpochInv'
    BY <1>a, <1>b, <1>c DEF EpochInv, WireType, Begun
  <1>5. LifecycleInv'
    BY <1>a, <1>b, <1>c DEF LifecycleInv, SidecarType, Alive
  <1>6. FlightInv'
    BY <1>a, <1>b, <1>c DEF FlightInv, Idle
  <1>7. AwaitedInv'
    BY <1>a, <1>b, <1>c DEF AwaitedInv, Alive
  <1>8. ExchangeInv'
    BY <1>a, <1>b, <1>c DEF ExchangeInv, NoneSent, Of, LifecycleInv
  <1> QED BY <1>1, <1>2, <1>3, <1>4, <1>5, <1>6, <1>7, <1>8 DEF RuntimeInv, TypeInv

\* The provider's end keeps the invariant.
LEMMA ProviderEndsStep == ASSUME RuntimeInv, ProviderEnds PROVE RuntimeInv'
  <1> USE RuntimeAssumption DEF RuntimeInv, Requested
  <1>1. PICK e \in Events : e.gen = sidecar.work.gen /\ e.type \in TerminalResults /\ toHost' = Append(toHost, e)
    <2>1. PICK e \in Events : e.gen = sidecar.work.gen /\ e.type \in TerminalResults /\ Says(<<e>>)
      BY DEF ProviderEnds, Event, Failed, Events, EventTypes, Codes, TerminalResults, TypeInv,
         SidecarType, Jobs
    <2> QED BY <2>1, Appended DEF Says, TypeInv, WireType
  <1>2. /\ SidecarType' /\ sidecar'.work.terminal /\ sidecar'.work.gen = sidecar.work.gen
        /\ sidecar'.state = sidecar.state /\ process' # "absent"
    BY DEF ProviderEnds, Works, TypeInv, SidecarType, Jobs, Running
  <1> QED BY <1>1, <1>2, JobReported DEF ProviderEnds, Running, ownVars

\* A job whose cleanup fails keeps the invariant.
LEMMA CleanupFailsStep == ASSUME RuntimeInv, CleanupFails PROVE RuntimeInv'
  <1> USE RuntimeAssumption DEF RuntimeInv, Requested
  <1>1. PICK e \in Events : e.gen = sidecar.work.gen /\ e.type \in TerminalResults /\ toHost' = Append(toHost, e)
    <2>1. PICK e \in Events : e.gen = sidecar.work.gen /\ e.type \in TerminalResults /\ Says(<<e>>)
      BY DEF CleanupFails, Failed, Events, EventTypes, Codes, Unconfirmed, TerminalResults, TypeInv,
         SidecarType, Jobs
    <2> QED BY <2>1, Appended DEF Says, TypeInv, WireType
  <1>2. /\ SidecarType' /\ sidecar'.work.terminal /\ sidecar'.work.gen = sidecar.work.gen
        /\ sidecar'.state = sidecar.state /\ process' # "absent"
    BY DEF CleanupFails, TypeInv, SidecarType, Jobs, Running
  <1> QED BY <1>1, <1>2, JobReported DEF CleanupFails, Running, ownVars

\* A close that takes too long keeps the invariant.
LEMMA CloseTimesOutStep == ASSUME RuntimeInv, CloseTimesOut PROVE RuntimeInv'
  <1> USE RuntimeAssumption DEF RuntimeInv, Requested
  <1>1. PICK e \in Events : e.gen = sidecar.work.gen /\ e.type \in TerminalResults /\ toHost' = Append(toHost, e)
    <2>1. PICK e \in Events : e.gen = sidecar.work.gen /\ e.type \in TerminalResults /\ Says(<<e>>)
      BY DEF CloseTimesOut, Failed, Events, EventTypes, Codes, Unconfirmed, TerminalResults,
         TypeInv,
         SidecarType, Jobs
    <2> QED BY <2>1, Appended DEF Says, TypeInv, WireType
  <1>2. SidecarType' /\ process' = "crashed" /\ sidecar' = sidecar
    BY DEF CloseTimesOut, TypeInv, SidecarType
  <1> QED BY <1>1, <1>2, JobReported DEF CloseTimesOut, Running, ownVars

\* The sidecar's job streams a delta of its generation.
LEMMA DeltaSaid ==
  ASSUME RuntimeInv, Running, NEW e \in Events, e.gen = sidecar.work.gen, e.type = "delta", 
         toHost' = Append(toHost, e), SidecarType', Running' = Running,
         sidecar'.work.gen = sidecar.work.gen, sidecar'.state = sidecar.state, process' = process,
         UNCHANGED <<toSidecar, rtState, rtFailure, occupant, handles, epochs, command, limitCancel>>
  PROVE  RuntimeInv'
  <1> USE RuntimeAssumption DEF RuntimeInv, Requested
  <1>a. /\ toHost' \in Seq(Events) /\ Len(toHost') = Len(toHost) + 1 /\ Len(toHost) \in Nat
        /\ \A i \in 1..Len(toHost) : toHost'[i] = toHost[i]
        /\ toHost'[Len(toHost) + 1] = e
        /\ \A i \in 1..(Len(toHost) + 1) : i \in 1..Len(toHost) \/ i = Len(toHost) + 1
    BY Appended DEF TypeInv, WireType
  <1>b. NoneSent /\ process = "running" /\ sidecar.work.gen # NoGeneration
    BY DEF FlightInv, Running
  <1>c. e.type \notin TerminalResults BY DEF TerminalResults
  <1>1. HostType'
    BY <1>a, <1>b, <1>c DEF HostType, TypeInv
  <1>2. WireType'
    BY <1>a, <1>b, <1>c DEF WireType, TypeInv
  <1>3. SidecarType'
    OBVIOUS
  <1>4. EpochInv'
    BY <1>a, <1>b, <1>c DEF EpochInv, Begun
  <1>5. LifecycleInv'
    BY <1>a, <1>b, <1>c DEF LifecycleInv, WireType, Alive
  <1>6. FlightInv'
    BY <1>a, <1>b, <1>c DEF FlightInv, NoneSent
  <1>7. AwaitedInv'
    BY <1>a, <1>b, <1>c DEF AwaitedInv, Alive
  <1>8. ExchangeInv'
    BY <1>a, <1>b, <1>c DEF ExchangeInv, HostType, Idle, NoneSent, Of
  <1> QED BY <1>1, <1>2, <1>3, <1>4, <1>5, <1>6, <1>7, <1>8 DEF RuntimeInv, TypeInv

\* The sidecar changes nothing but its record of the job.
LEMMA WorkKept ==
  ASSUME RuntimeInv, SidecarType', (Running' => Running), (Running' => sidecar'.work.gen = sidecar.work.gen),
         sidecar'.work.gen \in {sidecar.work.gen, NoGeneration},
         sidecar'.state = sidecar.state, process' = process, process # "absent",
         UNCHANGED <<toSidecar, toHost, rtState, rtFailure, occupant, handles, epochs, command, limitCancel>>
  PROVE  RuntimeInv'
  <1> USE RuntimeAssumption DEF RuntimeInv, Requested
  <1>1. HostType'
    BY DEF HostType, TypeInv
  <1>2. WireType'
    BY DEF WireType, TypeInv
  <1>3. SidecarType'
    OBVIOUS
  <1>4. EpochInv'
    BY DEF EpochInv, Begun
  <1>5. LifecycleInv'
    BY DEF LifecycleInv, Alive
  <1>6. FlightInv'
    BY DEF FlightInv, Idle, NoneSent
  <1>7. AwaitedInv'
    BY DEF AwaitedInv, Alive
  <1>8. ExchangeInv'
    <2>1. (NoneSent' <=> NoneSent) /\ (Running' => Running) BY DEF NoneSent
    <2> HIDE DEF NoneSent, Running
    <2>2. UNCHANGED <<occupant, toHost, toSidecar, command>> OBVIOUS
    <2> QED BY ONLY <2>1, <2>2, ExchangeInv DEF ExchangeInv, Of
  <1> QED BY <1>1, <1>2, <1>3, <1>4, <1>5, <1>6, <1>7, <1>8 DEF RuntimeInv, TypeInv

\* A streamed chunk keeps the invariant.
LEMMA StreamsStep == ASSUME RuntimeInv, Streams PROVE RuntimeInv'
  <1> USE RuntimeAssumption DEF RuntimeInv, Requested
  <1>1. CASE Works([sidecar.work EXCEPT !.streamed = @ + 1]) /\ Says(<<Event("delta", sidecar.work.gen)>>)
    <2>1. Event("delta", sidecar.work.gen) \in Events
      BY DEF Event, Events, EventTypes, Codes, TypeInv, SidecarType, Jobs
    <2>2. toHost' = Append(toHost, Event("delta", sidecar.work.gen))
      BY <1>1, <2>1, Appended DEF Says, TypeInv, WireType
    <2>3. /\ SidecarType' /\ sidecar'.work.terminal = sidecar.work.terminal /\ sidecar'.work.gen = sidecar.work.gen
          /\ sidecar'.state = sidecar.state /\ process' = process
      BY <1>1 DEF Streams, Works, TypeInv, SidecarType, Jobs
    <2> QED BY <2>1, <2>2, <2>3, DeltaSaid DEF Streams, Running, ownVars, Event
  <1>2. CASE Works([sidecar.work EXCEPT !.abort = TRUE, !.limit = TRUE]) /\ UNCHANGED toHost
    <2>1. /\ SidecarType' /\ sidecar'.work.terminal = sidecar.work.terminal /\ sidecar'.work.gen = sidecar.work.gen
          /\ sidecar'.state = sidecar.state /\ process' = process
      BY <1>2 DEF Streams, Works, TypeInv, SidecarType, Jobs
    <2> QED BY <1>2, <2>1, WorkKept DEF Streams, Running, ownVars
  <1> QED BY <1>1, <1>2 DEF Streams

\* The end of the job's record keeps the invariant.
LEMMA FinishActiveStep == ASSUME RuntimeInv, FinishActive PROVE RuntimeInv'
  <1> USE RuntimeAssumption DEF RuntimeInv, Requested
  <1>1. /\ SidecarType' /\ sidecar'.work.gen = NoGeneration
        /\ sidecar'.state = sidecar.state /\ process' = process /\ process = "running"
    BY DEF FinishActive, Works, Vacant, TypeInv, SidecarType, Jobs
  <1> QED BY <1>1, WorkKept DEF FinishActive, Running, ownVars
\* The sidecar says something of no generation: ready, shutdown, or that it failed.
LEMMA SidecarAnnounces ==
  ASSUME RuntimeInv, NEW e \in Events, e.gen = NoGeneration, toHost' = Append(toHost, e), 
         \/ e.type = "ready" /\ sidecar.state = "starting" /\ sidecar'.state # "closing"
         \/ e.type = "shutdown" /\ sidecar.state = "closing" /\ sidecar'.state = "closing"
         \/ e.type = "failed" /\ sidecar'.state # "closing",
         SidecarType', sidecar'.work = sidecar.work, sidecar'.state # "starting",
         process = "running", process' # "absent", Running' => Running,
         UNCHANGED <<toSidecar, rtState, rtFailure, occupant, handles, epochs, command, limitCancel>>
  PROVE  RuntimeInv'
  <1> USE RuntimeAssumption DEF RuntimeInv, Requested
  <1>a. /\ toHost' \in Seq(Events) /\ Len(toHost') = Len(toHost) + 1 /\ Len(toHost) \in Nat
        /\ \A i \in 1..Len(toHost) : toHost'[i] = toHost[i]
        /\ toHost'[Len(toHost) + 1] = e
        /\ \A i \in 1..(Len(toHost) + 1) : i \in 1..Len(toHost) \/ i = Len(toHost) + 1
    BY Appended DEF TypeInv, WireType
  <1>1. HostType'
    BY <1>a DEF HostType, TypeInv
  <1>2. WireType'
    BY <1>a DEF WireType, TypeInv
  <1>3. SidecarType'
    OBVIOUS
  <1>4. EpochInv'
    BY <1>a DEF EpochInv, TypeInv, Begun
  <1>5. LifecycleInv'
    BY <1>a DEF LifecycleInv, HostType, WireType, Alive
  <1>6. FlightInv'
    BY <1>a DEF FlightInv, Idle, NoneSent
  <1>7. AwaitedInv'
    BY <1>a DEF AwaitedInv, Alive
  <1>8. ExchangeInv'
    <2>1. (NoneSent' <=> NoneSent) /\ toSidecar' = toSidecar /\ command' = command /\ occupant' = occupant
      BY DEF NoneSent
    <2>2. \A i \in 1..Len(toHost') : toHost'[i].gen # NoGeneration => i \in 1..Len(toHost) /\ toHost'[i] = toHost[i]
      BY <1>a
    <2>3. \A i \in 1..Len(toHost) : i \in 1..Len(toHost') /\ toHost'[i] = toHost[i]
      BY <1>a
    <2> HIDE DEF NoneSent, Running
    <2> QED BY <2>1, <2>2, <2>3 DEF ExchangeInv, Of
  <1> QED BY <1>1, <1>2, <1>3, <1>4, <1>5, <1>6, <1>7, <1>8 DEF RuntimeInv, TypeInv

\* The sidecar's process dies, leaving its last frames in the pipe.
LEMMA ProcessEnds ==
  ASSUME RuntimeInv, process' = "crashed", process = "running",
         UNCHANGED <<toSidecar, toHost, sidecar, rtState, rtFailure, occupant, handles, epochs, command, limitCancel>>
  PROVE  RuntimeInv'
  <1> USE RuntimeAssumption DEF RuntimeInv, Requested
  <1>1. HostType'
    BY DEF HostType, TypeInv
  <1>2. WireType'
    BY DEF WireType, TypeInv
  <1>3. SidecarType'
    BY DEF SidecarType, TypeInv
  <1>4. EpochInv'
    BY DEF EpochInv, Begun
  <1>5. LifecycleInv'
    BY DEF LifecycleInv, Alive
  <1>6. FlightInv'
    BY DEF FlightInv, Running
  <1>7. AwaitedInv'
    BY DEF AwaitedInv, Running, Alive
  <1>8. ExchangeInv'
    BY DEF ExchangeInv, NoneSent, Running
  <1> QED BY <1>1, <1>2, <1>3, <1>4, <1>5, <1>6, <1>7, <1>8 DEF RuntimeInv, TypeInv

\* The sidecar's start keeps the invariant.
LEMMA SidecarReadyStep == ASSUME RuntimeInv, SidecarReady PROVE RuntimeInv'
  <1> USE RuntimeAssumption DEF RuntimeInv, Requested
  <1>1. /\ Event("ready", NoGeneration) \in Events /\ Failed(NoGeneration, "startup_error") \in Events
        /\ \A e \in Events : Says(<<e>>) => toHost' = Append(toHost, e)
    BY Appended DEF Event, Failed, Events, EventTypes, Codes, TerminalResults, Says
  <1>2. PICK e \in Events :
          /\ e.gen = NoGeneration /\ toHost' = Append(toHost, e) /\ e.type \in {"ready", "failed"}
          /\ sidecar'.state \in {"serving", "ending"}
    BY <1>1 DEF SidecarReady, Event, Failed, TypeInv, SidecarType
  <1>3. /\ SidecarType' /\ sidecar'.work = sidecar.work /\ process' = process /\ process = "running"
        /\ sidecar.state = "starting"
    BY DEF SidecarReady, TypeInv, SidecarType
  <1> QED BY <1>2, <1>3, SidecarAnnounces DEF SidecarReady, Running, ownVars

\* The sidecar's close keeps the invariant.
LEMMA ClosesStep == ASSUME RuntimeInv, Closes PROVE RuntimeInv'
  <1> USE RuntimeAssumption DEF RuntimeInv, Requested
  <1>1. CASE toHost' = toHost /\ process' = "crashed"
    <2>1. SidecarType' /\ ~Running' BY <1>1 DEF Closes, TypeInv, SidecarType, Running
    <2> QED BY <1>1, <2>1, ProcessEnds DEF Closes, ownVars
  <1>2. CASE sidecar.state = "closing" /\ Says(<<Event("shutdown", NoGeneration)>>) /\ process' = "exited"
    <2>1. Event("shutdown", NoGeneration) \in Events /\ Event("shutdown", NoGeneration).type = "shutdown"
          /\ Event("shutdown", NoGeneration).gen = NoGeneration
      BY DEF Event, Events, EventTypes, Codes
    <2>2. toHost' = Append(toHost, Event("shutdown", NoGeneration)) BY <1>2, <2>1, Appended DEF Says,
                                                                       TypeInv, WireType
    <2>3. SidecarType' /\ ~Running' /\ sidecar' = sidecar BY <1>2 DEF Closes, TypeInv, SidecarType,
                                                             Running
    <2> QED BY <1>2, <2>1, <2>2, <2>3, SidecarAnnounces DEF Closes, ownVars
  <1> QED BY <1>1, <1>2 DEF Closes

\* The sidecar reads a cancel of the job it runs.
LEMMA CancelTaken ==
  ASSUME RuntimeInv, toSidecar # <<>>, toSidecar' = Tail(toSidecar), toSidecar[1].type = "cancel",
         SidecarType', Running' = Running, sidecar'.work.gen = sidecar.work.gen,
         sidecar'.state = sidecar.state, process' = process,
         UNCHANGED <<toHost, rtState, rtFailure, occupant, handles, epochs, command, limitCancel>>
  PROVE  RuntimeInv'
  <1> USE RuntimeAssumption DEF RuntimeInv, Requested
  <1>a. /\ toSidecar' \in Seq(Frames) /\ Len(toSidecar') = Len(toSidecar) - 1 /\ Len(toSidecar) \in Nat /\ Len(toSidecar) >= 1
        /\ \A i \in 1..(Len(toSidecar) - 1) : toSidecar'[i] = toSidecar[i + 1] /\ i + 1 \in 1..Len(toSidecar)
        /\ Head(toSidecar) = toSidecar[1] /\ toSidecar[1] \in Frames /\ 1 \in 1..Len(toSidecar)
    BY Removed DEF TypeInv, WireType
  <1>1. HostType'
    BY <1>a DEF HostType, TypeInv
  <1>2. WireType'
    BY <1>a DEF WireType, TypeInv
  <1>3. SidecarType'
    OBVIOUS
  <1>4. EpochInv'
    BY <1>a DEF EpochInv, WireType, Begun
  <1>5. LifecycleInv'
    BY <1>a DEF LifecycleInv, Alive
  <1>6. FlightInv'
    <2>1. NoneSent => NoneSent' BY <1>a DEF NoneSent
    <2>2. \A i, j \in 1..Len(toSidecar') :
            toSidecar'[i].type = "generate" =>
              command.type # "generate" /\ (toSidecar'[j].type = "generate" => i = j)
      BY <1>a DEF FlightInv
    <2>3. (Running' => Running) /\ command' = command BY DEF Running, sideVars
    <2> HIDE DEF NoneSent, Running
    <2> QED BY <2>1, <2>2, <2>3 DEF FlightInv
  <1>7. AwaitedInv'
    BY <1>a DEF AwaitedInv, Alive
  <1>8. ExchangeInv'
    BY <1>a DEF ExchangeInv, NoneSent
  <1> QED BY <1>1, <1>2, <1>3, <1>4, <1>5, <1>6, <1>7, <1>8 DEF RuntimeInv, TypeInv

\* The sidecar reads a cancel of a generation it is not running and says so.
LEMMA CancelRefused ==
  ASSUME RuntimeInv, NEW e \in Events, toSidecar # <<>>, toSidecar' = Tail(toSidecar),
         toSidecar[1].type = "cancel",
         Running => sidecar.work.gen # toSidecar[1].gen,
         e.type = "failed", e.gen = toSidecar[1].gen, process = "running", toHost' = Append(toHost, e),
         UNCHANGED <<sideVars, rtState, rtFailure, occupant, handles, epochs, command, limitCancel>>
  PROVE  RuntimeInv'
  <1> USE RuntimeAssumption DEF RuntimeInv, Requested
  <1>a. /\ toSidecar' \in Seq(Frames) /\ Len(toSidecar') = Len(toSidecar) - 1 /\ Len(toSidecar) \in Nat /\ Len(toSidecar) >= 1
        /\ \A i \in 1..(Len(toSidecar) - 1) : toSidecar'[i] = toSidecar[i + 1] /\ i + 1 \in 1..Len(toSidecar)
        /\ Head(toSidecar) = toSidecar[1] /\ toSidecar[1] \in Frames /\ 1 \in 1..Len(toSidecar)
    BY Removed DEF TypeInv, WireType
  <1>b. /\ toHost' \in Seq(Events) /\ Len(toHost') = Len(toHost) + 1 /\ Len(toHost) \in Nat
        /\ \A i \in 1..Len(toHost) : toHost'[i] = toHost[i]
        /\ toHost'[Len(toHost) + 1] = e
        /\ \A i \in 1..(Len(toHost) + 1) : i \in 1..Len(toHost) \/ i = Len(toHost) + 1
    BY Appended DEF TypeInv, WireType
  <1>1. HostType'
    BY <1>a, <1>b DEF HostType, TypeInv
  <1>2. WireType'
    BY <1>a, <1>b DEF WireType, TypeInv
  <1>3. SidecarType'
    BY <1>a, <1>b DEF SidecarType, TypeInv, sideVars
  <1>4. EpochInv'
    BY <1>a, <1>b DEF EpochInv, sideVars, Idle, Begun
  <1>5. LifecycleInv'
    <2>1. /\ command' = command /\ sidecar'.state = sidecar.state /\ process' = process /\ process = "running"
          /\ UNCHANGED <<rtState, rtFailure, occupant>>
      BY DEF sideVars
    <2>2. \A i \in 1..Len(toHost') : toHost'[i].type \in {"ready", "shutdown"} => i \in 1..Len(toHost) /\ toHost'[i] = toHost[i]
      BY <1>a, <1>b
    <2>3. \A i \in 1..Len(toSidecar') : \E j \in 1..Len(toSidecar) : toSidecar'[i] = toSidecar[j]
      BY <1>a, <1>b
    <2> QED BY <2>1, <2>2, <2>3 DEF LifecycleInv, Alive
  <1>6. FlightInv'
    BY <1>a, <1>b DEF FlightInv, SidecarType, sideVars, Idle, NoneSent, Running
  <1>7. AwaitedInv'
    BY <1>a, <1>b DEF AwaitedInv, sideVars, Running, Alive
  <1>8. ExchangeInv'
    BY <1>a, <1>b DEF ExchangeInv, TypeInv, SidecarType, sideVars, Idle, NoneSent, Running, Of,
       AwaitedInv, LifecycleInv, Alive
  <1> QED BY <1>1, <1>2, <1>3, <1>4, <1>5, <1>6, <1>7, <1>8 DEF RuntimeInv, TypeInv

\* The sidecar reads the shutdown frame.
LEMMA ShutdownTaken ==
  ASSUME RuntimeInv, toSidecar # <<>>, toSidecar' = Tail(toSidecar), toSidecar[1].type = "shutdown",
         SidecarType', Running' = Running, sidecar'.work.gen = sidecar.work.gen,
         sidecar'.state = "closing", process' = process, process = "running",
         UNCHANGED <<toHost, rtState, rtFailure, occupant, handles, epochs, command, limitCancel>>
  PROVE  RuntimeInv'
  <1> USE RuntimeAssumption DEF RuntimeInv, Requested
  <1>a. /\ toSidecar' \in Seq(Frames) /\ Len(toSidecar') = Len(toSidecar) - 1 /\ Len(toSidecar) \in Nat /\ Len(toSidecar) >= 1
        /\ \A i \in 1..(Len(toSidecar) - 1) : toSidecar'[i] = toSidecar[i + 1] /\ i + 1 \in 1..Len(toSidecar)
        /\ Head(toSidecar) = toSidecar[1] /\ toSidecar[1] \in Frames /\ 1 \in 1..Len(toSidecar)
    BY Removed DEF TypeInv, WireType
  <1>1. HostType'
    BY <1>a DEF HostType, TypeInv
  <1>2. WireType'
    BY <1>a DEF WireType, TypeInv
  <1>3. SidecarType'
    OBVIOUS
  <1>4. EpochInv'
    BY <1>a DEF EpochInv, HostType, WireType, Begun
  <1>5. LifecycleInv'
    BY <1>a DEF LifecycleInv, Alive
  <1>6. FlightInv'
    <2>1. NoneSent => NoneSent' BY <1>a DEF NoneSent
    <2>2. \A i, j \in 1..Len(toSidecar') :
            toSidecar'[i].type = "generate" =>
              command.type # "generate" /\ (toSidecar'[j].type = "generate" => i = j)
      BY <1>a DEF FlightInv
    <2>3. (Running' => Running) /\ command' = command BY DEF Running, sideVars
    <2> HIDE DEF NoneSent, Running
    <2> QED BY <2>1, <2>2, <2>3 DEF FlightInv
  <1>7. AwaitedInv'
    BY <1>a DEF AwaitedInv, Alive
  <1>8. ExchangeInv'
    BY <1>a DEF ExchangeInv, Idle, NoneSent
  <1> QED BY <1>1, <1>2, <1>3, <1>4, <1>5, <1>6, <1>7, <1>8 DEF RuntimeInv, TypeInv

\* Reading a cancel keeps the invariant.
LEMMA ReadCancelStep == ASSUME RuntimeInv, ReadCancel PROVE RuntimeInv'
  <1> USE RuntimeAssumption DEF RuntimeInv, Requested
  <1>a. /\ toSidecar # <<>> /\ toSidecar' = Tail(toSidecar) /\ toSidecar[1] \in Frames /\ Head(toSidecar) = toSidecar[1]
        /\ toSidecar[1].type = "cancel" /\ process = "running" /\ process' = process
        /\ UNCHANGED <<rtState, rtFailure, occupant, handles, epochs, command, limitCancel>>
    BY Removed DEF ReadCancel, Reads, ownVars, TypeInv, WireType
  <1>1. CASE /\ sidecar.work.gen = toSidecar[1].gen /\ ~sidecar.work.terminal
             /\ Works([sidecar.work EXCEPT !.abort = TRUE]) /\ UNCHANGED toHost
    <2>1. /\ SidecarType' /\ sidecar'.work.terminal = sidecar.work.terminal /\ sidecar'.work.gen = sidecar.work.gen
          /\ sidecar'.state = sidecar.state
      BY <1>1, <1>a DEF Works, TypeInv, SidecarType, Jobs
    <2> QED BY <1>1, <1>a, <2>1, CancelTaken DEF Running
  <1>2. CASE /\ ~(sidecar.work.gen = toSidecar[1].gen /\ ~sidecar.work.terminal)
             /\ Says(<<Failed(toSidecar[1].gen, "not_active")>>) /\ UNCHANGED sidecar
    <2> DEFINE e == Failed(toSidecar[1].gen, "not_active")
    <2>1. e \in Events /\ e.type = "failed" /\ e.gen = toSidecar[1].gen
      BY <1>a DEF Failed, Events, EventTypes, Codes, TerminalResults, Frames
    <2>2. toHost' = Append(toHost, e) BY <1>2, <2>1, Appended DEF Says, TypeInv, WireType
    <2>3. Running => sidecar.work.gen # toSidecar[1].gen BY <1>2 DEF Running
    <2> HIDE DEF e
    <2> QED BY <1>2, <1>a, <2>1, <2>2, <2>3, CancelRefused DEF sideVars
  <1> QED BY <1>1, <1>2, <1>a DEF ReadCancel

\* Reading the shutdown frame keeps the invariant.
LEMMA ReadShutdownStep == ASSUME RuntimeInv, ReadShutdown PROVE RuntimeInv'
  <1> USE RuntimeAssumption DEF RuntimeInv, Requested
  <1>a. /\ toSidecar # <<>> /\ toSidecar' = Tail(toSidecar) /\ toSidecar[1] \in Frames /\ Head(toSidecar) = toSidecar[1]
        /\ toSidecar[1].type = "shutdown" /\ process = "running" /\ process' = process
        /\ UNCHANGED <<toHost, rtState, rtFailure, occupant, handles, epochs, command, limitCancel>>
    BY Removed DEF ReadShutdown, Reads, ownVars, TypeInv, WireType
  <1>1. /\ SidecarType' /\ sidecar'.work.terminal = sidecar.work.terminal /\ sidecar'.work.gen = sidecar.work.gen
        /\ sidecar'.state = "closing"
    BY <1>a DEF ReadShutdown, TypeInv, SidecarType, Jobs
  <1> QED BY <1>a, <1>1, ShutdownTaken DEF Running

\* The sidecar reads a request and accepts it: the only request there was.
LEMMA RequestTaken ==
  ASSUME RuntimeInv, NEW e \in Events, toSidecar # <<>>, toSidecar' = Tail(toSidecar),
         toSidecar[1].type = "generate",
         e.type = "accepted", e.gen = toSidecar[1].gen, process = "running", toHost' = Append(toHost, e),
         SidecarType', sidecar'.work.gen = toSidecar[1].gen, ~sidecar'.work.terminal,
         sidecar'.state = sidecar.state, process' = process,
         UNCHANGED <<rtState, rtFailure, occupant, handles, epochs, command, limitCancel>>
  PROVE  RuntimeInv'
  <1> USE RuntimeAssumption DEF RuntimeInv, Requested
  <1>a. /\ toSidecar' \in Seq(Frames) /\ Len(toSidecar') = Len(toSidecar) - 1 /\ Len(toSidecar) \in Nat /\ Len(toSidecar) >= 1
        /\ \A i \in 1..(Len(toSidecar) - 1) : toSidecar'[i] = toSidecar[i + 1] /\ i + 1 \in 1..Len(toSidecar)
        /\ Head(toSidecar) = toSidecar[1] /\ toSidecar[1] \in Frames /\ 1 \in 1..Len(toSidecar)
    BY Removed DEF TypeInv, WireType
  <1>b. /\ toHost' \in Seq(Events) /\ Len(toHost') = Len(toHost) + 1 /\ Len(toHost) \in Nat
        /\ \A i \in 1..Len(toHost) : toHost'[i] = toHost[i]
        /\ toHost'[Len(toHost) + 1] = e
        /\ \A i \in 1..(Len(toHost) + 1) : i \in 1..Len(toHost) \/ i = Len(toHost) + 1
    BY Appended DEF TypeInv, WireType
  <1>c. ~NoneSent /\ NoneSent' /\ ~Running BY <1>a DEF NoneSent, FlightInv
  <1>1. HostType'
    BY <1>a, <1>b, <1>c DEF HostType, TypeInv
  <1>2. WireType'
    BY <1>a, <1>b, <1>c DEF WireType, TypeInv
  <1>3. SidecarType'
    OBVIOUS
  <1>4. EpochInv'
    BY <1>a, <1>b, <1>c DEF EpochInv, Idle, Begun
  <1>5. LifecycleInv'
    <2>1. /\ command' = command /\ sidecar'.state = sidecar.state /\ process' = process /\ process = "running"
          /\ UNCHANGED <<rtState, rtFailure, occupant>>
      BY DEF sideVars
    <2>2. \A i \in 1..Len(toHost') : toHost'[i].type \in {"ready", "shutdown"} => i \in 1..Len(toHost) /\ toHost'[i] = toHost[i]
      BY <1>a, <1>b
    <2>3. \A i \in 1..Len(toSidecar') : \E j \in 1..Len(toSidecar) : toSidecar'[i] = toSidecar[j]
      BY <1>a, <1>b
    <2> QED BY <2>1, <2>2, <2>3 DEF LifecycleInv, Alive
  <1>6. FlightInv'
    BY <1>a, <1>b, <1>c DEF FlightInv, Idle
  <1>7. AwaitedInv'
    BY <1>a, <1>b, <1>c DEF AwaitedInv, Alive
  <1>8. ExchangeInv'
    <2> SUFFICES ASSUME occupant.gen # NoGeneration
                 PROVE  ExchangeInv'
      BY DEF ExchangeInv
    <2>1. e.gen = occupant.gen
      BY <1>a DEF AwaitedInv, LifecycleInv, Alive, TypeInv, HostType, Idle
    <2>2. ~occupant.accepted /\ \A i \in 1..Len(toHost) : toHost[i].gen # occupant.gen
      BY <1>c DEF ExchangeInv
    <2>3. \A i \in 1..Len(toSidecar') : toSidecar'[i].type # "generate"
      BY <1>c DEF NoneSent
    <2> QED BY <1>a, <1>b, <1>c, <2>1, <2>2, <2>3 DEF ExchangeInv, Of, TerminalResults
  <1> QED BY <1>1, <1>2, <1>3, <1>4, <1>5, <1>6, <1>7, <1>8 DEF RuntimeInv, TypeInv

\* The sidecar reads a request and refuses it: the request is not on its way any more.
LEMMA RequestRefused ==
  ASSUME RuntimeInv, NEW e \in Events, toSidecar # <<>>, toSidecar' = Tail(toSidecar),
         toSidecar[1].type = "generate",
         e.type = "failed", e.gen = toSidecar[1].gen, process = "running", toHost' = Append(toHost, e),
         UNCHANGED <<sideVars, rtState, rtFailure, occupant, handles, epochs, command, limitCancel>>
  PROVE  RuntimeInv'
  <1> USE RuntimeAssumption DEF RuntimeInv, Requested
  <1>a. /\ toSidecar' \in Seq(Frames) /\ Len(toSidecar') = Len(toSidecar) - 1 /\ Len(toSidecar) \in Nat /\ Len(toSidecar) >= 1
        /\ \A i \in 1..(Len(toSidecar) - 1) : toSidecar'[i] = toSidecar[i + 1] /\ i + 1 \in 1..Len(toSidecar)
        /\ Head(toSidecar) = toSidecar[1] /\ toSidecar[1] \in Frames /\ 1 \in 1..Len(toSidecar)
    BY Removed DEF TypeInv, WireType
  <1>b. /\ toHost' \in Seq(Events) /\ Len(toHost') = Len(toHost) + 1 /\ Len(toHost) \in Nat
        /\ \A i \in 1..Len(toHost) : toHost'[i] = toHost[i]
        /\ toHost'[Len(toHost) + 1] = e
        /\ \A i \in 1..(Len(toHost) + 1) : i \in 1..Len(toHost) \/ i = Len(toHost) + 1
    BY Appended DEF TypeInv, WireType
  <1>c. ~NoneSent /\ NoneSent' /\ ~Running BY <1>a DEF NoneSent, FlightInv
  <1>1. HostType'
    BY <1>a, <1>b, <1>c DEF HostType, TypeInv
  <1>2. WireType'
    BY <1>a, <1>b, <1>c DEF WireType, TypeInv
  <1>3. SidecarType'
    BY <1>a, <1>b, <1>c DEF SidecarType, TypeInv, sideVars
  <1>4. EpochInv'
    BY <1>a, <1>b, <1>c DEF EpochInv, SidecarType, sideVars, Begun
  <1>5. LifecycleInv'
    <2>1. /\ command' = command /\ sidecar'.state = sidecar.state /\ process' = process /\ process = "running"
          /\ UNCHANGED <<rtState, rtFailure, occupant>>
      BY DEF sideVars
    <2>2. \A i \in 1..Len(toHost') : toHost'[i].type \in {"ready", "shutdown"} => i \in 1..Len(toHost) /\ toHost'[i] = toHost[i]
      BY <1>a, <1>b
    <2>3. \A i \in 1..Len(toSidecar') : \E j \in 1..Len(toSidecar) : toSidecar'[i] = toSidecar[j]
      BY <1>a, <1>b
    <2> QED BY <2>1, <2>2, <2>3 DEF LifecycleInv, Alive
  <1>6. FlightInv'
    BY <1>a, <1>b, <1>c DEF FlightInv
  <1>7. AwaitedInv'
    BY <1>a, <1>b, <1>c DEF AwaitedInv, sideVars, Running, Alive
  <1>8. ExchangeInv'
    BY <1>a, <1>b, <1>c DEF ExchangeInv, sideVars, NoneSent, Running, Of
  <1> QED BY <1>1, <1>2, <1>3, <1>4, <1>5, <1>6, <1>7, <1>8 DEF RuntimeInv, TypeInv

\* Reading a request keeps the invariant.
LEMMA ReadGenerateStep == ASSUME RuntimeInv, ReadGenerate PROVE RuntimeInv'
  <1> USE RuntimeAssumption DEF RuntimeInv, Requested
  <1>a. /\ toSidecar # <<>> /\ toSidecar' = Tail(toSidecar) /\ toSidecar[1] \in Frames /\ Head(toSidecar) = toSidecar[1]
        /\ toSidecar[1].type = "generate" /\ process = "running" /\ process' = process /\ 1 \in 1..Len(toSidecar)
        /\ UNCHANGED <<rtState, rtFailure, occupant, handles, epochs, command, limitCancel>>
    BY Removed DEF ReadGenerate, Reads, ownVars, TypeInv, WireType
  <1>b. ~Running BY <1>a DEF FlightInv, NoneSent
  <1> DEFINE g == toSidecar[1].gen
             yes == Event("accepted", g)
             no == Failed(g, "provider_error")
  <1>c. /\ yes \in Events /\ yes.type = "accepted" /\ yes.gen = g
        /\ no \in Events /\ no.type = "failed" /\ no.gen = g /\ g \in Generations
    BY <1>a DEF Event, Failed, Events, EventTypes, Codes, TerminalResults, Frames
  <1>d. \A e \in Events : Says(<<e>>) => toHost' = Append(toHost, e) BY Appended DEF Says, TypeInv,
                                                                        WireType
  <1>1. CASE Works([Vacant EXCEPT !.gen = g]) /\ Says(<<yes>>)
    <2>1. /\ SidecarType' /\ ~sidecar'.work.terminal /\ sidecar'.work.gen = g
          /\ sidecar'.state = sidecar.state
      BY <1>1, <1>a, <1>c DEF Works, Vacant, TypeInv, SidecarType, Jobs
    <2> HIDE DEF yes, no
    <2> QED BY <1>1, <1>a, <1>c, <1>d, <2>1, RequestTaken
  <1>2. CASE Says(<<no>>) /\ UNCHANGED sidecar
    <2> HIDE DEF yes, no
    <2> QED BY <1>2, <1>a, <1>c, <1>d, RequestRefused DEF sideVars
  <1> QED BY <1>a, <1>b, <1>1, <1>2 DEF ReadGenerate, Running
\* Every step of the host, of its reader and timers and of the sidecar keeps the invariant.
LEMMA NextRuntimeInv == ASSUME RuntimeInv, [RuntimeNext]_runtimeVars PROVE RuntimeInv'
  <1>1. CASE UNCHANGED runtimeVars
    BY <1>1, NothingSaid DEF runtimeVars, ownVars, sideVars
  <1>2. CASE \E g \in Generations : Reserve(g) \/ CancelActive(g)
    BY <1>2, ReserveStep, CancelActiveStep
  <1>3. CASE StartRuntime \/ StartTimesOut \/ Written \/ Unencodable \/ WriteFails
    BY <1>3, StartRuntimeStep, StartTimesOutStep, WrittenStep, UnencodableStep, WriteFailsStep
  <1>4. CASE ShutdownStarts \/ ShutdownExpires \/ ShutdownJoined
    BY <1>4, ShutdownStartsStep, ShutdownExpiresStep, ShutdownJoinedStep
  <1>5. CASE Dispatch
    BY <1>5, ReadyReceivedStep, ShutdownReceivedStep, SidecarFailedReceivedStep, StrayReceivedStep,
       AcceptedReceivedStep, DeltaReceivedStep, TerminalReceivedStep DEF Dispatch
  <1>6. CASE LimitCancelWritten \/ ReaderEnds \/ WatchdogFires
    BY <1>6, LimitCancelWrittenStep, ReaderEndsStep, WatchdogFiresStep
  <1>7. CASE SidecarStep
    BY <1>7, SidecarReadyStep, ReadGenerateStep, ReadCancelStep, ReadShutdownStep, StreamsStep,
       ProviderEndsStep, CleanupFailsStep, FinishActiveStep, ClosesStep, CloseTimesOutStep,
       CrashesStep
       DEF SidecarStep
  <1> QED BY <1>1, <1>2, <1>3, <1>4, <1>5, <1>6, <1>7 DEF RuntimeNext

\* For any generations and any number of deltas: the runtime, the two pipes and the
\* sidecar stay in the relation RuntimeInv states. It holds the whole protocol of
\* model_runtime.py and sidecar/src/protocol.ts: who may be heard about, and in which order.
THEOREM InductiveInvariant == RuntimeSpec => []RuntimeInv
  <1>1. RuntimeInit => RuntimeInv BY InitRuntimeInv
  <1>2. RuntimeInv /\ [RuntimeNext]_runtimeVars => RuntimeInv' BY NextRuntimeInv
  <1> QED BY <1>1, <1>2, PTL DEF RuntimeSpec

\* The run's invariant for every instance: while the host trusts the sidecar, the two
\* agree on which generation is under way (model_runtime.py keeps _active, the sidecar
\* its activeGeneration).
THEOREM TheWireAgrees == RuntimeSpec => []WireAgrees
  <1>1. RuntimeInv => WireAgrees
    <2>1. ASSUME RuntimeInv, NEW i \in DOMAIN toHost PROVE toHost[i].code # "busy"
      <3>1. toHost[i] \in Events BY <2>1 DEF RuntimeInv, TypeInv, WireType
      <3> QED BY <3>1 DEF Events, Codes, Unconfirmed
    <2> QED BY <2>1 DEF WireAgrees, RuntimeInv, LifecycleInv
  <1> QED BY <1>1, InductiveInvariant, PTL
-----------------------------------------------------------------------------

\* A failure of the runtime vacates the slot, or happens to an empty one.
LEMMA FailureMaps ==
  ASSUME RuntimeInv, NEW kind, FailsRuntime(kind)
  PROVE  Slot!SlotNext \/ UNCHANGED Slot!slotVars
  <1> USE DEF RuntimeInv
  <1>1. CASE ~Alive BY <1>1 DEF FailsRuntime, Alive, Slot!slotVars
  <1>2. CASE Alive
    <2>1. /\ rtState' = "failed" /\ occupant' = Idle
          /\ handles' = IF occupant = Idle THEN handles ELSE Settle(occupant.gen, "failed")
          /\ (occupant = Idle <=> occupant.gen = NoGeneration)
      BY <1>2, RuntimeAssumption DEF FailsRuntime, Alive, TypeInv, HostType, Idle
    <2>2. CASE rtState = "shutting_down" /\ occupant = Idle
      BY <2>1, <2>2 DEF Slot!slotVars
    <2>3. CASE rtState # "shutting_down" \/ occupant # Idle
      <3>1. Slot!RuntimeFails
        BY <1>2, <2>1, <2>3 DEF Slot!RuntimeFails, Slot!Vacate, Slot!Settled, Slot!Terminal, Settle,
           TerminalResults, Alive, Idle
      <3> QED BY <3>1 DEF Slot!SlotNext, Slot!SlotStep
    <2> QED BY <2>2, <2>3
  <1> QED BY <1>1, <1>2

\* A terminal frame of the occupant vacates the slot with that result.
LEMMA FinishMaps ==
  ASSUME RuntimeInv, NEW result \in TerminalResults, Finishes(result), occupant.gen # NoGeneration
  PROVE  Slot!SlotNext
  <1>1. Slot!Terminates
    BY DEF Finishes, RuntimeInv, LifecycleInv, Slot!Terminates, Slot!Vacate, Slot!Settled,
       Slot!Terminal,
       Settle, TerminalResults, Idle
  <1> QED BY <1>1 DEF Slot!SlotNext, Slot!SlotStep

\* The caller's own operations reserve, cancel or leave the slot as it is.
LEMMA CommandsMap ==
  ASSUME RuntimeInv, RuntimeNext,
         ~Dispatch, ~SidecarStep, ~(LimitCancelWritten \/ ReaderEnds \/ WatchdogFires)
  PROVE  Slot!SlotNext \/ UNCHANGED Slot!slotVars
  <1> USE RuntimeAssumption DEF RuntimeInv
  <1>0. /\ (occupant = Idle <=> occupant.gen = NoGeneration) /\ Idle.gen = NoGeneration /\ Idle.phase = "none"
        /\ occupant \in Occupants
    BY DEF Idle, TypeInv, HostType
  <1>1. ASSUME StartRuntime PROVE Slot!SlotNext \/ UNCHANGED Slot!slotVars
    <2>1. CASE rtState' = "starting" BY <1>1, <2>1 DEF StartRuntime, Slot!slotVars
    <2>2. CASE rtState' = "failed"
      <3>1. Slot!RuntimeFails BY <1>0, <1>1, <2>2 DEF StartRuntime, LifecycleInv, Slot!RuntimeFails
      <3> QED BY <3>1 DEF Slot!SlotNext, Slot!SlotStep
    <2> QED BY <1>1, <2>1, <2>2 DEF StartRuntime
  <1>2. ASSUME StartTimesOut PROVE Slot!SlotNext \/ UNCHANGED Slot!slotVars
    BY <1>2, FailureMaps DEF StartTimesOut
  <1>3. ASSUME NEW g \in Generations, Reserve(g) PROVE Slot!SlotNext
    <2>1. Slot!Generate(g) BY <1>0, <1>3 DEF Reserve, Slot!Generate
    <2> QED BY <2>1 DEF Slot!SlotNext
  <1>4. ASSUME NEW g \in Generations, CancelActive(g) PROVE Slot!SlotNext
    <2>1. Slot!CancelTakes(g) BY <1>0, <1>4 DEF CancelActive, Slot!CancelTakes, Slot!CancelMarks,
                                 Occupants
    <2> QED BY <2>1 DEF Slot!SlotNext
  <1>5. ASSUME Written PROVE UNCHANGED Slot!slotVars
    BY <1>5 DEF Written, Slot!slotVars
  <1>6. ASSUME Unencodable PROVE Slot!SlotNext
    <2>1. occupant.gen # NoGeneration BY <1>6 DEF Unencodable, TypeInv, WireType
    <2> QED BY <1>6, <2>1, FinishMaps DEF Unencodable, TerminalResults
  <1>7. ASSUME WriteFails PROVE Slot!SlotNext \/ UNCHANGED Slot!slotVars
    BY <1>7, FailureMaps DEF WriteFails
  <1>8. ASSUME ShutdownStarts PROVE Slot!SlotNext
    <2>1. Slot!ShutdownBegins
      BY <1>0, <1>8 DEF ShutdownStarts, LifecycleInv, Slot!ShutdownBegins, Occupants
    <2> QED BY <2>1 DEF Slot!SlotNext, Slot!SlotStep
  <1>9. ASSUME ShutdownExpires \/ ShutdownJoined PROVE Slot!SlotNext \/ UNCHANGED Slot!slotVars
    <2>1. /\ rtState \in {"shutting_down", "closed", "failed"} /\ rtState' \in {"closed", "failed"}
          /\ handles' = IF occupant = Idle THEN handles ELSE Settle(occupant.gen, "failed")
          /\ occupant' = Idle
      BY <1>9 DEF ShutdownExpires, ShutdownJoined, LifecycleInv
    <2>2. CASE occupant = Idle BY <2>1, <2>2 DEF Slot!slotVars
    <2>3. CASE occupant # Idle
      <3>1. Slot!RuntimeFails
        BY <1>0, <2>1, <2>3 DEF Slot!RuntimeFails, Slot!Vacate, Slot!Settled, Slot!Terminal, Settle,
           TerminalResults
      <3> QED BY <3>1 DEF Slot!SlotNext, Slot!SlotStep
    <2> QED BY <2>2, <2>3
  <1> QED BY <1>1, <1>2, <1>3, <1>4, <1>5, <1>6, <1>7, <1>8, <1>9 DEF RuntimeNext

\* Every frame the reader hands over advances, vacates or leaves the slot.
LEMMA FramesMap ==
  ASSUME RuntimeInv, Dispatch
  PROVE  Slot!SlotNext \/ UNCHANGED Slot!slotVars
  <1> USE RuntimeAssumption DEF RuntimeInv
  <1>0. /\ (occupant = Idle <=> occupant.gen = NoGeneration) /\ Idle.gen = NoGeneration /\ Idle.phase = "none"
        /\ occupant \in Occupants
    BY DEF Idle, TypeInv, HostType
  <1>1. CASE ReadyReceived
    <2>1. CASE rtState = "starting" \/ rtState = "shutting_down"
      BY <1>1, <2>1 DEF ReadyReceived, Slot!slotVars
    <2>2. CASE ~(rtState = "starting" \/ rtState = "shutting_down")
      BY <1>1, <2>2, FailureMaps DEF ReadyReceived
    <2> QED BY <2>1, <2>2
  <1>2. CASE ShutdownReceived \/ SidecarFailedReceived \/ StrayReceived
    <2>1. (\E kind : FailsRuntime(kind)) \/ UNCHANGED <<rtState, rtFailure, occupant, handles>>
      BY <1>2 DEF ShutdownReceived, SidecarFailedReceived, StrayReceived
    <2> QED BY <2>1, FailureMaps DEF Slot!slotVars
  <1>3. CASE AcceptedReceived
    <2>1. CASE MayAccept
      <3>1. occupant'.gen = occupant.gen /\ (occupant'.phase = "cancelling" <=> occupant.phase = "cancelling")
        BY <1>0, <1>3, <2>1 DEF AcceptedReceived, Occupants
      <3>2. UNCHANGED <<rtState, handles>> BY <1>3, <2>1 DEF AcceptedReceived
      <3> QED BY <3>1, <3>2 DEF Slot!slotVars
    <2>2. CASE ~MayAccept BY <1>3, <2>2, FailureMaps DEF AcceptedReceived
    <2> QED BY <2>1, <2>2
  <1>4. CASE DeltaReceived
    <2>1. CASE UNCHANGED <<rtState, rtFailure, occupant, handles>> BY <2>1 DEF Slot!slotVars
    <2>2. CASE \E kind : FailsRuntime(kind) BY <2>2, FailureMaps
    <2>3. CASE /\ occupant.phase \in {"accepted", "streaming"}
               /\ occupant' = [occupant EXCEPT !.phase = "streaming"]
               /\ UNCHANGED <<rtState, handles>>
      BY <1>0, <2>3 DEF Slot!slotVars, Occupants
    <2>4. CASE /\ occupant.phase \in {"accepted", "streaming"}
               /\ occupant' = [occupant EXCEPT !.phase = "cancelling"]
               /\ handles' = Settle(occupant.gen, "failed")
               /\ UNCHANGED rtState
      <3>1. occupant.gen # NoGeneration BY <1>0, <2>4
      <3>2. Slot!OutputLimit
        BY <1>0, <2>4, <3>1 DEF Slot!OutputLimit, Slot!Settled, Slot!Terminal, Settle,
           TerminalResults, Occupants
      <3> QED BY <3>2 DEF Slot!SlotNext, Slot!SlotStep
    <2> QED BY <1>4, <2>1, <2>2, <2>3, <2>4 DEF DeltaReceived
  <1>5. CASE TerminalReceived
    <2>1. occupant.gen # NoGeneration BY <1>0, <1>5 DEF TerminalReceived, Addressed
    <2>2. (\E kind : FailsRuntime(kind)) \/ (\E result \in TerminalResults : Finishes(result))
      BY <1>5 DEF TerminalReceived, TerminalResults
    <2> QED BY <2>1, <2>2, FailureMaps, FinishMaps
  <1> QED BY <1>1, <1>2, <1>3, <1>4, <1>5 DEF Dispatch

\* Every step of the runtime is a step of the slot or a stutter of it.
LEMMA NextMaps ==
  ASSUME RuntimeInv, [RuntimeNext]_runtimeVars
  PROVE  [Slot!SlotNext]_(Slot!slotVars)
  <1>1. CASE UNCHANGED runtimeVars
    BY <1>1 DEF runtimeVars, ownVars, Slot!slotVars
  <1>2. CASE Dispatch BY <1>2, FramesMap
  <1>3. CASE SidecarStep
    <2>1. UNCHANGED ownVars
      BY <1>3 DEF SidecarStep, SidecarReady, ReadGenerate, ReadCancel, ReadShutdown, Reads, Streams,
         ProviderEnds, CleanupFails, FinishActive, Closes, CloseTimesOut, Crashes
    <2> QED BY <2>1 DEF ownVars, Slot!slotVars
  <1>4. CASE LimitCancelWritten \/ ReaderEnds \/ WatchdogFires
    <2>1. (\E kind : FailsRuntime(kind)) \/ UNCHANGED <<rtState, rtFailure, occupant, handles>>
      BY <1>4 DEF LimitCancelWritten, ReaderEnds, WatchdogFires
    <2> QED BY <2>1, FailureMaps DEF Slot!slotVars
  <1>5. CASE RuntimeNext /\ ~Dispatch /\ ~SidecarStep /\ ~(LimitCancelWritten \/ ReaderEnds \/ WatchdogFires)
    BY <1>5, CommandsMap
  <1> QED BY <1>1, <1>2, <1>3, <1>4, <1>5

\* ModelRuntime implements GenerationSlot, for any set of generations: one occupant at
\* a time, each generation settled once and never reserved again.
THEOREM SlotImplemented == RuntimeSpec => ImplementsSlot
  <1>1. RuntimeInit => Slot!SlotInit
    BY DEF RuntimeInit, Slot!SlotInit, Idle
  <1>2. RuntimeInv /\ [RuntimeNext]_runtimeVars => [Slot!SlotNext]_(Slot!slotVars)
    BY NextMaps
  <1> QED BY <1>1, <1>2, InductiveInvariant, PTL DEF RuntimeSpec, ImplementsSlot, Slot!SlotSpec
-----------------------------------------------------------------------------
(* V3, whose turns call tools: the slot and the workers.                   *)

TurnPhases == {"none", "created", "accepted", "streaming", "tool_wait", "continuing", "cancelling",
           "terminal"}
Kinds == {"none", "timeout", "protocol", "crashed", "overflow", "uncontained", "session"}
TurnRecord ==
  [gen : Turns \cup {NoTurnId}, phase : TurnPhases, next : Nat, pending : BOOLEAN, worker : BOOLEAN,
   fenced : BOOLEAN, deferred : Final \cup {"none", "unconfirmed"}, failure : Kinds,
   joiner : {"none", "waiting", "ended"}]
WorkerRecord ==
  [gen : Turns, round : Nat, left : Nat,
   stage : {"starting", "executing", "returned", "raised", "releasing"}]
SessionRecord ==
  [state : {"idle", "running", "settled", "cancelled", "uncontained"}, cancelled : BOOLEAN, last : Nat]

ToolTyped ==
  /\ vState \in {"ready", "busy", "shutting_down", "closed", "failed"}
  /\ turn \in TurnRecord
  /\ turn.gen = NoTurnId => turn = NoTurn
  /\ turn.gen # NoTurnId => turn.phase # "none"
  /\ vHandles \in [Turns -> Final \cup {"none", "open"}]
  /\ sessions \in [Turns -> SessionRecord]
  /\ workers \subseteq WorkerRecord
\* Until its session is cancelled, the runtime of the generation in the slot is at work, and its
\* handle open but for the output limit, which no generation meets while it waits for a tool.
OpenUntilCancelled ==
  turn.gen # NoTurnId =>
    /\ vHandles[turn.gen] # "none"
    /\ ~sessions[turn.gen].cancelled =>
         /\ vState = "busy" /\ (vHandles[turn.gen] = "open" \/ turn.phase = "cancelling")
         /\ turn.pending => turn.phase = "tool_wait"
         /\ turn.deferred = "none" /\ turn.joiner = "none"
\* A poisoned runtime keeps its generation, whose handle has failed; nobody waits for it.
PoisonedIsOver ==
  turn.phase = "terminal" =>
    turn.gen # NoTurnId /\ vState = "failed" /\ turn.joiner = "ended" /\ vHandles[turn.gen] \in Final
\* shutdown() closes admission first.
ClosingIsShut == closing => vState \notin {"ready", "busy"}
SlotInvV == ToolTyped /\ OpenUntilCancelled /\ PoisonedIsOver /\ ClosingIsShut

\* A worker that may still execute has the batch that the generation in the slot waits for.
Active(w) == w.stage \in {"starting", "executing"}
HasBatch(w) == turn.gen = w.gen /\ turn.pending /\ turn.next = w.round
WorkersInv ==
  /\ \A w \in workers :
       /\ vHandles[w.gen] # "none"
       /\ Active(w) /\ ~sessions[w.gen].cancelled => HasBatch(w)
       /\ turn.gen = w.gen => w.round <= turn.next /\ (w.round = turn.next => turn.pending)
  /\ \A v, w \in workers : v.gen = w.gen /\ v.round = w.round => v = w
ToolInv == SlotInvV /\ WorkersInv

\* What most steps do to the slot: they end its generation or leave it its batch, and a batch
\* is taken from it only with the session.
SlotKeepsBatch ==
  /\ \A g \in Turns :
       /\ vHandles[g] # "none" => vHandles'[g] # "none"
       /\ sessions[g].cancelled => sessions'[g].cancelled
       /\ turn.gen = g /\ turn.pending /\ ~sessions'[g].cancelled => turn'.gen = g
  /\ turn'.gen \in {turn.gen, NoTurnId}
  /\ turn'.gen = turn.gen => turn'.next = turn.next /\ (turn.pending => turn'.pending)

\* The workers keep their batches in such a step, if at most one goes on or leaves.
LEMMA WorkersKeepBatches ==
  ASSUME ToolInv, ToolTyped', SlotKeepsBatch,
         \/ workers' \subseteq workers
         \/ \E w \in workers : \E x \in WorkerRecord :
              /\ workers' = (workers \ {w}) \cup {x}
              /\ x.gen = w.gen /\ x.round = w.round /\ (Active(x) => Active(w))
  PROVE  WorkersInv'
  <1>1. \A x \in workers' : x \in WorkerRecord /\ \E w \in workers :
           x.gen = w.gen /\ x.round = w.round /\ (Active(x) => Active(w))
    BY DEF ToolInv, SlotInvV, ToolTyped
  <1>2. \A v, w \in workers' : v.gen = w.gen /\ v.round = w.round => v = w
    BY DEF ToolInv, WorkersInv
  <1>3. ASSUME NEW x \in workers'
        PROVE  /\ vHandles'[x.gen] # "none"
               /\ Active(x) /\ ~sessions'[x.gen].cancelled =>
                    turn'.gen = x.gen /\ turn'.pending /\ turn'.next = x.round
               /\ turn'.gen = x.gen => x.round <= turn'.next /\ (x.round = turn'.next => turn'.pending)
    <2>1. PICK w \in workers : x.gen = w.gen /\ x.round = w.round /\ (Active(x) => Active(w))
      BY <1>1
    <2>2. w.gen \in Turns /\ NoTurnId \notin Turns
      BY ToolAssumption DEF ToolInv, SlotInvV, ToolTyped, WorkerRecord
    <2>3. /\ vHandles[w.gen] # "none"
          /\ Active(w) /\ ~sessions[w.gen].cancelled => HasBatch(w)
          /\ turn.gen = w.gen => w.round <= turn.next /\ (w.round = turn.next => turn.pending)
      BY DEF ToolInv, WorkersInv
    <2> QED BY <2>1, <2>2, <2>3 DEF SlotKeepsBatch, HasBatch
  <1>4. \A x \in workers' : Active(x)' <=> Active(x)
    BY DEF Active
  <1> QED BY <1>2, <1>3 DEF WorkersInv, Active, HasBatch

\* Cancelling the session of the generation in the slot.
LEMMA SessionIsCancelled ==
  ASSUME ToolTyped, turn.gen # NoTurnId, CancelsSession
  PROVE  /\ sessions' \in [Turns -> SessionRecord] /\ turn.gen \in Turns
         /\ sessions'[turn.gen].cancelled
         /\ \A g \in Turns \ {turn.gen} : sessions'[g] = sessions[g]
  <1>1. turn.gen \in Turns
    BY DEF ToolTyped, TurnRecord
  <1>2. SessionCancelled(sessions[turn.gen]) \in SessionRecord
        /\ SessionCancelled(sessions[turn.gen]).cancelled
    BY <1>1 DEF ToolTyped, SessionRecord, SessionCancelled
  <1> QED BY <1>1, <1>2 DEF ToolTyped, CancelsSession

\* The handle of the generation in the slot settles, if it has not yet.
LEMMA HandleSettles ==
  ASSUME ToolTyped, turn.gen # NoTurnId, NEW end \in Final, SettleV(end)
  PROVE  /\ vHandles' \in [Turns -> Final \cup {"none", "open"}] /\ turn.gen \in Turns
         /\ vHandles'[turn.gen] = IF vHandles[turn.gen] \in Final THEN vHandles[turn.gen] ELSE end
         /\ \A g \in Turns \ {turn.gen} : vHandles'[g] = vHandles[g]
  <1>1. turn.gen \in Turns
    BY DEF ToolTyped, TurnRecord
  <1> QED BY <1>1 DEF ToolTyped, SettleV

\* An empty slot.
LEMMA EmptySlot ==
  /\ NoTurn \in TurnRecord /\ NoTurn.gen = NoTurnId /\ NoTurn.phase = "none"
  /\ ~NoTurn.pending /\ NoTurn.deferred = "none" /\ NoTurn.joiner = "none"
  BY DEF NoTurn, TurnRecord, TurnPhases, Kinds

\* A failure that waits for the session keeps the generation.
LEMMA DeferredKeeps ==
  ASSUME ToolTyped, NEW kind \in Kinds
  PROVE  LET t == Deferred(kind)
         IN /\ t \in TurnRecord /\ t.gen = turn.gen /\ t.phase = turn.phase /\ t.next = turn.next
            /\ t.pending = turn.pending /\ t.deferred = turn.deferred
            /\ turn.joiner # "none" => t.joiner = turn.joiner
  BY DEF ToolTyped, Deferred, TurnRecord

\* A failure, and a shutdown that fails what is in the slot.
LEMMA FailureKeepsSlot ==
  ASSUME SlotInvV, NEW kind \in Kinds, workers' \subseteq WorkerRecord, closing' \in {closing, FALSE},
         TurnFails(kind) \/ (PendingFails(kind) /\ vState' = "failed")
  PROVE  SlotInvV' /\ SlotKeepsBatch
  <1> DEFINE d == Deferred(kind)
  <1>0. /\ NoTurnId \notin Turns /\ turn \in TurnRecord /\ turn.gen \in Turns \cup {NoTurnId}
        /\ turn = NoTurn <=> turn.gen = NoTurnId
    BY ToolAssumption, EmptySlot DEF SlotInvV, ToolTyped, TurnRecord
  <1>1. vState' \in {vState, "failed"}
    BY DEF TurnFails, FailsNow
  <1>2. ClosingIsShut'
    BY <1>1 DEF SlotInvV, ClosingIsShut
  <1>3. CASE turn = NoTurn
    <2>1. UNCHANGED <<turn, vHandles, sessions>>
      BY <1>3 DEF TurnFails, PendingFails, FailsNow
    <2>2. turn.gen = NoTurnId /\ turn.phase = "none"
      BY <1>3, EmptySlot
    <2>3. ToolTyped'
      BY <1>1, <2>1 DEF SlotInvV, ToolTyped
    <2>4. OpenUntilCancelled' /\ PoisonedIsOver'
      BY <2>1, <2>2 DEF OpenUntilCancelled, PoisonedIsOver
    <2>5. SlotKeepsBatch
      BY <2>1 DEF SlotKeepsBatch
    <2> QED BY <1>2, <2>3, <2>4, <2>5 DEF SlotInvV
  <1>4. CASE turn # NoTurn
    <2>0. turn.gen # NoTurnId /\ turn.gen \in Turns
      BY <1>0, <1>4
    <2>1. CancelsSession
      BY <1>4 DEF TurnFails, PendingFails
    <2>2. /\ sessions' \in [Turns -> SessionRecord] /\ sessions'[turn.gen].cancelled
          /\ \A g \in Turns \ {turn.gen} : sessions'[g] = sessions[g]
      BY <2>0, <2>1, SessionIsCancelled DEF SlotInvV
    <2>3. CASE UNCHANGED <<turn, vHandles>>
      <3>1. ToolTyped'
        BY <1>1, <2>2, <2>3 DEF SlotInvV, ToolTyped
      <3>2. OpenUntilCancelled'
        BY <2>0, <2>2, <2>3 DEF SlotInvV, OpenUntilCancelled
      <3>3. PoisonedIsOver'
        BY <1>1, <2>3 DEF SlotInvV, PoisonedIsOver
      <3>4. SlotKeepsBatch
        BY <2>2, <2>3 DEF SlotKeepsBatch
      <3> QED BY <1>2, <3>1, <3>2, <3>3, <3>4 DEF SlotInvV
    <2>4. CASE turn' = d /\ UNCHANGED vHandles
      <3>0. /\ d \in TurnRecord /\ d.gen = turn.gen /\ d.phase = turn.phase /\ d.next = turn.next
            /\ d.pending = turn.pending
            /\ turn.joiner # "none" => d.joiner = turn.joiner
        BY DeferredKeeps DEF SlotInvV
      <3> HIDE DEF d
      <3>1. ToolTyped'
        BY <1>1, <2>0, <2>2, <2>4, <3>0 DEF SlotInvV, ToolTyped
      <3>2. OpenUntilCancelled'
        BY <2>0, <2>2, <2>4, <3>0 DEF SlotInvV, OpenUntilCancelled
      <3>3. PoisonedIsOver'
        BY <1>1, <2>4, <3>0 DEF SlotInvV, PoisonedIsOver
      <3>4. SlotKeepsBatch
        BY <2>2, <2>4, <3>0 DEF SlotKeepsBatch
      <3> QED BY <1>2, <3>1, <3>2, <3>3, <3>4 DEF SlotInvV
    <2>5. CASE SettleV("failed") /\ turn' = NoTurn
      <3>0. /\ vHandles' \in [Turns -> Final \cup {"none", "open"}]
            /\ vHandles'[turn.gen] \in Final
            /\ \A g \in Turns \ {turn.gen} : vHandles'[g] = vHandles[g]
        BY <2>0, <2>5, HandleSettles DEF SlotInvV, Final
      <3>1. ToolTyped'
        BY <1>1, <2>2, <2>5, <3>0, EmptySlot DEF SlotInvV, ToolTyped
      <3>2. OpenUntilCancelled' /\ PoisonedIsOver'
        BY <2>5, EmptySlot DEF OpenUntilCancelled, PoisonedIsOver
      <3>4. SlotKeepsBatch
        <4>1. \A g \in Turns : vHandles[g] # "none" => vHandles'[g] # "none"
          BY <3>0 DEF Final
        <4> QED BY <1>0, <2>0, <2>2, <2>5, <4>1, EmptySlot DEF SlotKeepsBatch
      <3> QED BY <1>2, <3>1, <3>2, <3>4 DEF SlotInvV
    <2> QED BY <1>4, <2>3, <2>4, <2>5 DEF TurnFails, PendingFails, FailsNow
  <1> QED BY <1>3, <1>4

\* The generation in the slot ends.  If its worker has a batch, its session is cancelled.
LEMMA FinishKeepsSlot ==
  ASSUME SlotInvV, turn.gen # NoTurnId, workers' \subseteq WorkerRecord,
         NEW end \in Final, SettleV(end), turn' = NoTurn,
         vState' \in {"ready", "shutting_down", "closed", "failed"},
         closing' => closing, vState' = "ready" => vState \in {"ready", "busy"},
         UNCHANGED sessions \/ CancelsSession,
         turn.pending => CancelsSession \/ sessions[turn.gen].cancelled
  PROVE  SlotInvV' /\ SlotKeepsBatch
  <1>0. /\ NoTurnId \notin Turns /\ turn.gen \in Turns
    BY ToolAssumption DEF SlotInvV, ToolTyped, TurnRecord
  <1>1. /\ vHandles' \in [Turns -> Final \cup {"none", "open"}]
        /\ vHandles'[turn.gen] \in Final
        /\ \A g \in Turns \ {turn.gen} : vHandles'[g] = vHandles[g]
    BY HandleSettles DEF SlotInvV, Final
  <1>2. /\ sessions' \in [Turns -> SessionRecord]
        /\ \A g \in Turns : sessions[g].cancelled => sessions'[g].cancelled
        /\ turn.pending => sessions'[turn.gen].cancelled
    <2>1. CASE UNCHANGED sessions /\ ~CancelsSession
      BY <2>1 DEF SlotInvV, ToolTyped
    <2>2. CASE CancelsSession
      BY <1>0, <2>2, SessionIsCancelled DEF SlotInvV
    <2> QED BY <2>1, <2>2
  <1>3. ToolTyped'
    BY <1>1, <1>2, EmptySlot DEF SlotInvV, ToolTyped
  <1>4. OpenUntilCancelled' /\ PoisonedIsOver'
    BY EmptySlot DEF OpenUntilCancelled, PoisonedIsOver
  <1>5. ClosingIsShut'
    BY DEF SlotInvV, ClosingIsShut
  <1>6. SlotKeepsBatch
    <2>1. \A g \in Turns : vHandles[g] # "none" => vHandles'[g] # "none"
      BY <1>1 DEF Final
    <2> QED BY <1>0, <1>2, <2>1, EmptySlot DEF SlotKeepsBatch
  <1> QED BY <1>3, <1>4, <1>5, <1>6 DEF SlotInvV

\* A step that only moves the generation on within its phases, or cancels it.
LEMMA PhaseKeepsSlot ==
  ASSUME SlotInvV, turn.gen # NoTurnId, workers' \subseteq WorkerRecord, UNCHANGED vHandles,
         turn' \in TurnRecord, turn'.gen = turn.gen, turn'.next = turn.next,
         turn.pending => turn'.pending, turn'.joiner = turn.joiner,
         turn'.phase \notin {"none", "terminal"} \/ turn'.phase = turn.phase,
         \/ CancelsSession
         \/ /\ turn'.pending = turn.pending
            /\ turn'.phase = turn.phase \/ turn.phase \notin {"tool_wait", "cancelling"},
         turn'.deferred \in {turn.deferred, "none"} \/ CancelsSession,
         \/ CancelsSession /\ vState' \in {vState, "shutting_down"} /\ vState # "failed"
            /\ (closing' => closing \/ vState' = "shutting_down")
         \/ (CancelsSession \/ UNCHANGED sessions) /\ UNCHANGED <<vState, closing>>
  PROVE  SlotInvV' /\ SlotKeepsBatch
  <1>0. /\ NoTurnId \notin Turns /\ turn.gen \in Turns
    BY ToolAssumption DEF SlotInvV, ToolTyped, TurnRecord
  <1>1. CASE CancelsSession
    <2>1. /\ sessions' \in [Turns -> SessionRecord] /\ sessions'[turn.gen].cancelled
          /\ \A g \in Turns \ {turn.gen} : sessions'[g] = sessions[g]
      BY <1>0, <1>1, SessionIsCancelled DEF SlotInvV
    <2>2. ToolTyped'
      BY <1>0, <2>1 DEF SlotInvV, ToolTyped
    <2>3. OpenUntilCancelled' /\ ClosingIsShut'
      BY <2>1 DEF SlotInvV, OpenUntilCancelled, ClosingIsShut
    <2>4. PoisonedIsOver'
      BY DEF SlotInvV, PoisonedIsOver
    <2>5. SlotKeepsBatch
      BY <1>0, <2>1 DEF SlotKeepsBatch
    <2> QED BY <2>2, <2>3, <2>4, <2>5 DEF SlotInvV
  <1>2. CASE ~CancelsSession
    <2>1. /\ UNCHANGED <<sessions, vState, closing>> /\ turn'.deferred \in {turn.deferred, "none"}
          /\ turn'.pending = turn.pending
          /\ turn'.phase = turn.phase \/ turn.phase \notin {"tool_wait", "cancelling"}
      BY <1>2
    <2>2. ToolTyped'
      BY <1>0, <2>1 DEF SlotInvV, ToolTyped
    <2>3. OpenUntilCancelled' /\ ClosingIsShut'
      BY <2>1 DEF SlotInvV, OpenUntilCancelled, ClosingIsShut
    <2>4. PoisonedIsOver'
      BY <2>1 DEF SlotInvV, PoisonedIsOver
    <2>5. SlotKeepsBatch
      BY <1>0, <2>1 DEF SlotKeepsBatch
    <2> QED BY <2>2, <2>3, <2>4, <2>5 DEF SlotInvV
  <1> QED BY <1>1, <1>2

\* The output limit settles the handle and leaves the generation to its cancellation.
LEMMA LimitKeepsSlot ==
  ASSUME SlotInvV, turn.gen # NoTurnId, workers' \subseteq WorkerRecord, SettleV("failed"),
         turn.phase \in {"accepted", "streaming", "continuing"},
         turn' = [turn EXCEPT !.phase = "cancelling"], UNCHANGED <<vState, closing, sessions>>
  PROVE  SlotInvV' /\ SlotKeepsBatch
  <1>0. /\ NoTurnId \notin Turns /\ turn.gen \in Turns
    BY ToolAssumption DEF SlotInvV, ToolTyped, TurnRecord
  <1>1. /\ vHandles' \in [Turns -> Final \cup {"none", "open"}]
        /\ vHandles'[turn.gen] \in Final
        /\ \A g \in Turns \ {turn.gen} : vHandles'[g] = vHandles[g]
    BY HandleSettles DEF SlotInvV, Final
  <1>2. /\ turn' \in TurnRecord /\ turn'.gen = turn.gen /\ turn'.next = turn.next
        /\ turn'.pending = turn.pending /\ turn'.phase = "cancelling"
        /\ turn'.deferred = turn.deferred /\ turn'.joiner = turn.joiner
    BY DEF SlotInvV, ToolTyped, TurnRecord, TurnPhases
  <1>3. ToolTyped'
    BY <1>0, <1>1, <1>2 DEF SlotInvV, ToolTyped
  <1>4. OpenUntilCancelled' /\ PoisonedIsOver' /\ ClosingIsShut'
    BY <1>1, <1>2 DEF SlotInvV, OpenUntilCancelled, PoisonedIsOver, ClosingIsShut, Final
  <1>5. SlotKeepsBatch
    <2>1. \A g \in Turns : vHandles[g] # "none" => vHandles'[g] # "none"
      BY <1>1 DEF Final
    <2> QED BY <1>0, <1>2, <2>1 DEF SlotKeepsBatch
  <1> QED BY <1>3, <1>4, <1>5 DEF SlotInvV

\* A step beside an empty slot.
LEMMA EmptySlotKept ==
  ASSUME SlotInvV, turn = NoTurn, UNCHANGED <<turn, vHandles, sessions>>, workers' \subseteq WorkerRecord,
         vState' \in {vState, "shutting_down", "closed", "failed"},
         closing' => vState' \notin {"ready", "busy"}
  PROVE  SlotInvV' /\ SlotKeepsBatch
  <1>1. ToolTyped'
    BY DEF SlotInvV, ToolTyped
  <1>2. OpenUntilCancelled' /\ PoisonedIsOver' /\ ClosingIsShut'
    BY EmptySlot DEF OpenUntilCancelled, PoisonedIsOver, ClosingIsShut
  <1>3. SlotKeepsBatch
    BY DEF SlotKeepsBatch
  <1> QED BY <1>1, <1>2, <1>3 DEF SlotInvV

\* A step of a tool session or of the sidecar.
LEMMA SlotLeftAlone ==
  ASSUME SlotInvV, UNCHANGED <<vState, turn, vHandles, closing>>, workers' \subseteq WorkerRecord,
         sessions' \in [Turns -> SessionRecord],
         \A g \in Turns : sessions'[g].cancelled = sessions[g].cancelled
  PROVE  SlotInvV' /\ SlotKeepsBatch
  <1>0. turn.gen \in Turns \cup {NoTurnId} /\ UNCHANGED <<vState, turn, vHandles, closing>>
    BY DEF SlotInvV, ToolTyped, TurnRecord
  <1>1. ToolTyped'
    BY <1>0 DEF SlotInvV, ToolTyped
  <1>2. OpenUntilCancelled' /\ PoisonedIsOver' /\ ClosingIsShut'
    BY <1>0 DEF SlotInvV, OpenUntilCancelled, PoisonedIsOver, ClosingIsShut
  <1>3. SlotKeepsBatch
    BY <1>0 DEF SlotKeepsBatch
  <1> QED BY <1>1, <1>2, <1>3 DEF SlotInvV

\* The steps of callers, timers and of the thread that joins a session.
CallerStep ==
  \/ \E g \in Turns : CancelTurn(g)
  \/ TimerExpires \/ TurnShutdown \/ TurnShutdownEnds \/ TurnShutdownExpires
  \/ JoinerFails \/ JoinerPoisons \/ PipeEnds \/ WriteFailsV
\* They keep the slot, and leave the workers alone.
LEMMA CallersKeepSlot ==
  ASSUME SlotInvV, CallerStep
  PROVE  SlotInvV' /\ SlotKeepsBatch /\ UNCHANGED workers
  <1>0. /\ NoTurnId \notin Turns /\ turn \in TurnRecord /\ turn.gen \in Turns \cup {NoTurnId}
        /\ turn = NoTurn <=> turn.gen = NoTurnId
        /\ workers \subseteq WorkerRecord
        /\ {"timeout", "crashed"} \subseteq Kinds
    BY ToolAssumption, EmptySlot DEF SlotInvV, ToolTyped, TurnRecord, Kinds
  <1>1. UNCHANGED workers
    BY DEF CallerStep, CancelTurn, TimerExpires, TurnShutdown, TurnShutdownEnds, TurnShutdownExpires,
           JoinerFails, JoinerPoisons, PipeEnds, WriteFailsV, toolVars
  <1>2. ASSUME NEW g \in Turns, CancelTurn(g) PROVE SlotInvV' /\ SlotKeepsBatch
    <2>1. /\ turn.gen # NoTurnId /\ CancelsSession /\ UNCHANGED <<vState, vHandles, closing>>
          /\ \/ turn' = [turn EXCEPT !.fenced = TRUE]
             \/ turn' = [turn EXCEPT !.fenced = TRUE, !.phase = "cancelling"]
      BY <1>0, <1>2 DEF CancelTurn
    <2>2. /\ turn' \in TurnRecord /\ turn'.gen = turn.gen /\ turn'.next = turn.next
          /\ turn'.pending = turn.pending /\ turn'.joiner = turn.joiner
          /\ turn'.phase \in {turn.phase, "cancelling"} /\ turn'.deferred = turn.deferred
      BY <1>0, <2>1 DEF TurnRecord, TurnPhases
    <2> QED BY <1>0, <1>1, <2>1, <2>2, PhaseKeepsSlot
  <1>3. CASE TimerExpires \/ PipeEnds \/ WriteFailsV
    <2>1. /\ UNCHANGED closing
          /\ TurnFails("timeout") \/ TurnFails("crashed") \/ UNCHANGED <<slotVarsV, sessions>>
      BY <1>3 DEF TimerExpires, PipeEnds, WriteFailsV
    <2>2. CASE UNCHANGED <<slotVarsV, sessions>>
      <3>1. UNCHANGED <<vState, turn, vHandles, sessions>> /\ UNCHANGED closing
        BY <2>1, <2>2 DEF slotVarsV
      <3>2. sessions \in [Turns -> SessionRecord]
        BY DEF SlotInvV, ToolTyped
      <3> QED BY <1>0, <1>1, <3>1, <3>2, SlotLeftAlone
    <2> QED BY <1>0, <1>1, <2>1, <2>2, FailureKeepsSlot
  <1>4. CASE TurnShutdown
    <2>1. CASE vState = "failed" /\ PendingFails("crashed") /\ UNCHANGED <<vState, closing>>
      BY <1>0, <1>1, <2>1, FailureKeepsSlot
    <2>2. CASE closing' = TRUE /\ vState' = "shutting_down" /\ turn = NoTurn /\ UNCHANGED <<turn, sessions, vHandles>>
      BY <1>0, <1>1, <2>2, EmptySlotKept
    <2>3. CASE /\ vState \in {"ready", "busy"} /\ closing' = TRUE /\ vState' = "shutting_down"
               /\ turn # NoTurn /\ CancelsSession /\ UNCHANGED vHandles
               /\ turn' = [turn EXCEPT !.fenced = TRUE, !.phase = "cancelling"]
      <3>1. /\ turn' \in TurnRecord /\ turn'.gen = turn.gen /\ turn'.next = turn.next
            /\ turn'.pending = turn.pending /\ turn'.joiner = turn.joiner
            /\ turn'.phase = "cancelling" /\ turn'.deferred = turn.deferred
        BY <1>0, <2>3 DEF TurnRecord, TurnPhases
      <3> QED BY <1>0, <1>1, <2>3, <3>1, PhaseKeepsSlot
    <2> QED BY <1>4, <2>1, <2>2, <2>3 DEF TurnShutdown
  <1>5. CASE TurnShutdownEnds
    <2>1. closing /\ closing' = FALSE /\ vState' \in {"closed", "failed"} /\ UNCHANGED sessions
      BY <1>5 DEF TurnShutdownEnds, toolVars
    <2>2. CASE turn = NoTurn
      <3>1. UNCHANGED <<turn, vHandles>>
        BY <1>5, <2>2 DEF TurnShutdownEnds
      <3> QED BY <1>0, <1>1, <2>1, <2>2, <3>1, EmptySlotKept
    <2>3. CASE turn # NoTurn
      <3>1. PICK end \in Final : SettleV(end) /\ turn' = NoTurn
        BY <1>5, <2>3 DEF TurnShutdownEnds, Final
      <3>2. sessions[turn.gen].cancelled
        BY <1>0, <2>1, <2>3 DEF SlotInvV, OpenUntilCancelled, ClosingIsShut
      <3> QED BY <1>0, <1>1, <2>1, <2>3, <3>1, <3>2, FinishKeepsSlot
    <2> QED BY <2>2, <2>3
  <1>6. CASE TurnShutdownExpires
    <2>1. PendingFails("timeout") /\ vState' = "failed" /\ closing' = FALSE
      BY <1>6 DEF TurnShutdownExpires
    <2> QED BY <1>0, <1>1, <2>1, FailureKeepsSlot
  <1>7. CASE JoinerFails \/ JoinerPoisons
    <2>1. /\ turn.joiner = "waiting" /\ turn.gen # NoTurnId /\ turn.gen \in Turns /\ turn # NoTurn
          /\ UNCHANGED <<sessions, closing>>
      BY <1>0, <1>7, EmptySlot DEF JoinerFails, JoinerPoisons, toolVars
    <2>2. sessions[turn.gen].cancelled /\ vHandles[turn.gen] # "none" /\ turn.phase # "terminal"
      BY <2>1 DEF SlotInvV, ToolTyped, SessionRecord, OpenUntilCancelled, PoisonedIsOver
    <2>3. CASE vState \in {"closed", "failed"} /\ UNCHANGED <<vState, vHandles, turn>>
      <3>1. sessions \in [Turns -> SessionRecord]
        BY DEF SlotInvV, ToolTyped
      <3> QED BY <1>0, <1>1, <2>1, <2>3, <3>1, SlotLeftAlone
    <2>4. CASE vState' = "failed" /\ SettleV("failed") /\ turn' = NoTurn
      BY <1>0, <1>1, <2>1, <2>2, <2>4, FinishKeepsSlot DEF Final
    <2>5. CASE turn' = [turn EXCEPT !.joiner = "ended"] /\ UNCHANGED <<vState, vHandles>>
      <3>1. /\ turn' \in TurnRecord /\ turn'.gen = turn.gen /\ turn'.next = turn.next
            /\ turn'.pending = turn.pending /\ turn'.phase = turn.phase /\ turn'.deferred = turn.deferred
        BY <1>0, <2>5 DEF TurnRecord
      <3>2. ToolTyped'
        BY <1>1, <2>1, <2>5, <3>1 DEF SlotInvV, ToolTyped
      <3>3. OpenUntilCancelled' /\ PoisonedIsOver' /\ ClosingIsShut'
        BY <2>1, <2>2, <2>5, <3>1 DEF SlotInvV, OpenUntilCancelled, PoisonedIsOver, ClosingIsShut
      <3>4. SlotKeepsBatch
        BY <2>1, <2>5, <3>1 DEF SlotKeepsBatch
      <3> QED BY <1>1, <3>2, <3>3, <3>4 DEF SlotInvV
    <2>6. CASE /\ vState' = "failed" /\ SettleV("failed")
               /\ turn' = [turn EXCEPT !.phase = "terminal", !.fenced = TRUE, !.joiner = "ended"]
      <3>1. /\ turn' \in TurnRecord /\ turn'.gen = turn.gen /\ turn'.next = turn.next
            /\ turn'.pending = turn.pending /\ turn'.phase = "terminal" /\ turn'.joiner = "ended"
        BY <1>0, <2>6 DEF TurnRecord, TurnPhases
      <3>2. /\ vHandles' \in [Turns -> Final \cup {"none", "open"}]
            /\ vHandles'[turn.gen] \in Final
            /\ \A h \in Turns \ {turn.gen} : vHandles'[h] = vHandles[h]
        BY <2>1, <2>6, HandleSettles DEF SlotInvV, Final
      <3>3. ToolTyped'
        BY <1>1, <2>1, <2>6, <3>1, <3>2 DEF SlotInvV, ToolTyped
      <3>4. OpenUntilCancelled' /\ PoisonedIsOver' /\ ClosingIsShut'
        BY <2>1, <2>2, <2>6, <3>1, <3>2 DEF OpenUntilCancelled, PoisonedIsOver, ClosingIsShut, Final
      <3>5. SlotKeepsBatch
        <4>1. \A h \in Turns : vHandles[h] # "none" => vHandles'[h] # "none"
          BY <2>1, <3>2 DEF Final
        <4> QED BY <2>1, <3>1, <4>1 DEF SlotKeepsBatch
      <3> QED BY <1>1, <3>3, <3>4, <3>5 DEF SlotInvV
    <2> QED BY <1>7, <2>1, <2>3, <2>4, <2>5, <2>6 DEF JoinerFails, JoinerPoisons, FailsNow
  <1> QED BY <1>1, <1>2, <1>3, <1>4, <1>5, <1>6, <1>7 DEF CallerStep

\* The frames of the sidecar, but for a batch that is admitted.
LEMMA FramesKeepSlot ==
  ASSUME SlotInvV, DispatchV,
         ~(ToolCallsFrame /\ AddressedV /\ BatchAdmissible(Head(toHostV).round))
  PROVE  SlotInvV' /\ SlotKeepsBatch /\ UNCHANGED workers
  <1>0. /\ NoTurnId \notin Turns /\ turn \in TurnRecord /\ turn.gen \in Turns \cup {NoTurnId}
        /\ turn = NoTurn <=> turn.gen = NoTurnId
        /\ workers \subseteq WorkerRecord /\ sessions \in [Turns -> SessionRecord]
        /\ {"protocol", "crashed", "overflow"} \subseteq Kinds
    BY ToolAssumption, EmptySlot DEF SlotInvV, ToolTyped, TurnRecord, Kinds
  <1>1. UNCHANGED closing
    BY DEF DispatchV, StaleFrame, AcceptedFrame, DeltaFrame, ToolCallsFrame, TerminalFrame,
           ShutdownFrame, ReceivedV
  <1>2. CASE \E kind \in Kinds : TurnFails(kind) /\ UNCHANGED workers
    BY <1>0, <1>1, <1>2, FailureKeepsSlot
  <1>3. CASE UNCHANGED <<slotVarsV, sessions, workers>>
    <2>1. UNCHANGED <<vState, turn, vHandles, closing>> /\ UNCHANGED sessions /\ UNCHANGED workers
      BY <1>1, <1>3 DEF slotVarsV
    <2> QED BY <1>0, <2>1, SlotLeftAlone
  <1>4. CASE StaleFrame
    <2>1. UNCHANGED <<sessions, workers>>
      BY <1>4 DEF StaleFrame
    <2>2. CASE turn = NoTurn /\ FailsNow("protocol")
      <3>1. UNCHANGED <<turn, vHandles>> /\ vState' \in {vState, "failed"}
        BY <2>2 DEF FailsNow
      <3> QED BY <1>0, <1>1, <2>1, <2>2, <3>1, EmptySlotKept DEF SlotInvV, ClosingIsShut
    <2> QED BY <1>3, <1>4, <2>1, <2>2 DEF StaleFrame
  <1>5. CASE AcceptedFrame \/ DeltaFrame
    <2>1. AddressedV /\ UNCHANGED workers
      BY <1>5 DEF AcceptedFrame, DeltaFrame
    <2>2. CASE /\ UNCHANGED <<vState, vHandles, sessions>>
               /\ \/ turn' = [turn EXCEPT !.phase = IF @ = "created" THEN "accepted" ELSE @]
                  \/ /\ turn.phase \notin {"tool_wait", "cancelling"}
                     /\ turn' = [turn EXCEPT !.phase = "streaming"]
      <3>1. /\ turn' \in TurnRecord /\ turn'.gen = turn.gen /\ turn'.next = turn.next
            /\ turn'.pending = turn.pending /\ turn'.joiner = turn.joiner
            /\ turn'.phase \in {"accepted", "streaming", turn.phase} /\ turn'.deferred = turn.deferred
            /\ turn'.phase = turn.phase \/ turn.phase \notin {"tool_wait", "cancelling"}
        BY <1>0, <2>2 DEF TurnRecord, TurnPhases
      <3>2. turn.gen # NoTurnId
        BY <1>0, <2>1 DEF AddressedV
      <3> QED BY <1>0, <1>1, <2>1, <2>2, <3>1, <3>2, PhaseKeepsSlot
    <2>3. CASE /\ turn.phase \in {"accepted", "streaming", "continuing"}
               /\ turn' = [turn EXCEPT !.phase = "cancelling"] /\ SettleV("failed")
               /\ UNCHANGED <<vState, sessions>>
      <3>1. turn.gen # NoTurnId
        BY <1>0, <2>1 DEF AddressedV
      <3> QED BY <1>0, <1>1, <2>1, <2>3, <3>1, LimitKeepsSlot
    <2> QED BY <1>0, <1>2, <1>3, <1>5, <2>1, <2>2, <2>3 DEF AcceptedFrame, DeltaFrame, LimitReached
  <1>6. CASE ToolCallsFrame
    BY <1>0, <1>2, <1>6 DEF ToolCallsFrame
  <1>7. CASE TerminalFrame
    <2>1. PICK type \in Final \cup {"unconfirmed"} :
            /\ ReceivedV({type}) /\ AddressedV
            /\ IF turn.pending /\ type = "completed" THEN TurnFails("protocol")
               ELSE IF turn.pending /\ turn.worker /\ ~Joined(turn.gen)
               THEN /\ CancelsSession
                    /\ turn' = [turn EXCEPT !.fenced = TRUE, !.deferred = type]
                    /\ UNCHANGED <<vState, vFailure, vHandles>>
               ELSE IF turn.phase = "created" /\ type \notin {"failed", "unconfirmed"}
               THEN TurnFails("protocol")
               ELSE IF type = "unconfirmed" THEN TurnFails("crashed")
               ELSE /\ TurnFinishes(type)
                    /\ IF turn.pending THEN CancelsSession ELSE UNCHANGED sessions
      BY <1>7 DEF TerminalFrame
    <2>2. UNCHANGED workers /\ turn.gen # NoTurnId
      BY <1>0, <1>7, <2>1 DEF TerminalFrame, AddressedV
    <2>3. CASE /\ CancelsSession /\ UNCHANGED <<vState, vHandles>>
               /\ turn' = [turn EXCEPT !.fenced = TRUE, !.deferred = type]
      <3>1. /\ turn' \in TurnRecord /\ turn'.gen = turn.gen /\ turn'.next = turn.next
            /\ turn'.pending = turn.pending /\ turn'.joiner = turn.joiner
            /\ turn'.phase = turn.phase
        BY <1>0, <2>3 DEF TurnRecord, Final
      <3> QED BY <1>0, <1>1, <2>2, <2>3, <3>1, PhaseKeepsSlot
    <2>4. CASE /\ type \in Final /\ TurnFinishes(type)
               /\ IF turn.pending THEN CancelsSession ELSE UNCHANGED sessions
      <3>1. /\ SettleV(type) /\ turn' = NoTurn
            /\ vState' \in {"ready", "shutting_down", "closed", "failed"}
            /\ vState' = "ready" => vState \in {"ready", "busy"}
        BY <2>4 DEF TurnFinishes, SlotInvV, ToolTyped
      <3> QED BY <1>0, <1>1, <2>2, <2>4, <3>1, FinishKeepsSlot
    <2> QED BY <1>0, <1>2, <2>1, <2>2, <2>3, <2>4
  <1>8. CASE ShutdownFrame
    BY <1>3, <1>8 DEF ShutdownFrame
  <1> QED BY <1>4, <1>5, <1>6, <1>7, <1>8 DEF DispatchV

\* The steps of a worker that leave its batch with it or give it up.
LEMMA WorkersKeepSlot ==
  ASSUME SlotInvV, NEW w \in workers, ~(WorkerSubmits(w) /\ Acceptable(w)),
         WorkerStepV(w) \/ CallStarts(w) \/ CallSettles(w) \/ CallUncontained(w)
  PROVE  /\ SlotInvV' /\ SlotKeepsBatch
         /\ \/ workers' \subseteq workers
            \/ \E x \in WorkerRecord :
                 /\ workers' = (workers \ {w}) \cup {x}
                 /\ x.gen = w.gen /\ x.round = w.round /\ (Active(x) => Active(w))
  <1> DEFINE Moved == \E x \in WorkerRecord :
                 /\ workers' = (workers \ {w}) \cup {x}
                 /\ x.gen = w.gen /\ x.round = w.round /\ (Active(x) => Active(w))
  <1>0. /\ w \in WorkerRecord /\ w.gen \in Turns /\ workers \subseteq WorkerRecord
        /\ sessions \in [Turns -> SessionRecord]
        /\ {"crashed", "uncontained", "session"} \subseteq Kinds
    BY DEF SlotInvV, ToolTyped, WorkerRecord, Kinds
  <1>a. ASSUME NEW stage \in {"returned", "raised", "releasing"}, Becomes(w, stage) PROVE Moved
    <2>1. [w EXCEPT !.stage = stage] \in WorkerRecord
      BY <1>0 DEF WorkerRecord
    <2> QED BY <1>0, <1>a, <2>1 DEF Becomes, Active, WorkerRecord
  <1>b. Moved => workers' \subseteq WorkerRecord
    BY <1>0
  <1>1. CASE WorkerEnters(w)
    <2>1. UNCHANGED <<vState, turn, vHandles, closing>>
      BY <1>1 DEF WorkerEnters, OnlyTools, slotVarsV
    <2>2. Moved
      <3>1. CASE Becomes(w, "raised")
        BY <1>a, <3>1
      <3>2. CASE Becomes(w, "executing")
        <4>1. [w EXCEPT !.stage = "executing"] \in WorkerRecord
          BY <1>0 DEF WorkerRecord
        <4> QED BY <1>0, <1>1, <3>2, <4>1 DEF WorkerEnters, Becomes, Active, WorkerRecord
      <3> QED BY <1>1, <3>1, <3>2 DEF WorkerEnters
    <2>3. sessions' \in [Turns -> SessionRecord]
          /\ \A g \in Turns : sessions'[g].cancelled = sessions[g].cancelled
      <3>1. CASE UNCHANGED sessions
        BY <1>0, <3>1
      <3>2. CASE sessions' = [sessions EXCEPT ![w.gen] = [@ EXCEPT !.state = "running", !.last = w.round]]
        <4>1. w.round \in Nat /\ sessions[w.gen] \in SessionRecord
          BY <1>0 DEF WorkerRecord
        <4>2. /\ [sessions[w.gen] EXCEPT !.state = "running", !.last = w.round] \in SessionRecord
              /\ [sessions[w.gen] EXCEPT !.state = "running", !.last = w.round].cancelled
                   = sessions[w.gen].cancelled
          BY <4>1 DEF SessionRecord
        <4> QED BY <1>0, <3>2, <4>2
      <3> QED BY <1>1, <3>1, <3>2 DEF WorkerEnters
    <2> HIDE DEF Moved
    <2> QED BY <1>b, <2>1, <2>2, <2>3, SlotLeftAlone DEF Moved
  <1>2. CASE CallStarts(w)
    <2>1. UNCHANGED <<vState, turn, vHandles, closing, sessions, workers>>
      BY <1>2 DEF CallStarts, OnlyTools, slotVarsV
    <2> QED BY <1>0, <2>1, SlotLeftAlone
  <1>3. CASE CallSettles(w)
    <2>1. UNCHANGED <<vState, turn, vHandles, closing, sessions>>
      BY <1>3 DEF CallSettles, OnlyTools, slotVarsV
    <2>2. Moved
      <3>1. [w EXCEPT !.left = @ - 1] \in WorkerRecord
        BY <1>0, <1>3 DEF CallSettles, WorkerRecord
      <3> QED BY <1>0, <1>3, <3>1 DEF CallSettles, Active, WorkerRecord
    <2> HIDE DEF Moved
    <2> QED BY <1>0, <1>b, <2>1, <2>2, SlotLeftAlone DEF Moved
  <1>4. CASE CallUncontained(w) \/ BatchEnds(w)
    <2>1. UNCHANGED <<vState, turn, vHandles, closing>>
      BY <1>4 DEF CallUncontained, BatchEnds, OnlyTools, slotVarsV
    <2>2. Moved
      BY <1>4, <1>a DEF CallUncontained, BatchEnds
    <2>3. sessions' \in [Turns -> SessionRecord]
          /\ \A g \in Turns : sessions'[g].cancelled = sessions[g].cancelled
      BY <1>0, <1>4 DEF CallUncontained, BatchEnds, SessionRecord
    <2> HIDE DEF Moved
    <2> QED BY <1>b, <2>1, <2>2, <2>3, SlotLeftAlone DEF Moved
  <1>5. CASE WorkerSubmits(w)
    <2>1. UNCHANGED <<vState, turn, vHandles, closing, sessions>>
      BY <1>5 DEF WorkerSubmits
    <2>2. Moved
      BY <1>5, <1>a DEF WorkerSubmits
    <2> HIDE DEF Moved
    <2> QED BY <1>0, <1>b, <2>1, <2>2, SlotLeftAlone DEF Moved
  <1>6. CASE WorkerFails(w)
    <2>1. UNCHANGED closing /\ (TurnFails("uncontained") \/ TurnFails("session"))
      BY <1>6 DEF WorkerFails
    <2>2. Moved
      BY <1>6, <1>a DEF WorkerFails
    <2> HIDE DEF Moved
    <2> QED BY <1>0, <1>b, <2>1, <2>2, FailureKeepsSlot DEF Moved
  <1>7. CASE WorkerReleases(w)
    <2>1. workers' \subseteq workers /\ UNCHANGED closing
      BY <1>7 DEF WorkerReleases
    <2>2. CASE turn.gen # w.gen
      <3>1. UNCHANGED <<vState, turn, vHandles, sessions>>
        BY <1>7, <2>2 DEF WorkerReleases, slotVarsV
      <3> QED BY <1>0, <2>1, <3>1, SlotLeftAlone
    <2>3. CASE /\ turn.gen = w.gen /\ turn' = [turn EXCEPT !.worker = FALSE, !.deferred = "none"]
               /\ UNCHANGED <<vState, vHandles, sessions>>
      <3>1. /\ turn' \in TurnRecord /\ turn'.gen = turn.gen /\ turn'.next = turn.next
            /\ turn'.pending = turn.pending /\ turn'.joiner = turn.joiner
            /\ turn'.phase = turn.phase /\ turn'.deferred = "none"
        BY <2>3 DEF SlotInvV, ToolTyped, TurnRecord
      <3>2. turn.gen # NoTurnId
        BY <1>0, <2>3, ToolAssumption
      <3> QED BY <1>0, <2>1, <2>3, <3>1, <3>2, PhaseKeepsSlot
    <2>4. CASE TurnFails("crashed")
      BY <1>0, <2>1, <2>4, FailureKeepsSlot
    <2>5. CASE /\ turn.gen = w.gen /\ turn.deferred \notin {"none", "unconfirmed"}
               /\ TurnFinishes(turn.deferred) /\ UNCHANGED sessions
      <3>1. turn.gen # NoTurnId /\ turn.deferred \in Final
        BY <1>0, <2>5, ToolAssumption DEF SlotInvV, ToolTyped, TurnRecord
      <3>2. sessions[turn.gen].cancelled
        BY <2>5, <3>1 DEF SlotInvV, OpenUntilCancelled
      <3>3. /\ SettleV(turn.deferred) /\ turn' = NoTurn
            /\ vState' \in {"ready", "shutting_down", "closed", "failed"}
            /\ vState' = "ready" => vState \in {"ready", "busy"}
        BY <2>5 DEF TurnFinishes, SlotInvV, ToolTyped
      <3> QED BY <1>0, <2>1, <2>5, <3>1, <3>2, <3>3, FinishKeepsSlot
    <2> QED BY <1>7, <2>1, <2>2, <2>3, <2>4, <2>5 DEF WorkerReleases
  <1> QED BY <1>1, <1>2, <1>3, <1>4, <1>5, <1>6, <1>7 DEF WorkerStepV

\* The results of a batch: it is consumed, and no other worker has it.
LEMMA SubmitKeepsInv ==
  ASSUME ToolInv, NEW w \in workers, WorkerSubmits(w), Acceptable(w)
  PROVE  ToolInv'
  <1> DEFINE y == [w EXCEPT !.stage = "releasing"]
  <1>0. /\ w \in WorkerRecord /\ workers \subseteq WorkerRecord /\ turn \in TurnRecord
        /\ turn.gen = w.gen /\ turn.pending /\ w.round = turn.next /\ w.stage = "returned"
        /\ workers' = (workers \ {w}) \cup {y}
        /\ UNCHANGED <<vState, vHandles, sessions, closing>>
        /\ turn' = [turn EXCEPT !.pending = FALSE, !.next = @ + 1, !.phase = "continuing"]
    BY DEF ToolInv, SlotInvV, ToolTyped, WorkerSubmits, Acceptable, Becomes
  <1>1. y \in WorkerRecord /\ y.gen = w.gen /\ y.round = w.round /\ ~Active(y)
    BY <1>0 DEF WorkerRecord, Active
  <1>a. turn.next \in Nat /\ turn.next + 1 \in Nat
    BY <1>0 DEF TurnRecord
  <1>2. /\ turn' \in TurnRecord /\ turn'.gen = turn.gen /\ turn'.next = turn.next + 1
        /\ turn'.phase = "continuing" /\ turn'.deferred = turn.deferred
        /\ turn'.joiner = turn.joiner /\ ~turn'.pending /\ turn.next \in Nat
    <2>1. turn' = [turn EXCEPT !.pending = FALSE, !.next = turn.next + 1, !.phase = "continuing"]
      BY <1>0 DEF TurnRecord
    <2> QED BY <1>0, <1>a, <2>1 DEF TurnRecord, TurnPhases
  <1>3. turn.gen # NoTurnId
    BY <1>0, ToolAssumption DEF WorkerRecord
  <1> HIDE DEF y
  <1>4. ToolTyped'
    BY <1>0, <1>1, <1>2, <1>3 DEF ToolInv, SlotInvV, ToolTyped
  <1>5. OpenUntilCancelled' /\ PoisonedIsOver' /\ ClosingIsShut'
    BY <1>0, <1>2 DEF ToolInv, SlotInvV, OpenUntilCancelled, PoisonedIsOver, ClosingIsShut
  <1>6. WorkersInv'
    <2>1. \A v, x \in workers' : v.gen = x.gen /\ v.round = x.round => v = x
      BY <1>0, <1>1 DEF ToolInv, WorkersInv
    <2>2. ASSUME NEW x \in workers'
          PROVE  /\ vHandles'[x.gen] # "none"
                 /\ ~(Active(x) /\ ~sessions'[x.gen].cancelled)
                 /\ turn'.gen = x.gen => x.round < turn'.next
      <3>1. CASE x = y
        BY <1>0, <1>1, <1>2, <3>1 DEF ToolInv, WorkersInv, WorkerRecord
      <3>2. CASE x # y
        <4>1. x \in workers /\ x # w /\ x.round \in Nat
          BY <1>0, <3>2 DEF WorkerRecord
        <4>2. ~(x.gen = w.gen /\ x.round = w.round)
          BY <4>1 DEF ToolInv, WorkersInv
        <4> QED BY <1>0, <1>2, <4>1, <4>2 DEF ToolInv, WorkersInv, HasBatch
      <3> QED BY <3>1, <3>2
    <2>3. \A x \in workers' : x.round \in Nat /\ (Active(x)' <=> Active(x))
      BY <1>4 DEF ToolTyped, WorkerRecord, Active
    <2>4. turn'.next \in Nat
      BY <1>2 DEF TurnRecord
    <2> QED BY <2>1, <2>2, <2>3, <2>4 DEF WorkersInv, Active, HasBatch
  <1> QED BY <1>4, <1>5, <1>6 DEF ToolInv, SlotInvV

\* A batch is admitted: no worker of the generation has this round yet.
LEMMA AdmissionKeepsInv ==
  ASSUME ToolInv, ToolCallsFrame, AddressedV, BatchAdmissible(Head(toHostV).round)
  PROVE  ToolInv'
  <1>0. PICK n \in 1 .. MaxCalls :
          workers' = workers \cup {[gen |-> turn.gen, round |-> Head(toHostV).round, left |-> n,
                                    stage |-> "starting"]}
    BY DEF ToolCallsFrame
  <1> DEFINE y == [gen |-> turn.gen, round |-> turn.next, left |-> n, stage |-> "starting"]
  <1>1. /\ turn \in TurnRecord /\ workers \subseteq WorkerRecord /\ workers' = workers \cup {y}
        /\ turn' = [turn EXCEPT !.phase = "tool_wait", !.pending = TRUE, !.worker = TRUE]
        /\ UNCHANGED <<vState, vHandles, sessions, closing>>
        /\ ~turn.pending /\ turn.phase # "cancelling"
    BY <1>0 DEF ToolInv, SlotInvV, ToolTyped, ToolCallsFrame, BatchAdmissible, ReceivedV
  <1>2. turn.gen # NoTurnId /\ turn.gen \in Turns /\ turn.next \in Nat
    BY <1>1 DEF AddressedV, ToolInv, SlotInvV, ToolTyped, TurnRecord
  <1>3. y \in WorkerRecord /\ y.gen = turn.gen /\ y.round = turn.next
    BY <1>2, ToolAssumption DEF WorkerRecord
  <1>4. /\ turn' \in TurnRecord /\ turn'.gen = turn.gen /\ turn'.next = turn.next
        /\ turn'.phase = "tool_wait" /\ turn'.deferred = turn.deferred
        /\ turn'.joiner = turn.joiner /\ turn'.pending
    BY <1>1 DEF TurnRecord, TurnPhases
  <1> HIDE DEF y
  <1>5. SlotInvV'
    <2>1. ToolTyped'
      BY <1>1, <1>2, <1>3, <1>4 DEF ToolInv, SlotInvV, ToolTyped
    <2>2. OpenUntilCancelled' /\ PoisonedIsOver' /\ ClosingIsShut'
      BY <1>1, <1>4 DEF ToolInv, SlotInvV, OpenUntilCancelled, PoisonedIsOver, ClosingIsShut
    <2> QED BY <2>1, <2>2 DEF SlotInvV
  <1>6. WorkersInv'
    <2>0. \A v \in workers : ~(v.gen = turn.gen /\ v.round = turn.next) /\ v.round \in Nat
      BY <1>1 DEF ToolInv, WorkersInv, WorkerRecord
    <2>1. \A v, x \in workers' : v.gen = x.gen /\ v.round = x.round => v = x
      BY <1>1, <1>3, <2>0 DEF ToolInv, WorkersInv
    <2>2. ASSUME NEW x \in workers'
          PROVE  /\ vHandles'[x.gen] # "none"
                 /\ Active(x) /\ ~sessions'[x.gen].cancelled =>
                      turn'.gen = x.gen /\ turn'.pending /\ turn'.next = x.round
                 /\ turn'.gen = x.gen => x.round <= turn'.next /\ (x.round = turn'.next => turn'.pending)
      <3>1. CASE x = y
        BY <1>1, <1>2, <1>3, <1>4, <3>1 DEF ToolInv, SlotInvV, OpenUntilCancelled
      <3>2. CASE x # y
        <4>1. x \in workers
          BY <1>1, <3>2
        <4> QED BY <1>1, <1>4, <4>1 DEF ToolInv, WorkersInv, HasBatch
      <3> QED BY <3>1, <3>2
    <2>3. \A x \in workers' : Active(x)' <=> Active(x)
      BY DEF Active
    <2> QED BY <2>1, <2>2, <2>3 DEF WorkersInv, Active, HasBatch
  <1> QED BY <1>5, <1>6 DEF ToolInv

\* A generation enters the slot: it has no worker yet, and those of others are cancelled.
LEMMA GenerateKeepsInv ==
  ASSUME ToolInv, NEW g \in Turns, GenerateForRun(g)
  PROVE  ToolInv'
  <1>0. /\ turn = NoTurn /\ turn.gen = NoTurnId /\ NoTurnId \notin Turns /\ ~closing
        /\ vState' = "busy" /\ UNCHANGED <<sessions, workers, closing>>
        /\ vHandles[g] = "none" /\ vHandles' = [vHandles EXCEPT ![g] = "open"]
        /\ turn' = [NoTurn EXCEPT !.gen = g, !.phase = "created"]
    BY EmptySlot, ToolAssumption DEF GenerateForRun, CommandLock, toolVars
  <1>1. /\ turn' \in TurnRecord /\ turn'.gen = g /\ turn'.phase = "created"
        /\ turn'.deferred = "none" /\ turn'.joiner = "none" /\ ~turn'.pending
    BY <1>0, EmptySlot DEF TurnRecord, TurnPhases
  <1>2. /\ vHandles \in [Turns -> Final \cup {"none", "open"}]
        /\ vHandles' \in [Turns -> Final \cup {"none", "open"}]
        /\ vHandles'[g] = "open" /\ \A h \in Turns \ {g} : vHandles'[h] = vHandles[h]
    BY <1>0 DEF ToolInv, SlotInvV, ToolTyped
  <1>3. SlotInvV'
    <2>1. ToolTyped'
      BY <1>0, <1>1, <1>2 DEF ToolInv, SlotInvV, ToolTyped
    <2>2. OpenUntilCancelled' /\ PoisonedIsOver' /\ ClosingIsShut'
      BY <1>0, <1>1, <1>2 DEF OpenUntilCancelled, PoisonedIsOver, ClosingIsShut
    <2> QED BY <2>1, <2>2 DEF SlotInvV
  <1>4. WorkersInv'
    <2>1. ASSUME NEW x \in workers'
          PROVE  /\ vHandles'[x.gen] # "none" /\ turn'.gen # x.gen
                 /\ ~(Active(x) /\ ~sessions'[x.gen].cancelled)
      <3>1. x \in workers /\ x.gen \in Turns
        BY <1>0 DEF ToolInv, SlotInvV, ToolTyped, WorkerRecord
      <3> QED BY <1>0, <1>1, <1>2, <3>1 DEF ToolInv, WorkersInv, HasBatch
    <2>2. \A x \in workers' : Active(x)' <=> Active(x)
      BY DEF Active
    <2>3. \A v, x \in workers' : v.gen = x.gen /\ v.round = x.round => v = x
      BY <1>0 DEF ToolInv, WorkersInv
    <2> QED BY <2>1, <2>2, <2>3 DEF WorkersInv, Active
  <1> QED BY <1>3, <1>4 DEF ToolInv


\* Every step keeps the invariant.
LEMMA TurnStepKeepsInv ==
  ASSUME ToolInv, TurnNext
  PROVE  ToolInv'
  <1>0. SlotInvV
    BY DEF ToolInv
  <1>1. ASSUME SlotInvV', SlotKeepsBatch,
               \/ workers' \subseteq workers
               \/ \E w \in workers : \E x \in WorkerRecord :
                    /\ workers' = (workers \ {w}) \cup {x}
                    /\ x.gen = w.gen /\ x.round = w.round /\ (Active(x) => Active(w))
        PROVE  ToolInv'
    <2>1. ToolTyped'
      BY <1>1 DEF SlotInvV
    <2> QED BY <1>1, <2>1, WorkersKeepBatches DEF ToolInv
  <1>2. CASE \E g \in Turns : GenerateForRun(g)
    BY <1>2, GenerateKeepsInv
  <1>3. CASE CallerStep
    BY <1>0, <1>1, <1>3, CallersKeepSlot
  <1>4. CASE DispatchV
    <2>1. CASE ToolCallsFrame /\ AddressedV /\ BatchAdmissible(Head(toHostV).round)
      BY <2>1, AdmissionKeepsInv
    <2>2. CASE ~(ToolCallsFrame /\ AddressedV /\ BatchAdmissible(Head(toHostV).round))
      BY <1>0, <1>1, <1>4, <2>2, FramesKeepSlot
    <2> QED BY <2>1, <2>2
  <1>5. ASSUME NEW w \in workers, WorkerStepV(w) \/ CallStarts(w) \/ CallSettles(w) \/ CallUncontained(w)
        PROVE  ToolInv'
    <2>1. CASE WorkerSubmits(w) /\ Acceptable(w)
      BY <2>1, SubmitKeepsInv
    <2>2. CASE ~(WorkerSubmits(w) /\ Acceptable(w))
      BY <1>0, <1>1, <1>5, <2>2, WorkersKeepSlot
    <2> QED BY <2>1, <2>2
  <1>6. CASE LoopStep
    <2>1. UNCHANGED <<vState, turn, vHandles, sessions, workers, closing>>
      BY <1>6 DEF LoopStep, LoopStarts, LoopResults, LoopCancels, LoopStreams, LoopCalls, LoopEnds,
                  LoopShuts, LoopDies, LoopReads, OnlySidecar, slotVarsV, toolVars
    <2>2. sessions \in [Turns -> SessionRecord] /\ workers \subseteq WorkerRecord
      BY <1>0 DEF SlotInvV, ToolTyped
    <2> QED BY <1>0, <1>1, <2>1, <2>2, SlotLeftAlone
  <1> QED BY <1>2, <1>3, <1>4, <1>5, <1>6 DEF TurnNext, CallerStep

\* The invariant of the slot and the workers of V3: a worker that may still execute a tool has
\* the batch that an open generation in the slot waits for, or its session is cancelled.
THEOREM ToolInvariant == TurnSpec => []ToolInv
  <1>1. TurnInit => ToolInv
    <2> SUFFICES ASSUME TurnInit PROVE ToolInv
      OBVIOUS
    <2>1. ToolTyped
      BY EmptySlot DEF TurnInit, ToolTyped, SessionRecord
    <2>2. OpenUntilCancelled /\ PoisonedIsOver /\ ClosingIsShut
      BY EmptySlot DEF TurnInit, OpenUntilCancelled, PoisonedIsOver, ClosingIsShut
    <2>3. WorkersInv
      BY DEF TurnInit, WorkersInv
    <2> QED BY <2>1, <2>2, <2>3 DEF ToolInv, SlotInvV
  <1>2. ToolInv /\ UNCHANGED turnVars => ToolInv'
    BY DEF ToolInv, SlotInvV, ToolTyped, OpenUntilCancelled, PoisonedIsOver, ClosingIsShut, WorkersInv,
           Active, HasBatch, turnVars, slotVarsV, toolVars
  <1> QED BY <1>1, <1>2, TurnStepKeepsInv, PTL DEF TurnSpec

\* No tool is started for a generation that was reported as over, or after the runtime failed:
\* for any number of generations, rounds and calls.
THEOREM NoToolIsLate == TurnSpec => NoLateTool
  <1>1. ASSUME ToolInv, TurnNext, NEW g \in Turns, calls[g] = "none", calls'[g] = "running"
        PROVE  vHandles[g] = "open" /\ vState # "failed"
    <2>1. PICK w \in workers : CallStarts(w)
      <3>1. CASE UNCHANGED calls
        BY <1>1, <3>1
      <3>2. CASE \E w \in workers : CallSettles(w)
        <4>1. PICK w \in workers : CallSettles(w)
          BY <3>2
        <4>2. calls' = [calls EXCEPT ![w.gen] = "none"]
          BY <4>1 DEF CallSettles
        <4>3. calls'[g] \in {calls[g], "none"}
          BY <1>1, <4>2
        <4> QED BY <1>1, <4>3
      <3> QED BY <1>1, <3>1, <3>2
            DEF TurnNext, GenerateForRun, CancelTurn, TimerExpires, TurnShutdown, TurnShutdownEnds,
                TurnShutdownExpires, JoinerFails, JoinerPoisons, DispatchV, StaleFrame, AcceptedFrame,
                DeltaFrame, ToolCallsFrame, TerminalFrame, ShutdownFrame, ReceivedV, PipeEnds, WriteFailsV,
                WorkerStepV, WorkerEnters, BatchEnds, WorkerSubmits, WorkerFails, WorkerReleases,
                CallUncontained, LoopStep, LoopStarts, LoopResults, LoopCancels, LoopStreams, LoopCalls,
                LoopEnds, LoopShuts, LoopDies, LoopReads, OnlySidecar, toolVars
    <2>2. /\ Active(w) /\ ~sessions[w.gen].cancelled
          /\ calls' = [calls EXCEPT ![w.gen] = "running"]
      BY <2>1 DEF CallStarts, Active
    <2>3. w.gen = g
      BY <1>1, <2>2
    <2>4. turn.gen = g /\ turn.gen # NoTurnId /\ turn.pending
      BY <1>1, <2>2, <2>3, ToolAssumption DEF ToolInv, WorkersInv, HasBatch
    <2>5. vState = "busy" /\ vHandles[turn.gen] = "open"
      BY <1>1, <2>2, <2>3, <2>4 DEF ToolInv, SlotInvV, OpenUntilCancelled
    <2> QED BY <2>4, <2>5, Zenon
  <1>2. ToolInv /\ TurnNext => \A g \in Turns : (calls[g] = "none" /\ calls'[g] = "running") =>
                                 vHandles[g] = "open" /\ vState # "failed"
    BY <1>1
  <1> QED BY <1>2, ToolInvariant, PTL DEF TurnSpec, NoLateTool

-----------------------------------------------------------------------------
(* V3: what each step does to the slot that its clients are offered.       *)

\* A step that a client of the slot does not see.
LEMMA ClientSeesNothing ==
  ASSUME UNCHANGED vHandles, turn'.gen = turn.gen, turn'.phase \in {turn.phase}
           \/ {turn.phase, turn'.phase} \cap {"terminal", "cancelling"} = {},
         (vState' \in {"shutting_down", "closed", "failed"}) <=> (vState \in {"shutting_down", "closed", "failed"})
  PROVE  UNCHANGED TurnSlot!slotVars
  BY DEF TurnSlot!slotVars

\* The end of a generation that its clients still see, or have seen end.
LEMMA SlotIsVacated ==
  ASSUME SlotInvV, turn.gen # NoTurnId, NEW end \in Final, SettleV(end), turn' = NoTurn
  PROVE  IF turn.phase = "terminal" THEN UNCHANGED vHandles ELSE TurnSlot!Vacate(end)
  <1>1. turn'.gen = NoTurnId /\ turn'.phase = "none"
    BY EmptySlot
  <1>2. CASE turn.phase = "terminal"
    <2>1. vHandles[turn.gen] \in Final
      BY <1>2 DEF SlotInvV, PoisonedIsOver
    <2> QED BY <1>2, <2>1 DEF SlotInvV, ToolTyped, SettleV
  <1>3. CASE turn.phase # "terminal"
    BY <1>1, <1>3 DEF SettleV, TurnSlot!Vacate, TurnSlot!Settled, TurnSlot!Terminal, Final
  <1> QED BY <1>2, <1>3

\* The runtime fails, with what is in the slot.
LEMMA FailureShows ==
  ASSUME SlotInvV, vState' = "failed",
         \/ turn = NoTurn /\ UNCHANGED <<turn, vHandles>>
         \/ turn.gen # NoTurnId /\ SettleV("failed") /\ turn' = NoTurn
  PROVE  TurnSlot!RuntimeFails \/ UNCHANGED TurnSlot!slotVars
  <1>1. CASE turn = NoTurn /\ UNCHANGED <<turn, vHandles>>
    BY <1>1, EmptySlot DEF TurnSlot!RuntimeFails, TurnSlot!slotVars
  <1>2. CASE turn.gen # NoTurnId /\ SettleV("failed") /\ turn' = NoTurn
    <2>1. IF turn.phase = "terminal" THEN UNCHANGED vHandles ELSE TurnSlot!Vacate("failed")
      BY <1>2, SlotIsVacated DEF Final
    <2>2. CASE turn.phase = "terminal"
      BY <1>2, <2>1, <2>2, EmptySlot DEF SlotInvV, PoisonedIsOver, TurnSlot!slotVars
    <2>3. CASE turn.phase # "terminal"
      BY <1>2, <2>1, <2>3 DEF TurnSlot!RuntimeFails
    <2> QED BY <2>2, <2>3
  <1> QED BY <1>1, <1>2

\* So a failure is one of the slot, or nothing its clients see: the generation waits for its
\* session, or the runtime had failed before.
LEMMA FailuresMap ==
  ASSUME SlotInvV, NEW kind \in Kinds,
         TurnFails(kind) \/ FailsNow(kind) \/ (PendingFails(kind) /\ vState' = "failed" /\ vState \notin {"ready", "busy"})
  PROVE  TurnSlot!RuntimeFails \/ UNCHANGED TurnSlot!slotVars
  <1>0. /\ turn \in TurnRecord /\ NoTurnId \notin Turns
        /\ turn = NoTurn <=> turn.gen = NoTurnId
        /\ vState \in {"ready", "busy", "shutting_down", "closed", "failed"}
    BY ToolAssumption, EmptySlot DEF SlotInvV, ToolTyped
  <1>1. CASE UNCHANGED <<turn, vHandles>> /\ (UNCHANGED vState \/ (vState' = "failed" /\ vState \notin {"ready", "busy"}))
    BY <1>0, <1>1, ClientSeesNothing
  <1>2. CASE /\ turn' = Deferred(kind) /\ UNCHANGED vHandles
             /\ UNCHANGED vState \/ (vState' = "failed" /\ vState \notin {"ready", "busy"})
    <2>1. turn'.gen = turn.gen /\ turn'.phase = turn.phase
      BY <1>0, <1>2 DEF TurnRecord, Deferred
    <2> QED BY <1>0, <1>2, <2>1, ClientSeesNothing
  <1>3. CASE vState' = "failed" /\ UNCHANGED <<turn, vHandles>> /\ turn = NoTurn
    BY <1>3, FailureShows
  <1>4. CASE vState' = "failed" /\ SettleV("failed") /\ turn' = NoTurn /\ turn # NoTurn
    BY <1>0, <1>4, FailureShows
  <1> QED BY <1>1, <1>2, <1>3, <1>4 DEF TurnFails, FailsNow, PendingFails

\* A generation that ends is over for the clients of the slot, unless they saw it end before.
LEMMA TurnFinishMaps ==
  ASSUME SlotInvV, turn.gen # NoTurnId, NEW end \in Final, SettleV(end), turn' = NoTurn,
         (vState' \in {"shutting_down", "closed", "failed"}) <=> (vState \in {"shutting_down", "closed", "failed"})
  PROVE  TurnSlot!Terminates \/ UNCHANGED TurnSlot!slotVars
  <1>1. IF turn.phase = "terminal" THEN UNCHANGED vHandles ELSE TurnSlot!Vacate(end)
    BY SlotIsVacated
  <1>2. CASE turn.phase = "terminal"
    BY <1>1, <1>2, EmptySlot DEF TurnSlot!slotVars
  <1>3. CASE turn.phase # "terminal"
    <2>1. end \in TurnSlot!Terminal
      BY DEF Final, TurnSlot!Terminal
    <2> QED BY <1>1, <1>3, <2>1 DEF TurnSlot!Terminates
  <1> QED BY <1>2, <1>3

\* Cancellations, timeouts, shutdown and joins, as seen by the clients of the slot.
LEMMA CallersMap ==
  ASSUME ToolInv, CallerStep
  PROVE  [TurnSlot!SlotNext]_(TurnSlot!slotVars)
  <1>0. /\ SlotInvV /\ turn \in TurnRecord /\ NoTurnId \notin Turns
        /\ turn = NoTurn <=> turn.gen = NoTurnId
        /\ vState \in {"ready", "busy", "shutting_down", "closed", "failed"}
        /\ {"timeout", "crashed"} \subseteq Kinds
        /\ turn.failure \in Kinds
    BY ToolAssumption, EmptySlot DEF ToolInv, SlotInvV, ToolTyped, TurnRecord, Kinds
  <1>a. TurnSlot!RuntimeFails \/ TurnSlot!Terminates \/ TurnSlot!ShutdownBegins => TurnSlot!SlotNext
    BY DEF TurnSlot!SlotNext, TurnSlot!SlotStep
  <1>1. ASSUME NEW g \in Turns, CancelTurn(g) PROVE [TurnSlot!SlotNext]_(TurnSlot!slotVars)
    <2>1. turn.gen = g /\ UNCHANGED <<vState, vHandles>>
      BY <1>1 DEF CancelTurn
    <2>2. CASE turn.phase \notin {"cancelling", "terminal"}
      <3>1. turn'.gen = turn.gen /\ turn'.phase = "cancelling"
        BY <1>0, <1>1, <2>2 DEF CancelTurn, TurnRecord
      <3>2. TurnSlot!CancelTakes(g)
        BY <2>1, <2>2, <3>1 DEF TurnSlot!CancelTakes, TurnSlot!CancelMarks
      <3> QED BY <3>2 DEF TurnSlot!SlotNext
    <2>3. CASE turn.phase \in {"cancelling", "terminal"}
      <3>1. turn'.gen = turn.gen /\ turn'.phase = turn.phase
        BY <1>0, <1>1, <2>3 DEF CancelTurn, TurnRecord
      <3> QED BY <2>1, <3>1, ClientSeesNothing
    <2> QED BY <2>2, <2>3
  <1>2. CASE TimerExpires \/ PipeEnds \/ WriteFailsV
    <2>1. CASE UNCHANGED slotVarsV
      <3>1. UNCHANGED <<vState, turn, vHandles>>
        BY <2>1 DEF slotVarsV
      <3> QED BY <3>1, ClientSeesNothing
    <2> QED BY <1>0, <1>a, <1>2, <2>1, FailuresMap DEF TimerExpires, PipeEnds, WriteFailsV
  <1>3. CASE TurnShutdown
    <2>1. CASE vState = "failed" /\ PendingFails("crashed") /\ UNCHANGED vState
      BY <1>0, <1>a, <2>1, FailuresMap
    <2>2. CASE /\ vState \in {"ready", "busy"} /\ vState' = "shutting_down" /\ UNCHANGED vHandles
               /\ \/ turn = NoTurn /\ UNCHANGED turn
                  \/ turn # NoTurn /\ turn' = [turn EXCEPT !.fenced = TRUE, !.phase = "cancelling"]
      <3>1. turn.phase # "terminal" /\ turn'.phase # "terminal" /\ turn'.gen = turn.gen
            /\ (turn'.phase = "cancelling" <=> turn.gen # NoTurnId)
        BY <1>0, <2>2, EmptySlot DEF SlotInvV, PoisonedIsOver, TurnRecord
      <3> QED BY <1>a, <2>2, <3>1 DEF TurnSlot!ShutdownBegins
    <2> QED BY <1>3, <2>1, <2>2 DEF TurnShutdown
  <1>4. CASE TurnShutdownEnds
    <2>1. vState \notin {"ready", "busy"} /\ vState' \in {"closed", "failed"}
      BY <1>0, <1>4 DEF TurnShutdownEnds, SlotInvV, ClosingIsShut
    <2>2. CASE turn = NoTurn
      <3>1. UNCHANGED <<turn, vHandles>>
        BY <1>4, <2>2 DEF TurnShutdownEnds
      <3> QED BY <1>0, <2>1, <3>1, ClientSeesNothing
    <2>3. CASE turn # NoTurn
      <3>1. PICK end \in Final : SettleV(end) /\ turn' = NoTurn
        BY <1>4, <2>3 DEF TurnShutdownEnds, Final
      <3> QED BY <1>0, <1>a, <2>1, <2>3, <3>1, TurnFinishMaps
    <2> QED BY <2>2, <2>3
  <1>5. CASE TurnShutdownExpires
    BY <1>0, <1>a, <1>5, FailuresMap DEF TurnShutdownExpires, SlotInvV, ClosingIsShut
  <1>6. CASE JoinerFails
    <2>1. CASE turn' = [turn EXCEPT !.joiner = "ended"] /\ UNCHANGED <<vState, vHandles>>
      <3>1. turn'.gen = turn.gen /\ turn'.phase = turn.phase
        BY <1>0, <2>1 DEF TurnRecord
      <3> QED BY <2>1, <3>1, ClientSeesNothing
    <2> QED BY <1>0, <1>a, <1>6, <2>1, FailuresMap DEF JoinerFails
  <1>7. CASE JoinerPoisons
    <2>1. /\ turn.joiner = "waiting" /\ vState' = "failed" /\ SettleV("failed")
          /\ turn'.phase = "terminal"
      BY <1>0, <1>7 DEF JoinerPoisons, TurnRecord
    <2>2. turn.gen # NoTurnId /\ turn.phase # "terminal"
      BY <1>0, <2>1, EmptySlot DEF SlotInvV, PoisonedIsOver
    <2>3. TurnSlot!RuntimeFails
      BY <2>1, <2>2 DEF TurnSlot!RuntimeFails, TurnSlot!Vacate, TurnSlot!Settled, TurnSlot!Terminal,
                        SettleV, Final
    <2> QED BY <1>a, <2>3
  <1> QED BY <1>1, <1>2, <1>3, <1>4, <1>5, <1>6, <1>7 DEF CallerStep

\* The frames of the sidecar, as seen by the clients of the slot.
LEMMA TurnFramesMap ==
  ASSUME ToolInv, DispatchV
  PROVE  [TurnSlot!SlotNext]_(TurnSlot!slotVars)
  <1>0. /\ SlotInvV /\ turn \in TurnRecord /\ NoTurnId \notin Turns
        /\ turn = NoTurn <=> turn.gen = NoTurnId
        /\ vState \in {"ready", "busy", "shutting_down", "closed", "failed"}
        /\ {"protocol", "crashed", "overflow"} \subseteq Kinds
    BY ToolAssumption, EmptySlot DEF ToolInv, SlotInvV, ToolTyped, TurnRecord, Kinds
  <1>a. TurnSlot!RuntimeFails \/ TurnSlot!Terminates \/ TurnSlot!OutputLimit => TurnSlot!SlotNext
    BY DEF TurnSlot!SlotNext, TurnSlot!SlotStep
  <1>1. CASE \E kind \in Kinds : TurnFails(kind) \/ FailsNow(kind)
    BY <1>0, <1>a, <1>1, FailuresMap
  <1>2. CASE UNCHANGED slotVarsV
    <2>1. UNCHANGED <<vState, turn, vHandles>>
      BY <1>2 DEF slotVarsV
    <2> QED BY <2>1, ClientSeesNothing
  <1>3. CASE /\ UNCHANGED <<vState, vHandles>>
             /\ \/ turn' = [turn EXCEPT !.phase = IF @ = "created" THEN "accepted" ELSE @]
                \/ turn.phase \notin {"cancelling", "terminal"} /\ turn' = [turn EXCEPT !.phase = "streaming"]
                \/ /\ turn.phase \notin {"cancelling", "terminal"}
                   /\ turn' = [turn EXCEPT !.phase = "tool_wait", !.pending = TRUE, !.worker = TRUE]
                \/ \E type \in Final \cup {"unconfirmed"} : turn' = [turn EXCEPT !.fenced = TRUE, !.deferred = type]
    <2> DEFINE Seen == /\ turn'.gen = turn.gen
                       /\ \/ turn'.phase = turn.phase
                          \/ {turn.phase, turn'.phase} \cap {"terminal", "cancelling"} = {}
    <2>1. Seen
      <3>1. CASE turn' = [turn EXCEPT !.phase = IF @ = "created" THEN "accepted" ELSE @]
        BY <1>0, <3>1 DEF TurnRecord
      <3>2. CASE turn.phase \notin {"cancelling", "terminal"} /\ turn' = [turn EXCEPT !.phase = "streaming"]
        BY <1>0, <3>2 DEF TurnRecord
      <3>3. CASE /\ turn.phase \notin {"cancelling", "terminal"}
                 /\ turn' = [turn EXCEPT !.phase = "tool_wait", !.pending = TRUE, !.worker = TRUE]
        BY <1>0, <3>3 DEF TurnRecord
      <3>4. ASSUME NEW type \in Final \cup {"unconfirmed"},
                   turn' = [turn EXCEPT !.fenced = TRUE, !.deferred = type]
            PROVE  Seen
        BY <1>0, <3>4 DEF TurnRecord
      <3> HIDE DEF Seen
      <3> QED BY <1>3, <3>1, <3>2, <3>3, <3>4
    <2> QED BY <1>3, <2>1, ClientSeesNothing
  <1>4. CASE StaleFrame
    BY <1>0, <1>1, <1>2, <1>4 DEF StaleFrame
  <1>5. CASE AcceptedFrame
    BY <1>3, <1>5 DEF AcceptedFrame
  <1>6. CASE DeltaFrame
    <2>1. CASE /\ AddressedV /\ turn.phase \in {"accepted", "streaming", "continuing"}
               /\ turn' = [turn EXCEPT !.phase = "cancelling"] /\ SettleV("failed") /\ UNCHANGED vState
      <3>1. /\ turn.gen # NoTurnId /\ turn.phase \notin {"cancelling", "terminal"}
            /\ turn'.gen = turn.gen /\ turn'.phase = "cancelling"
        BY <1>0, <2>1 DEF AddressedV, TurnRecord
      <3>2. vHandles' = TurnSlot!Settled(turn.gen, "failed")
        BY <2>1 DEF SettleV, TurnSlot!Settled, TurnSlot!Terminal, Final
      <3>3. TurnSlot!OutputLimit
        BY <2>1, <3>1, <3>2 DEF TurnSlot!OutputLimit
      <3> QED BY <1>a, <3>3
    <2> QED BY <1>0, <1>1, <1>2, <1>3, <1>6, <2>1 DEF DeltaFrame, LimitReached
  <1>7. CASE ToolCallsFrame
    BY <1>0, <1>1, <1>3, <1>7 DEF ToolCallsFrame, BatchAdmissible
  <1>8. CASE TerminalFrame
    <2>1. PICK type \in Final \cup {"unconfirmed"} :
            \/ TurnFails("protocol") \/ TurnFails("crashed")
            \/ turn' = [turn EXCEPT !.fenced = TRUE, !.deferred = type] /\ UNCHANGED <<vState, vHandles>>
            \/ type \in Final /\ TurnFinishes(type) /\ AddressedV
      BY <1>8 DEF TerminalFrame
    <2>2. CASE type \in Final /\ TurnFinishes(type) /\ AddressedV
      BY <1>0, <1>a, <2>2, TurnFinishMaps DEF TurnFinishes, AddressedV
    <2> QED BY <1>0, <1>1, <1>3, <2>1, <2>2
  <1>9. CASE ShutdownFrame
    BY <1>2, <1>9 DEF ShutdownFrame
  <1> QED BY <1>4, <1>5, <1>6, <1>7, <1>8, <1>9 DEF DispatchV

\* The steps of a worker, as seen by the clients of the slot.
LEMMA WorkersMap ==
  ASSUME ToolInv, NEW w \in workers,
         WorkerStepV(w) \/ CallStarts(w) \/ CallSettles(w) \/ CallUncontained(w)
  PROVE  [TurnSlot!SlotNext]_(TurnSlot!slotVars)
  <1>0. /\ SlotInvV /\ turn \in TurnRecord /\ w.gen \in Turns /\ NoTurnId \notin Turns
        /\ vState \in {"ready", "busy", "shutting_down", "closed", "failed"}
        /\ {"crashed", "uncontained", "session"} \subseteq Kinds
    BY ToolAssumption DEF ToolInv, SlotInvV, ToolTyped, WorkerRecord, Kinds
  <1>a. TurnSlot!RuntimeFails \/ TurnSlot!Terminates => TurnSlot!SlotNext
    BY DEF TurnSlot!SlotNext, TurnSlot!SlotStep
  <1>1. CASE UNCHANGED slotVarsV
    <2>1. UNCHANGED <<vState, turn, vHandles>>
      BY <1>1 DEF slotVarsV
    <2> QED BY <2>1, ClientSeesNothing
  <1>2. CASE \E kind \in Kinds : TurnFails(kind)
    BY <1>0, <1>a, <1>2, FailuresMap
  <1>3. CASE WorkerEnters(w) \/ BatchEnds(w) \/ CallStarts(w) \/ CallSettles(w) \/ CallUncontained(w)
    BY <1>1, <1>3 DEF WorkerEnters, BatchEnds, CallStarts, CallSettles, CallUncontained, OnlyTools
  <1>4. CASE WorkerSubmits(w)
    <2>1. UNCHANGED <<vState, vHandles>> /\ turn'.gen = turn.gen
          /\ \/ turn'.phase = turn.phase
             \/ turn.phase = "tool_wait" /\ turn'.phase = "continuing"
      BY <1>0, <1>4 DEF WorkerSubmits, Acceptable, TurnRecord
    <2> QED BY <2>1, ClientSeesNothing
  <1>5. CASE WorkerFails(w)
    BY <1>0, <1>2, <1>5 DEF WorkerFails
  <1>6. CASE WorkerReleases(w)
    <2>1. CASE /\ turn' = [turn EXCEPT !.worker = FALSE, !.deferred = "none"]
               /\ UNCHANGED <<vState, vHandles>>
      <3>1. turn'.gen = turn.gen /\ turn'.phase = turn.phase
        BY <1>0, <2>1 DEF TurnRecord
      <3> QED BY <2>1, <3>1, ClientSeesNothing
    <2>2. CASE /\ turn.gen = w.gen /\ turn.deferred \notin {"none", "unconfirmed"}
               /\ TurnFinishes(turn.deferred)
      <3>1. turn.gen # NoTurnId /\ turn.deferred \in Final
        BY <1>0, <2>2 DEF TurnRecord
      <3> QED BY <1>0, <1>a, <2>2, <3>1, TurnFinishMaps DEF TurnFinishes
    <2> QED BY <1>0, <1>1, <1>2, <1>6, <2>1, <2>2 DEF WorkerReleases
  <1> QED BY <1>3, <1>4, <1>5, <1>6 DEF WorkerStepV

\* ModelRuntimeV3 offers its clients the same slot as V2 (GenerationSlot): one generation at a
\* time, each settled once, although an end may have to wait for a tool.
THEOREM TurnsOfferASlot == TurnSpec => TurnsImplementSlot
  <1>1. TurnInit => TurnSlot!SlotInit
    BY EmptySlot DEF TurnInit, TurnSlot!SlotInit
  <1>2. ASSUME ToolInv, TurnNext PROVE [TurnSlot!SlotNext]_(TurnSlot!slotVars)
    <2>1. ASSUME NEW g \in Turns, GenerateForRun(g) PROVE TurnSlot!SlotNext
      <3>1. /\ vState = "ready" /\ vState' = "busy" /\ vHandles[g] = "none"
            /\ vHandles' = [vHandles EXCEPT ![g] = "open"]
            /\ turn.gen = NoTurnId /\ turn.phase = "none"
            /\ turn'.gen = g /\ turn'.phase = "created"
        BY <2>1, EmptySlot DEF GenerateForRun, NoTurn
      <3>2. TurnSlot!Generate(g)
        BY <3>1 DEF TurnSlot!Generate
      <3> QED BY <3>2 DEF TurnSlot!SlotNext
    <2>2. CASE LoopStep
      <3>1. UNCHANGED <<vState, turn, vHandles>>
        BY <2>2 DEF LoopStep, LoopStarts, LoopResults, LoopCancels, LoopStreams, LoopCalls, LoopEnds,
                    LoopShuts, LoopDies, LoopReads, OnlySidecar, slotVarsV
      <3> QED BY <3>1, ClientSeesNothing
    <2>3. CASE CallerStep
      BY <1>2, <2>3, CallersMap
    <2>4. CASE DispatchV
      BY <1>2, <2>4, TurnFramesMap
    <2>5. ASSUME NEW w \in workers, WorkerStepV(w) \/ CallStarts(w) \/ CallSettles(w) \/ CallUncontained(w)
          PROVE  [TurnSlot!SlotNext]_(TurnSlot!slotVars)
      BY <1>2, <2>5, WorkersMap
    <2> QED BY <1>2, <2>1, <2>2, <2>3, <2>4, <2>5 DEF TurnNext, CallerStep
  <1>3. UNCHANGED turnVars => UNCHANGED TurnSlot!slotVars
    BY DEF turnVars, slotVarsV, TurnSlot!slotVars
  <1> QED BY <1>1, <1>2, <1>3, ToolInvariant, PTL DEF TurnSpec, TurnsImplementSlot, TurnSlot!SlotSpec
=============================================================================
