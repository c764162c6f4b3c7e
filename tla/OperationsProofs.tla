-------------------------- MODULE OperationsProofs --------------------------
(***************************************************************************)
(* Proofs about what users do with an experiment, for every set of VMs, of *)
(* runs, of guests and of requests, every scorch pipeline and every bound: *)
(* that a VM runs its own configuration (VirtualMachines), that a run of   *)
(* Scorch can be cancelled and leaves nothing behind (Scorch), that a      *)
(* command is given to the guest it is for (Guests), and that no verdict   *)
(* of a state of health is lost (StateOfHealth).                           *)
(***************************************************************************)
EXTENDS VirtualMachines, Scorch, Guests, StateOfHealth, FiniteSetTheorems, TLAPS

(***************************************************************************)
(* VirtualMachines. A VM runs what was launched from the one configuration *)
(* of the namespace, several steps after a redeploy or restore set it. So  *)
(* what is inductive is about the requests in between: while no two of     *)
(* them overlapped, the namespace's configuration is that of the VM of     *)
(* each request that has cloned and has yet to launch.                     *)
(***************************************************************************)
VMStates == {"building", "running", "paused", "quit", "gone"}
VMLabels == {"begin", "waiting", "offline", "cloned", "killed", "flushed", "saving",
             "starting", "shutting", "moving", "dumping"}
Job == Working \cup {Resting}

\* A configuration that is VM v's own.
Own(c, v) == c.of = v /\ (c.state => v \in savedVMs)

DeleteEnds == \A r \in VMRequests : vmReq[r].at = "flushed" => Op(r) # "delete"

ClonedIsOwn == overlapped \/ \A r \in VMRequests : Configuring(r) => Own(nsConfig, VM(r))

VMsInv == VMsTypeOK /\ DeleteEnds /\ ClonedIsOwn /\ RunsOwnConfig

\* What a request does next is typed, and its VM and operation stay.
LEMMA JobGoes ==
    ASSUME NEW j \in Job, j # Resting, NEW label \in VMLabels
    PROVE  /\ [j EXCEPT !.at = label] \in Job
           /\ [j EXCEPT !.at = label].at = label
           /\ [j EXCEPT !.at = label].op = j.op
           /\ [j EXCEPT !.at = label].vm = j.vm
BY DEF Job, Working, VMLabels

\* A request at work is on a VM.
LEMMA JobTyped ==
    /\ Resting \in Job /\ Resting.at = "resting" /\ Resting.op = "none"
    /\ \A j \in Job : j.at # "resting" \/ j.op # "none" => j # Resting /\ j.vm \in VMs /\ j.at \in VMLabels
    /\ \A j \in Job : j = Resting \/ j.vm \in VMs
BY DEF Job, Working, Resting, VMLabels

\* The operations there are.
LEMMA JobBegins ==
    ASSUME NEW v \in VMs, NEW web \in BOOLEAN,
           NEW o \in {"start", "stop", "restart", "shutdown", "reset", "redeploy", "snapshot",
                       "restore", "commit", "dump", "pause", "delete"}
    PROVE  [op |-> o, vm |-> v, web |-> web, at |-> "begin"] \in Job
BY DEF Job, Working

\* The initial state satisfies the inductive invariant.
LEMMA VMsInitInv == VMsInit => VMsInv
<1>. SUFFICES ASSUME VMsInit PROVE VMsInv
    OBVIOUS
<1>1. VMsTypeOK
    <2>1. vmReq \in [VMRequests -> Working \cup {Resting}]
        BY DEF VMsInit
    <2>2. nsConfig \in Configs /\ launched \in [VMs -> Configs]
        BY DEF VMsInit, Configs
    <2>3. vmState \in [VMs -> {"building", "running", "paused", "quit", "gone"}]
        BY DEF VMsInit
    <2>4. expiries \in 0 .. MaxExpiries /\ vmOps \in 0 .. MaxVMOps /\ vmFaults \in 0 .. MaxVMFaults
        BY VMsAssumption DEF VMsInit
    <2>. QED BY <2>1, <2>2, <2>3, <2>4 DEF VMsInit, VMsTypeOK
<1>2. DeleteEnds /\ ClonedIsOwn
    BY DEF VMsInit, DeleteEnds, ClonedIsOwn, Configuring, Op, Resting
<1>3. RunsOwnConfig
    BY DEF VMsInit, RunsOwnConfig
<1>. QED BY <1>1, <1>2, <1>3 DEF VMsInv

VMsTyped ==
    /\ vmState \in [VMs -> VMStates]
    /\ launched \in [VMs -> Configs] /\ nsConfig \in Configs
    /\ savedVMs \subseteq VMs /\ images \subseteq VMs /\ capturing \subseteq VMs
    /\ vmLock \subseteq VMs
    /\ vmReq \in [VMRequests -> Job]
    /\ overlapped \in BOOLEAN
    /\ expiries \in 0 .. MaxExpiries /\ vmOps \in 0 .. MaxVMOps /\ vmFaults \in 0 .. MaxVMFaults

LEMMA VMsTypedIs == VMsTyped <=> VMsTypeOK
BY DEF VMsTyped, VMsTypeOK, Job, VMStates

\* A step that neither clones nor launches.
VMsQuiet ==
    /\ overlapped' = overlapped /\ launched' = launched /\ nsConfig' = nsConfig
    /\ savedVMs \subseteq savedVMs'
    /\ \A v \in VMs : vmState'[v] # "gone" => vmState[v] # "gone"
    /\ \A r \in VMRequests :
        vmReq'[r].at \in {"cloned", "killed", "flushed"} /\ vmReq'[r].op # "delete" =>
            /\ vmReq[r].at \in {"cloned", "killed", "flushed"} /\ vmReq[r].op # "delete"
            /\ vmReq'[r].vm = vmReq[r].vm
    /\ \A r \in VMRequests :
        vmReq'[r].at = "flushed" => vmReq'[r].op # "delete"

LEMMA VMsQuietKeeps ==
    ASSUME VMsInv, VMsQuiet
    PROVE  (DeleteEnds /\ ClonedIsOwn /\ RunsOwnConfig)'
BY DEF VMsInv, VMsQuiet, DeleteEnds, ClonedIsOwn, RunsOwnConfig, Configuring, Own, Op, VM, Exists

\* A request that goes on is the only one that does.
VMReqGoes(r, label) ==
    /\ vmReq' \in [VMRequests -> Job]
    /\ vmReq'[r].at = label /\ vmReq'[r].op = vmReq[r].op /\ vmReq'[r].vm = vmReq[r].vm
    /\ \A q \in VMRequests : q # r => vmReq'[q] = vmReq[q]
    /\ vmLock' = vmLock

VMReqReturns(r) ==
    /\ vmReq' \in [VMRequests -> Job]
    /\ vmReq'[r] = Resting
    /\ \A q \in VMRequests : q # r => vmReq'[q] = vmReq[q]
    /\ vmLock' \subseteq vmLock

LEMMA GoesGoes ==
    ASSUME VMsTyped, NEW r \in VMRequests, vmReq[r] # Resting, NEW label \in VMLabels, Goes(r, label)
    PROVE  VMReqGoes(r, label)
<1>1. vmReq[r] \in Job
    BY DEF VMsTyped
<1>2. [vmReq[r] EXCEPT !.at = label] \in Job
    BY <1>1, JobGoes
<1>3. vmReq' = [vmReq EXCEPT ![r] = [vmReq[r] EXCEPT !.at = label]] /\ vmLock' = vmLock
    BY DEF Goes
<1>4. vmReq'[r] = [vmReq[r] EXCEPT !.at = label] /\ \A q \in VMRequests : q # r => vmReq'[q] = vmReq[q]
    BY <1>3 DEF VMsTyped
<1>5. vmReq' \in [VMRequests -> Job]
    BY <1>2, <1>3 DEF VMsTyped
<1>6. vmReq'[r].at = label /\ vmReq'[r].op = vmReq[r].op /\ vmReq'[r].vm = vmReq[r].vm
    BY <1>1, <1>4, JobGoes
<1>. QED BY <1>3, <1>4, <1>5, <1>6 DEF VMReqGoes

LEMMA ReturnsReturns ==
    ASSUME VMsTyped, NEW r \in VMRequests, Returns(r)
    PROVE  VMReqReturns(r)
BY JobTyped DEF VMsTyped, Returns, VMReqReturns

\* A step by a request at work is quiet, when the VMs only run, pause, quit
\* or go, and the request neither clones nor launches.
LEMMA VMsMoves ==
    ASSUME VMsInv, VMsTyped, NEW r \in VMRequests, vmReq[r] # Resting,
           UNCHANGED <<launched, nsConfig, overlapped>>, Counts,
           savedVMs \subseteq savedVMs', savedVMs' \subseteq VMs, images' \subseteq VMs, capturing' \subseteq VMs,
           vmState' \in [VMs -> VMStates], \A v \in VMs : vmState'[v] # "gone" => vmState[v] # "gone",
           \/ VMReqReturns(r)
           \/ \E label \in VMLabels \ {"cloned", "killed", "flushed"} : VMReqGoes(r, label)
           \/ vmReq[r].at = "cloned" /\ VMReqGoes(r, "killed")
           \/ vmReq[r].op = "delete" /\ VMReqGoes(r, "killed")
           \/ vmReq[r].at = "killed" /\ vmReq[r].op # "delete" /\ VMReqGoes(r, "flushed")
    PROVE  VMsTyped' /\ VMsQuiet
<1>1. vmReq' \in [VMRequests -> Job] /\ vmLock' \subseteq vmLock
    BY DEF VMReqReturns, VMReqGoes
<1>2. VMsTyped'
    BY <1>1 DEF VMsTyped, Counts
<1>3. \A q \in VMRequests : q # r => vmReq'[q] = vmReq[q]
    BY DEF VMReqReturns, VMReqGoes
<1>4. VMsQuiet
    BY <1>3, JobTyped DEF VMsQuiet, VMReqReturns, VMReqGoes, VMsInv, DeleteEnds, Op
<1>. QED BY <1>2, <1>4

\* The steps of a request at work.
LEMMA VMStepKeeps ==
    ASSUME VMsInv, VMsTyped, NEW r \in VMRequests, VMStep(r)
    PROVE  VMsTyped' /\ (DeleteEnds /\ ClonedIsOwn /\ RunsOwnConfig)'
<1> DEFINE Frame == UNCHANGED <<launched, nsConfig, overlapped>> /\ Counts
<1> DEFINE Typed == /\ savedVMs \subseteq savedVMs' /\ savedVMs' \subseteq VMs /\ images' \subseteq VMs
                    /\ capturing' \subseteq VMs
<1> DEFINE Falls == /\ vmState' \in [VMs -> VMStates]
                    /\ \A v \in VMs : vmState'[v] # "gone" => vmState[v] # "gone"
<1> DEFINE Further == \E label \in VMLabels \ {"cloned", "killed", "flushed"} : VMReqGoes(r, label)
<1> DEFINE Answers == VMReqReturns(r)
<1>1. vmReq[r] # Resting
    BY JobTyped DEF VMStep, StartsVM, StopsVM, RestartsVM, ShutsDown, IsDown, ResetsDisk, MovesDisk, CommitBegins,
        CommitsDisk, SavesVM, SaveCompletes, MovesSnapshot, DumpsMemory, ClonesConfig, KillsVM, FlushesVMs, LaunchesVM, AtVM, Op
<1>2. VM(r) \in VMs /\ vmReq[r] \in Job
    BY <1>1, JobTyped DEF VMsTyped, VM
<1>3. \A label \in VMLabels : Goes(r, label) => VMReqGoes(r, label)
    BY <1>1, GoesGoes
<1>4. Returns(r) => VMReqReturns(r)
    BY ReturnsReturns
<1>5. ASSUME Frame, Typed, Falls, Answers \/ Further PROVE VMsTyped' /\ (DeleteEnds /\ ClonedIsOwn /\ RunsOwnConfig)'
    BY <1>1, <1>5, VMsMoves, VMsQuietKeeps
<1> DEFINE Kept == VMsTyped' /\ (DeleteEnds /\ ClonedIsOwn /\ RunsOwnConfig)'
<1> HIDE DEF Kept
<1>6. ASSUME StartsVM(r) PROVE Kept
    <2>1. Answers \/ Further
        BY <1>3, <1>4, <1>6 DEF StartsVM, VMLabels
    <2>2. Falls
        BY <1>2, <1>6 DEF StartsVM, VMsTyped, VMStates, Exists
    <2>. QED BY <1>5, <1>6, <2>1, <2>2 DEF StartsVM, VMsTyped, Kept
<1>7. ASSUME StopsVM(r) PROVE Kept
    <2>1. Falls
        BY <1>2, <1>7 DEF StopsVM, VMsTyped, VMStates, Running
    <2>. QED BY <1>4, <1>5, <1>7, <2>1 DEF StopsVM, VMsTyped, Kept
<1>8. ASSUME RestartsVM(r) PROVE Kept
    <2>1. Falls
        BY <1>2, <1>8 DEF RestartsVM, VMsTyped, VMStates
    <2>. QED BY <1>4, <1>5, <1>8, <2>1 DEF RestartsVM, VMsTyped, Kept
<1>9. ASSUME ShutsDown(r) PROVE Kept
    <2>1. Answers \/ Further
        BY <1>3, <1>4, <1>9 DEF ShutsDown, VMLabels
    <2>. QED BY <1>5, <1>9, <2>1 DEF ShutsDown, VMsTyped, Kept
<1>10. ASSUME IsDown(r) PROVE Kept
    <2>1. Answers \/ Further
        BY <1>3, <1>4, <1>10 DEF IsDown, VMLabels
    <2>2. Falls
        BY <1>2, <1>10 DEF IsDown, VMsTyped, VMStates, Exists
    <2>. QED BY <1>5, <1>10, <2>1, <2>2 DEF IsDown, VMsTyped, Kept
<1>11. ASSUME ResetsDisk(r) PROVE Kept
    <2>1. Answers \/ Further
        BY <1>3, <1>4, <1>11 DEF ResetsDisk, VMLabels
    <2>2. Falls
        BY <1>2, <1>11 DEF ResetsDisk, VMsTyped, VMStates, Running
    <2>. QED BY <1>5, <1>11, <2>1, <2>2 DEF ResetsDisk, VMsTyped, Kept
<1>12. ASSUME MovesDisk(r) \/ CommitBegins(r) \/ SaveCompletes(r) \/ DumpsMemory(r) PROVE Kept
    <2>1. Answers \/ Further
        BY <1>3, <1>4, <1>12 DEF MovesDisk, CommitBegins, SaveCompletes, DumpsMemory, VMLabels
    <2>. QED BY <1>5, <1>12, <2>1 DEF MovesDisk, CommitBegins, SaveCompletes, DumpsMemory, VMsTyped, Kept
<1>13. ASSUME CommitsDisk(r) PROVE Kept
    <2>1. Answers \/ Further
        BY <1>3, <1>4, <1>13 DEF CommitsDisk, VMLabels
    <2>. QED BY <1>2, <1>5, <1>13, <2>1 DEF CommitsDisk, VMsTyped, Kept
<1>14. ASSUME SavesVM(r) PROVE Kept
    <2>1. Answers \/ Further
        BY <1>3, <1>4, <1>14 DEF SavesVM, VMLabels
    <2>2. Falls
        BY <1>2, <1>14 DEF SavesVM, VMsTyped, VMStates, Running
    <2>. QED BY <1>5, <1>14, <2>1, <2>2 DEF SavesVM, VMsTyped, Kept
<1>15. ASSUME MovesSnapshot(r) PROVE Kept
    BY <1>2, <1>4, <1>5, <1>15 DEF MovesSnapshot, VMsTyped, Kept
<1>16. ASSUME KillsVM(r) PROVE Kept
    <2>1. Falls
        BY <1>2, <1>16 DEF KillsVM, VMsTyped, VMStates, Exists
    <2>2. \/ Answers
          \/ (vmReq[r].at = "cloned" \/ vmReq[r].op = "delete") /\ VMReqGoes(r, "killed")
        BY <1>3, <1>4, <1>16 DEF KillsVM, VMLabels, AtVM, Op
    <2>. QED BY <1>1, <1>16, <2>1, <2>2, VMsMoves, VMsQuietKeeps DEF KillsVM, VMsTyped, Kept
<1>17. ASSUME FlushesVMs(r) PROVE Kept
    <2>1. Falls
        BY <1>2, <1>17 DEF FlushesVMs, VMsTyped, VMStates
    <2>2. \/ Answers
          \/ vmReq[r].at = "killed" /\ vmReq[r].op # "delete" /\ VMReqGoes(r, "flushed")
        BY <1>3, <1>4, <1>17 DEF FlushesVMs, VMLabels, Op
    <2>. QED BY <1>1, <1>17, <2>1, <2>2, VMsMoves, VMsQuietKeeps DEF FlushesVMs, VMsTyped, Kept
<1>18. ASSUME ClonesConfig(r) PROVE Kept
    <2>1. CASE Returns(r) /\ UNCHANGED <<nsConfig, overlapped>>
        BY <1>4, <1>5, <1>18, <2>1 DEF ClonesConfig, VMsTyped, Kept
    <2>2. CASE /\ Op(r) = "restore" => VM(r) \in savedVMs
               /\ nsConfig' = [of |-> VM(r), state |-> Op(r) = "restore"]
               /\ overlapped' = (overlapped \/ \E q \in VMRequests : Configuring(q))
               /\ Goes(r, "cloned")
        <3>1. VMReqGoes(r, "cloned")
            BY <1>3, <2>2 DEF VMLabels
        <3>2. nsConfig' \in Configs
            BY <1>2, <2>2 DEF Configs
        <3>3. overlapped' \in BOOLEAN
            BY <2>2
        <3>4. VMsTyped'
            BY <1>18, <3>1, <3>2, <3>3 DEF VMsTyped, ClonesConfig, Counts, VMReqGoes
        <3>5. DeleteEnds'
            BY <3>1 DEF VMReqGoes, DeleteEnds, Op, VMsInv
        <3>6. ClonedIsOwn'
            <4>. SUFFICES ASSUME ~overlapped', NEW q \in VMRequests, Configuring(q)' PROVE Own(nsConfig, VM(q))'
                BY DEF ClonedIsOwn
            <4>1. q = r
                BY <2>2, <3>1 DEF VMReqGoes, Configuring, Op
            <4>. QED BY <1>18, <2>2, <3>1, <4>1 DEF Own, VM, ClonesConfig, VMReqGoes
        <3>7. RunsOwnConfig'
            BY <1>18, <2>2 DEF VMsInv, RunsOwnConfig, ClonesConfig, Exists
        <3>. QED BY <3>4, <3>5, <3>6, <3>7 DEF Kept
    <2>. QED BY <1>18, <2>1, <2>2 DEF ClonesConfig
<1>19. ASSUME LaunchesVM(r) PROVE Kept
    <2>1. CASE Exists(VM(r))
        <3>1. Falls
            BY <1>19, <2>1 DEF LaunchesVM, VMsTyped
        <3>. QED BY <1>4, <1>5, <1>19, <2>1, <3>1 DEF LaunchesVM, VMsTyped, Kept
    <2>2. CASE ~Exists(VM(r))
        <3>1. VMReqGoes(r, "starting")
            BY <1>3, <1>19, <2>2 DEF VMLabels, LaunchesVM
        <3>2. VMsTyped'
            BY <1>2, <1>19, <2>2, <3>1 DEF VMsTyped, VMStates, LaunchesVM, Counts, VMReqGoes
        <3>3. DeleteEnds' /\ ClonedIsOwn'
            BY <1>19, <3>1 DEF VMReqGoes, DeleteEnds, Op, VMsInv, ClonedIsOwn, Configuring, Own, VM, LaunchesVM
        <3>4. overlapped \/ Own(nsConfig, VM(r))
            BY <1>19 DEF LaunchesVM, VMsInv, DeleteEnds, ClonedIsOwn, Configuring, Op
        <3>5. RunsOwnConfig'
            BY <1>2, <1>19, <2>2, <3>4 DEF VMsInv, RunsOwnConfig, LaunchesVM, Exists, Own, VMsTyped
        <3>. QED BY <3>2, <3>3, <3>5 DEF Kept
    <2>. QED BY <2>1, <2>2
<1>. QED BY <1>6, <1>7, <1>8, <1>9, <1>10, <1>11, <1>12, <1>13, <1>14, <1>15, <1>16, <1>17, <1>18, <1>19 DEF VMStep, Kept

\* A step that begins nothing in the middle of a redeploy or restore.
LEMMA VMsBegin ==
    ASSUME VMsInv, VMsTyped, NEW r \in VMRequests, NEW v \in VMs, NEW web \in BOOLEAN, vmLock' \subseteq VMs,
           NEW o \in {"start", "stop", "restart", "shutdown", "reset", "redeploy", "snapshot",
                       "restore", "commit", "dump", "pause", "delete"},
           Begins(r, o, v, web)
    PROVE  VMsTyped' /\ VMsQuiet
<1>1. vmReq' \in [VMRequests -> Job]
    BY JobBegins DEF VMsTyped, Begins
<1>2. vmReq'[r].at = "begin" /\ \A q \in VMRequests : q # r => vmReq'[q] = vmReq[q]
    BY DEF VMsTyped, Begins
<1>3. VMsTyped'
    BY <1>1, VMsAssumption DEF VMsTyped, Begins
<1>4. VMsQuiet
    BY <1>2 DEF VMsQuiet, Begins, VMsInv, DeleteEnds, Op
<1>. QED BY <1>3, <1>4

\* Every step keeps the inductive invariant.
LEMMA VMsStepInv == VMsInv /\ [VMsNext]_vmVars => VMsInv'
<1> SUFFICES ASSUME VMsInv, VMsTyped, [VMsNext]_vmVars
             PROVE  VMsTyped' /\ (DeleteEnds /\ ClonedIsOwn /\ RunsOwnConfig)'
    BY VMsTypedIs DEF VMsInv, VMsTyped, VMsTypeOK, Job, VMStates
<1> DEFINE Kept == VMsTyped' /\ (DeleteEnds /\ ClonedIsOwn /\ RunsOwnConfig)'
<1> HIDE DEF Kept
<1>1. VMsTyped' /\ VMsQuiet => Kept
    BY VMsQuietKeeps DEF Kept
<1>2. CASE UNCHANGED vmVars
    <2>1. VMsTyped'
        BY <1>2 DEF VMsTyped, vmVars
    <2>2. VMsQuiet
        <3>1. UNCHANGED <<overlapped, launched, nsConfig, savedVMs, vmState, vmReq>>
            BY <1>2 DEF vmVars
        <3>. QED BY <3>1 DEF VMsQuiet, VMsInv, DeleteEnds, Op
    <2>. QED BY <1>1, <2>1, <2>2 DEF Kept
<1>3. ASSUME NEW r \in VMRequests, VMStep(r) PROVE Kept
    BY <1>3, VMStepKeeps DEF Kept
<1>4. ASSUME NEW r \in VMRequests, NEW v \in VMs, NEW o \in
                {"start", "stop", "restart", "shutdown", "reset", "redeploy", "snapshot", "restore", "commit", "dump"},
             HandlesVM(r, o, v)
      PROVE  Kept
    <2>1. vmLock' \subseteq VMs /\ Begins(r, o, v, TRUE)
        BY <1>4 DEF HandlesVM, VMsTyped
    <2>. QED BY <1>1, <2>1, VMsBegin
<1>5. ASSUME NEW r \in VMRequests, NEW v \in VMs, DeleteVM(r, v) PROVE Kept
    <2>1. vmLock' \subseteq VMs /\ Begins(r, "delete", v, TRUE)
        BY <1>5 DEF DeleteVM, VMsTyped
    <2>. QED BY <1>1, <2>1, VMsBegin
<1>6. ASSUME NEW r \in VMRequests, NEW v \in VMs,
             NEW o \in {"pause", "start", "restart", "reset", "redeploy", "shutdown", "delete", "dump"}, VMCommand(r, o, v)
      PROVE  Kept
    <2>1. vmLock' \subseteq VMs /\ Begins(r, o, v, FALSE)
        BY <1>6 DEF VMCommand, VMsTyped
    <2>. QED BY <1>1, <2>1, VMsBegin
<1>7. ASSUME NEW r \in VMRequests, MinimegaFails(r) PROVE Kept
    <2>1. VMReqReturns(r)
        BY <1>7, ReturnsReturns DEF MinimegaFails
    <2>2. VMsTyped'
        BY <1>7, <2>1, VMsAssumption DEF VMsTyped, MinimegaFails, VMReqReturns
    <2>3. VMsQuiet
        BY <1>7, <2>1, JobTyped DEF VMsQuiet, MinimegaFails, VMReqReturns, VMsInv, DeleteEnds, Op
    <2>. QED BY <1>1, <2>2, <2>3
<1>8. ASSUME NEW v \in VMs, LockExpires(v) PROVE Kept
    <2>1. VMsTyped'
        BY <1>8, VMsAssumption DEF VMsTyped, LockExpires
    <2>. QED BY <1>1, <1>8, <2>1 DEF LockExpires, VMsQuiet, VMsInv, DeleteEnds, Op
<1>9. ASSUME NEW vs \in SUBSET VMs, Captures(vs) PROVE Kept
    <2>1. VMsTyped'
        BY <1>9, VMsAssumption DEF VMsTyped, Captures
    <2>. QED BY <1>1, <1>9, <2>1 DEF Captures, VMsQuiet, VMsInv, DeleteEnds, Op
<1>10. ASSUME NEW v \in VMs, StartVMCapture(v) \/ StopVMCaptures(v) PROVE Kept
    BY <1>9, <1>10 DEF StartVMCapture, StopVMCaptures, VMsTyped
<1>11. ASSUME NEW vs \in SUBSET VMs, CaptureSubnet(vs) \/ StopCaptureSubnet(vs) PROVE Kept
    BY <1>9, <1>11 DEF CaptureSubnet, StopCaptureSubnet, VMsTyped
<1>12. ASSUME NEW r \in VMRequests, NEW v \in VMs,
              \/ StartVM(r, v) \/ StopVM(r, v) \/ RestartVM(r, v) \/ ShutdownVM(r, v) \/ ResetVM(r, v)
              \/ RedeployVM(r, v) \/ SnapshotVM(r, v) \/ RestoreVM(r, v) \/ CommitVM(r, v)
              \/ CreateVMMemorySnapshot(r, v)
       PROVE  Kept
    BY <1>4, <1>12 DEF StartVM, StopVM, RestartVM, ShutdownVM, ResetVM, RedeployVM, SnapshotVM, RestoreVM, CommitVM,
        CreateVMMemorySnapshot
<1>13. ASSUME NEW r \in VMRequests, NEW v \in VMs,
              PowerCmd(r, v) \/ RedeployCmd(r, v) \/ EndCmd(r, v) \/ MemorySnapshotCmd(r, v)
       PROVE  Kept
    BY <1>6, <1>13 DEF PowerCmd, RedeployCmd, EndCmd, MemorySnapshotCmd
<1>14. ASSUME VMsNext PROVE Kept
    BY <1>3, <1>5, <1>7, <1>8, <1>10, <1>11, <1>12, <1>13, <1>14 DEF VMsNext
<1>. QED BY <1>2, <1>14 DEF Kept

\* The types of VirtualMachines' variables.
THEOREM VMsTypes == VMsSpec => []VMsTypeOK
<1>1. VMsInv => VMsTypeOK
    BY DEF VMsInv
<1>. QED BY VMsInitInv, VMsStepInv, <1>1, PTL DEF VMsSpec

\* A VM runs the configuration it was deployed with, whatever stops, kills,
\* flushes or fails in the middle of its redeploy or restore, unless two of
\* those overlapped in the namespace.
THEOREM VMsRunTheirOwn == VMsSpec => []RunsOwnConfig
<1>1. VMsInv => RunsOwnConfig
    BY DEF VMsInv
<1>. QED BY VMsInitInv, VMsStepInv, <1>1, PTL DEF VMsSpec

(***************************************************************************)
(* Scorch. That a run at work is where a cancel looks for it is inductive  *)
(* once it holds from AddCanceler on. What a run leaves is known from what *)
(* it has: of the runs that had no other beside them, the recorded taps    *)
(* are the ones on the head node, what is in the background ends with the  *)
(* context of its run, and a terminal is that of the break at hand. And of *)
(* the pipeline, a stage is shown as running only on the way to where the  *)
(* one executor of the run is.                                             *)
(***************************************************************************)
ExecFields == {"at", "run", "seen", "taps", "cancelled", "failed", "short", "pos", "kept"}
ExecPlaces == {"idle", "checked", "added", "begin", "end", "wrapup", "done"}
Position == [loop : Nesting, stage : CompStages, i : Nat \ {0}]

IsExec(e) ==
    /\ e = [f \in ExecFields |-> e[f]]
    /\ e.at \in ExecPlaces /\ e.pos \in Position

Begun == {"begin", "end"}
Executes == {"begin", "end", "wrapup"}

ExecsAre ==
    /\ execs = [x \in Execs |-> execs[x]]
    /\ \A x \in Execs :
        /\ IsExec(execs[x])
        /\ execs[x].at # "idle" => execs[x].run \in RunIds
        /\ execs[x].at \in Begun => ~execs[x].seen
        /\ execs[x].at \in {"idle", "checked", "added"} => execs[x].pos = First(1, "configure")
        /\ execs[x].at \in Begun => execs[x].pos.i = 1 \/ execs[x].pos.i \in DOMAIN StageList(x)
        /\ execs[x].at = "end" => execs[x].pos.i \in DOMAIN StageList(x)

Cancels ==
    /\ cancelers \in [RunIds -> Execs \cup {NoExec}]
    /\ \A x \in Execs :
        execs[x].at \in Executes \cup {"added"} /\ ~execs[x].cancelled /\ x \notin overwritten
            => cancelers[execs[x].run] = x

InTheBackground ==
    /\ \A b \in inBackground :
        /\ b.exec \in Execs /\ ~execs[b.exec].cancelled
        /\ execs[b.exec].at \in Executes \/ b.exec \in overwritten
        /\ b.name \in Background /\ b.stage \in {"configure", "start"}
    /\ \A b \in backgrounded : b.stage \in {"configure", "start"}
    /\ \A b, d \in backgrounded : b.stage = d.stage /\ b.name = d.name => b = d

AtTerminal ==
    /\ terminals \subseteq Execs
    /\ \A x \in terminals : execs[x].cancelled \/ (execs[x].at = "end" /\ Kind[Comp(x)] = "break")

\* The executor of an experiment that was alone, and its taps.
Alone ==
    /\ apart \subseteq Execs
    /\ \A x \in apart : execs[x].at \in Executes /\ ~execs[x].seen =>
        /\ \A y \in Execs : y # x /\ execs[y].at \in Executes => execs[y].seen
        /\ status.taps = execs[x].taps
        /\ \A c : <<x, c>> \in hostTaps <=> c \in execs[x].taps

TapsAre ==
    /\ hostTaps \subseteq Execs \X DOMAIN Kind
    /\ \A t \in hostTaps : Kind[t[2]] = "tap"
    /\ \A x \in Execs : execs[x].at \in {"idle", "checked", "added"} =>
        execs[x].taps = {} /\ \A c : <<x, c>> \notin hostTaps
    /\ \A x \in apart : execs[x].at = "done" /\ ~execs[x].seen => \A c : <<x, c>> \in hostTaps => c \in execs[x].kept

\* What an exec keeps as it goes on.
Keeps(e, g) == g.run = e.run /\ g.seen = e.seen /\ g.cancelled = e.cancelled /\ g.kept = e.kept

\* GoesOn: to the next component of the stage, to the end of the run, or
\* after the stage, as g; with the stages of the pipeline at f before.
More(e, ok, n) == e.pos.i < n /\ (ok \/ ~FailFast(e.pos.stage))
GoesNext(e, g, f, ok, n) ==
    /\ More(e, ok, n)
    /\ g.at = "begin" /\ g.pos = [e.pos EXCEPT !.i = @ + 1] /\ stages' = f
GoesToTheEnd(e, g, f, ok, n) ==
    /\ ~More(e, ok, n)
    /\ e.pos.stage = "cleanup" /\ e.pos.loop = 1
    /\ g.at = "wrapup" /\ g.pos = e.pos /\ stages' = SetStage(f, e.run, 1, "done", "running")
GoesAfter(e, g, f, ok, n) ==
    /\ ~More(e, ok, n)
    /\ ~(e.pos.stage = "cleanup" /\ e.pos.loop = 1)
    /\ g.at = "begin" /\ g.pos = AfterStage(e.pos.loop, e.pos.stage, g.short)
    /\ \E failed : stages' = StagesAfter(f, e.run, e.pos.loop, e.pos.stage, failed, g.short)

LEMMA AfterStageIs ==
    ASSUME NEW l \in Nesting, NEW s \in CompStages, NEW short, ~(s = "cleanup" /\ l = 1)
    PROVE  AfterStage(l, s, short) \in Position /\ AfterStage(l, s, short).i = 1
<1>1. l \in 1 .. Inmost /\ Inmost \in Nat \ {0} /\ Nesting = 1 .. Inmost
    BY ScorchAssumption
<1>2. CASE s = "configure"
    BY <1>1, <1>2 DEF AfterStage, First, Position, CompStages
<1>3. CASE s = "start"
  <2>1. CASE l \in short \/ l = Inmost
    BY <1>1, <1>3, <2>1 DEF AfterStage, First, Position, CompStages
  <2>2. CASE ~(l \in short \/ l = Inmost)
    <3>1. l + 1 \in Nesting
        BY <1>1, <2>2
    <3>. QED BY <1>3, <2>2, <3>1 DEF AfterStage, First, Position, CompStages
  <2>. QED BY <2>1, <2>2
<1>4. CASE s = "stop"
    BY <1>1, <1>4 DEF AfterStage, First, Position, CompStages
<1>5. CASE s = "cleanup"
  <2>1. l - 1 \in Nesting
    BY <1>1, <1>5
  <2>. QED BY <1>5, <2>1 DEF AfterStage, First, Position, CompStages
<1>. QED BY <1>2, <1>3, <1>4, <1>5 DEF CompStages

LEMMA GoesOnIs ==
    ASSUME NEW x \in Execs, NEW e, IsExec(e), NEW f, NEW ok \in BOOLEAN, GoesOn(x, e, f, ok)
    PROVE  \E g :
            /\ execs' = [execs EXCEPT ![x] = g] /\ IsExec(g)
            /\ Keeps(e, g) /\ g.taps = e.taps
            /\ \/ GoesNext(e, g, f, ok, Len(StageList(x)))
               \/ GoesToTheEnd(e, g, f, ok, Len(StageList(x)))
               \/ GoesAfter(e, g, f, ok, Len(StageList(x)))
<1>. DEFINE l == e.pos.loop
            s == e.pos.stage
            n == Len(StageList(x))
            short == IF ~ok /\ FailFast(s) THEN e.short \cup {l} ELSE e.short
            failed == IF ok THEN e.failed ELSE e.failed \cup {l}
<1>1. e.pos \in Position /\ e.at \in ExecPlaces /\ e = [k \in ExecFields |-> e[k]]
    BY DEF IsExec
<1>2. CASE More(e, ok, n)
  <2>. DEFINE g == [e EXCEPT !.at = "begin", !.pos.i = @ + 1, !.failed = failed]
  <2>1. execs' = [execs EXCEPT ![x] = g] /\ stages' = f
    BY <1>2 DEF GoesOn, More
  <2>2. g.at = "begin" /\ g.pos = [e.pos EXCEPT !.i = @ + 1] /\ Keeps(e, g) /\ g.taps = e.taps
    BY <1>1 DEF ExecFields, Keeps
  <2>3. g.pos \in Position
    BY <1>1, <2>2 DEF Position
  <2>4. g = [k \in ExecFields |-> g[k]]
    BY <1>1 DEF ExecFields
  <2>. HIDE DEF g
  <2>5. IsExec(g)
    BY <2>2, <2>3, <2>4 DEF IsExec, ExecPlaces
  <2>. QED BY <1>2, <2>1, <2>2, <2>5 DEF GoesNext
<1>3. CASE ~More(e, ok, n) /\ s = "cleanup" /\ l = 1
  <2>. DEFINE g == [e EXCEPT !.at = "wrapup", !.failed = failed]
  <2>1. execs' = [execs EXCEPT ![x] = g] /\ stages' = SetStage(f, e.run, 1, "done", "running")
    BY <1>3 DEF GoesOn, More
  <2>2. g.at = "wrapup" /\ g.pos = e.pos /\ Keeps(e, g) /\ g.taps = e.taps
    BY <1>1 DEF ExecFields, Keeps
  <2>4. g = [k \in ExecFields |-> g[k]]
    BY <1>1 DEF ExecFields
  <2>. HIDE DEF g
  <2>5. IsExec(g)
    BY <1>1, <2>2, <2>4 DEF IsExec, ExecPlaces
  <2>. QED BY <1>3, <2>1, <2>2, <2>5 DEF GoesToTheEnd
<1>4. CASE ~More(e, ok, n) /\ ~(s = "cleanup" /\ l = 1)
  <2>. DEFINE late == IF s = "cleanup" /\ l \in failed THEN failed \cup {l - 1} ELSE failed
              g == [e EXCEPT !.at = "begin", !.pos = AfterStage(l, s, short), !.short = short, !.failed = late]
  <2>1. execs' = [execs EXCEPT ![x] = g] /\ stages' = StagesAfter(f, e.run, l, s, failed, short)
    BY <1>4 DEF GoesOn, More
  <2>2. g.at = "begin" /\ g.pos = AfterStage(l, s, short) /\ g.short = short /\ Keeps(e, g) /\ g.taps = e.taps
    BY <1>1 DEF ExecFields, Keeps
  <2>3. l \in Nesting /\ s \in CompStages
    BY <1>1 DEF Position
  <2>4. g = [k \in ExecFields |-> g[k]]
    BY <1>1 DEF ExecFields
  <2>. HIDE DEF g
  <2>5. g.pos \in Position
    BY <1>4, <2>2, <2>3, AfterStageIs
  <2>6. IsExec(g)
    BY <2>2, <2>4, <2>5 DEF IsExec, ExecPlaces
  <2>7. stages' = StagesAfter(f, e.run, e.pos.loop, e.pos.stage, failed, g.short)
    BY <2>1, <2>2
  <2>. QED BY <1>4, <2>1, <2>2, <2>6, <2>7 DEF GoesAfter
<1>. QED BY <1>2, <1>3, <1>4

\* What an executor that moves on does to its exec, whose taps become T.
MovesOn(x, T) ==
    /\ execs[x].at \in Begun
    /\ \E g :
        /\ execs' = [execs EXCEPT ![x] = g] /\ IsExec(g)
        /\ Keeps(execs[x], g) /\ g.taps = T /\ g.at \in Executes
        /\ g.at = "begin" => g.pos.i = 1 \/ g.pos.i \in DOMAIN Plan[g.pos.loop][g.pos.stage]
        /\ g.at = "end" =>
            execs[x].at = "begin" /\ g.pos = execs[x].pos /\ g.pos.i \in DOMAIN Plan[g.pos.loop][g.pos.stage]

LEMMA PlanIs ==
    ASSUME NEW p \in Position
    PROVE  /\ Plan[p.loop][p.stage] \in Seq(DOMAIN Kind)
           /\ DOMAIN Plan[p.loop][p.stage] = 1 .. Len(Plan[p.loop][p.stage])
           /\ Len(Plan[p.loop][p.stage]) \in Nat
           /\ p.loop \in Nesting /\ p.stage \in CompStages /\ p.i \in Nat \ {0}
<1>1. p.loop \in Nesting /\ p.stage \in CompStages /\ p.i \in Nat \ {0}
    BY DEF Position
<1>2. Plan[p.loop][p.stage] \in Seq(DOMAIN Kind)
    BY <1>1, ScorchAssumption
<1>. QED BY <1>1, <1>2

LEMMA GoesOnMoves ==
    ASSUME ExecsAre, NEW x \in Execs, execs[x].at \in Begun, NEW e, IsExec(e),
           Keeps(execs[x], e), e.pos = execs[x].pos,
           NEW f, NEW ok \in BOOLEAN, GoesOn(x, e, f, ok)
    PROVE  MovesOn(x, e.taps)
<1>1. PICK g :
        /\ execs' = [execs EXCEPT ![x] = g] /\ IsExec(g)
        /\ Keeps(e, g) /\ g.taps = e.taps
        /\ \/ GoesNext(e, g, f, ok, Len(StageList(x)))
           \/ GoesToTheEnd(e, g, f, ok, Len(StageList(x)))
           \/ GoesAfter(e, g, f, ok, Len(StageList(x)))
    BY GoesOnIs
<1>2. Keeps(execs[x], g)
    BY <1>1 DEF Keeps
<1>3. e.pos \in Position /\ g.pos \in Position
    BY <1>1 DEF IsExec
<1>4. StageList(x) = Plan[e.pos.loop][e.pos.stage]
    BY DEF StageList, Place
<1>5. CASE GoesNext(e, g, f, ok, Len(StageList(x)))
  <2>1. /\ g.at = "begin" /\ e.pos.i < Len(StageList(x))
        /\ g.pos.i = e.pos.i + 1 /\ g.pos.loop = e.pos.loop /\ g.pos.stage = e.pos.stage
    BY <1>3, <1>5 DEF GoesNext, More, Position
  <2>2. g.pos.i \in DOMAIN Plan[g.pos.loop][g.pos.stage]
    BY <1>3, <1>4, <2>1, PlanIs
  <2>. QED BY <1>1, <1>2, <2>1, <2>2 DEF MovesOn, Executes
<1>6. CASE GoesToTheEnd(e, g, f, ok, Len(StageList(x)))
    BY <1>1, <1>2, <1>6 DEF GoesToTheEnd, MovesOn, Executes
<1>7. CASE GoesAfter(e, g, f, ok, Len(StageList(x)))
  <2>1. g.at = "begin" /\ g.pos.i = 1
    BY <1>3, <1>7, AfterStageIs, PlanIs DEF GoesAfter
  <2>. QED BY <1>1, <1>2, <2>1 DEF MovesOn, Executes
<1>. QED BY <1>1, <1>5, <1>6, <1>7

LEMMA ReturnedMoves ==
    ASSUME ExecsAre, NEW x \in Execs, execs[x].at = "end", NEW n, NEW f, NEW ok \in BOOLEAN, NEW T,
           \/ Returned(x, [execs[x] EXCEPT !.taps = T], n, f, ok)
           \/ Returned(x, execs[x], n, f, ok) /\ T = execs[x].taps
    PROVE  MovesOn(x, T)
<1>1. IsExec(execs[x]) /\ execs[x] = [k \in ExecFields |-> execs[x][k]] /\ execs[x].at \in Begun
    BY DEF ExecsAre, IsExec, Begun
<1>2. CASE Returned(x, execs[x], n, f, ok) /\ T = execs[x].taps
    BY <1>1, <1>2, GoesOnMoves DEF Returned, Keeps
<1>3. CASE Returned(x, [execs[x] EXCEPT !.taps = T], n, f, ok)
  <2>. DEFINE e == [execs[x] EXCEPT !.taps = T]
  <2>1. Keeps(execs[x], e) /\ e.taps = T /\ e.pos = execs[x].pos /\ e.at = execs[x].at
    BY <1>1 DEF ExecFields, Keeps
  <2>2. e = [k \in ExecFields |-> e[k]]
    BY <1>1 DEF ExecFields
  <2>3. \E m : GoesOn(x, e, m, ok)
    BY <1>3 DEF Returned
  <2>. HIDE DEF e
  <2>4. IsExec(e)
    BY <1>1, <2>1, <2>2 DEF IsExec
  <2>. QED BY <1>1, <2>1, <2>3, <2>4, GoesOnMoves
<1>. QED BY <1>2, <1>3

\* What an executor that moves on leaves as it was: that it can be cancelled,
\* that its exec is one.
LEMMA MovesOnKeeps ==
    ASSUME ExecsAre, Cancels, NEW x \in Execs, NEW T, MovesOn(x, T), UNCHANGED <<cancelers, overwritten>>
    PROVE  /\ ExecsAre' /\ Cancels'
           /\ \A y \in Execs : /\ Keeps(execs[y], execs'[y]) /\ (y # x => execs'[y] = execs[y])
                               /\ execs[y].at \in Executes <=> execs'[y].at \in Executes
           /\ execs'[x].taps = T
<1>1. PICK g :
        /\ execs' = [execs EXCEPT ![x] = g] /\ IsExec(g)
        /\ Keeps(execs[x], g) /\ g.taps = T /\ g.at \in Executes
        /\ g.at = "begin" => g.pos.i = 1 \/ g.pos.i \in DOMAIN Plan[g.pos.loop][g.pos.stage]
        /\ g.at = "end" =>
            execs[x].at = "begin" /\ g.pos = execs[x].pos /\ g.pos.i \in DOMAIN Plan[g.pos.loop][g.pos.stage]
    BY DEF MovesOn
<1>2. execs[x].at \in Begun
    BY DEF MovesOn
<1>3. execs = [y \in Execs |-> execs[y]]
    BY DEF ExecsAre
<1>4. execs'[x] = g /\ \A y \in Execs : y # x => execs'[y] = execs[y]
    BY <1>1, <1>3
<1>5. execs' = [y \in Execs |-> execs'[y]]
    BY <1>1, <1>3
<1>6. ASSUME NEW y \in Execs
      PROVE  /\ Keeps(execs[y], execs'[y]) /\ (y # x => execs'[y] = execs[y])
             /\ execs[y].at \in Executes <=> execs'[y].at \in Executes
    BY <1>1, <1>2, <1>4 DEF Keeps, Begun, Executes
<1>7. ASSUME NEW y \in Execs
      PROVE  /\ IsExec(execs'[y])
             /\ execs'[y].at # "idle" => execs'[y].run \in RunIds
             /\ execs'[y].at \in Begun => ~execs'[y].seen
             /\ execs'[y].at \in {"idle", "checked", "added"} => execs'[y].pos = First(1, "configure")
             /\ execs'[y].at \in Begun => execs'[y].pos.i = 1 \/ execs'[y].pos.i \in DOMAIN StageList(y)'
             /\ execs'[y].at = "end" => execs'[y].pos.i \in DOMAIN StageList(y)'
  <2>1. CASE y = x
    <3>1. execs[x].at # "idle" /\ ~execs[x].seen /\ execs[x].run \in RunIds
        BY <1>2 DEF ExecsAre, Begun
    <3>. QED BY <1>1, <1>4, <2>1, <3>1 DEF Keeps, Begun, Executes, StageList, Place
  <2>2. CASE y # x
    BY <1>4, <2>2 DEF ExecsAre, StageList, Place
  <2>. QED BY <2>1, <2>2
<1>8. ExecsAre'
    BY <1>5, <1>7 DEF ExecsAre
<1>9. Cancels'
  <2>1. ASSUME NEW y \in Execs, execs'[y].at \in Executes \cup {"added"}, ~execs'[y].cancelled, y \notin overwritten'
        PROVE  cancelers'[execs'[y].run] = y
    BY <1>2, <1>4, <1>6, <2>1 DEF Keeps, Cancels, Begun, Executes
  <2>. QED BY <2>1 DEF Cancels
<1>. QED BY <1>1, <1>4, <1>6, <1>8, <1>9

RunsInv == ExecsAre /\ Cancels /\ InTheBackground /\ AtTerminal /\ Alone /\ TapsAre

\* An executor that moves on while nothing is put in the background, no
\* terminal opens and its taps, as recorded, are those of the head node.
LEMMA WorkKeepsRuns ==
    ASSUME RunsInv, NEW x \in Execs, NEW T, MovesOn(x, T), UNCHANGED <<cancelers, overwritten, apart, terminals>>,
           x \in terminals => execs[x].cancelled,
           inBackground' \subseteq inBackground, backgrounded' \subseteq backgrounded,
           \/ T = execs[x].taps /\ UNCHANGED <<status, hostTaps>>
           \/ /\ status'.taps = T
              /\ \E c \in DOMAIN Kind : /\ Kind[c] = "tap"
                                        /\ \/ T = execs[x].taps \cup {c} /\ hostTaps' = hostTaps \cup {<<x, c>>}
                                           \/ T = execs[x].taps \ {c} /\ hostTaps' = hostTaps \ {<<x, c>>}
    PROVE  RunsInv'
<1>. USE DEF RunsInv
<1>1. /\ ExecsAre' /\ Cancels'
      /\ \A y \in Execs : /\ Keeps(execs[y], execs'[y]) /\ (y # x => execs'[y] = execs[y])
                          /\ execs[y].at \in Executes <=> execs'[y].at \in Executes
      /\ execs'[x].taps = T
    BY MovesOnKeeps
<1>2. execs[x].at \in Executes /\ ~execs[x].seen /\ execs[x].at \in Begun
    BY DEF MovesOn, ExecsAre, Begun, Executes
<1>3. InTheBackground'
    BY <1>1 DEF InTheBackground, Keeps
<1>4. AtTerminal'
  <2>1. terminals' = terminals
    OBVIOUS
  <2>2. ASSUME NEW y \in terminals' PROVE execs'[y].cancelled \/ (execs'[y].at = "end" /\ Kind[Comp(y)'] = "break")
    <3>1. CASE y = x
        BY <1>1, <2>1, <3>1 DEF Keeps
    <3>2. CASE y # x
        BY <1>1, <2>1, <3>2 DEF AtTerminal, Comp, StageList, Place
    <3>. QED BY <3>1, <3>2
  <2>. QED BY <2>1, <2>2 DEF AtTerminal
<1>5. ASSUME NEW y \in apart, execs[y].at \in Executes, ~execs[y].seen PROVE y = x
    BY <1>2, <1>5 DEF Alone
<1>6. Alone'
  <2>1. ASSUME NEW y \in apart', execs'[y].at \in Executes, ~execs'[y].seen
        PROVE  /\ \A z \in Execs : z # y /\ execs'[z].at \in Executes => execs'[z].seen
               /\ status'.taps = execs'[y].taps
               /\ \A c : <<y, c>> \in hostTaps' <=> c \in execs'[y].taps
    <3>1. y \in apart /\ y \in Execs
        BY DEF Alone
    <3>2. execs[y].at \in Executes /\ ~execs[y].seen
        BY <1>1, <2>1, <3>1 DEF Keeps
    <3>3. y = x
        BY <1>5, <3>1, <3>2
    <3>4. \A z \in Execs : z # x /\ execs[z].at \in Executes => execs[z].seen
        BY <3>1, <3>2, <3>3 DEF Alone
    <3>5. \A z \in Execs : z # y /\ execs'[z].at \in Executes => execs'[z].seen
        BY <1>1, <3>3, <3>4
    <3>6. status.taps = execs[x].taps /\ \A c : <<x, c>> \in hostTaps <=> c \in execs[x].taps
        BY <3>1, <3>2, <3>3 DEF Alone
    <3>. QED BY <1>1, <3>3, <3>5, <3>6
  <2>. QED BY <2>1 DEF Alone
<1>7. TapsAre'
  <2>1. hostTaps' \subseteq Execs \X DOMAIN Kind /\ \A t \in hostTaps' : Kind[t[2]] = "tap"
    BY DEF TapsAre
  <2>2. ASSUME NEW y \in Execs, execs'[y].at \in {"idle", "checked", "added"}
        PROVE  execs'[y].taps = {} /\ \A c : <<y, c>> \notin hostTaps'
    <3>1. y # x
        BY <1>1, <1>2, <2>2 DEF Executes
    <3>2. execs[y].taps = {} /\ \A c : <<y, c>> \notin hostTaps
        BY <1>1, <2>2, <3>1 DEF TapsAre
    <3>. QED BY <1>1, <3>1, <3>2
  <2>3. ASSUME NEW y \in apart', execs'[y].at = "done" /\ ~execs'[y].seen, NEW c, <<y, c>> \in hostTaps'
        PROVE  c \in execs'[y].kept
    <3>1. y \in apart /\ y \in Execs
        BY DEF Alone
    <3>2. y # x
        BY <1>1, <1>2, <2>3 DEF Executes
    <3>3. <<y, c>> \in hostTaps
        BY <2>3, <3>2
    <3>. QED BY <1>1, <2>3, <3>1, <3>2, <3>3 DEF TapsAre
  <2>. QED BY <2>1, <2>2, <2>3 DEF TapsAre
<1>. QED BY <1>1, <1>3, <1>4, <1>6, <1>7

\* The exec of a request whose request, or cancel, is at hand: one field of
\* it changes.
LEMMA ExecChanges ==
    ASSUME NEW e, IsExec(e), NEW v
    PROVE  /\ v \in ExecPlaces => IsExec([e EXCEPT !.at = v])
           /\ [e EXCEPT !.at = v].at = v /\ [e EXCEPT !.at = v].run = e.run
           /\ [e EXCEPT !.at = v].seen = e.seen /\ [e EXCEPT !.at = v].cancelled = e.cancelled
           /\ [e EXCEPT !.at = v].taps = e.taps /\ [e EXCEPT !.at = v].kept = e.kept
           /\ [e EXCEPT !.at = v].pos = e.pos
<1>1. e = [k \in ExecFields |-> e[k]]
    BY DEF IsExec
<1>. DEFINE g == [e EXCEPT !.at = v]
<1>2. g = [k \in ExecFields |-> g[k]]
    BY <1>1 DEF ExecFields
<1>3. /\ g.at = v /\ g.run = e.run /\ g.seen = e.seen /\ g.cancelled = e.cancelled
      /\ g.taps = e.taps /\ g.kept = e.kept /\ g.pos = e.pos
    BY <1>1 DEF ExecFields
<1>. HIDE DEF g
<1>4. v \in ExecPlaces => IsExec(g)
    BY <1>2, <1>3 DEF IsExec
<1>. QED BY <1>3, <1>4 DEF g

LEMMA BeginComponentKeepsRuns ==
    ASSUME RunsInv, NEW x \in Execs, BeginComponent(x)
    PROVE  RunsInv' /\ MovesOn(x, execs[x].taps)
<1>. USE DEF RunsInv
<1>. DEFINE g == [execs[x] EXCEPT !.at = "end"]
<1>1. execs' = [execs EXCEPT ![x] = g] /\ execs[x].at = "begin" /\ StageList(x) # <<>>
    BY DEF BeginComponent
<1>2. IsExec(execs[x]) /\ execs = [y \in Execs |-> execs[y]]
    BY DEF ExecsAre
<1>3. /\ IsExec(g) /\ g.at = "end" /\ Keeps(execs[x], g) /\ g.taps = execs[x].taps /\ g.pos = execs[x].pos
    BY <1>2, ExecChanges DEF Keeps, ExecPlaces
<1>4. execs[x].pos.i \in DOMAIN StageList(x)
  <2>1. execs[x].pos \in Position
    BY <1>2 DEF IsExec
  <2>2. 1 \in DOMAIN StageList(x)
    BY <1>1, <2>1, PlanIs DEF StageList, Place
  <2>. QED BY <1>1, <2>2 DEF ExecsAre, Begun
<1>. HIDE DEF g
<1>5. MovesOn(x, execs[x].taps)
    BY <1>1, <1>3, <1>4 DEF MovesOn, Begun, Executes, StageList, Place
<1>6. UNCHANGED <<cancelers, status, hostTaps, inBackground, backgrounded, apart, overwritten>>
    BY DEF BeginComponent
<1>7. CASE Kind[Comp(x)] # "break" \/ execs[x].cancelled
  <2>1. UNCHANGED terminals
    BY <1>7 DEF BeginComponent, CreateWebTerminal
  <2>2. x \in terminals => execs[x].cancelled
    BY <1>1 DEF AtTerminal
  <2>. QED BY <1>5, <1>6, <2>1, <2>2, WorkKeepsRuns
<1>8. CASE Kind[Comp(x)] = "break" /\ ~execs[x].cancelled
  <2>1. terminals' = terminals \cup {x}
    BY <1>8 DEF BeginComponent, CreateWebTerminal
  <2>2. /\ ExecsAre' /\ Cancels'
        /\ \A y \in Execs : /\ Keeps(execs[y], execs'[y]) /\ (y # x => execs'[y] = execs[y])
                            /\ execs[y].at \in Executes <=> execs'[y].at \in Executes
        /\ execs'[x].taps = execs[x].taps /\ execs'[x] = g
    BY <1>1, <1>2, <1>5, <1>6, MovesOnKeeps
  <2>3. InTheBackground'
    BY <1>6, <2>2 DEF InTheBackground, Keeps
  <2>4. AtTerminal'
    <3>1. execs'[x].at = "end" /\ Comp(x)' = Comp(x)
        BY <1>3, <2>2 DEF Comp, StageList, Place
    <3>2. ASSUME NEW y \in terminals, y # x
          PROVE  execs'[y].cancelled \/ (execs'[y].at = "end" /\ Kind[Comp(y)'] = "break")
        BY <2>2, <3>2 DEF AtTerminal, Comp, StageList, Place
    <3>3. terminals' \subseteq Execs
        BY <2>1 DEF AtTerminal
    <3>. QED BY <1>8, <2>1, <3>1, <3>2, <3>3 DEF AtTerminal
  <2>5. \A y \in Execs : execs'[y].taps = execs[y].taps
    BY <2>2
  <2>6. Alone'
    BY <1>6, <2>2, <2>5 DEF Alone, Keeps
  <2>7. TapsAre'
    <3>1. ASSUME NEW y \in Execs
          PROVE  /\ execs'[y].at \in {"idle", "checked", "added", "done"} => execs[y].at = execs'[y].at
                 /\ execs'[y].seen = execs[y].seen /\ execs'[y].kept = execs[y].kept
        BY <1>3, <2>2 DEF Keeps
    <3>2. apart \subseteq Execs
        BY DEF Alone
    <3>3. hostTaps' \subseteq Execs \X DOMAIN Kind /\ \A t \in hostTaps' : Kind[t[2]] = "tap"
        BY <1>6 DEF TapsAre
    <3>4. ASSUME NEW y \in Execs, execs'[y].at \in {"idle", "checked", "added"}
          PROVE  execs'[y].taps = {} /\ \A c : <<y, c>> \notin hostTaps'
        BY <1>6, <2>5, <3>1, <3>4 DEF TapsAre
    <3>5. ASSUME NEW y \in apart', execs'[y].at = "done" /\ ~execs'[y].seen, NEW c, <<y, c>> \in hostTaps'
          PROVE  c \in execs'[y].kept
        BY <1>6, <3>1, <3>2, <3>5 DEF TapsAre
    <3>. QED BY <3>3, <3>4, <3>5 DEF TapsAre
  <2>. QED BY <1>5, <2>2, <2>3, <2>4, <2>6, <2>7
<1>. QED BY <1>5, <1>7, <1>8

LEMMA ExecutorKeepsRuns ==
    ASSUME RunsInv, NEW x \in Execs,
           EmptyStage(x) \/ RunsPause(x) \/ RunsUser(x) \/ RunsBreak(x) \/ StartsTap(x) \/ DeletesTap(x)
    PROVE  RunsInv' /\ \E T : MovesOn(x, T)
<1>. USE DEF RunsInv
<1>1. IsExec(execs[x]) /\ execs = [y \in Execs |-> execs[y]]
    BY DEF ExecsAre
<1>2. execs[x].at = "end" => Comp(x) \in DOMAIN Kind
  <2>1. execs[x].pos \in Position
    BY <1>1 DEF IsExec
  <2>2. execs[x].at = "end" => execs[x].pos.i \in DOMAIN StageList(x)
    BY DEF ExecsAre
  <2>. QED BY <2>1, <2>2, PlanIs DEF Comp, StageList, Place
<1>3. x \in terminals => execs[x].cancelled \/ (execs[x].at = "end" /\ Kind[Comp(x)] = "break")
    BY DEF AtTerminal
<1>4. CASE EmptyStage(x)
  <2>1. /\ execs[x].at \in Begun /\ execs[x].at # "end"
        /\ UNCHANGED <<cancelers, status, hostTaps, inBackground, backgrounded, terminals, apart, overwritten>>
    BY <1>4 DEF EmptyStage, Begun
  <2>2. MovesOn(x, execs[x].taps)
    BY <1>1, <1>4, <2>1, GoesOnMoves DEF EmptyStage, Keeps
  <2>. QED BY <1>3, <2>1, <2>2, WorkKeepsRuns
<1>5. CASE RunsPause(x) \/ RunsUser(x)
  <2>1. /\ execs[x].at = "end" /\ Kind[Comp(x)] # "break"
        /\ UNCHANGED <<cancelers, status, hostTaps, terminals, apart, overwritten>>
        /\ backgrounded' \subseteq backgrounded /\ inBackground' \subseteq inBackground
    BY <1>5 DEF RunsPause, RunsUser, ExecuteComponent, HandleBackgrounded
  <2>2. \E ok \in BOOLEAN : Returned(x, execs[x], HandledNodes(x), HandledStages(x), ok)
    BY <1>5 DEF RunsPause, RunsUser
  <2>3. MovesOn(x, execs[x].taps)
    BY <2>1, <2>2, ReturnedMoves
  <2>. QED BY <1>3, <2>1, <2>3, WorkKeepsRuns
<1>6. CASE RunsBreak(x)
  <2>1. /\ execs[x].at = "end" /\ (execs[x].cancelled \/ x \notin terminals)
        /\ UNCHANGED <<cancelers, status, hostTaps, inBackground, backgrounded, terminals, apart, overwritten>>
    BY <1>6 DEF RunsBreak, ExecuteComponent
  <2>2. execs[x].at = "end" /\ \E ok \in BOOLEAN : Returned(x, execs[x], nodes, stages, ok)
    BY <1>6 DEF RunsBreak, ExecuteComponent
  <2>3. MovesOn(x, execs[x].taps)
    BY <2>2, ReturnedMoves
  <2>. QED BY <2>1, <2>3, WorkKeepsRuns
<1>7. CASE StartsTap(x)
  <2>1. /\ execs[x].at = "end" /\ Kind[Comp(x)] = "tap"
        /\ UNCHANGED <<cancelers, inBackground, backgrounded, terminals, apart, overwritten>>
    BY <1>7 DEF StartsTap, ExecuteComponent
  <2>2. CASE Returned(x, execs[x], nodes, stages, FALSE) /\ UNCHANGED <<hostTaps, status>>
    <3>1. MovesOn(x, execs[x].taps)
        BY <2>1, <2>2, ReturnedMoves
    <3>. QED BY <1>3, <2>1, <2>2, <3>1, WorkKeepsRuns
  <2>3. CASE /\ hostTaps' = hostTaps \cup {<<x, Comp(x)>>}
             /\ RecordsTaps(execs[x].taps \cup {Comp(x)})
             /\ Returned(x, [execs[x] EXCEPT !.taps = execs[x].taps \cup {Comp(x)}], nodes, stages, TRUE)
    <3>. DEFINE T == execs[x].taps \cup {Comp(x)}
    <3>1. MovesOn(x, T)
        BY <2>1, <2>3, ReturnedMoves
    <3>2. status'.taps = T
        BY <2>3 DEF RecordsTaps
    <3>3. T = execs[x].taps \cup {Comp(x)} /\ hostTaps' = hostTaps \cup {<<x, Comp(x)>>}
        BY <2>3
    <3>. HIDE DEF T
    <3>. QED BY <1>2, <1>3, <2>1, <3>1, <3>2, <3>3, WorkKeepsRuns
  <2>4. [execs[x] EXCEPT !.taps = @ \cup {Comp(x)}] = [execs[x] EXCEPT !.taps = execs[x].taps \cup {Comp(x)}]
    OBVIOUS
  <2>5. [execs[x] EXCEPT !.taps = @ \cup {Comp(x)}].taps = execs[x].taps \cup {Comp(x)}
    BY <1>1 DEF IsExec, ExecFields
  <2>. QED BY <1>7, <2>2, <2>3, <2>4, <2>5 DEF StartsTap
<1>8. CASE DeletesTap(x)
  <2>1. /\ execs[x].at = "end" /\ Kind[Comp(x)] = "tap"
        /\ UNCHANGED <<cancelers, inBackground, backgrounded, terminals, apart, overwritten>>
    BY <1>8 DEF DeletesTap, ExecuteComponent
  <2>2. CASE (\E ok \in BOOLEAN : Returned(x, execs[x], nodes, stages, ok)) /\ UNCHANGED <<hostTaps, status>>
    <3>1. MovesOn(x, execs[x].taps)
        BY <2>1, <2>2, ReturnedMoves
    <3>. QED BY <1>3, <2>1, <2>2, <3>1, WorkKeepsRuns
  <2>3. CASE /\ hostTaps' = hostTaps \ {<<x, Comp(x)>>}
             /\ RecordsTaps(execs[x].taps \ {Comp(x)})
             /\ Returned(x, [execs[x] EXCEPT !.taps = execs[x].taps \ {Comp(x)}], nodes, stages, TRUE)
    <3>. DEFINE T == execs[x].taps \ {Comp(x)}
    <3>1. MovesOn(x, T)
        BY <2>1, <2>3, ReturnedMoves
    <3>2. status'.taps = T
        BY <2>3 DEF RecordsTaps
    <3>3. T = execs[x].taps \ {Comp(x)} /\ hostTaps' = hostTaps \ {<<x, Comp(x)>>}
        BY <2>3
    <3>. HIDE DEF T
    <3>. QED BY <1>2, <1>3, <2>1, <3>1, <3>2, <3>3, WorkKeepsRuns
  <2>4. [execs[x] EXCEPT !.taps = @ \ {Comp(x)}] = [execs[x] EXCEPT !.taps = execs[x].taps \ {Comp(x)}]
    OBVIOUS
  <2>5. [execs[x] EXCEPT !.taps = @ \ {Comp(x)}].taps = execs[x].taps \ {Comp(x)}
    BY <1>1 DEF IsExec, ExecFields
  <2>. QED BY <1>8, <2>2, <2>3, <2>4, <2>5 DEF DeletesTap
<1>. QED BY <1>4, <1>5, <1>6, <1>7, <1>8

LEMMA BackgroundKeepsRuns ==
    ASSUME RunsInv, NEW x \in Execs, GoesToBackground(x)
    PROVE  RunsInv' /\ MovesOn(x, execs[x].taps)
<1>. USE DEF RunsInv
<1>1. /\ execs[x].at = "end" /\ Kind[Comp(x)] # "break" /\ InBack(x)
      /\ UNCHANGED <<cancelers, status, hostTaps, terminals, apart, overwritten>>
    BY DEF GoesToBackground, ExecuteComponent
<1>. DEFINE b == [exec |-> x, loop |-> Place(x).loop, stage |-> Place(x).stage, name |-> Comp(x)]
<1>2. /\ backgrounded' = {k \in backgrounded : ~(k.stage = b.stage /\ k.name = b.name)} \cup {b}
      /\ inBackground' = inBackground \/ (~execs[x].cancelled /\ inBackground' = inBackground \cup {b})
    BY DEF GoesToBackground
<1>3. \E ok \in BOOLEAN : Returned(x, execs[x], nodes, stages, ok)
    BY DEF GoesToBackground
<1>4. MovesOn(x, execs[x].taps)
    BY <1>1, <1>3, ReturnedMoves
<1>5. /\ ExecsAre' /\ Cancels'
      /\ \A y \in Execs : /\ Keeps(execs[y], execs'[y]) /\ (y # x => execs'[y] = execs[y])
                          /\ execs[y].at \in Executes <=> execs'[y].at \in Executes
      /\ execs'[x].taps = execs[x].taps
    BY <1>1, <1>4, MovesOnKeeps
<1>6. b.exec = x /\ b.name \in Background /\ b.stage \in {"configure", "start"}
    BY <1>1 DEF InBack, FailFast
<1>. HIDE DEF b
<1>7. InTheBackground'
  <2>1. ASSUME NEW d \in inBackground'
        PROVE  /\ d.exec \in Execs /\ ~execs'[d.exec].cancelled
               /\ execs'[d.exec].at \in Executes \/ d.exec \in overwritten'
               /\ d.name \in Background /\ d.stage \in {"configure", "start"}
    <3>1. CASE d \in inBackground
        BY <1>1, <1>5, <3>1 DEF InTheBackground, Keeps
    <3>2. CASE d = b /\ ~execs[x].cancelled
        BY <1>1, <1>5, <1>6, <3>2 DEF Keeps, Executes
    <3>. QED BY <1>2, <3>1, <3>2
  <2>2. \A d \in backgrounded' : d.stage \in {"configure", "start"}
    BY <1>2, <1>6 DEF InTheBackground
  <2>3. \A c, d \in backgrounded' : c.stage = d.stage /\ c.name = d.name => c = d
    BY <1>2 DEF InTheBackground
  <2>. QED BY <2>1, <2>2, <2>3 DEF InTheBackground
<1>8. AtTerminal'
  <2>1. ASSUME NEW y \in terminals PROVE execs'[y].cancelled \/ (execs'[y].at = "end" /\ Kind[Comp(y)'] = "break")
    <3>1. CASE y = x
        BY <1>1, <1>5, <3>1 DEF Keeps, AtTerminal
    <3>2. CASE y # x
        BY <1>5, <3>2 DEF AtTerminal, Comp, StageList, Place
    <3>. QED BY <3>1, <3>2
  <2>. QED BY <1>1, <2>1 DEF AtTerminal
<1>9. \A y \in Execs : execs'[y].taps = execs[y].taps
    BY <1>5
<1>10. Alone'
    BY <1>1, <1>5, <1>9 DEF Alone, Keeps
<1>11. TapsAre'
  <2>1. hostTaps' \subseteq Execs \X DOMAIN Kind /\ \A t \in hostTaps' : Kind[t[2]] = "tap"
    BY <1>1 DEF TapsAre
  <2>2. ASSUME NEW y \in Execs, execs'[y].at \in {"idle", "checked", "added", "done"}
        PROVE  y # x /\ execs'[y] = execs[y]
    BY <1>1, <1>5, <2>2 DEF Executes
  <2>3. ASSUME NEW y \in Execs, execs'[y].at \in {"idle", "checked", "added"}
        PROVE  execs'[y].taps = {} /\ \A c : <<y, c>> \notin hostTaps'
    BY <1>1, <2>2, <2>3 DEF TapsAre
  <2>4. ASSUME NEW y \in apart', execs'[y].at = "done" /\ ~execs'[y].seen, NEW c, <<y, c>> \in hostTaps'
        PROVE  c \in execs'[y].kept
    <3>1. y \in apart /\ y \in Execs
        BY <1>1 DEF Alone
    <3>. QED BY <1>1, <2>2, <2>4, <3>1 DEF TapsAre
  <2>. QED BY <2>1, <2>3, <2>4 DEF TapsAre
<1>. QED BY <1>4, <1>5, <1>7, <1>8, <1>10, <1>11

\* The requests: until Execute a run has no tap and nothing in the
\* background, and its exec changes only in where it is.
LEMMA RequestKeepsRuns ==
    ASSUME RunsInv, NEW x \in Execs, NEW r \in RunIds, StartPipeline(x, r) \/ AddCanceler(x) \/ Execute(x)
    PROVE  RunsInv'
<1>. USE DEF RunsInv
<1>1. IsExec(execs[x]) /\ execs = [y \in Execs |-> execs[y]] /\ execs[x] = [k \in ExecFields |-> execs[x][k]]
    BY DEF ExecsAre, IsExec
<1>2. execs[x].at \in {"idle", "checked", "added"}
    BY DEF StartPipeline, AddCanceler, Execute
<1>3. PICK g :
        /\ execs' = [execs EXCEPT ![x] = g] /\ IsExec(g)
        /\ g.taps = execs[x].taps /\ g.kept = execs[x].kept /\ g.cancelled = execs[x].cancelled
        /\ g.pos = execs[x].pos
        /\ \/ g.at = "checked" /\ g.run \in RunIds
           \/ /\ g.at \in {"added", "begin", "wrapup"} /\ g.run = execs[x].run /\ g.seen = execs[x].seen
              /\ execs[x].at # "idle"
  <2>1. CASE StartPipeline(x, r)
    <3>. DEFINE g == [execs[x] EXCEPT !.at = "checked", !.run = r, !.seen = status.running]
    <3>2. execs' = [execs EXCEPT ![x] = g]
        BY <1>1, <2>1 DEF StartPipeline
    <3>3. g = [k \in ExecFields |-> g[k]]
        BY <1>1 DEF ExecFields
    <3>4. /\ g.taps = execs[x].taps /\ g.kept = execs[x].kept /\ g.cancelled = execs[x].cancelled
          /\ g.pos = execs[x].pos /\ g.at = "checked" /\ g.run = r
        BY <1>1 DEF ExecFields
    <3>. HIDE DEF g
    <3>5. IsExec(g)
        BY <1>1, <3>3, <3>4 DEF IsExec, ExecPlaces
    <3>. QED BY <3>2, <3>4, <3>5
  <2>2. CASE AddCanceler(x) \/ Execute(x)
    <3>1. PICK v \in {"added", "begin", "wrapup"} : execs' = [execs EXCEPT ![x].at = v]
        BY <2>2 DEF AddCanceler, Execute
    <3>. DEFINE g == [execs[x] EXCEPT !.at = v]
    <3>2. execs' = [execs EXCEPT ![x] = g]
        BY <3>1
    <3>3. /\ IsExec(g) /\ g.at = v /\ g.run = execs[x].run /\ g.seen = execs[x].seen /\ g.cancelled = execs[x].cancelled
          /\ g.taps = execs[x].taps /\ g.kept = execs[x].kept /\ g.pos = execs[x].pos
        BY <1>1, ExecChanges DEF ExecPlaces
    <3>4. execs[x].at # "idle"
        BY <2>2 DEF AddCanceler, Execute
    <3>. HIDE DEF g
    <3>. QED BY <3>1, <3>2, <3>3, <3>4
  <2>. QED BY <2>1, <2>2
<1>4. execs'[x] = g /\ \A y \in Execs : y # x => execs'[y] = execs[y]
    BY <1>1, <1>3
<1>5. \A y \in Execs : execs'[y].taps = execs[y].taps /\ execs'[y].kept = execs[y].kept /\ execs'[y].cancelled = execs[y].cancelled
    BY <1>3, <1>4
<1>6. UNCHANGED <<hostTaps, inBackground, backgrounded, terminals>>
    BY DEF StartPipeline, AddCanceler, Execute
<1>7. /\ \A c : <<x, c>> \notin hostTaps /\ execs[x].taps = {}
      /\ apart \subseteq Execs /\ apart' \subseteq apart
    BY <1>2 DEF TapsAre, Alone, StartPipeline, AddCanceler, Execute
<1>8. execs[x].pos = First(1, "configure") /\ execs[x].pos.i = 1
    BY <1>2 DEF ExecsAre, First
<1>9. g.at = "begin" => ~g.seen
  <2>1. CASE g.at = "begin"
    <3>0. execs[x] = [k \in ExecFields |-> execs[x][k]] /\ execs = [y \in Execs |-> execs[y]]
        BY <1>1
    <3>1. ~AddCanceler(x)
        BY <1>4, <2>1, <3>0 DEF AddCanceler, ExecFields
    <3>2. ~StartPipeline(x, r)
        BY <1>4, <2>1, <3>0 DEF StartPipeline, ExecFields
    <3>3. ~execs[x].seen
        BY <1>4, <2>1, <3>0, <3>1, <3>2 DEF Execute, ExecFields
    <3>. QED BY <1>3, <2>1, <3>3
  <2>. QED BY <2>1
<1>10. ASSUME NEW y \in Execs
       PROVE  /\ IsExec(execs'[y])
              /\ execs'[y].at # "idle" => execs'[y].run \in RunIds
              /\ execs'[y].at \in Begun => ~execs'[y].seen
              /\ execs'[y].at \in {"idle", "checked", "added"} => execs'[y].pos = First(1, "configure")
              /\ execs'[y].at \in Begun => execs'[y].pos.i = 1 \/ execs'[y].pos.i \in DOMAIN StageList(y)'
              /\ execs'[y].at = "end" => execs'[y].pos.i \in DOMAIN StageList(y)'
  <2>1. CASE y = x
    <3>1. execs[x].at # "idle" => execs[x].run \in RunIds
        BY DEF ExecsAre
    <3>. QED BY <1>3, <1>4, <1>8, <1>9, <2>1, <3>1 DEF Begun
  <2>2. CASE y # x
    BY <1>4, <2>2 DEF ExecsAre, StageList, Place
  <2>. QED BY <2>1, <2>2
<1>11. ExecsAre'
  <2>1. execs' = [y \in Execs |-> execs'[y]]
    BY <1>1, <1>3
  <2>. QED BY <1>10, <2>1 DEF ExecsAre
<1>12. Cancels'
  <2>1. CASE AddCanceler(x)
    <3>1. execs'[x].run = execs[x].run /\ execs[x].run \in RunIds
      <4>1. g.at = "added" /\ execs[x].at # "idle"
        BY <1>1, <1>4, <2>1 DEF AddCanceler, ExecFields
      <4>. QED BY <1>3, <1>4, <4>1 DEF ExecsAre
    <3>2. /\ overwritten' = overwritten \cup ({cancelers[execs[x].run]} \ {NoExec})
          /\ cancelers' = [cancelers EXCEPT ![execs[x].run] = x]
        BY <2>1 DEF AddCanceler
    <3>3. cancelers' \in [RunIds -> Execs \cup {NoExec}]
        BY <3>1, <3>2 DEF Cancels
    <3>4. ASSUME NEW y \in Execs, execs'[y].at \in Executes \cup {"added"}, ~execs'[y].cancelled, y \notin overwritten'
          PROVE  cancelers'[execs'[y].run] = y
      <4>1. CASE y = x
        BY <3>1, <3>2, <4>1 DEF Cancels
      <4>2. CASE y # x
        <5>1. cancelers[execs[y].run] = y /\ execs'[y].run = execs[y].run
            BY <1>4, <3>2, <3>4, <4>2 DEF Cancels
        <5>2. execs[y].run # execs[x].run
            BY <3>2, <3>4, <5>1, ScorchAssumption
        <5>3. execs[y].run \in RunIds
            BY <1>4, <3>4, <4>2 DEF ExecsAre, Executes
        <5>. QED BY <3>2, <5>1, <5>2, <5>3 DEF Cancels
      <4>. QED BY <4>1, <4>2
    <3>. QED BY <3>3, <3>4 DEF Cancels
  <2>2. CASE Execute(x)
    <3>1. UNCHANGED <<cancelers, overwritten>> /\ execs[x].at = "added" /\ g.run = execs[x].run
      <4>1. g.at \in {"begin", "wrapup"} /\ execs[x].at = "added" /\ UNCHANGED <<cancelers, overwritten>>
        BY <1>1, <1>4, <2>2 DEF Execute, ExecFields
      <4>. QED BY <1>3, <4>1
    <3>. QED BY <1>4, <1>5, <3>1 DEF Cancels
  <2>3. CASE StartPipeline(x, r)
    <3>1. UNCHANGED <<cancelers, overwritten>>
        BY <2>3 DEF StartPipeline
    <3>2. g.at = "checked"
        BY <1>1, <1>4, <2>3 DEF StartPipeline, ExecFields
    <3>. QED BY <1>4, <1>5, <3>1, <3>2 DEF Cancels, Executes
  <2>. QED BY <2>1, <2>2, <2>3
<1>13. InTheBackground'
  <2>1. overwritten \subseteq overwritten'
    BY DEF StartPipeline, AddCanceler, Execute
  <2>2. ASSUME NEW b \in inBackground
        PROVE  /\ b.exec \in Execs /\ ~execs'[b.exec].cancelled
               /\ execs'[b.exec].at \in Executes \/ b.exec \in overwritten'
    BY <1>2, <1>4, <1>5, <2>1 DEF InTheBackground, Executes
  <2>. QED BY <1>6, <2>2 DEF InTheBackground
<1>14. AtTerminal'
  <2>1. ASSUME NEW y \in terminals PROVE execs'[y].cancelled \/ (execs'[y].at = "end" /\ Kind[Comp(y)'] = "break")
    <3>1. CASE y = x
        BY <1>2, <1>5, <3>1 DEF AtTerminal
    <3>2. CASE y # x
        BY <1>4, <3>2 DEF AtTerminal, Comp, StageList, Place
    <3>. QED BY <3>1, <3>2
  <2>. QED BY <1>6, <2>1 DEF AtTerminal
<1>15. ASSUME NEW y \in apart', execs'[y].at \in Executes, ~execs'[y].seen
       PROVE  /\ \A z \in Execs : z # y /\ execs'[z].at \in Executes => execs'[z].seen
              /\ status'.taps = execs'[y].taps
              /\ \A c : <<y, c>> \in hostTaps' <=> c \in execs'[y].taps
  <2>1. y \in apart /\ y \in Execs
    BY <1>7
  <2>2. CASE y = x
    <3>1. Execute(x) /\ ~execs[x].seen
        BY <1>1, <1>3, <1>4, <1>15, <2>2 DEF StartPipeline, AddCanceler, Execute, Executes, ExecFields
    <3>2. status'.taps = {} /\ \A z \in Execs : z # x => ~AtWork(z)
        BY <1>15, <2>2, <3>1 DEF Execute
    <3>. QED BY <1>4, <1>5, <1>6, <1>7, <2>2, <3>2 DEF AtWork, Executes
  <2>3. CASE y # x
    <3>1. AtWork(y) /\ execs[y].at \in Executes /\ ~execs[y].seen
        BY <1>4, <1>15, <2>1, <2>3 DEF AtWork, Executes
    <3>2. execs'[x].at \in Executes => execs'[x].seen
      <4>1. CASE Execute(x) /\ ~execs[x].seen
        BY <1>15, <2>1, <2>3, <3>1, <4>1 DEF Execute
      <4>2. CASE Execute(x) /\ execs[x].seen
        BY <1>3, <1>4, <4>2 DEF Execute, Executes
      <4>3. CASE ~Execute(x)
        BY <1>1, <1>3, <1>4, <4>3 DEF StartPipeline, AddCanceler, Executes, ExecFields
      <4>. QED BY <4>1, <4>2, <4>3
    <3>3. UNCHANGED status
        BY <1>15, <2>1, <2>3, <3>1 DEF Execute, StartPipeline, AddCanceler
    <3>. QED BY <1>4, <1>5, <1>6, <2>1, <2>3, <3>1, <3>2, <3>3 DEF Alone
  <2>. QED BY <2>2, <2>3
<1>16. Alone'
    BY <1>7, <1>15 DEF Alone
<1>17. TapsAre'
  <2>1. hostTaps' \subseteq Execs \X DOMAIN Kind /\ \A t \in hostTaps' : Kind[t[2]] = "tap"
    BY <1>6 DEF TapsAre
  <2>3. ASSUME NEW y \in Execs, execs'[y].at \in {"idle", "checked", "added"}
        PROVE  execs'[y].taps = {} /\ \A c : <<y, c>> \notin hostTaps'
    BY <1>4, <1>5, <1>6, <1>7, <2>3 DEF TapsAre
  <2>4. ASSUME NEW y \in apart', execs'[y].at = "done" /\ ~execs'[y].seen, NEW c, <<y, c>> \in hostTaps'
        PROVE  c \in execs'[y].kept
    BY <1>3, <1>4, <1>6, <1>7, <2>4 DEF TapsAre
  <2>. QED BY <2>1, <2>3, <2>4 DEF TapsAre
<1>. QED BY <1>11, <1>12, <1>13, <1>14, <1>16, <1>17

\* A cancel, of one run or of all: what is cancelled has nothing in the
\* background any more.
LEMMA CancelKeepsRuns ==
    ASSUME RunsInv, (\E r \in RunIds : CancelPipeline(r)) \/ StopExperiment
    PROVE  RunsInv' /\ \A x \in Execs : execs'[x].at = execs[x].at /\ execs'[x].run = execs[x].run
                                        /\ execs'[x].seen = execs[x].seen /\ execs'[x].pos = execs[x].pos
<1>. USE DEF RunsInv
<1>1. PICK hit \in SUBSET Execs :
        /\ \A x \in Execs : execs'[x] = IF x \in hit THEN [execs[x] EXCEPT !.cancelled = TRUE] ELSE execs[x]
        /\ execs' = [x \in Execs |-> execs'[x]]
        /\ inBackground' = {b \in inBackground : b.exec \notin hit}
        /\ cancelers' \in [RunIds -> Execs \cup {NoExec}]
        /\ \A r \in RunIds : cancelers'[r] = cancelers[r] \/ cancelers[r] \in hit \cup {NoExec}
  <2>1. CASE StopExperiment
    <3>. DEFINE hit == {cancelers[r] : r \in RunIds} \ {NoExec}
    <3>1. hit \in SUBSET Execs
        BY DEF Cancels
    <3>2. /\ cancelers' = [r \in RunIds |-> NoExec] /\ inBackground' = {b \in inBackground : b.exec \notin hit}
          /\ execs' = [x \in Execs |-> IF x \in hit THEN [execs[x] EXCEPT !.cancelled = TRUE] ELSE execs[x]]
        BY <2>1 DEF StopExperiment
    <3>3. \A r \in RunIds : cancelers[r] \in hit \cup {NoExec}
        OBVIOUS
    <3>. HIDE DEF hit
    <3>. QED BY <3>1, <3>2, <3>3
  <2>2. ASSUME NEW r \in RunIds, CancelPipeline(r)
        PROVE  \E hit \in SUBSET Execs :
            /\ \A x \in Execs : execs'[x] = IF x \in hit THEN [execs[x] EXCEPT !.cancelled = TRUE] ELSE execs[x]
            /\ execs' = [x \in Execs |-> execs'[x]]
            /\ inBackground' = {b \in inBackground : b.exec \notin hit}
            /\ cancelers' \in [RunIds -> Execs \cup {NoExec}]
            /\ \A k \in RunIds : cancelers'[k] = cancelers[k] \/ cancelers[k] \in hit \cup {NoExec}
    <3>1. cancelers[r] \in Execs
        BY <2>2 DEF CancelPipeline, Cancels
    <3>2. execs' = [execs EXCEPT ![cancelers[r]] = [execs[cancelers[r]] EXCEPT !.cancelled = TRUE]]
        BY <2>2 DEF CancelPipeline
    <3>3. /\ \A x \in Execs : execs'[x] = IF x \in {cancelers[r]} THEN [execs[x] EXCEPT !.cancelled = TRUE] ELSE execs[x]
          /\ execs' = [x \in Execs |-> execs'[x]]
        BY <3>1, <3>2 DEF ExecsAre
    <3>4. inBackground' = {b \in inBackground : b.exec \notin {cancelers[r]}}
        BY <2>2 DEF CancelPipeline, Outlive
    <3>5. /\ cancelers' \in [RunIds -> Execs \cup {NoExec}]
          /\ \A k \in RunIds : cancelers'[k] = cancelers[k] \/ cancelers[k] \in ({cancelers[r]} \cup {NoExec})
      <4>1. cancelers' = [cancelers EXCEPT ![r] = NoExec] /\ cancelers \in [RunIds -> Execs \cup {NoExec}]
        BY <2>2 DEF CancelPipeline, GetCanceler, Cancels
      <4>. QED BY <4>1
    <3>6. {cancelers[r]} \in SUBSET Execs
        BY <3>1
    <3>. QED BY <3>3, <3>4, <3>5, <3>6
  <2>. QED BY <2>1, <2>2
<1>2. UNCHANGED <<status, hostTaps, backgrounded, terminals, apart, overwritten>>
    BY DEF CancelPipeline, StopExperiment
<1>3. ASSUME NEW x \in Execs
      PROVE  /\ IsExec(execs'[x]) /\ execs'[x].at = execs[x].at /\ execs'[x].run = execs[x].run
             /\ execs'[x].seen = execs[x].seen /\ execs'[x].pos = execs[x].pos
             /\ execs'[x].taps = execs[x].taps /\ execs'[x].kept = execs[x].kept
             /\ x \in hit => execs'[x].cancelled
             /\ x \notin hit => execs'[x] = execs[x]
  <2>1. IsExec(execs[x]) /\ execs[x] = [k \in ExecFields |-> execs[x][k]]
    BY DEF ExecsAre, IsExec
  <2>. DEFINE g == [execs[x] EXCEPT !.cancelled = TRUE]
  <2>2. g = [k \in ExecFields |-> g[k]]
    BY <2>1 DEF ExecFields
  <2>3. /\ g.at = execs[x].at /\ g.run = execs[x].run /\ g.seen = execs[x].seen /\ g.pos = execs[x].pos
        /\ g.taps = execs[x].taps /\ g.kept = execs[x].kept /\ g.cancelled
    BY <2>1 DEF ExecFields
  <2>4. x \in hit => execs'[x] = g
    BY <1>1
  <2>5. x \notin hit => execs'[x] = execs[x]
    BY <1>1
  <2>. HIDE DEF g
  <2>6. IsExec(g)
    BY <2>1, <2>2, <2>3 DEF IsExec
  <2>. QED BY <2>1, <2>3, <2>4, <2>5, <2>6
<1>4. ExecsAre'
    BY <1>1, <1>3 DEF ExecsAre, StageList, Place
<1>5. Cancels'
  <2>1. ASSUME NEW x \in Execs, execs'[x].at \in Executes \cup {"added"}, ~execs'[x].cancelled, x \notin overwritten'
        PROVE  cancelers'[execs'[x].run] = x
    <3>1. x \notin hit /\ execs'[x] = execs[x]
        BY <1>3, <2>1
    <3>2. cancelers[execs[x].run] = x
        BY <1>2, <2>1, <3>1 DEF Cancels
    <3>3. execs[x].run \in RunIds
        BY <2>1, <3>1 DEF ExecsAre, Executes
    <3>. QED BY <1>1, <3>1, <3>2, <3>3, ScorchAssumption
  <2>. QED BY <1>1, <2>1 DEF Cancels
<1>6. InTheBackground'
    BY <1>1, <1>2, <1>3 DEF InTheBackground
<1>7. AtTerminal'
  <2>1. ASSUME NEW y \in terminals PROVE execs'[y].cancelled \/ (execs'[y].at = "end" /\ Kind[Comp(y)'] = "break")
    BY <1>3 DEF AtTerminal, Comp, StageList, Place
  <2>. QED BY <1>2, <2>1 DEF AtTerminal
<1>8. Alone'
    BY <1>2, <1>3 DEF Alone
<1>9. TapsAre'
  <2>1. hostTaps' \subseteq Execs \X DOMAIN Kind /\ \A t \in hostTaps' : Kind[t[2]] = "tap"
    BY <1>2 DEF TapsAre
  <2>3. ASSUME NEW y \in Execs, execs'[y].at \in {"idle", "checked", "added"}
        PROVE  execs'[y].taps = {} /\ \A c : <<y, c>> \notin hostTaps'
    BY <1>2, <1>3, <2>3 DEF TapsAre
  <2>4. ASSUME NEW y \in apart', execs'[y].at = "done" /\ ~execs'[y].seen, NEW c, <<y, c>> \in hostTaps'
        PROVE  c \in execs'[y].kept
    <3>1. y \in apart /\ y \in Execs
        BY <1>2 DEF Alone
    <3>. QED BY <1>2, <1>3, <2>4, <3>1 DEF TapsAre
  <2>. QED BY <2>1, <2>3, <2>4 DEF TapsAre
<1>. QED BY <1>3, <1>4, <1>5, <1>6, <1>7, <1>8, <1>9

\* The end of a run: what it recorded is deleted, and its context ends.
LEMMA WrapsUpKeepsRuns ==
    ASSUME RunsInv, NEW x \in Execs, WrapsUp(x)
    PROVE  /\ RunsInv'
           /\ \A y \in Execs : y # x => execs'[y].at = execs[y].at
           /\ execs'[x].at = "done"
           /\ \A y \in Execs : execs'[y].run = execs[y].run /\ execs'[y].seen = execs[y].seen /\ execs'[y].pos = execs[y].pos
<1>. USE DEF RunsInv
<1>. DEFINE r == execs[x].run
<1>1. execs[x].at = "wrapup" /\ x \in Execs /\ r \in RunIds
    BY DEF WrapsUp, ExecsAre
<1>2. PICK kept \in IF execs[x].seen THEN {{}} ELSE SUBSET status.taps :
        /\ hostTaps' = IF execs[x].seen THEN hostTaps ELSE hostTaps \ {<<x, c>> : c \in status.taps \ kept}
        /\ execs' = [y \in Execs |->
                LET e == IF y = cancelers[r] THEN [execs[y] EXCEPT !.cancelled = TRUE] ELSE execs[y]
                IN  IF y = x THEN Ended(e, kept) ELSE e]
    BY DEF WrapsUp
<1>3. /\ cancelers' = [cancelers EXCEPT ![r] = NoExec]
      /\ inBackground' = {b \in inBackground : b.exec # cancelers[r]}
      /\ status' = IF execs[x].seen THEN status ELSE [running |-> FALSE, taps |-> {}]
      /\ UNCHANGED <<backgrounded, terminals, apart, overwritten>>
    BY DEF WrapsUp, GetCanceler, Outlive
<1>4. ASSUME NEW y \in Execs
      PROVE  /\ IsExec(execs'[y]) /\ execs'[y].run = execs[y].run
             /\ execs'[y].seen = execs[y].seen /\ execs'[y].pos = execs[y].pos
             /\ execs'[y].cancelled <=> (execs[y].cancelled \/ y = cancelers[r])
             /\ execs'[y].at = IF y = x THEN "done" ELSE execs[y].at
             /\ execs'[y].taps = IF y = x THEN {} ELSE execs[y].taps
             /\ execs'[y].kept = IF y = x THEN kept ELSE execs[y].kept
  <2>1. IsExec(execs[y]) /\ execs[y] = [k \in ExecFields |-> execs[y][k]]
    BY DEF ExecsAre, IsExec
  <2>. DEFINE e == IF y = cancelers[r] THEN [execs[y] EXCEPT !.cancelled = TRUE] ELSE execs[y]
              g == IF y = x THEN Ended(e, kept) ELSE e
  <2>2. execs'[y] = g
    BY <1>2
  <2>3. /\ e = [k \in ExecFields |-> e[k]]
        /\ e.run = execs[y].run /\ e.seen = execs[y].seen /\ e.pos = execs[y].pos /\ e.at = execs[y].at
        /\ e.taps = execs[y].taps /\ e.kept = execs[y].kept
        /\ e.cancelled <=> (execs[y].cancelled \/ y = cancelers[r])
    BY <2>1 DEF ExecFields
  <2>. HIDE DEF e
  <2>4. g = [k \in ExecFields |-> g[k]]
    BY <2>3 DEF ExecFields, Ended
  <2>5. /\ g.run = execs[y].run /\ g.seen = execs[y].seen /\ g.pos = execs[y].pos
        /\ g.at = IF y = x THEN "done" ELSE execs[y].at
        /\ g.taps = IF y = x THEN {} ELSE execs[y].taps
        /\ g.kept = IF y = x THEN kept ELSE execs[y].kept
        /\ g.cancelled <=> (execs[y].cancelled \/ y = cancelers[r])
    BY <2>3 DEF ExecFields, Ended
  <2>. HIDE DEF g
  <2>6. IsExec(g)
    BY <2>1, <2>4, <2>5 DEF IsExec, ExecPlaces
  <2>. QED BY <2>2, <2>5, <2>6
<1>5. execs' = [y \in Execs |-> execs'[y]]
    BY <1>2
<1>. HIDE DEF r
<1>6. ExecsAre'
  <2>1. ASSUME NEW y \in Execs
        PROVE  /\ IsExec(execs'[y])
               /\ execs'[y].at # "idle" => execs'[y].run \in RunIds
               /\ execs'[y].at \in Begun => ~execs'[y].seen
               /\ execs'[y].at \in {"idle", "checked", "added"} => execs'[y].pos = First(1, "configure")
               /\ execs'[y].at \in Begun => execs'[y].pos.i = 1 \/ execs'[y].pos.i \in DOMAIN StageList(y)'
               /\ execs'[y].at = "end" => execs'[y].pos.i \in DOMAIN StageList(y)'
    <3>1. CASE y = x
        BY <1>1, <1>4, <3>1 DEF Begun, r
    <3>2. CASE y # x
        BY <1>4, <3>2 DEF ExecsAre, StageList, Place
    <3>. QED BY <3>1, <3>2
  <2>. QED BY <1>5, <2>1 DEF ExecsAre
<1>7. Cancels'
  <2>1. ASSUME NEW y \in Execs, execs'[y].at \in Executes \cup {"added"}, ~execs'[y].cancelled, y \notin overwritten'
        PROVE  cancelers'[execs'[y].run] = y
    <3>1. y # x /\ ~execs[y].cancelled /\ y # cancelers[r] /\ execs[y].at \in Executes \cup {"added"}
        BY <1>4, <2>1 DEF Executes
    <3>2. cancelers[execs[y].run] = y
        BY <1>3, <2>1, <3>1 DEF Cancels
    <3>3. execs[y].run \in RunIds
        BY <3>1 DEF ExecsAre, Executes
    <3>. QED BY <1>1, <1>3, <1>4, <3>1, <3>2, <3>3 DEF Cancels
  <2>2. cancelers' \in [RunIds -> Execs \cup {NoExec}]
    BY <1>3 DEF Cancels
  <2>. QED BY <2>1, <2>2 DEF Cancels
<1>8. InTheBackground'
  <2>1. ASSUME NEW b \in inBackground'
        PROVE  /\ b.exec \in Execs /\ ~execs'[b.exec].cancelled
               /\ execs'[b.exec].at \in Executes \/ b.exec \in overwritten'
               /\ b.name \in Background /\ b.stage \in {"configure", "start"}
    <3>1. /\ b \in inBackground /\ b.exec # cancelers[r] /\ b.exec \in Execs /\ ~execs[b.exec].cancelled
          /\ b.name \in Background /\ b.stage \in {"configure", "start"}
          /\ execs[b.exec].at \in Executes \/ b.exec \in overwritten
        BY <1>3 DEF InTheBackground
    <3>2. b.exec = x => b.exec \in overwritten
        BY <1>1, <3>1 DEF Cancels, Executes, r
    <3>. QED BY <1>3, <1>4, <3>1, <3>2
  <2>. QED BY <1>3, <2>1 DEF InTheBackground
<1>9. AtTerminal'
  <2>1. ASSUME NEW y \in terminals PROVE execs'[y].cancelled \/ (execs'[y].at = "end" /\ Kind[Comp(y)'] = "break")
    <3>1. Comp(y)' = Comp(y) /\ y \in Execs
        BY <1>4 DEF AtTerminal, Comp, StageList, Place
    <3>2. CASE execs[y].cancelled
        BY <1>4, <3>1, <3>2
    <3>3. CASE ~execs[y].cancelled
        BY <1>1, <1>4, <3>1, <3>3 DEF AtTerminal
    <3>. QED BY <3>2, <3>3
  <2>. QED BY <1>3, <2>1 DEF AtTerminal
<1>10. ASSUME NEW y \in apart', execs'[y].at \in Executes, ~execs'[y].seen
       PROVE  /\ \A z \in Execs : z # y /\ execs'[z].at \in Executes => execs'[z].seen
              /\ status'.taps = execs'[y].taps
              /\ \A c : <<y, c>> \in hostTaps' <=> c \in execs'[y].taps
  <2>1. y \in apart /\ y \in Execs
    BY <1>3 DEF Alone
  <2>2. y # x /\ execs[y].at \in Executes /\ ~execs[y].seen
    BY <1>4, <1>10, <2>1 DEF Executes
  <2>3. execs[x].seen
    BY <1>1, <2>1, <2>2 DEF Alone, Executes
  <2>4. UNCHANGED <<status, hostTaps>>
    BY <1>2, <1>3, <2>3
  <2>5. \A z \in Execs : execs'[z].at \in Executes => execs[z].at \in Executes
    BY <1>4 DEF Executes
  <2>. QED BY <1>4, <2>1, <2>2, <2>4, <2>5 DEF Alone
<1>11. Alone'
    BY <1>3, <1>10 DEF Alone
<1>12. TapsAre'
  <2>1. hostTaps' \subseteq hostTaps
    BY <1>2
  <2>2. hostTaps' \subseteq Execs \X DOMAIN Kind /\ \A t \in hostTaps' : Kind[t[2]] = "tap"
    BY <2>1 DEF TapsAre
  <2>3. ASSUME NEW y \in Execs, execs'[y].at \in {"idle", "checked", "added"}
        PROVE  execs'[y].taps = {} /\ \A c : <<y, c>> \notin hostTaps'
    BY <1>4, <2>1, <2>3 DEF TapsAre
  <2>4. ASSUME NEW y \in apart', execs'[y].at = "done" /\ ~execs'[y].seen, NEW c, <<y, c>> \in hostTaps'
        PROVE  c \in execs'[y].kept
    <3>1. y \in apart /\ y \in Execs
        BY <1>3 DEF Alone
    <3>2. CASE y = x
      <4>1. ~execs[x].seen /\ execs'[x].kept = kept
        BY <1>4, <2>4, <3>2
      <4>2. status.taps = execs[x].taps /\ c \in execs[x].taps
        BY <1>1, <2>1, <2>4, <3>1, <3>2, <4>1 DEF Alone, Executes
      <4>. QED BY <1>2, <2>4, <3>2, <4>1, <4>2
    <3>3. CASE y # x
        BY <1>4, <2>1, <2>4, <3>1, <3>3 DEF TapsAre
    <3>. QED BY <3>2, <3>3
  <2>. QED BY <2>2, <2>3, <2>4 DEF TapsAre
<1>. QED BY <1>4, <1>6, <1>7, <1>8, <1>9, <1>11, <1>12

LEMMA TerminalKeepsRuns ==
    ASSUME RunsInv, NEW x \in Execs, KillTerminal(x)
    PROVE  RunsInv'
<1>. USE DEF RunsInv
<1>1. /\ terminals' = terminals \ {x}
      /\ UNCHANGED <<execs, cancelers, status, hostTaps, inBackground, backgrounded, apart, overwritten>>
    BY DEF KillTerminal
<1>2. ExecsAre' /\ Cancels' /\ InTheBackground'
    BY <1>1 DEF ExecsAre, Cancels, InTheBackground, StageList, Place
<1>3. AtTerminal'
    BY <1>1 DEF AtTerminal, Comp, StageList, Place
<1>4. Alone' /\ TapsAre'
    BY <1>1 DEF Alone, TapsAre
<1>. QED BY <1>2, <1>3, <1>4

LEMMA DeleteKeepsRuns ==
    ASSUME RunsInv, DeletePipeline
    PROVE  RunsInv'
<1>. USE DEF RunsInv
<1>1. /\ apart' \subseteq apart
      /\ UNCHANGED <<execs, cancelers, status, hostTaps, inBackground, backgrounded, terminals, overwritten>>
    BY DEF DeletePipeline
<1>2. ExecsAre' /\ Cancels' /\ InTheBackground'
    BY <1>1 DEF ExecsAre, Cancels, InTheBackground, StageList, Place
<1>3. AtTerminal'
    BY <1>1 DEF AtTerminal, Comp, StageList, Place
<1>4. Alone' /\ TapsAre'
    BY <1>1 DEF Alone, TapsAre
<1>. QED BY <1>2, <1>3, <1>4

LEMMA InitRuns == ScorchInit => RunsInv
<1>. SUFFICES ASSUME ScorchInit PROVE RunsInv
    OBVIOUS
<1>1. execs = [x \in Execs |->
            [at |-> "idle", run |-> 0, seen |-> FALSE, taps |-> {}, cancelled |-> FALSE, failed |-> {},
             short |-> {}, pos |-> First(1, "configure"), kept |-> {}]]
    BY DEF ScorchInit
<1>2. First(1, "configure") \in Position
  <2>1. 1 \in Nesting
    BY ScorchAssumption
  <2>. QED BY <2>1 DEF First, Position, CompStages
<1>3. ASSUME NEW x \in Execs
      PROVE  /\ IsExec(execs[x]) /\ execs[x].at = "idle" /\ execs[x].pos = First(1, "configure")
             /\ execs[x].taps = {}
    BY <1>1, <1>2 DEF IsExec, ExecFields, ExecPlaces
<1>4. ExecsAre
    BY <1>1, <1>3 DEF ExecsAre, Begun
<1>5. Cancels /\ InTheBackground /\ AtTerminal
    BY <1>3 DEF ScorchInit, Cancels, InTheBackground, AtTerminal, Executes
<1>6. Alone /\ TapsAre
    BY <1>3 DEF ScorchInit, Alone, TapsAre, Executes
<1>. QED BY <1>4, <1>5, <1>6 DEF RunsInv

LEMMA NextRuns == RunsInv /\ [ScorchNext]_scorchVars => RunsInv'
<1>. SUFFICES ASSUME RunsInv, [ScorchNext]_scorchVars PROVE RunsInv'
    OBVIOUS
<1>1. CASE DeletePipeline
    BY <1>1, DeleteKeepsRuns
<1>2. CASE StopExperiment \/ \E r \in RunIds : CancelPipeline(r)
    BY <1>2, CancelKeepsRuns
<1>3. ASSUME NEW x \in Execs, NEW r \in RunIds, StartPipeline(x, r) PROVE RunsInv'
    BY <1>3, RequestKeepsRuns
<1>4. ASSUME NEW x \in Execs, AddCanceler(x) \/ Execute(x) PROVE RunsInv'
  <2>1. execs[x].run \in RunIds
    BY <1>4 DEF AddCanceler, Execute, RunsInv, ExecsAre
  <2>. QED BY <1>4, <2>1, RequestKeepsRuns
<1>5. ASSUME NEW x \in Execs, WrapsUp(x) PROVE RunsInv'
    BY <1>5, WrapsUpKeepsRuns
<1>6. ASSUME NEW x \in Execs, ExitTerminal(x) \/ TerminalCancelled(x) PROVE RunsInv'
    BY <1>6, TerminalKeepsRuns DEF ExitTerminal, TerminalCancelled
<1>7. ASSUME NEW x \in Execs, BeginComponent(x) PROVE RunsInv'
    BY <1>7, BeginComponentKeepsRuns
<1>8. ASSUME NEW x \in Execs, GoesToBackground(x) PROVE RunsInv'
    BY <1>8, BackgroundKeepsRuns
<1>9. ASSUME NEW x \in Execs,
             EmptyStage(x) \/ RunsPause(x) \/ RunsUser(x) \/ RunsBreak(x) \/ StartsTap(x) \/ DeletesTap(x)
      PROVE  RunsInv'
    BY <1>9, ExecutorKeepsRuns
<1>10. CASE UNCHANGED scorchVars
  <2>1. UNCHANGED <<execs, cancelers, status, hostTaps, inBackground, backgrounded, terminals, apart, overwritten>>
    BY <1>10 DEF scorchVars
  <2>2. ExecsAre' /\ Cancels' /\ InTheBackground'
    BY <2>1 DEF RunsInv, ExecsAre, Cancels, InTheBackground, StageList, Place
  <2>3. AtTerminal'
    BY <2>1 DEF RunsInv, AtTerminal, Comp, StageList, Place
  <2>4. Alone' /\ TapsAre'
    BY <2>1 DEF RunsInv, Alone, TapsAre
  <2>. QED BY <2>2, <2>3, <2>4 DEF RunsInv
<1>11. CASE ScorchNext
    BY <1>1, <1>2, <1>3, <1>4, <1>5, <1>6, <1>7, <1>8, <1>9, <1>11 DEF ScorchNext
<1>. QED BY <1>10, <1>11

StageNames == CompStages \cup {"loop", "done"}
StageStatus == {"unknown", "running", "unstable", "success", "failure"}
NodeStatus == {"unknown", "running", "unstable", "background", "success", "failure"}

\* The stages, and the nodes, of all pipelines.
StagesFit(f) ==
    /\ f \in [Pipes -> [StageNames -> StageStatus]]
    /\ \A p \in Pipes : f[p].done \in {"unknown", "running", "success"}
NodesFit(n) ==
    /\ n = [p \in Pipes |-> n[p]]
    /\ \A p \in Pipes :
        /\ n[p] = [s \in CompStages |-> n[p][s]]
        /\ \A s \in CompStages : n[p][s] \in [InStage(p[2], s) -> NodeStatus]

PipesAre == StagesFit(stages) /\ NodesFit(nodes)

\* The executors of a run.
Ran(r) == {x \in Execs : execs[x].run = r /\ execs[x].at \in Executes \cup {"done"} /\ ~execs[x].seen}

\* Where the executor e shows stage s of loop l as running.
Shows(e, l, s) ==
    \/ e.at \in Begun /\ l = e.pos.loop /\ s = e.pos.stage
    \/ e.at \in Begun /\ l < e.pos.loop /\ s = "loop"
    \/ e.at = "wrapup" /\ l = 1 /\ s = "done"

Lit == {"running", "unstable"}

\* What the components of a stage before the one at hand became; one in the
\* background that is the last does not leave its stage as running.
Became(s) == IF FailFast(s) THEN {"success", "background"} ELSE Over
Behind(e, n, f) ==
    LET l == e.pos.loop
        s == e.pos.stage
        i == e.pos.i
        c == Plan[l][s][i]
    IN  e.at \in Begun =>
            /\ \A j \in 1 .. (i - 1) :
                \/ n[<<e.run, l>>][s][Plan[l][s][j]] \in Became(s)
                \/ e.at = "end" /\ Plan[l][s][j] = c
            /\ e.at = "end" /\ c \in Background /\ FailFast(s) =>
                /\ n[<<e.run, l>>][s][c] = "background"
                /\ i = Len(Plan[l][s]) => f[<<e.run, l>>][s] \notin Lit

PipesFollow ==
    \A r \in RunIds : Ran(r) \subseteq apart =>
        /\ \A l \in Nesting, s \in StageNames : stages[<<r, l>>][s] \in Lit =>
            \E x \in Ran(r) : Shows(execs[x], l, s)
        /\ \A x \in Ran(r) : Behind(execs[x], nodes, stages)

ScorchInv == RunsInv /\ PipesAre /\ PipesFollow

(* The operators of the pipeline: what each leaves as it was.               *)

LEMMA SetStageIs ==
    ASSUME NEW f, StagesFit(f), NEW r \in RunIds, NEW l \in Nesting, NEW s \in StageNames, NEW st \in StageStatus,
           s = "done" => st \in {"running", "success"}
    PROVE  /\ StagesFit(SetStage(f, r, l, s, st))
           /\ SetStage(f, r, l, s, st)[<<r, l>>][s] = st
           /\ \A k \in RunIds, m \in Nesting, z \in StageNames : k # r \/ m # l \/ z # s =>
                SetStage(f, r, l, s, st)[<<k, m>>][z] = f[<<k, m>>][z]
<1>. DEFINE p == <<r, l>>
            g == SetStage(f, r, l, s, st)
<1>1. p \in Pipes /\ f \in [Pipes -> [StageNames -> StageStatus]]
    BY DEF Pipes, StagesFit
<1>2. g = [f EXCEPT ![p] = [f[p] EXCEPT ![s] = st]]
    BY DEF SetStage
<1>3. [f[p] EXCEPT ![s] = st] \in [StageNames -> StageStatus]
    BY <1>1
<1>4. g \in [Pipes -> [StageNames -> StageStatus]]
    BY <1>1, <1>2, <1>3
<1>5. g[p] = [f[p] EXCEPT ![s] = st] /\ \A q \in Pipes : q # p => g[q] = f[q]
    BY <1>1, <1>2
<1>6. g[p][s] = st /\ \A z \in StageNames : z # s => g[p][z] = f[p][z]
    BY <1>1, <1>5
<1>7. \A q \in Pipes : g[q].done \in {"unknown", "running", "success"}
  <2>1. "done" \in StageNames
    BY DEF StageNames
  <2>. QED BY <1>5, <1>6, <2>1 DEF StagesFit
<1>. HIDE DEF g
<1>8. ASSUME NEW k \in RunIds, NEW m \in Nesting, NEW z \in StageNames, k # r \/ m # l \/ z # s
      PROVE  g[<<k, m>>][z] = f[<<k, m>>][z]
  <2>1. <<k, m>> \in Pipes
    BY DEF Pipes
  <2>2. CASE <<k, m>> = p
    BY <1>6, <1>8, <2>2
  <2>3. CASE <<k, m>> # p
    BY <1>5, <2>1, <2>3
  <2>. QED BY <2>2, <2>3
<1>9. StagesFit(g)
    BY <1>4, <1>7 DEF StagesFit
<1>. QED BY <1>6, <1>8, <1>9 DEF g

\* What StagesUpdated makes of the stages f, and NodesUpdated of the nodes n.
UpdatesStages(f, u, n, r, l, s, c) ==
    /\ StagesFit(u)
    /\ c \in InStage(l, s) => u[<<r, l>>][s] = StageShown(s, n[<<r, l>>][s], f[<<r, l>>][s], c)
    /\ c \notin InStage(l, s) => u[<<r, l>>][s] = f[<<r, l>>][s]
    /\ \A k \in RunIds, m \in Nesting, z \in StageNames :
        \/ u[<<k, m>>][z] = f[<<k, m>>][z]
        \/ k = r /\ m = l /\ z = s
        \/ k = r /\ m < l /\ z = "loop"
UpdatesNodes(n, u, r, l, s, c, st) ==
    /\ NodesFit(u)
    /\ \A k \in RunIds, m \in Nesting, z \in CompStages : k # r \/ m # l \/ z # s => u[<<k, m>>][z] = n[<<k, m>>][z]
    /\ \A d \in InStage(l, s) : d # c => u[<<r, l>>][s][d] = n[<<r, l>>][s][d]
    /\ c \in InStage(l, s) => u[<<r, l>>][s][c] = IF Kind[c] = "break" /\ st = "running" THEN "unstable" ELSE st

LEMMA StageShownIs ==
    ASSUME NEW s, NEW n, NEW was \in StageStatus, NEW c
    PROVE  StageShown(s, n, was, c) \in StageStatus
BY DEF StageShown, StageStatus

LEMMA StagesUpdatedIs ==
    ASSUME NEW f, StagesFit(f), NEW n, NEW r \in RunIds, NEW l \in Nesting, NEW s \in CompStages, NEW c, NEW st
    PROVE  UpdatesStages(f, StagesUpdated(f, n, r, l, s, c, st), n, r, l, s, c)
<1>. DEFINE p == <<r, l>>
            g == StagesUpdated(f, n, r, l, s, c, st)
            shown == [f[p] EXCEPT ![s] = StageShown(s, n[p][s], f[p][s], c)]
            Around(q) == [f[q] EXCEPT !.loop = IF st = "running" THEN "unstable" ELSE "running"]
<1>1. p \in Pipes /\ f \in [Pipes -> [StageNames -> StageStatus]] /\ s \in StageNames /\ s # "done" /\ s # "loop"
    BY DEF Pipes, StagesFit, StageNames, CompStages
<1>2. g = [q \in Pipes |->
            IF q = p /\ c \in InStage(l, s) THEN shown
            ELSE IF q[1] = r /\ q[2] < l /\ Kind[c] = "break" THEN Around(q) ELSE f[q]]
    BY DEF StagesUpdated
<1>3. shown \in [StageNames -> StageStatus] /\ shown[s] = StageShown(s, n[p][s], f[p][s], c)
      /\ \A z \in StageNames : z # s => shown[z] = f[p][z]
  <2>1. f[p] \in [StageNames -> StageStatus] /\ f[p][s] \in StageStatus
    BY <1>1
  <2>2. StageShown(s, n[p][s], f[p][s], c) \in StageStatus
    BY <2>1, StageShownIs
  <2>. QED BY <1>1, <2>1, <2>2
<1>4. ASSUME NEW q \in Pipes
      PROVE  /\ Around(q) \in [StageNames -> StageStatus]
             /\ \A z \in StageNames : z # "loop" => Around(q)[z] = f[q][z]
  <2>1. f[q] \in [StageNames -> StageStatus] /\ "loop" \in StageNames
    BY <1>1 DEF StageNames
  <2>2. "unstable" \in StageStatus /\ "running" \in StageStatus
    BY DEF StageStatus
  <2>. QED BY <2>1, <2>2
<1>. HIDE DEF shown, Around
<1>5. ASSUME NEW q \in Pipes
      PROVE  \/ g[q] = shown /\ q = p /\ c \in InStage(l, s)
             \/ g[q] = Around(q) /\ q[1] = r /\ q[2] < l
             \/ g[q] = f[q] /\ ~(q = p /\ c \in InStage(l, s))
    BY <1>2
<1>6. g \in [Pipes -> [StageNames -> StageStatus]]
  <2>1. \A q \in Pipes : g[q] \in [StageNames -> StageStatus]
    BY <1>1, <1>3, <1>4, <1>5
  <2>. QED BY <1>2, <2>1
<1>. HIDE DEF g
<1>7. \A q \in Pipes : g[q].done \in {"unknown", "running", "success"}
  <2>1. "done" \in StageNames
    BY DEF StageNames
  <2>2. \A q \in Pipes : g[q].done = f[q].done
    BY <1>1, <1>3, <1>4, <1>5, <2>1
  <2>. QED BY <2>2 DEF StagesFit
<1>8. ASSUME NEW k \in RunIds, NEW m \in Nesting, NEW z \in StageNames
      PROVE  \/ g[<<k, m>>][z] = f[<<k, m>>][z]
             \/ k = r /\ m = l /\ z = s
             \/ k = r /\ m < l /\ z = "loop"
  <2>1. <<k, m>> \in Pipes /\ <<k, m>>[1] = k /\ <<k, m>>[2] = m
    BY DEF Pipes
  <2>. QED BY <1>3, <1>4, <1>5, <2>1
<1>9. c \in InStage(l, s) => g[p][s] = StageShown(s, n[p][s], f[p][s], c)
  <2>1. p[1] = r /\ p[2] = l /\ l \in Int
    BY ScorchAssumption
  <2>. QED BY <1>1, <1>3, <1>5, <2>1
<1>10. c \notin InStage(l, s) => g[p][s] = f[p][s]
  <2>1. p[1] = r /\ p[2] = l /\ l \in Int
    BY ScorchAssumption
  <2>. QED BY <1>1, <1>3, <1>5, <2>1
<1>11. StagesFit(g)
    BY <1>6, <1>7 DEF StagesFit
<1>. QED BY <1>8, <1>9, <1>10, <1>11 DEF g, UpdatesStages

LEMMA NodesUpdatedIs ==
    ASSUME NEW n, NodesFit(n), NEW r \in RunIds, NEW l \in Nesting, NEW s \in CompStages, NEW c,
           NEW st \in {"running", "background", "success", "failure"}
    PROVE  UpdatesNodes(n, NodesUpdated(n, r, l, s, c, st), r, l, s, c, st)
<1>. DEFINE p == <<r, l>>
            v == IF Kind[c] = "break" /\ st = "running" THEN "unstable" ELSE st
            g == NodesUpdated(n, r, l, s, c, st)
<1>1. p \in Pipes /\ n = [q \in Pipes |-> n[q]] /\ p[2] = l
    BY DEF Pipes, NodesFit
<1>2. CASE c \notin InStage(l, s)
    BY <1>2 DEF NodesUpdated, UpdatesNodes
<1>3. CASE c \in InStage(l, s)
  <2>1. g = [n EXCEPT ![p] = [n[p] EXCEPT ![s] = [n[p][s] EXCEPT ![c] = v]]]
    BY <1>3 DEF NodesUpdated
  <2>2. v \in NodeStatus
    BY DEF NodeStatus
  <2>. HIDE DEF v
  <2>3. n[p][s] \in [InStage(l, s) -> NodeStatus] /\ n[p] = [z \in CompStages |-> n[p][z]]
    BY <1>1 DEF NodesFit
  <2>. DEFINE stage == [n[p][s] EXCEPT ![c] = v]
              pipe == [n[p] EXCEPT ![s] = stage]
  <2>4. /\ stage \in [InStage(l, s) -> NodeStatus] /\ stage[c] = v
        /\ \A d \in InStage(l, s) : d # c => stage[d] = n[p][s][d]
    BY <1>3, <2>2, <2>3
  <2>. HIDE DEF stage
  <2>5. /\ pipe = [z \in CompStages |-> pipe[z]] /\ pipe[s] = stage
        /\ \A z \in CompStages : z # s => pipe[z] = n[p][z]
    BY <2>3
  <2>6. g = [n EXCEPT ![p] = pipe]
    BY <2>1 DEF stage
  <2>. HIDE DEF pipe, g
  <2>7. g = [q \in Pipes |-> g[q]] /\ g[p] = pipe /\ \A q \in Pipes : q # p => g[q] = n[q]
    BY <1>1, <2>6
  <2>8. NodesFit(g)
    <3>1. ASSUME NEW q \in Pipes
          PROVE  /\ g[q] = [z \in CompStages |-> g[q][z]]
                 /\ \A z \in CompStages : g[q][z] \in [InStage(q[2], z) -> NodeStatus]
      <4>1. CASE q = p
        <5>1. g[q] = [z \in CompStages |-> g[q][z]]
            BY <2>5, <2>7, <4>1
        <5>2. \A z \in CompStages : g[q][z] \in [InStage(l, z) -> NodeStatus]
            BY <1>1, <2>4, <2>5, <2>7, <4>1 DEF NodesFit
        <5>. QED BY <1>1, <4>1, <5>1, <5>2
      <4>2. CASE q # p
        BY <2>7, <4>2 DEF NodesFit
      <4>. QED BY <4>1, <4>2
    <3>. QED BY <2>7, <3>1 DEF NodesFit
  <2>9. ASSUME NEW k \in RunIds, NEW m \in Nesting, NEW z \in CompStages, k # r \/ m # l \/ z # s
        PROVE  g[<<k, m>>][z] = n[<<k, m>>][z]
    <3>1. <<k, m>> \in Pipes
        BY DEF Pipes
    <3>. QED BY <2>5, <2>7, <2>9, <3>1
  <2>. QED BY <1>3, <2>4, <2>5, <2>7, <2>8, <2>9 DEF g, v, UpdatesNodes
<1>. QED BY <1>2, <1>3

\* The stages after a stage: what they are, and that the rest stays.
LEMMA StagesAfterIs ==
    ASSUME NEW f, StagesFit(f), NEW r \in RunIds, NEW l \in Nesting, NEW s \in CompStages, NEW failed, NEW short
    PROVE  /\ StagesFit(StagesAfter(f, r, l, s, failed, short))
           /\ \A k \in RunIds, m \in Nesting, z \in StageNames :
                \/ StagesAfter(f, r, l, s, failed, short)[<<k, m>>][z] = f[<<k, m>>][z]
                \/ k = r /\ z = "loop" /\ m = l /\ s = "start" /\ l \notin short /\ l < Inmost
                \/ k = r /\ StagesAfter(f, r, l, s, failed, short)[<<k, m>>][z] \in Over
           /\ s = "cleanup" /\ l > 1 => StagesAfter(f, r, l, s, failed, short)[<<r, l - 1>>]["loop"] \in Over
<1>. DEFINE g == StagesAfter(f, r, l, s, failed, short)
<1>1. l \in 1 .. Inmost /\ Inmost \in Nat \ {0} /\ Nesting = 1 .. Inmost
    BY ScorchAssumption
<1>2. /\ "loop" \in StageNames /\ "done" \in StageNames
      /\ "running" \in StageStatus /\ "success" \in StageStatus /\ "failure" \in StageStatus
    BY DEF StageNames, StageStatus
<1>3. CASE s = "start" /\ l \notin short /\ l < Inmost
  <2>1. g = SetStage(f, r, l, "loop", "running")
    BY <1>3 DEF StagesAfter
  <2>2. /\ StagesFit(SetStage(f, r, l, "loop", "running"))
        /\ SetStage(f, r, l, "loop", "running")[<<r, l>>]["loop"] = "running"
        /\ \A k \in RunIds, m \in Nesting, z \in StageNames : k # r \/ m # l \/ z # "loop" =>
                SetStage(f, r, l, "loop", "running")[<<k, m>>][z] = f[<<k, m>>][z]
    BY <1>2, SetStageIs
  <2>. HIDE DEF g
  <2>3. /\ StagesFit(g)
        /\ \A k \in RunIds, m \in Nesting, z \in StageNames : k # r \/ m # l \/ z # "loop" => g[<<k, m>>][z] = f[<<k, m>>][z]
    BY <2>1, <2>2
  <2>. QED BY <1>3, <2>3 DEF g
<1>4. CASE s = "cleanup" /\ l > 1
  <2>. DEFINE h == IF l \in short THEN f ELSE SetStage(f, r, l, "done", "success")
              v == IF l \in failed THEN "failure" ELSE "success"
  <2>1. g = SetStage(h, r, l - 1, "loop", v)
    BY <1>4 DEF StagesAfter
  <2>2. /\ StagesFit(h)
        /\ \A k \in RunIds, m \in Nesting, z \in StageNames :
            h[<<k, m>>][z] = f[<<k, m>>][z] \/ (k = r /\ h[<<k, m>>][z] \in Over)
    <3>1. CASE l \in short
        BY <3>1
    <3>2. CASE l \notin short
      <4>1. /\ StagesFit(SetStage(f, r, l, "done", "success"))
            /\ SetStage(f, r, l, "done", "success")[<<r, l>>]["done"] = "success"
            /\ \A k \in RunIds, m \in Nesting, z \in StageNames : k # r \/ m # l \/ z # "done" =>
                    SetStage(f, r, l, "done", "success")[<<k, m>>][z] = f[<<k, m>>][z]
        BY <1>2, SetStageIs
      <4>2. h = SetStage(f, r, l, "done", "success")
        BY <3>2
      <4>. HIDE DEF h
      <4>3. /\ h[<<r, l>>]["done"] = "success"
            /\ \A k \in RunIds, m \in Nesting, z \in StageNames : k # r \/ m # l \/ z # "done" => h[<<k, m>>][z] = f[<<k, m>>][z]
        BY <4>1, <4>2
      <4>. QED BY <4>1, <4>2, <4>3 DEF Over
    <3>. QED BY <3>1, <3>2
  <2>3. l - 1 \in Nesting /\ v \in StageStatus /\ v \in Over
    BY <1>1, <1>2, <1>4 DEF Over
  <2>. HIDE DEF h, v, g
  <2>4. /\ StagesFit(g) /\ g[<<r, l - 1>>]["loop"] = v
        /\ \A k \in RunIds, m \in Nesting, z \in StageNames : k # r \/ m # l - 1 \/ z # "loop" =>
            g[<<k, m>>][z] = h[<<k, m>>][z]
    BY <1>2, <2>1, <2>2, <2>3, SetStageIs
  <2>5. ASSUME NEW k \in RunIds, NEW m \in Nesting, NEW z \in StageNames
        PROVE  g[<<k, m>>][z] = f[<<k, m>>][z] \/ (k = r /\ g[<<k, m>>][z] \in Over)
    <3>1. CASE k = r /\ m = l - 1 /\ z = "loop"
        BY <2>3, <2>4, <3>1
    <3>2. CASE k # r \/ m # l - 1 \/ z # "loop"
      <4>1. g[<<k, m>>][z] = h[<<k, m>>][z]
        BY <2>4, <3>2
      <4>. QED BY <2>2, <4>1
    <3>. QED BY <3>1, <3>2
  <2>. QED BY <2>3, <2>4, <2>5 DEF g
<1>5. CASE ~(s = "start" /\ l \notin short /\ l < Inmost) /\ ~(s = "cleanup" /\ l > 1)
    BY <1>5 DEF StagesAfter
<1>. QED BY <1>3, <1>4, <1>5

\* The stages of the run of e are shown as running where e is, and only there.
ShowsOnly(e, f) == \A l \in Nesting, s \in StageNames : f[<<e.run, l>>][s] \in Lit => Shows(e, l, s)

\* The components of the stage e is at became what they should, as far as e
\* is; and that stage is not shown as running.
Passed(e, n) ==
    \A j \in 1 .. e.pos.i :
        n[<<e.run, e.pos.loop>>][e.pos.stage][Plan[e.pos.loop][e.pos.stage][j]] \in Became(e.pos.stage)
Finished(e, f) == f[<<e.run, e.pos.loop>>][e.pos.stage] \notin Lit

\* Wherever it goes, the stages of other runs stay as they were.
LEMMA GoesOnFits ==
    ASSUME NEW e, IsExec(e), e.run \in RunIds, NEW g, NEW f, StagesFit(f), NEW ok \in BOOLEAN, NEW len,
           GoesNext(e, g, f, ok, len) \/ GoesToTheEnd(e, g, f, ok, len) \/ GoesAfter(e, g, f, ok, len)
    PROVE  /\ StagesFit(stages')
           /\ \A k \in RunIds, m \in Nesting : k # e.run => stages'[<<k, m>>] = f[<<k, m>>]
<1>1. e.pos \in Position
    BY DEF IsExec
<1>2. e.pos.loop \in Nesting /\ e.pos.stage \in CompStages
    BY <1>1 DEF Position
<1>3. /\ StagesFit(stages')
      /\ \A k \in RunIds, m \in Nesting, z \in StageNames : k # e.run => stages'[<<k, m>>][z] = f[<<k, m>>][z]
  <2>1. CASE GoesNext(e, g, f, ok, len)
    BY <2>1 DEF GoesNext
  <2>2. CASE GoesToTheEnd(e, g, f, ok, len)
    <3>1. stages' = SetStage(f, e.run, 1, "done", "running")
        BY <2>2 DEF GoesToTheEnd
    <3>2. 1 \in Nesting /\ "done" \in StageNames /\ "running" \in StageStatus
        BY ScorchAssumption DEF StageNames, StageStatus
    <3>3. /\ StagesFit(stages') /\ stages'[<<e.run, 1>>]["done"] = "running"
          /\ \A k \in RunIds, m \in Nesting, z \in StageNames : k # e.run \/ m # 1 \/ z # "done" =>
                stages'[<<k, m>>][z] = f[<<k, m>>][z]
        BY <3>1, <3>2, SetStageIs
    <3>. QED BY <3>3
  <2>3. CASE GoesAfter(e, g, f, ok, len)
    <3>1. PICK failed : stages' = StagesAfter(f, e.run, e.pos.loop, e.pos.stage, failed, g.short)
        BY <2>3 DEF GoesAfter
    <3>2. /\ StagesFit(stages')
          /\ \A k \in RunIds, m \in Nesting, z \in StageNames :
                \/ stages'[<<k, m>>][z] = f[<<k, m>>][z]
                \/ k = e.run /\ z = "loop" /\ m = e.pos.loop /\ e.pos.stage = "start" /\ e.pos.loop \notin g.short
                   /\ e.pos.loop < Inmost
                \/ k = e.run /\ stages'[<<k, m>>][z] \in Over
          /\ e.pos.stage = "cleanup" /\ e.pos.loop > 1 => stages'[<<e.run, e.pos.loop - 1>>]["loop"] \in Over
        BY <1>2, <3>1, StagesAfterIs
    <3>. QED BY <3>2
  <2>. QED BY <2>1, <2>2, <2>3
<1>4. ASSUME NEW k \in RunIds, NEW m \in Nesting, k # e.run PROVE stages'[<<k, m>>] = f[<<k, m>>]
  <2>1. <<k, m>> \in Pipes
    BY DEF Pipes
  <2>2. stages'[<<k, m>>] \in [StageNames -> StageStatus] /\ f[<<k, m>>] \in [StageNames -> StageStatus]
    BY <1>3, <2>1 DEF StagesFit
  <2>. QED BY <1>3, <1>4, <2>2
<1>. QED BY <1>3, <1>4

\* An executor that goes on after a component, or an empty stage: the
\* component became what it should, and a stage that is over is not shown as
\* running any more.
LEMMA GoesOnFollows ==
    ASSUME NEW e, IsExec(e), e.run \in RunIds, e.at \in Begun, NEW g, IsExec(g), Keeps(e, g),
           NEW f, StagesFit(f), NEW n, NEW ok \in BOOLEAN, NEW len,
           ShowsOnly(e, f),
           More(e, ok, len) => Passed(e, n), ~More(e, ok, len) => Finished(e, f),
           GoesNext(e, g, f, ok, len) \/ GoesToTheEnd(e, g, f, ok, len) \/ GoesAfter(e, g, f, ok, len)
    PROVE  ShowsOnly(g, stages') /\ Behind(g, n, stages')
<1>. DEFINE r == e.run
            l == e.pos.loop
            s == e.pos.stage
<1>1. /\ e.pos \in Position /\ l \in Nesting /\ s \in CompStages /\ e.pos.i \in Nat \ {0} /\ g.run = r
      /\ s \in StageNames /\ "loop" \in StageNames /\ "done" \in StageNames /\ s # "loop" /\ s # "done"
  <2>1. e.pos \in Position /\ g.run = r
    BY DEF IsExec, Keeps
  <2>2. l \in Nesting /\ s \in CompStages /\ e.pos.i \in Nat \ {0}
    BY <2>1 DEF Position
  <2>. HIDE DEF l, s
  <2>3. s \in StageNames /\ "loop" \in StageNames /\ "done" \in StageNames /\ s # "loop" /\ s # "done"
    BY <2>2 DEF StageNames, CompStages
  <2>. QED BY <2>1, <2>2, <2>3
<1>2. l \in 1 .. Inmost /\ Inmost \in Nat \ {0} /\ Nesting = 1 .. Inmost
    BY <1>1, ScorchAssumption
<1>3. CASE GoesNext(e, g, f, ok, len)
  <2>1. g.at = "begin" /\ g.pos.i = e.pos.i + 1 /\ g.pos.loop = l /\ g.pos.stage = s /\ stages' = f
    BY <1>1, <1>3 DEF GoesNext, Position
  <2>2. ShowsOnly(g, stages')
    BY <1>1, <2>1 DEF ShowsOnly, Shows, Begun
  <2>3. Behind(g, n, stages')
    <3>1. \A j \in 1 .. e.pos.i : n[<<r, l>>][s][Plan[l][s][j]] \in Became(s)
        BY <1>3 DEF GoesNext, Passed
    <3>2. 1 .. (g.pos.i - 1) = 1 .. e.pos.i
        BY <1>1, <2>1
    <3>3. \A j \in 1 .. (g.pos.i - 1) : n[<<g.run, g.pos.loop>>][g.pos.stage][Plan[g.pos.loop][g.pos.stage][j]] \in Became(g.pos.stage)
        BY <1>1, <2>1, <3>1, <3>2
    <3>. QED BY <2>1, <3>3 DEF Behind
  <2>. QED BY <2>1, <2>2, <2>3
<1>4. CASE GoesToTheEnd(e, g, f, ok, len)
  <2>1. g.at = "wrapup" /\ s = "cleanup" /\ l = 1 /\ stages' = SetStage(f, r, 1, "done", "running")
    BY <1>4 DEF GoesToTheEnd
  <2>2. f[<<r, l>>][s] \notin Lit
    BY <1>4 DEF GoesToTheEnd, Finished
  <2>3. "running" \in StageStatus
    BY DEF StageStatus
  <2>4. /\ StagesFit(stages') /\ stages'[<<r, 1>>]["done"] = "running"
        /\ \A k \in RunIds, m \in Nesting, z \in StageNames : k # r \/ m # 1 \/ z # "done" =>
            stages'[<<k, m>>][z] = f[<<k, m>>][z]
    BY <1>1, <2>1, <2>3, SetStageIs
  <2>5. ShowsOnly(g, stages')
    BY <1>1, <1>2, <2>1, <2>2, <2>4 DEF ShowsOnly, Shows, Begun
  <2>6. Behind(g, n, stages')
    BY <2>1 DEF Behind, Begun
  <2>. QED BY <2>5, <2>6
<1>5. CASE GoesAfter(e, g, f, ok, len)
  <2>. DEFINE short == g.short
  <2>1. PICK failed : stages' = StagesAfter(f, r, l, s, failed, short)
    BY <1>5 DEF GoesAfter
  <2>2. g.at = "begin" /\ g.pos = AfterStage(l, s, short) /\ ~(s = "cleanup" /\ l = 1) /\ f[<<r, l>>][s] \notin Lit
    BY <1>5 DEF GoesAfter, Finished
  <2>3. /\ StagesFit(stages')
        /\ \A k \in RunIds, m \in Nesting, z \in StageNames :
                \/ stages'[<<k, m>>][z] = f[<<k, m>>][z]
                \/ k = r /\ z = "loop" /\ m = l /\ s = "start" /\ l \notin short /\ l < Inmost
                \/ k = r /\ stages'[<<k, m>>][z] \in Over
        /\ s = "cleanup" /\ l > 1 => stages'[<<r, l - 1>>]["loop"] \in Over
    BY <1>1, <2>1, StagesAfterIs
  <2>. HIDE DEF short
  <2>4. \A x \in Over : x \notin Lit
    BY DEF Over, Lit
  <2>5. ASSUME NEW m \in Nesting, NEW z \in StageNames, stages'[<<r, m>>][z] \in Lit
        PROVE  \/ m < l /\ z = "loop" /\ ~(s = "cleanup" /\ m = l - 1)
               \/ z = "loop" /\ m = l /\ s = "start" /\ l \notin short /\ l < Inmost
    <3>1. stages'[<<r, m>>][z] = f[<<r, m>>][z] \/ (z = "loop" /\ m = l /\ s = "start" /\ l \notin short /\ l < Inmost)
        BY <1>1, <2>3, <2>4, <2>5
    <3>2. CASE stages'[<<r, m>>][z] = f[<<r, m>>][z]
      <4>1. Shows(e, m, z)
        BY <2>5, <3>2 DEF ShowsOnly
      <4>2. m < l /\ z = "loop"
        BY <1>1, <2>2, <2>5, <3>2, <4>1 DEF Shows, Begun
      <4>. QED BY <1>1, <1>2, <2>3, <2>4, <2>5, <4>2
    <3>. QED BY <3>1, <3>2
  <2>6. ASSUME NEW m \in Nesting, NEW z \in StageNames, stages'[<<r, m>>][z] \in Lit
        PROVE  z = "loop" /\ m < g.pos.loop
    <3>1. m \in Int /\ l \in Int
        BY <1>2
    <3>2. CASE s = "configure" \/ s = "stop"
      <4>1. g.pos.loop = l
        BY <2>2, <3>2 DEF AfterStage, First
      <4>. QED BY <2>5, <2>6, <3>2, <4>1
    <3>3. CASE s = "start" /\ (l \in short \/ l = Inmost)
      <4>1. g.pos.loop = l
        BY <2>2, <3>3 DEF AfterStage, First
      <4>. QED BY <1>2, <2>5, <2>6, <3>3, <4>1
    <3>4. CASE s = "start" /\ ~(l \in short \/ l = Inmost)
      <4>1. g.pos.loop = l + 1
        BY <2>2, <3>4 DEF AfterStage, First
      <4>. QED BY <1>2, <2>5, <2>6, <3>1, <3>4, <4>1
    <3>5. CASE s = "cleanup"
      <4>1. g.pos.loop = l - 1
        BY <2>2, <3>5 DEF AfterStage, First
      <4>. QED BY <2>5, <2>6, <3>1, <3>5, <4>1
    <3>. QED BY <1>1, <3>2, <3>3, <3>4, <3>5 DEF CompStages
  <2>7. ShowsOnly(g, stages')
    BY <1>1, <2>2, <2>6 DEF ShowsOnly, Shows, Begun
  <2>8. g.pos.i = 1
    BY <1>1, <2>2, AfterStageIs
  <2>9. Behind(g, n, stages')
    BY <2>2, <2>8 DEF Behind
  <2>. QED BY <2>7, <2>9
<1>. QED BY <1>3, <1>4, <1>5

\* Two execs that are at the same place of the same run.
Stands(d, e) == e.at = d.at /\ e.run = d.run /\ e.seen = d.seen /\ e.pos = d.pos

LEMMA BehindStands ==
    ASSUME NEW d, NEW e, Stands(d, e), NEW n, NEW f, NEW n2, NEW f2,
           n2[<<d.run, d.pos.loop>>] = n[<<d.run, d.pos.loop>>], f2[<<d.run, d.pos.loop>>] = f[<<d.run, d.pos.loop>>],
           Behind(d, n, f)
    PROVE  Behind(e, n2, f2)
<1>1. e.at = d.at /\ e.run = d.run /\ e.pos = d.pos
    BY DEF Stands
<1>2. CASE e.at \in Begun
    BY <1>1, <1>2 DEF Behind
<1>3. CASE e.at \notin Begun
    BY <1>3 DEF Behind
<1>. QED BY <1>2, <1>3

\* A step of the executor x, whose run has no other at work beside it.
LEMMA RunFollows ==
    ASSUME RunsInv, PipesAre, PipesFollow, NEW x \in Execs, execs[x].at \in Executes, ~execs[x].seen,
           \A y \in Execs : y # x => Stands(execs[y], execs'[y]),
           execs'[x].run = execs[x].run, execs'[x].seen = execs[x].seen, execs'[x].at \in Executes \cup {"done"},
           UNCHANGED apart,
           \A k \in RunIds, m \in Nesting : k # execs[x].run =>
                stages'[<<k, m>>] = stages[<<k, m>>] /\ nodes'[<<k, m>>] = nodes[<<k, m>>],
           ShowsOnly(execs[x], stages) /\ Behind(execs[x], nodes, stages) =>
                ShowsOnly(execs'[x], stages') /\ Behind(execs'[x], nodes', stages')
    PROVE  PipesFollow'
<1>. SUFFICES ASSUME NEW r \in RunIds, Ran(r)' \subseteq apart'
              PROVE  /\ \A l \in Nesting, s \in StageNames : stages'[<<r, l>>][s] \in Lit =>
                            \E y \in Ran(r)' : Shows(execs'[y], l, s)
                     /\ \A y \in Ran(r)' : Behind(execs'[y], nodes', stages')
    BY DEF PipesFollow
<1>1. Ran(r)' = Ran(r)
  <2>1. ASSUME NEW y \in Execs
        PROVE  (execs'[y].run = r /\ execs'[y].at \in Executes \cup {"done"} /\ ~execs'[y].seen)
                <=> (execs[y].run = r /\ execs[y].at \in Executes \cup {"done"} /\ ~execs[y].seen)
    BY DEF Stands
  <2>. QED BY <2>1 DEF Ran
<1>2. /\ Ran(r) \subseteq apart /\ Ran(r) \subseteq Execs
      /\ \A l \in Nesting, s \in StageNames : stages[<<r, l>>][s] \in Lit => \E y \in Ran(r) : Shows(execs[y], l, s)
      /\ \A y \in Ran(r) : Behind(execs[y], nodes, stages)
  <2>1. Ran(r) \subseteq apart
    BY <1>1
  <2>. QED BY <2>1 DEF PipesFollow, Ran
<1>3. CASE r = execs[x].run
  <2>1. x \in Ran(r) /\ x \in apart
    BY <1>2, <1>3 DEF Ran
  <2>2. \A y \in Ran(r) : y # x => execs[y].at = "done"
    BY <2>1 DEF RunsInv, Alone, Ran
  <2>3. \A y \in Ran(r) : \A l \in Nesting, s \in StageNames : Shows(execs[y], l, s) => y = x
    BY <2>2 DEF Shows, Begun
  <2>4. ShowsOnly(execs[x], stages)
    BY <1>2, <1>3, <2>3 DEF ShowsOnly
  <2>5. ShowsOnly(execs'[x], stages') /\ Behind(execs'[x], nodes', stages')
    BY <1>2, <2>1, <2>4
  <2>6. \A y \in Ran(r) : y # x => Behind(execs'[y], nodes', stages')
    BY <1>2, <2>2 DEF Behind, Stands, Begun
  <2>7. execs'[x].run = r
    BY <1>3
  <2>. QED BY <1>1, <2>1, <2>5, <2>6, <2>7 DEF ShowsOnly
<1>4. CASE r # execs[x].run
  <2>1. \A y \in Ran(r) : y # x /\ y \in Execs /\ execs[y].run = r /\ Stands(execs[y], execs'[y])
    BY <1>4 DEF Ran
  <2>2. \A y \in Ran(r) : \A l \in Nesting, s \in StageNames : Shows(execs[y], l, s) => Shows(execs'[y], l, s)
    BY <2>1 DEF Stands, Shows
  <2>3. \A m \in Nesting : stages'[<<r, m>>] = stages[<<r, m>>] /\ nodes'[<<r, m>>] = nodes[<<r, m>>]
    BY <1>4
  <2>4. ASSUME NEW y \in Ran(r) PROVE Behind(execs'[y], nodes', stages')
    <3>1. execs[y].pos.loop \in Nesting
        BY <2>1 DEF RunsInv, ExecsAre, IsExec, Position
    <3>2. Behind(execs[y], nodes, stages)
        BY <1>2
    <3>. QED BY <2>1, <2>3, <3>1, <3>2, BehindStands
  <2>. QED BY <1>1, <1>2, <2>2, <2>3, <2>4
<1>. QED BY <1>3, <1>4

\* A step that leaves the pipelines, and who ran, as they were.
LEMMA StillFollows ==
    ASSUME PipesAre, PipesFollow, UNCHANGED <<nodes, stages, apart>>,
           \A y \in Execs :
                \/ Stands(execs[y], execs'[y])
                \/ /\ execs[y].at \notin Executes \cup {"done"} \/ execs[y].seen
                   /\ execs'[y].at \notin Executes \cup {"done"} \/ execs'[y].seen
    PROVE  PipesAre' /\ PipesFollow'
<1>1. PipesAre'
    BY DEF PipesAre
<1>2. ASSUME NEW r \in RunIds
      PROVE  Ran(r)' = Ran(r) /\ \A y \in Ran(r) : Stands(execs[y], execs'[y])
  <2>1. ASSUME NEW y \in Execs
        PROVE  /\ (execs'[y].run = r /\ execs'[y].at \in Executes \cup {"done"} /\ ~execs'[y].seen)
                   <=> (execs[y].run = r /\ execs[y].at \in Executes \cup {"done"} /\ ~execs[y].seen)
               /\ execs[y].at \in Executes \cup {"done"} /\ ~execs[y].seen => Stands(execs[y], execs'[y])
    BY DEF Stands
  <2>. QED BY <2>1 DEF Ran
<1>3. ASSUME NEW r \in RunIds, Ran(r)' \subseteq apart'
      PROVE  /\ \A l \in Nesting, s \in StageNames : stages'[<<r, l>>][s] \in Lit =>
                    \E y \in Ran(r)' : Shows(execs'[y], l, s)
             /\ \A y \in Ran(r)' : Behind(execs'[y], nodes', stages')
  <2>1. Ran(r) \subseteq apart /\ Ran(r)' = Ran(r) /\ \A y \in Ran(r) : Stands(execs[y], execs'[y])
    BY <1>2, <1>3
  <2>2. /\ \A l \in Nesting, s \in StageNames : stages[<<r, l>>][s] \in Lit => \E y \in Ran(r) : Shows(execs[y], l, s)
        /\ \A y \in Ran(r) : Behind(execs[y], nodes, stages)
    BY <2>1 DEF PipesFollow
  <2>3. \A y \in Ran(r) : \A l \in Nesting, s \in StageNames : Shows(execs[y], l, s) => Shows(execs'[y], l, s)
    BY <2>1 DEF Stands, Shows
  <2>4. \A y \in Ran(r) : Behind(execs'[y], nodes', stages')
    BY <2>1, <2>2, BehindStands
  <2>. QED BY <2>1, <2>2, <2>3, <2>4
<1>. QED BY <1>1, <1>3 DEF PipesFollow

LEMMA StageShownAs ==
    ASSUME NEW s \in CompStages, NEW n, NEW was, NEW c
    PROVE  /\ FailFast(s) /\ n[c] = "failure" => StageShown(s, n, was, c) = "failure"
           /\ FailFast(s) /\ n[c] \in {"success", "background"} /\ (\A k \in DOMAIN n : n[k] \in {"success", "background"})
                => StageShown(s, n, was, c) = "success"
           /\ FailFast(s) /\ n[c] = "success" => StageShown(s, n, was, c) \in {"success", was}
           /\ ~FailFast(s) /\ (\A k \in DOMAIN n : n[k] \in Over) => StageShown(s, n, was, c) \in Over
<1>1. FailFast(s) <=> s \in {"configure", "start"}
    BY DEF FailFast
<1>3. FailFast(s) /\ n[c] = "failure" => StageShown(s, n, was, c) = "failure"
    BY <1>1 DEF StageShown
<1>4. FailFast(s) /\ n[c] \in {"success", "background"} /\ (\A k \in DOMAIN n : n[k] \in {"success", "background"})
        => StageShown(s, n, was, c) = "success"
  <2>. SUFFICES ASSUME s \in {"configure", "start"}, n[c] \in {"background", "success"},
                       \A k \in DOMAIN n : n[k] \in {"background", "success"}
                PROVE  StageShown(s, n, was, c) = "success"
    BY <1>1
  <2>1. n[c] # "failure"
    OBVIOUS
  <2>. QED BY <2>1 DEF StageShown
<1>5. FailFast(s) /\ n[c] = "success" => StageShown(s, n, was, c) \in {"success", was}
    BY <1>1 DEF StageShown
<1>6. ~FailFast(s) /\ (\A k \in DOMAIN n : n[k] \in Over) => StageShown(s, n, was, c) \in Over
    BY <1>1 DEF StageShown, StageOver, Over
<1>. QED BY <1>3, <1>4, <1>5, <1>6

LEMMA PipeSame ==
    ASSUME NEW f, StagesFit(f), NEW f2, StagesFit(f2), NEW n, NodesFit(n), NEW n2, NodesFit(n2),
           NEW k \in RunIds, NEW m \in Nesting,
           \A z \in StageNames : f2[<<k, m>>][z] = f[<<k, m>>][z],
           \A z \in CompStages : n2[<<k, m>>][z] = n[<<k, m>>][z]
    PROVE  f2[<<k, m>>] = f[<<k, m>>] /\ n2[<<k, m>>] = n[<<k, m>>]
<1>1. <<k, m>> \in Pipes
    BY DEF Pipes
<1>2. f[<<k, m>>] \in [StageNames -> StageStatus] /\ f2[<<k, m>>] \in [StageNames -> StageStatus]
    BY <1>1 DEF StagesFit
<1>3. /\ n[<<k, m>>] = [s \in CompStages |-> n[<<k, m>>][s]]
      /\ n2[<<k, m>>] = [s \in CompStages |-> n2[<<k, m>>][s]]
    BY <1>1 DEF NodesFit
<1>. QED BY <1>2, <1>3

\* A component is shown as at work.
LEMMA BeginFollows ==
    ASSUME RunsInv, PipesAre, PipesFollow, NEW x \in Execs, BeginComponent(x)
    PROVE  PipesAre' /\ PipesFollow'
<1>. DEFINE e == execs[x]
            r == e.run
            l == e.pos.loop
            s == e.pos.stage
            i == e.pos.i
            c == Comp(x)
            st == IF InBack(x) THEN "background" ELSE "running"
            g == execs'[x]
<1>1. /\ e.at = "begin" /\ e.at \in Executes /\ e.at \in Begun /\ ~e.seen /\ r \in RunIds /\ IsExec(e)
      /\ UNCHANGED apart
    BY DEF BeginComponent, Begun, Executes, RunsInv, ExecsAre
<1>2. /\ nodes' = NodesUpdated(nodes, r, l, s, c, st)
      /\ stages' = StagesUpdated(stages, nodes', r, l, s, c, st)
    BY DEF BeginComponent, Place
<1>3. e.pos \in Position /\ l \in Nesting /\ s \in CompStages /\ i \in Nat \ {0} /\ s \in StageNames
  <2>1. e.pos \in Position
    BY <1>1 DEF IsExec
  <2>. HIDE DEF e
  <2>. QED BY <2>1 DEF Position, StageNames
<1>4. /\ g.at = "end" /\ g.pos = e.pos /\ g.run = r /\ g.seen = e.seen
      /\ \A y \in Execs : y # x => execs'[y] = execs[y]
      /\ i \in DOMAIN Plan[l][s]
  <2>1. execs' = [execs EXCEPT ![x] = [execs[x] EXCEPT !.at = "end"]] /\ execs = [y \in Execs |-> execs[y]]
    BY DEF BeginComponent, RunsInv, ExecsAre
  <2>2. g = [e EXCEPT !.at = "end"] /\ \A y \in Execs : y # x => execs'[y] = execs[y]
    BY <2>1
  <2>3. g.at = "end" /\ g.pos = e.pos /\ g.run = r /\ g.seen = e.seen
    BY <1>1, <2>2, ExecChanges
  <2>4. RunsInv'
    BY BeginComponentKeepsRuns
  <2>5. g.pos.i \in DOMAIN Plan[g.pos.loop][g.pos.stage]
    BY <2>3, <2>4 DEF RunsInv, ExecsAre, StageList, Place
  <2>. QED BY <2>2, <2>3, <2>5
<1>5. c = Plan[l][s][i] /\ c \in InStage(l, s) /\ InBack(x) = (c \in Background /\ FailFast(s))
    BY <1>4 DEF Comp, StageList, Place, InStage, InBack
<1>6. /\ StagesFit(stages) /\ NodesFit(nodes)
      /\ st \in {"running", "background", "success", "failure"} /\ (InBack(x) => st = "background")
    BY DEF PipesAre
<1>. HIDE DEF e, r, l, s, i, c, g, st
<1>7. /\ NodesFit(nodes')
      /\ \A k \in RunIds, m \in Nesting, z \in CompStages : k # r \/ m # l \/ z # s =>
            nodes'[<<k, m>>][z] = nodes[<<k, m>>][z]
      /\ \A d \in InStage(l, s) : d # c => nodes'[<<r, l>>][s][d] = nodes[<<r, l>>][s][d]
      /\ nodes'[<<r, l>>][s][c] = IF Kind[c] = "break" /\ st = "running" THEN "unstable" ELSE st
  <2>1. r \in RunIds
    BY <1>1
  <2>2. UpdatesNodes(nodes, NodesUpdated(nodes, r, l, s, c, st), r, l, s, c, st)
    BY <1>3, <1>6, <2>1, NodesUpdatedIs
  <2>. QED BY <1>2, <1>5, <2>2 DEF UpdatesNodes
<1>8. /\ StagesFit(stages')
      /\ stages'[<<r, l>>][s] = StageShown(s, nodes'[<<r, l>>][s], stages[<<r, l>>][s], c)
      /\ \A k \in RunIds, m \in Nesting, z \in StageNames :
            \/ stages'[<<k, m>>][z] = stages[<<k, m>>][z]
            \/ k = r /\ m = l /\ z = s
            \/ k = r /\ m < l /\ z = "loop"
  <2>1. r \in RunIds
    BY <1>1
  <2>2. UpdatesStages(stages, StagesUpdated(stages, nodes', r, l, s, c, st), nodes', r, l, s, c)
    BY <1>3, <1>6, <2>1, StagesUpdatedIs
  <2>. QED BY <1>2, <1>5, <2>2 DEF UpdatesStages
<1>9. PipesAre'
    BY <1>7, <1>8 DEF PipesAre
<1>10. ASSUME ShowsOnly(e, stages), Behind(e, nodes, stages)
       PROVE  ShowsOnly(g, stages') /\ Behind(g, nodes', stages')
  <2>1. ASSUME NEW m \in Nesting, NEW z \in StageNames, stages'[<<r, m>>][z] \in Lit PROVE Shows(g, m, z)
    <3>1. CASE stages'[<<r, m>>][z] = stages[<<r, m>>][z]
      <4>1. Shows(e, m, z)
        BY <1>10, <2>1, <3>1 DEF ShowsOnly, r
      <4>. QED BY <1>1, <1>4, <4>1 DEF Shows, Begun, l, s
    <3>2. CASE (m = l /\ z = s) \/ (m < l /\ z = "loop")
        BY <1>4, <3>2 DEF Shows, Begun, l, s
    <3>. QED BY <1>1, <1>8, <3>1, <3>2
  <2>2. ASSUME NEW j \in 1 .. (i - 1)
        PROVE  nodes'[<<r, l>>][s][Plan[l][s][j]] \in Became(s) \/ Plan[l][s][j] = c
    <3>1. nodes[<<r, l>>][s][Plan[l][s][j]] \in Became(s)
        BY <1>1, <1>10 DEF Behind, Begun, r, l, s, i
    <3>2. Plan[l][s][j] \in InStage(l, s)
      <4>1. j \in DOMAIN Plan[l][s]
        BY <1>3, <1>4, PlanIs DEF l, s, i
      <4>. QED BY <4>1 DEF InStage
    <3>. QED BY <1>7, <3>1, <3>2
  <2>3. ASSUME c \in Background, FailFast(s)
        PROVE  /\ nodes'[<<r, l>>][s][c] = "background"
               /\ i = Len(Plan[l][s]) => stages'[<<r, l>>][s] \notin Lit
    <3>1. nodes'[<<r, l>>][s][c] = "background"
        BY <1>5, <1>6, <1>7, <2>3
    <3>2. ASSUME i = Len(Plan[l][s]) PROVE stages'[<<r, l>>][s] \notin Lit
      <4>1. DOMAIN nodes'[<<r, l>>][s] = InStage(l, s)
        <5>1. <<r, l>> \in Pipes /\ <<r, l>>[2] = l
            BY <1>1, <1>3 DEF Pipes, r
        <5>. QED BY <1>3, <1>7, <5>1 DEF NodesFit
      <4>2. ASSUME NEW k \in InStage(l, s) PROVE nodes'[<<r, l>>][s][k] \in {"background", "success"}
        <5>1. PICK j \in DOMAIN Plan[l][s] : k = Plan[l][s][j]
            BY DEF InStage
        <5>2. j = i \/ j \in 1 .. (i - 1)
            BY <1>3, <3>2, PlanIs DEF l, s, i
        <5>3. Became(s) = {"success", "background"}
            BY <2>3 DEF Became
        <5>. QED BY <1>5, <2>2, <3>1, <5>1, <5>2, <5>3
      <4>3. StageShown(s, nodes'[<<r, l>>][s], stages[<<r, l>>][s], c) = "success"
        BY <1>3, <2>3, <3>1, <4>1, <4>2, StageShownAs
      <4>. QED BY <1>8, <4>3 DEF Lit
    <3>. QED BY <3>1, <3>2
  <2>4. Behind(g, nodes', stages')
    BY <1>4, <1>5, <2>2, <2>3 DEF Behind, r, l, s, i
  <2>5. ShowsOnly(g, stages')
    BY <1>4, <2>1 DEF ShowsOnly
  <2>. QED BY <2>4, <2>5
<1>11. ASSUME NEW k \in RunIds, NEW m \in Nesting, k # r
       PROVE  stages'[<<k, m>>] = stages[<<k, m>>] /\ nodes'[<<k, m>>] = nodes[<<k, m>>]
    BY <1>6, <1>7, <1>8, <1>11, PipeSame
<1>. QED BY <1>1, <1>4, <1>9, <1>10, <1>11, RunFollows DEF Stands, Executes, e, r, g

\* The executor e is at a component, and the pipelines are as it left them.
AtComponent(e, n, f) ==
    /\ IsExec(e) /\ e.run \in RunIds /\ e.at = "end" /\ e.pos.i \in DOMAIN Plan[e.pos.loop][e.pos.stage]
    /\ StagesFit(f) /\ NodesFit(n)

\* handleBackgrounded: the component in the background is one of another
\* stage, which is not shown as running.
LEMMA HandledFollows ==
    ASSUME RunsInv, PipesAre, NEW x \in Execs, execs[x].at = "end"
    PROVE  /\ AtComponent(execs[x], nodes, stages)
           /\ AtComponent(execs[x], HandledNodes(x), HandledStages(x))
           /\ \A k \in RunIds, m \in Nesting : k # execs[x].run =>
                HandledStages(x)[<<k, m>>] = stages[<<k, m>>] /\ HandledNodes(x)[<<k, m>>] = nodes[<<k, m>>]
           /\ ShowsOnly(execs[x], stages) /\ Behind(execs[x], nodes, stages) =>
                ShowsOnly(execs[x], HandledStages(x)) /\ Behind(execs[x], HandledNodes(x), HandledStages(x))
<1>. DEFINE e == execs[x]
            r == e.run
            l == e.pos.loop
            s == e.pos.stage
            p == Paired[s]
            c == Comp(x)
            n == HandledNodes(x)
            f == HandledStages(x)
<1>1. e.at = "end" /\ r \in RunIds /\ IsExec(e) /\ e.pos.i \in DOMAIN Plan[l][s] /\ c = Plan[l][s][e.pos.i]
    BY DEF RunsInv, ExecsAre, StageList, Place, Comp
<1>2. StagesFit(stages) /\ NodesFit(nodes)
    BY DEF PipesAre
<1>3. AtComponent(e, nodes, stages)
    BY <1>1, <1>2 DEF AtComponent
<1>4. CASE Handled(x) = {}
    BY <1>3, <1>4 DEF HandledNodes, HandledStages
<1>5. CASE Handled(x) # {}
  <2>1. /\ n = NodesUpdated(nodes, r, l, p, c, "success")
        /\ f = StagesUpdated(stages, n, r, l, p, c, "success")
    BY <1>5 DEF HandledNodes, HandledStages, Place
  <2>2. p \in {"configure", "start"}
    BY <1>5 DEF Handled, RunsInv, InTheBackground, Place
  <2>3. e.pos \in Position
    BY <1>1 DEF IsExec
  <2>. HIDE DEF e, n, f, c
  <2>4. l \in Nesting /\ s \in CompStages
    BY <2>3 DEF Position
  <2>5. p \in CompStages /\ p \in StageNames /\ FailFast(p) /\ p # s
    BY <2>2, <2>4 DEF CompStages, StageNames, FailFast, Paired
  <2>. HIDE DEF p, r, l, s
  <2>6. UpdatesNodes(nodes, NodesUpdated(nodes, r, l, p, c, "success"), r, l, p, c, "success")
    BY <1>1, <1>2, <2>4, <2>5, NodesUpdatedIs
  <2>7. UpdatesStages(stages, StagesUpdated(stages, n, r, l, p, c, "success"), n, r, l, p, c)
    BY <1>1, <1>2, <2>4, <2>5, StagesUpdatedIs
  <2>8. UpdatesNodes(nodes, n, r, l, p, c, "success") /\ UpdatesStages(stages, f, n, r, l, p, c)
    BY <2>1, <2>6, <2>7
  <2>9. AtComponent(e, n, f)
    BY <1>1, <2>8 DEF AtComponent, UpdatesNodes, UpdatesStages, r, l, s
  <2>10. ASSUME NEW k \in RunIds, NEW m \in Nesting, k # r PROVE f[<<k, m>>] = stages[<<k, m>>] /\ n[<<k, m>>] = nodes[<<k, m>>]
    <3>1. /\ \A z \in StageNames : f[<<k, m>>][z] = stages[<<k, m>>][z]
          /\ \A z \in CompStages : n[<<k, m>>][z] = nodes[<<k, m>>][z]
          /\ StagesFit(f) /\ NodesFit(n)
        BY <2>8, <2>10 DEF UpdatesNodes, UpdatesStages
    <3>. QED BY <1>2, <3>1, PipeSame
  <2>11. ASSUME ShowsOnly(e, stages), Behind(e, nodes, stages)
         PROVE  ShowsOnly(e, f) /\ Behind(e, n, f)
    <3>1. stages[<<r, l>>][p] \notin Lit
      <4>1. ~Shows(e, l, p)
        BY <1>1, <2>4, <2>5, ScorchAssumption DEF Shows, Begun, l, s
      <4>. QED BY <2>4, <2>5, <2>11, <4>1 DEF ShowsOnly, r
    <3>2. f[<<r, l>>][p] \notin Lit
      <4>1. CASE c \notin InStage(l, p)
        BY <2>8, <3>1, <4>1 DEF UpdatesStages
      <4>2. CASE c \in InStage(l, p)
        <5>1. n[<<r, l>>][p][c] = "success"
            BY <2>8, <4>2 DEF UpdatesNodes
        <5>2. f[<<r, l>>][p] \in {"success", stages[<<r, l>>][p]}
            BY <2>5, <2>8, <4>2, <5>1, StageShownAs DEF UpdatesStages
        <5>. QED BY <3>1, <5>2 DEF Lit
      <4>. QED BY <4>1, <4>2
    <3>3. ASSUME NEW m \in Nesting, NEW z \in StageNames, f[<<r, m>>][z] \in Lit PROVE Shows(e, m, z)
      <4>1. CASE f[<<r, m>>][z] = stages[<<r, m>>][z]
        BY <2>11, <3>3, <4>1 DEF ShowsOnly, r
      <4>2. CASE m < l /\ z = "loop"
        BY <1>1, <4>2 DEF Shows, Begun, l
      <4>. QED BY <1>1, <2>8, <3>2, <3>3, <4>1, <4>2 DEF UpdatesStages
    <3>4. f[<<r, l>>][s] = stages[<<r, l>>][s] /\ n[<<r, l>>][s] = nodes[<<r, l>>][s]
      <4>1. s \in StageNames /\ s # "loop"
        BY <2>4 DEF StageNames, CompStages
      <4>. QED BY <1>1, <2>4, <2>5, <2>8, <4>1 DEF UpdatesNodes, UpdatesStages
    <3>5. Behind(e, n, f)
        BY <2>11, <3>4 DEF Behind, r, l, s
    <3>. QED BY <3>3, <3>5 DEF ShowsOnly, r
  <2>. QED BY <1>3, <2>9, <2>10, <2>11 DEF e, n, f, r
<1>. QED BY <1>4, <1>5

\* The component is over: what its executor shows, and where it goes.
LEMMA ReturnedFollows ==
    ASSUME RunsInv, PipesAre, PipesFollow, NEW x \in Execs, execs[x].at = "end",
           NEW e, NEW n, NEW f, NEW ok \in BOOLEAN, AtComponent(e, n, f),
           Keeps(execs[x], e), e.pos = execs[x].pos,
           \A k \in RunIds, m \in Nesting : k # execs[x].run =>
                f[<<k, m>>] = stages[<<k, m>>] /\ n[<<k, m>>] = nodes[<<k, m>>],
           ShowsOnly(execs[x], stages) /\ Behind(execs[x], nodes, stages) => ShowsOnly(e, f) /\ Behind(e, n, f),
           Returned(x, e, n, f, ok), UNCHANGED apart
    PROVE  PipesAre' /\ PipesFollow'
<1>. DEFINE r == e.run
            l == e.pos.loop
            s == e.pos.stage
            i == e.pos.i
            c == Comp(x)
            len == Len(StageList(x))
            st == IF ok THEN "success" ELSE "failure"
            silent == ok /\ InBack(x)
            n2 == IF silent THEN n ELSE NodesUpdated(n, r, l, s, c, st)
            f2 == IF silent THEN f ELSE StagesUpdated(f, n2, r, l, s, c, st)
<1>1. /\ e.at = "end" /\ e.at \in Begun /\ IsExec(e) /\ r \in RunIds /\ i \in DOMAIN Plan[l][s]
      /\ StagesFit(f) /\ NodesFit(n)
    BY DEF AtComponent, Begun
<1>2. e.pos \in Position
    BY <1>1 DEF IsExec
<1>3. l \in Nesting /\ s \in CompStages /\ i \in Nat \ {0} /\ s \in StageNames
  <2>. HIDE DEF l, s, i
  <2>1. l \in Nesting /\ s \in CompStages /\ i \in Nat \ {0}
    BY <1>2 DEF Position, l, s, i
  <2>. QED BY <2>1 DEF StageNames
<1>4. /\ c = Plan[l][s][i] /\ c \in InStage(l, s) /\ InBack(x) = (c \in Background /\ FailFast(s))
      /\ len = Len(Plan[l][s]) /\ len \in Nat /\ DOMAIN Plan[l][s] = 1 .. len /\ i \in 1 .. len
    BY <1>1, <1>2, PlanIs DEF Comp, StageList, Place, InStage, InBack
<1>5. nodes' = n2 /\ GoesOn(x, e, f2, ok)
    BY DEF Returned
<1>6. st \in {"running", "background", "success", "failure"} /\ (ok => st = "success") /\ (~ok => st = "failure")
    OBVIOUS
<1>. HIDE DEF r, l, s, i, c, len, st, silent, n2, f2
<1>7. ~silent => UpdatesNodes(n, n2, r, l, s, c, st) /\ UpdatesStages(f, f2, n2, r, l, s, c)
  <2>1. ASSUME ~silent PROVE UpdatesNodes(n, n2, r, l, s, c, st)
    <3>1. UpdatesNodes(n, NodesUpdated(n, r, l, s, c, st), r, l, s, c, st)
        BY <1>1, <1>3, <1>6, NodesUpdatedIs
    <3>. QED BY <2>1, <3>1 DEF n2
  <2>2. ASSUME ~silent PROVE UpdatesStages(f, f2, n2, r, l, s, c)
    <3>1. UpdatesStages(f, StagesUpdated(f, n2, r, l, s, c, st), n2, r, l, s, c)
        BY <1>1, <1>3, StagesUpdatedIs
    <3>. QED BY <2>2, <3>1 DEF f2
  <2>. QED BY <2>1, <2>2
<1>8. silent => n2 = n /\ f2 = f
    BY DEF n2, f2
<1>9. StagesFit(f2) /\ NodesFit(n2)
    BY <1>1, <1>7, <1>8 DEF UpdatesNodes, UpdatesStages
<1>10. ASSUME NEW k \in RunIds, NEW m \in Nesting, k # r
       PROVE  f2[<<k, m>>] = f[<<k, m>>] /\ n2[<<k, m>>] = n[<<k, m>>]
  <2>1. CASE silent
    BY <1>8, <2>1
  <2>2. CASE ~silent
    <3>1. /\ \A z \in StageNames : f2[<<k, m>>][z] = f[<<k, m>>][z]
          /\ \A z \in CompStages : n2[<<k, m>>][z] = n[<<k, m>>][z]
        BY <1>7, <1>10, <2>2 DEF UpdatesNodes, UpdatesStages
    <3>. QED BY <1>1, <1>9, <3>1, PipeSame
  <2>. QED BY <2>1, <2>2
<1>11. ASSUME ShowsOnly(e, f) PROVE ShowsOnly(e, f2)
  <2>1. ASSUME NEW m \in Nesting, NEW z \in StageNames, f2[<<r, m>>][z] \in Lit PROVE Shows(e, m, z)
    <3>1. CASE f2[<<r, m>>][z] = f[<<r, m>>][z]
        BY <1>11, <2>1, <3>1 DEF ShowsOnly, r
    <3>2. CASE (m = l /\ z = s) \/ (m < l /\ z = "loop")
        BY <1>1, <3>2 DEF Shows, l, s
    <3>. QED BY <1>1, <1>7, <1>8, <3>1, <3>2 DEF UpdatesStages
  <2>. QED BY <2>1 DEF ShowsOnly, r
<1>12. ASSUME Behind(e, n, f), ok \/ ~FailFast(s) PROVE Passed(e, n2)
  <2>1. n2[<<r, l>>][s][c] \in Became(s)
    <3>1. CASE silent
      <4>1. c \in Background /\ FailFast(s)
        BY <1>4, <3>1 DEF silent
      <4>2. n[<<r, l>>][s][c] = "background"
        BY <1>1, <1>4, <1>12, <4>1 DEF Behind, r, l, s, i
      <4>. QED BY <1>8, <3>1, <4>1, <4>2 DEF Became
    <3>2. CASE ~silent
      <4>1. n2[<<r, l>>][s][c] = st
        BY <1>4, <1>6, <1>7, <3>2 DEF UpdatesNodes, st
      <4>. QED BY <1>6, <1>12, <4>1 DEF Became, Over
    <3>. QED BY <3>1, <3>2
  <2>2. ASSUME NEW j \in 1 .. i PROVE n2[<<r, l>>][s][Plan[l][s][j]] \in Became(s)
    <3>1. CASE Plan[l][s][j] = c
        BY <2>1, <3>1
    <3>2. CASE Plan[l][s][j] # c
      <4>1. j \in 1 .. (i - 1) /\ j \in DOMAIN Plan[l][s]
        BY <1>3, <1>4, <3>2
      <4>2. n[<<r, l>>][s][Plan[l][s][j]] \in Became(s)
        BY <1>1, <1>4, <1>12, <3>2, <4>1 DEF Behind, r, l, s, i
      <4>3. Plan[l][s][j] \in InStage(l, s)
        BY <4>1 DEF InStage
      <4>. QED BY <1>7, <1>8, <3>2, <4>2, <4>3 DEF UpdatesNodes
    <3>. QED BY <3>1, <3>2
  <2>. QED BY <2>2 DEF Passed, r, l, s, i
<1>13. ASSUME Behind(e, n, f), ~More(e, ok, len) PROVE Finished(e, f2)
  <2>1. CASE ~ok /\ FailFast(s)
    <3>1. ~silent /\ n2[<<r, l>>][s][c] = "failure"
        BY <1>4, <1>6, <1>7, <2>1 DEF UpdatesNodes, silent
    <3>2. f2[<<r, l>>][s] = "failure"
        BY <1>3, <1>4, <1>7, <2>1, <3>1, StageShownAs DEF UpdatesStages
    <3>. QED BY <3>2 DEF Finished, Lit, r, l, s
  <2>2. CASE ok \/ ~FailFast(s)
    <3>1. i = len
      <4>1. ~(i < len)
        BY <1>13, <2>2 DEF More, s, i
      <4>. QED BY <1>3, <1>4, <4>1
    <3>2. CASE silent
      <4>1. c \in Background /\ FailFast(s)
        BY <1>4, <3>2 DEF silent
      <4>2. f[<<r, l>>][s] \notin Lit
        BY <1>1, <1>4, <1>13, <3>1, <4>1 DEF Behind, r, l, s, i
      <4>. QED BY <1>8, <3>2, <4>2 DEF Finished, r, l, s
    <3>3. CASE ~silent
      <4>1. Passed(e, n2)
        BY <1>12, <1>13, <2>2
      <4>2. ASSUME NEW k \in InStage(l, s) PROVE n2[<<r, l>>][s][k] \in Became(s)
        <5>1. PICK j \in DOMAIN Plan[l][s] : k = Plan[l][s][j]
            BY DEF InStage
        <5>. QED BY <1>4, <3>1, <4>1, <5>1 DEF Passed, r, l, s, i
      <4>3. DOMAIN n2[<<r, l>>][s] = InStage(l, s)
        <5>1. <<r, l>> \in Pipes /\ <<r, l>>[2] = l
            BY <1>1, <1>3 DEF Pipes
        <5>. QED BY <1>3, <1>9, <5>1 DEF NodesFit
      <4>4. f2[<<r, l>>][s] = StageShown(s, n2[<<r, l>>][s], f[<<r, l>>][s], c)
        BY <1>4, <1>7, <3>3 DEF UpdatesStages
      <4>5. StageShown(s, n2[<<r, l>>][s], f[<<r, l>>][s], c) \in Over
        <5>1. CASE FailFast(s)
          <6>1. \A k \in InStage(l, s) : n2[<<r, l>>][s][k] \in {"success", "background"}
            BY <4>2, <5>1 DEF Became
          <6>. QED BY <1>3, <1>4, <4>3, <5>1, <6>1, StageShownAs DEF Over
        <5>2. CASE ~FailFast(s)
          <6>1. \A k \in InStage(l, s) : n2[<<r, l>>][s][k] \in Over
            BY <4>2, <5>2 DEF Became
          <6>. QED BY <1>3, <4>3, <5>2, <6>1, StageShownAs
        <5>. QED BY <5>1, <5>2
      <4>. QED BY <4>4, <4>5 DEF Finished, Over, Lit, r, l, s
    <3>. QED BY <3>2, <3>3
  <2>. QED BY <2>1, <2>2
<1>14. PICK g :
        /\ execs' = [execs EXCEPT ![x] = g] /\ IsExec(g)
        /\ Keeps(e, g)
        /\ GoesNext(e, g, f2, ok, len) \/ GoesToTheEnd(e, g, f2, ok, len) \/ GoesAfter(e, g, f2, ok, len)
    BY <1>1, <1>5, GoesOnIs DEF len
<1>15. PipesAre' /\ \A k \in RunIds, m \in Nesting : k # r => stages'[<<k, m>>] = f2[<<k, m>>]
    BY <1>1, <1>5, <1>9, <1>14, GoesOnFits DEF PipesAre, r
<1>16. ASSUME ShowsOnly(execs[x], stages), Behind(execs[x], nodes, stages)
       PROVE  ShowsOnly(g, stages') /\ Behind(g, nodes', stages')
  <2>1. ShowsOnly(e, f) /\ Behind(e, n, f)
    BY <1>16
  <2>2. ShowsOnly(e, f2) /\ (~More(e, ok, len) => Finished(e, f2))
    BY <1>11, <1>13, <2>1
  <2>3. More(e, ok, len) => Passed(e, n2)
    BY <1>12, <2>1 DEF More, s
  <2>. QED BY <1>1, <1>5, <1>9, <1>14, <2>2, <2>3, GoesOnFollows DEF r
<1>17. /\ execs'[x] = g /\ g.run = execs[x].run /\ g.seen = execs[x].seen /\ g.at \in Executes
       /\ \A y \in Execs : y # x => execs'[y] = execs[y]
       /\ r = execs[x].run /\ ~execs[x].seen /\ execs[x].at \in Executes
  <2>1. execs = [y \in Execs |-> execs[y]] /\ ~execs[x].seen /\ execs[x].at \in Executes
    BY DEF RunsInv, ExecsAre, Begun, Executes
  <2>2. g.at \in Executes
    BY <1>14 DEF GoesNext, GoesToTheEnd, GoesAfter, Executes
  <2>. QED BY <1>14, <2>1, <2>2 DEF Keeps, r
<1>18. \A k \in RunIds, m \in Nesting : k # execs[x].run =>
            stages'[<<k, m>>] = stages[<<k, m>>] /\ nodes'[<<k, m>>] = nodes[<<k, m>>]
    BY <1>5, <1>10, <1>15, <1>17
<1>19. \A y \in Execs : y # x => Stands(execs[y], execs'[y])
    BY <1>17 DEF Stands
<1>20. PipesFollow'
    BY <1>16, <1>17, <1>18, <1>19, RunFollows
<1>. QED BY <1>15, <1>20

LEMMA ExecutorFollows ==
    ASSUME RunsInv, PipesAre, PipesFollow, NEW x \in Execs,
           \/ RunsPause(x) \/ RunsUser(x) \/ RunsBreak(x) \/ StartsTap(x) \/ DeletesTap(x) \/ GoesToBackground(x)
    PROVE  PipesAre' /\ PipesFollow'
<1>1. execs[x].at = "end" /\ UNCHANGED apart
    BY DEF RunsPause, RunsUser, RunsBreak, StartsTap, DeletesTap, GoesToBackground, ExecuteComponent
<1>2. /\ AtComponent(execs[x], nodes, stages)
      /\ AtComponent(execs[x], HandledNodes(x), HandledStages(x))
      /\ \A k \in RunIds, m \in Nesting : k # execs[x].run =>
                HandledStages(x)[<<k, m>>] = stages[<<k, m>>] /\ HandledNodes(x)[<<k, m>>] = nodes[<<k, m>>]
      /\ ShowsOnly(execs[x], stages) /\ Behind(execs[x], nodes, stages) =>
                ShowsOnly(execs[x], HandledStages(x)) /\ Behind(execs[x], HandledNodes(x), HandledStages(x))
    BY <1>1, HandledFollows
<1>3. Keeps(execs[x], execs[x])
    BY DEF Keeps
<1>4. ASSUME NEW ok \in BOOLEAN, Returned(x, execs[x], nodes, stages, ok)
      PROVE  PipesAre' /\ PipesFollow'
    BY <1>1, <1>2, <1>3, <1>4, ReturnedFollows
<1>5. ASSUME NEW ok \in BOOLEAN, Returned(x, execs[x], HandledNodes(x), HandledStages(x), ok)
      PROVE  PipesAre' /\ PipesFollow'
    BY <1>1, <1>2, <1>3, <1>5, ReturnedFollows
<1>6. ASSUME NEW T, Returned(x, [execs[x] EXCEPT !.taps = T], nodes, stages, TRUE)
      PROVE  PipesAre' /\ PipesFollow'
  <2>. DEFINE e == [execs[x] EXCEPT !.taps = T]
  <2>1. IsExec(execs[x]) /\ execs[x] = [k \in ExecFields |-> execs[x][k]]
    BY DEF RunsInv, ExecsAre, IsExec
  <2>2. /\ e = [k \in ExecFields |-> e[k]]
        /\ Keeps(execs[x], e) /\ e.pos = execs[x].pos /\ e.at = execs[x].at /\ e.run = execs[x].run
    BY <2>1 DEF ExecFields, Keeps
  <2>3. Returned(x, e, nodes, stages, TRUE)
    BY <1>6
  <2>. HIDE DEF e
  <2>4. IsExec(e)
    BY <2>1, <2>2 DEF IsExec
  <2>5. AtComponent(e, nodes, stages)
    BY <1>2, <2>2, <2>4 DEF AtComponent
  <2>6. ShowsOnly(execs[x], stages) /\ Behind(execs[x], nodes, stages) => ShowsOnly(e, stages) /\ Behind(e, nodes, stages)
    BY <2>2 DEF ShowsOnly, Shows, Behind
  <2>. QED BY <1>1, <2>2, <2>3, <2>5, <2>6, ReturnedFollows
<1>7. CASE RunsPause(x) \/ RunsUser(x)
    BY <1>5, <1>7 DEF RunsPause, RunsUser
<1>8. CASE RunsBreak(x) \/ GoesToBackground(x)
  <2>1. \E ok \in BOOLEAN : Returned(x, execs[x], nodes, stages, ok)
    BY <1>8 DEF RunsBreak, GoesToBackground
  <2>. QED BY <1>4, <2>1
<1>9. CASE StartsTap(x)
    BY <1>4, <1>6, <1>9 DEF StartsTap
<1>10. CASE DeletesTap(x)
    BY <1>4, <1>6, <1>10 DEF DeletesTap
<1>. QED BY <1>7, <1>8, <1>9, <1>10

LEMMA EmptyStageFollows ==
    ASSUME RunsInv, PipesAre, PipesFollow, NEW x \in Execs, EmptyStage(x)
    PROVE  PipesAre' /\ PipesFollow'
<1>. DEFINE e == execs[x]
            r == e.run
            l == e.pos.loop
            s == e.pos.stage
            len == Len(StageList(x))
            f == SetStage(stages, r, l, s, "success")
<1>1. /\ e.at = "begin" /\ e.at \in Executes /\ e.at \in Begun /\ ~e.seen /\ r \in RunIds /\ IsExec(e)
      /\ len = 0 /\ UNCHANGED <<apart, nodes>> /\ GoesOn(x, e, f, TRUE)
      /\ execs = [y \in Execs |-> execs[y]]
  <2>1. e.at = "begin" /\ StageList(x) = <<>> /\ UNCHANGED <<apart, nodes>> /\ GoesOn(x, e, f, TRUE)
    BY DEF EmptyStage, Place
  <2>. QED BY <2>1 DEF Begun, Executes, RunsInv, ExecsAre
<1>2. e.pos \in Position
    BY <1>1 DEF IsExec
<1>. HIDE DEF e, f, r, len
<1>3. l \in Nesting /\ s \in CompStages /\ s \in StageNames /\ s # "done" /\ "success" \in StageStatus /\ e.pos.i \in Nat \ {0}
  <2>1. l \in Nesting /\ s \in CompStages /\ e.pos.i \in Nat \ {0}
    BY <1>2 DEF Position
  <2>. HIDE DEF l, s
  <2>. QED BY <2>1 DEF StageNames, CompStages, StageStatus
<1>. HIDE DEF l, s
<1>4. StagesFit(stages) /\ NodesFit(nodes)
    BY DEF PipesAre
<1>5. /\ StagesFit(SetStage(stages, r, l, s, "success"))
      /\ SetStage(stages, r, l, s, "success")[<<r, l>>][s] = "success"
      /\ \A k \in RunIds, m \in Nesting, z \in StageNames : k # r \/ m # l \/ z # s =>
                SetStage(stages, r, l, s, "success")[<<k, m>>][z] = stages[<<k, m>>][z]
    BY <1>1, <1>3, <1>4, SetStageIs
<1>6. /\ StagesFit(f) /\ f[<<r, l>>][s] = "success"
      /\ \A k \in RunIds, m \in Nesting, z \in StageNames : k # r \/ m # l \/ z # s => f[<<k, m>>][z] = stages[<<k, m>>][z]
    BY <1>5 DEF f
<1>7. ASSUME NEW k \in RunIds, NEW m \in Nesting, k # r PROVE f[<<k, m>>] = stages[<<k, m>>]
  <2>1. \A z \in StageNames : f[<<k, m>>][z] = stages[<<k, m>>][z]
    BY <1>6, <1>7
  <2>. QED BY <1>4, <1>6, <2>1, PipeSame
<1>8. PICK g :
        /\ execs' = [execs EXCEPT ![x] = g] /\ IsExec(g)
        /\ Keeps(e, g)
        /\ GoesNext(e, g, f, TRUE, len) \/ GoesToTheEnd(e, g, f, TRUE, len) \/ GoesAfter(e, g, f, TRUE, len)
    BY <1>1, GoesOnIs DEF len
<1>9. PipesAre' /\ \A k \in RunIds, m \in Nesting : k # r => stages'[<<k, m>>] = f[<<k, m>>]
  <2>1. TRUE \in BOOLEAN /\ e.run \in RunIds
    BY <1>1 DEF r
  <2>2. StagesFit(stages') /\ \A k \in RunIds, m \in Nesting : k # e.run => stages'[<<k, m>>] = f[<<k, m>>]
    <3>1. IsExec(e) /\ StagesFit(f)
        BY <1>1, <1>6
    <3>2. \E ok \in BOOLEAN :
            GoesNext(e, g, f, ok, len) \/ GoesToTheEnd(e, g, f, ok, len) \/ GoesAfter(e, g, f, ok, len)
        BY <1>8
    <3>. QED BY <2>1, <3>1, <3>2, GoesOnFits
  <2>3. NodesFit(nodes')
    BY <1>1, <1>4
  <2>. QED BY <2>2, <2>3 DEF PipesAre, r
<1>10. ASSUME ShowsOnly(e, stages) PROVE ShowsOnly(g, stages') /\ Behind(g, nodes', stages')
  <2>1. ShowsOnly(e, f)
    BY <1>1, <1>3, <1>6, <1>10 DEF ShowsOnly, Lit, r
  <2>2. Finished(e, f) /\ ~More(e, TRUE, len)
    BY <1>1, <1>3, <1>6 DEF Finished, Lit, More, r, l, s
  <2>. QED BY <1>1, <1>6, <1>8, <2>1, <2>2, GoesOnFollows DEF r
<1>11. /\ execs'[x] = g /\ g.run = r /\ g.seen = e.seen /\ g.at \in Executes
       /\ \A y \in Execs : y # x => execs'[y] = execs[y]
    BY <1>1, <1>8 DEF Keeps, GoesNext, GoesToTheEnd, GoesAfter, Executes, r
<1>12. \A y \in Execs : y # x => Stands(execs[y], execs'[y])
    BY <1>11 DEF Stands
<1>13. PipesFollow'
    BY <1>1, <1>7, <1>9, <1>10, <1>11, <1>12, RunFollows DEF e, r
<1>. QED BY <1>9, <1>13

LEMMA WrapsUpFollows ==
    ASSUME RunsInv, PipesAre, PipesFollow, NEW x \in Execs, WrapsUp(x)
    PROVE  PipesAre' /\ PipesFollow'
<1>1. /\ execs[x].at = "wrapup" /\ execs[x].run \in RunIds /\ UNCHANGED <<nodes, apart>>
      /\ stages' = IF execs[x].seen THEN stages ELSE SetStage(stages, execs[x].run, 1, "done", "success")
    BY DEF WrapsUp, RunDone, RunsInv, ExecsAre
<1>2. /\ \A y \in Execs : y # x => execs'[y].at = execs[y].at
      /\ execs'[x].at = "done"
      /\ \A y \in Execs : execs'[y].run = execs[y].run /\ execs'[y].seen = execs[y].seen /\ execs'[y].pos = execs[y].pos
    BY WrapsUpKeepsRuns
<1>3. \A y \in Execs : y # x => Stands(execs[y], execs'[y])
    BY <1>2 DEF Stands
<1>4. CASE execs[x].seen
    BY <1>1, <1>2, <1>3, <1>4, StillFollows
<1>5. CASE ~execs[x].seen
  <2>. DEFINE r == execs[x].run
  <2>1. 1 \in Nesting /\ "done" \in StageNames /\ "success" \in StageStatus /\ StagesFit(stages) /\ NodesFit(nodes)
    BY ScorchAssumption DEF StageNames, StageStatus, PipesAre
  <2>2. stages' = SetStage(stages, r, 1, "done", "success")
    BY <1>1, <1>5
  <2>. HIDE DEF r
  <2>3. r = execs[x].run /\ r \in RunIds
    BY <1>1 DEF r
  <2>4. /\ StagesFit(stages') /\ stages'[<<r, 1>>]["done"] = "success"
        /\ \A k \in RunIds, m \in Nesting, z \in StageNames : k # r \/ m # 1 \/ z # "done" =>
                stages'[<<k, m>>][z] = stages[<<k, m>>][z]
    BY <2>1, <2>2, <2>3, SetStageIs
  <2>5. PipesAre'
    BY <1>1, <2>1, <2>4 DEF PipesAre
  <2>6. ASSUME NEW k \in RunIds, NEW m \in Nesting, k # r
        PROVE  stages'[<<k, m>>] = stages[<<k, m>>] /\ nodes'[<<k, m>>] = nodes[<<k, m>>]
    <3>1. \A z \in StageNames : stages'[<<k, m>>][z] = stages[<<k, m>>][z]
        BY <2>4, <2>6
    <3>. QED BY <1>1, <2>1, <2>4, <3>1, PipeSame
  <2>7. ASSUME ShowsOnly(execs[x], stages) PROVE ShowsOnly(execs'[x], stages')
    <3>1. \A l \in Nesting, s \in StageNames : Shows(execs[x], l, s) => l = 1 /\ s = "done"
        BY <1>1 DEF Shows, Begun
    <3>2. \A l \in Nesting, s \in StageNames : stages'[<<r, l>>][s] \notin Lit
        BY <2>3, <2>4, <2>7, <3>1 DEF ShowsOnly, Lit
    <3>. QED BY <1>2, <2>3, <3>2 DEF ShowsOnly
  <2>8. Behind(execs'[x], nodes', stages')
    BY <1>2 DEF Behind, Begun
  <2>9. execs[x].at \in Executes /\ execs'[x].at \in Executes \cup {"done"}
    BY <1>1, <1>2 DEF Executes
  <2>10. PipesFollow'
    BY <1>1, <1>2, <1>3, <1>5, <2>3, <2>6, <2>7, <2>8, <2>9, RunFollows
  <2>. QED BY <2>5, <2>10
<1>. QED BY <1>4, <1>5

\* A new pipeline shows nothing.
LEMMA NewPipeline ==
    /\ NewStages \in [StageNames -> StageStatus] /\ NewStages.done = "unknown"
    /\ \A s \in StageNames : NewStages[s] \notin Lit
    /\ \A l \in Nesting : /\ NewNodes(l) = [s \in CompStages |-> NewNodes(l)[s]]
                          /\ \A s \in CompStages : NewNodes(l)[s] \in [InStage(l, s) -> NodeStatus]
<1>1. NewStages = [s \in StageNames |-> "unknown"]
    BY DEF NewStages, StageNames
<1>2. "done" \in StageNames /\ "unknown" \in StageStatus /\ "unknown" \notin Lit /\ "unknown" \in NodeStatus
    BY DEF StageNames, StageStatus, Lit, NodeStatus
<1>3. \A l \in Nesting : NewNodes(l) = [s \in CompStages |-> [c \in InStage(l, s) |-> "unknown"]]
    BY DEF NewNodes
<1>. QED BY <1>1, <1>2, <1>3

\* Pipelines of which some are new.
LEMMA PipelinesAnew ==
    ASSUME PipesAre, NEW R,
           nodes' = [p \in Pipes |-> IF p[1] \in R THEN NewNodes(p[2]) ELSE nodes[p]],
           stages' = [p \in Pipes |-> IF p[1] \in R THEN NewStages ELSE stages[p]]
    PROVE  /\ PipesAre'
           /\ \A k \in RunIds, m \in Nesting :
                /\ k \in R => \A z \in StageNames : stages'[<<k, m>>][z] \notin Lit
                /\ k \notin R => stages'[<<k, m>>] = stages[<<k, m>>] /\ nodes'[<<k, m>>] = nodes[<<k, m>>]
<1>1. StagesFit(stages) /\ NodesFit(nodes)
    BY DEF PipesAre
<1>2. StagesFit(stages')
    BY <1>1, NewPipeline DEF StagesFit
<1>3. NodesFit(nodes')
  <2>1. nodes' = [p \in Pipes |-> nodes'[p]]
    OBVIOUS
  <2>2. ASSUME NEW p \in Pipes
        PROVE  /\ nodes'[p] = [s \in CompStages |-> nodes'[p][s]]
               /\ \A s \in CompStages : nodes'[p][s] \in [InStage(p[2], s) -> NodeStatus]
    <3>1. p[2] \in Nesting
        BY DEF Pipes
    <3>2. CASE p[1] \in R
      <4>1. nodes'[p] = NewNodes(p[2])
        BY <3>2
      <4>. QED BY <3>1, <4>1, NewPipeline
    <3>3. CASE p[1] \notin R
        BY <1>1, <3>3 DEF NodesFit
    <3>. QED BY <3>2, <3>3
  <2>. QED BY <2>1, <2>2 DEF NodesFit
<1>4. ASSUME NEW k \in RunIds, NEW m \in Nesting
      PROVE  /\ k \in R => \A z \in StageNames : stages'[<<k, m>>][z] \notin Lit
             /\ k \notin R => stages'[<<k, m>>] = stages[<<k, m>>] /\ nodes'[<<k, m>>] = nodes[<<k, m>>]
  <2>1. <<k, m>> \in Pipes /\ <<k, m>>[1] = k
    BY DEF Pipes
  <2>. QED BY <2>1, NewPipeline
<1>. QED BY <1>2, <1>3, <1>4 DEF PipesAre

\* The first executor drops the pipelines of its run.
LEMMA ExecuteFollows ==
    ASSUME RunsInv, PipesAre, PipesFollow, NEW x \in Execs, Execute(x)
    PROVE  PipesAre' /\ PipesFollow'
<1>. DEFINE r == execs[x].run
            others == {y \in Execs \ {x} : AtWork(y)}
<1>1. /\ execs[x].at = "added" /\ r \in RunIds /\ IsExec(execs[x])
      /\ execs[x].pos = First(1, "configure") /\ execs = [y \in Execs |-> execs[y]]
    BY DEF Execute, RunsInv, ExecsAre
<1>2. CASE execs[x].seen
  <2>1. execs' = [execs EXCEPT ![x] = [execs[x] EXCEPT !.at = "wrapup"]] /\ UNCHANGED <<nodes, stages, apart>>
    BY <1>2 DEF Execute
  <2>2. [execs[x] EXCEPT !.at = "wrapup"].seen = execs[x].seen
    BY <1>1, ExecChanges
  <2>3. execs'[x] = [execs[x] EXCEPT !.at = "wrapup"] /\ \A y \in Execs : y # x => execs'[y] = execs[y]
    BY <1>1, <2>1
  <2>4. execs'[x].seen /\ execs[x].seen
    BY <1>2, <2>2, <2>3
  <2>5. \A y \in Execs : y # x => Stands(execs[y], execs'[y])
    BY <2>3 DEF Stands
  <2>. QED BY <2>1, <2>4, <2>5, StillFollows
<1>3. CASE ~execs[x].seen
  <2>. DEFINE g == [execs[x] EXCEPT !.at = "begin"]
  <2>1. /\ execs' = [execs EXCEPT ![x] = g]
        /\ nodes' = [p \in Pipes |-> IF p[1] \in {r} THEN NewNodes(p[2]) ELSE nodes[p]]
        /\ stages' = [p \in Pipes |-> IF p[1] \in {r} THEN NewStages ELSE stages[p]]
        /\ apart' = IF others = {} THEN apart ELSE apart \ (others \cup {x})
    BY <1>3 DEF Execute
  <2>2. g.at = "begin" /\ g.run = r /\ g.seen = execs[x].seen /\ g.pos = First(1, "configure")
    BY <1>1, ExecChanges
  <2>. HIDE DEF g
  <2>3. execs'[x] = g /\ \A y \in Execs : y # x => execs'[y] = execs[y]
    BY <1>1, <2>1
  <2>. DEFINE R == {r}
  <2>4. /\ nodes' = [p \in Pipes |-> IF p[1] \in R THEN NewNodes(p[2]) ELSE nodes[p]]
        /\ stages' = [p \in Pipes |-> IF p[1] \in R THEN NewStages ELSE stages[p]]
    BY <2>1
  <2>. HIDE DEF R
  <2>5. /\ PipesAre'
        /\ \A k \in RunIds, m \in Nesting :
            /\ k \in R => \A z \in StageNames : stages'[<<k, m>>][z] \notin Lit
            /\ k \notin R => stages'[<<k, m>>] = stages[<<k, m>>] /\ nodes'[<<k, m>>] = nodes[<<k, m>>]
    BY <2>4, PipelinesAnew
  <2>6. /\ PipesAre'
        /\ \A k \in RunIds, m \in Nesting :
            /\ k = r => \A z \in StageNames : stages'[<<k, m>>][z] \notin Lit
            /\ k # r => stages'[<<k, m>>] = stages[<<k, m>>] /\ nodes'[<<k, m>>] = nodes[<<k, m>>]
    BY <2>5 DEF R
  <2>7. Behind(g, nodes', stages')
    <3>1. g.pos.i = 1
        BY <2>2 DEF First
    <3>. QED BY <2>2, <3>1 DEF Behind
  <2>8. ASSUME NEW k \in RunIds, Ran(k)' \subseteq apart'
        PROVE  /\ \A l \in Nesting, s \in StageNames : stages'[<<k, l>>][s] \in Lit =>
                    \E y \in Ran(k)' : Shows(execs'[y], l, s)
               /\ \A y \in Ran(k)' : Behind(execs'[y], nodes', stages')
    <3>1. CASE k = r
      <4>1. x \in Ran(k)'
        BY <1>3, <2>2, <2>3, <3>1 DEF Ran, Executes
      <4>2. others = {}
      <5>. HIDE DEF others
      <5>. QED BY <2>1, <2>8, <4>1
      <4>3. \A y \in Ran(k)' : y # x => execs'[y].at \notin Begun
        BY <2>3, <4>2 DEF Ran, AtWork, Begun
      <4>4. \A y \in Ran(k)' : y # x => Behind(execs'[y], nodes', stages')
        BY <4>3 DEF Behind
      <4>. QED BY <2>3, <2>6, <2>7, <3>1, <4>4
    <3>2. CASE k # r
      <4>1. Ran(k)' = Ran(k) /\ \A y \in Ran(k) : y # x /\ y \in Execs /\ execs'[y] = execs[y] /\ execs[y].run = k
        BY <1>1, <2>2, <2>3, <3>2 DEF Ran
      <4>2. Ran(k) \subseteq apart
        BY <2>1, <2>8, <4>1
      <4>3. /\ \A l \in Nesting, s \in StageNames : stages[<<k, l>>][s] \in Lit => \E y \in Ran(k) : Shows(execs[y], l, s)
            /\ \A y \in Ran(k) : Behind(execs[y], nodes, stages)
        BY <4>2 DEF PipesFollow
      <4>4. \A m \in Nesting : stages'[<<k, m>>] = stages[<<k, m>>] /\ nodes'[<<k, m>>] = nodes[<<k, m>>]
        BY <2>6, <3>2
      <4>5. ASSUME NEW y \in Ran(k) PROVE Behind(execs'[y], nodes', stages')
        <5>1. execs[y].pos.loop \in Nesting /\ Stands(execs[y], execs'[y])
            BY <4>1 DEF RunsInv, ExecsAre, IsExec, Position, Stands
        <5>. QED BY <4>1, <4>3, <4>4, <5>1, BehindStands
      <4>. QED BY <4>1, <4>3, <4>4, <4>5
    <3>. QED BY <3>1, <3>2
  <2>. QED BY <2>6, <2>8 DEF PipesFollow
<1>. QED BY <1>2, <1>3

LEMMA DeleteFollows ==
    ASSUME RunsInv, PipesAre, PipesFollow, DeletePipeline
    PROVE  PipesAre' /\ PipesFollow'
<1>1. /\ nodes' = [p \in Pipes |-> NewNodes(p[2])] /\ stages' = [p \in Pipes |-> NewStages]
      /\ apart' = apart \ {x \in Execs : AtWork(x)} /\ execs' = execs
    BY DEF DeletePipeline
<1>2. /\ nodes' = [p \in Pipes |-> IF p[1] \in RunIds THEN NewNodes(p[2]) ELSE nodes[p]]
      /\ stages' = [p \in Pipes |-> IF p[1] \in RunIds THEN NewStages ELSE stages[p]]
  <2>1. \A p \in Pipes : p[1] \in RunIds
    BY DEF Pipes
  <2>. QED BY <1>1, <2>1
<1>3. /\ PipesAre'
      /\ \A k \in RunIds, m \in Nesting : \A z \in StageNames : stages'[<<k, m>>][z] \notin Lit
    BY <1>2, PipelinesAnew
<1>4. ASSUME NEW r \in RunIds, Ran(r)' \subseteq apart', NEW x \in Ran(r)' PROVE Behind(execs'[x], nodes', stages')
  <2>1. execs'[x].at \notin Begun
    BY <1>1, <1>4 DEF Ran, AtWork, Begun
  <2>. QED BY <2>1 DEF Behind
<1>. QED BY <1>3, <1>4 DEF PipesFollow

LEMMA InitFollows == ScorchInit => PipesAre /\ PipesFollow
<1>. SUFFICES ASSUME ScorchInit PROVE PipesAre /\ PipesFollow
    OBVIOUS
<1>1. nodes = [p \in Pipes |-> NewNodes(p[2])] /\ stages = [p \in Pipes |-> NewStages]
    BY DEF ScorchInit
<1>2. StagesFit(stages)
    BY <1>1, NewPipeline DEF StagesFit
<1>3. NodesFit(nodes)
  <2>1. ASSUME NEW p \in Pipes
        PROVE  /\ nodes[p] = [s \in CompStages |-> nodes[p][s]]
               /\ \A s \in CompStages : nodes[p][s] \in [InStage(p[2], s) -> NodeStatus]
    <3>1. p[2] \in Nesting /\ nodes[p] = NewNodes(p[2])
        BY <1>1 DEF Pipes
    <3>. QED BY <3>1, NewPipeline
  <2>. QED BY <1>1, <2>1 DEF NodesFit
<1>4. ASSUME NEW k \in RunIds, NEW m \in Nesting PROVE \A z \in StageNames : stages[<<k, m>>][z] \notin Lit
  <2>1. <<k, m>> \in Pipes
    BY DEF Pipes
  <2>. QED BY <1>1, <2>1, NewPipeline
<1>5. \A r \in RunIds : Ran(r) = {}
  <2>1. \A x \in Execs : execs[x].at = "idle"
    BY DEF ScorchInit
  <2>. QED BY <2>1 DEF Ran, Executes
<1>. QED BY <1>2, <1>3, <1>4, <1>5 DEF PipesAre, PipesFollow

\* The requests that do not execute, cancels and terminals.
LEMMA OthersFollow ==
    ASSUME RunsInv, PipesAre, PipesFollow,
           \/ StopExperiment \/ \E r \in RunIds : CancelPipeline(r) \/ \E x \in Execs : StartPipeline(x, r)
           \/ \E x \in Execs : AddCanceler(x) \/ KillTerminal(x)
           \/ UNCHANGED scorchVars
    PROVE  PipesAre' /\ PipesFollow'
<1>1. execs = [y \in Execs |-> execs[y]] /\ \A y \in Execs : IsExec(execs[y])
    BY DEF RunsInv, ExecsAre
<1>2. CASE StopExperiment \/ \E r \in RunIds : CancelPipeline(r)
  <2>1. \A y \in Execs : Stands(execs[y], execs'[y])
    BY <1>2, CancelKeepsRuns DEF Stands
  <2>2. UNCHANGED <<nodes, stages, apart>>
    BY <1>2 DEF StopExperiment, CancelPipeline
  <2>. QED BY <2>1, <2>2, StillFollows
<1>3. ASSUME NEW x \in Execs, (\E r \in RunIds : StartPipeline(x, r)) \/ AddCanceler(x)
      PROVE  PipesAre' /\ PipesFollow'
  <2>1. UNCHANGED <<nodes, stages, apart>>
    BY <1>3 DEF StartPipeline, AddCanceler
  <2>2. \A y \in Execs : y # x => Stands(execs[y], execs'[y])
    BY <1>1, <1>3 DEF StartPipeline, AddCanceler, Stands
  <2>3. execs[x].at \notin Executes \cup {"done"}
    BY <1>3 DEF StartPipeline, AddCanceler, Executes
  <2>4. execs'[x].at \notin Executes \cup {"done"}
    <3>1. CASE AddCanceler(x)
      <4>1. execs' = [execs EXCEPT ![x] = [execs[x] EXCEPT !.at = "added"]]
        BY <3>1 DEF AddCanceler
      <4>2. execs'[x] = [execs[x] EXCEPT !.at = "added"]
        BY <1>1, <4>1
      <4>3. execs'[x].at = "added"
        BY <1>1, <4>2, ExecChanges
      <4>. QED BY <4>3 DEF Executes
    <3>2. ASSUME NEW r \in RunIds, StartPipeline(x, r) PROVE execs'[x].at \notin Executes \cup {"done"}
      <4>1. execs' = [execs EXCEPT ![x] = [execs[x] EXCEPT !.at = "checked", !.run = r, !.seen = status.running]]
        BY <1>1, <3>2 DEF StartPipeline
      <4>2. execs'[x] = [execs[x] EXCEPT !.at = "checked", !.run = r, !.seen = status.running]
        BY <1>1, <4>1
      <4>3. execs[x] = [k \in ExecFields |-> execs[x][k]]
        BY <1>1 DEF IsExec
      <4>4. execs'[x].at = "checked"
        BY <4>2, <4>3 DEF ExecFields
      <4>. QED BY <4>4 DEF Executes
    <3>. QED BY <1>3, <3>1, <3>2
  <2>. QED BY <2>1, <2>2, <2>3, <2>4, StillFollows
<1>4. CASE (\E x \in Execs : KillTerminal(x)) \/ UNCHANGED scorchVars
  <2>1. UNCHANGED <<execs, nodes, stages, apart>>
    BY <1>4 DEF KillTerminal, scorchVars
  <2>. QED BY <2>1, StillFollows DEF Stands
<1>. QED BY <1>2, <1>3, <1>4

LEMMA InitScorch == ScorchInit => ScorchInv
BY InitRuns, InitFollows DEF ScorchInv

LEMMA NextScorch == ScorchInv /\ [ScorchNext]_scorchVars => ScorchInv'
<1>. SUFFICES ASSUME RunsInv, PipesAre, PipesFollow, [ScorchNext]_scorchVars PROVE PipesAre' /\ PipesFollow'
    BY NextRuns DEF ScorchInv
<1>1. CASE DeletePipeline
    BY <1>1, DeleteFollows
<1>2. CASE StopExperiment \/ \E r \in RunIds : CancelPipeline(r) \/ \E x \in Execs : StartPipeline(x, r)
    BY <1>2, OthersFollow
<1>3. ASSUME NEW x \in Execs, AddCanceler(x) \/ ExitTerminal(x) \/ TerminalCancelled(x)
      PROVE  PipesAre' /\ PipesFollow'
    BY <1>3, OthersFollow DEF ExitTerminal, TerminalCancelled
<1>4. ASSUME NEW x \in Execs, Execute(x) PROVE PipesAre' /\ PipesFollow'
    BY <1>4, ExecuteFollows
<1>5. ASSUME NEW x \in Execs, WrapsUp(x) PROVE PipesAre' /\ PipesFollow'
    BY <1>5, WrapsUpFollows
<1>6. ASSUME NEW x \in Execs, EmptyStage(x) PROVE PipesAre' /\ PipesFollow'
    BY <1>6, EmptyStageFollows
<1>7. ASSUME NEW x \in Execs, BeginComponent(x) PROVE PipesAre' /\ PipesFollow'
    BY <1>7, BeginFollows
<1>8. ASSUME NEW x \in Execs,
             GoesToBackground(x) \/ RunsPause(x) \/ RunsUser(x) \/ RunsBreak(x) \/ StartsTap(x) \/ DeletesTap(x)
      PROVE  PipesAre' /\ PipesFollow'
    BY <1>8, ExecutorFollows
<1>9. CASE UNCHANGED scorchVars
    BY <1>9, OthersFollow
<1>10. CASE ScorchNext
    BY <1>1, <1>2, <1>3, <1>4, <1>5, <1>6, <1>7, <1>8, <1>10 DEF ScorchNext
<1>. QED BY <1>9, <1>10

\* The state of every run stays well-formed: where its executor is, its taps,
\* what is in the background, and the status of every stage and component of
\* its pipelines.
THEOREM ScorchTypes == ScorchSpec => []ScorchTypeOK
<1>1. ScorchInv => ScorchTypeOK
  <2>. SUFFICES ASSUME ScorchInv PROVE ScorchTypeOK
    OBVIOUS
  <2>1. \A x \in Execs : execs[x].at \in {"idle", "checked", "added", "begin", "end", "wrapup", "done"}
    BY DEF ScorchInv, RunsInv, ExecsAre, IsExec, ExecPlaces
  <2>2. /\ cancelers \in [RunIds -> Execs \cup {NoExec}]
        /\ \A t \in hostTaps : t[1] \in Execs /\ Kind[t[2]] = "tap"
        /\ terminals \subseteq Execs
    BY DEF ScorchInv, RunsInv, Cancels, TapsAre, AtTerminal
  <2>3. /\ \A b \in inBackground : b.name \in Background /\ b.stage \in {"configure", "start"}
        /\ \A b, d \in backgrounded : b.stage = d.stage /\ b.name = d.name => b = d
    BY DEF ScorchInv, RunsInv, InTheBackground
  <2>4. ASSUME NEW p \in Pipes, NEW s \in CompStages, NEW c \in InStage(p[2], s)
        PROVE  nodes[p][s][c] \in {"unknown", "running", "unstable", "background"} \cup Over
    <3>1. nodes[p][s] \in [InStage(p[2], s) -> NodeStatus]
        BY DEF ScorchInv, PipesAre, NodesFit
    <3>. QED BY <3>1 DEF NodeStatus, Over
  <2>5. \A p \in Pipes : stages[p].done \in {"unknown", "running", "success"}
    BY DEF ScorchInv, PipesAre, StagesFit
  <2>. QED BY <2>1, <2>2, <2>3, <2>4, <2>5 DEF ScorchTypeOK
<1>. QED BY <1>1, InitScorch, NextScorch, PTL DEF ScorchSpec

\* However many runs are started, cancelled and stopped, a run at work can be
\* cancelled: a cancel, or the stop of the experiment, finds its cancel
\* function, unless a second start of the run replaced it.
THEOREM RunsCanBeCancelled == ScorchSpec => []RunsCancelable
<1>1. ScorchInv => RunsCancelable
    BY DEF ScorchInv, RunsInv, Cancels, RunsCancelable, AtWork, Executes
<1>. QED BY <1>1, InitScorch, NextScorch, PTL DEF ScorchSpec

\* A run that is over, at whatever component it failed or was cancelled, is
\* over in every respect: no stage of its pipelines is shown as running, and
\* it leaves no tap, nothing in the background and no terminal.
THEOREM RunsAreSettled == ScorchSpec => []RunsSettle
<1>1. ScorchInv => PipelineSettles
  <2>. SUFFICES ASSUME ScorchInv, NEW p \in Pipes,
                       \A x \in Ran(p[1]) : execs[x].at = "done" /\ x \in apart,
                       NEW s \in DOMAIN stages[p]
                PROVE  stages[p][s] \notin {"running", "unstable"}
    <3>1. \A q \in Pipes :
            {x \in Execs : execs[x].run = q[1] /\ (AtWork(x) \/ execs[x].at = "done") /\ ~execs[x].seen} = Ran(q[1])
        BY DEF Ran, AtWork, Executes
    <3>. QED BY <3>1 DEF PipelineSettles
  <2>1. p[1] \in RunIds /\ p[2] \in Nesting /\ p = <<p[1], p[2]>>
    BY DEF Pipes
  <2>2. s \in StageNames
    BY DEF ScorchInv, PipesAre, StagesFit
  <2>3. stages[<<p[1], p[2]>>][s] \in Lit => \E x \in Ran(p[1]) : Shows(execs[x], p[2], s)
    BY <2>1, <2>2 DEF ScorchInv, PipesFollow
  <2>4. \A x \in Ran(p[1]) : ~Shows(execs[x], p[2], s)
    BY DEF Shows, Begun
  <2>. QED BY <2>1, <2>3, <2>4 DEF Lit
<1>2. ScorchInv => RunsLeaveNothing
  <2>. SUFFICES ASSUME ScorchInv, NEW x \in apart, execs[x].at = "done", ~execs[x].seen
                PROVE  /\ \A t \in hostTaps : t[1] = x => t[2] \in execs[x].kept
                       /\ x \notin overwritten => \A b \in inBackground : b.exec # x
                       /\ x \in terminals => execs[x].cancelled
    BY DEF RunsLeaveNothing
  <2>1. \A t \in hostTaps : t[1] = x => t[2] \in execs[x].kept
    BY DEF ScorchInv, RunsInv, TapsAre
  <2>2. x \notin overwritten => \A b \in inBackground : b.exec # x
    BY DEF ScorchInv, RunsInv, InTheBackground, Executes
  <2>3. x \in terminals => execs[x].cancelled
    BY DEF ScorchInv, RunsInv, AtTerminal
  <2>. QED BY <2>1, <2>2, <2>3
<1>. QED BY <1>1, <1>2, InitScorch, NextScorch, PTL DEF ScorchSpec, RunsSettle

(***************************************************************************)
(* Guests. GuestsKeptApart speaks of commands that were sent and of        *)
(* requests that are reading. What makes it inductive is what the two      *)
(* mutexes protect: the namespace's filter is that of the request that is  *)
(* about to send its command, and while a request holds the mounts nobody  *)
(* but it turns the entry of a VM on or off.                               *)
(***************************************************************************)

GuestKinds == {"none", "exec", "send", "mount", "unmount", "read"}
GuestPoints == {"idle", "client", "filter", "send", "await", "entry", "drain", "rlock", "reading"}
GuestOp == [kind : GuestKinds, vm : Guests \cup {NoRequest}]
GuestLocks == [vm : Guests \cup {NoRequest}, by : GuestRequests \cup {NoRequest}, at : Nat]
Mount == [there : BOOLEAN, users : Int, lock : GuestLocks]

\* The variables are in their types, and a request does at each stage only
\* what leads to it.
GuestShape ==
    /\ at \in [GuestRequests -> GuestPoints]
    /\ op \in [GuestRequests -> GuestOp]
    /\ target = [q \in GuestRequests |-> target[q]]
    /\ readers = [q \in GuestRequests |-> readers[q]]
    /\ mounts \in [Guests -> Mount]
    /\ guestOps \in Nat

GuestStages ==
    \A q \in GuestRequests :
        /\ at[q] # "idle" => Of(q) \in Guests
        /\ at[q] = "client" => Asked(q) \in {"exec", "send", "mount"}
        /\ at[q] \in {"filter", "send"} => Asked(q) \in {"exec", "send", "mount", "unmount"}
        /\ at[q] = "await" => Asked(q) \in {"exec", "send"}
        /\ at[q] = "drain" => Asked(q) = "unmount"
        /\ at[q] \in {"rlock", "reading"} => Asked(q) = "read"

\* The mutex of the commands: who is about to send one has set the filter.
FilterHeld ==
    \A q \in GuestRequests : at[q] = "send" => ccMu = q /\ filter = target[q]

\* A request between its entry and the end of its mount or unmount.
Changing(q) == at[q] \in {"client", "filter", "send", "drain"} /\ Asked(q) \in {"mount", "unmount"}

\* Such a request holds the mounts. A mount is then not there yet; an unmount
\* that has the mount's lock has it alone.
MountsHeld ==
    \A q \in GuestRequests : Changing(q) =>
        /\ mountsMu = q
        /\ mounts[Of(q)].there <=> Asked(q) = "unmount"
        /\ at[q] \in {"filter", "send"} /\ Asked(q) = "unmount" =>
            /\ mounts[Of(q)].lock \in closed
            /\ \A p \in GuestRequests : readers[p] # mounts[Of(q)].lock

\* An entry's lock is its VM's, and the file system is there unless something
\* else ended it.
MountsTrue ==
    \A v \in Guests : mounts[v].there => mounts[v].lock.vm = v /\ v \in attached \cup disturbed

\* Who found a mount has its lock; when the entry has gone, the lock is closed
\* for good.
ReadersHold ==
    \A q \in GuestRequests :
        /\ at[q] \in {"rlock", "reading"} =>
            /\ target[q][1].vm = Of(q)
            /\ \/ mounts[Of(q)].there /\ mounts[Of(q)].lock = target[q][1]
               \/ at[q] = "rlock" /\ target[q][1] \in closed
        /\ at[q] = "reading" => readers[q] = target[q][1]

GuestsInv == GuestShape /\ GuestStages /\ FilterHeld /\ MountsHeld /\ MountsTrue /\ ReadersHold /\ CommandsReachTheirGuest

\* The initial state satisfies the inductive invariant.
LEMMA GuestsInitInv == GuestsInit => GuestsInv
BY DEF GuestsInit, GuestsInv, GuestShape, GuestStages, FilterHeld, MountsHeld, MountsTrue, ReadersHold, Changing, Mount, GuestLocks, GuestOp, GuestPoints,
    Absent, NoLock, NoOp, GuestKinds, CommandsReachTheirGuest

\* What a request is asked is an operation.
LEMMA GuestOpsTyped ==
    /\ NoOp \in GuestOp
    /\ \A v \in Guests : \A k \in GuestKinds : [kind |-> k, vm |-> v] \in GuestOp
    /\ \A o \in GuestOp : [o EXCEPT !.kind = "exec"] \in GuestOp
    /\ \A l \in GuestLocks : [there |-> TRUE, users |-> 1, lock |-> l] \in Mount
    /\ Absent \in Mount
BY DEF NoOp, GuestOp, GuestKinds, Mount, Absent, GuestLocks, NoLock

\* Every step keeps the types.
LEMMA GuestShapeStep ==
    ASSUME GuestsInv, [GuestsNext]_guestVars
    PROVE  GuestShape'
<1> USE DEF GuestsInv, GuestShape, GuestPoints, Of, ToAt, Done
<1>1. CASE UNCHANGED guestVars
    BY <1>1 DEF guestVars
<1>2. CASE UnmountExperiment
    BY <1>2 DEF UnmountExperiment, eventRest
<1>3. ASSUME NEW v \in Guests, Connect(v) PROVE GuestShape'
    BY <1>3 DEF Connect, eventRest
<1>4. ASSUME NEW v \in Guests, Relaunch(v) PROVE GuestShape'
    BY <1>4 DEF Relaunch, eventRest
<1>5. ASSUME NEW q \in GuestRequests, NEW v \in Guests,
             NEW kind \in {"exec", "send", "mount", "unmount", "read"}, BeginRequest(q, v, kind)
      PROVE  GuestShape'
    <2>1. [kind |-> kind, vm |-> v] \in GuestOp
        BY DEF GuestOp, GuestKinds
    <2>. QED BY <1>5, <2>1 DEF BeginRequest, mountVars, inGuestVars
<1>6. ASSUME NEW q \in GuestRequests, C2Client(q) PROVE GuestShape'
    BY <1>6, GuestOpsTyped DEF C2Client, mountVars, inGuestVars
<1>7. ASSUME NEW q \in GuestRequests, C2NotActive(q) PROVE GuestShape'
    BY <1>7, GuestOpsTyped DEF C2NotActive, mountVars, inGuestVars
<1>8. ASSUME NEW q \in GuestRequests, Filters(q) PROVE GuestShape'
    BY <1>8, GuestOpsTyped DEF Filters, mountVars, inGuestVars, SetFilter
<1>9. ASSUME NEW q \in GuestRequests, SendCommand(q) PROVE GuestShape'
    BY <1>9, GuestOpsTyped DEF SendCommand, mountVars, inGuestVars, Issue
<1>10. ASSUME NEW q \in GuestRequests, CommandFails(q) PROVE GuestShape'
    BY <1>10, GuestOpsTyped DEF CommandFails, mountVars, inGuestVars
<1>11. ASSUME NEW q \in GuestRequests, Respond(q) PROVE GuestShape'
    BY <1>11, GuestOpsTyped DEF Respond, mountVars, inGuestVars
<1>12. ASSUME NEW q \in GuestRequests, WaitForResponse(q) PROVE GuestShape'
    BY <1>12, GuestOpsTyped DEF WaitForResponse, mountVars, inGuestVars
<1>13. ASSUME NEW q \in GuestRequests, ResponseTimeout(q) PROVE GuestShape'
    BY <1>13, GuestOpsTyped DEF ResponseTimeout, mountVars, inGuestVars
<1>14. ASSUME NEW q \in GuestRequests, MountVM(q) PROVE GuestShape'
    <2>1. Of(q) \in Guests
        BY <1>14 DEF MountVM, GuestStages
    <2>2. [mounts[Of(q)] EXCEPT !.users = mounts[Of(q)].users + 1] \in Mount
        BY <2>1 DEF Mount
    <2>. QED BY <1>14, <2>1, <2>2, GuestOpsTyped DEF MountVM
<1>15. ASSUME NEW q \in GuestRequests, MountFilesystem(q) PROVE GuestShape'
    <2>1. Of(q) \in Guests /\ NewLock(q) \in GuestLocks
        BY <1>15 DEF MountFilesystem, NewLock, GuestStages, GuestLocks
    <2>. QED BY <1>15, <2>1, GuestOpsTyped DEF MountFilesystem
<1>16. ASSUME NEW q \in GuestRequests, UnmountVM(q) PROVE GuestShape'
    <2>1. Of(q) \in Guests
        BY <1>16 DEF UnmountVM, GuestStages
    <2>2. [mounts[Of(q)] EXCEPT !.users = mounts[Of(q)].users - 1] \in Mount
        BY <2>1 DEF Mount
    <2>. QED BY <1>16, <2>1, <2>2, GuestOpsTyped DEF UnmountVM
<1>17. ASSUME NEW q \in GuestRequests, LockMount(q) PROVE GuestShape'
    BY <1>17, GuestOpsTyped DEF LockMount, mountVars, inGuestVars
<1>18. ASSUME NEW q \in GuestRequests, UnmountFilesystem(q) PROVE GuestShape'
    BY <1>18, GuestOpsTyped DEF UnmountFilesystem, mountVars, inGuestVars, Issue
<1>19. ASSUME NEW q \in GuestRequests, FindMount(q) PROVE GuestShape'
    BY <1>19, GuestOpsTyped DEF FindMount, mountVars, inGuestVars
<1>20. ASSUME NEW q \in GuestRequests, ReadMount(q) PROVE GuestShape'
    BY <1>20, GuestOpsTyped DEF ReadMount, mountVars, inGuestVars, RLock
<1>21. ASSUME NEW q \in GuestRequests, ReadDone(q) PROVE GuestShape'
    BY <1>21, GuestOpsTyped DEF ReadDone, mountVars, inGuestVars
<1> HIDE DEF GuestsInv, GuestShape, GuestPoints, Of, ToAt, Done
<1>. QED
    BY <1>1, <1>2, <1>3, <1>4, <1>5, <1>6, <1>7, <1>8, <1>9, <1>10, <1>11, <1>12, <1>13, <1>14, <1>15,
       <1>16, <1>17, <1>18, <1>19, <1>20, <1>21 DEF GuestsNext

\* Every step keeps what a request does at each stage.
LEMMA GuestStagesStep ==
    ASSUME GuestsInv, [GuestsNext]_guestVars
    PROVE  GuestStages'
<1> USE DEF GuestsInv, GuestShape, GuestStages, GuestPoints, GuestKinds, GuestOp, NoOp, Of, Asked, ToAt, Done
<1>1. CASE UNCHANGED guestVars
    BY <1>1 DEF guestVars
<1>2. CASE UnmountExperiment
    BY <1>2 DEF UnmountExperiment, eventRest
<1>3. ASSUME NEW v \in Guests, Connect(v) PROVE GuestStages'
    BY <1>3 DEF Connect, eventRest
<1>4. ASSUME NEW v \in Guests, Relaunch(v) PROVE GuestStages'
    BY <1>4 DEF Relaunch, eventRest
<1>5. ASSUME NEW q \in GuestRequests, NEW v \in Guests,
             NEW kind \in {"exec", "send", "mount", "unmount", "read"}, BeginRequest(q, v, kind)
      PROVE GuestStages'
    BY <1>5 DEF BeginRequest, GuestKinds, mountVars, inGuestVars
<1>6. ASSUME NEW q \in GuestRequests, C2Client(q) PROVE GuestStages'
    BY <1>6 DEF C2Client, mountVars, inGuestVars
<1>7. ASSUME NEW q \in GuestRequests, C2NotActive(q) PROVE GuestStages'
    BY <1>7 DEF C2NotActive, mountVars, inGuestVars
<1>8. ASSUME NEW q \in GuestRequests, Filters(q) PROVE GuestStages'
    BY <1>8 DEF Filters, mountVars, inGuestVars, SetFilter
<1>9. ASSUME NEW q \in GuestRequests, SendCommand(q) PROVE GuestStages'
    BY <1>9 DEF SendCommand, mountVars, inGuestVars, Issue
<1>10. ASSUME NEW q \in GuestRequests, CommandFails(q) PROVE GuestStages'
    BY <1>10 DEF CommandFails, mountVars, inGuestVars
<1>11. ASSUME NEW q \in GuestRequests, Respond(q) PROVE GuestStages'
    BY <1>11 DEF Respond, mountVars, inGuestVars
<1>12. ASSUME NEW q \in GuestRequests, WaitForResponse(q) PROVE GuestStages'
    BY <1>12 DEF WaitForResponse, mountVars, inGuestVars
<1>13. ASSUME NEW q \in GuestRequests, ResponseTimeout(q) PROVE GuestStages'
    BY <1>13 DEF ResponseTimeout, mountVars, inGuestVars
<1>14. ASSUME NEW q \in GuestRequests, MountVM(q) PROVE GuestStages'
    BY <1>14 DEF MountVM, mountVars, inGuestVars, Mount
<1>15. ASSUME NEW q \in GuestRequests, MountFilesystem(q) PROVE GuestStages'
    BY <1>15 DEF MountFilesystem, mountVars, inGuestVars, Issue, NewLock
<1>16. ASSUME NEW q \in GuestRequests, UnmountVM(q) PROVE GuestStages'
    BY <1>16 DEF UnmountVM, mountVars, inGuestVars, Mount
<1>17. ASSUME NEW q \in GuestRequests, LockMount(q) PROVE GuestStages'
    BY <1>17 DEF LockMount, mountVars, inGuestVars
<1>18. ASSUME NEW q \in GuestRequests, UnmountFilesystem(q) PROVE GuestStages'
    BY <1>18 DEF UnmountFilesystem, mountVars, inGuestVars, Issue
<1>19. ASSUME NEW q \in GuestRequests, FindMount(q) PROVE GuestStages'
    BY <1>19 DEF FindMount, mountVars, inGuestVars
<1>20. ASSUME NEW q \in GuestRequests, ReadMount(q) PROVE GuestStages'
    BY <1>20 DEF ReadMount, mountVars, inGuestVars, RLock
<1>21. ASSUME NEW q \in GuestRequests, ReadDone(q) PROVE GuestStages'
    BY <1>21 DEF ReadDone, mountVars, inGuestVars
<1> HIDE DEF GuestsInv, GuestShape, GuestStages, GuestPoints, GuestKinds, GuestOp, NoOp, Of, Asked, ToAt, Done
<1>. QED
    BY <1>1, <1>2, <1>3, <1>4, <1>5, <1>6, <1>7, <1>8, <1>9, <1>10, <1>11, <1>12, <1>13, <1>14, <1>15,
       <1>16, <1>17, <1>18, <1>19, <1>20, <1>21 DEF GuestsNext

\* No step comes between the filter and the command that it is for.
LEMMA FilterStep ==
    ASSUME GuestsInv, GuestsAssumption, [GuestsNext]_guestVars
    PROVE  FilterHeld' /\ CommandsReachTheirGuest'
<1> USE DEF GuestsInv, GuestShape, FilterHeld, CommandsReachTheirGuest, Of, Asked, ToAt, Done
<1>1. CASE UNCHANGED guestVars
    BY <1>1 DEF guestVars
<1>2. CASE UnmountExperiment
    BY <1>2 DEF UnmountExperiment, eventRest
<1>3. ASSUME NEW v \in Guests, Connect(v) PROVE FilterHeld' /\ CommandsReachTheirGuest'
    BY <1>3 DEF Connect, eventRest
<1>4. ASSUME NEW v \in Guests, Relaunch(v) PROVE FilterHeld' /\ CommandsReachTheirGuest'
    BY <1>4 DEF Relaunch, eventRest
<1>5. ASSUME NEW q \in GuestRequests, NEW v \in Guests,
             NEW kind \in {"exec", "send", "mount", "unmount", "read"}, BeginRequest(q, v, kind)
      PROVE FilterHeld' /\ CommandsReachTheirGuest'
    BY <1>5 DEF BeginRequest, GuestKinds, mountVars, inGuestVars
<1>6. ASSUME NEW q \in GuestRequests, C2Client(q) PROVE FilterHeld' /\ CommandsReachTheirGuest'
    BY <1>6 DEF C2Client, mountVars, inGuestVars
<1>7. ASSUME NEW q \in GuestRequests, C2NotActive(q) PROVE FilterHeld' /\ CommandsReachTheirGuest'
    BY <1>7 DEF C2NotActive, mountVars, inGuestVars
<1>8. ASSUME NEW q \in GuestRequests, Filters(q) PROVE FilterHeld' /\ CommandsReachTheirGuest'
    BY <1>8 DEF Filters, mountVars, inGuestVars, SetFilter
<1>9. ASSUME NEW q \in GuestRequests, SendCommand(q) PROVE FilterHeld' /\ CommandsReachTheirGuest'
    BY <1>9 DEF SendCommand, mountVars, inGuestVars, Issue
<1>10. ASSUME NEW q \in GuestRequests, CommandFails(q) PROVE FilterHeld' /\ CommandsReachTheirGuest'
    BY <1>10 DEF CommandFails, mountVars, inGuestVars
<1>11. ASSUME NEW q \in GuestRequests, Respond(q) PROVE FilterHeld' /\ CommandsReachTheirGuest'
    BY <1>11 DEF Respond, mountVars, inGuestVars
<1>12. ASSUME NEW q \in GuestRequests, WaitForResponse(q) PROVE FilterHeld' /\ CommandsReachTheirGuest'
    BY <1>12 DEF WaitForResponse, mountVars, inGuestVars
<1>13. ASSUME NEW q \in GuestRequests, ResponseTimeout(q) PROVE FilterHeld' /\ CommandsReachTheirGuest'
    BY <1>13 DEF ResponseTimeout, mountVars, inGuestVars
<1>14. ASSUME NEW q \in GuestRequests, MountVM(q) PROVE FilterHeld' /\ CommandsReachTheirGuest'
    BY <1>14 DEF MountVM, mountVars, inGuestVars, Mount
<1>15. ASSUME NEW q \in GuestRequests, MountFilesystem(q) PROVE FilterHeld' /\ CommandsReachTheirGuest'
    BY <1>15 DEF MountFilesystem, mountVars, inGuestVars, Issue, NewLock
<1>16. ASSUME NEW q \in GuestRequests, UnmountVM(q) PROVE FilterHeld' /\ CommandsReachTheirGuest'
    BY <1>16 DEF UnmountVM, mountVars, inGuestVars, Mount
<1>17. ASSUME NEW q \in GuestRequests, LockMount(q) PROVE FilterHeld' /\ CommandsReachTheirGuest'
    BY <1>17 DEF LockMount, mountVars, inGuestVars
<1>18. ASSUME NEW q \in GuestRequests, UnmountFilesystem(q) PROVE FilterHeld' /\ CommandsReachTheirGuest'
    BY <1>18 DEF UnmountFilesystem, mountVars, inGuestVars, Issue
<1>19. ASSUME NEW q \in GuestRequests, FindMount(q) PROVE FilterHeld' /\ CommandsReachTheirGuest'
    BY <1>19 DEF FindMount, mountVars, inGuestVars
<1>20. ASSUME NEW q \in GuestRequests, ReadMount(q) PROVE FilterHeld' /\ CommandsReachTheirGuest'
    BY <1>20 DEF ReadMount, mountVars, inGuestVars, RLock
<1>21. ASSUME NEW q \in GuestRequests, ReadDone(q) PROVE FilterHeld' /\ CommandsReachTheirGuest'
    BY <1>21 DEF ReadDone, mountVars, inGuestVars
<1> HIDE DEF GuestsInv, GuestShape, FilterHeld, CommandsReachTheirGuest, Of, Asked, ToAt, Done
<1>. QED
    BY <1>1, <1>2, <1>3, <1>4, <1>5, <1>6, <1>7, <1>8, <1>9, <1>10, <1>11, <1>12, <1>13, <1>14, <1>15,
       <1>16, <1>17, <1>18, <1>19, <1>20, <1>21 DEF GuestsNext

\* Entries stay as they are, their users apart.
SameMounts == \A v \in Guests : (mounts'[v].there <=> mounts[v].there) /\ mounts'[v].lock = mounts[v].lock

\* The other requests are where they were.
OthersSame(q) ==
    \A p \in GuestRequests \ {q} :
        at'[p] = at[p] /\ op'[p] = op[p] /\ target'[p] = target[p] /\ readers'[p] = readers[p]

\* Who reads is not touched by a step of a request that does not.
LEMMA ReadersFrame ==
    ASSUME GuestsInv, NEW q \in GuestRequests, SameMounts, OthersSame(q), closed' = closed,
           at'[q] \notin {"rlock", "reading"}
    PROVE  ReadersHold'
BY DEF GuestsInv, GuestStages, ReadersHold, SameMounts, OthersSame, Of, Asked

\* Such are the steps that count users and the end of a command.
LEMMA GuestOthersStep ==
    ASSUME GuestsInv, NEW q \in GuestRequests, MountVM(q) \/ UnmountVM(q) \/ WaitForResponse(q)
    PROVE  OthersSame(q) /\ at'[q] \notin {"rlock", "reading"} /\ closed' = closed
<1>1. CASE MountVM(q)
    BY <1>1 DEF MountVM, GuestsInv, GuestShape, OthersSame, ToAt, Done
<1>2. CASE UnmountVM(q)
    BY <1>2 DEF UnmountVM, GuestsInv, GuestShape, OthersSame, ToAt, Done
<1>3. CASE WaitForResponse(q)
    BY <1>3 DEF WaitForResponse, GuestsInv, GuestShape, OthersSame, ToAt, Done, mountVars
<1>. QED BY <1>1, <1>2, <1>3

\* No step takes a mount away from a request that changes it or reads it.
LEMMA MountStep ==
    ASSUME GuestsInv, GuestsAssumption, [GuestsNext]_guestVars
    PROVE  MountsHeld' /\ MountsTrue' /\ ReadersHold'
<1> USE DEF GuestsInv, GuestShape, GuestStages, MountsHeld, MountsTrue, ReadersHold, Changing, Mount, Of, Asked, ToAt, Done
<1>1. CASE UNCHANGED guestVars
    BY <1>1 DEF guestVars
<1>2. CASE UnmountExperiment
    BY <1>2 DEF UnmountExperiment, eventRest
<1>3. ASSUME NEW v \in Guests, Connect(v) PROVE MountsHeld' /\ MountsTrue' /\ ReadersHold'
    BY <1>3 DEF Connect, eventRest
<1>4. ASSUME NEW v \in Guests, Relaunch(v) PROVE MountsHeld' /\ MountsTrue' /\ ReadersHold'
    BY <1>4 DEF Relaunch, eventRest
<1>5. ASSUME NEW q \in GuestRequests, NEW v \in Guests,
             NEW kind \in {"exec", "send", "mount", "unmount", "read"}, BeginRequest(q, v, kind)
      PROVE MountsHeld' /\ MountsTrue' /\ ReadersHold'
    BY <1>5 DEF BeginRequest, GuestKinds, mountVars, inGuestVars
<1>6. ASSUME NEW q \in GuestRequests, C2Client(q) PROVE MountsHeld' /\ MountsTrue' /\ ReadersHold'
    BY <1>6 DEF C2Client, mountVars, inGuestVars
<1>7. ASSUME NEW q \in GuestRequests, C2NotActive(q) PROVE MountsHeld' /\ MountsTrue' /\ ReadersHold'
    BY <1>7 DEF C2NotActive, mountVars, inGuestVars
<1>8. ASSUME NEW q \in GuestRequests, Filters(q) PROVE MountsHeld' /\ MountsTrue' /\ ReadersHold'
    BY <1>8 DEF Filters, mountVars, inGuestVars, SetFilter
<1>9. ASSUME NEW q \in GuestRequests, SendCommand(q) PROVE MountsHeld' /\ MountsTrue' /\ ReadersHold'
    BY <1>9 DEF SendCommand, mountVars, inGuestVars, Issue
<1>10. ASSUME NEW q \in GuestRequests, CommandFails(q) PROVE MountsHeld' /\ MountsTrue' /\ ReadersHold'
    BY <1>10 DEF CommandFails, mountVars, inGuestVars
<1>11. ASSUME NEW q \in GuestRequests, Respond(q) PROVE MountsHeld' /\ MountsTrue' /\ ReadersHold'
    BY <1>11 DEF Respond, mountVars, inGuestVars
<1>12. ASSUME NEW q \in GuestRequests, WaitForResponse(q) PROVE MountsHeld' /\ MountsTrue' /\ ReadersHold'
    <2>1. CASE Asked(q) = "send"
        <3>1. SameMounts
            BY <1>12, <2>1 DEF WaitForResponse, SameMounts, mountVars
        <3>2. OthersSame(q) /\ at'[q] \notin {"rlock", "reading"} /\ closed' = closed
            BY <1>12, GuestOthersStep
        <3>3. MountsHeld'
            <4>1. ~Changing(q)'
                BY <1>12, <2>1 DEF WaitForResponse, GuestOp
            <4>2. mountsMu' = mountsMu /\ readers' = readers
                BY <1>12, <2>1 DEF WaitForResponse
            <4>. QED BY <3>1, <3>2, <4>1, <4>2 DEF SameMounts, OthersSame
        <3>4. MountsTrue'
            BY <1>12, <2>1, <3>1 DEF WaitForResponse, SameMounts, mountVars
        <3>5. ReadersHold'
            BY <3>1, <3>2, ReadersFrame
        <3>. QED BY <3>3, <3>4, <3>5
    <2>2. CASE Asked(q) = "exec"
        <3>1. SameMounts
            BY <1>12, <2>2 DEF WaitForResponse, SameMounts, mountVars
        <3>2. OthersSame(q) /\ at'[q] \notin {"rlock", "reading"} /\ closed' = closed
            BY <1>12, GuestOthersStep
        <3>3. MountsHeld'
            BY <1>12, <2>2, <3>1, <3>2 DEF WaitForResponse, SameMounts, OthersSame, mountVars
        <3>4. MountsTrue'
            BY <1>12, <2>2, <3>1 DEF WaitForResponse, SameMounts, mountVars
        <3>5. ReadersHold'
            BY <3>1, <3>2, ReadersFrame
        <3>. QED BY <3>3, <3>4, <3>5
    <2>. QED BY <1>12, <2>1, <2>2 DEF WaitForResponse
<1>13. ASSUME NEW q \in GuestRequests, ResponseTimeout(q) PROVE MountsHeld' /\ MountsTrue' /\ ReadersHold'
    BY <1>13 DEF ResponseTimeout, mountVars, inGuestVars
<1>14. ASSUME NEW q \in GuestRequests, MountVM(q) PROVE MountsHeld' /\ MountsTrue' /\ ReadersHold'
    <2>1. CASE mounts[Of(q)].there
        <3>1. SameMounts
            BY <1>14, <2>1 DEF MountVM, SameMounts, mountVars
        <3>2. OthersSame(q) /\ at'[q] \notin {"rlock", "reading"} /\ closed' = closed
            BY <1>14, GuestOthersStep
        <3>3. MountsHeld'
            BY <1>14, <2>1, <3>1, <3>2 DEF MountVM, SameMounts, OthersSame, mountVars
        <3>4. MountsTrue'
            BY <1>14, <2>1, <3>1 DEF MountVM, SameMounts, mountVars
        <3>5. ReadersHold'
            BY <3>1, <3>2, ReadersFrame
        <3>. QED BY <3>3, <3>4, <3>5
    <2>2. CASE ~mounts[Of(q)].there
        <3>1. SameMounts
            BY <1>14, <2>2 DEF MountVM, SameMounts, mountVars
        <3>2. OthersSame(q) /\ at'[q] \notin {"rlock", "reading"} /\ closed' = closed
            BY <1>14, GuestOthersStep
        <3>3. MountsHeld'
            BY <1>14, <2>2, <3>1, <3>2 DEF MountVM, SameMounts, OthersSame, mountVars
        <3>4. MountsTrue'
            BY <1>14, <2>2, <3>1 DEF MountVM, SameMounts, mountVars
        <3>5. ReadersHold'
            BY <3>1, <3>2, ReadersFrame
        <3>. QED BY <3>3, <3>4, <3>5
    <2>. QED BY <1>14, <2>1, <2>2 DEF MountVM
<1>15. ASSUME NEW q \in GuestRequests, MountFilesystem(q) PROVE MountsHeld' /\ MountsTrue' /\ ReadersHold'
    BY <1>15 DEF MountFilesystem, mountVars, inGuestVars, Issue, NewLock
<1>16. ASSUME NEW q \in GuestRequests, UnmountVM(q) PROVE MountsHeld' /\ MountsTrue' /\ ReadersHold'
    <2>1. CASE mounts[Of(q)].there /\ mounts[Of(q)].users = 1
        <3>1. SameMounts
            BY <1>16, <2>1 DEF UnmountVM, SameMounts, mountVars
        <3>2. OthersSame(q) /\ at'[q] \notin {"rlock", "reading"} /\ closed' = closed
            BY <1>16, GuestOthersStep
        <3>3. MountsHeld'
            BY <1>16, <2>1, <3>1, <3>2 DEF UnmountVM, SameMounts, OthersSame, mountVars
        <3>4. MountsTrue'
            BY <1>16, <2>1, <3>1 DEF UnmountVM, SameMounts, mountVars
        <3>5. ReadersHold'
            BY <3>1, <3>2, ReadersFrame
        <3>. QED BY <3>3, <3>4, <3>5
    <2>2. CASE mounts[Of(q)].there /\ mounts[Of(q)].users # 1
        <3>1. SameMounts
            BY <1>16, <2>2 DEF UnmountVM, SameMounts, mountVars
        <3>2. OthersSame(q) /\ at'[q] \notin {"rlock", "reading"} /\ closed' = closed
            BY <1>16, GuestOthersStep
        <3>3. MountsHeld'
            BY <1>16, <2>2, <3>1, <3>2 DEF UnmountVM, SameMounts, OthersSame, mountVars
        <3>4. MountsTrue'
            BY <1>16, <2>2, <3>1 DEF UnmountVM, SameMounts, mountVars
        <3>5. ReadersHold'
            BY <3>1, <3>2, ReadersFrame
        <3>. QED BY <3>3, <3>4, <3>5
    <2>3. CASE ~mounts[Of(q)].there
        <3>1. SameMounts
            BY <1>16, <2>3 DEF UnmountVM, SameMounts, mountVars
        <3>2. OthersSame(q) /\ at'[q] \notin {"rlock", "reading"} /\ closed' = closed
            BY <1>16, GuestOthersStep
        <3>3. MountsHeld'
            BY <1>16, <2>3, <3>1, <3>2 DEF UnmountVM, SameMounts, OthersSame, mountVars
        <3>4. MountsTrue'
            BY <1>16, <2>3, <3>1 DEF UnmountVM, SameMounts, mountVars
        <3>5. ReadersHold'
            BY <3>1, <3>2, ReadersFrame
        <3>. QED BY <3>3, <3>4, <3>5
    <2>. QED BY <1>16, <2>1, <2>2, <2>3 DEF UnmountVM
<1>17. ASSUME NEW q \in GuestRequests, LockMount(q) PROVE MountsHeld' /\ MountsTrue' /\ ReadersHold'
    BY <1>17 DEF LockMount, mountVars, inGuestVars
<1>18. ASSUME NEW q \in GuestRequests, UnmountFilesystem(q) PROVE MountsHeld' /\ MountsTrue' /\ ReadersHold'
    <2>1. MountsHeld'
        BY <1>18 DEF UnmountFilesystem, mountVars, inGuestVars, Issue, Absent
    <2>2. MountsTrue'
        BY <1>18 DEF UnmountFilesystem, mountVars, inGuestVars, Issue, Absent
    <2>3. ReadersHold'
        BY <1>18 DEF UnmountFilesystem, mountVars, inGuestVars, Issue, Absent
    <2>. QED BY <2>1, <2>2, <2>3
<1>19. ASSUME NEW q \in GuestRequests, FindMount(q) PROVE MountsHeld' /\ MountsTrue' /\ ReadersHold'
    BY <1>19 DEF FindMount, mountVars, inGuestVars
<1>20. ASSUME NEW q \in GuestRequests, ReadMount(q) PROVE MountsHeld' /\ MountsTrue' /\ ReadersHold'
    BY <1>20 DEF ReadMount, mountVars, inGuestVars, RLock
<1>21. ASSUME NEW q \in GuestRequests, ReadDone(q) PROVE MountsHeld' /\ MountsTrue' /\ ReadersHold'
    <2>1. MountsHeld'
        BY <1>21 DEF ReadDone, mountVars, inGuestVars, NoLock
    <2>2. MountsTrue'
        BY <1>21 DEF ReadDone, mountVars, inGuestVars, NoLock
    <2>3. ReadersHold'
        BY <1>21 DEF ReadDone, mountVars, inGuestVars, NoLock
    <2>. QED BY <2>1, <2>2, <2>3
<1> HIDE DEF GuestsInv, GuestShape, GuestStages, MountsHeld, MountsTrue, ReadersHold, Changing, Mount, Of, Asked, ToAt, Done
<1>. QED
    BY <1>1, <1>2, <1>3, <1>4, <1>5, <1>6, <1>7, <1>8, <1>9, <1>10, <1>11, <1>12, <1>13, <1>14, <1>15,
       <1>16, <1>17, <1>18, <1>19, <1>20, <1>21 DEF GuestsNext

\* A command only goes to the guest that it is for, and files are read and
\* written in a mount only while it is there, whatever requests interleave
\* (GetMountFiles and the others; ExecC2Command).
THEOREM GuestsAreKeptApart == GuestsSpec => []GuestsKeptApart
<1>1. GuestsInv /\ [GuestsNext]_guestVars => GuestsInv'
    BY GuestShapeStep, GuestStagesStep, FilterStep, MountStep, GuestsAssumption DEF GuestsInv
<1>2. GuestsInv => GuestsKeptApart
    BY DEF GuestsInv, GuestStages, ReadersHold, MountsTrue, GuestsKeptApart, ReadsMounted, Of
<1>. QED
    BY GuestsInitInv, <1>1, <1>2, PTL DEF GuestsSpec

----------------------------------------------------------------------------
(* A run of the state of health app. The counter of the group is the       *)
(* number of its commands, so that a group is over when none is left,      *)
(* because an answer never schedules what is at work already: there is one *)
(* command for a test, and of networking one for a host. Until a run is    *)
(* cancelled, what it has asked is recorded, or has its verdict, or is     *)
(* still at work.                                                          *)

Network == "network-config"

CommandsApart ==
    /\ \A c \in commands : c = [test |-> c.test, tries |-> c.tries] /\ c.tries \in Nat
    /\ \A c, d \in commands : c.test = d.test => c = d
    /\ \A c, d \in commands :
        c.test.check = Network /\ d.test.check = Network /\ c.test.host = d.test.host => c = d

GroupCounted == IsFiniteSet(commands) /\ waiting = Cardinality(commands)

TestsOf(things) == {x.test : x \in things}

AskedAreKept ==
    /\ ~ctxDone => asked \subseteq recorded \cup TestsOf(verdicts) \cup TestsOf(commands)
    /\ recorded \cup TestsOf(verdicts) \cup TestsOf(commands) \subseteq asked
    /\ ~begun => commands = {} /\ (~ctxDone => asked = recorded)

Turns ==
    /\ turn \in 1 .. 12 /\ begun \in BOOLEAN /\ (begun => turn <= 11) /\ (~begun => turn > 1)
    /\ sohEnd \in {"none", "ok", "errors", "cancelled"}
    /\ sohEnd # "none" => ~begun
    /\ initialized => sohEnd # "none" /\ ~begun
    /\ ctxDone \in BOOLEAN

Healthy ==
    /\ ~sohErrs => c2Hosts = Hosts /\ failedNet = {}
    /\ sohEnd = "ok" => ~sohErrs
    /\ c2Hosts \subseteq Hosts /\ IsFiniteSet(addressed)

SohInv == CommandsApart /\ GroupCounted /\ AskedAreKept /\ Turns /\ Healthy

LEMMA OrderIs == Len(Order) = 11 /\ Order \in Seq({Order[i] : i \in 1 .. 11}) /\ \A i \in 2 .. 11 : Order[i] # Network
BY DEF Order, Network

LEMMA SohComplete == SohInv => VerdictsComplete
BY DEF SohInv, AskedAreKept, Turns, Healthy, VerdictsComplete

LEMMA ImageFinite ==
    ASSUME NEW S, IsFiniteSet(S), NEW f, NEW T, T = {f[x] : x \in S}
    PROVE  IsFiniteSet(T)
<1>1. PICK g : g = [x \in S |-> f[x]]
    OBVIOUS
<1>2. g \in Surjection(S, T)
    BY <1>1 DEF Surjection
<1>. QED BY <1>2, FS_Surjection DEF ExistsSurjection

LEMMA CommandFields == \A t : Command(t).test = t /\ Command(t).tries = 0
BY DEF Command

\* As many commands as tests.
LEMMA CommandsCounted ==
    ASSUME NEW tests, IsFiniteSet(tests)
    PROVE  /\ IsFiniteSet({Command(t) : t \in tests})
           /\ Cardinality({Command(t) : t \in tests}) = Cardinality(tests)
<1>1. PICK S : S = {Command(t) : t \in tests}
    OBVIOUS
<1>2. PICK f : f = [t \in tests |-> Command(t)]
    OBVIOUS
<1>3. f \in Bijection(tests, S)
  <2>1. f \in [tests -> S] /\ \A s \in S : \E t \in tests : f[t] = s
      BY <1>1, <1>2
  <2>2. \A t, u \in tests : f[t] = f[u] => t = u
      BY <1>2, CommandFields
  <2>. QED BY <2>1, <2>2 DEF Bijection, Injection, Surjection, IsInjective
<1>4. ExistsBijection(tests, S)
    BY <1>3 DEF ExistsBijection
<1>. QED BY <1>1, <1>4, FS_Bijection

\* A group begins.
LEMMA GroupBegins ==
    ASSUME SohInv, NEW tests, NEW refused, IsFiniteSet(tests), BeginsTests(tests, refused),
           \A t \in tests : t.check # Network, ~begun, begun' = TRUE, turn <= 11, sohEnd = "none",
           UNCHANGED <<turn, c2Hosts, failedNet, addressed, recorded, sohErrs, sohEnd, ctxDone, initialized>>
    PROVE  SohInv'
<1>1. CommandsApart'
    BY DEF BeginsTests, CommandsApart, Command
<1>2. GroupCounted'
    BY CommandsCounted DEF BeginsTests, GroupCounted
<1>3. TestsOf(commands)' = tests /\ TestsOf(verdicts)' = refused
  <2>1. commands' = {Command(t) : t \in tests} /\ verdicts' = {[test |-> t, err |-> "error"] : t \in refused}
      BY DEF BeginsTests
  <2>2. TestsOf(commands)' = tests
      BY <2>1, CommandFields DEF TestsOf
  <2>3. TestsOf(verdicts)' = refused
    <3>1. \A t : [test |-> t, err |-> "error"].test = t
        OBVIOUS
    <3>. QED BY <2>1, <3>1 DEF TestsOf
  <2>. QED BY <2>2, <2>3
<1>4. AskedAreKept'
    BY <1>3 DEF SohInv, AskedAreKept, BeginsTests
<1>5. Turns' /\ Healthy'
    BY DEF SohInv, Turns, Healthy
<1>. QED BY <1>1, <1>2, <1>4, <1>5 DEF SohInv

LEMMA TestFields ==
    ASSUME NEW check, NEW h, NEW t
    PROVE  Test(check, h, t).check = check /\ Test(check, h, t).host = h /\ Test(check, h, t).target = t
BY DEF Test

LEMMA SohBegins ==
    ASSUME SohInit
    PROVE  SohInv
<1>. DEFINE N == {Test("network-config", h, IF h \in Dhcp THEN "dhcp" ELSE "ip") : h \in Hosts}
<1>1. IsFiniteSet(N)
  <2>1. PICK f : f = [h \in Hosts |-> Test("network-config", h, IF h \in Dhcp THEN "dhcp" ELSE "ip")]
      OBVIOUS
  <2>2. N = {f[h] : h \in Hosts}
      BY <2>1
  <2>. HIDE DEF N
  <2>. QED BY <2>2, ImageFinite, SohAssumption
<1>2. PICK T : T = (IF "network-config" \in SohChecks THEN N ELSE {})
    OBVIOUS
<1>3. commands = {Command(t) : t \in T}
    BY <1>2 DEF SohInit, NetworkTests
<1>4. IsFiniteSet(T)
    BY <1>1, <1>2, FS_EmptySet
<1>5. GroupCounted
    BY <1>3, <1>4, CommandsCounted DEF SohInit, GroupCounted
<1>6. \A t, u \in T : t.host = u.host => t = u
    BY <1>2, TestFields
<1>7. CommandsApart
    BY <1>3, <1>6 DEF CommandsApart, Command
<1>8. AskedAreKept
    BY DEF SohInit, AskedAreKept, TestsOf
<1>9. Turns /\ Healthy
  <2>1. IsFiniteSet(Hosts \ Dhcp) /\ IsFiniteSet({})
      BY SohAssumption, FS_EmptySet, FS_Subset
  <2>2. IsFiniteSet(addressed)
      BY <2>1 DEF SohInit
  <2>3. Turns
    <3>1. turn = 1 /\ begun = TRUE /\ sohEnd = "none" /\ ctxDone = FALSE /\ initialized = FALSE
        BY DEF SohInit
    <3>2. turn \in 1 .. 12 /\ turn <= 11
        BY <3>1
    <3>. QED BY <3>1, <3>2, Zenon DEF Turns
  <2>4. Healthy
      BY <2>2 DEF SohInit, Healthy
  <2>. QED BY <2>3, <2>4
<1>. QED BY <1>5, <1>7, <1>8, <1>9 DEF SohInv

\* An answer is taken and schedules nothing, or one command.
LEMMA CommandGoes ==
    ASSUME SohInv, NEW c \in commands, NEW next, Schedules(c, next),
           UNCHANGED <<turn, begun, c2Hosts, failedNet, recorded, sohErrs, sohEnd, ctxDone, initialized>>,
           \/ next = {}
           \/ \E d : /\ next = {d} /\ d = [test |-> d.test, tries |-> d.tries] /\ d.tries \in Nat
                     /\ d \notin commands \ {c}
                     /\ \A e \in commands \ {c} : e.test # d.test
                     /\ d.test.check = Network => d.test.host = c.test.host /\ c.test.check = Network,
           IsFiniteSet(addressed'),
           TestsOf(verdicts) \subseteq TestsOf(verdicts)', TestsOf(verdicts)' \subseteq TestsOf(verdicts) \cup {c.test},
           asked' = asked \cup TestsOf(next),
           ctxDone \/ c.test \in TestsOf(verdicts)' \cup TestsOf(next)
    PROVE  SohInv'
<1>1. begun /\ sohEnd = "none" /\ turn <= 11
    BY DEF SohInv, Turns, AskedAreKept
<1>2. commands' = (commands \ {c}) \cup next /\ waiting' = waiting + Cardinality(next) - 1
    BY DEF Schedules
<1>3. CommandsApart'
  <2>1. ASSUME NEW x \in commands'
        PROVE  x \in commands \ {c} \/ next = {x}
      BY <1>2, <2>1
  <2>2. ASSUME NEW x \in commands'
        PROVE  x = [test |-> x.test, tries |-> x.tries] /\ x.tries \in Nat
      BY <2>1, <2>2 DEF SohInv, CommandsApart
  <2>5. ASSUME NEW d, next = {d}
        PROVE  /\ \A e \in commands \ {c} : e.test # d.test
               /\ d.test.check = Network => d.test.host = c.test.host /\ c.test.check = Network
    <3>1. PICK e : /\ next = {e}
                   /\ \A f \in commands \ {c} : f.test # e.test
                   /\ e.test.check = Network => e.test.host = c.test.host /\ c.test.check = Network
      <4>1. next # {}
          BY <2>5
      <4>. QED BY <4>1, Zenon
    <3>2. d = e
        BY <2>5, <3>1
    <3>. QED BY <3>1, <3>2, Zenon
  <2>3. ASSUME NEW x \in commands', NEW y \in commands', x.test = y.test
        PROVE  x = y
    <3>1. CASE x \in commands \ {c} /\ y \in commands \ {c}
        BY <2>3, <3>1 DEF SohInv, CommandsApart
    <3>2. CASE next = {x} /\ next = {y}
        BY <3>2
    <3>3. CASE x \in commands \ {c} /\ next = {y}
        BY <2>3, <2>5, <3>3
    <3>4. CASE next = {x} /\ y \in commands \ {c}
        BY <2>3, <2>5, <3>4
    <3>. QED BY <2>1, <3>1, <3>2, <3>3, <3>4
  <2>4. ASSUME NEW x \in commands', NEW y \in commands', x.test.check = Network, y.test.check = Network, x.test.host = y.test.host
        PROVE  x = y
    <3>1. \A e \in commands \ {c} : e.test.check = Network /\ c.test.check = Network => e.test.host # c.test.host
        BY DEF SohInv, CommandsApart
    <3>2. CASE x \in commands \ {c} /\ y \in commands \ {c}
        BY <2>4, <3>2 DEF SohInv, CommandsApart
    <3>3. CASE next = {x} /\ next = {y}
        BY <3>3
    <3>4. CASE x \in commands \ {c} /\ next = {y}
        BY <2>4, <2>5, <3>1, <3>4
    <3>5. CASE next = {x} /\ y \in commands \ {c}
        BY <2>4, <2>5, <3>1, <3>5
    <3>. QED BY <2>1, <3>2, <3>3, <3>4, <3>5
  <2>. QED BY <2>2, <2>3, <2>4 DEF CommandsApart
<1>4. GroupCounted'
  <2>1. PICK rest : rest = commands \ {c}
      OBVIOUS
  <2>2. IsFiniteSet(rest) /\ Cardinality(rest) = Cardinality(commands) - 1 /\ IsFiniteSet(commands) /\ Cardinality(commands) \in Nat
      BY <2>1, FS_RemoveElement, FS_CardinalityType DEF SohInv, GroupCounted
  <2>3. CASE next = {}
      BY <1>2, <2>1, <2>2, <2>3, FS_EmptySet DEF SohInv, GroupCounted
  <2>4. ASSUME NEW d, next = {d}, d \notin rest
        PROVE  GroupCounted'
    <3>1. Cardinality(next) = 1
        BY <2>4, FS_Singleton
    <3>2. IsFiniteSet(rest \cup {d}) /\ Cardinality(rest \cup {d}) = Cardinality(rest) + 1
        BY <2>2, <2>4, FS_AddElement
    <3>. QED BY <1>2, <2>1, <2>2, <2>4, <3>1, <3>2 DEF SohInv, GroupCounted
  <2>. QED BY <2>1, <2>3, <2>4
<1>5. AskedAreKept'
  <2>1. TestsOf(commands)' \subseteq TestsOf(commands) \cup TestsOf(next)
      BY <1>2 DEF TestsOf
  <2>2. TestsOf(commands) \ {c.test} \subseteq TestsOf(commands)' /\ TestsOf(next) \subseteq TestsOf(commands)'
      BY <1>2 DEF TestsOf
  <2>3. c.test \in TestsOf(commands)
      BY DEF TestsOf
  <2>. QED BY <1>1, <2>1, <2>2, <2>3 DEF SohInv, AskedAreKept
<1>6. Turns'
    BY DEF SohInv, Turns
<1>7. Healthy'
    BY DEF SohInv, Healthy
<1>. QED BY <1>3, <1>4, <1>5, <1>6, <1>7 DEF SohInv

LEMMA VerdictGiven ==
    ASSUME NEW t, NEW e, Verdict(t, e)
    PROVE  TestsOf(verdicts)' = TestsOf(verdicts) \cup {t}
<1>1. [test |-> t, err |-> e].test = t
    OBVIOUS
<1>. QED BY <1>1 DEF Verdict, TestsOf

LEMMA NoNext == TestsOf({}) = {}
BY DEF TestsOf

LEMMA SohAnswers ==
    ASSUME SohInv, NEW c \in commands, AnsweredWrong(c) \/ NotActive(c) \/ Abandons(c)
    PROVE  SohInv'
<1>1. Schedules(c, {}) /\ UNCHANGED <<asked, addressed>> /\ UNCHANGED SohRest
    BY DEF AnsweredWrong, NotActive, Abandons
<1>2. \/ TestsOf(verdicts)' = TestsOf(verdicts) \cup {c.test}
      \/ TestsOf(verdicts)' = TestsOf(verdicts) /\ ctxDone
    BY VerdictGiven DEF AnsweredWrong, NotActive, Abandons, TestsOf
<1>3. IsFiniteSet(addressed')
    BY <1>1 DEF SohInv, Healthy
<1>. QED BY <1>1, <1>2, <1>3, NoNext, CommandGoes DEF SohRest

LEMMA SohAsksAgain ==
    ASSUME SohInv, NEW c \in commands, AnsweredNotYet(c)
    PROVE  SohInv'
<1>1. PICK d : d = [c EXCEPT !.tries = @ + 1]
    OBVIOUS
<1>2. c = [test |-> c.test, tries |-> c.tries] /\ c.tries \in Nat
    BY DEF SohInv, CommandsApart
<1>3. d = [test |-> c.test, tries |-> c.tries + 1]
    BY <1>1, <1>2
<1>4. d.test = c.test /\ d.tries \in Nat /\ d = [test |-> d.test, tries |-> d.tries]
    BY <1>2, <1>3
<1>5. \A e \in commands \ {c} : e.test # d.test
    BY <1>4 DEF SohInv, CommandsApart
<1>6. TestsOf({d}) = {c.test} /\ c.test \in asked
    BY <1>4 DEF TestsOf, SohInv, AskedAreKept
<1>7. Schedules(c, {d}) /\ UNCHANGED <<verdicts, asked, addressed>> /\ UNCHANGED SohRest
    BY <1>1 DEF AnsweredNotYet
<1>8. IsFiniteSet(addressed') /\ TestsOf(verdicts)' = TestsOf(verdicts)
    BY <1>7 DEF SohInv, Healthy, TestsOf
<1>9. asked' = asked \cup TestsOf({d})
    BY <1>6, <1>7
<1>. QED BY <1>4, <1>5, <1>6, <1>7, <1>8, <1>9, CommandGoes DEF SohRest

LEMMA SohAsksNext ==
    ASSUME SohInv, NEW c \in commands, AnsweredWell(c)
    PROVE  SohInv'
<1>1. PICK tests : tests = Follows(c.test)
    OBVIOUS
<1>2. Schedules(c, {Command(t) : t \in tests}) /\ asked' = asked \cup tests /\ UNCHANGED SohRest
    BY <1>1 DEF AnsweredWell
<1>3. TestsOf(verdicts)' = TestsOf(verdicts) \cup {c.test}
    BY VerdictGiven DEF AnsweredWell
<1>4. IsFiniteSet(addressed')
  <2>1. addressed' = addressed \cup {c.test.host} \/ addressed' = addressed
      BY DEF AnsweredWell
  <2>. QED BY <2>1, FS_AddElement DEF SohInv, Healthy
<1>5. \/ tests = {}
      \/ c.test.check = Network /\ \E t : tests = {t} /\ t.check = Network /\ t.host = c.test.host /\ t # c.test
    BY <1>1, TestFields DEF Follows, Network
<1>6. CASE tests = {}
    BY <1>2, <1>3, <1>4, <1>6, NoNext, CommandGoes DEF SohRest
<1>7. ASSUME NEW t, tests = {t}, t.check = Network, t.host = c.test.host, c.test.check = Network
      PROVE  SohInv'
  <2>1. PICK d : d = Command(t)
      OBVIOUS
  <2>2. d.test = t /\ d.tries = 0 /\ d = [test |-> d.test, tries |-> d.tries]
      BY <2>1 DEF Command
  <2>3. \A e \in commands \ {c} : e.test # t /\ e # d
      BY <1>7, <2>2 DEF SohInv, CommandsApart
  <2>4. {Command(x) : x \in tests} = {d} /\ TestsOf({d}) = tests
      BY <1>7, <2>1, <2>2 DEF TestsOf
  <2>5. Schedules(c, {d}) /\ asked' = asked \cup TestsOf({d})
      BY <1>2, <2>4
  <2>6. /\ TestsOf(verdicts) \subseteq TestsOf(verdicts)'
        /\ TestsOf(verdicts)' \subseteq TestsOf(verdicts) \cup {c.test}
        /\ c.test \in TestsOf(verdicts)' \cup TestsOf({d})
      BY <1>3
  <2>7. /\ {d} = {d} /\ d = [test |-> d.test, tries |-> d.tries] /\ d.tries \in Nat
        /\ d \notin commands \ {c}
        /\ \A e \in commands \ {c} : e.test # d.test
        /\ d.test.check = Network => d.test.host = c.test.host /\ c.test.check = Network
    <3>1. d.tries \in Nat
        BY <2>2
    <3>2. d \notin commands \ {c} /\ \A e \in commands \ {c} : e.test # d.test
        BY <2>2, <2>3
    <3>3. d.test.host = c.test.host /\ c.test.check = Network
        BY <1>7, <2>2
    <3>. QED BY <2>2, <3>1, <3>2, <3>3
  <2>. QED BY <1>2, <1>4, <2>5, <2>6, <2>7, CommandGoes DEF SohRest
<1>. QED BY <1>5, <1>6, <1>7

\* The group of a check.
LEMMA HostTestsFinite ==
    ASSUME NEW S, S \subseteq Hosts, NEW check, NEW t
    PROVE  IsFiniteSet({Test(check, h, t) : h \in S})
<1>1. IsFiniteSet(S)
    BY SohAssumption, FS_Subset
<1>2. PICK T : T = {Test(check, h, t) : h \in S}
    OBVIOUS
<1>3. PICK f : f = [h \in S |-> Test(check, h, t)]
    OBVIOUS
<1>4. T = {f[h] : h \in S}
    BY <1>2, <1>3
<1>5. IsFiniteSet(T)
    BY <1>1, <1>4, ImageFinite
<1>. QED BY <1>2, <1>5

LEMMA PairTestsFinite ==
    ASSUME NEW pairs, IsFiniteSet(pairs), NEW check
    PROVE  IsFiniteSet(Tests(check, pairs))
<1>1. PICK T : T = Tests(check, pairs)
    OBVIOUS
<1>2. PICK f : f = [p \in pairs |-> Test(check, p[1], p[2])]
    OBVIOUS
<1>3. T = {f[p] : p \in pairs}
    BY <1>1, <1>2 DEF Tests
<1>4. IsFiniteSet(T)
    BY <1>3, ImageFinite
<1>. QED BY <1>1, <1>4

FitTests(tests) == IsFiniteSet(tests) /\ \A t \in tests : t.check # Network

LEMMA ListedFit ==
    ASSUME SohInv, NEW check, check # Network
    PROVE  FitTests(ListedTests(check)) /\ FitTests(ProfiledTests(check))
<1>1. Listed[check] \cap c2Hosts \subseteq Hosts /\ Profiled[check] \cap c2Hosts \subseteq Hosts
    BY DEF SohInv, Healthy
<1>2. IsFiniteSet(ListedTests(check)) /\ IsFiniteSet(ProfiledTests(check))
  <2>1. ASSUME NEW S, S \subseteq Hosts
        PROVE  /\ IsFiniteSet({Test(check, h, "listed") : h \in S})
               /\ IsFiniteSet({Test(check, h, "profile") : h \in S})
      BY <2>1, HostTestsFinite
  <2>2. /\ IsFiniteSet({Test(check, h, "listed") : h \in Listed[check] \cap c2Hosts})
        /\ IsFiniteSet({Test(check, h, "profile") : h \in Profiled[check] \cap c2Hosts})
      BY <1>1, <2>1, Zenon
  <2>. QED BY <2>2, Zenon DEF ListedTests, ProfiledTests
<1>3. \A t \in ListedTests(check) \cup ProfiledTests(check) : t.check = check
    BY TestFields DEF ListedTests, ProfiledTests
<1>. QED BY <1>2, <1>3 DEF FitTests

LEMMA BothFit ==
    ASSUME NEW S, NEW T, FitTests(S), FitTests(T)
    PROVE  FitTests(S \cup T)
BY FS_Union DEF FitTests

LEMMA PingsFit ==
    ASSUME SohInv, NEW pairs \in PingTargets
    PROVE  FitTests(Tests("reachability", pairs \ PingRefused(pairs)) \cup Tests("custom-reachability", Custom \ CustomRefused))
<1>1. IsFiniteSet(Hosts \X addressed)
    BY FS_Product, SohAssumption DEF SohInv, Healthy
<1>2. pairs \subseteq Hosts \X addressed
    BY SohAssumption DEF PingTargets
<1>3. IsFiniteSet(pairs \ PingRefused(pairs)) /\ IsFiniteSet(Custom \ CustomRefused)
  <2>1. pairs \ PingRefused(pairs) \subseteq Hosts \X addressed /\ Custom \ CustomRefused \subseteq Custom
      BY <1>2
  <2>. QED BY <1>1, <2>1, FS_Subset, SohAssumption
<1>4. FitTests(Tests("reachability", pairs \ PingRefused(pairs)))
  <2>1. \A t \in Tests("reachability", pairs \ PingRefused(pairs)) : t.check = "reachability"
      BY TestFields DEF Tests
  <2>. QED BY <1>3, <2>1, PairTestsFinite DEF FitTests, Network
<1>5. FitTests(Tests("custom-reachability", Custom \ CustomRefused))
  <2>1. \A t \in Tests("custom-reachability", Custom \ CustomRefused) : t.check = "custom-reachability"
      BY TestFields DEF Tests
  <2>. QED BY <1>3, <2>1, PairTestsFinite DEF FitTests, Network
<1>. QED BY <1>4, <1>5, BothFit

LEMMA GroupFit ==
    ASSUME SohInv, NEW i \in 2 .. 11, BeginsGroup(Order[i])
    PROVE  \E tests, refused : FitTests(tests) /\ BeginsTests(tests, refused)
<1>1. PICK check : check = Order[i]
    OBVIOUS
<1>2. check \in {"reachability", "files", "files-absent", "services", "processes", "ports", "docker",
                 "custom", "cpu-load", "flows"}
    BY <1>1 DEF Order
<1>3. check # Network
    BY <1>2 DEF Network
<1>4. FitTests({})
    BY FS_EmptySet DEF FitTests
<1>5. CASE BeginsTests({}, {})
    BY <1>4, <1>5
<1>6. ASSUME NEW pairs \in PingTargets,
             BeginsTests(Tests("reachability", pairs \ PingRefused(pairs)) \cup Tests("custom-reachability", Custom \ CustomRefused),
                         Tests("reachability", PingRefused(pairs)) \cup Tests("custom-reachability", CustomRefused))
      PROVE  \E tests, refused : FitTests(tests) /\ BeginsTests(tests, refused)
    BY <1>6, PingsFit
<1>7. CASE BeginsTests(ListedTests(check), {})
    BY <1>3, <1>7, ListedFit
<1>8. CASE BeginsTests(ListedTests(check) \cup ProfiledTests(check), {})
    BY <1>3, <1>8, ListedFit, BothFit
<1>9. ASSUME NEW bad, BeginsTests((ListedTests(check) \cup ProfiledTests(check)) \ bad, bad)
      PROVE  \E tests, refused : FitTests(tests) /\ BeginsTests(tests, refused)
  <2>1. FitTests(ListedTests(check) \cup ProfiledTests(check))
      BY <1>3, ListedFit, BothFit
  <2>2. FitTests((ListedTests(check) \cup ProfiledTests(check)) \ bad)
      BY <2>1, FS_Subset DEF FitTests
  <2>. QED BY <1>9, <2>2
<1>10. CASE BeginsTests(CPUTests, {})
  <2>1. IsFiniteSet(CPUTests) /\ \A t \in CPUTests : t.check = "cpu-load"
      BY HostTestsFinite, TestFields DEF CPUTests, SohInv, Healthy
  <2>. QED BY <1>10, <2>1 DEF FitTests, Network
<1>11. CASE check \notin SohChecks \/ check = "flows"
    BY <1>1, <1>2, <1>5, <1>11 DEF BeginsGroup
<1>. QED BY <1>1, <1>2, <1>5, <1>6, <1>7, <1>8, <1>9, <1>10, <1>11, Zenon
     DEF BeginsGroup, FileTests, ServiceTests, ContainerTests, ProcTests, PortTests, CustomTests

LEMMA SohGroups ==
    ASSUME SohInv, BeginsCheck
    PROVE  SohInv'
<1>1. turn \in 2 .. 11 /\ ~begun /\ begun' = TRUE /\ sohEnd = "none"
    BY OrderIs DEF BeginsCheck, SohInv, Turns
<1>2. PICK tests, refused : FitTests(tests) /\ BeginsTests(tests, refused)
    BY <1>1, GroupFit DEF BeginsCheck
<1>. QED BY <1>1, <1>2, GroupBegins DEF BeginsCheck, FitTests

LEMMA SohRecords ==
    ASSUME SohInv, Records
    PROVE  SohInv'
<1>1. commands = {} /\ UNCHANGED <<waiting, commands, verdicts, addressed, asked, ctxDone, initialized>>
    BY FS_EmptySet DEF Records, SohInv, GroupCounted
<1>2. CommandsApart' /\ GroupCounted'
    BY <1>1 DEF SohInv, CommandsApart, GroupCounted
<1>3. ~ctxDone => recorded' = recorded \cup TestsOf(verdicts)
    BY DEF Records, TestsOf
<1>4. recorded' \subseteq recorded \cup TestsOf(verdicts) /\ TestsOf(commands) = {}
    BY <1>1 DEF Records, TestsOf
<1>5. AskedAreKept'
  <2>1. TestsOf(verdicts)' = TestsOf(verdicts) /\ TestsOf(commands)' = {} /\ ~begun'
      BY <1>1 DEF TestsOf, Records
  <2>. QED BY <1>1, <1>3, <1>4, <2>1 DEF SohInv, AskedAreKept
<1>6. Turns'
  <2>1. turn \in 1 .. 11 /\ turn' = turn + 1 /\ begun' = FALSE
      BY DEF Records, SohInv, Turns
  <2>2. turn' \in 1 .. 12 /\ turn' > 1
      BY <2>1
  <2>3. sohEnd' \in {"none", "cancelled"} /\ sohEnd = "none"
      BY DEF Records
  <2>4. ~initialized' /\ ctxDone' \in BOOLEAN
      BY <1>1, <2>3 DEF SohInv, Turns
  <2>. QED BY <2>1, <2>2, <2>3, <2>4 DEF Turns
<1>7. Healthy'
  <2>1. ~sohErrs' => ~sohErrs /\ c2Hosts' = c2Hosts /\ (failedNet' = {} \/ failedNet' = failedNet)
      BY DEF Records
  <2>2. c2Hosts' \subseteq c2Hosts /\ sohEnd' # "ok"
      BY DEF Records
  <2>. QED BY <1>1, <2>1, <2>2 DEF SohInv, Healthy
<1>. QED BY <1>2, <1>5, <1>6, <1>7 DEF SohInv

LEMMA SohEnds ==
    ASSUME SohInv, SohReturns \/ SohCancelled \/ UNCHANGED sohVars
    PROVE  SohInv'
<1>1. UNCHANGED <<turn, begun, waiting, commands, verdicts, c2Hosts, failedNet, addressed, recorded, asked, sohErrs>>
    BY DEF SohReturns, SohCancelled, sohVars
<1>2. CommandsApart' /\ GroupCounted'
    BY <1>1 DEF SohInv, CommandsApart, GroupCounted
<1>3. ctxDone => ctxDone'
    BY DEF SohReturns, SohCancelled, sohVars
<1>4. AskedAreKept'
  <2>1. TestsOf(verdicts)' = TestsOf(verdicts) /\ TestsOf(commands)' = TestsOf(commands)
      BY <1>1 DEF TestsOf
  <2>. QED BY <1>1, <1>3, <2>1 DEF SohInv, AskedAreKept
<1>5. Turns'
  <2>1. CASE SohReturns
    <3>1. ~begun
        BY <2>1, OrderIs DEF SohReturns, SohInv, Turns
    <3>. QED BY <2>1, <3>1 DEF SohReturns, SohInv, Turns
  <2>2. CASE SohCancelled \/ UNCHANGED sohVars
    <3>1. sohEnd' = sohEnd /\ initialized' = initialized /\ begun' = begun /\ turn' = turn
        BY <2>2, Zenon DEF SohCancelled, sohVars
    <3>2. ctxDone' \in BOOLEAN
        BY <2>2, Zenon DEF SohCancelled, sohVars, SohInv, Turns
    <3>. QED BY <3>1, <3>2, Zenon DEF SohInv, Turns
  <2>. QED BY <2>1, <2>2
<1>6. Healthy'
    BY DEF SohReturns, SohCancelled, sohVars, SohInv, Healthy
<1>. QED BY <1>2, <1>4, <1>5, <1>6 DEF SohInv

LEMMA SohStep == SohInv /\ [SohNext]_sohVars => SohInv'
<1>. SUFFICES ASSUME SohInv, [SohNext]_sohVars
              PROVE  SohInv'
    OBVIOUS
<1>1. CASE Records
    BY <1>1, SohRecords
<1>2. CASE BeginsCheck
    BY <1>2, SohGroups
<1>3. CASE SohReturns \/ SohCancelled \/ UNCHANGED sohVars
    BY <1>3, SohEnds
<1>4. ASSUME NEW c \in commands,
             AnsweredWell(c) \/ AnsweredNotYet(c) \/ AnsweredWrong(c) \/ NotActive(c) \/ Abandons(c)
      PROVE  SohInv'
    BY <1>4, SohAsksNext, SohAsksAgain, SohAnswers
<1>. QED BY <1>1, <1>2, <1>3, <1>4 DEF SohNext

\* No verdict is lost by a run of the state of health app: the group's
\* counter, which each command raises for those it schedules before it is
\* done itself, comes to zero only when every test has its verdict, and the
\* verdicts are in the stored status before the next check begins.
THEOREM VerdictsAreComplete == SohSpec => []VerdictsComplete
<1>1. SohInit => SohInv
    BY SohBegins
<1>2. SohInv /\ [SohNext]_sohVars => SohInv'
    BY SohStep
<1>. QED BY <1>1, <1>2, SohComplete, PTL DEF SohSpec

=============================================================================
