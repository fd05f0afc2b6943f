------------------------------- MODULE MCHasty -------------------------------
(* The threads of cpHastySpace in C and in Zig, one of them in each behaviour. *)
EXTENDS HastyThreads, ZigHasty

VARIABLE port

PortInit == Init /\ ZigHastyInit /\ port \in {"c", "zig"}

PortNext ==
  /\ UNCHANGED port
  /\ \/ port = "c" /\ Next /\ UNCHANGED zigHastyVars
     \/ port = "zig" /\ ZigHastyNext /\ UNCHANGED vars

\* Every thread that can run does run; nothing is promised of a spurious wakeup.
CMainStep == port = "c" /\ MainStep /\ UNCHANGED <<zigHastyVars, port>>
CWorkerStep(w) == port = "c" /\ WorkerStep(w) /\ UNCHANGED <<zigHastyVars, port>>
ZMainStep == port = "zig" /\ ZigMainStep /\ UNCHANGED <<vars, port>>
ZWorkerStep(w) == port = "zig" /\ ZigWorkerStep(w) /\ UNCHANGED <<vars, port>>
portVars == <<vars, zigHastyVars, port>>

PortSpec ==
  /\ PortInit /\ [][PortNext]_portVars
  /\ WF_portVars(CMainStep) /\ \A w \in Worker : WF_portVars(CWorkerStep(w))
  /\ WF_portVars(ZMainStep) /\ \A w \in ZWorker : WF_portVars(ZWorkerStep(w))
=============================================================================
