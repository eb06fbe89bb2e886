------------------------------ MODULE Surfaces ------------------------------
(***************************************************************************)
(* The entry points of the library side by side: a process that repairs    *)
(* what is generated (Agent) and one that gates a project (Gate).  They    *)
(* share the code and no state.                                            *)
(***************************************************************************)
EXTENDS Agent, Gate

CONSTANT Workload  \* which request is served beside which job, a set of pairs

ASSUME WorkloadAssumption == Workload \subseteq Requests \X Jobs

surface_vars == <<vars, agent_vars, gate_vars>>

SurfacesInit ==
  /\ AgentInit
  /\ GateInit
  /\ <<request, job>> \in Workload

RequestProceeds == AgentNext /\ UNCHANGED gate_vars

JobProceeds == GateNext /\ UNCHANGED <<vars, agent_vars>>

SurfacesNext == RequestProceeds \/ JobProceeds

(***************************************************************************)
(* Each process is straight-line code, given that generators and databases *)
(* answer or raise.                                                        *)
(***************************************************************************)
SurfacesSpec ==
  /\ SurfacesInit /\ [][SurfacesNext]_surface_vars
  /\ WF_surface_vars(RequestProceeds) /\ WF_surface_vars(JobProceeds)

(***************************************************************************)
(* The agent, the guard and the fix tools keep the promise of Supervised:  *)
(* bounded attempts, none after an accepted one, and an answer in the end. *)
(***************************************************************************)
ImplementsSupervised == Promise!Spec

=============================================================================
