----------------------------- MODULE Deployment -----------------------------
(***************************************************************************)
(* The two processes of a deployment side by side: the HTTP service with  *)
(* its background worker (ServiceLifecycle), and the order-status worker  *)
(* (WorkerLifecycle).  They share no variable, and each receives its own  *)
(* signal; a step of the deployment is a step of one of them.             *)
(***************************************************************************)
EXTENDS ServiceLifecycle, WorkerLifecycle

deploymentVars == <<serviceVars, wlVars>>

\* Both processes start together, neither connected yet.
DeploymentInit == LifeInit /\ WorkerLifeInit

\* A step of one process, the other one standing still.
DeploymentNext ==
    \/ LifeNext /\ UNCHANGED wlVars
    \/ WorkerLifeNext /\ UNCHANGED serviceVars

\* Each process brings its own fairness: the runtime schedules both.
DeploymentSpec ==
    /\ DeploymentInit
    /\ [][DeploymentNext]_deploymentVars
    /\ LifeFairness /\ WorkerLifeFairness

=============================================================================
