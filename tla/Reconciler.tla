------------------------------- MODULE Reconciler -------------------------------
(***************************************************************************)
(* The orchestrator (services/orchestrator): processes that each take the  *)
(* first deployment waiting for Kubernetes, apply or delete its manifests  *)
(* with kubectl and write the outcome into the deployment's row.  Nothing  *)
(* claims a deployment, and kubectl runs between the store calls.          *)
(*                                                                         *)
(* The deployments belong to services of one project, hence to one         *)
(* Kubernetes namespace.  A workload is what a manifest names: a service's *)
(* own, or one per pull request (kube.SpecFromState).  The builder, the    *)
(* API and the GitHub webhook, which write the same rows, appear with the  *)
(* status writes they make.  Every store call is one step.                 *)
(***************************************************************************)
EXTENDS Integers

CONSTANTS
    DeploymentIds,  \* ListDeploymentsForReconcile sorts by id
    Workloads,      \* Kubernetes workloads of the project
    Previews,       \* the workloads that belong to a pull request
    WorkloadOf,     \* the workload of each deployment
    Orchestrators,  \* processes running RunOnce in a loop
    Nothing,        \* no deployment
    MaxBuilds,      \* bound on the images the builder reports per deployment
    MaxOrchFaults   \* bound on crashes and failed store calls

ASSUME RowsAssumption     == DeploymentIds \subseteq Nat /\ Nothing \notin DeploymentIds
ASSUME WorkloadAssumption == /\ Previews \subseteq Workloads
                             /\ WorkloadOf \in [DeploymentIds -> Workloads]
ASSUME BoundsAssumption   == MaxBuilds \in Nat /\ MaxOrchFaults \in Nat

VARIABLES
    rows,      \* status, and whether imageUrl and previousImageUrl are set
    orch,      \* the work of every orchestrator
    cluster,   \* the deployment each workload runs
    builds,    \* images reported per deployment
    closed,    \* pull requests whose closing the webhook has seen
    orchFaults,
    overlapped \* an orchestrator took up work while another was at some (history)

vars == <<rows, orch, cluster, builds, closed, orchFaults, overlapped>>

\* The statuses ListDeploymentsForReconcile selects.
Listed == {"IMAGE_READY", "ROLLBACK_REQUESTED", "PREVIEW_CLEANUP_REQUESTED"}

Statuses == Listed \cup {"BUILDING", "DEPLOYING", "READY", "FAILED", "CANCELLED", "CLEANED_UP"}

\* What matters of a deployment's row: imageUrl and previousImageUrl are set.
Row == [status : Statuses, image : BOOLEAN, previous : BOOLEAN]

\* Where an orchestrator is, and its copy of the deployment it is at.
Work == [pc : {"idle", "listed", "applying", "rollout", "ready", "deleting", "deleted"},
         dep : DeploymentIds \cup {Nothing}, saw : Statuses \cup {"none"}, image : BOOLEAN]

ReconcilerTypeOK ==
    /\ rows \in [DeploymentIds -> Row]
    /\ orch \in [Orchestrators -> Work]
    /\ \A o \in Orchestrators : orch[o].pc = "idle" <=> orch[o].dep = Nothing
    /\ cluster \in [Workloads -> DeploymentIds \cup {Nothing}]
    /\ builds \in [DeploymentIds -> 0..MaxBuilds]
    /\ closed \subseteq Previews
    /\ orchFaults \in 0..MaxOrchFaults
    /\ overlapped \in BOOLEAN

Resting == [pc |-> "idle", dep |-> Nothing, saw |-> "none", image |-> FALSE]

\* A deployment starts out at the builder, or was created waiting for a rollback
\* (the store's createDeployment takes any status; no code updates a row to it).
ReconcilerInit ==
    /\ rows \in [DeploymentIds -> [status : {"BUILDING"}, image : {FALSE}, previous : {FALSE}]
                            \cup [status : {"ROLLBACK_REQUESTED"}, image : {TRUE},
                                  previous : BOOLEAN]]
    /\ orch = [o \in Orchestrators |-> Resting]
    /\ cluster = [x \in Workloads |-> Nothing]
    /\ builds = [d \in DeploymentIds |-> 0]
    /\ closed = {}
    /\ orchFaults = 0
    /\ overlapped = FALSE

--------------------------------------------------------------------------------
(***************************************************************************)
(* The other writers                                                       *)
(***************************************************************************)

\* The builder's final UpdateDeployment, which does not look at the status.
imageReady(d) ==
    /\ builds[d] < MaxBuilds
    /\ builds' = [builds EXCEPT ![d] = @ + 1]
    /\ rows' = [rows EXCEPT ![d].status = "IMAGE_READY", ![d].image = TRUE]
    /\ UNCHANGED <<orch, cluster, closed, orchFaults, overlapped>>

\* The status endpoint reports an image without naming it.
imageReadyUnnamed(d) ==
    /\ builds[d] < MaxBuilds
    /\ ~rows[d].image /\ rows[d].status = "BUILDING"
    /\ builds' = [builds EXCEPT ![d] = @ + 1]
    /\ rows' = [rows EXCEPT ![d].status = "IMAGE_READY"]
    /\ UNCHANGED <<orch, cluster, closed, orchFaults, overlapped>>

\* handleGitHubWebhook, pull request closed: every deployment of the preview.
cleanupRequested(p) ==
    /\ p \in Previews \ closed
    /\ closed' = closed \cup {p}
    /\ rows' = [d \in DeploymentIds |->
                   IF WorkloadOf[d] = p
                   THEN [rows[d] EXCEPT !.status = "PREVIEW_CLEANUP_REQUESTED"]
                   ELSE rows[d]]
    /\ UNCHANGED <<orch, cluster, builds, orchFaults, overlapped>>

\* cancelDeployment, where canTransitionDeployment knows the status.
cancelDeployment(d) ==
    /\ rows[d].status \notin {"CANCELLED", "ROLLBACK_REQUESTED", "CLEANED_UP"}
    /\ rows' = [rows EXCEPT ![d].status = "CANCELLED"]
    /\ UNCHANGED <<orch, cluster, builds, closed, orchFaults, overlapped>>

--------------------------------------------------------------------------------
(***************************************************************************)
(* The orchestrator                                                        *)
(***************************************************************************)

StoreFault == orchFaults < MaxOrchFaults /\ orchFaults' = orchFaults + 1

Goto(o, pc) == orch' = [orch EXCEPT ![o].pc = pc]

Return(o) == orch' = [orch EXCEPT ![o] = Resting]

\* UpdateDeployment of the deployment at hand.
SetStatus(o, status) == rows' = [rows EXCEPT ![orch[o].dep].status = status]

\* UpdateDeployment whose error is dropped.
TrySetStatus(o, status) ==
    \/ SetStatus(o, status) /\ UNCHANGED orchFaults
    \/ StoreFault /\ UNCHANGED rows

\* Variant: cleanup requests are not listed.
WaitingForImagesOnly ==
    {d \in DeploymentIds : rows[d].status \in {"IMAGE_READY", "ROLLBACK_REQUESTED"}}

\* ListDeploymentsForReconcile
Waiting == {d \in DeploymentIds : rows[d].status \in Listed}

\* Does the row name an image to apply?  A rollback takes the previous one.
HasImage(d) ==
    IF rows[d].status = "ROLLBACK_REQUESTED" THEN rows[d].previous ELSE rows[d].image

\* RunOnceResult takes a copy of the first; with none waiting it changes nothing.
RunOnce(o, d) ==
    /\ orch[o].pc = "idle"
    /\ d \in Waiting
    /\ \A e \in Waiting : d <= e
    /\ orch' = [orch EXCEPT ![o] = [pc |-> "listed", dep |-> d, saw |-> rows[d].status,
                                   image |-> HasImage(d)]]
    /\ overlapped' = (overlapped \/ \E p \in Orchestrators \ {o} : orch[p].pc # "idle")
    /\ UNCHANGED <<rows, cluster, builds, closed, orchFaults>>

\* reconcileDeployment: a deployment to clean up goes to cleanupPreview; one
\* without an image is marked failed; any other is DEPLOYING from here.
reconcileDeployment(o) ==
    /\ orch[o].pc = "listed"
    /\ \/ /\ orch[o].saw = "PREVIEW_CLEANUP_REQUESTED"
          /\ Goto(o, "deleting")
          /\ UNCHANGED <<rows, orchFaults>>
       \/ /\ orch[o].saw # "PREVIEW_CLEANUP_REQUESTED" /\ ~orch[o].image
          /\ TrySetStatus(o, "FAILED")
          /\ Return(o)
       \/ /\ orch[o].saw # "PREVIEW_CLEANUP_REQUESTED" /\ orch[o].image
          /\ TrySetStatus(o, "DEPLOYING")
          /\ Goto(o, "applying")
    /\ UNCHANGED <<cluster, builds, closed, overlapped>>

\* kubectl apply --server-side
kubectlApply(o) ==
    /\ orch[o].pc = "applying"
    /\ cluster' = [cluster EXCEPT ![WorkloadOf[orch[o].dep]] = orch[o].dep]
    /\ Goto(o, "rollout")
    /\ UNCHANGED <<rows, builds, closed, orchFaults, overlapped>>

\* kubectl rollout status looks at the workload by its name.
rolloutStatus(o) ==
    /\ orch[o].pc = "rollout"
    /\ cluster[WorkloadOf[orch[o].dep]] # Nothing
    /\ Goto(o, "ready")
    /\ UNCHANGED <<rows, cluster, builds, closed, orchFaults, overlapped>>

\* Variant: the error is returned without markFailed.
kubectlFailsSilently(o) ==
    /\ orch[o].pc \in {"applying", "rollout"}
    /\ Return(o)
    /\ UNCHANGED <<rows, cluster, builds, closed, orchFaults, overlapped>>

\* kubectl apply or rollout status fails (apply perhaps after it took effect):
\* markFailed, whose own error is dropped.
kubectlFails(o) ==
    /\ orch[o].pc \in {"applying", "rollout"}
    /\ \/ UNCHANGED cluster
       \/ /\ orch[o].pc = "applying"
          /\ cluster' = [cluster EXCEPT ![WorkloadOf[orch[o].dep]] = orch[o].dep]
    /\ TrySetStatus(o, "FAILED")
    /\ Return(o)
    /\ UNCHANGED <<builds, closed, overlapped>>

\* The rollout is reported; an error of this call ends the run.
markReady(o) ==
    /\ orch[o].pc = "ready"
    /\ TrySetStatus(o, "READY")
    /\ Return(o)
    /\ UNCHANGED <<cluster, builds, closed, overlapped>>

\* Variant: an error of kubectl delete is not noticed.
kubectlDeleteUnchecked(o) ==
    /\ orch[o].pc = "deleting"
    /\ \/ cluster' = [x \in Workloads |-> Nothing]
       \/ UNCHANGED cluster
    /\ Goto(o, "deleted")
    /\ UNCHANGED <<rows, builds, closed, orchFaults, overlapped>>

\* kubectl delete -f with the plan's manifests.  The first of them is the
\* project's namespace (CompileServiceManifests), and with it goes everything.
kubectlDelete(o) ==
    /\ orch[o].pc = "deleting"
    /\ cluster' = [x \in Workloads |-> Nothing]
    /\ Goto(o, "deleted")
    /\ UNCHANGED <<rows, builds, closed, orchFaults, overlapped>>

\* kubectl delete fails, perhaps after it took effect: markFailed.
kubectlDeleteFails(o) ==
    /\ orch[o].pc = "deleting"
    /\ cluster' \in {cluster, [x \in Workloads |-> Nothing]}
    /\ TrySetStatus(o, "FAILED")
    /\ Return(o)
    /\ UNCHANGED <<builds, closed, overlapped>>

markCleanedUp(o) ==
    /\ orch[o].pc = "deleted"
    /\ TrySetStatus(o, "CLEANED_UP")
    /\ Return(o)
    /\ UNCHANGED <<cluster, builds, closed, overlapped>>

\* The process dies, or a lookup or writeManifest fails: nothing is marked.
orchestratorDies(o) ==
    /\ orch[o].pc # "idle"
    /\ StoreFault
    /\ Return(o)
    /\ UNCHANGED <<rows, cluster, builds, closed, overlapped>>

OrchestratorStep(o) ==
    \/ \E d \in DeploymentIds : RunOnce(o, d)
    \/ reconcileDeployment(o)
    \/ kubectlApply(o) \/ rolloutStatus(o) \/ kubectlFails(o) \/ markReady(o)
    \/ kubectlDelete(o) \/ kubectlDeleteFails(o) \/ markCleanedUp(o)

ReconcilerNext ==
    \/ \E d \in DeploymentIds : imageReady(d) \/ imageReadyUnnamed(d) \/ cancelDeployment(d)
    \/ \E p \in Previews : cleanupRequested(p)
    \/ \E o \in Orchestrators : OrchestratorStep(o) \/ orchestratorDies(o)

ReconcilerSpec == ReconcilerInit /\ [][ReconcilerNext]_vars

\* Orchestrators keep running and kubectl runs under a timeout.
Fairness == \A o \in Orchestrators : WF_vars(OrchestratorStep(o))

FairSpec == ReconcilerSpec /\ Fairness

--------------------------------------------------------------------------------
(***************************************************************************)
(* Properties                                                              *)
(***************************************************************************)

\* Unless a store call failed or a process died, a deployment is DEPLOYING
\* only while some orchestrator is at it and will write the outcome.  (No
\* orchestrator lists DEPLOYING rows again.)
NoDanglingRollout ==
    \A d \in DeploymentIds : rows[d].status = "DEPLOYING" =>
        \/ orchFaults > 0
        \/ \E o \in Orchestrators :
              orch[o].dep = d /\ orch[o].pc \in {"applying", "rollout", "ready"}

\* Unless a store call failed or a process died, every deployment leaves the
\* reconciler's hands, although the first id in the list is always served first
\* and rows are rewritten at any time by others.
EveryRolloutEnds ==
    <>[](\/ orchFaults > 0
         \/ \A d \in DeploymentIds : rows[d].status \notin Listed \cup {"DEPLOYING"})

\* As long as orchestrators have worked one at a time, a deployment that is
\* CLEANED_UP does not run, and neither faults nor the builds and cancellations
\* that arrive during the cleanup change that.
CleanedUpIsGone ==
    ~overlapped =>
        \A d \in DeploymentIds :
            rows[d].status = "CLEANED_UP" => cluster[WorkloadOf[d]] # d

\* While they work one at a time, the row at hand is not CLEANED_UP, and nothing
\* runs between the deletion and its report.
CleanupInv ==
    ~overlapped =>
        /\ \A o, p \in Orchestrators : orch[o].pc # "idle" /\ orch[p].pc # "idle" => o = p
        /\ \A o \in Orchestrators :
            /\ orch[o].pc # "idle" => rows[orch[o].dep].status # "CLEANED_UP"
            /\ orch[o].pc = "deleted" => \A x \in Workloads : cluster[x] = Nothing

\* The inductive invariant behind the two safety properties.
ReconcilerInv == ReconcilerTypeOK /\ NoDanglingRollout /\ CleanedUpIsGone /\ CleanupInv

\* Cleaning up a preview never takes a production workload away
\* (docs/preview-deployments.md: previews do not interfere with production;
\* reconciler_test.go: "preview cleanup manifest must target isolated preview
\* workload").
CleanupSparesProduction ==
    [][\A x \in Workloads \ Previews : cluster[x] # Nothing => cluster'[x] # Nothing]_vars
================================================================================
