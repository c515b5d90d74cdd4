----------------------------- MODULE BuildPipeline -----------------------------
(***************************************************************************)
(* Deployments of one git-sourced service: the API operations that create, *)
(* cancel, roll back and report on them (packages/core/src/persistence.ts, *)
(* behind apps/api) and the builder processes that turn workflow jobs into *)
(* images (services/builder/internal/worker).  Both write the deployment   *)
(* row directly.                                                           *)
(*                                                                         *)
(* The workflow queue is JobBoard.  An API request runs in several awaits  *)
(* and a builder in several store calls; each is a step of its own.  A     *)
(* commit stands for the image content built from it and for the image tag *)
(* derived from it.  Logs, events, timestamps and error texts are left     *)
(* out.                                                                    *)
(***************************************************************************)
EXTENDS JobBoard, FiniteSets

CONSTANTS
    Deployments,   \* ids, handed out in increasing order
    Commits,       \* what can be checked out
    Requests,      \* API requests that may arrive, each served once
    Reports,       \* statuses system actors report through the API
    MaxFaults      \* bound on crashes and failed store calls

ASSUME IdsAssumption     == Jobs \subseteq Nat /\ Deployments \subseteq Nat
ASSUME NoneAssumption    == None \notin Commits \cup Jobs \cup Deployments
ASSUME BudgetAssumption  == MaxAttempts \in Nat \ {0}
ASSUME PolicyAssumption  == ReclaimRunning \in BOOLEAN
ASSUME FaultsAssumption  == MaxFaults \in Nat

VARIABLES
    deployments,    \* the Deployment table
    serviceImage,   \* the column "imageUrl" of the service
    registry,       \* the content each image tag points at
    jobOf,          \* type, deployment and imageUrl in each job's payload
    ctx,            \* the buildContext of every builder
    requests,       \* API requests in progress
    faults

pipelineVars == <<board, hands, deployments, serviceImage, registry, jobOf, ctx,
                  requests, faults>>

DeploymentStatuses == {"queued", "BUILDING", "IMAGE_READY", "DEPLOYING", "READY",
                       "BUILD_FAILED", "FAILED", "CANCELLED",
                       "PREVIEW_CLEANUP_REQUESTED"}

ASSUME ReportsAssumption == Reports \subseteq DeploymentStatuses \ {"queued", "BUILDING"}

Image == Commits \cup {None}

Deployment == [status : DeploymentStatuses \cup {"absent"}, commit : Image,
               imageUrl : Image, digest : Image]
Payload    == [type : {"none", "build", "cancel", "rollback", "unrelated"},
               dep : Deployments \cup {None}, imageUrl : Image]
Context    == [phase : {"none", "resolve", "mark", "build", "record", "service", "complete"},
               image : Image, digest : Image]
Request    == [op : {"none", "report", "cancel", "rollback"},
               stage : {"new", "checked", "written", "done"},
               dep : Deployments \cup {None}, status : DeploymentStatuses,
               commit : Image, imageUrl : Image, digest : Image]

NoDeployment == [status |-> "absent", commit |-> None, imageUrl |-> None, digest |-> None]
NoPayload    == [type |-> "none", dep |-> None, imageUrl |-> None]
NoContext    == [phase |-> "none", image |-> None, digest |-> None]
NoRequest    == [op |-> "none", stage |-> "new", dep |-> None, status |-> "queued",
                 commit |-> None, imageUrl |-> None, digest |-> None]

TypeOK ==
    /\ board \in [Jobs -> [status : {"absent", "queued", "running", "succeeded", "failed"},
                           attempts : 0..MaxAttempts]]
    /\ hands \in [Workers -> [pc : {"idle", "working", "failing"},
                              job : Jobs \cup {None}, attempt : 0..MaxAttempts]]
    /\ deployments \in [Deployments -> Deployment]
    /\ serviceImage \in Image
    /\ registry \in [Commits -> Image]
    /\ jobOf \in [Jobs -> Payload]
    /\ ctx \in [Workers -> Context]
    /\ requests \in [Requests -> Request]
    /\ faults \in 0..MaxFaults

Init ==
    /\ BoardInit
    /\ deployments = [d \in Deployments |-> NoDeployment]
    /\ serviceImage = None
    /\ registry = [c \in Commits |-> None]
    /\ jobOf = [j \in Jobs |-> NoPayload]
    /\ ctx = [w \in Workers |-> NoContext]
    /\ requests = [r \in Requests |-> NoRequest]
    /\ faults = 0

--------------------------------------------------------------------------------
(***************************************************************************)
(* Helpers                                                                 *)
(***************************************************************************)

\* ALLOWED_TRANSITIONS
Allowed ==
    [s \in DeploymentStatuses |->
        CASE s = "queued"       -> {"BUILDING", "CANCELLED", "FAILED"}
          [] s = "BUILDING"     -> {"IMAGE_READY", "BUILD_FAILED", "FAILED", "CANCELLED"}
          [] s = "IMAGE_READY"  -> {"DEPLOYING", "READY", "FAILED", "CANCELLED"}
          [] s = "DEPLOYING"    -> {"READY", "FAILED", "CANCELLED"}
          [] s = "READY"        -> {"PREVIEW_CLEANUP_REQUESTED", "CANCELLED"}
          [] s = "BUILD_FAILED" -> {"BUILDING", "CANCELLED"}
          [] s = "FAILED"       -> {"BUILDING", "CANCELLED"}
          [] s = "CANCELLED"    -> {}
          [] s = "PREVIEW_CLEANUP_REQUESTED" -> {"CANCELLED"}]

canTransitionDeployment(from, to) == from = to \/ to \in Allowed[from]

Exists(d) == deployments[d].status # "absent"
Fresh(d)  == ~Exists(d) /\ \A e \in Deployments : e < d => Exists(e)
FreshJob(j) ==
    /\ board[j].status = "absent"
    /\ \A i \in Jobs : i < j => board[i].status # "absent"

\* A job row is inserted with its payload.
Enqueue(j, payload) ==
    /\ FreshJob(j)
    /\ Post(j)
    /\ jobOf' = [jobOf EXCEPT ![j] = payload]

Fault == faults < MaxFaults /\ faults' = faults + 1

\* The deployment a builder's job names.
Target(w) == jobOf[hands[w].job].dep

In(w, phase) == hands[w].pc = "working" /\ ctx[w].phase = phase
Enter(w, phase) == ctx' = [ctx EXCEPT ![w].phase = phase]
Leave(w) == ctx' = [ctx EXCEPT ![w] = NoContext]

--------------------------------------------------------------------------------
(***************************************************************************)
(* API operations                                                          *)
(***************************************************************************)

\* createDeploymentWorkflow: deployment and job in one transaction.
createDeploymentWorkflow(d, c, j) ==
    /\ Fresh(d)
    /\ Enqueue(j, [type |-> "build", dep |-> d, imageUrl |-> None])
    /\ deployments' = [deployments EXCEPT ![d] = [NoDeployment EXCEPT !.status = "queued",
                                                                      !.commit = c]]
    /\ UNCHANGED <<serviceImage, registry, ctx, requests, faults>>

\* A job without a deployment is enqueued (preview-cleanup, provision-resource);
\* builders claim jobs of every type.
enqueueUnrelated(j) ==
    /\ Enqueue(j, [NoPayload EXCEPT !.type = "unrelated"])
    /\ UNCHANGED <<deployments, serviceImage, registry, ctx, requests, faults>>

\* transitionDeployment up to its assertion: the status is read and checked.
transitionDeployment(r, op, d, s) ==
    /\ requests[r].stage = "new"
    /\ Exists(d)
    /\ canTransitionDeployment(deployments[d].status, s)
    /\ requests' = [requests EXCEPT ![r] = [NoRequest EXCEPT !.op = op, !.stage = "checked",
                                                             !.dep = d, !.status = s]]
    /\ UNCHANGED <<boardVars, deployments, serviceImage, registry, jobOf, ctx, faults>>

\* updateDeployment, called by transitionDeployment without validateTransition:
\* the status is written, whatever it is by now.
updateDeployment(r) ==
    /\ requests[r].stage = "checked" /\ requests[r].op \in {"report", "cancel"}
    /\ deployments' = [deployments EXCEPT ![requests[r].dep].status = requests[r].status]
    /\ requests' = [requests EXCEPT ![r].stage = IF requests[r].op = "cancel"
                                                 THEN "written" ELSE "done"]
    /\ UNCHANGED <<boardVars, serviceImage, registry, jobOf, ctx, faults>>

\* cancelDeployment after the transition: the job is enqueued separately.
enqueueCancel(r, j) ==
    /\ requests[r].stage = "written" /\ requests[r].op = "cancel"
    /\ Enqueue(j, [type |-> "cancel", dep |-> requests[r].dep, imageUrl |-> None])
    /\ requests' = [requests EXCEPT ![r].stage = "done"]
    /\ UNCHANGED <<deployments, serviceImage, registry, ctx, faults>>

\* rollbackDeployment up to the choice of the image: a previous deployment that
\* has one, picked by the request or looked up.  Without one it answers 409.
rollbackDeployment(r, d, previous) ==
    /\ requests[r].stage = "new"
    /\ Exists(d)
    /\ deployments[previous].imageUrl # None
    /\ requests' = [requests EXCEPT ![r] =
                       [op |-> "rollback", stage |-> "checked", dep |-> d,
                        status |-> "IMAGE_READY",
                        commit |-> deployments[previous].commit,
                        imageUrl |-> deployments[previous].imageUrl,
                        digest |-> deployments[previous].digest]]
    /\ UNCHANGED <<boardVars, deployments, serviceImage, registry, jobOf, ctx, faults>>

\* ... the rollback deployment is created, image-ready at once ...
createRollback(r, d) ==
    LET q == requests[r] IN
    /\ q.stage = "checked" /\ q.op = "rollback"
    /\ Fresh(d)
    /\ deployments' = [deployments EXCEPT ![d] = [status |-> q.status, commit |-> q.commit,
                                                  imageUrl |-> q.imageUrl,
                                                  digest |-> q.digest]]
    /\ requests' = [requests EXCEPT ![r].stage = "written", ![r].dep = d]
    /\ UNCHANGED <<boardVars, serviceImage, registry, jobOf, ctx, faults>>

\* ... and its job is enqueued.
enqueueRollback(r, j) ==
    LET q == requests[r] IN
    /\ q.stage = "written" /\ q.op = "rollback"
    /\ Enqueue(j, [type |-> "rollback", dep |-> q.dep, imageUrl |-> q.imageUrl])
    /\ requests' = [requests EXCEPT ![r].stage = "done"]
    /\ UNCHANGED <<deployments, serviceImage, registry, ctx, faults>>

\* The API process dies, or a store call fails, between two awaits.
abortRequest(r) ==
    /\ requests[r].stage \in {"checked", "written"}
    /\ Fault
    /\ requests' = [requests EXCEPT ![r].stage = "done"]
    /\ UNCHANGED <<boardVars, deployments, serviceImage, registry, jobOf, ctx>>

--------------------------------------------------------------------------------
(***************************************************************************)
(* The builder                                                             *)
(***************************************************************************)

ClaimNextWorkflowJob(w) ==
    /\ \E j \in Jobs : Claim(w, j)
    /\ Enter(w, "resolve")
    /\ UNCHANGED <<deployments, serviceImage, registry, jobOf, requests, faults>>

\* resolveImage: an image that is already known wins over the commit's own tag.
resolveImage(job, deployment) ==
    CASE job.imageUrl # None        -> job.imageUrl
      [] deployment.imageUrl # None -> deployment.imageUrl
      [] serviceImage # None        -> serviceImage
      [] OTHER                      -> deployment.commit

\* resolveState: deployment and service are read once; the image name and an
\* earlier digest come from this snapshot.
resolveState(w) ==
    LET job == jobOf[hands[w].job] IN
    /\ In(w, "resolve")
    /\ job.dep # None
    /\ ctx' = [ctx EXCEPT ![w] = [phase |-> "mark",
                                  image |-> resolveImage(job, deployments[job.dep]),
                                  digest |-> deployments[job.dep].digest]]
    /\ UNCHANGED <<boardVars, deployments, serviceImage, registry, jobOf, requests, faults>>

\* resolveState fails: the job names no deployment.
resolveStateFails(w) ==
    /\ In(w, "resolve")
    /\ Target(w) = None
    /\ Falter(w)
    /\ Leave(w)
    /\ UNCHANGED <<deployments, serviceImage, registry, jobOf, requests, faults>>

\* The two deployment rows the builder writes on its way.
Building(w) == [deployments EXCEPT ![Target(w)].status = "BUILDING"]

\* Variant: the digest is looked up under the tag once the build is over.
RecordedFromTag(w) ==
    [deployments EXCEPT ![Target(w)] = [@ EXCEPT !.status = "IMAGE_READY",
                                                 !.imageUrl = ctx[w].image,
                                                 !.digest = registry[ctx[w].image]]]

\* Variant: a cancelled deployment is left alone, and its job still completes.
RecordedUnlessCancelled(w) ==
    [deployments EXCEPT ![Target(w)] =
        IF @.status = "CANCELLED" THEN @
        ELSE [@ EXCEPT !.status = "IMAGE_READY", !.imageUrl = ctx[w].image,
                       !.digest = ctx[w].digest]]

Recorded(w) == [deployments EXCEPT ![Target(w)] = [@ EXCEPT !.status = "IMAGE_READY",
                                                            !.imageUrl = ctx[w].image,
                                                            !.digest = ctx[w].digest]]

markBuilding(w) ==
    /\ In(w, "mark")
    /\ deployments' = Building(w)
    /\ Enter(w, "build")
    /\ UNCHANGED <<boardVars, serviceImage, registry, jobOf, requests, faults>>

Pushed(w) == [registry EXCEPT ![ctx[w].image] = deployments[Target(w)].commit]

\* resolveDigest: a digest the deployment already had wins over the new one.
resolveDigest(w) ==
    IF ctx[w].digest # None THEN ctx[w].digest ELSE deployments[Target(w)].commit

\* Variant: the image is built but not pushed.
executeBuildUnpushed(w) ==
    /\ In(w, "build")
    /\ ctx' = [ctx EXCEPT ![w].phase = "record", ![w].digest = resolveDigest(w)]
    /\ UNCHANGED <<boardVars, deployments, serviceImage, registry, jobOf, requests, faults>>

\* prepareSource, prepareBuildPlan and executeBuild succeed.
executeBuild(w) ==
    /\ In(w, "build")
    /\ registry' = Pushed(w)
    /\ ctx' = [ctx EXCEPT ![w].phase = "record", ![w].digest = resolveDigest(w)]
    /\ UNCHANGED <<boardVars, deployments, serviceImage, jobOf, requests, faults>>

\* Variant: the error is returned without markFailed.
buildFailsSilently(w) ==
    /\ In(w, "build")
    /\ Falter(w)
    /\ Leave(w)
    /\ UNCHANGED <<deployments, serviceImage, registry, jobOf, requests, faults>>

\* One of them fails, perhaps after the image was pushed, and markFailed
\* records it; an error of markFailed is dropped.
buildFails(w) ==
    /\ In(w, "build")
    /\ registry' \in {registry, Pushed(w)}
    /\ \/ /\ deployments' = [deployments EXCEPT ![Target(w)].status = "BUILD_FAILED"]
          /\ UNCHANGED faults
       \/ Fault /\ UNCHANGED deployments
    /\ Falter(w)
    /\ Leave(w)
    /\ UNCHANGED <<serviceImage, jobOf, requests>>

\* UpdateDeployment with IMAGE_READY.
recordImage(w) ==
    /\ In(w, "record")
    /\ deployments' = Recorded(w)
    /\ Enter(w, "service")
    /\ UNCHANGED <<boardVars, serviceImage, registry, jobOf, requests, faults>>

\* UpdateService; its error is dropped.
updateService(w) ==
    /\ In(w, "service")
    /\ \/ serviceImage' = ctx[w].image /\ UNCHANGED faults
       \/ Fault /\ UNCHANGED serviceImage
    /\ Enter(w, "complete")
    /\ UNCHANGED <<boardVars, deployments, registry, jobOf, requests>>

CompleteWorkflowJob(w) ==
    /\ In(w, "complete")
    /\ Complete(w)
    /\ Leave(w)
    /\ UNCHANGED <<deployments, serviceImage, registry, jobOf, requests, faults>>

FailWorkflowJob(w) ==
    /\ Fail(w)
    /\ UNCHANGED <<deployments, serviceImage, registry, jobOf, ctx, requests, faults>>

\* A store call returns an error, after it was carried out or without; the
\* builder goes on to FailWorkflowJob and leaves the deployment as it is.
storeErrors(w) ==
    /\ Fault
    /\ \/ In(w, "resolve") /\ Falter(w) /\ UNCHANGED deployments
       \/ In(w, "mark") /\ Falter(w) /\ deployments' \in {deployments, Building(w)}
       \/ In(w, "record") /\ Falter(w) /\ deployments' \in {deployments, Recorded(w)}
       \/ In(w, "complete") /\ (Falter(w) \/ CompleteUnseen(w)) /\ UNCHANGED deployments
    /\ Leave(w)
    /\ UNCHANGED <<serviceImage, registry, jobOf, requests>>

\* The builder process dies, or the error of FailWorkflowJob is dropped.
crash(w) ==
    /\ Fault
    /\ Drop(w)
    /\ Leave(w)
    /\ UNCHANGED <<deployments, serviceImage, registry, jobOf, requests>>

--------------------------------------------------------------------------------
RequestStep(r) ==
    \/ updateDeployment(r)
    \/ \E j \in Jobs : enqueueCancel(r, j) \/ enqueueRollback(r, j)
    \/ \E d \in Deployments : createRollback(r, d)

BuilderStep(w) ==
    \/ ClaimNextWorkflowJob(w)
    \/ resolveState(w) \/ resolveStateFails(w)
    \/ markBuilding(w)
    \/ executeBuild(w) \/ buildFails(w)
    \/ recordImage(w) \/ updateService(w)
    \/ CompleteWorkflowJob(w) \/ FailWorkflowJob(w)

Next ==
    \/ \E d \in Deployments, c \in Commits, j \in Jobs : createDeploymentWorkflow(d, c, j)
    \/ \E j \in Jobs : enqueueUnrelated(j)
    \/ \E r \in Requests, d \in Deployments :
          \/ transitionDeployment(r, "cancel", d, "CANCELLED")
          \/ \E s \in Reports : transitionDeployment(r, "report", d, s)
          \/ \E p \in Deployments : rollbackDeployment(r, d, p)
    \/ \E r \in Requests : RequestStep(r) \/ abortRequest(r)
    \/ \E w \in Workers : BuilderStep(w) \/ storeErrors(w) \/ crash(w)

Spec == Init /\ [][Next]_pipelineVars

--------------------------------------------------------------------------------
(***************************************************************************)
(* Properties                                                              *)
(***************************************************************************)

\* The digest recorded for a deployment is that of its own commit, although
\* builders share image tags, two of them may build the same deployment at
\* once, retries reuse earlier digests and rollbacks copy them.
DigestOfCommit ==
    \A d \in Deployments :
        deployments[d].digest # None => deployments[d].digest = deployments[d].commit

\* An image is announced (to the orchestrator, to rollbacks, to later builds of
\* the service) only after it was pushed.
AnnouncedIsPushed ==
    /\ \A d \in Deployments :
          deployments[d].imageUrl # None => registry[deployments[d].imageUrl] # None
    /\ serviceImage # None => registry[serviceImage] # None

\* A job that succeeded left an image with its deployment: IMAGE_READY is
\* recorded before the job is completed, on every path.
SucceededHasImage ==
    \A j \in Jobs : board[j].status = "succeeded"
                    => deployments[jobOf[j].dep].imageUrl # None

\* Unless a store call failed or a process died, a deployment is BUILDING only
\* while some builder is at it and will write the outcome.
NoDanglingBuild ==
    TypeOK /\ \A d \in Deployments : deployments[d].status = "BUILDING" =>
        \/ faults > 0
        \/ \E w \in Workers : (In(w, "build") \/ In(w, "record")) /\ Target(w) = d

\* A cancelled deployment stays cancelled: assertDeploymentTransition rejects
\* every change, ALLOWED_TRANSITIONS[CANCELLED] being empty.
CancelIsFinal ==
    [][\A d \in Deployments : deployments[d].status = "CANCELLED"
                              => deployments'[d].status = "CANCELLED"]_pipelineVars
================================================================================
