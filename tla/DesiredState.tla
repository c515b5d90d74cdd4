------------------------------ MODULE DesiredState ------------------------------
(***************************************************************************)
(* From a project file to Kubernetes objects.  `k8s-apply` compiles the    *)
(* whole file (compileProject) and hands the list to one kubectl apply,    *)
(* `provision` does the same with the objects of the managed resources     *)
(* (compileProjectProvisioning).  Nothing is ever pruned, several          *)
(* operators may work on one project, files are edited in between, kubectl *)
(* fails or is killed half-way.                                            *)
(*                                                                         *)
(* A slug is a sequence of words: slugify joins them with single hyphens,  *)
(* so joining slugs with "-" is concatenation.  Lengths, versions, ports,  *)
(* probes, labels other than the name, storage sizes and the security      *)
(* context, which is the same for every container, are left out.           *)
(***************************************************************************)
EXTENDS Integers, Sequences, FiniteSets, SequencesExt

CONSTANTS
    Projects,        \* records [org, slug] of the project files
    Services,        \* service names, in the order of the files
    Resources,       \* resource names, in the order of the files
    ConnectionEnv,   \* the variables of each resource (connectionEnvForResource)
    SecretKeys,      \* the variables isSecretKey takes for secrets
    Reword,          \* words that begin with "env", with "config" in place of it
    ServiceSpecs,    \* what a file may say about each service
    Operators,       \* people running the command line tool
    MaxEdits,        \* bound on changes to the files
    MaxRuns,         \* bound on the commands run
    MaxKubectlFaults,  \* bound on failing and killed kubectl calls
    Absent

\* Slugs are sequences of words, and no name is empty: slugify makes "item" of nothing.
ASSUME ProjectsAssumption == Projects \subseteq [org : Seq(STRING), slug : Seq(STRING)]
ASSUME NamesAssumption ==
    /\ Services \in Seq(Seq(STRING) \ {<<>>})
    /\ Resources \in Seq(Seq(STRING) \ {<<>>})

ASSUME RewordAssumption == "env" \in DOMAIN Reword /\ Reword["env"] = "config"

VARIABLES
    files,     \* the project files
    run,       \* the command of each operator
    kube,      \* object ids <<namespace, kind, name>> with their contents
    last,      \* per namespace, the k8s-apply started last (history)
    edits, runs, kubectlFaults

desiredVars == <<files, run, kube, last, edits, runs, kubectlFaults>>

--------------------------------------------------------------------------------
(***************************************************************************)
(* Names                                                                   *)
(***************************************************************************)

\* slugify(`${organization}-${project}`)
NamespaceOf(p) == p.org \o p.slug

\* Variant: the labels are joined with a single hyphen.
joinLabelHyphen(parts) == <<FlattenSeq(parts)>>

\* joinLabel separates slugs with "--", which no slug contains.
joinLabel(parts) == parts

\* serviceHostname: the custom domain as it stands, whatever host it names, or the
\* label in the zone of the applications.
serviceHostname(p, name, domain) ==
    IF domain # Absent THEN domain
    ELSE [label |-> joinLabel(<<name, p.slug, p.org>>), zone |-> "apps"]

\* secretName.replace('-env', '-config') replaces the first occurrence, which may
\* be the beginning of a longer word: "my-environment-env" becomes
\* "my-configironment-env".
FirstEnvReplaced(secretName) ==
    LET Hit(i) == secretName[i] \in DOMAIN Reword
        at == CHOOSE i \in 2..Len(secretName) : Hit(i) /\ \A j \in 2..(i - 1) : ~Hit(j)
    IN [secretName EXCEPT ![at] = Reword[@]]

--------------------------------------------------------------------------------
(***************************************************************************)
(* The compiler                                                            *)
(***************************************************************************)
Object(ns, kind, name, body) == [id |-> <<ns, kind, name>>, body |-> body]
When(condition, objects) == IF condition THEN objects ELSE <<>>

\* injectResourceEnv: attached resources (all, where nothing is said) overwrite
\* the file's variables, later ones earlier ones.  A value is known by its source.
injectResourceEnv(service, present) ==
    LET attached == {i \in DOMAIN Resources :
                        /\ Resources[i] \in present
                        /\ service.attached = Absent \/ Resources[i] \in service.attached}
        Having(k) == {i \in attached : k \in ConnectionEnv[Resources[i]]}
    IN [k \in service.env \cup UNION {ConnectionEnv[Resources[i]] : i \in attached} |->
           IF Having(k) = {} THEN <<"file">>
           ELSE Resources[CHOOSE i \in Having(k) : \A j \in Having(k) : j <= i]]

\* splitEnvForSecret
SecretPart(env) == [k \in DOMAIN env \cap SecretKeys |-> env[k]]
PlainPart(env)  == [k \in DOMAIN env \ SecretKeys |-> env[k]]

envRefs(env, secretName) ==
    {[kind |-> "ConfigMap", name |-> FirstEnvReplaced(secretName), key |-> k] :
        k \in DOMAIN PlainPart(env)}
        \cup {[kind |-> "Secret", name |-> secretName, key |-> k] : k \in DOMAIN SecretPart(env)}

\* resolveBuildStrategy, as far as it decides the image: a prebuilt one, without
\* which it throws, or the one to be built, named after project and service.
NeedsImage(service) == service.source = "image" /\ service.image = Absent
imageOf(p, name, service) ==
    IF service.source = "image" THEN service.image ELSE <<p.slug, name>>

\* deploymentManifest, cronJobManifest, jobManifest: the pods carry the
\* service's name as their label.
WorkloadKind(type) ==
    CASE type = "cron" -> "CronJob" [] type = "job" -> "Job" [] OTHER -> "Deployment"

workloadManifest(p, name, service, env) ==
    Object(NamespaceOf(p), WorkloadKind(service.type), name,
           [image |-> imageOf(p, name, service), refs |-> envRefs(env, name \o <<"env">>),
            replicas |-> IF service.type \in {"cron", "job"} THEN 1 ELSE service.min])

secretManifest(ns, name, env) == Object(ns, "Secret", name, [data |-> SecretPart(env)])
configMapManifest(ns, name, env) == Object(ns, "ConfigMap", name, [data |-> PlainPart(env)])
serviceManifest(ns, name) == Object(ns, "Service", name, [selector |-> name])
\* `custom` says where the host comes from (history, not part of the manifest).
ingressManifest(p, name, service) ==
    Object(NamespaceOf(p), "Ingress", name,
           [host |-> serviceHostname(p, name, service.domain), backend |-> name,
            custom |-> service.domain # Absent])
hpaManifest(ns, name, service) ==
    Object(ns, "HorizontalPodAutoscaler", name \o <<"hpa">>,
           [target |-> name, min |-> service.min, max |-> service.max])
pdbManifest(ns, name) == Object(ns, "PodDisruptionBudget", name \o <<"pdb">>, [selector |-> name])

\* Variables first, then the workload, then what leads to it.
compileService(p, name, service, present) ==
    LET ns  == NamespaceOf(p)
        env == injectResourceEnv(service, present)
        finite == service.type \in {"cron", "job"}
        least == IF service.min = 0 THEN 1 ELSE service.min
    IN When(DOMAIN SecretPart(env) # {}, <<secretManifest(ns, name \o <<"env">>, env)>>)
       \o When(DOMAIN PlainPart(env) # {}, <<configMapManifest(ns, name \o <<"config">>, env)>>)
       \o <<workloadManifest(p, name, service, env)>>
       \o When(service.type \in {"web", "private"}, <<serviceManifest(ns, name)>>)
       \o When(service.type = "web", <<ingressManifest(p, name, service)>>)
       \o When(~finite /\ service.max > least, <<hpaManifest(ns, name, service)>>)
       \o When(~finite, <<pdbManifest(ns, name)>>)

\* networkPolicyManifests: one for the tenant, one per service with public egress.
networkPolicyManifests(p, listed, services) ==
    LET ns == NamespaceOf(p)
    IN <<Object(ns, "NetworkPolicy", <<"tenant", "isolation">>, [selector |-> Absent])>>
       \o FlattenSeq([i \in DOMAIN listed |->
              When(services[listed[i]].egress,
                   <<Object(ns, "NetworkPolicy", listed[i] \o <<"public", "egress">>,
                            [selector |-> listed[i]])>>)])

\* imagePrePullList and its DaemonSet: the images of all services, where asked for.
prePullManifests(p, listed, services) ==
    <<Object(NamespaceOf(p), "DaemonSet", <<"image", "prepull">>,
             [images |-> {imageOf(p, listed[i], services[listed[i]]) : i \in DOMAIN listed}])>>

ListedServices(file) ==
    FlattenSeq([i \in DOMAIN Services |->
        When(file.services[Services[i]] # Absent, <<Services[i]>>)])

compileProject(p, file) ==
    LET listed == ListedServices(file)
    IN <<Object(NamespaceOf(p), "Namespace", NamespaceOf(p), [project |-> p.slug])>>
       \o FlattenSeq([i \in DOMAIN listed |->
              compileService(p, listed[i], file.services[listed[i]], file.resources)])
       \o When(file.prepull /\ listed # <<>>, prePullManifests(p, listed, file.services))
       \o networkPolicyManifests(p, listed, file.services)

compileResourceProvisioningPlan(ns, r) ==
    LET env == [k \in ConnectionEnv[r] |-> r]
    IN <<Object(ns, "ManagedResource", r, [credentials |-> r \o <<"connection">>])>>
       \o When(DOMAIN SecretPart(env) # {}, <<secretManifest(ns, r \o <<"connection">>, env)>>)

\* The plans of all resources; no Namespace is among them.
compileProjectProvisioning(p, file) ==
    FlattenSeq([i \in DOMAIN Resources |->
        When(Resources[i] \in file.resources,
             compileResourceProvisioningPlan(NamespaceOf(p), Resources[i]))])

--------------------------------------------------------------------------------
Empty == [services |-> [name \in Range(Services) |-> Absent], resources |-> {}, prepull |-> FALSE]
NoRun == [pc |-> "idle", ns |-> <<>>, todo |-> <<>>, errors |-> FALSE, number |-> 0]
NoApply == [number |-> 0, project |-> Absent, file |-> Empty, answer |-> "none", disturbed |-> FALSE]

Namespaces == {NamespaceOf(p) : p \in Projects}

DesiredTypeOK ==
    /\ \A p \in Projects :
          /\ \A name \in Range(Services) : files[p].services[name] \in ServiceSpecs[name] \cup {Absent}
          /\ files[p].resources \subseteq Range(Resources)
    /\ \A o \in Operators : /\ run[o].pc \in {"idle", "kubectl"}
                            /\ run[o].pc = "idle" => run[o] = NoRun
                            /\ run[o].pc = "kubectl" => run[o].ns \in Namespaces
    /\ \A id \in DOMAIN kube : id[1] \in Namespaces
    /\ \A ns \in Namespaces : last[ns].answer \in {"none", "running", "applied", "failed", "killed"}

DesiredInit ==
    /\ \E b \in BOOLEAN : files = [p \in Projects |-> [Empty EXCEPT !.prepull = b]]
    /\ run = [o \in Operators |-> NoRun]
    /\ kube = [id \in {} |-> Absent]
    /\ last = [ns \in Namespaces |-> NoApply]
    /\ edits = 0 /\ runs = 0 /\ kubectlFaults = 0

\* Somebody edits a project file.
edit(p) ==
    /\ edits < MaxEdits
    /\ edits' = edits + 1
    /\ \/ \E name \in Range(Services) : \E s \in ServiceSpecs[name] \cup {Absent} :
             /\ s # files[p].services[name]
             /\ files' = [files EXCEPT ![p].services[name] = s]
       \/ \E r \in Range(Resources) :
             files' = [files EXCEPT ![p].resources = SymDiff(@, {r})]
    /\ UNCHANGED <<run, kube, last, runs, kubectlFaults>>

--------------------------------------------------------------------------------
(***************************************************************************)
(* The commands                                                            *)
(***************************************************************************)
Busy(ns) == \E q \in Operators : run[q].pc = "kubectl" /\ run[q].ns = ns
Start(o, ns, todo) ==
    /\ run[o].pc = "idle" /\ runs < MaxRuns
    /\ runs' = runs + 1
    /\ run' = [run EXCEPT ![o] = [pc |-> "kubectl", ns |-> ns, todo |-> todo, errors |-> FALSE,
                                  number |-> runs + 1]]
    /\ UNCHANGED <<files, kube, edits, kubectlFaults>>

\* applyProject: compile, write the list to a file, run kubectl apply.  A service
\* without its prebuilt image makes the compilation throw before anything is applied.
applyProject(o, p) ==
    LET ns == NamespaceOf(p)
    IN /\ ~ \E name \in Range(ListedServices(files[p])) : NeedsImage(files[p].services[name])
       /\ Start(o, ns, compileProject(p, files[p]))
       /\ last' = [last EXCEPT ![ns] = [number |-> runs + 1, project |-> p, file |-> files[p],
                                        answer |-> "running", disturbed |-> Busy(ns)]]

\* provisionProjectResources (kubectl part).  It leaves the objects of k8s-apply alone.
provisionProjectResources(o, p) ==
    /\ files[p].resources # {}
    /\ Start(o, NamespaceOf(p), compileProjectProvisioning(p, files[p]))
    /\ UNCHANGED last

\* The API server refuses an object whose namespace does not exist, and a changed Job.
Refused(x) ==
    \/ x.id[2] # "Namespace" /\ <<x.id[1], "Namespace", x.id[1]>> \notin DOMAIN kube
    \/ x.id[2] = "Job" /\ x.id \in DOMAIN kube /\ kube[x.id] # x.body

\* Server-side apply of the next object of the list; kubectl goes on after errors.
applyObject(o) ==
    /\ run[o].pc = "kubectl" /\ run[o].todo # <<>>
    /\ LET x == Head(run[o].todo)
       IN \/ /\ ~Refused(x)
             /\ kube' = [id \in DOMAIN kube \cup {x.id} |->
                               IF id = x.id THEN x.body ELSE kube[id]]
             /\ run' = [run EXCEPT ![o].todo = Tail(@)]
             /\ UNCHANGED kubectlFaults
          \/ /\ Refused(x)
             /\ run' = [run EXCEPT ![o].todo = Tail(@), ![o].errors = TRUE]
             /\ UNCHANGED <<kube, kubectlFaults>>
          \/ /\ kubectlFaults < MaxKubectlFaults /\ kubectlFaults' = kubectlFaults + 1
             /\ run' = [run EXCEPT ![o].todo = Tail(@), ![o].errors = TRUE]
             /\ UNCHANGED kube
    /\ UNCHANGED <<files, last, edits, runs>>

\* The command ends; it concerns the history if it is the namespace's last k8s-apply.
Answer(o, answer) ==
    /\ run' = [run EXCEPT ![o] = NoRun]
    /\ last' = [last EXCEPT ![run[o].ns] =
                   IF @.number = run[o].number THEN [@ EXCEPT !.answer = answer] ELSE @]
    /\ UNCHANGED <<files, kube, edits, runs>>

\* Variant: the exit code is not looked at.
kubectlExitsUnchecked(o) ==
    /\ run[o].pc = "kubectl" /\ run[o].todo = <<>>
    /\ Answer(o, "applied") /\ UNCHANGED kubectlFaults

\* runCommand: a non-zero exit code is an error.
kubectlExits(o) ==
    /\ run[o].pc = "kubectl" /\ run[o].todo = <<>>
    /\ Answer(o, IF run[o].errors THEN "failed" ELSE "applied") /\ UNCHANGED kubectlFaults

\* The timer of runCommand kills kubectl; the missing exit code counts as 0.
kubectlKilled(o) ==
    /\ run[o].pc = "kubectl" /\ kubectlFaults < MaxKubectlFaults
    /\ kubectlFaults' = kubectlFaults + 1
    /\ Answer(o, "killed")

DesiredNext ==
    \/ \E p \in Projects : edit(p)
    \/ \E o \in Operators, p \in Projects : applyProject(o, p) \/ provisionProjectResources(o, p)
    \/ \E o \in Operators : applyObject(o) \/ kubectlExits(o) \/ kubectlKilled(o)

DesiredSpec == DesiredInit /\ [][DesiredNext]_desiredVars

--------------------------------------------------------------------------------
(***************************************************************************)
(* Properties                                                              *)
(***************************************************************************)
Has(ns, kind, name) == <<ns, kind, name>> \in DOMAIN kube
\* A further word that begins with "env" misleads envRefs (FirstEnvReplaced).
Misnamed(name) == \E i \in 2..Len(name) : name[i] \in DOMAIN Reword

\* A k8s-apply that ended without an error, was not killed (which runCommand takes for success)
\* and had the namespace to itself left a project that can start, whatever earlier files,
\* half-done runs, provisioning and retries left behind: every variable a workload refers to is
\* there, with the value of this file, and the ingress of a web service leads to its pods.
\* The exception is the ConfigMap of a service with "-env" in its name, as "my-env" and
\* "my-environment" have: the name envRefs gives it is wrong (manifest-compiler.ts:131).
AppliedCanStart ==
    DesiredTypeOK /\ \A ns \in Namespaces :
        LET l == last[ns]
            Wanted(name) == l.file.services[name]
        IN l.answer = "applied" /\ ~l.disturbed =>
            \A name \in Range(ListedServices(l.file)) :
                LET w   == <<ns, WorkloadKind(Wanted(name).type), name>>
                    env == injectResourceEnv(Wanted(name), l.file.resources)
                IN /\ w \in DOMAIN kube
                   /\ {x.key : x \in kube[w].refs} = DOMAIN env
                   /\ \A x \in kube[w].refs : (x.kind = "ConfigMap" /\ Misnamed(name)) \/
                         /\ Has(ns, x.kind, x.name)
                         /\ x.key \in DOMAIN kube[<<ns, x.kind, x.name>>].data
                         /\ kube[<<ns, x.kind, x.name>>].data[x.key] = env[x.key]
                   /\ Wanted(name).type = "web" =>
                         /\ Has(ns, "Ingress", name) /\ Has(ns, "Service", name)
                         /\ kube[<<ns, "Ingress", name>>].backend = name
                         /\ kube[<<ns, "Service", name>>].selector = name

\* A generated host name is generated for one service of one project only, even where hyphens in
\* the slugs make two projects share a namespace, and an ingress that has it is that service's own,
\* unless its service claimed the host as a custom domain: serviceHostname returns whatever the
\* file says, and nobody compares it with the hosts of others (domain-router.ts:23).
HostsAreApart ==
    \A p, q \in Projects, m, n \in Range(Services) :
        LET host == serviceHostname(p, m, Absent)
            i    == <<NamespaceOf(q), "Ingress", n>>
        IN i \in DOMAIN kube /\ kube[i].host = host /\ ~kube[i].custom =>
              n = m /\ NamespaceOf(q) = NamespaceOf(p)
                 /\ \A o \in Projects \ {p} : serviceHostname(o, n, Absent) # host
================================================================================
