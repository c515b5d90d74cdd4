------------------------------- MODULE Resources -------------------------------
(***************************************************************************)
(* Managed resources, their connection secrets and the variables that      *)
(* attaching them puts into services: the resource and environment         *)
(* operations of the Prisma repository (persistence.ts), which interleave  *)
(* at every database call, and of the in-memory store (store.ts), where an *)
(* operation is one step and only provisioning awaits its provider.        *)
(*                                                                         *)
(* One resource name of one project is modelled.  Values are left out: a   *)
(* secret is the call that wrote it and whether it is live.                *)
(***************************************************************************)
EXTENDS Naturals, Sequences, FiniteSets

CONSTANTS
    Ids,          \* resource ids, 1..n; the database takes a new one for a new row
    Services,
    Engines,
    EnvKeys,      \* connectionEnvForResource: the keys of each engine
    Prefixes,     \* envPrefix of an attachment
    Calls,        \* repository calls, each made once
    Load,         \* the operations each call may be
    MaxRunning,   \* how many run at the same time
    MaxFaults,    \* how many times a call dies or the database swallows an error
    User, None    \* the source of a variable a user wrote; nothing

Keys == UNION {EnvKeys[e] : e \in Engines}
Vars == Prefixes \X Keys
Ops  == {"createResource", "updateResource", "deleteResource", "provision", "attachResource",
         "setEnvironment", "deleteService"}

ASSUME ResourcesAssumption ==
    /\ {Calls, Ids} \subseteq SUBSET (Nat \ {0}) /\ \E n \in Ids : Ids = 1..n
    /\ Load \in [Calls -> SUBSET Ops] /\ "" \in Prefixes
    /\ MaxFaults \in Nat /\ \A e \in Engines : EnvKeys[e] # {}
\* Nothing is no value, and a user is no resource.
ASSUME NoneAssumption ==
    /\ User \notin Nat \cup {None} /\ None \notin Nat \cup Engines /\ \A x \in SUBSET Vars : x # None
    /\ None \notin [id : Nat, engine : Engines, status : {"provisioning", "ready"}]
    /\ None \notin [by : Nat, live : BOOLEAN]
    /\ None \notin [source : Nat \cup {User}, ref : Nat \cup {None}, by : Nat]

VARIABLES
    backend,     \* "prisma" or "memory"
    row,         \* the resource row of the name
    used,        \* ids taken
    here,        \* services that exist
    secrets,     \* connection secrets: [by, live] for each id and key
    attached,    \* injectedEnv of each attachment
    env,         \* variables of services: who wrote them and the secret they refer to
    vault,       \* secrets of services by service and variable: an id
    call,        \* calls in progress
    loose,       \* ghost: injected variables that no attachment lists any more
    faults

vars == <<backend, row, used, here, secrets, attached, env, vault, call, loose, faults>>
data == <<row, used, here, secrets, attached, env, vault, loose>>

NoCall == [pc |-> "new", op |-> "none", id |-> None, svc |-> None, prefix |-> None, engine |-> None,
           status |-> None, live |-> FALSE, todo |-> {}, at |-> None, ref |-> None, with |-> {}]

Ended == {"done", "missing", "failed"}

TypeOK ==
    /\ row = None \/ (row.id \in 1..used /\ row.engine \in Engines /\ row.status \in {"provisioning", "ready"})
    /\ used \in Ids \cup {0} /\ here \subseteq Services
    /\ \A i \in Ids, k \in Keys : secrets[<<i, k>>] = None \/ secrets[<<i, k>>].by \in Calls \cup {0}
    /\ \A i \in Ids, s \in Services : attached[<<i, s>>] = None \/ attached[<<i, s>>] \subseteq Vars
    /\ \A s \in Services, v \in Vars :
          /\ env[<<s, v>>] = None \/ env[<<s, v>>].source \in Ids \cup {User}
          /\ vault[<<s, v>>] \in Calls \cup {0, None}
    /\ faults \in 0..MaxFaults

Live(id) == row # None /\ row.id = id

\* A resource of the first engine, attached without a prefix or not at all.
Init ==
    /\ backend \in {"prisma", "memory"} /\ here = Services /\ used = 1
    /\ \E e \in Engines, att \in BOOLEAN, s \in Services :
          LET mine == {<<"", k>> : k \in EnvKeys[e]}
          IN /\ e = CHOOSE x \in Engines : TRUE
             /\ row = [id |-> 1, engine |-> e, status |-> "provisioning"]
             /\ secrets = [x \in Ids \X Keys |->
                             IF x[1] = 1 /\ x[2] \in EnvKeys[e] THEN [by |-> 0, live |-> FALSE] ELSE None]
             /\ attached = [x \in Ids \X Services |-> IF att /\ x = <<1, s>> THEN mine ELSE None]
             /\ env = [x \in Services \X Vars |->
                         IF att /\ x[1] = s /\ x[2] \in mine THEN [source |-> 1, ref |-> 0, by |-> 0] ELSE None]
             /\ vault = [x \in Services \X Vars |-> IF att /\ x[1] = s /\ x[2] \in mine THEN 0 ELSE None]
    /\ call = [c \in Calls |-> NoCall] /\ loose = {} /\ faults = 0

--------------------------------------------------------------------------------
Running(c) == call[c].pc \notin Ended \cup {"new"}

At(c, pc) == backend = "prisma" /\ call[c].pc = pc

Goto(c, pc) == call' = [call EXCEPT ![c].pc = pc]

\* The calls that ran at the same time are remembered on both sides.
start(c, op, s, p, e, v, secret) ==
    LET others == {q \in Calls : Running(q)}
    IN /\ call' = [q \in Calls |->
            IF q = c
            THEN [NoCall EXCEPT !.op = op, !.svc = s, !.prefix = p, !.engine = e, !.with = others,
                     !.id = IF row # None THEN row.id ELSE used,
                     !.todo = IF op = "setEnvironment" THEN {v} ELSE {},
                     !.at = IF op = "setEnvironment" THEN v ELSE None,
                     !.pc = CASE op = "createResource" -> "create"
                              [] op = "setEnvironment" -> (IF secret THEN "vault" ELSE "row")
                              [] op = "deleteService" -> "deleteService"
                              [] OTHER -> "get"]
            ELSE IF q \in others THEN [call[q] EXCEPT !.with = @ \cup {c}] ELSE call[q]]
       /\ UNCHANGED <<backend, data, faults>>

--------------------------------------------------------------------------------
(***************************************************************************)
(* The resource row and its connection secrets                             *)
(***************************************************************************)
\* An upsert by name; resourceData sets the status to provisioning.
createResource(c) ==
    LET id == IF row # None THEN row.id ELSE used + 1
    IN /\ At(c, "create") /\ id \in Ids
       /\ row' = [id |-> id, engine |-> call[c].engine, status |-> "provisioning"]
       /\ used' = IF id > used THEN id ELSE used
       /\ call' = [call EXCEPT ![c].pc = "secrets", ![c].id = id, ![c].todo = EnvKeys[call[c].engine]]
       /\ UNCHANGED <<backend, here, secrets, attached, env, vault, loose, faults>>

\* getResource, and getService when attaching: what the call goes on with is what it read.
get(c) ==
    LET found == Live(call[c].id) /\ (call[c].op = "attachResource" => call[c].svc \in here)
    IN /\ At(c, "get")
       /\ call' = IF ~found THEN [call EXCEPT ![c].pc = "missing"]
                  ELSE [call EXCEPT ![c].status = row.status,
                           ![c].live = call[c].op = "updateResource" /\ call[c].engine # None,
                           ![c].engine = IF @ = None \/ call[c].op # "updateResource" THEN row.engine ELSE @,
                           ![c].pc = CASE call[c].op = "updateResource" -> "update"
                                       [] call[c].op = "deleteResource" -> "attachments"
                                       [] call[c].op = "provision" -> "provider"
                                       [] call[c].op = "attachResource" -> "read"]
       /\ UNCHANGED <<backend, data, faults>>

\* Variant: the status of the row starts again.
updateResourceResets(c) ==
    /\ At(c, "update")
    /\ IF ~Live(call[c].id) THEN Goto(c, "failed") /\ UNCHANGED row
       ELSE /\ row' = [row EXCEPT !.engine = call[c].engine, !.status = "provisioning"]
            /\ call' = [call EXCEPT ![c].pc = IF call[c].live THEN "secrets" ELSE "done",
                           ![c].live = FALSE, ![c].todo = EnvKeys[call[c].engine]]
    /\ UNCHANGED <<backend, used, here, secrets, attached, env, vault, loose, faults>>

\* The whole row is written from what was read, the updates over it.  Only an update of the
\* engine, name, provider or specification writes the secrets again.
updateResource(c) ==
    /\ At(c, "update")
    /\ IF ~Live(call[c].id) THEN Goto(c, "failed") /\ UNCHANGED row
       ELSE /\ row' = [row EXCEPT !.engine = call[c].engine, !.status = call[c].status]
            /\ call' = [call EXCEPT ![c].pc = IF call[c].live THEN "secrets" ELSE "done",
                           ![c].live = FALSE, ![c].todo = EnvKeys[call[c].engine]]
    /\ UNCHANGED <<backend, used, here, secrets, attached, env, vault, loose, faults>>

\* The provider's commands: a dry run and a live one both end in a connection.
provisionProvider(c, live, ok) ==
    /\ call[c].pc = "provider"
    /\ call' = IF ok THEN [call EXCEPT ![c].pc = "secrets", ![c].live = live,
                              ![c].todo = EnvKeys[call[c].engine]]
               ELSE [call EXCEPT ![c].pc = "failed"]
    /\ UNCHANGED <<backend, data, faults>>

\* Variant: the metadata of a secret that exists is kept.
attachSecretValueOnly(c, k) ==
    LET old == secrets[<<call[c].id, k>>]
    IN /\ At(c, "secrets") /\ k \in call[c].todo
       /\ secrets' = [secrets EXCEPT ![<<call[c].id, k>>] =
                        [by |-> c, live |-> IF old = None THEN call[c].live ELSE old.live]]
       /\ call' = [call EXCEPT ![c].todo = @ \ {k}]
       /\ UNCHANGED <<backend, row, used, here, attached, env, vault, loose, faults>>

\* attachProviderConnectionSecrets, one key: an upsert, whether or not the resource exists.
attachSecret(c, k) ==
    /\ At(c, "secrets") /\ k \in call[c].todo
    /\ secrets' = [secrets EXCEPT ![<<call[c].id, k>>] = [by |-> c, live |-> call[c].live]]
    /\ call' = [call EXCEPT ![c].todo = @ \ {k}]
    /\ UNCHANGED <<backend, row, used, here, attached, env, vault, loose, faults>>

\* connectionSecretName is written to the row, which must exist.
nameSecret(c) ==
    /\ At(c, "secrets") /\ call[c].todo = {}
    /\ Goto(c, IF ~Live(call[c].id) THEN "failed" ELSE IF call[c].op = "provision" THEN "ready" ELSE "done")
    /\ UNCHANGED <<backend, data, faults>>

markReady(c) ==
    /\ At(c, "ready")
    /\ IF Live(call[c].id) THEN row' = [row EXCEPT !.status = "ready"] /\ Goto(c, "done")
       ELSE Goto(c, "failed") /\ UNCHANGED row
    /\ UNCHANGED <<backend, used, here, secrets, attached, env, vault, loose, faults>>

--------------------------------------------------------------------------------
(***************************************************************************)
(* Attaching, and the variables of a service                               *)
(***************************************************************************)
\* providerEnvFromConnection: every secret of the resource, of whatever engine, or the contract's.
readConnection(c) ==
    LET stored == {k \in Keys : secrets[<<call[c].id, k>>] # None}
        keys   == IF stored # {} THEN stored ELSE EnvKeys[call[c].engine]
    IN /\ At(c, "read")
       /\ call' = [call EXCEPT ![c].pc = "attach", ![c].todo = {<<call[c].prefix, k>> : k \in keys}]
       /\ UNCHANGED <<backend, data, faults>>

\* Variant: an attachment that exists is kept.
attachResourceOnce(c) ==
    LET id == call[c].id  s == call[c].svc
    IN /\ At(c, "attach")
       /\ IF ~Live(id) \/ s \notin here THEN Goto(c, "failed") /\ UNCHANGED attached
          ELSE /\ attached' = [attached EXCEPT ![<<id, s>>] = IF @ # None THEN @ ELSE call[c].todo]
               /\ Goto(c, "vault")
       /\ UNCHANGED <<backend, row, used, here, secrets, env, vault, loose, faults>>

\* The attachment is written before the variables, and replaces an earlier one's list.
attachResource(c) ==
    LET id == call[c].id  s == call[c].svc  old == attached[<<id, s>>]
    IN /\ At(c, "attach")
       /\ IF ~Live(id) \/ s \notin here THEN Goto(c, "failed") /\ UNCHANGED <<attached, loose>>
          ELSE /\ attached' = [attached EXCEPT ![<<id, s>>] = call[c].todo]
               /\ loose' = loose \cup {<<s, v, id>> : v \in (IF old = None THEN {} ELSE old \ call[c].todo)}
               /\ Goto(c, "vault")
       /\ UNCHANGED <<backend, row, used, here, secrets, env, vault, faults>>

\* Variant: a secret is replaced by a new one.
upsertSecretAnew(c, v) ==
    /\ At(c, "vault") /\ v \in call[c].todo
    /\ vault' = [vault EXCEPT ![<<call[c].svc, v>>] = c]
    /\ call' = [call EXCEPT ![c].pc = "row", ![c].at = v, ![c].ref = c]
    /\ UNCHANGED <<backend, row, used, here, secrets, attached, env, loose, faults>>

\* upsertServiceEnvironment, one entry: its secret by service and key, which keeps its id ...
upsertSecret(c, v) ==
    LET old == vault[<<call[c].svc, v>>]
        id  == IF old = None THEN c ELSE old
    IN /\ At(c, "vault") /\ v \in call[c].todo
       /\ vault' = [vault EXCEPT ![<<call[c].svc, v>>] = id]
       /\ call' = [call EXCEPT ![c].pc = "row", ![c].at = v, ![c].ref = id]
       /\ UNCHANGED <<backend, row, used, here, secrets, attached, env, loose, faults>>

\* ... and its row.  The service must exist.
upsertVariable(c) ==
    LET s == call[c].svc  v == call[c].at  rest == call[c].todo \ {v}
    IN /\ At(c, "row")
       /\ IF s \notin here THEN Goto(c, "failed") /\ UNCHANGED env
          ELSE /\ env' = [env EXCEPT ![<<s, v>>] =
                            [source |-> IF call[c].op = "setEnvironment" THEN User ELSE call[c].id,
                             ref |-> call[c].ref, by |-> c]]
               /\ call' = [call EXCEPT ![c].todo = rest, ![c].pc = IF rest = {} THEN "done" ELSE "vault"]
       /\ UNCHANGED <<backend, row, used, here, secrets, attached, vault, loose, faults>>

--------------------------------------------------------------------------------
(***************************************************************************)
(* Deleting                                                                *)
(***************************************************************************)
\* The attachments of the resource; a failing query is taken for none.
findAttachments(c, fails) ==
    LET id   == call[c].id
        mine == UNION {{<<s, v>> : v \in attached[<<id, s>>]} : s \in {x \in Services : attached[<<id, x>>] # None}}
    IN /\ At(c, "attachments") /\ (fails => faults < MaxFaults)
       /\ call' = [call EXCEPT ![c].pc = "remove", ![c].todo = IF fails THEN {} ELSE mine]
       /\ loose' = IF fails THEN loose \cup {<<x[1], x[2], id>> : x \in mine} ELSE loose
       /\ faults' = IF fails THEN faults + 1 ELSE faults
       /\ UNCHANGED <<backend, row, used, here, secrets, attached, env, vault>>

\* Variant: every variable of the attachment's list is the resource's.
findInjectedAny(c, x) ==
    /\ At(c, "remove") /\ x \in call[c].todo
    /\ call' = IF env[x] # None
               THEN [call EXCEPT ![c].pc = "removeSecret", ![c].at = x, ![c].ref = env[x].ref]
               ELSE [call EXCEPT ![c].todo = @ \ {x}]
    /\ UNCHANGED <<backend, data, faults>>

\* removeResourceInjectedEnvironment: the row is looked at before it is removed ...
findInjected(c, x) ==
    /\ At(c, "remove") /\ x \in call[c].todo
    /\ call' = IF env[x] # None /\ env[x].source = call[c].id
               THEN [call EXCEPT ![c].pc = "removeSecret", ![c].at = x, ![c].ref = env[x].ref]
               ELSE [call EXCEPT ![c].todo = @ \ {x}]
    /\ UNCHANGED <<backend, data, faults>>

\* ... its secret by its id ...
removeSecret(c) ==
    LET x == call[c].at
    IN /\ At(c, "removeSecret")
       /\ vault' = IF vault[x] = call[c].ref THEN [vault EXCEPT ![x] = None] ELSE vault
       /\ Goto(c, "removeVariable")
       /\ UNCHANGED <<backend, row, used, here, secrets, attached, env, loose, faults>>

\* ... and the row by service and key, whoever wrote it meanwhile.
removeVariable(c) ==
    LET x == call[c].at
    IN /\ At(c, "removeVariable")
       /\ env' = [env EXCEPT ![x] = None]
       /\ call' = [call EXCEPT ![c].pc = "remove", ![c].todo = @ \ {x}]
       /\ UNCHANGED <<backend, row, used, here, secrets, attached, vault, loose, faults>>

removeSecrets(c) ==
    /\ At(c, "remove") /\ call[c].todo = {}
    /\ secrets' = [x \in Ids \X Keys |-> IF x[1] = call[c].id THEN None ELSE secrets[x]]
    /\ Goto(c, "delete")
    /\ UNCHANGED <<backend, row, used, here, attached, env, vault, loose, faults>>

\* Attachments go with the row.
deleteResource(c) ==
    /\ At(c, "delete")
    /\ IF Live(call[c].id)
       THEN /\ row' = None /\ Goto(c, "done")
            /\ attached' = [x \in Ids \X Services |-> IF x[1] = call[c].id THEN None ELSE attached[x]]
       ELSE Goto(c, "failed") /\ UNCHANGED <<row, attached>>
    /\ UNCHANGED <<backend, used, here, secrets, env, vault, loose, faults>>

\* Variables and attachments go with the service, its secrets stay.
deleteService(c) ==
    LET s == call[c].svc
    IN /\ call[c].pc = "deleteService" /\ Goto(c, "done") /\ here' = here \ {s}
       /\ env' = [x \in Services \X Vars |-> IF x[1] = s THEN None ELSE env[x]]
       /\ attached' = [x \in Ids \X Services |-> IF x[2] = s THEN None ELSE attached[x]]
       /\ UNCHANGED <<backend, row, used, secrets, vault, loose, faults>>

--------------------------------------------------------------------------------
(***************************************************************************)
(* The in-memory store                                                     *)
(***************************************************************************)
InStore(c, op) == backend = "memory" /\ call[c].op = op /\ call[c].pc \in {"create", "get", "vault", "row"}

Missing(c) == Goto(c, "missing") /\ UNCHANGED <<backend, data, faults>>

\* createSecret for every key of the engine.
SecretsOf(id, e, c, live) ==
    [x \in Ids \X Keys |-> IF x[1] = id /\ x[2] \in EnvKeys[e] THEN [by |-> c, live |-> live] ELSE secrets[x]]

\* upsertServiceEnvironment of secret entries.
Injected(s, new, source, c) ==
    LET id(v) == IF vault[<<s, v>>] = None THEN c ELSE vault[<<s, v>>]
    IN /\ vault' = [x \in Services \X Vars |-> IF x[1] = s /\ x[2] \in new THEN id(x[2]) ELSE vault[x]]
       /\ env' = [x \in Services \X Vars |->
                    IF x[1] = s /\ x[2] \in new THEN [source |-> source, ref |-> id(x[2]), by |-> c] ELSE env[x]]

\* stableId names the row: a resource created again has the id it had.
storeCreateResource(c) ==
    /\ InStore(c, "createResource")
    /\ row' = [id |-> 1, engine |-> call[c].engine, status |-> "provisioning"]
    /\ secrets' = SecretsOf(1, call[c].engine, c, FALSE) /\ Goto(c, "done")
    /\ UNCHANGED <<backend, used, here, attached, env, vault, loose, faults>>

storeUpdateResource(c) ==
    /\ InStore(c, "updateResource")
    /\ \/ ~Live(call[c].id) /\ Missing(c)
       \/ /\ Live(call[c].id) /\ Goto(c, "done")
          /\ row' = [row EXCEPT !.engine = IF call[c].engine = None THEN @ ELSE call[c].engine]
          /\ secrets' = IF call[c].engine = None THEN secrets ELSE SecretsOf(row.id, call[c].engine, c, FALSE)
          /\ UNCHANGED <<backend, used, here, attached, env, vault, loose, faults>>

\* The store looks the resource up again when the provider has answered.
storeProvision(c) ==
    \/ /\ InStore(c, "provision")
       /\ call' = IF Live(call[c].id) THEN [call EXCEPT ![c].pc = "provider", ![c].engine = row.engine]
                  ELSE [call EXCEPT ![c].pc = "missing"]
       /\ UNCHANGED <<backend, data, faults>>
    \/ /\ backend = "memory" /\ call[c].pc = "secrets"
       /\ \/ ~Live(call[c].id) /\ Missing(c)
          \/ /\ Live(call[c].id) /\ Goto(c, "done")
             /\ row' = [row EXCEPT !.status = "ready"]
             /\ secrets' = SecretsOf(row.id, call[c].engine, c, call[c].live)
             /\ UNCHANGED <<backend, used, here, attached, env, vault, loose, faults>>

storeAttachResource(c) ==
    LET id == call[c].id  s == call[c].svc
        stored == {k \in Keys : secrets[<<id, k>>] # None}
        new == {<<call[c].prefix, k>> : k \in IF stored # {} THEN stored ELSE EnvKeys[row.engine]}
        old == IF attached[<<id, s>>] = None THEN {} ELSE attached[<<id, s>>]
    IN /\ InStore(c, "attachResource")
       /\ \/ (~Live(id) \/ s \notin here) /\ Missing(c)
          \/ /\ Live(id) /\ s \in here /\ Goto(c, "done")
             /\ attached' = [attached EXCEPT ![<<id, s>>] = new] /\ Injected(s, new, id, c)
             /\ loose' = loose \cup {<<s, v, id>> : v \in old \ new}
             /\ UNCHANGED <<backend, row, used, here, secrets, faults>>

storeSetEnvironment(c) ==
    LET s == call[c].svc  v == call[c].at
    IN /\ InStore(c, "setEnvironment")
       /\ \/ s \notin here /\ Missing(c)
          \/ /\ s \in here /\ Goto(c, "done")
             /\ IF call[c].pc = "vault" THEN Injected(s, {v}, User, c)
                ELSE env' = [env EXCEPT ![<<s, v>>] = [source |-> User, ref |-> None, by |-> c]] /\ UNCHANGED vault
             /\ UNCHANGED <<backend, row, used, here, secrets, attached, loose, faults>>

\* The variables the attachments list and the resource wrote go, with their secrets.
storeDeleteResource(c) ==
    LET id == call[c].id
        gone == {x \in Services \X Vars : /\ attached[<<id, x[1]>>] # None /\ x[2] \in attached[<<id, x[1]>>]
                                          /\ env[x] # None /\ env[x].source = id}
    IN /\ InStore(c, "deleteResource")
       /\ \/ ~Live(id) /\ Missing(c)
          \/ /\ Live(id) /\ row' = None /\ Goto(c, "done")
             /\ env' = [x \in Services \X Vars |-> IF x \in gone THEN None ELSE env[x]]
             /\ vault' = [x \in Services \X Vars |-> IF x \in gone THEN None ELSE vault[x]]
             /\ attached' = [x \in Ids \X Services |-> IF x[1] = id THEN None ELSE attached[x]]
             /\ secrets' = [x \in Ids \X Keys |-> IF x[1] = id THEN None ELSE secrets[x]]
             /\ UNCHANGED <<backend, used, here, loose, faults>>

StoreStep(c) ==
    \/ storeCreateResource(c) \/ storeUpdateResource(c) \/ storeProvision(c)
    \/ storeAttachResource(c) \/ storeSetEnvironment(c) \/ storeDeleteResource(c)

--------------------------------------------------------------------------------
\* The process dies, or a database call throws.
fail(c) ==
    /\ backend = "prisma" /\ Running(c) /\ faults < MaxFaults
    /\ faults' = faults + 1 /\ Goto(c, "failed")
    /\ UNCHANGED <<backend, data>>

Next ==
    \E c \in Calls :
        \/ /\ call[c].pc = "new" /\ \A q \in Calls : q < c => call[q].pc # "new"
           /\ Cardinality({q \in Calls : Running(q)}) < MaxRunning
           /\ \E op \in Load[c], s \in Services, p \in Prefixes, e \in Engines \cup {None}, v \in Vars,
              secret \in BOOLEAN :
              /\ op = "createResource" => e # None
              /\ IF op = "setEnvironment" THEN v[1] = "" ELSE v = (CHOOSE x \in Vars : TRUE) /\ ~secret
              /\ op \notin {"createResource", "updateResource"} => e = None
              /\ op # "attachResource" => p = CHOOSE x \in Prefixes : TRUE
              /\ start(c, op, s, p, e, v, secret)
        \/ createResource(c) \/ get(c) \/ updateResource(c) \/ nameSecret(c) \/ markReady(c)
        \/ \E live, ok \in BOOLEAN : provisionProvider(c, live, ok)
        \/ \E k \in Keys : attachSecret(c, k)
        \/ readConnection(c) \/ attachResource(c) \/ upsertVariable(c)
        \/ \E v \in Vars : upsertSecret(c, v)
        \/ \E fails \in BOOLEAN : findAttachments(c, fails)
        \/ \E x \in Services \X Vars : findInjected(c, x)
        \/ removeSecret(c) \/ removeVariable(c) \/ removeSecrets(c) \/ deleteResource(c)
        \/ deleteService(c) \/ StoreStep(c) \/ fail(c)

Spec == Init /\ [][Next]_vars

--------------------------------------------------------------------------------
(***************************************************************************)
(* Properties                                                              *)
(***************************************************************************)
Idle == \A c \in Calls : ~Running(c)
Deletes(c) == call[c].op = "deleteResource"
Overlaps(c, ops) == \E q \in call[c].with : call[q].op \in ops
Writers == {"createResource", "updateResource", "provision"}

\* Once a resource is deleted and nothing runs, nothing of it is left: no connection secret and no
\* variable in a service.  With the database, calls on the resource that ran while it was deleted
\* may leave theirs; and a variable that no attachment lists stays (attaching again with another
\* prefix replaces the list, a failing query is taken for an empty one).
DeletedIsGone ==
    Idle => \A id \in 1..used : ~Live(id) =>
        LET raced(ops) == backend = "prisma"
                /\ \E c \in Calls : Deletes(c) /\ call[c].id = id /\ Overlaps(c, ops)
        IN /\ raced(Writers) \/ \A k \in Keys : secrets[<<id, k>>] = None
           /\ raced({"attachResource"})
                \/ \A s \in Services, v \in Vars :
                      env[<<s, v>>] # None /\ env[<<s, v>>].source = id => <<s, v, id>> \in loose

\* A variable a user wrote, over an injected one of the same name too, is not removed with the
\* resource, unless it was written while the resource was being deleted.
UserVariablesSurvive ==
    [][\A s \in here', v \in Vars :
          env[<<s, v>>] # None /\ env[<<s, v>>].source = User /\ env'[<<s, v>>] = None =>
             backend = "prisma" /\ \E c \in Calls : Deletes(c) /\ env[<<s, v>>].by \in call[c].with]_vars

\* A secret a variable refers to exists.  A deletion that removed the secret and not yet the
\* variable, or died there, and a write that ran during one, are the exceptions.
ReferencesResolve ==
    TypeOK /\ \A s \in here, v \in Vars :
        env[<<s, v>>] # None /\ env[<<s, v>>].ref # None /\ vault[<<s, v>>] # env[<<s, v>>].ref =>
            \E c \in Calls : /\ Deletes(c)
                             /\ \/ call[c].at = <<s, v>> /\ call[c].pc \in {"removeVariable", "failed"}
                                \/ env[<<s, v>>].by \in call[c].with

\* When nothing runs, the connection the console and attaching use is of one call, and marked live
\* just when that call provisioned it live.  Writers that overlapped or died are the exceptions;
\* and after a change of engine the secrets of the earlier one stay.
ConnectionIsWhole ==
    Idle /\ row # None =>
        \/ \E x \in {secrets[<<row.id, k>>] : k \in EnvKeys[row.engine]} \ {None} :
              /\ \A k \in EnvKeys[row.engine] : secrets[<<row.id, k>>] = x
              /\ x.live = (x.by # 0 /\ call[x.by].live)
        \/ \E c \in Calls : call[c].op \in Writers \cup {"deleteResource"}
                            /\ (call[c].pc = "failed" \/ Overlaps(c, Writers))

\* A resource that is ready stays so until it is created again: an update writes the status it
\* read, which is stale only when it overlapped the provisioning, or another update that wrote
\* back a status it had read before that.
ReadyIsKept ==
    [][row # None /\ row' # None /\ row.status = "ready" /\ row'.status # "ready" =>
          \E c \in Calls : call[c].pc # call'[c].pc /\
              \/ call[c].op = "createResource"
              \/ backend = "prisma" /\ call[c].op = "updateResource" /\ Overlaps(c, {"provision", "updateResource"})]_vars
================================================================================
