---------------------------- MODULE ResourcesProofs ----------------------------
(***************************************************************************)
(* Proofs about Resources, for any number of calls in any mix, of which    *)
(* any number run at the same time, any number of services, engines, keys, *)
(* prefixes and faults, and both repositories.                             *)
(***************************************************************************)
EXTENDS Resources, TLAPS

--------------------------------------------------------------------------------
(***************************************************************************)
(* The inductive invariant                                                 *)
(***************************************************************************)
Row      == [id : Ids, engine : Engines, status : {"provisioning", "ready"}]
Secret   == [by : Calls \cup {0}, live : BOOLEAN]
Variable == [source : Ids \cup {User}, ref : Calls \cup {0, None}, by : Calls \cup {0}]
Slots    == Services \X Vars
Sweeping == {"remove", "removeSecret", "removeVariable", "delete"}
Pcs == {"new", "create", "get", "update", "provider", "secrets", "ready", "read", "attach", "vault",
        "row", "attachments", "deleteService"} \cup Sweeping \cup Ended

Call == [pc : Pcs, op : Ops \cup {"none"}, id : Ids \cup {None}, svc : Services \cup {None},
         prefix : Prefixes \cup {None}, engine : Engines \cup {None},
         status : {"provisioning", "ready", None}, live : BOOLEAN,
         todo : SUBSET (Keys \cup Vars \cup Slots), at : Vars \cup Slots \cup {None},
         ref : Calls \cup {0, None}, with : SUBSET Calls]

Tables ==
    /\ backend \in {"prisma", "memory"} /\ used \in Ids /\ here \subseteq Services
    /\ row = None \/ (row \in Row /\ row.id <= used)
    /\ secrets \in [Ids \X Keys -> Secret \cup {None}]
    /\ attached \in [Ids \X Services -> (SUBSET Vars) \cup {None}]
    /\ env \in [Slots -> Variable \cup {None}]
    /\ vault \in [Slots -> Calls \cup {0, None}]
    /\ faults \in 0..MaxFaults

Begun(c) ==
    /\ call[c].pc = "new" => call[c].op = "none" /\ call[c].with = {}
    /\ call[c].pc # "new" => /\ call[c].op \in Ops /\ call[c].id \in Ids /\ call[c].id <= used
                             /\ call[c].svc \in Services /\ call[c].prefix \in Prefixes

\* What a call has in hand at each of its steps, in a repository.
Phase(me, repo) ==
    /\ me.pc = "create" => me.op = "createResource" /\ me.engine \in Engines /\ ~me.live
    /\ me.pc = "get" => /\ me.op \in {"updateResource", "deleteResource", "provision", "attachResource"}
                        /\ ~me.live
    /\ me.pc = "update" => /\ me.op = "updateResource" /\ me.engine \in Engines
                           /\ me.status \in {"provisioning", "ready"}
    /\ me.pc = "provider" => me.op = "provision" /\ me.engine \in Engines
    /\ me.pc = "secrets" => me.op \in Writers /\ me.engine \in Engines /\ me.todo \subseteq EnvKeys[me.engine]
    /\ me.pc = "secrets" /\ repo = "memory" => me.op = "provision"
    /\ me.pc = "ready" => me.op = "provision"
    /\ me.pc = "read" => me.op = "attachResource" /\ me.engine \in Engines
    /\ me.pc = "attach" => me.op = "attachResource" /\ me.todo \subseteq Vars
    /\ me.pc = "vault" => me.op \in {"attachResource", "setEnvironment"} /\ me.todo \subseteq Vars
    /\ me.pc = "row" => /\ me.op \in {"attachResource", "setEnvironment"} /\ me.todo \subseteq Vars
                        /\ me.at \in me.todo
    /\ me.op = "setEnvironment" /\ me.pc \in {"vault", "row"} => me.todo = {me.at}
    /\ me.pc \in Sweeping \cup {"attachments"} => me.op = "deleteResource"
    /\ me.pc \in Sweeping => me.todo \subseteq Slots
    /\ me.pc \in {"removeSecret", "removeVariable"} => me.at \in me.todo
    /\ me.pc = "delete" \/ (repo = "prisma" /\ me.op = "deleteResource" /\ me.pc = "done") => me.todo = {}
    /\ me.pc = "deleteService" => me.op = "deleteService"
    /\ repo = "memory" => me.pc \notin Sweeping \cup {"update", "ready", "read", "attach", "attachments"}
    /\ repo = "memory" /\ me.pc \in {"vault", "row"} => me.op = "setEnvironment"

Shape(c) == Phase(call[c], backend)

TypeInv == Tables /\ call \in [Calls -> Call] /\ \A c \in Calls : Begun(c) /\ Shape(c)

\* Calls that run at the same time know of each other.
WithInv == \A p, q \in Calls : p # q /\ Running(p) /\ Running(q) => p \in call[q].with

\* A variable about to be removed is the resource's, or was written meanwhile.
UserInv ==
    \A d \in Calls : call[d].pc \in {"removeSecret", "removeVariable"} =>
        LET x == call[d].at
        IN env[x] # None /\ env[x].source = User => env[x].by \in call[d].with

\* A status in hand is the row's, or was overtaken by one that is ready.
StaleInv ==
    \A c \in Calls : call[c].pc = "update" /\ row # None /\ row.status = "ready" /\ call[c].status # "ready"
        => Overlaps(c, {"provision", "updateResource"})

\* A reference that is written, or about to be, is of a secret that exists, or a deletion removed it.
RefInv ==
    \A s \in here, v \in Vars :
        env[<<s, v>>] # None /\ env[<<s, v>>].ref # None /\ vault[<<s, v>>] # env[<<s, v>>].ref =>
            \E c \in Calls : /\ Deletes(c)
                             /\ \/ call[c].at = <<s, v>> /\ call[c].pc \in {"removeVariable", "failed"}
                                \/ env[<<s, v>>].by \in call[c].with
HandInv ==
    \A c \in Calls : call[c].pc = "row" /\ call[c].ref # None /\ vault[<<call[c].svc, call[c].at>>] # call[c].ref =>
        \E d \in Calls : Deletes(d) /\ c \in call[d].with

\* A deletion of the resource that ran while another call of these kinds did.
Raced(id, ops) ==
    backend = "prisma" /\ \E c \in Calls : Deletes(c) /\ call[c].id = id /\ Overlaps(c, ops)

\* With the database: d is the call that deleted the row.
Deleted(d) == backend = "prisma" /\ Deletes(d) /\ call[d].pc = "done"

\* c found the resource, or wrote it, and goes on with it.
Past(c) == /\ Running(c) /\ call[c].op \in Writers \cup {"attachResource"}
           /\ call[c].pc \notin {"create", "get"}

\* An id is live until a call deletes its row, and never again; who found it before ran meanwhile.
GoneInv ==
    /\ backend = "prisma" => \A i \in 1..used : Live(i) \/ \E d \in Calls : Deleted(d) /\ call[d].id = i
    /\ \A d \in Calls : Deleted(d) =>
          ~Live(call[d].id) /\ \A c \in Calls : Past(c) /\ call[c].id = call[d].id => c \in call[d].with
    /\ backend = "memory" => used = 1

\* The connection secrets go before the row.
SecretInv ==
    /\ \A d \in Calls : call[d].pc = "delete" \/ Deleted(d) =>
          Raced(call[d].id, Writers) \/ \A k \in Keys : secrets[<<call[d].id, k>>] = None
    /\ backend = "memory" /\ row = None => \A k \in Keys : secrets[<<1, k>>] = None

\* Nobody has to look for the variable among those of the attachment of s.
Lost(s, v, id) == Raced(id, {"attachResource"}) \/ <<s, v, id>> \in loose
Listed(s, v, id) == attached[<<id, s>>] # None /\ v \in attached[<<id, s>>]

\* The injected variables are the listed ones, also for the call that is injecting them ...
EnvInv ==
    /\ \A s \in Services, v \in Vars : env[<<s, v>>] # None /\ env[<<s, v>>].source # User =>
          Lost(s, v, env[<<s, v>>].source) \/ Listed(s, v, env[<<s, v>>].source)
    /\ \A c \in Calls : call[c].op = "attachResource" /\ call[c].pc \in {"vault", "row"} =>
          \A v \in call[c].todo : \/ Lost(call[c].svc, v, call[c].id) \/ Listed(call[c].svc, v, call[c].id)
                                  \/ call[c].svc \notin here
    /\ backend = "memory" /\ row = None => \A s \in Services : attached[<<1, s>>] = None

\* ... and for the deletion that has them still to remove.
SweepInv ==
    \A d \in Calls : call[d].pc \in Sweeping \/ Deleted(d) =>
        \A s \in Services, v \in Vars : env[<<s, v>>] # None /\ env[<<s, v>>].source = call[d].id =>
            Lost(s, v, call[d].id) \/ <<s, v>> \in call[d].todo

\* No writer or deletion of the resource died or ran while a writer did.
Calm == \A c \in Calls : call[c].op \in Writers \cup {"deleteResource"} =>
            call[c].pc # "failed" /\ ~Overlaps(c, Writers)

\* c has written the connection as far as the keys that it still has to do.
Wrote(c) == /\ Live(call[c].id) /\ row.engine = call[c].engine
            /\ \A k \in EnvKeys[row.engine] \ call[c].todo :
                  secrets[<<row.id, k>>] = [by |-> c, live |-> call[c].live]

Whole == \E x \in {secrets[<<row.id, k>>] : k \in EnvKeys[row.engine]} \ {None} :
            /\ \A k \in EnvKeys[row.engine] : secrets[<<row.id, k>>] = x
            /\ x.live = (x.by # 0 /\ call[x.by].live)

\* Secrets in the database are being written, or are being removed for good.
Mid(c) == backend = "prisma" /\ call[c].pc \in {"secrets", "delete"}

\* The calls that wrote secrets are past the step that decides whether they are live.
ByInv == \A i \in Ids, k \in Keys : secrets[<<i, k>>] # None /\ secrets[<<i, k>>].by # 0 =>
            call[secrets[<<i, k>>].by].pc \in {"secrets", "ready"} \cup Ended

\* While all is calm a writer works on the row as it found it, and leaves a whole connection.
WholeInv == Calm =>
    /\ \A c \in Calls : call[c].pc = "secrets" /\ backend = "prisma" => Wrote(c)
    /\ \A c \in Calls : call[c].pc \in {"update", "provider"} \/ (call[c].pc = "secrets" /\ backend = "memory") =>
          Live(call[c].id) /\ ((call[c].pc = "update" /\ call[c].live) \/ row.engine = call[c].engine)
    /\ row # None /\ (\A c \in Calls : ~Mid(c)) => Whole

IInv == /\ TypeInv /\ WithInv /\ UserInv /\ StaleInv /\ RefInv /\ HandInv
        /\ GoneInv /\ SecretInv /\ EnvInv /\ SweepInv /\ ByInv /\ WholeInv
--------------------------------------------------------------------------------
(***************************************************************************)
(* A step of a call                                                        *)
(***************************************************************************)
\* c goes on: what identifies it stays, except that creating a resource gives it the row's id.
Step(c) ==
    /\ Running(c) /\ call' \in [Calls -> Call] /\ call'[c].pc # "new" /\ backend' = backend
    /\ \A q \in Calls \ {c} : call'[q] = call[q]
    /\ call'[c].op = call[c].op /\ call'[c].svc = call[c].svc /\ call'[c].prefix = call[c].prefix
    /\ call'[c].with = call[c].with
    /\ call[c].op = "createResource" \/ call'[c].id = call[c].id

LEMMA StepOf ==
    ASSUME TypeInv, NEW c \in Calls, Running(c), NEW x \in Call, x.pc # "new",
           x.op = call[c].op, x.svc = call[c].svc, x.prefix = call[c].prefix, x.with = call[c].with,
           call[c].op = "createResource" \/ x.id = call[c].id,
           call' = [call EXCEPT ![c] = x], backend' = backend
    PROVE  Step(c) /\ call'[c] = x
<1>1. call \in [Calls -> Call]
  BY DEF TypeInv
<1>2. call' \in [Calls -> Call] /\ call'[c] = x /\ \A q \in Calls \ {c} : call'[q] = call[q]
  BY <1>1
<1>3. QED
  BY <1>2 DEF Step

\* The fields of a call that runs.
LEMMA RunningFacts ==
    ASSUME TypeInv, NEW c \in Calls, Running(c)
    PROVE  /\ call[c] \in Call /\ call[c].id \in Ids /\ call[c].id <= used /\ call[c].svc \in Services
           /\ call[c].prefix \in Prefixes /\ call[c].op \in Ops
           /\ call[c].engine \in Engines \cup {None} /\ call[c].status \in {"provisioning", "ready", None}
           /\ call[c].live \in BOOLEAN /\ call[c].todo \in SUBSET (Keys \cup Vars \cup Slots)
           /\ call[c].at \in Vars \cup Slots \cup {None} /\ call[c].ref \in Calls \cup {0, None}
           /\ call[c].pc \in Pcs /\ call[c].pc # "new"
<1>1. call[c] \in Call /\ Begun(c) /\ call[c].pc # "new"
  BY DEF TypeInv, Running
<1>2. /\ call[c].id \in Ids /\ call[c].id <= used /\ call[c].svc \in Services
      /\ call[c].prefix \in Prefixes /\ call[c].op \in Ops
  BY <1>1 DEF Begun
<1>3. /\ call[c].engine \in Engines \cup {None} /\ call[c].status \in {"provisioning", "ready", None}
      /\ call[c].live \in BOOLEAN /\ call[c].todo \in SUBSET (Keys \cup Vars \cup Slots)
      /\ call[c].at \in Vars \cup Slots \cup {None} /\ call[c].ref \in Calls \cup {0, None}
      /\ call[c].pc \in Pcs
  BY <1>1 DEF Call
<1>4. QED
  BY <1>1, <1>2, <1>3

\* A call goes to another step with everything else as it is.
LEMMA GotoStep ==
    ASSUME TypeInv, NEW c \in Calls, Running(c), NEW p \in Pcs \ {"new"}, Goto(c, p), backend' = backend
    PROVE  /\ Step(c) /\ call'[c].pc = p /\ call'[c].id = call[c].id /\ call'[c].engine = call[c].engine
           /\ call'[c].status = call[c].status /\ call'[c].live = call[c].live
           /\ call'[c].todo = call[c].todo /\ call'[c].at = call[c].at /\ call'[c].ref = call[c].ref
<1>1. call \in [Calls -> Call] /\ call[c] \in Call
  BY DEF TypeInv
<1>2. PICK x : x = [call[c] EXCEPT !.pc = p]
  OBVIOUS
<1>3. x \in Call /\ x.pc = p /\ x.op = call[c].op /\ x.id = call[c].id
  BY <1>1, <1>2 DEF Call
<1>4. x.svc = call[c].svc /\ x.prefix = call[c].prefix /\ x.with = call[c].with /\ x.engine = call[c].engine
  BY <1>1, <1>2 DEF Call
<1>5. /\ x.status = call[c].status /\ x.live = call[c].live /\ x.todo = call[c].todo /\ x.at = call[c].at
      /\ x.ref = call[c].ref
  BY <1>1, <1>2 DEF Call
<1>6. call' = [call EXCEPT ![c] = x]
  BY <1>1, <1>2 DEF Goto
<1>7. Step(c) /\ call'[c] = x
  BY <1>3, <1>4, <1>6, StepOf
<1>8. QED
  BY <1>3, <1>4, <1>5, <1>7

--------------------------------------------------------------------------------
(***************************************************************************)
(* What keeps each part of the invariant                                   *)
(***************************************************************************)
\* Other calls stay as they are, and what is remembered about overlaps stays true.
LEMMA StepFacts ==
    ASSUME NEW c \in Calls, Step(c)
    PROVE  /\ \A q \in Calls : Running(q)' => Running(q)
           /\ \A q \in Calls : call'[q].op = call[q].op /\ call'[q].with = call[q].with
           /\ \A q \in Calls : call[q].op = "createResource" \/ call'[q].id = call[q].id
           /\ \A q \in Calls : Deletes(q)' = Deletes(q)
           /\ \A q \in Calls \ {c} : call'[q] = call[q]
           /\ Running(c) /\ backend' = backend
<1>1. /\ Running(c) /\ backend' = backend
      /\ \A q \in Calls \ {c} : call'[q] = call[q]
      /\ call'[c].op = call[c].op /\ call'[c].with = call[c].with
      /\ call[c].op = "createResource" \/ call'[c].id = call[c].id
  BY DEF Step
<1>2. \A q \in Calls : Running(q)' => Running(q)
  BY <1>1 DEF Running
<1>3. /\ \A q \in Calls : call'[q].op = call[q].op /\ call'[q].with = call[q].with
      /\ \A q \in Calls : call[q].op = "createResource" \/ call'[q].id = call[q].id
  BY <1>1
<1>4. \A q \in Calls : Deletes(q)' = Deletes(q)
  BY <1>3 DEF Deletes
<1>5. QED
  BY <1>1, <1>2, <1>3, <1>4

LEMMA WithTyped ==
    ASSUME TypeInv PROVE \A q \in Calls : call[q].with \subseteq Calls
BY DEF TypeInv, Call

LEMMA OverlapsKept ==
    ASSUME TypeInv, NEW c \in Calls, Step(c), NEW q \in Calls, NEW ops
    PROVE  Overlaps(q, ops)' = Overlaps(q, ops)
<1>1. call'[q].with = call[q].with /\ call[q].with \subseteq Calls
  BY StepFacts, WithTyped
<1>2. \A p \in call[q].with : call'[p].op = call[p].op
  BY <1>1, StepFacts
<1>3. QED
  BY <1>1, <1>2 DEF Overlaps

LEMMA RacedKept ==
    ASSUME TypeInv, NEW c \in Calls, Step(c), NEW id, NEW ops
    PROVE  Raced(id, ops)' = Raced(id, ops)
<1>1. \A q \in Calls : Overlaps(q, ops)' = Overlaps(q, ops) /\ Deletes(q)' = Deletes(q)
  BY OverlapsKept, StepFacts
<1>2. \A q \in Calls : Deletes(q) => call'[q].id = call[q].id
  BY StepFacts DEF Deletes
<1>3. backend' = backend
  BY DEF Step
<1>4. QED
  BY <1>1, <1>2, <1>3 DEF Raced

\* A running call overlaps the others that run.
LEMMA Meets ==
    ASSUME IInv, NEW p \in Calls, NEW q \in Calls, p # q, Running(p), Running(q)
    PROVE  p \in call[q].with
BY DEF IInv, WithInv

LEMMA TypeKept ==
    ASSUME TypeInv, NEW c \in Calls, Step(c), call'[c].id \in Ids, call'[c].id <= used', Shape(c)',
           Tables', used <= used'
    PROVE  TypeInv'
<1>1. used \in Nat /\ used' \in Nat /\ Ids \subseteq Nat
  BY ResourcesAssumption DEF TypeInv, Tables
<1>2. call' \in [Calls -> Call] /\ backend' = backend
  BY DEF Step
<1>3. ASSUME NEW q \in Calls \ {c} PROVE Begun(q)' /\ Shape(q)'
  <2>1. call'[q] = call[q] /\ Begun(q) /\ Shape(q)
    BY DEF Step, TypeInv
  <2>2. \A n \in Ids : n <= used => n <= used'
    <3>1. \A n \in Nat : n <= used => n <= used'
      BY <1>1
    <3>2. QED
      BY <1>1, <3>1
  <2>3. Begun(q)'
    BY <2>1, <2>2 DEF Begun
  <2>4. Shape(q)'
    BY <1>2, <2>1 DEF Shape
  <2>5. QED
    BY <2>3, <2>4
<1>4. Begun(c)'
  <2>1. /\ call'[c].pc # "new" /\ call'[c].op = call[c].op /\ call'[c].svc = call[c].svc
        /\ call'[c].prefix = call[c].prefix /\ Running(c)
    BY DEF Step
  <2>2. QED
    BY <2>1, RunningFacts DEF Begun
<1>5. QED
  BY <1>2, <1>3, <1>4 DEF TypeInv

LEMMA TypeSame ==
    ASSUME TypeInv, NEW c \in Calls, Step(c), call'[c].id = call[c].id, Shape(c)', Tables', used' = used
    PROVE  TypeInv'
<1>1. used \in Nat
  BY ResourcesAssumption DEF TypeInv, Tables
<1>2. call[c].id \in Ids /\ call[c].id <= used
  BY RunningFacts DEF Step
<1>3. QED
  BY <1>1, <1>2, TypeKept

LEMMA WithKept ==
    ASSUME WithInv, NEW c \in Calls, Step(c) PROVE WithInv'
BY StepFacts DEF WithInv

LEMMA UserKept ==
    ASSUME IInv, NEW c \in Calls, Step(c),
           \A x \in Slots : env'[x] \in {env[x], None} \/ env'[x].source # User \/ env'[x].by = c,
           call'[c].pc \in {"removeSecret", "removeVariable"} =>
              \/ /\ call[c].pc \in {"removeSecret", "removeVariable"}
                 /\ call'[c].at = call[c].at /\ env' = env
              \/ env'[call'[c].at] # None => env'[call'[c].at].source # User
    PROVE  UserInv'
<1> SUFFICES ASSUME NEW d \in Calls, call'[d].pc \in {"removeSecret", "removeVariable"},
                    NEW x, x = call'[d].at, env'[x] # None, env'[x].source = User
             PROVE  env'[x].by \in call'[d].with
  BY DEF UserInv
<1>1. CASE d = c
  <2>1. /\ call[c].pc \in {"removeSecret", "removeVariable"} /\ x = call[c].at /\ env' = env
    BY <1>1
  <2>2. env[x].by \in call[c].with
    BY <2>1 DEF IInv, UserInv
  <2>3. QED
    BY <1>1, <2>1, <2>2, StepFacts
<1>2. CASE d # c
  <2>1. call'[d] = call[d] /\ Running(d) /\ Running(c)
    BY <1>2, StepFacts DEF Running, Ended
  <2>2. c \in call[d].with
    BY <1>2, <2>1, Meets
  <2>3. x \in Slots
    BY <2>1 DEF IInv, TypeInv, Shape, Phase, Sweeping
  <2>4. CASE env'[x].by = c
    BY <2>1, <2>2, <2>4
  <2>5. CASE env'[x] = env[x]
    BY <2>1, <2>5 DEF IInv, UserInv
  <2>6. QED
    BY <2>3, <2>4, <2>5
<1>3. QED
  BY <1>1, <1>2

LEMMA StaleKept ==
    ASSUME IInv, NEW c \in Calls, Step(c),
           row' # None /\ row'.status = "ready" =>
              (row # None /\ row.status = "ready") \/ call[c].op \in {"provision", "updateResource"},
           call'[c].pc = "update" => row' = row /\ call'[c].status = row.status
    PROVE  StaleInv'
<1> SUFFICES ASSUME NEW d \in Calls, call'[d].pc = "update", row' # None, row'.status = "ready",
                    call'[d].status # "ready"
             PROVE  Overlaps(d, {"provision", "updateResource"})'
  BY DEF StaleInv
<1>1. d # c
  OBVIOUS
<1>2. call'[d] = call[d] /\ Running(d) /\ Running(c)
  BY <1>1, StepFacts DEF Running, Ended
<1>3. c \in call[d].with
  BY <1>1, <1>2, Meets
<1>4. Overlaps(d, {"provision", "updateResource"})
  <2>1. CASE row # None /\ row.status = "ready"
    BY <1>2, <2>1 DEF IInv, StaleInv
  <2>2. CASE call[c].op \in {"provision", "updateResource"}
    BY <1>3, <2>2 DEF Overlaps
  <2>3. QED
    BY <2>1, <2>2
<1>5. QED
  BY <1>4, OverlapsKept DEF IInv

\* A slot's variable refers to a secret that exists, or to none.
Sound(s, v) == env[<<s, v>>] = None \/ env[<<s, v>>].ref = None \/ vault[<<s, v>>] = env[<<s, v>>].ref

LEMMA RefKept ==
    ASSUME IInv, NEW c \in Calls, Step(c), here' \subseteq here,
           \A s \in here', v \in Vars :
              \/ Sound(s, v)'
              \/ /\ env'[<<s, v>>] = env[<<s, v>>]
                 /\ vault'[<<s, v>>] = vault[<<s, v>>] \/ ~Sound(s, v)
                 /\ call[c].pc = "removeVariable" /\ call[c].at = <<s, v>> =>
                       call'[c].pc = "failed" /\ call'[c].at = call[c].at
              \/ \E d \in Calls : Deletes(d) /\ env'[<<s, v>>].by \in call[d].with
              \/ Deletes(c) /\ call'[c].at = <<s, v>> /\ call'[c].pc = "removeVariable"
    PROVE  RefInv'
<1> SUFFICES ASSUME NEW s \in here', NEW v \in Vars, ~Sound(s, v)'
             PROVE  \E d \in Calls : /\ Deletes(d)'
                             /\ \/ call'[d].at = <<s, v>> /\ call'[d].pc \in {"removeVariable", "failed"}
                                \/ env'[<<s, v>>].by \in call'[d].with
  BY DEF RefInv, Sound
<1>1. CASE /\ env'[<<s, v>>] = env[<<s, v>>]
           /\ vault'[<<s, v>>] = vault[<<s, v>>] \/ ~Sound(s, v)
           /\ call[c].pc = "removeVariable" /\ call[c].at = <<s, v>> =>
                       call'[c].pc = "failed" /\ call'[c].at = call[c].at
  <2>1. ~Sound(s, v)
    BY <1>1 DEF Sound
  <2>2. s \in here
    OBVIOUS
  <2>3. PICK d \in Calls : /\ Deletes(d)
                           /\ \/ call[d].at = <<s, v>> /\ call[d].pc \in {"removeVariable", "failed"}
                              \/ env[<<s, v>>].by \in call[d].with
    BY <2>1, <2>2 DEF IInv, RefInv, Sound
  <2>4. Deletes(d)' /\ call'[d].with = call[d].with
    BY <2>3, StepFacts
  <2>5. CASE env[<<s, v>>].by \in call[d].with
    BY <1>1, <2>4, <2>5
  <2>6. CASE call[d].at = <<s, v>> /\ call[d].pc \in {"removeVariable", "failed"}
    <3>1. CASE d # c
      BY <2>4, <2>6, <3>1, StepFacts
    <3>2. CASE d = c
      <4>1. call[c].pc = "removeVariable"
        BY <2>6, <3>2 DEF Step, Running, Ended
      <4>2. QED
        BY <1>1, <2>4, <2>6, <3>2, <4>1
    <3>3. QED
      BY <3>1, <3>2
  <2>7. QED
    BY <2>3, <2>5, <2>6
<1>2. CASE \E d \in Calls : Deletes(d) /\ env'[<<s, v>>].by \in call[d].with
  BY <1>2, StepFacts
<1>3. CASE Deletes(c) /\ call'[c].at = <<s, v>> /\ call'[c].pc = "removeVariable"
  BY <1>3, StepFacts
<1>4. QED
  BY <1>1, <1>2, <1>3

LEMMA HandKept ==
    ASSUME IInv, NEW c \in Calls, Step(c),
           \A x \in Slots : vault'[x] = vault[x] \/ vault[x] = None \/ Deletes(c),
           call'[c].pc = "row" => call'[c].ref = None \/ vault'[<<call'[c].svc, call'[c].at>>] = call'[c].ref
    PROVE  HandInv'
<1> SUFFICES ASSUME NEW q \in Calls, call'[q].pc = "row", call'[q].ref # None,
                    vault'[<<call'[q].svc, call'[q].at>>] # call'[q].ref
             PROVE  \E d \in Calls : Deletes(d)' /\ q \in call'[d].with
  BY DEF HandInv
<1>1. q # c
  OBVIOUS
<1>2. call'[q] = call[q] /\ Running(q) /\ Running(c)
  BY <1>1, StepFacts DEF Running, Ended
<1>3. \E d \in Calls : Deletes(d) /\ q \in call[d].with
  <2>1. PICK x : x = <<call[q].svc, call[q].at>>
    OBVIOUS
  <2>2. x \in Slots
    <3>1. call[q].svc \in Services /\ call[q].at \in Vars
      BY <1>2, RunningFacts DEF IInv, TypeInv, Shape, Phase
    <3>2. QED
      BY <2>1, <3>1 DEF Slots
  <2>3. CASE Deletes(c)
    BY <1>1, <1>2, <2>3, Meets
  <2>4. CASE ~Deletes(c)
    <3>1. vault[x] # call[q].ref
      BY <1>2, <2>1, <2>2, <2>4
    <3>2. QED
      BY <1>2, <2>1, <3>1 DEF IInv, HandInv
  <2>5. QED
    BY <2>3, <2>4
<1>4. QED
  BY <1>3, StepFacts

\* c ran while the deletion d of the resource it goes on with did.
LEMMA Crossed ==
    ASSUME IInv, NEW c \in Calls, NEW d \in Calls, c # d, Past(c), Deletes(d), call[c].id = call[d].id,
           backend = "prisma", Running(d) \/ Deleted(d),
           NEW ops, call[c].op \in ops
    PROVE  Raced(call[d].id, ops)
<1>1. c \in call[d].with
  <2>1. CASE Running(d)
    BY <2>1, Meets DEF Past
  <2>2. CASE Deleted(d)
    BY <2>2 DEF IInv, GoneInv
  <2>3. QED
    BY <2>1, <2>2
<1>2. Overlaps(d, ops)
  BY <1>1 DEF Overlaps
<1>3. QED
  BY <1>2 DEF Raced

LEMMA GoneKept ==
    ASSUME IInv, NEW c \in Calls, Step(c), used' = used,
           backend = "prisma" =>
              /\ \A i \in Ids : Live(i)' <=> Live(i)
              /\ ~Deleted(c)'
              /\ Past(c)' => call'[c].id = call[c].id /\ (Past(c) \/ Live(call[c].id))
    PROVE  GoneInv'
<1>1. backend' = backend /\ used' = used
  BY DEF Step
<1>2. backend = "memory" => used' = 1
  BY DEF IInv, GoneInv
<1>3. CASE backend = "memory"
  BY <1>1, <1>2, <1>3 DEF GoneInv, Deleted
<1>4. CASE backend = "prisma"
  <2>1. \A d \in Calls : Deleted(d)' => d # c /\ Deleted(d) /\ call'[d] = call[d]
    BY <1>1, <1>4, StepFacts DEF Deleted, Deletes
  <2>2. \A d \in Calls : Deleted(d) => d # c /\ Deleted(d)' /\ call'[d] = call[d]
    BY <1>1, StepFacts DEF Deleted, Deletes, Running, Ended
  <2>3. ASSUME NEW i \in 1..used' PROVE Live(i)' \/ \E d \in Calls : Deleted(d)' /\ call'[d].id = i
    <3>1. i \in Ids /\ i \in 1..used
      <4>1. PICK n \in Ids : Ids = 1..n
        BY ResourcesAssumption
      <4>2. used \in Ids /\ Ids \subseteq Nat
        BY ResourcesAssumption DEF IInv, TypeInv, Tables
      <4>3. QED
        BY <1>1, <2>3, <4>1, <4>2
    <3>2. Live(i) \/ \E d \in Calls : Deleted(d) /\ call[d].id = i
      BY <1>4, <3>1 DEF IInv, GoneInv
    <3>3. QED
      BY <1>4, <2>2, <3>1, <3>2
  <2>4. ASSUME NEW d \in Calls, Deleted(d)'
        PROVE  (~Live(call[d].id) /\ \A q \in Calls : Past(q) /\ call[q].id = call[d].id => q \in call[d].with)'
    <3>1. d # c /\ Deleted(d) /\ call'[d] = call[d]
      BY <2>1, <2>4
    <3>2. PICK i : i = call[d].id
      OBVIOUS
    <3>3. ~Live(i) /\ \A q \in Calls : Past(q) /\ call[q].id = i => q \in call[d].with
      BY <3>1, <3>2 DEF IInv, GoneInv
    <3>4. i \in Ids
      BY <3>1, <3>2 DEF IInv, TypeInv, Begun, Deleted
    <3>5. ~Live(i)'
      BY <1>4, <3>3, <3>4
    <3>6. ASSUME NEW q \in Calls, Past(q)', call'[q].id = i PROVE q \in call[d].with
      <4>1. CASE q = c
        BY <1>4, <3>3, <3>6, <4>1
      <4>2. CASE q # c
        BY <3>3, <3>6, <4>2, StepFacts DEF Past, Running
      <4>3. QED
        BY <4>1, <4>2
    <3>7. QED
      BY <3>1, <3>2, <3>5, <3>6
  <2>5. QED
    BY <1>1, <1>4, <2>1, <2>3, <2>4 DEF GoneInv
<1>5. QED
  BY <1>3, <1>4 DEF IInv, TypeInv, Tables

LEMMA SecretKept ==
    ASSUME IInv, TypeInv', NEW c \in Calls, Step(c),
           backend = "prisma" => \A i \in Ids, k \in Keys :
              secrets'[<<i, k>>] \in {secrets[<<i, k>>], None}
              \/ (i = call[c].id /\ Past(c) /\ call[c].op \in Writers),
           backend = "prisma" /\ (call'[c].pc = "delete" \/ Deleted(c)') =>
              \/ call[c].pc = "delete" /\ secrets' = secrets
              \/ \A k \in Keys : secrets'[<<call[c].id, k>>] = None,
           backend = "memory" /\ row' = None =>
              (row = None /\ secrets' = secrets) \/ \A k \in Keys : secrets'[<<1, k>>] = None
    PROVE  SecretInv'
<1>1. backend' = backend
  BY DEF Step
<1>2. ASSUME backend = "memory", row' = None, NEW k \in Keys PROVE secrets'[<<1, k>>] = None
  BY <1>2 DEF IInv, SecretInv
<1>3. ASSUME NEW d \in Calls, call'[d].pc = "delete" \/ Deleted(d)'
      PROVE  (Raced(call[d].id, Writers) \/ \A k \in Keys : secrets[<<call[d].id, k>>] = None)'
  <2>1. backend = "prisma"
    <3>1. CASE call'[d].pc = "delete"
      BY <1>1, <3>1 DEF TypeInv, Shape, Phase, Sweeping, IInv, Tables
    <3>2. CASE Deleted(d)'
      BY <1>1, <3>2 DEF Deleted
    <3>3. QED
      BY <1>3, <3>1, <3>2
  <2>2. Deletes(d)
    <3>1. Deletes(d)'
      BY <1>3 DEF TypeInv, Shape, Phase, Sweeping, Deletes, Deleted
    <3>2. QED
      BY <3>1, StepFacts
  <2>3. PICK i : i = call[d].id /\ i = call'[d].id
    BY <2>2, StepFacts DEF Deletes
  <2>4. Raced(i, Writers)' = Raced(i, Writers)
    BY RacedKept DEF IInv
  <2> SUFFICES Raced(i, Writers)' \/ \A k \in Keys : secrets'[<<i, k>>] = None
    BY <2>3
  <2>5. CASE d = c
    <3>1. CASE call[c].pc = "delete" /\ secrets' = secrets
      <4>1. Raced(i, Writers) \/ \A k \in Keys : secrets[<<i, k>>] = None
        BY <2>3, <2>5, <3>1 DEF IInv, SecretInv
      <4>2. QED
        BY <2>3, <2>4, <2>5, <3>1, <4>1
    <3>2. CASE \A k \in Keys : secrets'[<<call[c].id, k>>] = None
      BY <2>3, <2>5, <3>2
    <3>3. QED
      BY <1>3, <2>1, <2>5, <3>1, <3>2
  <2>6. CASE d # c
    <3>1. call'[d] = call[d] /\ (call[d].pc = "delete" \/ Deleted(d))
      BY <1>1, <1>3, <2>6, StepFacts DEF Deleted, Deletes
    <3>2. Raced(i, Writers) \/ \A k \in Keys : secrets[<<i, k>>] = None
      BY <2>3, <3>1 DEF IInv, SecretInv
    <3>3. Running(d) \/ Deleted(d)
      BY <3>1 DEF Running, Ended
    <3>4. i \in Ids
      BY <2>3, <3>1 DEF IInv, TypeInv, Begun, Deleted
    <3>5. CASE call[c].id = i /\ Past(c) /\ call[c].op \in Writers
      <4>1. Raced(call[d].id, Writers)
        BY <2>1, <2>2, <2>3, <2>6, <3>3, <3>5, Crossed
      <4>2. QED
        BY <2>3, <2>4, <4>1
    <3>6. CASE ~(call[c].id = i /\ Past(c) /\ call[c].op \in Writers)
      <4>1. \A k \in Keys : secrets'[<<i, k>>] \in {secrets[<<i, k>>], None}
        BY <2>1, <3>4, <3>6
      <4>2. QED
        BY <2>4, <3>2, <4>1
    <3>7. QED
      BY <3>5, <3>6
  <2>7. QED
    BY <2>5, <2>6
<1>4. QED
  BY <1>1, <1>2, <1>3 DEF SecretInv

LEMMA ByKept ==
    ASSUME IInv, NEW c \in Calls, Step(c),
           call[c].pc \in {"secrets", "ready"} => call'[c].pc \in {"secrets", "ready"} \cup Ended,
           \A i \in Ids, k \in Keys :
              \/ secrets'[<<i, k>>] \in {secrets[<<i, k>>], None}
              \/ secrets'[<<i, k>>].by = c /\ call'[c].pc \in {"secrets", "ready"} \cup Ended
    PROVE  ByInv'
<1> SUFFICES ASSUME NEW i \in Ids, NEW k \in Keys, secrets'[<<i, k>>] # None, secrets'[<<i, k>>].by # 0
             PROVE  call'[secrets'[<<i, k>>].by].pc \in {"secrets", "ready"} \cup Ended
  BY DEF ByInv
<1>1. CASE secrets'[<<i, k>>].by = c /\ call'[c].pc \in {"secrets", "ready"} \cup Ended
  BY <1>1
<1>2. CASE secrets'[<<i, k>>] = secrets[<<i, k>>]
  <2>1. PICK b : b = secrets[<<i, k>>].by
    OBVIOUS
  <2>2. b \in Calls
    <3>1. secrets[<<i, k>>] \in Secret
      BY <1>2 DEF IInv, TypeInv, Tables
    <3>2. QED
      BY <1>2, <2>1, <3>1 DEF Secret
  <2>3. call[b].pc \in {"secrets", "ready"} \cup Ended
    BY <1>2, <2>1 DEF IInv, ByInv
  <2>4. CASE b = c
    BY <1>2, <2>1, <2>3, <2>4, StepFacts DEF Running
  <2>5. CASE b # c
    BY <1>2, <2>1, <2>2, <2>3, <2>5, StepFacts
  <2>6. QED
    BY <2>4, <2>5
<1>3. QED
  BY <1>1, <1>2

\* What is lost stays lost.
LEMMA LostKept ==
    ASSUME IInv, NEW c \in Calls, Step(c), loose \subseteq loose', NEW s, NEW v, NEW i, Lost(s, v, i)
    PROVE  Lost(s, v, i)'
<1>1. Raced(i, {"attachResource"})' = Raced(i, {"attachResource"})
  BY RacedKept DEF IInv
<1>2. QED
  BY <1>1 DEF Lost

LEMMA EnvKept ==
    ASSUME IInv, TypeInv', NEW c \in Calls, Step(c), loose \subseteq loose', here' \subseteq here,
           \A s \in Services, v \in Vars : env'[<<s, v>>] # None /\ env'[<<s, v>>].source # User =>
              \/ env'[<<s, v>>] = env[<<s, v>>]
              \/ /\ call[c].op = "attachResource" /\ call[c].pc \in {"vault", "row"} /\ v \in call[c].todo
                 /\ s = call[c].svc /\ s \in here' /\ env'[<<s, v>>].source = call[c].id
                 /\ attached' = attached
              \/ Listed(s, v, env[<<s, v>>].source)',
           \A i \in Ids, s \in Services, v \in Vars : Listed(s, v, i) =>
              \/ Listed(s, v, i)'
              \/ <<s, v, i>> \in loose'
              \/ s \notin here' /\ env'[<<s, v>>] = None
              \/ /\ Deletes(c) /\ i = call[c].id
                 /\ env'[<<s, v>>] # None /\ env'[<<s, v>>].source = i => Lost(s, v, i),
           call[c].op = "attachResource" /\ call'[c].pc \in {"vault", "row"} =>
              \/ call[c].pc \in {"vault", "row"} /\ call'[c].todo \subseteq call[c].todo
              \/ \A v \in call'[c].todo : Listed(call[c].svc, v, call[c].id)',
           backend = "memory" /\ row' = None =>
              \/ row = None /\ attached' = attached
              \/ \A s \in Services : attached'[<<1, s>>] = None
    PROVE  EnvInv'
<1>1. backend' = backend
  BY DEF Step
<1>2. ASSUME backend = "memory", row' = None, NEW s \in Services
      PROVE  attached'[<<1, s>>] = None
  BY <1>2 DEF IInv, EnvInv
<1>3. \A s, v, i : Lost(s, v, i) => Lost(s, v, i)'
  BY LostKept
<1>4. \A s, v, i : <<s, v, i>> \in loose' => Lost(s, v, i)'
  BY DEF Lost
<1>5. ASSUME NEW s \in Services, NEW v \in Vars, env'[<<s, v>>] # None, env'[<<s, v>>].source # User,
             NEW i, i = env'[<<s, v>>].source
      PROVE  Lost(s, v, i)' \/ Listed(s, v, i)'
  <2>1. i \in Ids
    <3>1. env'[<<s, v>>] \in Variable
      BY <1>5 DEF TypeInv, Tables, Slots
    <3>2. QED
      BY <1>5, <3>1 DEF Variable
  <2>2. CASE Listed(s, v, env[<<s, v>>].source)'
    BY <1>5, <2>2
  <2>3. CASE env'[<<s, v>>] = env[<<s, v>>]
    <3>1. Lost(s, v, i) \/ Listed(s, v, i)
      BY <1>5, <2>3 DEF IInv, EnvInv
    <3>2. CASE Lost(s, v, i)
      BY <1>3, <3>2
    <3>3. CASE Listed(s, v, i)
      BY <1>3, <1>4, <1>5, <2>1, <3>3
    <3>4. QED
      BY <3>1, <3>2, <3>3
  <2>4. CASE /\ call[c].op = "attachResource" /\ call[c].pc \in {"vault", "row"} /\ v \in call[c].todo
             /\ s = call[c].svc /\ s \in here' /\ env'[<<s, v>>].source = call[c].id
             /\ attached' = attached
    <3>1. Lost(s, v, i) \/ Listed(s, v, i)
      BY <1>5, <2>4 DEF IInv, EnvInv
    <3>2. Listed(s, v, i) => Listed(s, v, i)'
      BY <2>4 DEF Listed
    <3>3. QED
      BY <1>3, <3>1, <3>2
  <2>5. QED
    BY <1>5, <2>2, <2>3, <2>4
<1>6. ASSUME NEW q \in Calls, call'[q].op = "attachResource", call'[q].pc \in {"vault", "row"},
             NEW v \in call'[q].todo, NEW s, s = call'[q].svc, NEW i, i = call'[q].id
      PROVE  Lost(s, v, i)' \/ Listed(s, v, i)' \/ s \notin here'
  <2>1. backend = "prisma"
    BY <1>1, <1>6 DEF TypeInv, Shape, Phase, Tables
  <2>2. call[q].op = "attachResource" /\ s = call[q].svc /\ i = call[q].id
    BY <1>6 DEF Step
  <2>3. i \in Ids /\ s \in Services /\ v \in Vars
    BY <1>6 DEF TypeInv, Begun, Shape, Phase
  <2>4. CASE call[q].pc \in {"vault", "row"} /\ v \in call[q].todo
    <3>1. Lost(s, v, i) \/ Listed(s, v, i) \/ s \notin here
      BY <2>2, <2>4 DEF IInv, EnvInv
    <3>2. CASE Listed(s, v, i)
      <4>1. CASE Deletes(c) /\ i = call[c].id
        <5>1. q # c /\ Running(q) /\ Running(c)
          BY <2>2, <2>4, <4>1 DEF Step, Deletes, Running, Ended
        <5>2. Past(q)
          BY <2>2, <2>4, <5>1 DEF Past
        <5>3. Raced(i, {"attachResource"})
          BY <2>1, <2>2, <4>1, <5>1, <5>2, Crossed
        <5>4. QED
          BY <1>3, <5>3 DEF Lost
      <4>2. CASE ~(Deletes(c) /\ i = call[c].id)
        BY <1>4, <2>3, <3>2, <4>2
      <4>3. QED
        BY <4>1, <4>2
    <3>3. QED
      BY <1>3, <3>1, <3>2
  <2>5. CASE ~(call[q].pc \in {"vault", "row"} /\ v \in call[q].todo)
    <3>1. q = c
      BY <1>6, <2>5, StepFacts
    <3>2. Listed(call[c].svc, v, call[c].id)'
      BY <1>6, <2>2, <2>5, <3>1
    <3>3. Listed(s, v, i)'
      BY <1>6, <2>2, <3>1, <3>2 DEF Listed
    <3>4. QED
      BY <3>3
  <2>6. QED
    BY <2>4, <2>5
<1>7. \A s \in Services, v \in Vars : env'[<<s, v>>] # None /\ env'[<<s, v>>].source # User =>
          (Lost(s, v, env[<<s, v>>].source) \/ Listed(s, v, env[<<s, v>>].source))'
  BY <1>5
<1>8. \A q \in Calls : call'[q].op = "attachResource" /\ call'[q].pc \in {"vault", "row"} =>
         \A v \in call'[q].todo : \/ Lost(call[q].svc, v, call[q].id)' \/ Listed(call[q].svc, v, call[q].id)'
                                  \/ call'[q].svc \notin here'
  BY <1>6
<1>9. QED
  BY <1>1, <1>2, <1>7, <1>8 DEF EnvInv

LEMMA SweepKept ==
    ASSUME IInv, TypeInv', NEW c \in Calls, Step(c), loose \subseteq loose',
           backend = "prisma" =>
              \A s \in Services, v \in Vars : env'[<<s, v>>] # None /\ env'[<<s, v>>].source # User =>
                 \/ env'[<<s, v>>] = env[<<s, v>>]
                 \/ Past(c) /\ call[c].op = "attachResource" /\ env'[<<s, v>>].source = call[c].id,
           call'[c].pc \in Sweeping \/ Deleted(c)' =>
              \A s \in Services, v \in Vars : env'[<<s, v>>] # None /\ env'[<<s, v>>].source = call[c].id =>
                 Lost(s, v, call[c].id) \/ <<s, v, call[c].id>> \in loose' \/ <<s, v>> \in call'[c].todo
    PROVE  SweepInv'
<1> SUFFICES ASSUME NEW d \in Calls, call'[d].pc \in Sweeping \/ Deleted(d)',
                    NEW s \in Services, NEW v \in Vars,
                    NEW i, i = call'[d].id, env'[<<s, v>>] # None, env'[<<s, v>>].source = i
             PROVE  Lost(s, v, i)' \/ <<s, v>> \in call'[d].todo
  BY DEF SweepInv
<1>1. backend' = backend
  BY DEF Step
<1>2. backend = "prisma"
  BY <1>1 DEF TypeInv, Shape, Phase, Tables, Deleted
<1>3. Deletes(d)
  <2>1. Deletes(d)'
    BY DEF TypeInv, Shape, Phase, Deletes, Deleted
  <2>2. QED
    BY <2>1, StepFacts
<1>4. i = call[d].id /\ i \in Ids
  <2>1. i = call[d].id
    BY <1>3, StepFacts DEF Deletes
  <2>2. call'[d].pc # "new"
    BY DEF Deleted, Sweeping
  <2>3. QED
    BY <2>1, <2>2 DEF TypeInv, Begun
<1>5. Lost(s, v, i) => Lost(s, v, i)'
  BY LostKept
<1>6. CASE d = c
  <2>1. Lost(s, v, i) \/ <<s, v, i>> \in loose' \/ <<s, v>> \in call'[c].todo
    BY <1>4, <1>6
  <2>2. QED
    BY <1>5, <1>6, <2>1 DEF Lost
<1>7. CASE d # c
  <2>1. call'[d] = call[d] /\ (call[d].pc \in Sweeping \/ Deleted(d)) /\ (Running(d) \/ Deleted(d))
    BY <1>1, <1>7, StepFacts DEF Deleted, Deletes, Running, Ended, Sweeping
  <2>2. i # User
    BY <1>4, NoneAssumption, ResourcesAssumption
  <2>3. CASE env'[<<s, v>>] = env[<<s, v>>]
    <3>1. Lost(s, v, i) \/ <<s, v>> \in call[d].todo
      BY <1>4, <2>1, <2>3 DEF IInv, SweepInv
    <3>2. QED
      BY <1>5, <2>1, <3>1
  <2>4. CASE Past(c) /\ call[c].op = "attachResource" /\ env'[<<s, v>>].source = call[c].id
    <3>1. Raced(i, {"attachResource"})
      BY <1>2, <1>3, <1>4, <1>7, <2>1, <2>4, Crossed
    <3>2. QED
      BY <1>5, <3>1 DEF Lost
  <2>5. QED
    BY <1>2, <2>2, <2>3, <2>4
<1>8. QED
  BY <1>6, <1>7

LEMMA CalmKept ==
    ASSUME IInv, NEW c \in Calls, Step(c), Calm' PROVE Calm
<1> SUFFICES ASSUME NEW q \in Calls, call[q].op \in Writers \cup {"deleteResource"}
             PROVE  call[q].pc # "failed" /\ ~Overlaps(q, Writers)
  BY DEF Calm
<1>1. call'[q].op = call[q].op
  BY StepFacts
<1>2. call'[q].pc # "failed" /\ ~Overlaps(q, Writers)'
  BY <1>1 DEF Calm
<1>3. call[q].pc # "failed"
  BY <1>2, StepFacts DEF Running, Ended
<1>4. Overlaps(q, Writers)' = Overlaps(q, Writers)
  BY OverlapsKept DEF IInv
<1>5. QED
  BY <1>2, <1>3, <1>4

\* A writer in a calm state works alone, and a deletion with other deletions at most.
LEMMA Alone ==
    ASSUME IInv, NEW c \in Calls, Running(c), Calm, NEW q \in Calls, q # c, Running(q)
    PROVE  /\ call[c].op \in Writers \cup {"deleteResource"} => call[q].op \notin Writers
           /\ call[c].op \in Writers => call[q].op # "deleteResource"
<1>1. c \in call[q].with /\ q \in call[c].with
  BY Meets
<1>2. ASSUME call[c].op \in Writers \cup {"deleteResource"}, call[q].op \in Writers PROVE FALSE
  <2>1. Overlaps(c, Writers)
    BY <1>1, <1>2 DEF Overlaps
  <2>2. QED
    BY <1>2, <2>1 DEF Calm
<1>3. ASSUME call[c].op \in Writers, call[q].op = "deleteResource" PROVE FALSE
  <2>1. Overlaps(q, Writers)
    BY <1>1, <1>3 DEF Overlaps
  <2>2. QED
    BY <1>3, <2>1 DEF Calm
<1>4. QED
  BY <1>2, <1>3

\* The calls the invariant speaks about are running writers and deletions.
LEMMA AtWork ==
    ASSUME TypeInv, NEW q \in Calls, call[q].pc \in {"update", "provider", "secrets", "delete"}
    PROVE  Running(q) /\ call[q].op \in Writers \cup {"deleteResource"}
           /\ (call[q].pc # "delete" => call[q].op \in Writers)
BY DEF TypeInv, Shape, Phase, Running, Ended, Sweeping, Writers

\* Whole depends on the row, its secrets and the flags of the calls that wrote them.
LEMMA WholeSame ==
    ASSUME IInv, NEW c \in Calls, Step(c), Whole, row \in Row, row' \in Row, row'.id = row.id,
           row'.engine = row.engine, secrets' = secrets,
           call[c].pc \in {"secrets", "ready"} => call'[c].live = call[c].live
    PROVE  Whole'
<1>1. PICK i, ks : i = row.id /\ ks = EnvKeys[row.engine]
  OBVIOUS
<1>2. PICK x \in {secrets[<<i, k>>] : k \in ks} \ {None} :
            /\ \A k \in ks : secrets[<<i, k>>] = x
            /\ x.live = (x.by # 0 /\ call[x.by].live)
  BY <1>1 DEF Whole
<1>3. PICK k \in ks : x = secrets[<<i, k>>]
  BY <1>2
<1>4. i \in Ids /\ k \in Keys
  BY <1>1, <1>3 DEF Row, Keys
<1>5. x \in Secret
  BY <1>2, <1>3, <1>4 DEF IInv, TypeInv, Tables
<1>6. x.by # 0 => call'[x.by].live = call[x.by].live
  <2> SUFFICES ASSUME x.by # 0 PROVE call'[x.by].live = call[x.by].live
    OBVIOUS
  <2>1. x.by \in Calls
    BY <1>5 DEF Secret
  <2>2. call[x.by].pc \in {"secrets", "ready"} \cup Ended
    BY <1>2, <1>3, <1>4 DEF IInv, ByInv
  <2>3. CASE x.by = c
    BY <2>2, <2>3, StepFacts DEF Running
  <2>4. CASE x.by # c
    BY <2>1, <2>4, StepFacts
  <2>5. QED
    BY <2>3, <2>4
<1>7. x.live = (x.by # 0 /\ call'[x.by].live)
  BY <1>2, <1>6
<1>8. x \in {secrets'[<<i, z>>] : z \in ks} \ {None} /\ \A z \in ks : secrets'[<<i, z>>] = x
  BY <1>2
<1>9. row'.id = i /\ EnvKeys[row'.engine] = ks
  BY <1>1
<1>10. QED
  BY <1>7, <1>8, <1>9 DEF Whole

\* A step that leaves the row and its secrets alone.
LEMMA WholeQuiet ==
    ASSUME IInv, TypeInv', NEW c \in Calls, Step(c), row' = row, secrets' = secrets,
           call[c].pc \in {"secrets", "ready"} => call'[c].live = call[c].live,
           Calm' /\ call'[c].pc = "secrets" /\ backend = "prisma" => Wrote(c)',
           Calm' /\ (call'[c].pc \in {"update", "provider"} \/ (call'[c].pc = "secrets" /\ backend = "memory")) =>
              /\ Live(call[c].id)
              /\ (call'[c].pc = "update" /\ call'[c].live) \/ row.engine = call'[c].engine,
           Calm' /\ Mid(c) /\ ~Mid(c)' /\ row # None => Whole'
    PROVE  WholeInv'
<1> SUFFICES ASSUME Calm' PROVE WholeInv'
  BY DEF WholeInv
<1>1. Calm /\ backend' = backend
  BY CalmKept DEF Step
<1>2. \A q \in Calls \ {c} : call'[q] = call[q]
  BY DEF Step
<1>3. ASSUME NEW q \in Calls, call'[q].pc = "secrets", backend = "prisma" PROVE Wrote(q)'
  <2>1. CASE q = c
    BY <1>3, <2>1
  <2>2. CASE q # c
    <3>1. Wrote(q)
      BY <1>1, <1>2, <1>3, <2>2 DEF IInv, WholeInv
    <3>2. QED
      BY <1>2, <2>2, <3>1 DEF Wrote, Live
  <2>3. QED
    BY <2>1, <2>2
<1>4. ASSUME NEW q \in Calls,
             call'[q].pc \in {"update", "provider"} \/ (call'[q].pc = "secrets" /\ backend = "memory")
      PROVE  (Live(call[q].id) /\ ((call[q].pc = "update" /\ call[q].live) \/ row.engine = call[q].engine))'
  <2>1. CASE q = c
    <3>1. Live(call[c].id) /\ ((call'[c].pc = "update" /\ call'[c].live) \/ row.engine = call'[c].engine)
      BY <1>4, <2>1
    <3>2. call[c].op # "createResource"
      <4>1. call'[c].op # "createResource"
        BY <1>1, <1>4, <2>1 DEF TypeInv, Shape, Phase
      <4>2. QED
        BY <4>1, StepFacts
    <3>3. call'[c].id = call[c].id
      BY <3>2, StepFacts
    <3>4. QED
      BY <2>1, <3>1, <3>3 DEF Live
  <2>2. CASE q # c
    BY <1>1, <1>2, <1>4, <2>2 DEF IInv, WholeInv, Live
  <2>3. QED
    BY <2>1, <2>2
<1>5. ASSUME row # None, \A q \in Calls : ~Mid(q)' PROVE Whole'
  <2>1. \A q \in Calls \ {c} : ~Mid(q)
    BY <1>1, <1>2, <1>5 DEF Mid
  <2>2. CASE Mid(c)
    BY <1>5, <2>2
  <2>3. CASE ~Mid(c)
    <3>1. Whole
      BY <1>1, <1>5, <2>1, <2>3 DEF IInv, WholeInv
    <3>2. row \in Row
      BY <1>5 DEF IInv, TypeInv, Tables
    <3>3. QED
      BY <3>1, <3>2, WholeSame
  <2>4. QED
    BY <2>2, <2>3
<1>6. QED
  BY <1>1, <1>3, <1>4, <1>5 DEF WholeInv

\* A step of a writer or of a deletion: nobody else is at work on the row.
LEMMA WholeOwn ==
    ASSUME IInv, NEW c \in Calls, Step(c), call[c].op \in Writers \cup {"deleteResource"},
           ASSUME Calm' PROVE
              /\ call'[c].pc = "secrets" /\ backend = "prisma" => Wrote(c)'
              /\ call'[c].pc \notin {"update", "provider"}
              /\ ~(call'[c].pc = "secrets" /\ backend = "memory")
              /\ row' # None /\ ~Mid(c)' /\ (Deletes(c) => \A q \in Calls : ~Mid(q)') => Whole'
    PROVE  WholeInv'
<1> SUFFICES ASSUME Calm' PROVE WholeInv'
  BY DEF WholeInv
<1>1. Calm /\ backend' = backend /\ Running(c)
  BY CalmKept DEF Step
<1>2. \A q \in Calls \ {c} : call'[q] = call[q]
  BY DEF Step
<1>3. \A q \in Calls \ {c} : call'[q].pc \notin {"update", "provider", "secrets"}
  <2> SUFFICES ASSUME NEW q \in Calls \ {c}, call[q].pc \in {"update", "provider", "secrets"} PROVE FALSE
    BY <1>2
  <2>1. Running(q) /\ call[q].op \in Writers
    BY AtWork DEF IInv
  <2>2. QED
    BY <1>1, <2>1, Alone
<1>4. ASSUME row' # None, \A q \in Calls : ~Mid(q)' PROVE Whole'
  BY <1>4
<1>5. QED
  BY <1>1, <1>3, <1>4 DEF WholeInv

--------------------------------------------------------------------------------
(***************************************************************************)
(* Steps that change nothing but the call                                  *)
(***************************************************************************)
LEMMA TablesSame ==
    ASSUME Tables, backend' = backend, UNCHANGED data, faults' \in 0..MaxFaults PROVE Tables'
BY DEF Tables, data

LEMMA QuietStep ==
    ASSUME IInv, NEW c \in Calls, Step(c), UNCHANGED data, faults' \in 0..MaxFaults,
           call'[c].id = call[c].id, Shape(c)',
           call'[c].pc \in {"removeSecret", "removeVariable"} =>
              \/ call[c].pc \in {"removeSecret", "removeVariable"} /\ call'[c].at = call[c].at
              \/ env[call'[c].at] # None => env[call'[c].at].source # User,
           call'[c].pc = "update" => call'[c].status = row.status,
           call[c].pc = "removeVariable" => call'[c].pc = "failed" /\ call'[c].at = call[c].at,
           call'[c].pc \notin {"row", "vault", "delete"}, ~Deleted(c)',
           Past(c)' => Past(c) \/ Live(call[c].id),
           call[c].pc \in {"secrets", "ready"} =>
              call'[c].pc \in {"secrets", "ready"} \cup Ended /\ call'[c].live = call[c].live,
           call'[c].pc \in Sweeping =>
              \A s \in Services, v \in Vars : env[<<s, v>>] # None /\ env[<<s, v>>].source = call[c].id =>
                 Lost(s, v, call[c].id) \/ <<s, v>> \in call'[c].todo,
           Calm' /\ call'[c].pc = "secrets" /\ backend = "prisma" => Wrote(c)',
           Calm' /\ (call'[c].pc \in {"update", "provider"} \/ (call'[c].pc = "secrets" /\ backend = "memory")) =>
              /\ Live(call[c].id)
              /\ (call'[c].pc = "update" /\ call'[c].live) \/ row.engine = call'[c].engine,
           Calm' /\ Mid(c) /\ ~Mid(c)' /\ row # None => Whole'
    PROVE  IInv'
<1>1. /\ row' = row /\ used' = used /\ here' = here /\ secrets' = secrets /\ attached' = attached
      /\ env' = env /\ vault' = vault /\ loose' = loose
  BY DEF data
<1>2. used \in Nat /\ call[c].id \in Ids /\ call[c].id <= used
  BY RunningFacts, ResourcesAssumption DEF IInv, TypeInv, Tables, Step
<1>3. TypeInv'
  <2>1. Tables'
    BY TablesSame DEF IInv, TypeInv, Step
  <2>2. used <= used'
    BY <1>1, <1>2
  <2>3. QED
    BY <1>1, <1>2, <2>1, <2>2, TypeKept DEF IInv
<1>4. WithInv'
  BY WithKept DEF IInv
<1>5. UserInv'
  BY <1>1, UserKept
<1>6. StaleInv'
  BY <1>1, StaleKept
<1>7. RefInv'
  BY <1>1, RefKept
<1>8. HandInv'
  BY <1>1, HandKept
<1>9. GoneInv'
  BY <1>1, GoneKept DEF Live
<1>10. SecretInv'
  BY <1>1, <1>3, SecretKept
<1>11. EnvInv'
  <2>1. \A s, v, i : Listed(s, v, i)' <=> Listed(s, v, i)
    BY <1>1 DEF Listed
  <2>2. QED
    BY <1>1, <1>3, <2>1, EnvKept
<1>12. SweepInv'
  BY <1>1, <1>3, SweepKept
<1>13. ByInv'
  BY <1>1, ByKept
<1>14. WholeInv'
  BY <1>1, <1>3, WholeQuiet
<1>15. QED
  BY <1>3, <1>4, <1>5, <1>6, <1>7, <1>8, <1>9, <1>10, <1>11, <1>12, <1>13, <1>14 DEF IInv

\* A call ends without effect: it dies, finds nothing, or is refused by the database.
LEMMA EndsStep ==
    ASSUME IInv, NEW c \in Calls, Running(c), NEW p \in {"missing", "failed"}, Goto(c, p),
           backend' = backend, UNCHANGED data, faults' \in 0..MaxFaults,
           p = "missing" => call[c].pc # "removeVariable" /\ ~Mid(c)
    PROVE  IInv'
<1>1. p \in Pcs \ {"new"} /\ p \in Ended
  BY DEF Pcs, Ended
<1>2. /\ Step(c) /\ call'[c].pc = p /\ call'[c].id = call[c].id /\ call'[c].live = call[c].live
      /\ call'[c].at = call[c].at
  BY <1>1, GotoStep DEF IInv
<1>3. Shape(c)'
  BY <1>2 DEF Shape, Phase, Sweeping
<1>4. ~Deleted(c)' /\ ~Past(c)'
  BY <1>1, <1>2 DEF Deleted, Past, Running
<1>5. ASSUME Mid(c), Calm' PROVE FALSE
  <2>1. p = "failed"
    BY <1>5
  <2>2. call[c].op \in Writers \cup {"deleteResource"}
    BY <1>5, AtWork DEF Mid, IInv
  <2>3. call'[c].op = call[c].op
    BY <1>2, StepFacts
  <2>4. QED
    BY <1>2, <1>5, <2>1, <2>2, <2>3 DEF Calm
<1>6. p \notin {"removeSecret", "removeVariable", "update", "row", "vault", "delete", "secrets", "provider"} \cup Sweeping
  BY DEF Sweeping
<1>7. QED
  BY <1>1, <1>2, <1>3, <1>4, <1>5, <1>6, QuietStep

\* A connection that one call wrote whole.
LEMMA WrittenWhole ==
    ASSUME NEW c \in Calls, NEW l \in BOOLEAN, l = call'[c].live, row' \in Row, NEW i, i = row'.id,
           NEW e, e = row'.engine, \A k \in EnvKeys[e] : secrets'[<<i, k>>] = [by |-> c, live |-> l]
    PROVE  Whole'
<1>1. PICK ks : ks = EnvKeys[e]
  OBVIOUS
<1>2. PICK x : x = [by |-> c, live |-> l]
  OBVIOUS
<1>3. c \in Nat /\ c # 0
  BY ResourcesAssumption
<1>4. x # None
  <2>1. x \in [by : Nat, live : BOOLEAN]
    BY <1>2, <1>3
  <2>2. QED
    BY <2>1, NoneAssumption
<1>5. \A k \in ks : secrets'[<<i, k>>] = x
  BY <1>1, <1>2
<1>6. PICK k \in ks : TRUE
  <2>1. e \in Engines
    BY DEF Row
  <2>2. QED
    BY <1>1, <2>1, ResourcesAssumption
<1>7. x \in {secrets'[<<i, z>>] : z \in ks} \ {None}
  BY <1>4, <1>5, <1>6
<1>8. x.by = c /\ x.live = l
  BY <1>2
<1>9. x.live = (x.by # 0 /\ call'[x.by].live)
  BY <1>3, <1>8
<1>10. QED
  BY <1>1, <1>5, <1>7, <1>9 DEF Whole

LEMMA WroteWhole ==
    ASSUME NEW c \in Calls, TypeInv', Wrote(c)', call'[c].todo = {} PROVE Whole'
<1>1. PICK i, e : i = row'.id /\ e = row'.engine
  OBVIOUS
<1>2. row' \in Row
  BY DEF Wrote, Live, TypeInv, Tables
<1>3. PICK l \in BOOLEAN : l = call'[c].live
  BY DEF TypeInv, Call
<1>4. \A k \in EnvKeys[e] : secrets'[<<i, k>>] = [by |-> c, live |-> l]
  BY <1>1, <1>3 DEF Wrote
<1>5. QED
  BY <1>1, <1>2, <1>3, <1>4, WrittenWhole

LEMMA GetStep == ASSUME IInv, NEW c \in Calls, get(c) PROVE IInv'
<1>1. /\ backend = "prisma" /\ backend' = backend /\ call[c].pc = "get" /\ UNCHANGED data
      /\ faults' = faults /\ faults' \in 0..MaxFaults
  BY DEF get, At, IInv, TypeInv, Tables
<1>2. Running(c) /\ call \in [Calls -> Call] /\ call[c] \in Call
  BY <1>1 DEF Running, Ended, IInv, TypeInv
<1>3. CASE ~(Live(call[c].id) /\ (call[c].op = "attachResource" => call[c].svc \in here))
  <2>1. Goto(c, "missing")
    BY <1>3 DEF get, Goto
  <2>2. call[c].pc # "removeVariable" /\ ~Mid(c)
    BY <1>1 DEF Mid
  <2>3. QED
    BY <1>1, <1>2, <2>1, <2>2, EndsStep
<1>4. CASE Live(call[c].id) /\ (call[c].op = "attachResource" => call[c].svc \in here)
  <2>1. call[c].op \in {"updateResource", "deleteResource", "provision", "attachResource"}
    BY <1>1 DEF IInv, TypeInv, Shape, Phase
  <2>2. row \in Row /\ row # None
    BY <1>4 DEF Live, IInv, TypeInv, Tables
  <2>3. PICK st \in {"provisioning", "ready"} : st = row.status
    BY <2>2 DEF Row
  <2>4. PICK l \in BOOLEAN : l = (call[c].op = "updateResource" /\ call[c].engine # None)
    OBVIOUS
  <2>5. PICK e \in Engines :
           e = IF call[c].engine = None \/ call[c].op # "updateResource" THEN row.engine ELSE call[c].engine
    BY <1>2, <2>2 DEF Row, Call
  <2>6. PICK p \in {"update", "attachments", "provider", "read"} :
           p = CASE call[c].op = "updateResource" -> "update"
                 [] call[c].op = "deleteResource" -> "attachments"
                 [] call[c].op = "provision" -> "provider"
                 [] call[c].op = "attachResource" -> "read"
    BY <2>1
  <2>7. PICK x : x = [call[c] EXCEPT !.status = st, !.live = l, !.engine = e, !.pc = p]
    OBVIOUS
  <2>8. x = [pc |-> p, op |-> call[c].op, id |-> call[c].id, svc |-> call[c].svc, prefix |-> call[c].prefix,
             engine |-> e, status |-> st, live |-> l, todo |-> call[c].todo, at |-> call[c].at,
             ref |-> call[c].ref, with |-> call[c].with]
    BY <1>2, <2>7 DEF Call
  <2>9. x \in Call
    <3>1. p \in Pcs
      BY DEF Pcs
    <3>2. QED
      BY <1>2, <2>8, <3>1 DEF Call
  <2>10. /\ x.pc = p /\ x.op = call[c].op /\ x.id = call[c].id /\ x.svc = call[c].svc
         /\ x.prefix = call[c].prefix /\ x.with = call[c].with
    BY <2>8
  <2>11. x.engine = e /\ x.status = st /\ x.live = l
    BY <2>8
  <2>12. call' = [call EXCEPT ![c] = x]
    BY <1>2, <1>4, <2>3, <2>4, <2>5, <2>6, <2>7 DEF get
  <2>13. Step(c) /\ call'[c] = x
    BY <1>1, <1>2, <2>9, <2>10, <2>12, StepOf DEF IInv
  <2>14. /\ p = "update" <=> call[c].op = "updateResource"
         /\ p = "attachments" <=> call[c].op = "deleteResource"
         /\ p = "provider" <=> call[c].op = "provision"
         /\ p = "read" <=> call[c].op = "attachResource"
    BY <2>1, <2>6
  <2>15. Shape(c)'
    BY <1>1, <2>10, <2>11, <2>13, <2>14 DEF Shape, Phase, Sweeping
  <2>16. (p = "update" /\ l) \/ row.engine = e
    BY <2>4, <2>5, <2>14
  <2>17. ~Deleted(c)' /\ p \notin Sweeping /\ ~Mid(c)
    BY <1>1, <2>10, <2>13 DEF Deleted, Sweeping, Mid
  <2>18. p \notin {"row", "vault", "delete", "secrets", "removeSecret", "removeVariable"}
    OBVIOUS
  <2>19. QED
    BY <1>1, <1>4, <2>3, <2>10, <2>11, <2>13, <2>15, <2>16, <2>17, <2>18, QuietStep
<1>5. QED
  BY <1>3, <1>4

LEMMA ProviderStep ==
    ASSUME IInv, NEW c \in Calls, NEW live \in BOOLEAN, NEW ok \in BOOLEAN, provisionProvider(c, live, ok)
    PROVE  IInv'
<1>1. /\ backend' = backend /\ call[c].pc = "provider" /\ UNCHANGED data
      /\ faults' = faults /\ faults' \in 0..MaxFaults
  BY DEF provisionProvider, IInv, TypeInv, Tables
<1>2. Running(c) /\ call \in [Calls -> Call] /\ call[c] \in Call
  BY <1>1 DEF Running, Ended, IInv, TypeInv
<1>3. CASE ~ok
  <2>1. Goto(c, "failed")
    BY <1>3 DEF provisionProvider, Goto
  <2>2. QED
    BY <1>1, <1>2, <2>1, EndsStep
<1>4. CASE ok
  <2>1. call[c].op = "provision" /\ call[c].engine \in Engines
    BY <1>1 DEF IInv, TypeInv, Shape, Phase
  <2>2. PICK ks : ks = EnvKeys[call[c].engine]
    OBVIOUS
  <2>3. ks \subseteq Keys
    BY <2>1, <2>2 DEF Keys
  <2>4. PICK x : x = [call[c] EXCEPT !.pc = "secrets", !.live = live, !.todo = ks]
    OBVIOUS
  <2>5. x = [pc |-> "secrets", op |-> call[c].op, id |-> call[c].id, svc |-> call[c].svc,
             prefix |-> call[c].prefix, engine |-> call[c].engine, status |-> call[c].status, live |-> live,
             todo |-> ks, at |-> call[c].at, ref |-> call[c].ref, with |-> call[c].with]
    BY <1>2, <2>4 DEF Call
  <2>6. x \in Call
    <3>1. "secrets" \in Pcs
      BY DEF Pcs
    <3>2. QED
      BY <1>2, <2>3, <2>5, <3>1 DEF Call
  <2>7. /\ x.pc = "secrets" /\ x.op = call[c].op /\ x.id = call[c].id /\ x.svc = call[c].svc
        /\ x.prefix = call[c].prefix /\ x.with = call[c].with /\ x.engine = call[c].engine
        /\ x.live = live /\ x.todo = ks
    BY <2>5
  <2>8. call' = [call EXCEPT ![c] = x]
    BY <1>2, <1>4, <2>2, <2>4 DEF provisionProvider
  <2>9. Step(c) /\ call'[c] = x
    BY <1>1, <1>2, <2>6, <2>7, <2>8, StepOf DEF IInv
  <2>10. Shape(c)'
    BY <1>1, <2>1, <2>2, <2>7, <2>9 DEF Shape, Phase, Sweeping, Writers
  <2>11. ASSUME Calm' PROVE Live(call[c].id) /\ row.engine = call[c].engine
    BY <1>1, <2>9, <2>11, CalmKept DEF IInv, WholeInv
  <2>12. ASSUME Calm' PROVE Wrote(c)'
    <3>1. row' = row
      BY <1>1 DEF data
    <3>2. QED
      BY <2>2, <2>7, <2>9, <2>11, <2>12, <3>1 DEF Wrote, Live
  <2>13. ~Deleted(c)' /\ ~Mid(c) /\ (Past(c)' => Past(c))
    BY <1>1, <2>7, <2>9, <1>2 DEF Deleted, Mid, Past
  <2>14. QED
    BY <1>1, <2>7, <2>9, <2>10, <2>11, <2>12, <2>13, QuietStep DEF Sweeping
<1>5. QED
  BY <1>3, <1>4

LEMMA NameStep == ASSUME IInv, NEW c \in Calls, nameSecret(c) PROVE IInv'
<1>1. /\ backend = "prisma" /\ backend' = backend /\ call[c].pc = "secrets" /\ call[c].todo = {}
      /\ UNCHANGED data /\ faults' = faults /\ faults' \in 0..MaxFaults
  BY DEF nameSecret, At, IInv, TypeInv, Tables
<1>2. Running(c) /\ call[c].op \in Writers
  BY <1>1 DEF Running, Ended, IInv, TypeInv, Shape, Phase
<1>3. CASE ~Live(call[c].id)
  <2>1. Goto(c, "failed")
    BY <1>3 DEF nameSecret
  <2>2. QED
    BY <1>1, <1>2, <2>1, EndsStep
<1>4. CASE Live(call[c].id)
  <2>1. PICK p \in {"ready", "done"} : p = IF call[c].op = "provision" THEN "ready" ELSE "done"
    OBVIOUS
  <2>2. Goto(c, p)
    BY <1>4, <2>1 DEF nameSecret
  <2>3. p \in Pcs \ {"new"} /\ p \in {"ready"} \cup Ended
    BY DEF Pcs, Ended
  <2>4. /\ Step(c) /\ call'[c].pc = p /\ call'[c].id = call[c].id /\ call'[c].engine = call[c].engine
        /\ call'[c].live = call[c].live /\ call'[c].todo = call[c].todo
    BY <1>1, <1>2, <2>2, <2>3, GotoStep DEF IInv
  <2>5. Shape(c)'
    BY <1>1, <1>2, <2>1, <2>4, StepFacts DEF Shape, Phase, Sweeping, Writers
  <2>6. ~Deleted(c)' /\ (Past(c)' => Past(c))
    BY <1>1, <1>2, <2>4, StepFacts DEF Deleted, Deletes, Past, Writers
  <2>7. TypeInv'
    <3>1. Tables'
      BY <1>1, TablesSame DEF IInv, TypeInv
    <3>2. used' = used /\ used \in Nat
      BY <1>1, ResourcesAssumption DEF data, IInv, TypeInv, Tables
    <3>3. call[c].id \in Ids /\ call[c].id <= used /\ used <= used'
      BY <1>2, <3>2, RunningFacts DEF IInv
    <3>4. QED
      BY <2>4, <2>5, <3>1, <3>2, <3>3, TypeKept DEF IInv
  <2>8. ASSUME Calm' PROVE Whole'
    <3>1. Wrote(c)
      BY <1>1, <2>4, <2>8, CalmKept DEF IInv, WholeInv
    <3>2. row' = row /\ secrets' = secrets
      BY <1>1 DEF data
    <3>3. Wrote(c)'
      BY <2>4, <3>1, <3>2 DEF Wrote, Live
    <3>4. QED
      BY <1>1, <2>4, <2>7, <3>3, WroteWhole
  <2>9. p \notin {"removeSecret", "removeVariable", "update", "row", "vault", "delete", "secrets", "provider"} \cup Sweeping
    BY DEF Sweeping
  <2>10. QED
    BY <1>1, <2>3, <2>4, <2>5, <2>6, <2>8, <2>9, QuietStep
<1>5. QED
  BY <1>3, <1>4

LEMMA ReadStep == ASSUME IInv, NEW c \in Calls, readConnection(c) PROVE IInv'
<1>1. /\ backend = "prisma" /\ backend' = backend /\ call[c].pc = "read" /\ UNCHANGED data
      /\ faults' = faults /\ faults' \in 0..MaxFaults
  BY DEF readConnection, At, IInv, TypeInv, Tables
<1>2. Running(c) /\ call \in [Calls -> Call] /\ call[c] \in Call
  BY <1>1 DEF Running, Ended, IInv, TypeInv
<1>3. call[c].op = "attachResource" /\ call[c].engine \in Engines
  BY <1>1 DEF IInv, TypeInv, Shape, Phase
<1>4. PICK stored : stored = {k \in Keys : secrets[<<call[c].id, k>>] # None}
  OBVIOUS
<1>5. PICK keys : keys = IF stored # {} THEN stored ELSE EnvKeys[call[c].engine]
  OBVIOUS
<1>6. keys \subseteq Keys
  BY <1>3, <1>4, <1>5 DEF Keys
<1>7. PICK t : t = {<<call[c].prefix, k>> : k \in keys}
  OBVIOUS
<1>8. t \subseteq Vars
  <2>1. call[c].prefix \in Prefixes
    BY <1>2, RunningFacts DEF IInv
  <2>2. QED
    BY <1>6, <1>7, <2>1 DEF Vars
<1>9. PICK x : x = [call[c] EXCEPT !.pc = "attach", !.todo = t]
  OBVIOUS
<1>10. x = [pc |-> "attach", op |-> call[c].op, id |-> call[c].id, svc |-> call[c].svc,
            prefix |-> call[c].prefix, engine |-> call[c].engine, status |-> call[c].status,
            live |-> call[c].live, todo |-> t, at |-> call[c].at, ref |-> call[c].ref, with |-> call[c].with]
  BY <1>2, <1>9 DEF Call
<1>11. x \in Call
  <2>1. "attach" \in Pcs
    BY DEF Pcs
  <2>2. QED
    BY <1>2, <1>8, <1>10, <2>1 DEF Call
<1>12. /\ x.pc = "attach" /\ x.op = call[c].op /\ x.id = call[c].id /\ x.svc = call[c].svc
       /\ x.prefix = call[c].prefix /\ x.with = call[c].with /\ x.todo = t
  BY <1>10
<1>13. call' = [call EXCEPT ![c] = x]
  BY <1>2, <1>4, <1>5, <1>7, <1>9 DEF readConnection
<1>14. Step(c) /\ call'[c] = x
  BY <1>1, <1>2, <1>11, <1>12, <1>13, StepOf DEF IInv
<1>15. Shape(c)'
  BY <1>1, <1>3, <1>8, <1>12, <1>14 DEF Shape, Phase, Sweeping
<1>16. ~Deleted(c)' /\ ~Mid(c) /\ (Past(c)' => Past(c))
  BY <1>1, <1>2, <1>12, <1>14 DEF Deleted, Mid, Past
<1>17. QED
  BY <1>1, <1>12, <1>14, <1>15, <1>16, QuietStep DEF Sweeping

\* A deletion looks at the next variable of its list.
LEMMA FindStep ==
    ASSUME IInv, NEW c \in Calls, NEW x \in Slots, findInjected(c, x) PROVE IInv'
<1>1. /\ backend = "prisma" /\ backend' = backend /\ call[c].pc = "remove" /\ x \in call[c].todo
      /\ UNCHANGED data /\ faults' = faults /\ faults' \in 0..MaxFaults
  BY DEF findInjected, At, IInv, TypeInv, Tables
<1>2. Running(c) /\ call \in [Calls -> Call] /\ call[c] \in Call
  BY <1>1 DEF Running, Ended, IInv, TypeInv
<1>3. call[c].op = "deleteResource" /\ call[c].todo \subseteq Slots /\ call[c].id \in Ids
  BY <1>1, <1>2, RunningFacts DEF IInv, TypeInv, Shape, Phase, Sweeping
<1>4. \A s \in Services, v \in Vars : env[<<s, v>>] # None /\ env[<<s, v>>].source = call[c].id =>
         Lost(s, v, call[c].id) \/ <<s, v>> \in call[c].todo
  BY <1>1 DEF IInv, SweepInv, Sweeping
<1>5. call[c].id # User
  BY <1>3, ResourcesAssumption, NoneAssumption
<1>6. CASE env[x] # None /\ env[x].source = call[c].id
  <2>1. env[x].ref \in Calls \cup {0, None}
    BY <1>6 DEF IInv, TypeInv, Tables, Variable
  <2>2. PICK y : y = [call[c] EXCEPT !.pc = "removeSecret", !.at = x, !.ref = env[x].ref]
    OBVIOUS
  <2>3. y = [pc |-> "removeSecret", op |-> call[c].op, id |-> call[c].id, svc |-> call[c].svc,
             prefix |-> call[c].prefix, engine |-> call[c].engine, status |-> call[c].status,
             live |-> call[c].live, todo |-> call[c].todo, at |-> x, ref |-> env[x].ref,
             with |-> call[c].with]
    BY <1>2, <2>2 DEF Call
  <2>4. y \in Call
    <3>1. "removeSecret" \in Pcs
      BY DEF Pcs, Sweeping
    <3>2. QED
      BY <1>2, <2>1, <2>3, <3>1 DEF Call
  <2>5. /\ y.pc = "removeSecret" /\ y.op = call[c].op /\ y.id = call[c].id /\ y.svc = call[c].svc
        /\ y.prefix = call[c].prefix /\ y.with = call[c].with /\ y.todo = call[c].todo /\ y.at = x
    BY <2>3
  <2>6. call' = [call EXCEPT ![c] = y]
    BY <1>2, <1>6, <2>2 DEF findInjected
  <2>7. Step(c) /\ call'[c] = y
    BY <1>1, <1>2, <2>4, <2>5, <2>6, StepOf DEF IInv
  <2>8. Shape(c)'
    BY <1>1, <1>3, <2>5, <2>7 DEF Shape, Phase, Sweeping
  <2>9. ~Deleted(c)' /\ ~Mid(c) /\ ~Past(c)'
    BY <1>1, <1>3, <2>5, <2>7 DEF Deleted, Mid, Past, Writers
  <2>10. QED
    BY <1>1, <1>4, <1>5, <1>6, <2>5, <2>7, <2>8, <2>9, QuietStep
<1>7. CASE ~(env[x] # None /\ env[x].source = call[c].id)
  <2>1. PICK t : t = call[c].todo \ {x}
    OBVIOUS
  <2>2. PICK y : y = [call[c] EXCEPT !.todo = t]
    OBVIOUS
  <2>3. y \in Call /\ y.pc = "remove" /\ y.op = call[c].op /\ y.id = call[c].id
    BY <1>1, <1>2, <2>1, <2>2 DEF Call
  <2>4. y.svc = call[c].svc /\ y.prefix = call[c].prefix /\ y.with = call[c].with /\ y.todo = t
    BY <1>2, <2>2 DEF Call
  <2>5. call' = [call EXCEPT ![c] = y]
    BY <1>2, <1>7, <2>1, <2>2 DEF findInjected
  <2>6. Step(c) /\ call'[c] = y
    BY <1>1, <1>2, <2>3, <2>4, <2>5, StepOf DEF IInv
  <2>7. Shape(c)'
    BY <1>1, <1>3, <2>1, <2>3, <2>4, <2>6 DEF Shape, Phase, Sweeping
  <2>8. ~Deleted(c)' /\ ~Mid(c) /\ ~Past(c)'
    BY <1>1, <1>3, <2>3, <2>6 DEF Deleted, Mid, Past, Writers
  <2>9. \A s \in Services, v \in Vars : env[<<s, v>>] # None /\ env[<<s, v>>].source = call[c].id =>
          Lost(s, v, call[c].id) \/ <<s, v>> \in t
    BY <1>4, <1>7, <2>1
  <2>10. QED
    BY <1>1, <2>3, <2>4, <2>6, <2>7, <2>8, <2>9, QuietStep
<1>8. QED
  BY <1>6, <1>7

LEMMA FailStep == ASSUME IInv, NEW c \in Calls, fail(c) PROVE IInv'
<1>1. /\ backend' = backend /\ Running(c) /\ Goto(c, "failed") /\ UNCHANGED data
      /\ faults < MaxFaults /\ faults' = faults + 1
  BY DEF fail
<1>2. faults' \in 0..MaxFaults
  <2>1. faults \in 0..MaxFaults /\ MaxFaults \in Nat
    BY ResourcesAssumption DEF IInv, TypeInv, Tables
  <2>2. QED
    BY <1>1, <2>1
<1>3. QED
  BY <1>1, <1>2, EndsStep

--------------------------------------------------------------------------------
(***************************************************************************)
(* Steps on the row and its secrets                                        *)
(***************************************************************************)
\* The parts about services, their variables and attachments do not depend on these.
LEMMA RowStep ==
    ASSUME IInv, TypeInv', NEW c \in Calls, Step(c), UNCHANGED <<here, attached, env, vault, loose>>,
           call[c].pc # "removeVariable",
           call'[c].pc \notin {"update", "row", "vault", "removeSecret", "removeVariable"}, ~Deleted(c)',
           call'[c].pc \in Sweeping => call[c].pc \in Sweeping /\ call'[c].todo = call[c].todo,
           backend = "memory" /\ row' = None => row = None,
           row' # None /\ row'.status = "ready" =>
              (row # None /\ row.status = "ready") \/ call[c].op \in {"provision", "updateResource"},
           GoneInv', SecretInv', ByInv', WholeInv'
    PROVE  IInv'
<1>1. here' = here /\ attached' = attached /\ env' = env /\ vault' = vault /\ loose' = loose
  OBVIOUS
<1>2. WithInv'
  BY WithKept DEF IInv
<1>3. UserInv'
  BY <1>1, UserKept
<1>4. StaleInv'
  BY StaleKept
<1>5. RefInv'
  BY <1>1, RefKept
<1>6. HandInv'
  BY <1>1, HandKept
<1>7. EnvInv'
  <2>1. \A s, v, i : Listed(s, v, i)' <=> Listed(s, v, i)
    BY <1>1 DEF Listed
  <2>2. QED
    BY <1>1, <2>1, EnvKept
<1>8. SweepInv'
  <2>1. ASSUME call'[c].pc \in Sweeping \/ Deleted(c)'
        PROVE  \A s \in Services, v \in Vars : env[<<s, v>>] # None /\ env[<<s, v>>].source = call[c].id =>
                  Lost(s, v, call[c].id) \/ <<s, v>> \in call[c].todo
    BY <2>1 DEF IInv, SweepInv
  <2>2. QED
    BY <1>1, <2>1, SweepKept
<1>9. QED
  BY <1>2, <1>3, <1>4, <1>5, <1>6, <1>7, <1>8 DEF IInv

\* A row is not nothing.
LEMMA RowIsSome == ASSUME NEW r \in Row PROVE r # None
<1>1. r \in [id : Nat, engine : Engines, status : {"provisioning", "ready"}]
  BY ResourcesAssumption DEF Row
<1>2. QED
  BY <1>1, NoneAssumption

\* The connection is whole as long as nobody writes or removes it; c may do so in a moment.
LEMMA WholeBefore ==
    ASSUME IInv, NEW c \in Calls, Running(c), Calm, row # None, call[c].op \in Writers, ~Mid(c)
    PROVE  Whole
<1>1. ASSUME NEW q \in Calls, q # c, Mid(q) PROVE FALSE
  <2>1. Running(q) /\ call[q].op \in Writers \cup {"deleteResource"}
    BY <1>1, AtWork DEF IInv, Mid
  <2>2. QED
    BY <1>1, <2>1, Alone
<1>2. QED
  BY <1>1 DEF IInv, WholeInv

LEMMA CreateStep == ASSUME IInv, NEW c \in Calls, createResource(c) PROVE IInv'
<1> DEFINE id == IF row # None THEN row.id ELSE used + 1
<1>1. /\ backend = "prisma" /\ backend' = backend /\ call[c].pc = "create"
      /\ UNCHANGED <<here, secrets, attached, env, vault, loose, faults>>
  BY DEF createResource, At
<1>2. Running(c) /\ call \in [Calls -> Call] /\ call[c] \in Call /\ Tables
  BY <1>1 DEF Running, Ended, IInv, TypeInv
<1>3. call[c].op = "createResource" /\ call[c].engine \in Engines
  BY <1>1 DEF IInv, TypeInv, Shape, Phase
<1>4. PICK i \in Ids : i = id
  BY DEF createResource
<1>5. /\ used \in Nat /\ used \in Ids /\ i \in Nat
      /\ row # None => row \in Row /\ i = row.id /\ i <= used
      /\ row = None => i = used + 1
  BY <1>2, <1>4, ResourcesAssumption DEF Tables
<1>6. PICK e \in Engines : e = call[c].engine
  BY <1>3
<1>7. row' = [id |-> i, engine |-> e, status |-> "provisioning"] /\ used' = IF i > used THEN i ELSE used
  BY <1>4, <1>6 DEF createResource
<1>8. row' \in Row /\ row'.id = i /\ row'.engine = e /\ row'.status = "provisioning" /\ row' # None
  <2>1. row' \in Row /\ row'.id = i /\ row'.engine = e /\ row'.status = "provisioning"
    BY <1>7 DEF Row
  <2>2. QED
    BY <2>1, RowIsSome
<1>9. used' \in Ids /\ used' \in Nat /\ i <= used' /\ used <= used' /\ (row = None => used' = i)
      /\ (row # None => used' = used)
  BY <1>5, <1>7
<1>10. PICK ks : ks = EnvKeys[e]
  OBVIOUS
<1>11. PICK x : x = [call[c] EXCEPT !.pc = "secrets", !.id = i, !.todo = ks]
  OBVIOUS
<1>12. x = [pc |-> "secrets", op |-> call[c].op, id |-> i, svc |-> call[c].svc,
            prefix |-> call[c].prefix, engine |-> call[c].engine, status |-> call[c].status,
            live |-> call[c].live, todo |-> ks, at |-> call[c].at, ref |-> call[c].ref, with |-> call[c].with]
  BY <1>2, <1>11 DEF Call
<1>13. x \in Call
  <2>1. "secrets" \in Pcs /\ ks \subseteq Keys
    BY <1>10 DEF Pcs, Keys
  <2>2. QED
    BY <1>2, <1>12, <2>1 DEF Call
<1>14. /\ x.pc = "secrets" /\ x.op = call[c].op /\ x.id = i /\ x.svc = call[c].svc
       /\ x.prefix = call[c].prefix /\ x.with = call[c].with /\ x.engine = e /\ x.todo = ks
  BY <1>6, <1>12
<1>15. call' = [call EXCEPT ![c] = x]
  BY <1>2, <1>4, <1>6, <1>10, <1>11 DEF createResource
<1>16. Step(c) /\ call'[c] = x
  BY <1>1, <1>2, <1>3, <1>13, <1>14, <1>15, StepOf DEF IInv
<1>17. TypeInv'
  <2>1. Shape(c)'
    BY <1>1, <1>3, <1>10, <1>14, <1>16 DEF Shape, Phase, Sweeping, Writers
  <2>2. Tables'
    BY <1>1, <1>2, <1>8, <1>9 DEF Tables
  <2>3. QED
    BY <1>9, <1>14, <1>16, <2>1, <2>2, TypeKept DEF IInv
<1>18. GoneInv'
  <2>1. \A j : Live(j)' <=> j = i
    BY <1>8 DEF Live
  <2>2. \A d \in Calls : Deleted(d)' => d # c /\ Deleted(d) /\ call'[d] = call[d]
    BY <1>1, <1>14, <1>16, StepFacts DEF Deleted, Deletes
  <2>3. \A d \in Calls : Deleted(d) => Deleted(d)' /\ call'[d] = call[d]
    BY <1>1, <1>16, StepFacts DEF Deleted, Deletes, Running, Ended
  <2>4. ASSUME NEW j \in 1..used' PROVE Live(j)' \/ \E d \in Calls : Deleted(d)' /\ call'[d].id = j
    <3>1. CASE j = i
      BY <2>1, <3>1
    <3>2. CASE j # i
      <4>1. j \in 1..used
        BY <1>5, <1>9, <3>2
      <4>2. ~Live(j)
        BY <1>5, <3>2 DEF Live
      <4>3. PICK d \in Calls : Deleted(d) /\ call[d].id = j
        BY <1>1, <4>1, <4>2 DEF IInv, GoneInv
      <4>4. QED
        BY <2>3, <4>3
    <3>3. QED
      BY <3>1, <3>2
  <2>5. ASSUME NEW d \in Calls, Deleted(d)'
        PROVE  (~Live(call[d].id) /\ \A q \in Calls : Past(q) /\ call[q].id = call[d].id => q \in call[d].with)'
    <3>1. d # c /\ Deleted(d) /\ call'[d] = call[d]
      BY <2>2, <2>5
    <3>2. PICK j : j = call[d].id
      OBVIOUS
    <3>3. ~Live(j) /\ \A q \in Calls : Past(q) /\ call[q].id = j => q \in call[d].with
      BY <3>1, <3>2 DEF IInv, GoneInv
    <3>4. j \in Ids /\ j <= used /\ j \in Nat
      BY <3>1, <3>2, ResourcesAssumption DEF IInv, TypeInv, Begun, Deleted
    <3>5. j # i
      <4>1. CASE row = None
        BY <1>5, <3>4, <4>1
      <4>2. CASE row # None
        BY <1>5, <3>3, <4>2 DEF Live
      <4>3. QED
        BY <4>1, <4>2
    <3>6. ~Live(j)'
      BY <2>1, <3>5
    <3>7. ASSUME NEW q \in Calls, Past(q)', call'[q].id = j PROVE q \in call[d].with
      <4>1. q # c
        BY <1>14, <1>16, <3>5, <3>7
      <4>2. QED
        BY <1>16, <3>3, <3>7, <4>1, StepFacts DEF Past, Running
    <3>8. QED
      BY <3>1, <3>2, <3>6, <3>7
  <2>6. QED
    BY <1>1, <2>4, <2>5 DEF GoneInv
<1>19. ~Deleted(c)' /\ call'[c].pc \notin Sweeping
  BY <1>14, <1>16 DEF Deleted, Sweeping
<1>20. SecretInv'
  BY <1>1, <1>8, <1>14, <1>16, <1>17, <1>19, SecretKept
<1>21. ByInv'
  BY <1>1, <1>14, <1>16, ByKept
<1>22. WholeInv'
  <2>1. Wrote(c)'
    BY <1>8, <1>10, <1>14, <1>16 DEF Wrote, Live
  <2>2. Mid(c)' /\ call[c].op \in Writers
    BY <1>1, <1>3, <1>14, <1>16 DEF Mid, Writers
  <2>3. QED
    BY <1>1, <1>14, <1>16, <2>1, <2>2, WholeOwn
<1>23. QED
  BY <1>1, <1>8, <1>14, <1>16, <1>17, <1>18, <1>19, <1>20, <1>21, <1>22, RowStep

LEMMA UpdateStep == ASSUME IInv, NEW c \in Calls, updateResource(c) PROVE IInv'
<1>1. /\ backend = "prisma" /\ backend' = backend /\ call[c].pc = "update"
      /\ UNCHANGED <<used, here, secrets, attached, env, vault, loose, faults>>
  BY DEF updateResource, At
<1>2. Running(c) /\ call \in [Calls -> Call] /\ call[c] \in Call /\ Tables
  BY <1>1 DEF Running, Ended, IInv, TypeInv
<1>3. CASE ~Live(call[c].id)
  <2>1. Goto(c, "failed") /\ UNCHANGED data
    BY <1>1, <1>3 DEF updateResource, data
  <2>2. faults' \in 0..MaxFaults
    BY <1>1, <1>2 DEF Tables
  <2>3. QED
    BY <1>1, <1>2, <2>1, <2>2, EndsStep
<1>4. CASE Live(call[c].id)
  <2>1. call[c].op = "updateResource"
    BY <1>1 DEF IInv, TypeInv, Shape, Phase
  <2>2. PICK e \in Engines : e = call[c].engine
    BY <1>1 DEF IInv, TypeInv, Shape, Phase
  <2>3. PICK st \in {"provisioning", "ready"} : st = call[c].status
    BY <1>1 DEF IInv, TypeInv, Shape, Phase
  <2>4. row \in Row /\ row # None
    BY <1>2, <1>4 DEF Tables, Live
  <2>5. row' = [row EXCEPT !.engine = e, !.status = st]
    BY <1>4, <2>2, <2>3 DEF updateResource
  <2>6. row' \in Row /\ row'.id = row.id /\ row'.engine = e /\ row'.status = st /\ row' # None
    <3>1. row' \in Row /\ row'.id = row.id /\ row'.engine = e /\ row'.status = st
      BY <2>4, <2>5 DEF Row
    <3>2. QED
      BY <3>1, RowIsSome
  <2>7. PICK p \in {"secrets", "done"} : p = IF call[c].live THEN "secrets" ELSE "done"
    OBVIOUS
  <2>8. PICK ks : ks = EnvKeys[e]
    OBVIOUS
  <2>9. PICK no \in BOOLEAN : no = FALSE
    OBVIOUS
  <2>10. PICK x : x = [call[c] EXCEPT !.pc = p, !.live = no, !.todo = ks]
    OBVIOUS
  <2>11. x = [pc |-> p, op |-> call[c].op, id |-> call[c].id, svc |-> call[c].svc,
              prefix |-> call[c].prefix, engine |-> call[c].engine, status |-> call[c].status,
              live |-> no, todo |-> ks, at |-> call[c].at, ref |-> call[c].ref, with |-> call[c].with]
    BY <1>2, <2>10 DEF Call
  <2>12. x \in Call
    <3>1. p \in Pcs /\ ks \subseteq Keys
      BY <2>8 DEF Pcs, Keys, Ended
    <3>2. QED
      BY <1>2, <2>11, <3>1 DEF Call
  <2>13. /\ x.pc = p /\ x.op = call[c].op /\ x.id = call[c].id /\ x.svc = call[c].svc
         /\ x.prefix = call[c].prefix /\ x.with = call[c].with /\ x.engine = e /\ x.todo = ks /\ x.live = no
    BY <2>2, <2>11
  <2>14. call' = [call EXCEPT ![c] = x]
    BY <1>2, <1>4, <2>2, <2>7, <2>8, <2>9, <2>10 DEF updateResource
  <2>15. Step(c) /\ call'[c] = x
    BY <1>1, <1>2, <2>12, <2>13, <2>14, StepOf DEF IInv
  <2>16. TypeInv'
    <3>1. Shape(c)'
      BY <1>1, <2>1, <2>8, <2>13, <2>15 DEF Shape, Phase, Sweeping, Writers
    <3>2. Tables'
      BY <1>1, <1>2, <2>4, <2>6 DEF Tables
    <3>3. QED
      BY <1>1, <2>13, <2>15, <3>1, <3>2, TypeSame DEF IInv
  <2>17. ~Deleted(c)' /\ call'[c].pc \notin Sweeping /\ (Past(c)' => Past(c))
    BY <1>1, <1>2, <2>1, <2>13, <2>15 DEF Deleted, Deletes, Sweeping, Past
  <2>18. GoneInv'
    <3>1. \A i \in Ids : Live(i)' <=> Live(i)
      BY <2>4, <2>6 DEF Live
    <3>2. QED
      BY <1>1, <2>13, <2>15, <2>17, <3>1, GoneKept
  <2>19. SecretInv'
    BY <1>1, <2>6, <2>13, <2>15, <2>16, <2>17, SecretKept
  <2>20. ByInv'
    BY <1>1, <2>13, <2>15, ByKept
  <2>21. WholeInv'
    <3>1. call[c].op \in Writers
      BY <2>1 DEF Writers
    <3>2. CASE p = "secrets"
      <4>1. Wrote(c)'
        BY <1>4, <2>6, <2>8, <2>13, <2>15 DEF Wrote, Live
      <4>2. Mid(c)'
        BY <1>1, <2>13, <2>15, <3>2 DEF Mid
      <4>3. QED
        BY <1>1, <2>13, <2>15, <3>1, <3>2, <4>1, <4>2, WholeOwn
    <3>3. CASE p = "done"
      <4>1. ASSUME Calm' PROVE Whole'
        <5>1. Calm
          BY <2>15, <4>1, CalmKept
        <5>2. row.engine = e
          BY <1>1, <2>2, <2>7, <3>3, <5>1 DEF IInv, WholeInv
        <5>3. ~Mid(c)
          BY <1>1 DEF Mid
        <5>4. Whole
          BY <1>2, <2>4, <3>1, <5>1, <5>3, WholeBefore
        <5>5. QED
          BY <1>1, <2>4, <2>6, <2>15, <5>2, <5>4, WholeSame
      <4>2. QED
        BY <1>1, <2>13, <2>15, <3>1, <3>3, <4>1, WholeOwn
    <3>4. QED
      BY <3>2, <3>3
  <2>22. QED
    BY <1>1, <2>1, <2>6, <2>13, <2>15, <2>16, <2>17, <2>18, <2>19, <2>20, <2>21, RowStep
<1>5. QED
  BY <1>3, <1>4

LEMMA ReadyStep == ASSUME IInv, NEW c \in Calls, markReady(c) PROVE IInv'
<1>1. /\ backend = "prisma" /\ backend' = backend /\ call[c].pc = "ready"
      /\ UNCHANGED <<used, here, secrets, attached, env, vault, loose, faults>>
  BY DEF markReady, At
<1>2. Running(c) /\ Tables /\ call[c].op = "provision"
  BY <1>1 DEF Running, Ended, IInv, TypeInv, Shape, Phase
<1>3. CASE ~Live(call[c].id)
  <2>1. Goto(c, "failed") /\ UNCHANGED data
    BY <1>1, <1>3 DEF markReady, data
  <2>2. faults' \in 0..MaxFaults
    BY <1>1, <1>2 DEF Tables
  <2>3. QED
    BY <1>1, <1>2, <2>1, <2>2, EndsStep
<1>4. CASE Live(call[c].id)
  <2>1. row \in Row /\ row # None
    BY <1>2, <1>4 DEF Tables, Live
  <2>2. row' = [row EXCEPT !.status = "ready"] /\ Goto(c, "done")
    BY <1>4 DEF markReady
  <2>3. row' \in Row /\ row'.id = row.id /\ row'.engine = row.engine /\ row' # None
    <3>1. row' \in Row /\ row'.id = row.id /\ row'.engine = row.engine
      BY <2>1, <2>2 DEF Row
    <3>2. QED
      BY <3>1, RowIsSome
  <2>4. Step(c) /\ call'[c].pc = "done" /\ call'[c].id = call[c].id /\ call'[c].live = call[c].live
    <3>1. "done" \in Pcs \ {"new"}
      BY DEF Pcs, Ended
    <3>2. QED
      BY <1>1, <1>2, <2>2, <3>1, GotoStep DEF IInv
  <2>5. call'[c].op = "provision"
    BY <1>2, <2>4, StepFacts
  <2>6. TypeInv'
    <3>1. Shape(c)'
      BY <1>1, <2>4, <2>5 DEF Shape, Phase, Sweeping
    <3>2. Tables'
      BY <1>1, <1>2, <2>1, <2>3 DEF Tables
    <3>3. QED
      BY <1>1, <2>4, <3>1, <3>2, TypeSame DEF IInv
  <2>7. ~Deleted(c)' /\ call'[c].pc \notin Sweeping /\ ~Past(c)'
    BY <2>4, <2>5 DEF Deleted, Deletes, Sweeping, Past, Running, Ended
  <2>8. GoneInv'
    <3>1. \A i \in Ids : Live(i)' <=> Live(i)
      BY <2>1, <2>3 DEF Live
    <3>2. QED
      BY <1>1, <2>4, <2>7, <3>1, GoneKept
  <2>9. SecretInv'
    BY <1>1, <2>3, <2>4, <2>6, <2>7, SecretKept
  <2>10. ByInv'
    BY <1>1, <2>4, ByKept DEF Ended
  <2>11. WholeInv'
    <3>1. call[c].op \in Writers /\ ~Mid(c)
      BY <1>1, <1>2 DEF Writers, Mid
    <3>2. ASSUME Calm' PROVE Whole'
      <4>1. Whole
        BY <1>2, <2>1, <2>4, <3>1, <3>2, CalmKept, WholeBefore
      <4>2. QED
        BY <1>1, <2>1, <2>3, <2>4, <4>1, WholeSame
    <3>3. QED
      BY <2>4, <3>1, <3>2, WholeOwn
  <2>12. QED
    BY <1>1, <1>2, <2>3, <2>4, <2>6, <2>7, <2>8, <2>9, <2>10, <2>11, RowStep
<1>5. QED
  BY <1>3, <1>4

\* What writing or removing a secret does to the table.
LEMMA SecretTyped ==
    ASSUME NEW c \in Calls, NEW l \in BOOLEAN PROVE [by |-> c, live |-> l] \in Secret
BY DEF Secret

LEMMA AttachSecretStep ==
    ASSUME IInv, NEW c \in Calls, NEW k \in Keys, attachSecret(c, k) PROVE IInv'
<1>1. /\ backend = "prisma" /\ backend' = backend /\ call[c].pc = "secrets" /\ k \in call[c].todo
      /\ UNCHANGED <<row, used, here, attached, env, vault, loose, faults>>
  BY DEF attachSecret, At
<1>2. Running(c) /\ call \in [Calls -> Call] /\ call[c] \in Call /\ Tables
  BY <1>1 DEF Running, Ended, IInv, TypeInv
<1>3. call[c].op \in Writers /\ call[c].todo \subseteq EnvKeys[call[c].engine] /\ call[c].engine \in Engines
  BY <1>1 DEF IInv, TypeInv, Shape, Phase
<1>4. PICK i \in Ids : i = call[c].id
  BY <1>2, RunningFacts DEF IInv
<1>5. PICK l \in BOOLEAN : l = call[c].live
  BY <1>2 DEF Call
<1>6. PICK y \in Secret : y = [by |-> c, live |-> l]
  BY SecretTyped
<1>7. secrets' = [secrets EXCEPT ![<<i, k>>] = y]
  BY <1>4, <1>5, <1>6 DEF attachSecret
<1>8. /\ secrets' \in [Ids \X Keys -> Secret \cup {None}] /\ secrets'[<<i, k>>] = y
      /\ \A j \in Ids, z \in Keys : j # i \/ z # k => secrets'[<<j, z>>] = secrets[<<j, z>>]
  <2>1. secrets \in [Ids \X Keys -> Secret \cup {None}] /\ <<i, k>> \in Ids \X Keys
    BY <1>2 DEF Tables
  <2>2. secrets' \in [Ids \X Keys -> Secret \cup {None}] /\ secrets'[<<i, k>>] = y
    BY <1>7, <2>1
  <2>3. ASSUME NEW j \in Ids, NEW z \in Keys, j # i \/ z # k PROVE secrets'[<<j, z>>] = secrets[<<j, z>>]
    <3>1. <<j, z>> \in Ids \X Keys /\ <<j, z>> # <<i, k>>
      BY <2>3
    <3>2. QED
      BY <1>7, <2>1, <3>1
  <2>4. QED
    BY <2>2, <2>3
<1>9. PICK t : t = call[c].todo \ {k}
  OBVIOUS
<1>10. PICK x : x = [call[c] EXCEPT !.todo = t]
  OBVIOUS
<1>11. x \in Call /\ x.pc = "secrets" /\ x.op = call[c].op /\ x.id = i
  BY <1>1, <1>2, <1>4, <1>9, <1>10 DEF Call
<1>12. /\ x.svc = call[c].svc /\ x.prefix = call[c].prefix /\ x.with = call[c].with /\ x.todo = t
       /\ x.engine = call[c].engine /\ x.live = l
  BY <1>2, <1>5, <1>10 DEF Call
<1>13. call' = [call EXCEPT ![c] = x]
  BY <1>2, <1>9, <1>10 DEF attachSecret
<1>14. Step(c) /\ call'[c] = x
  BY <1>1, <1>2, <1>4, <1>11, <1>12, <1>13, StepOf DEF IInv
<1>15. TypeInv'
  <2>1. Shape(c)'
    BY <1>1, <1>3, <1>9, <1>11, <1>12, <1>14 DEF Shape, Phase, Sweeping
  <2>2. Tables'
    BY <1>1, <1>2, <1>8 DEF Tables
  <2>3. QED
    BY <1>1, <1>4, <1>11, <1>14, <2>1, <2>2, TypeSame DEF IInv
<1>16. ~Deleted(c)' /\ call'[c].pc \notin Sweeping /\ Past(c)
  BY <1>1, <1>2, <1>3, <1>11, <1>14 DEF Deleted, Sweeping, Past
<1>17. GoneInv'
  BY <1>1, <1>4, <1>11, <1>14, <1>16, GoneKept DEF Live
<1>18. SecretInv'
  BY <1>1, <1>3, <1>4, <1>8, <1>11, <1>14, <1>15, <1>16, SecretKept
<1>19. ByInv'
  <2>1. y.by = c
    BY <1>6
  <2>2. QED
    BY <1>8, <1>11, <1>14, <2>1, ByKept
<1>20. WholeInv'
  <2>1. ASSUME Calm' PROVE Wrote(c)'
    <3>1. Wrote(c)
      BY <1>1, <1>14, <2>1, CalmKept DEF IInv, WholeInv
    <3>2. Live(i) /\ row' = row /\ row.engine = call[c].engine /\ row.id = i
      BY <1>1, <1>4, <3>1 DEF Wrote, Live
    <3>3. ASSUME NEW z \in EnvKeys[row.engine] \ t PROVE secrets'[<<i, z>>] = y
      <4>1. CASE z = k
        BY <1>8, <4>1
      <4>2. CASE z # k
        <5>1. z \in EnvKeys[row.engine] \ call[c].todo /\ z \in Keys
          BY <1>3, <1>9, <3>2, <4>2 DEF Keys
        <5>2. secrets[<<i, z>>] = y
          BY <1>5, <1>6, <3>1, <3>2, <5>1 DEF Wrote
        <5>3. QED
          BY <1>8, <4>2, <5>1, <5>2
      <4>3. QED
        BY <4>1, <4>2
    <3>4. QED
      BY <1>6, <1>11, <1>12, <1>14, <3>2, <3>3 DEF Wrote, Live
  <2>2. Mid(c)'
    BY <1>1, <1>11, <1>14 DEF Mid
  <2>3. QED
    BY <1>1, <1>3, <1>11, <1>14, <2>1, <2>2, WholeOwn
<1>21. QED
  BY <1>1, <1>11, <1>14, <1>15, <1>16, <1>17, <1>18, <1>19, <1>20, RowStep

LEMMA RemoveSecretsStep == ASSUME IInv, NEW c \in Calls, removeSecrets(c) PROVE IInv'
<1>1. /\ backend = "prisma" /\ backend' = backend /\ call[c].pc = "remove" /\ call[c].todo = {}
      /\ UNCHANGED <<row, used, here, attached, env, vault, loose, faults>> /\ Goto(c, "delete")
  BY DEF removeSecrets, At
<1>2. Running(c) /\ Tables /\ call[c].op = "deleteResource"
  BY <1>1 DEF Running, Ended, IInv, TypeInv, Shape, Phase, Sweeping
<1>3. PICK i \in Ids : i = call[c].id
  BY <1>2, RunningFacts DEF IInv
<1>4. /\ secrets' \in [Ids \X Keys -> Secret \cup {None}]
      /\ \A j \in Ids, k \in Keys : secrets'[<<j, k>>] = IF j = i THEN None ELSE secrets[<<j, k>>]
  <2>1. secrets' = [x \in Ids \X Keys |-> IF x[1] = i THEN None ELSE secrets[x]]
    BY <1>3 DEF removeSecrets
  <2>2. secrets \in [Ids \X Keys -> Secret \cup {None}]
    BY <1>2 DEF Tables
  <2>3. QED
    BY <2>1, <2>2
<1>5. Step(c) /\ call'[c].pc = "delete" /\ call'[c].id = call[c].id /\ call'[c].todo = {}
  <2>1. "delete" \in Pcs \ {"new"}
    BY DEF Pcs, Sweeping
  <2>2. QED
    BY <1>1, <1>2, <2>1, GotoStep DEF IInv
<1>6. call'[c].op = "deleteResource"
  BY <1>2, <1>5, StepFacts
<1>7. TypeInv'
  <2>1. Shape(c)'
    BY <1>1, <1>5, <1>6 DEF Shape, Phase, Sweeping
  <2>2. Tables'
    BY <1>1, <1>2, <1>4 DEF Tables
  <2>3. QED
    BY <1>1, <1>5, <2>1, <2>2, TypeSame DEF IInv
<1>8. ~Deleted(c)' /\ ~Past(c)'
  BY <1>5, <1>6 DEF Deleted, Past, Writers
<1>9. GoneInv'
  BY <1>1, <1>5, <1>8, GoneKept DEF Live
<1>10. SecretInv'
  BY <1>1, <1>3, <1>4, <1>5, <1>7, SecretKept
<1>11. ByInv'
  BY <1>1, <1>4, <1>5, ByKept
<1>12. WholeInv'
  <2>1. Mid(c)'
    BY <1>1, <1>5 DEF Mid
  <2>2. QED
    BY <1>2, <1>5, <2>1, WholeOwn
<1>13. QED
  BY <1>1, <1>5, <1>7, <1>8, <1>9, <1>10, <1>11, <1>12, RowStep DEF Sweeping

--------------------------------------------------------------------------------
(***************************************************************************)
(* Steps on attachments, variables and their secrets                       *)
(***************************************************************************)
\* The parts about the row and the connection do not depend on these.
LEMMA SlotStep ==
    ASSUME IInv, TypeInv', NEW c \in Calls, Step(c), UNCHANGED <<row, used, secrets>>,
           call'[c].id = call[c].id, call[c].pc \notin {"secrets", "ready", "delete"},
           call'[c].pc \notin {"update", "provider", "secrets", "delete"}, ~Deleted(c)',
           Past(c)' => Past(c),
           UserInv', RefInv', HandInv', EnvInv', SweepInv'
    PROVE  IInv'
<1>1. row' = row /\ used' = used /\ secrets' = secrets
  OBVIOUS
<1>2. WithInv'
  BY WithKept DEF IInv
<1>3. StaleInv'
  BY <1>1, StaleKept
<1>4. GoneInv'
  BY <1>1, GoneKept DEF Live
<1>5. SecretInv'
  BY <1>1, SecretKept
<1>6. ByInv'
  BY <1>1, ByKept
<1>7. WholeInv'
  <2>1. ~Mid(c)
    BY DEF Mid
  <2>2. QED
    BY <1>1, <2>1, WholeQuiet
<1>8. QED
  BY <1>2, <1>3, <1>4, <1>5, <1>6, <1>7 DEF IInv

\* The variables of a list that is replaced are in the new one, or loose.
LEMMA Replaced ==
    ASSUME Tables, NEW i \in Ids, NEW s \in Services, NEW t \in SUBSET Vars,
           NEW old, old = IF attached[<<i, s>>] = None THEN {} ELSE attached[<<i, s>>],
           attached' = [attached EXCEPT ![<<i, s>>] = t],
           loose' = loose \cup {<<s, v, i>> : v \in old \ t}
    PROVE  /\ attached' \in [Ids \X Services -> (SUBSET Vars) \cup {None}]
           /\ \A v \in t : Listed(s, v, i)'
           /\ \A j \in Ids, r \in Services, v \in Vars :
                 Listed(r, v, j) => Listed(r, v, j)' \/ <<r, v, j>> \in loose'
           /\ loose \subseteq loose'
<1>1. attached \in [Ids \X Services -> (SUBSET Vars) \cup {None}] /\ <<i, s>> \in Ids \X Services
  BY DEF Tables
<1>2. attached' \in [Ids \X Services -> (SUBSET Vars) \cup {None}] /\ attached'[<<i, s>>] = t
  BY <1>1
<1>3. t # None
  BY NoneAssumption
<1>4. \A v \in t : Listed(s, v, i)'
  BY <1>2, <1>3 DEF Listed
<1>5. ASSUME NEW j \in Ids, NEW r \in Services, NEW v \in Vars, Listed(r, v, j)
      PROVE  Listed(r, v, j)' \/ <<r, v, j>> \in loose'
  <2>1. CASE j = i /\ r = s
    <3>1. v \in old
      BY <1>5, <2>1 DEF Listed
    <3>2. CASE v \in t
      BY <1>4, <2>1, <3>2
    <3>3. CASE v \notin t
      BY <2>1, <3>1, <3>3
    <3>4. QED
      BY <3>2, <3>3
  <2>2. CASE j # i \/ r # s
    <3>1. <<j, r>> \in Ids \X Services /\ <<j, r>> # <<i, s>>
      BY <2>2
    <3>2. attached'[<<j, r>>] = attached[<<j, r>>]
      BY <1>1, <3>1
    <3>3. QED
      BY <1>5, <3>2 DEF Listed
  <2>3. QED
    BY <2>1, <2>2
<1>6. QED
  BY <1>2, <1>4, <1>5

LEMMA AttachStep == ASSUME IInv, NEW c \in Calls, attachResource(c) PROVE IInv'
<1>1. /\ backend = "prisma" /\ backend' = backend /\ call[c].pc = "attach"
      /\ UNCHANGED <<row, used, here, secrets, env, vault, faults>>
  BY DEF attachResource, At
<1>2. Running(c) /\ Tables /\ call[c].op = "attachResource"
  BY <1>1 DEF Running, Ended, IInv, TypeInv, Shape, Phase
<1>3. PICK i \in Ids : i = call[c].id
  BY <1>2, RunningFacts DEF IInv
<1>4. PICK s \in Services : s = call[c].svc
  BY <1>2, RunningFacts DEF IInv
<1>5. PICK t \in SUBSET Vars : t = call[c].todo
  BY <1>1 DEF IInv, TypeInv, Shape, Phase
<1>6. CASE ~Live(i) \/ s \notin here
  <2>1. Goto(c, "failed") /\ UNCHANGED data
    BY <1>1, <1>3, <1>4, <1>6 DEF attachResource, data
  <2>2. faults' \in 0..MaxFaults
    BY <1>1, <1>2 DEF Tables
  <2>3. QED
    BY <1>1, <1>2, <2>1, <2>2, EndsStep
<1>7. CASE ~(~Live(i) \/ s \notin here)
  <2>1. PICK old : old = IF attached[<<i, s>>] = None THEN {} ELSE attached[<<i, s>>]
    OBVIOUS
  <2>2. attached' = [attached EXCEPT ![<<i, s>>] = t] /\ Goto(c, "vault")
    BY <1>3, <1>4, <1>5, <1>7 DEF attachResource
  <2>3. loose' = loose \cup {<<s, v, i>> : v \in old \ t}
    <3>1. loose' = loose \cup {<<s, v, i>> : v \in (IF attached[<<i, s>>] = None THEN {} ELSE attached[<<i, s>>] \ t)}
      BY <1>3, <1>4, <1>5, <1>7 DEF attachResource
    <3>2. (IF attached[<<i, s>>] = None THEN {} ELSE attached[<<i, s>>] \ t) = old \ t
      BY <2>1
    <3>3. QED
      BY <3>1, <3>2
  <2>4. /\ attached' \in [Ids \X Services -> (SUBSET Vars) \cup {None}]
        /\ \A v \in t : Listed(s, v, i)'
        /\ \A j \in Ids, r \in Services, v \in Vars :
              Listed(r, v, j) => Listed(r, v, j)' \/ <<r, v, j>> \in loose'
        /\ loose \subseteq loose'
    BY <1>2, <2>1, <2>2, <2>3, Replaced
  <2>5. Step(c) /\ call'[c].pc = "vault" /\ call'[c].id = i /\ call'[c].todo = t
    <3>1. "vault" \in Pcs \ {"new"}
      BY DEF Pcs
    <3>2. QED
      BY <1>1, <1>2, <1>3, <1>5, <2>2, <3>1, GotoStep DEF IInv
  <2>6. call'[c].op = "attachResource" /\ call'[c].svc = s
    BY <1>2, <1>4, <2>5 DEF Step
  <2>7. TypeInv'
    <3>1. Shape(c)'
      BY <1>1, <2>5, <2>6 DEF Shape, Phase, Sweeping
    <3>2. Tables'
      BY <1>1, <1>2, <2>4 DEF Tables
    <3>3. QED
      BY <1>1, <1>3, <2>5, <3>1, <3>2, TypeSame DEF IInv
  <2>8. UserInv'
    BY <1>1, <2>5, UserKept
  <2>9. RefInv'
    BY <1>1, <2>5, RefKept
  <2>10. HandInv'
    BY <1>1, <2>5, HandKept
  <2>11. EnvInv'
    <3>1. \A v \in call'[c].todo : Listed(call[c].svc, v, call[c].id)'
      BY <1>3, <1>4, <2>4, <2>5, <2>6 DEF Listed
    <3>2. backend # "memory"
      BY <1>1
    <3>3. QED
      BY <1>1, <2>4, <2>5, <2>7, <3>1, <3>2, EnvKept
  <2>12. ~Deleted(c)' /\ call'[c].pc \notin Sweeping /\ Past(c)
    BY <1>1, <1>2, <2>5 DEF Deleted, Sweeping, Past
  <2>13. SweepInv'
    BY <1>1, <2>4, <2>5, <2>7, <2>12, SweepKept
  <2>14. QED
    BY <1>1, <1>3, <2>5, <2>7, <2>8, <2>9, <2>10, <2>11, <2>12, <2>13, SlotStep
<1>8. QED
  BY <1>6, <1>7

LEMMA AttachmentsStep ==
    ASSUME IInv, NEW c \in Calls, NEW fails \in BOOLEAN, findAttachments(c, fails) PROVE IInv'
<1>1. /\ backend = "prisma" /\ backend' = backend /\ call[c].pc = "attachments"
      /\ UNCHANGED <<row, used, here, secrets, attached, env, vault>>
  BY DEF findAttachments, At
<1>2. Running(c) /\ Tables /\ call[c].op = "deleteResource" /\ call[c] \in Call /\ call \in [Calls -> Call]
  BY <1>1 DEF Running, Ended, IInv, TypeInv, Shape, Phase
<1>3. PICK i \in Ids : i = call[c].id
  BY <1>2, RunningFacts DEF IInv
<1>4. PICK mine : mine = UNION {{<<s, v>> : v \in attached[<<i, s>>]} : s \in {x \in Services : attached[<<i, x>>] # None}}
  OBVIOUS
<1>5. mine \subseteq Slots
  <2>1. ASSUME NEW s \in Services, attached[<<i, s>>] # None PROVE attached[<<i, s>>] \subseteq Vars
    <3>1. attached \in [Ids \X Services -> (SUBSET Vars) \cup {None}]
      BY <1>2 DEF Tables
    <3>2. attached[<<i, s>>] \in (SUBSET Vars) \cup {None}
      <4>1. <<i, s>> \in Ids \X Services
        OBVIOUS
      <4>2. QED
        BY <3>1, <4>1
    <3>3. QED
      BY <2>1, <3>2
  <2>2. ASSUME NEW y \in mine PROVE y \in Slots
    <3>1. PICK s \in {x \in Services : attached[<<i, x>>] # None} : y \in {<<s, v>> : v \in attached[<<i, s>>]}
      BY <1>4, <2>2
    <3>2. QED
      BY <2>1, <3>1 DEF Slots
  <2>3. QED
    BY <2>2
<1>6. \A s \in Services, v \in Vars : Listed(s, v, i) => <<s, v>> \in mine
  BY <1>4 DEF Listed
<1>7. PICK t : t = IF fails THEN {} ELSE mine
  OBVIOUS
<1>8. PICK x : x = [call[c] EXCEPT !.pc = "remove", !.todo = t]
  OBVIOUS
<1>9. x = [pc |-> "remove", op |-> call[c].op, id |-> call[c].id, svc |-> call[c].svc,
           prefix |-> call[c].prefix, engine |-> call[c].engine, status |-> call[c].status,
           live |-> call[c].live, todo |-> t, at |-> call[c].at, ref |-> call[c].ref, with |-> call[c].with]
  BY <1>2, <1>8 DEF Call
<1>10. x \in Call
  <2>1. "remove" \in Pcs /\ t \subseteq Slots
    BY <1>5, <1>7 DEF Pcs, Sweeping
  <2>2. QED
    BY <1>2, <1>9, <2>1 DEF Call
<1>11. /\ x.pc = "remove" /\ x.op = call[c].op /\ x.id = call[c].id /\ x.svc = call[c].svc
       /\ x.prefix = call[c].prefix /\ x.with = call[c].with /\ x.todo = t
  BY <1>9
<1>12. call' = [call EXCEPT ![c] = x]
  <2>1. call' = [call EXCEPT ![c].pc = "remove", ![c].todo = IF fails THEN {} ELSE
                   UNION {{<<s, v>> : v \in attached[<<call[c].id, s>>]} :
                          s \in {z \in Services : attached[<<call[c].id, z>>] # None}}]
    BY Zenon DEF findAttachments
  <2>2. call' = [call EXCEPT ![c].pc = "remove", ![c].todo = IF fails THEN {} ELSE mine]
    BY <1>3, <1>4, <2>1
  <2>3. call' = [call EXCEPT ![c].pc = "remove", ![c].todo = t]
    BY <1>7, <2>2
  <2>4. QED
    BY <1>2, <1>8, <2>3
<1>13. Step(c) /\ call'[c] = x
  BY <1>1, <1>2, <1>10, <1>11, <1>12, StepOf DEF IInv
<1>14. loose' = IF fails THEN loose \cup {<<x1[1], x1[2], i>> : x1 \in mine} ELSE loose
  BY <1>3, <1>4 DEF findAttachments
<1>15. \A s \in Services, v \in Vars : <<s, v>> \in mine => <<s, v, i>> \in loose' \/ <<s, v>> \in t
  <2>1. CASE fails
    <3>1. ASSUME NEW s \in Services, NEW v \in Vars, <<s, v>> \in mine PROVE <<s, v, i>> \in loose'
      <4>1. <<s, v>>[1] = s /\ <<s, v>>[2] = v
        OBVIOUS
      <4>2. PICK z : z = <<s, v>>
        OBVIOUS
      <4>3. z \in mine /\ <<z[1], z[2], i>> = <<s, v, i>>
        BY <3>1, <4>1, <4>2
      <4>4. QED
        BY <1>14, <2>1, <4>3
    <3>2. QED
      BY <3>1
  <2>2. CASE ~fails
    BY <1>7, <2>2
  <2>3. QED
    BY <2>1, <2>2
<1>16. loose \subseteq loose'
  BY <1>14
<1>17. faults' \in 0..MaxFaults
  <2>1. faults \in 0..MaxFaults /\ MaxFaults \in Nat
    BY <1>2, ResourcesAssumption DEF Tables
  <2>2. (fails => faults < MaxFaults) /\ faults' = IF fails THEN faults + 1 ELSE faults
    BY DEF findAttachments
  <2>3. QED
    BY <2>1, <2>2
<1>18. TypeInv'
  <2>1. Shape(c)'
    BY <1>1, <1>2, <1>5, <1>7, <1>11, <1>13 DEF Shape, Phase, Sweeping
  <2>2. Tables'
    BY <1>1, <1>2, <1>17 DEF Tables
  <2>3. QED
    BY <1>1, <1>11, <1>13, <2>1, <2>2, TypeSame DEF IInv
<1>19. UserInv' /\ HandInv'
  BY <1>1, <1>11, <1>13, UserKept, HandKept
<1>20. RefInv'
  BY <1>1, <1>11, <1>13, RefKept
<1>21. \A s, v, j : Listed(s, v, j)' <=> Listed(s, v, j)
  BY <1>1 DEF Listed
<1>22. EnvInv'
  BY <1>1, <1>2, <1>11, <1>13, <1>16, <1>18, <1>21, EnvKept
<1>23. SweepInv'
  <2>1. i # User
    BY ResourcesAssumption, NoneAssumption
  <2>2. ASSUME NEW s \in Services, NEW v \in Vars, env[<<s, v>>] # None, env[<<s, v>>].source = i
        PROVE  Lost(s, v, i) \/ <<s, v, i>> \in loose' \/ <<s, v>> \in t
    <3>1. Lost(s, v, i) \/ Listed(s, v, i)
      BY <2>1, <2>2 DEF IInv, EnvInv
    <3>2. QED
      BY <1>6, <1>15, <3>1
  <2>3. QED
    BY <1>1, <1>3, <1>11, <1>13, <1>16, <1>18, <2>2, SweepKept
<1>24. ~Deleted(c)' /\ ~Past(c)'
  BY <1>2, <1>11, <1>13 DEF Deleted, Past, Writers
<1>25. QED
  BY <1>1, <1>11, <1>13, <1>18, <1>19, <1>20, <1>22, <1>23, <1>24, SlotStep

\* One slot of a table of slots is written.
LEMMA SlotSet ==
    ASSUME NEW f, NEW T, f \in [Slots -> T], NEW s \in Services, NEW v \in Vars, NEW y \in T,
           NEW g, g = [f EXCEPT ![<<s, v>>] = y]
    PROVE  /\ g \in [Slots -> T] /\ g[<<s, v>>] = y
           /\ \A z \in Slots : z # <<s, v>> => g[z] = f[z]
<1>1. <<s, v>> \in Slots
  BY DEF Slots
<1>2. QED
  BY <1>1

LEMMA UpsertSecretStep ==
    ASSUME IInv, NEW c \in Calls, NEW v \in Vars, upsertSecret(c, v) PROVE IInv'
<1>1. /\ backend = "prisma" /\ backend' = backend /\ call[c].pc = "vault" /\ v \in call[c].todo
      /\ UNCHANGED <<row, used, here, secrets, attached, env, loose, faults>>
  BY DEF upsertSecret, At
<1>2. Running(c) /\ Tables /\ call[c] \in Call /\ call \in [Calls -> Call]
  BY <1>1 DEF Running, Ended, IInv, TypeInv
<1>3. /\ call[c].op \in {"attachResource", "setEnvironment"} /\ call[c].todo \subseteq Vars
      /\ call[c].op = "setEnvironment" => call[c].todo = {v}
  BY <1>1 DEF IInv, TypeInv, Shape, Phase
<1>4. PICK s \in Services : s = call[c].svc
  BY <1>2, RunningFacts DEF IInv
<1>5. PICK old : old = vault[<<s, v>>]
  OBVIOUS
<1>6. <<s, v>> \in Slots /\ vault \in [Slots -> Calls \cup {0, None}]
  BY <1>2 DEF Slots, Tables
<1>7. PICK id \in Calls \cup {0, None} : id = IF old = None THEN c ELSE old
  BY <1>5, <1>6
<1>8. vault' = [vault EXCEPT ![<<s, v>>] = id]
  BY <1>4, <1>5, <1>7 DEF upsertSecret
<1>9. /\ vault' \in [Slots -> Calls \cup {0, None}] /\ vault'[<<s, v>>] = id
      /\ \A z \in Slots : z # <<s, v>> => vault'[z] = vault[z]
  BY <1>6, <1>8, SlotSet
<1>10. PICK x : x = [call[c] EXCEPT !.pc = "row", !.at = v, !.ref = id]
  OBVIOUS
<1>11. x = [pc |-> "row", op |-> call[c].op, id |-> call[c].id, svc |-> call[c].svc,
            prefix |-> call[c].prefix, engine |-> call[c].engine, status |-> call[c].status,
            live |-> call[c].live, todo |-> call[c].todo, at |-> v, ref |-> id, with |-> call[c].with]
  BY <1>2, <1>10 DEF Call
<1>12. x \in Call
  <2>1. "row" \in Pcs
    BY DEF Pcs
  <2>2. QED
    BY <1>2, <1>11, <2>1 DEF Call
<1>13. /\ x.pc = "row" /\ x.op = call[c].op /\ x.id = call[c].id /\ x.svc = s
       /\ x.prefix = call[c].prefix /\ x.with = call[c].with /\ x.todo = call[c].todo /\ x.at = v
       /\ x.ref = id
  BY <1>4, <1>11
<1>14. call' = [call EXCEPT ![c] = x]
  <2>1. call' = [call EXCEPT ![c].pc = "row", ![c].at = v, ![c].ref = id]
    BY <1>4, <1>5, <1>7 DEF upsertSecret
  <2>2. QED
    BY <1>2, <1>10, <2>1
<1>15. Step(c) /\ call'[c] = x
  BY <1>1, <1>2, <1>4, <1>12, <1>13, <1>14, StepOf DEF IInv
<1>16. TypeInv'
  <2>1. Shape(c)'
    BY <1>1, <1>3, <1>13, <1>15 DEF Shape, Phase, Sweeping
  <2>2. Tables'
    BY <1>1, <1>2, <1>9 DEF Tables
  <2>3. QED
    BY <1>1, <1>13, <1>15, <2>1, <2>2, TypeSame DEF IInv
<1>17. UserInv'
  BY <1>1, <1>13, <1>15, UserKept
<1>18. RefInv'
  <2>1. ASSUME NEW r \in here', NEW w \in Vars
        PROVE  Sound(r, w)' \/ vault'[<<r, w>>] = vault[<<r, w>>] \/ ~Sound(r, w)
    <3>1. <<r, w>> \in Slots
      BY <1>1, <1>2, <2>1 DEF Slots, Tables
    <3>2. CASE <<r, w>> # <<s, v>> \/ old # None
      BY <1>5, <1>7, <1>9, <3>1, <3>2
    <3>3. CASE <<r, w>> = <<s, v>> /\ old = None
      <4>1. vault[<<r, w>>] = None /\ env'[<<r, w>>] = env[<<r, w>>]
        BY <1>1, <1>5, <3>3
      <4>2. QED
        BY <4>1 DEF Sound
    <3>4. QED
      BY <3>2, <3>3
  <2>2. QED
    BY <1>1, <1>15, <2>1, RefKept
<1>19. HandInv'
  <2>1. \A z \in Slots : vault'[z] = vault[z] \/ vault[z] = None
    BY <1>5, <1>7, <1>9
  <2>2. QED
    BY <1>9, <1>13, <1>15, <2>1, HandKept
<1>20. \A r, w, j : Listed(r, w, j)' <=> Listed(r, w, j)
  BY <1>1 DEF Listed
<1>21. EnvInv'
  BY <1>1, <1>13, <1>15, <1>16, <1>20, EnvKept
<1>22. ~Deleted(c)' /\ call'[c].pc \notin Sweeping /\ (Past(c)' => Past(c))
  BY <1>1, <1>2, <1>13, <1>15 DEF Deleted, Sweeping, Past
<1>23. SweepInv'
  BY <1>1, <1>13, <1>15, <1>16, <1>22, SweepKept
<1>24. QED
  BY <1>1, <1>13, <1>15, <1>16, <1>17, <1>18, <1>19, <1>21, <1>22, <1>23, SlotStep

\* A deletion at the variable it removes.
LEMMA AtSlot ==
    ASSUME IInv, NEW c \in Calls, call[c].pc \in {"removeSecret", "removeVariable"}
    PROVE  /\ Running(c) /\ Tables /\ call[c].op = "deleteResource" /\ backend = "prisma"
           /\ call[c].todo \subseteq Slots /\ call[c].at \in call[c].todo
           /\ \A s \in Services, v \in Vars : env[<<s, v>>] # None /\ env[<<s, v>>].source = call[c].id =>
                 Lost(s, v, call[c].id) \/ <<s, v>> \in call[c].todo
<1>1. Shape(c) /\ Running(c) /\ Tables
  BY DEF IInv, TypeInv, Running, Ended
<1>2. /\ call[c].op = "deleteResource" /\ call[c].todo \subseteq Slots /\ call[c].at \in call[c].todo
      /\ backend # "memory"
  BY <1>1 DEF Shape, Phase, Sweeping
<1>3. QED
  BY <1>1, <1>2 DEF IInv, SweepInv, Sweeping, Tables

LEMMA RemoveSecretStep == ASSUME IInv, NEW c \in Calls, removeSecret(c) PROVE IInv'
<1>1. /\ backend' = backend /\ call[c].pc = "removeSecret" /\ Goto(c, "removeVariable")
      /\ UNCHANGED <<row, used, here, secrets, attached, env, loose, faults>>
  BY DEF removeSecret, At
<1>2. /\ Running(c) /\ Tables /\ call[c].op = "deleteResource" /\ backend = "prisma"
      /\ call[c].todo \subseteq Slots /\ call[c].at \in call[c].todo
      /\ \A s \in Services, v \in Vars : env[<<s, v>>] # None /\ env[<<s, v>>].source = call[c].id =>
            Lost(s, v, call[c].id) \/ <<s, v>> \in call[c].todo
  BY <1>1, AtSlot
<1>3. PICK x \in Slots : x = call[c].at
  BY <1>2
<1>4. vault \in [Slots -> Calls \cup {0, None}]
  BY <1>2 DEF Tables
<1>5. /\ vault' \in [Slots -> Calls \cup {0, None}]
      /\ \A z \in Slots : z # x => vault'[z] = vault[z]
  <2>1. vault' = vault \/ vault' = [vault EXCEPT ![x] = None]
    BY <1>3 DEF removeSecret
  <2>2. QED
    BY <1>4, <2>1
<1>6. /\ Step(c) /\ call'[c].pc = "removeVariable" /\ call'[c].id = call[c].id
      /\ call'[c].todo = call[c].todo /\ call'[c].at = x
  <2>1. "removeVariable" \in Pcs \ {"new"}
    BY DEF Pcs, Sweeping
  <2>2. QED
    BY <1>1, <1>2, <1>3, <2>1, GotoStep DEF IInv
<1>7. call'[c].op = "deleteResource" /\ Deletes(c)
  BY <1>2, <1>6, StepFacts DEF Deletes
<1>8. TypeInv'
  <2>1. Shape(c)'
    BY <1>1, <1>2, <1>3, <1>6, <1>7 DEF Shape, Phase, Sweeping
  <2>2. Tables'
    BY <1>1, <1>2, <1>5 DEF Tables
  <2>3. QED
    BY <1>1, <1>6, <2>1, <2>2, TypeSame DEF IInv
<1>9. UserInv'
  BY <1>1, <1>3, <1>6, UserKept
<1>10. RefInv'
  <2>1. \A s \in here, v \in Vars : <<s, v>> \in Slots
    BY <1>2 DEF Slots, Tables
  <2>2. QED
    BY <1>1, <1>5, <1>6, <1>7, <2>1, RefKept
<1>11. HandInv'
  BY <1>6, <1>7, HandKept
<1>12. \A r, w, j : Listed(r, w, j)' <=> Listed(r, w, j)
  BY <1>1 DEF Listed
<1>13. EnvInv'
  BY <1>1, <1>2, <1>6, <1>8, <1>12, EnvKept
<1>14. SweepInv'
  BY <1>1, <1>2, <1>6, <1>8, SweepKept
<1>15. ~Deleted(c)' /\ ~Past(c)'
  BY <1>6, <1>7 DEF Deleted, Past, Writers
<1>16. QED
  BY <1>1, <1>6, <1>8, <1>9, <1>10, <1>11, <1>13, <1>14, <1>15, SlotStep

LEMMA RemoveVariableStep == ASSUME IInv, NEW c \in Calls, removeVariable(c) PROVE IInv'
<1>1. /\ backend' = backend /\ call[c].pc = "removeVariable"
      /\ UNCHANGED <<row, used, here, secrets, attached, vault, loose, faults>>
  BY DEF removeVariable, At
<1>2. /\ Running(c) /\ Tables /\ call[c].op = "deleteResource" /\ backend = "prisma"
      /\ call[c].todo \subseteq Slots /\ call[c].at \in call[c].todo
      /\ \A s \in Services, v \in Vars : env[<<s, v>>] # None /\ env[<<s, v>>].source = call[c].id =>
            Lost(s, v, call[c].id) \/ <<s, v>> \in call[c].todo
  BY <1>1, AtSlot
<1>3. PICK x \in Slots : x = call[c].at
  BY <1>2
<1>4. /\ env' \in [Slots -> Variable \cup {None}] /\ env'[x] = None
      /\ \A z \in Slots : z # x => env'[z] = env[z]
  <2>1. env' = [env EXCEPT ![x] = None] /\ env \in [Slots -> Variable \cup {None}]
    BY <1>2, <1>3 DEF removeVariable, Tables
  <2>2. QED
    BY <2>1
<1>5. PICK t : t = call[c].todo \ {x}
  OBVIOUS
<1>6. call[c] \in Call /\ call \in [Calls -> Call]
  BY DEF IInv, TypeInv
<1>7. PICK y : y = [call[c] EXCEPT !.pc = "remove", !.todo = t]
  OBVIOUS
<1>8. y = [pc |-> "remove", op |-> call[c].op, id |-> call[c].id, svc |-> call[c].svc,
           prefix |-> call[c].prefix, engine |-> call[c].engine, status |-> call[c].status,
           live |-> call[c].live, todo |-> t, at |-> call[c].at, ref |-> call[c].ref, with |-> call[c].with]
  BY <1>6, <1>7 DEF Call
<1>9. y \in Call
  <2>1. "remove" \in Pcs /\ t \subseteq Slots
    BY <1>2, <1>5 DEF Pcs, Sweeping
  <2>2. QED
    BY <1>6, <1>8, <2>1 DEF Call
<1>10. /\ y.pc = "remove" /\ y.op = call[c].op /\ y.id = call[c].id /\ y.svc = call[c].svc
       /\ y.prefix = call[c].prefix /\ y.with = call[c].with /\ y.todo = t
  BY <1>8
<1>11. call' = [call EXCEPT ![c] = y]
  <2>1. call' = [call EXCEPT ![c].pc = "remove", ![c].todo = @ \ {x}]
    BY <1>3 DEF removeVariable
  <2>2. QED
    BY <1>5, <1>6, <1>7, <2>1
<1>12. Step(c) /\ call'[c] = y
  BY <1>1, <1>2, <1>9, <1>10, <1>11, StepOf DEF IInv
<1>13. TypeInv'
  <2>1. Shape(c)'
    BY <1>1, <1>2, <1>5, <1>10, <1>12 DEF Shape, Phase, Sweeping
  <2>2. Tables'
    BY <1>1, <1>2, <1>4 DEF Tables
  <2>3. QED
    BY <1>1, <1>10, <1>12, <2>1, <2>2, TypeSame DEF IInv
<1>14. UserInv'
  BY <1>4, <1>10, <1>12, UserKept
<1>15. RefInv'
  <2>1. ASSUME NEW s \in here', NEW v \in Vars
        PROVE  Sound(s, v)' \/ (env'[<<s, v>>] = env[<<s, v>>] /\ call[c].at # <<s, v>>)
    <3>1. <<s, v>> \in Slots
      BY <1>1, <1>2, <2>1 DEF Slots, Tables
    <3>2. CASE x = <<s, v>>
      BY <1>4, <3>2 DEF Sound
    <3>3. CASE x # <<s, v>>
      BY <1>3, <1>4, <3>1, <3>3
    <3>4. QED
      BY <3>2, <3>3
  <2>2. QED
    BY <1>1, <1>12, <2>1, RefKept
<1>16. HandInv'
  BY <1>1, <1>10, <1>12, HandKept
<1>17. \A s \in Services, v \in Vars : env'[<<s, v>>] # None => env'[<<s, v>>] = env[<<s, v>>] /\ <<s, v>> # x
  BY <1>4 DEF Slots
<1>18. \A r, w, j : Listed(r, w, j)' <=> Listed(r, w, j)
  BY <1>1 DEF Listed
<1>19. EnvInv'
  BY <1>1, <1>2, <1>10, <1>12, <1>13, <1>17, <1>18, EnvKept
<1>20. SweepInv'
  <2>1. ASSUME NEW s \in Services, NEW v \in Vars, env'[<<s, v>>] # None, env'[<<s, v>>].source = call[c].id
        PROVE  Lost(s, v, call[c].id) \/ <<s, v>> \in t
    BY <1>2, <1>5, <1>17, <2>1
  <2>2. QED
    BY <1>1, <1>10, <1>12, <1>13, <1>17, <2>1, SweepKept
<1>21. ~Deleted(c)' /\ ~Past(c)'
  BY <1>2, <1>10, <1>12 DEF Deleted, Past, Writers
<1>22. QED
  BY <1>1, <1>10, <1>12, <1>13, <1>14, <1>15, <1>16, <1>19, <1>20, <1>21, SlotStep

LEMMA UpsertVariableStep == ASSUME IInv, NEW c \in Calls, upsertVariable(c) PROVE IInv'
<1>1. /\ backend = "prisma" /\ backend' = backend /\ call[c].pc = "row"
      /\ UNCHANGED <<row, used, here, secrets, attached, vault, loose, faults>>
  BY DEF upsertVariable, At
<1>2. Running(c) /\ Tables /\ call[c] \in Call /\ call \in [Calls -> Call]
  BY <1>1 DEF Running, Ended, IInv, TypeInv
<1>3. /\ call[c].op \in {"attachResource", "setEnvironment"} /\ call[c].todo \subseteq Vars
      /\ call[c].at \in call[c].todo /\ (call[c].op = "setEnvironment" => call[c].todo = {call[c].at})
  BY <1>1 DEF IInv, TypeInv, Shape, Phase
<1>4. PICK s \in Services : s = call[c].svc
  BY <1>2, RunningFacts DEF IInv
<1>5. PICK v \in Vars : v = call[c].at
  BY <1>3
<1>6. CASE s \notin here
  <2>1. Goto(c, "failed") /\ UNCHANGED data
    BY <1>1, <1>4, <1>6 DEF upsertVariable, data
  <2>2. faults' \in 0..MaxFaults
    BY <1>1, <1>2 DEF Tables
  <2>3. QED
    BY <1>1, <1>2, <2>1, <2>2, EndsStep
<1>7. CASE s \in here
  <2>1. PICK so \in Ids \cup {User} : so = IF call[c].op = "setEnvironment" THEN User ELSE call[c].id
    BY <1>2, RunningFacts DEF IInv
  <2>2. PICK ref \in Calls \cup {0, None} : ref = call[c].ref
    BY <1>2 DEF Call
  <2>3. PICK y : y = [source |-> so, ref |-> ref, by |-> c]
    OBVIOUS
  <2>4. y \in Variable /\ y.source = so /\ y.ref = ref /\ y.by = c
    BY <2>3 DEF Variable
  <2>5. PICK t : t = call[c].todo \ {v}
    OBVIOUS
  <2>6. PICK p \in {"done", "vault"} : p = IF t = {} THEN "done" ELSE "vault"
    OBVIOUS
  <2>7. env' = [env EXCEPT ![<<s, v>>] = y]
    BY <1>4, <1>5, <1>7, <2>1, <2>2, <2>3 DEF upsertVariable
  <2>8. /\ env' \in [Slots -> Variable \cup {None}] /\ env'[<<s, v>>] = y
        /\ \A z \in Slots : z # <<s, v>> => env'[z] = env[z]
    <3>1. PICK T : T = Variable \cup {None}
      OBVIOUS
    <3>2. env \in [Slots -> T] /\ y \in T
      BY <1>2, <2>4, <3>1 DEF Tables
    <3>3. PICK z \in Slots : z = <<s, v>>
      BY DEF Slots
    <3>4. env' = [env EXCEPT ![z] = y]
      BY <2>7, <3>3
    <3>5. env' \in [Slots -> T] /\ env'[z] = y /\ \A w \in Slots : w # z => env'[w] = env[w]
      BY <3>2, <3>4
    <3>6. QED
      BY <3>1, <3>3, <3>5
  <2>9. PICK x : x = [call[c] EXCEPT !.todo = t, !.pc = p]
    OBVIOUS
  <2>10. x = [pc |-> p, op |-> call[c].op, id |-> call[c].id, svc |-> call[c].svc,
              prefix |-> call[c].prefix, engine |-> call[c].engine, status |-> call[c].status,
              live |-> call[c].live, todo |-> t, at |-> call[c].at, ref |-> call[c].ref, with |-> call[c].with]
    BY <1>2, <2>9 DEF Call
  <2>11. x \in Call
    <3>1. p \in Pcs /\ t \subseteq Vars
      BY <1>3, <2>5 DEF Pcs, Ended
    <3>2. QED
      BY <1>2, <2>10, <3>1 DEF Call
  <2>12. /\ x.pc = p /\ x.op = call[c].op /\ x.id = call[c].id /\ x.svc = s
         /\ x.prefix = call[c].prefix /\ x.with = call[c].with /\ x.todo = t
    BY <1>4, <2>10
  <2>13. call' = [call EXCEPT ![c] = x]
    <3>1. call' = [call EXCEPT ![c].todo = t, ![c].pc = p]
      BY <1>4, <1>5, <1>7, <2>5, <2>6 DEF upsertVariable
    <3>2. QED
      BY <1>2, <2>9, <3>1
  <2>14. Step(c) /\ call'[c] = x
    BY <1>1, <1>2, <1>4, <2>11, <2>12, <2>13, StepOf DEF IInv
  <2>15. call[c].op = "setEnvironment" => p = "done"
    BY <1>3, <1>5, <2>5, <2>6
  <2>16. TypeInv'
    <3>1. Shape(c)'
      BY <1>1, <1>3, <2>5, <2>12, <2>14, <2>15 DEF Shape, Phase, Sweeping
    <3>2. Tables'
      BY <1>1, <1>2, <2>8 DEF Tables
    <3>3. QED
      BY <1>1, <2>12, <2>14, <3>1, <3>2, TypeSame DEF IInv
  <2>17. UserInv'
    <3>1. \A z \in Slots : env'[z] = env[z] \/ env'[z].by = c
      BY <2>4, <2>8
    <3>2. QED
      BY <2>12, <2>14, <3>1, UserKept
  <2>18. RefInv'
    <3>1. ASSUME NEW r \in here', NEW w \in Vars
          PROVE  \/ Sound(r, w)' \/ env'[<<r, w>>] = env[<<r, w>>]
                 \/ \E d \in Calls : Deletes(d) /\ env'[<<r, w>>].by \in call[d].with
      <4>1. <<r, w>> \in Slots
        BY <1>1, <1>2, <3>1 DEF Slots, Tables
      <4>2. CASE <<r, w>> # <<s, v>>
        BY <2>8, <4>1, <4>2
      <4>3. CASE <<r, w>> = <<s, v>> /\ (ref = None \/ vault[<<s, v>>] = ref)
        <5>1. env'[<<r, w>>].ref = ref /\ vault'[<<r, w>>] = vault[<<s, v>>]
          BY <1>1, <2>4, <2>8, <4>3
        <5>2. QED
          BY <4>3, <5>1 DEF Sound
      <4>4. CASE <<r, w>> = <<s, v>> /\ ref # None /\ vault[<<s, v>>] # ref
        <5>1. \E d \in Calls : Deletes(d) /\ c \in call[d].with
          BY <1>1, <1>4, <1>5, <2>2, <4>4 DEF IInv, HandInv
        <5>2. env'[<<r, w>>].by = c
          BY <2>4, <2>8, <4>4
        <5>3. QED
          BY <5>1, <5>2
      <4>5. QED
        BY <4>2, <4>3, <4>4
    <3>2. QED
      BY <1>1, <2>14, <3>1, RefKept
  <2>19. HandInv'
    BY <1>1, <2>12, <2>14, HandKept
  <2>20. ASSUME NEW r \in Services, NEW w \in Vars, env'[<<r, w>>] # None, env'[<<r, w>>].source # User
         PROVE  \/ env'[<<r, w>>] = env[<<r, w>>]
                \/ /\ call[c].op = "attachResource" /\ w \in call[c].todo /\ r = s
                   /\ env'[<<r, w>>].source = call[c].id
    <3>1. <<r, w>> \in Slots
      BY DEF Slots
    <3>2. CASE <<r, w>> # <<s, v>>
      BY <2>8, <3>1, <3>2
    <3>3. CASE <<r, w>> = <<s, v>>
      <4>1. r = s /\ w = v /\ env'[<<r, w>>].source = so
        BY <2>4, <2>8, <3>3
      <4>2. QED
        BY <1>3, <1>5, <2>1, <2>20, <4>1
    <3>4. QED
      BY <3>2, <3>3
  <2>21. \A r, w, j : Listed(r, w, j)' <=> Listed(r, w, j)
    BY <1>1 DEF Listed
  <2>22. EnvInv'
    BY <1>1, <1>4, <1>7, <2>5, <2>12, <2>14, <2>16, <2>20, <2>21, EnvKept
  <2>23. ~Deleted(c)' /\ call'[c].pc \notin Sweeping
    BY <1>3, <2>12, <2>14 DEF Deleted, Deletes, Sweeping
  <2>24. call[c].op = "attachResource" => Past(c)
    BY <1>1, <1>2 DEF Past
  <2>25. SweepInv'
    BY <1>1, <2>14, <2>16, <2>20, <2>23, <2>24, SweepKept
  <2>26. Past(c)' => Past(c)
    BY <1>3, <2>12, <2>14, <2>24 DEF Past, Writers
  <2>27. QED
    BY <1>1, <2>12, <2>14, <2>16, <2>17, <2>18, <2>19, <2>22, <2>23, <2>25, <2>26, SlotStep
<1>8. QED
  BY <1>6, <1>7

LEMMA DeleteServiceStep == ASSUME IInv, NEW c \in Calls, deleteService(c) PROVE IInv'
<1>1. /\ backend' = backend /\ call[c].pc = "deleteService" /\ Goto(c, "done")
      /\ UNCHANGED <<row, used, secrets, vault, loose, faults>>
  BY DEF deleteService
<1>2. Running(c) /\ Tables /\ call[c].op = "deleteService"
  BY <1>1 DEF Running, Ended, IInv, TypeInv, Shape, Phase
<1>3. PICK s \in Services : s = call[c].svc
  BY <1>2, RunningFacts DEF IInv
<1>4. here' = here \ {s}
  BY <1>3 DEF deleteService
<1>5. /\ env' \in [Slots -> Variable \cup {None}]
      /\ \A r \in Services, v \in Vars : env'[<<r, v>>] = IF r = s THEN None ELSE env[<<r, v>>]
  <2>1. env' = [x \in Slots |-> IF x[1] = s THEN None ELSE env[x]]
    BY <1>3 DEF deleteService, Slots
  <2>2. env \in [Slots -> Variable \cup {None}]
    BY <1>2 DEF Tables
  <2>3. QED
    BY <2>1, <2>2 DEF Slots
<1>6. /\ attached' \in [Ids \X Services -> (SUBSET Vars) \cup {None}]
      /\ \A i \in Ids, r \in Services : attached'[<<i, r>>] = IF r = s THEN None ELSE attached[<<i, r>>]
  <2>1. attached' = [x \in Ids \X Services |-> IF x[2] = s THEN None ELSE attached[x]]
    BY <1>3 DEF deleteService
  <2>2. attached \in [Ids \X Services -> (SUBSET Vars) \cup {None}]
    BY <1>2 DEF Tables
  <2>3. QED
    BY <2>1, <2>2
<1>7. Step(c) /\ call'[c].pc = "done" /\ call'[c].id = call[c].id
  <2>1. "done" \in Pcs \ {"new"}
    BY DEF Pcs, Ended
  <2>2. QED
    BY <1>1, <1>2, <2>1, GotoStep DEF IInv
<1>8. call'[c].op = "deleteService"
  BY <1>2, <1>7, StepFacts
<1>9. TypeInv'
  <2>1. Shape(c)'
    BY <1>1, <1>7, <1>8 DEF Shape, Phase, Sweeping
  <2>2. Tables'
    BY <1>1, <1>2, <1>4, <1>5, <1>6 DEF Tables
  <2>3. QED
    BY <1>1, <1>7, <2>1, <2>2, TypeSame DEF IInv
<1>10. UserInv'
  <2>1. \A x \in Slots : env'[x] \in {env[x], None}
    BY <1>5 DEF Slots
  <2>2. QED
    BY <1>7, <2>1, UserKept
<1>11. RefInv'
  <2>1. \A r \in here', v \in Vars : env'[<<r, v>>] = env[<<r, v>>]
    BY <1>2, <1>4, <1>5 DEF Tables
  <2>2. QED
    BY <1>1, <1>4, <1>7, <2>1, RefKept
<1>12. HandInv'
  BY <1>1, <1>7, HandKept
<1>13. EnvInv'
  <2>1. \A i \in Ids, r \in Services, v \in Vars : Listed(r, v, i) =>
           Listed(r, v, i)' \/ (r \notin here' /\ env'[<<r, v>>] = None)
    BY <1>4, <1>5, <1>6 DEF Listed
  <2>2. ASSUME backend = "memory", row' = None, NEW r \in Services PROVE attached'[<<1, r>>] = None
    <3>1. attached[<<1, r>>] = None /\ used = 1
      BY <1>1, <2>2 DEF IInv, EnvInv, GoneInv
    <3>2. 1 \in Ids
      BY <1>2, <3>1 DEF Tables
    <3>3. QED
      BY <1>6, <3>1, <3>2
  <2>3. QED
    BY <1>1, <1>2, <1>4, <1>5, <1>7, <1>9, <2>1, <2>2, EnvKept
<1>14. ~Deleted(c)' /\ call'[c].pc \notin Sweeping /\ ~Past(c)'
  BY <1>7, <1>8 DEF Deleted, Deletes, Sweeping, Past, Writers
<1>15. SweepInv'
  BY <1>1, <1>5, <1>7, <1>9, <1>14, SweepKept
<1>16. QED
  BY <1>1, <1>7, <1>9, <1>10, <1>11, <1>12, <1>13, <1>14, <1>15, SlotStep

\* The row of a resource goes with its attachments: of its variables only lost ones are left.
LEMMA DeleteStep == ASSUME IInv, NEW c \in Calls, deleteResource(c) PROVE IInv'
<1>1. /\ backend = "prisma" /\ backend' = backend /\ call[c].pc = "delete"
      /\ UNCHANGED <<used, here, secrets, env, vault, loose, faults>>
  BY DEF deleteResource, At
<1>2. Running(c) /\ Tables /\ call[c].op = "deleteResource" /\ call[c].todo = {} /\ Deletes(c)
  BY <1>1 DEF Running, Ended, IInv, TypeInv, Shape, Phase, Sweeping, Deletes
<1>3. PICK i \in Ids : i = call[c].id
  BY <1>2, RunningFacts DEF IInv
<1>4. CASE ~Live(i)
  <2>1. Goto(c, "failed") /\ UNCHANGED data
    BY <1>1, <1>3, <1>4 DEF deleteResource, data
  <2>2. faults' \in 0..MaxFaults
    BY <1>1, <1>2 DEF Tables
  <2>3. QED
    BY <1>1, <1>2, <2>1, <2>2, EndsStep
<1>5. CASE Live(i)
  <2>1. row' = None /\ Goto(c, "done") /\ row # None /\ row.id = i
    BY <1>3, <1>5 DEF deleteResource, Live
  <2>2. /\ attached' \in [Ids \X Services -> (SUBSET Vars) \cup {None}]
        /\ \A j \in Ids, r \in Services : attached'[<<j, r>>] = IF j = i THEN None ELSE attached[<<j, r>>]
    <3>1. attached' = [x \in Ids \X Services |-> IF x[1] = i THEN None ELSE attached[x]]
      BY <1>3, <1>5 DEF deleteResource
    <3>2. attached \in [Ids \X Services -> (SUBSET Vars) \cup {None}]
      BY <1>2 DEF Tables
    <3>3. QED
      BY <3>1, <3>2
  <2>3. Step(c) /\ call'[c].pc = "done" /\ call'[c].id = i /\ call'[c].todo = {}
    <3>1. "done" \in Pcs \ {"new"}
      BY DEF Pcs, Ended
    <3>2. QED
      BY <1>1, <1>2, <1>3, <2>1, <3>1, GotoStep DEF IInv
  <2>4. call'[c].op = "deleteResource"
    BY <1>2, <2>3, StepFacts
  <2>5. TypeInv'
    <3>1. Shape(c)'
      BY <1>1, <2>3, <2>4 DEF Shape, Phase, Sweeping
    <3>2. Tables'
      BY <1>1, <1>2, <2>1, <2>2 DEF Tables
    <3>3. QED
      BY <1>1, <1>3, <2>3, <3>1, <3>2, TypeSame DEF IInv
  <2>6. Deleted(c)' /\ ~Past(c)' /\ ~Mid(c)'
    BY <1>1, <2>3, <2>4 DEF Deleted, Deletes, Past, Writers, Mid
  <2>7. WithInv' /\ UserInv' /\ StaleInv' /\ HandInv'
    BY <1>1, <2>1, <2>3, WithKept, UserKept, StaleKept, HandKept DEF IInv
  <2>8. RefInv'
    BY <1>1, <2>3, RefKept
  <2>9. GoneInv'
    <3>1. \A d \in Calls : d # c => (Deleted(d)' <=> Deleted(d)) /\ (Past(d)' <=> Past(d)) /\ call'[d] = call[d]
      BY <1>1, <2>3, StepFacts DEF Deleted, Deletes, Past, Running
    <3>2. \A j : ~Live(j)'
      BY <2>1 DEF Live
    <3>3. ASSUME NEW j \in 1..used' PROVE \E d \in Calls : Deleted(d)' /\ call'[d].id = j
      <4>1. CASE j = i
        BY <2>3, <2>6, <4>1
      <4>2. CASE j # i
        <5>1. ~Live(j) /\ j \in 1..used
          BY <1>1, <2>1, <4>2 DEF Live
        <5>2. PICK d \in Calls : Deleted(d) /\ call[d].id = j
          BY <1>1, <5>1 DEF IInv, GoneInv
        <5>3. d # c
          BY <1>3, <4>2, <5>2
        <5>4. QED
          BY <3>1, <5>2, <5>3
      <4>3. QED
        BY <4>1, <4>2
    <3>4. ASSUME NEW d \in Calls, Deleted(d)', NEW q \in Calls, Past(q)', call'[q].id = call'[d].id
          PROVE  q \in call'[d].with
      <4>1. q # c /\ Past(q) /\ call'[q] = call[q]
        BY <2>6, <3>1, <3>4
      <4>2. CASE d = c
        <5>1. q \in call[c].with
          BY <1>2, <4>1, Meets DEF Past
        <5>2. QED
          BY <2>3, <4>2, <5>1, StepFacts
      <4>3. CASE d # c
        BY <3>1, <3>4, <4>1, <4>3 DEF IInv, GoneInv
      <4>4. QED
        BY <4>2, <4>3
    <3>5. backend' # "memory"
      BY <1>1
    <3>6. QED
      BY <3>2, <3>3, <3>4, <3>5 DEF GoneInv
  <2>10. SecretInv'
    BY <1>1, <2>3, <2>5, SecretKept
  <2>11. ASSUME NEW s \in Services, NEW v \in Vars, env[<<s, v>>] # None, env[<<s, v>>].source = i
         PROVE  Lost(s, v, i)
    BY <1>1, <1>2, <1>3, <2>11 DEF IInv, SweepInv, Sweeping
  <2>12. EnvInv'
    <3>1. \A j \in Ids, s \in Services, v \in Vars : Listed(s, v, j) => Listed(s, v, j)' \/ j = i
      BY <2>2 DEF Listed
    <3>2. QED
      BY <1>1, <1>2, <1>3, <2>3, <2>5, <2>11, <3>1, EnvKept
  <2>13. SweepInv'
    BY <1>1, <1>3, <2>3, <2>5, <2>11, SweepKept
  <2>14. ByInv'
    BY <1>1, <2>3, ByKept
  <2>15. WholeInv'
    BY <1>2, <2>1, <2>3, WholeOwn
  <2>16. QED
    BY <2>5, <2>7, <2>8, <2>9, <2>10, <2>12, <2>13, <2>14, <2>15 DEF IInv
<1>6. QED
  BY <1>4, <1>5

--------------------------------------------------------------------------------
(***************************************************************************)
(* Steps of the in-memory store                                            *)
(***************************************************************************)
\* The store knows one id, 1.
LEMMA OneId ==
    ASSUME IInv, NEW c \in Calls, backend = "memory", Running(c)
    PROVE  Tables /\ used = 1 /\ 1 \in Ids /\ call[c].id = 1 /\ (row # None => row \in Row /\ row.id = 1)
<1>1. Tables /\ used = 1 /\ 1 \in Ids
  BY DEF IInv, TypeInv, GoneInv, Tables
<1>2. \A n \in Ids : n <= 1 => n = 1
  <2>1. \A n \in Nat \ {0} : n <= 1 => n = 1
    OBVIOUS
  <2>2. QED
    BY <2>1, ResourcesAssumption
<1>3. call[c].id \in Ids /\ call[c].id <= used
  BY RunningFacts DEF IInv
<1>4. row # None => row \in Row /\ row.id <= used /\ row.id \in Ids
  BY <1>1 DEF Tables, Row
<1>5. QED
  BY <1>1, <1>2, <1>3, <1>4

LEMMA StoreCall ==
    ASSUME IInv, NEW c \in Calls, NEW op, InStore(c, op)
    PROVE  /\ backend = "memory" /\ call[c].op = op /\ Running(c)
           /\ call[c].pc \in {"create", "get", "vault", "row"}
           /\ op = "createResource" => call[c].pc = "create" /\ call[c].engine \in Engines /\ ~call[c].live
           /\ op \in {"updateResource", "provision"} => call[c].pc = "get" /\ ~call[c].live
           /\ op = "setEnvironment" => call[c].pc \in {"vault", "row"} /\ call[c].at \in Vars
<1>1. backend = "memory" /\ call[c].op = op /\ call[c].pc \in {"create", "get", "vault", "row"} /\ Shape(c)
  BY DEF InStore, IInv, TypeInv
<1>2. Running(c)
  BY <1>1 DEF Running, Ended
<1>3. op = "createResource" => call[c].pc = "create" /\ call[c].engine \in Engines /\ ~call[c].live
  BY <1>1 DEF Shape, Phase
<1>4. op \in {"updateResource", "provision"} => call[c].pc = "get" /\ ~call[c].live
  BY <1>1 DEF Shape, Phase
<1>5. op = "setEnvironment" => call[c].pc \in {"vault", "row"} /\ call[c].at \in Vars
  BY <1>1 DEF Shape, Phase
<1>6. QED
  BY <1>1, <1>2, <1>3, <1>4, <1>5

LEMMA MissingStep ==
    ASSUME IInv, NEW c \in Calls, backend = "memory", Running(c), call[c].pc # "removeVariable", Missing(c)
    PROVE  IInv'
<1>1. Goto(c, "missing") /\ backend' = backend /\ UNCHANGED data /\ faults' \in 0..MaxFaults
  BY DEF Missing, IInv, TypeInv, Tables
<1>2. ~Mid(c)
  BY DEF Mid
<1>3. QED
  BY <1>1, <1>2, EndsStep

\* Every key of the engine gets the same new secret.
LEMMA SecretsWritten ==
    ASSUME Tables, NEW i \in Ids, NEW e \in Engines, NEW c \in Calls, NEW l \in BOOLEAN,
           secrets' = SecretsOf(i, e, c, l)
    PROVE  /\ secrets' \in [Ids \X Keys -> Secret \cup {None}]
           /\ \A k \in EnvKeys[e] : secrets'[<<i, k>>] = [by |-> c, live |-> l]
<1>1. PICK y \in Secret : y = [by |-> c, live |-> l]
  BY SecretTyped
<1>3. secrets' = [x \in Ids \X Keys |-> IF x[1] = i /\ x[2] \in EnvKeys[e] THEN y ELSE secrets[x]]
  BY <1>1 DEF SecretsOf
<1>4. secrets \in [Ids \X Keys -> Secret \cup {None}]
  BY DEF Tables
<1>5. secrets' \in [Ids \X Keys -> Secret \cup {None}]
  BY <1>3, <1>4
<1>6. \A j \in Ids, k \in Keys :
         secrets'[<<j, k>>] = IF j = i /\ k \in EnvKeys[e] THEN y ELSE secrets[<<j, k>>]
  BY <1>3
<1>7. EnvKeys[e] \subseteq Keys
  BY DEF Keys
<1>8. QED
  BY <1>1, <1>5, <1>6, <1>7

\* A step of the store that writes the row, and the secrets of its engine or none.
LEMMA StoreRowStep ==
    ASSUME IInv, NEW c \in Calls, backend = "memory", backend' = backend, Running(c), Goto(c, "done"),
           call[c].op \in Writers, UNCHANGED <<used, here, attached, env, vault, loose, faults>>,
           row' \in Row, row'.id = 1,
           row'.status = "ready" => (row # None /\ row.status = "ready") \/ call[c].op = "provision",
           \/ /\ secrets' = secrets /\ row # None /\ row'.engine = row.engine
              /\ call[c].pc \notin {"secrets", "ready"}
           \/ \E e \in Engines, l \in BOOLEAN : /\ secrets' = SecretsOf(1, e, c, l) /\ l = call[c].live
                                                /\ Calm => row'.engine = e
    PROVE  IInv'
<1>1. Tables /\ used = 1 /\ 1 \in Ids /\ (row # None => row \in Row /\ row.id = 1)
  BY OneId
<1>2. Step(c) /\ call'[c].pc = "done" /\ call'[c].id = call[c].id /\ call'[c].live = call[c].live
  <2>1. "done" \in Pcs \ {"new"}
    BY DEF Pcs, Ended
  <2>2. QED
    BY <2>1, GotoStep DEF IInv
<1>3. call'[c].op = call[c].op
  BY <1>2, StepFacts
<1>4. row' # None
  BY RowIsSome
<1>5. /\ secrets' \in [Ids \X Keys -> Secret \cup {None}]
      /\ \A j \in Ids, k \in Keys : secrets'[<<j, k>>] = secrets[<<j, k>>] \/ secrets'[<<j, k>>].by = c
  <2>1. CASE secrets' = secrets
    BY <1>1, <2>1 DEF Tables
  <2>2. CASE secrets' # secrets
    <3>1. PICK e \in Engines, l \in BOOLEAN : secrets' = SecretsOf(1, e, c, l)
      BY <2>2
    <3>2. secrets' \in [Ids \X Keys -> Secret \cup {None}]
      BY <1>1, <3>1, SecretsWritten
    <3>3. ASSUME NEW j \in Ids, NEW k \in Keys
          PROVE  secrets'[<<j, k>>] = secrets[<<j, k>>] \/ secrets'[<<j, k>>].by = c
      <4>1. CASE j = 1 /\ k \in EnvKeys[e]
        <5>1. secrets'[<<1, k>>] = [by |-> c, live |-> l]
          BY <3>1, <4>1 DEF SecretsOf
        <5>2. QED
          BY <4>1, <5>1
      <4>2. CASE ~(j = 1 /\ k \in EnvKeys[e])
        BY <3>1, <4>2 DEF SecretsOf
      <4>3. QED
        BY <4>1, <4>2
    <3>4. QED
      BY <3>2, <3>3
  <2>3. QED
    BY <2>1, <2>2
<1>6. TypeInv'
  <2>1. Shape(c)'
    BY <1>2, <1>3 DEF Shape, Phase, Sweeping, Writers
  <2>2. Tables'
    <3>1. row'.id <= used'
      BY <1>1
    <3>2. QED
      BY <1>1, <1>5, <3>1 DEF Tables
  <2>3. QED
    BY <1>2, <2>1, <2>2, TypeSame DEF IInv
<1>7. ~Deleted(c)' /\ call'[c].pc \notin Sweeping
  BY <1>2 DEF Deleted, Sweeping
<1>8. GoneInv'
  BY <1>2, GoneKept
<1>9. SecretInv'
  BY <1>2, <1>4, <1>6, SecretKept
<1>10. ByInv'
  BY <1>2, <1>5, ByKept DEF Ended
<1>11. WholeInv'
  <2>1. ASSUME Calm' PROVE Whole'
    <3>1. Calm /\ ~Mid(c)
      BY <1>2, <2>1, CalmKept DEF Mid
    <3>2. CASE /\ secrets' = secrets /\ row # None /\ row'.engine = row.engine
               /\ call[c].pc \notin {"secrets", "ready"}
      <4>1. Whole
        BY <3>1, <3>2, WholeBefore
      <4>2. QED
        BY <1>1, <1>2, <3>2, <4>1, WholeSame
    <3>3. CASE \E e \in Engines, l \in BOOLEAN : /\ secrets' = SecretsOf(1, e, c, l) /\ l = call[c].live
                                                 /\ Calm => row'.engine = e
      <4>1. PICK e \in Engines, l \in BOOLEAN : secrets' = SecretsOf(1, e, c, l) /\ l = call[c].live /\ row'.engine = e
        BY <3>1, <3>3
      <4>2. \A k \in EnvKeys[e] : secrets'[<<1, k>>] = [by |-> c, live |-> l]
        BY <1>1, <4>1, SecretsWritten
      <4>3. QED
        BY <1>2, <4>1, <4>2, WrittenWhole
    <3>4. QED
      BY <3>2, <3>3
  <2>2. QED
    BY <1>2, <2>1, WholeOwn
<1>12. call[c].pc # "removeVariable" /\ call'[c].pc \notin {"update", "row", "vault", "removeSecret", "removeVariable"}
  BY <1>2 DEF IInv, TypeInv, Shape, Phase, Sweeping
<1>13. QED
  BY <1>2, <1>4, <1>6, <1>7, <1>8, <1>9, <1>10, <1>11, <1>12, RowStep

LEMMA StoreCreateStep == ASSUME IInv, NEW c \in Calls, storeCreateResource(c) PROVE IInv'
<1>1. /\ InStore(c, "createResource") /\ backend' = backend /\ Goto(c, "done")
      /\ UNCHANGED <<used, here, attached, env, vault, loose, faults>>
  BY DEF storeCreateResource
<1>2. backend = "memory" /\ call[c].op = "createResource" /\ Running(c)
  BY <1>1, StoreCall
<1>3. PICK e \in Engines : e = call[c].engine
  BY <1>1, StoreCall
<1>4. PICK l \in BOOLEAN : l = FALSE
  OBVIOUS
<1>5. l = call[c].live
  <2>1. ~call[c].live /\ call[c].live \in BOOLEAN
    BY <1>1, <1>2, StoreCall, RunningFacts DEF IInv
  <2>2. QED
    BY <1>4, <2>1
<1>6. row' = [id |-> 1, engine |-> e, status |-> "provisioning"] /\ secrets' = SecretsOf(1, e, c, l)
  BY <1>3, <1>4 DEF storeCreateResource
<1>7. row' \in Row /\ row'.id = 1 /\ row'.engine = e /\ row'.status = "provisioning"
  <2>1. 1 \in Ids
    BY <1>2, OneId
  <2>2. QED
    BY <1>6, <2>1 DEF Row
<1>8. call[c].op \in Writers
  BY <1>2 DEF Writers
<1>9. QED
  BY <1>1, <1>2, <1>5, <1>6, <1>7, <1>8, StoreRowStep

LEMMA StoreUpdateStep == ASSUME IInv, NEW c \in Calls, storeUpdateResource(c) PROVE IInv'
<1>1. InStore(c, "updateResource")
  BY DEF storeUpdateResource
<1>2. backend = "memory" /\ call[c].op = "updateResource" /\ Running(c) /\ call[c].pc = "get"
  BY <1>1, StoreCall
<1>3. Tables /\ 1 \in Ids /\ call[c].id = 1 /\ (row # None => row \in Row /\ row.id = 1)
  BY <1>2, OneId
<1>4. CASE ~Live(1)
  <2>1. Missing(c)
    BY <1>3, <1>4 DEF storeUpdateResource
  <2>2. QED
    BY <1>2, <2>1, MissingStep
<1>5. CASE Live(1)
  <2>1. /\ Goto(c, "done") /\ backend' = backend
        /\ row' = [row EXCEPT !.engine = IF call[c].engine = None THEN @ ELSE call[c].engine]
        /\ secrets' = IF call[c].engine = None THEN secrets ELSE SecretsOf(row.id, call[c].engine, c, FALSE)
        /\ UNCHANGED <<used, here, attached, env, vault, loose, faults>>
    BY <1>3, <1>5 DEF storeUpdateResource
  <2>2. row \in Row /\ row.id = 1 /\ row # None
    BY <1>3, <1>5 DEF Live
  <2>3. call[c].op \in Writers
    BY <1>2 DEF Writers
  <2>4. CASE call[c].engine = None
    <3>1. row' = [row EXCEPT !.engine = row.engine] /\ secrets' = secrets
      BY <2>1, <2>2, <2>4 DEF Row
    <3>2. row' \in Row /\ row'.id = 1 /\ row'.engine = row.engine /\ row'.status = row.status
      BY <2>2, <3>1 DEF Row
    <3>3. QED
      BY <1>2, <2>1, <2>2, <2>3, <3>1, <3>2, StoreRowStep
  <2>5. CASE call[c].engine # None
    <3>1. PICK e \in Engines : e = call[c].engine
      BY <1>2, <2>5, RunningFacts DEF IInv
    <3>2. PICK l \in BOOLEAN : l = FALSE
      OBVIOUS
    <3>3. l = call[c].live
      <4>1. ~call[c].live /\ call[c].live \in BOOLEAN
        BY <1>1, <1>2, StoreCall, RunningFacts DEF IInv
      <4>2. QED
        BY <3>2, <4>1
    <3>4. row' = [row EXCEPT !.engine = e] /\ secrets' = SecretsOf(1, e, c, l)
      BY <2>1, <2>2, <2>5, <3>1, <3>2
    <3>5. row' \in Row /\ row'.id = 1 /\ row'.engine = e /\ row'.status = row.status
      BY <2>2, <3>4 DEF Row
    <3>6. QED
      BY <1>2, <2>1, <2>2, <2>3, <3>3, <3>4, <3>5, StoreRowStep
  <2>6. QED
    BY <2>4, <2>5
<1>6. QED
  BY <1>4, <1>5

LEMMA StoreProvisionStep == ASSUME IInv, NEW c \in Calls, storeProvision(c) PROVE IInv'
<1>1. CASE /\ InStore(c, "provision")
           /\ call' = IF Live(call[c].id) THEN [call EXCEPT ![c].pc = "provider", ![c].engine = row.engine]
                      ELSE [call EXCEPT ![c].pc = "missing"]
           /\ UNCHANGED <<backend, data, faults>>
  <2>1. backend = "memory" /\ call[c].op = "provision" /\ Running(c) /\ call[c].pc = "get"
    BY <1>1, StoreCall
  <2>2. CASE ~Live(call[c].id)
    <3>1. Missing(c)
      BY <1>1, <2>2 DEF Missing, Goto
    <3>2. QED
      BY <2>1, <3>1, MissingStep
  <2>3. CASE Live(call[c].id)
    <3>1. backend' = backend /\ UNCHANGED data /\ faults' \in 0..MaxFaults /\ call \in [Calls -> Call] /\ call[c] \in Call
      BY <1>1 DEF IInv, TypeInv, Tables
    <3>2. PICK e \in Engines : e = row.engine
      BY <2>3 DEF Live, IInv, TypeInv, Tables, Row
    <3>3. PICK x : x = [call[c] EXCEPT !.pc = "provider", !.engine = e]
      OBVIOUS
    <3>4. x = [pc |-> "provider", op |-> call[c].op, id |-> call[c].id, svc |-> call[c].svc,
               prefix |-> call[c].prefix, engine |-> e, status |-> call[c].status, live |-> call[c].live,
               todo |-> call[c].todo, at |-> call[c].at, ref |-> call[c].ref, with |-> call[c].with]
      BY <3>1, <3>3 DEF Call
    <3>5. x \in Call
      <4>1. "provider" \in Pcs
        BY DEF Pcs
      <4>2. QED
        BY <3>1, <3>4, <4>1 DEF Call
    <3>6. /\ x.pc = "provider" /\ x.op = call[c].op /\ x.id = call[c].id /\ x.svc = call[c].svc
          /\ x.prefix = call[c].prefix /\ x.with = call[c].with /\ x.engine = e
      BY <3>4
    <3>7. call' = [call EXCEPT ![c] = x]
      <4>1. call' = [call EXCEPT ![c].pc = "provider", ![c].engine = e]
        BY <1>1, <2>3, <3>2
      <4>2. QED
        BY <3>1, <3>3, <4>1
    <3>8. Step(c) /\ call'[c] = x
      BY <2>1, <3>1, <3>5, <3>6, <3>7, StepOf DEF IInv
    <3>9. Shape(c)'
      BY <2>1, <3>1, <3>6, <3>8 DEF Shape, Phase, Sweeping
    <3>10. ~Deleted(c)' /\ ~Mid(c)
      BY <2>1, <3>6, <3>8 DEF Deleted, Mid
    <3>11. x.pc \notin Sweeping
      BY <3>6 DEF Sweeping
    <3>12. QED
      BY <2>1, <2>3, <3>1, <3>2, <3>6, <3>8, <3>9, <3>10, <3>11, QuietStep
  <2>4. QED
    BY <2>2, <2>3
<1>2. CASE /\ backend = "memory" /\ call[c].pc = "secrets"
           /\ \/ ~Live(call[c].id) /\ Missing(c)
              \/ /\ Live(call[c].id) /\ Goto(c, "done")
                 /\ row' = [row EXCEPT !.status = "ready"]
                 /\ secrets' = SecretsOf(row.id, call[c].engine, c, call[c].live)
                 /\ UNCHANGED <<backend, used, here, attached, env, vault, loose, faults>>
  <2>1. Running(c) /\ call[c].op = "provision"
    BY <1>2 DEF Running, Ended, IInv, TypeInv, Shape, Phase
  <2>2. CASE ~Live(call[c].id)
    BY <1>2, <2>1, <2>2, MissingStep
  <2>3. CASE Live(call[c].id)
    <3>1. row \in Row /\ row.id = 1 /\ row # None
      BY <1>2, <2>1, <2>3, OneId DEF Live
    <3>2. PICK e \in Engines : e = call[c].engine
      BY <1>2 DEF IInv, TypeInv, Shape, Phase
    <3>3. PICK l \in BOOLEAN : l = call[c].live
      BY <2>1, RunningFacts DEF IInv
    <3>4. row' = [row EXCEPT !.status = "ready"] /\ secrets' = SecretsOf(1, e, c, l)
      BY <1>2, <2>3, <3>1, <3>2, <3>3
    <3>5. row' \in Row /\ row'.id = 1 /\ row'.engine = row.engine
      BY <3>1, <3>4 DEF Row
    <3>6. Calm => row.engine = e
      BY <1>2, <3>2 DEF IInv, WholeInv
    <3>7. call[c].op \in Writers
      BY <2>1 DEF Writers
    <3>8. /\ Goto(c, "done") /\ backend' = backend
          /\ UNCHANGED <<used, here, attached, env, vault, loose, faults>>
      BY <1>2, <2>3
    <3>9. QED
      BY <1>2, <2>1, <3>3, <3>4, <3>5, <3>6, <3>7, <3>8, StoreRowStep
  <2>4. QED
    BY <2>2, <2>3
<1>3. QED
  BY <1>1, <1>2 DEF storeProvision

\* Each injected variable refers to its secret, which is the one it had, or new.
LEMMA InjectedTables ==
    ASSUME Tables, NEW s \in Services, NEW new \in SUBSET Vars, NEW so \in Ids \cup {User}, NEW c \in Calls,
           Injected(s, new, so, c)
    PROVE  /\ vault' \in [Slots -> Calls \cup {0, None}] /\ env' \in [Slots -> Variable \cup {None}]
           /\ \A z \in Slots :
                 \/ env'[z] = env[z] /\ vault'[z] = vault[z]
                 \/ /\ z[1] = s /\ z[2] \in new
                    /\ env'[z].source = so /\ env'[z].by = c /\ env'[z].ref = vault'[z]
                    /\ vault'[z] = vault[z] \/ vault[z] = None
<1> DEFINE id(v) == IF vault[<<s, v>>] = None THEN c ELSE vault[<<s, v>>]
<1>1. /\ vault' = [x \in Slots |-> IF x[1] = s /\ x[2] \in new THEN id(x[2]) ELSE vault[x]]
      /\ env' = [x \in Slots |->
                   IF x[1] = s /\ x[2] \in new THEN [source |-> so, ref |-> id(x[2]), by |-> c] ELSE env[x]]
  BY DEF Injected, Slots
<1>2. vault \in [Slots -> Calls \cup {0, None}] /\ env \in [Slots -> Variable \cup {None}]
  BY DEF Tables
<1>3. ASSUME NEW z \in Slots
      PROVE  /\ vault'[z] \in Calls \cup {0, None} /\ env'[z] \in Variable \cup {None}
             /\ \/ env'[z] = env[z] /\ vault'[z] = vault[z]
                \/ /\ z[1] = s /\ z[2] \in new
                   /\ env'[z].source = so /\ env'[z].by = c /\ env'[z].ref = vault'[z]
                   /\ vault'[z] = vault[z] \/ vault[z] = None
  <2>1. CASE ~(z[1] = s /\ z[2] \in new)
    <3>1. env'[z] = env[z] /\ vault'[z] = vault[z]
      BY <1>1, <2>1
    <3>2. QED
      BY <1>2, <3>1
  <2>2. CASE z[1] = s /\ z[2] \in new
    <3>1. z = <<s, z[2]>>
      BY <2>2 DEF Slots
    <3>2. PICK i \in Calls \cup {0, None} : i = id(z[2])
      BY <1>2, <3>1
    <3>3. vault'[z] = i /\ env'[z] = [source |-> so, ref |-> i, by |-> c]
      BY <1>1, <2>2, <3>2
    <3>4. /\ env'[z] \in Variable /\ env'[z].source = so /\ env'[z].by = c /\ env'[z].ref = i
      BY <3>3 DEF Variable
    <3>5. i = vault[z] \/ vault[z] = None
      BY <3>1, <3>2
    <3>6. QED
      BY <2>2, <3>2, <3>3, <3>4, <3>5
  <2>3. QED
    BY <2>1, <2>2
<1>4. vault' \in [Slots -> Calls \cup {0, None}]
  <2>1. vault' = [x \in Slots |-> vault'[x]]
    BY <1>1
  <2>2. QED
    BY <1>3, <2>1
<1>5. env' \in [Slots -> Variable \cup {None}]
  <2>1. env' = [x \in Slots |-> env'[x]]
    BY <1>1
  <2>2. QED
    BY <1>3, <2>1
<1>6. QED
  BY <1>3, <1>4, <1>5

\* A step of the store that writes variables.
LEMMA StoreSlotStep ==
    ASSUME IInv, NEW c \in Calls, backend = "memory", backend' = backend, Running(c), Goto(c, "done"),
           call[c].op \in {"attachResource", "setEnvironment"}, UNCHANGED <<row, used, here, secrets, faults>>,
           vault' \in [Slots -> Calls \cup {0, None}], env' \in [Slots -> Variable \cup {None}],
           attached' \in [Ids \X Services -> (SUBSET Vars) \cup {None}], loose \subseteq loose',
           \A z \in Slots : \/ env'[z] = env[z] /\ vault'[z] = vault[z]
                            \/ /\ env'[z].by = c /\ env'[z].ref \in {None, vault'[z]}
                               /\ vault'[z] = vault[z] \/ vault[z] = None,
           \A s \in Services, v \in Vars : \/ env'[<<s, v>>] = env[<<s, v>>] \/ env'[<<s, v>>].source = User
                                           \/ Listed(s, v, env[<<s, v>>].source)',
           \A j \in Ids, s \in Services, v \in Vars : Listed(s, v, j) => Listed(s, v, j)' \/ <<s, v, j>> \in loose',
           row # None \/ attached' = attached
    PROVE  IInv'
<1>1. Tables
  BY DEF IInv, TypeInv
<1>2. Step(c) /\ call'[c].pc = "done" /\ call'[c].id = call[c].id
  <2>1. "done" \in Pcs \ {"new"}
    BY DEF Pcs, Ended
  <2>2. QED
    BY <2>1, GotoStep DEF IInv
<1>3. call'[c].op = call[c].op
  BY <1>2, StepFacts
<1>4. TypeInv'
  <2>1. Shape(c)'
    BY <1>2, <1>3 DEF Shape, Phase, Sweeping
  <2>2. Tables'
    BY <1>1 DEF Tables
  <2>3. QED
    BY <1>2, <2>1, <2>2, TypeSame DEF IInv
<1>5. UserInv'
  BY <1>2, UserKept
<1>6. call[c].pc \notin Sweeping \cup {"secrets", "ready"}
  BY DEF IInv, TypeInv, Shape, Phase, Writers
<1>7. RefInv'
  <2>1. ASSUME NEW s \in here', NEW v \in Vars
        PROVE  Sound(s, v)' \/ (env'[<<s, v>>] = env[<<s, v>>] /\ vault'[<<s, v>>] = vault[<<s, v>>])
    <3>1. <<s, v>> \in Slots
      BY <1>1 DEF Slots, Tables
    <3>2. QED
      BY <3>1 DEF Sound
  <2>2. call[c].pc # "removeVariable" /\ here' \subseteq here
    BY <1>6 DEF Sweeping
  <2>3. QED
    BY <1>2, <2>1, <2>2, RefKept
<1>8. HandInv'
  BY <1>2, HandKept
<1>9. EnvInv'
  BY <1>2, <1>4, EnvKept
<1>10. ~Deleted(c)' /\ call'[c].pc \notin Sweeping /\ ~Past(c)'
  BY <1>2 DEF Deleted, Sweeping, Past, Running, Ended
<1>11. SweepInv'
  BY <1>2, <1>4, <1>10, SweepKept
<1>12. QED
  BY <1>2, <1>4, <1>5, <1>6, <1>7, <1>8, <1>9, <1>10, <1>11, SlotStep DEF Sweeping

LEMMA StoreAttachStep == ASSUME IInv, NEW c \in Calls, storeAttachResource(c) PROVE IInv'
<1>1. InStore(c, "attachResource")
  BY DEF storeAttachResource
<1>2. backend = "memory" /\ call[c].op = "attachResource" /\ Running(c) /\ call[c].pc # "removeVariable"
  BY <1>1, StoreCall
<1>3. Tables
  BY DEF IInv, TypeInv
<1>4. PICK i \in Ids : i = call[c].id
  BY <1>2, RunningFacts DEF IInv
<1>5. PICK s \in Services : s = call[c].svc
  BY <1>2, RunningFacts DEF IInv
<1>6. PICK stored : stored = {k \in Keys : secrets[<<i, k>>] # None}
  OBVIOUS
<1>7. PICK new : new = {<<call[c].prefix, k>> : k \in IF stored # {} THEN stored ELSE EnvKeys[row.engine]}
  OBVIOUS
<1>8. PICK old : old = IF attached[<<i, s>>] = None THEN {} ELSE attached[<<i, s>>]
  OBVIOUS
<1>9. CASE ~Live(i) \/ s \notin here
  <2>1. Missing(c)
    BY <1>4, <1>5, <1>9 DEF storeAttachResource
  <2>2. QED
    BY <1>2, <2>1, MissingStep
<1>10. CASE ~(~Live(i) \/ s \notin here)
  <2>1. /\ Goto(c, "done") /\ attached' = [attached EXCEPT ![<<i, s>>] = new] /\ Injected(s, new, i, c)
        /\ loose' = loose \cup {<<s, v, i>> : v \in old \ new}
        /\ backend' = backend /\ UNCHANGED <<row, used, here, secrets, faults>>
    <3>1. Goto(c, "done") /\ backend' = backend /\ UNCHANGED <<row, used, here, secrets, faults>>
      BY <1>4, <1>5, <1>10 DEF storeAttachResource
    <3>2. attached' = [attached EXCEPT ![<<i, s>>] = new]
      BY <1>4, <1>5, <1>6, <1>7, <1>10 DEF storeAttachResource
    <3>3. Injected(s, new, i, c)
      BY <1>4, <1>5, <1>6, <1>7, <1>10 DEF storeAttachResource
    <3>4. loose' = loose \cup {<<s, v, i>> : v \in old \ new}
      <4>1. Live(call[c].id) /\ call[c].svc \in here
        BY <1>4, <1>5, <1>10
      <4>2. loose' = loose \cup {<<call[c].svc, v, call[c].id>> : v \in
              (IF attached[<<call[c].id, call[c].svc>>] = None THEN {} ELSE attached[<<call[c].id, call[c].svc>>])
              \ {<<call[c].prefix, x>> : x \in IF {y \in Keys : secrets[<<call[c].id, y>>] # None} # {}
                                                THEN {y \in Keys : secrets[<<call[c].id, y>>] # None}
                                                ELSE EnvKeys[row.engine]}}
        BY <4>1 DEF storeAttachResource
      <4>3. QED
        BY <1>4, <1>5, <1>6, <1>7, <1>8, <4>2
    <3>5. QED
      BY <3>1, <3>2, <3>3, <3>4
  <2>2. new \in SUBSET Vars
    <3>1. row.engine \in Engines /\ call[c].prefix \in Prefixes
      BY <1>2, <1>3, <1>10, RunningFacts DEF Live, Tables, Row, IInv
    <3>2. EnvKeys[row.engine] \subseteq Keys /\ stored \subseteq Keys
      BY <1>6, <3>1 DEF Keys
    <3>3. QED
      BY <1>7, <3>1, <3>2 DEF Vars
  <2>3. /\ attached' \in [Ids \X Services -> (SUBSET Vars) \cup {None}]
        /\ \A v \in new : Listed(s, v, i)'
        /\ \A j \in Ids, r \in Services, v \in Vars :
              Listed(r, v, j) => Listed(r, v, j)' \/ <<r, v, j>> \in loose'
        /\ loose \subseteq loose'
    BY <1>3, <1>8, <2>1, <2>2, Replaced
  <2>4. /\ vault' \in [Slots -> Calls \cup {0, None}] /\ env' \in [Slots -> Variable \cup {None}]
        /\ \A z \in Slots :
              \/ env'[z] = env[z] /\ vault'[z] = vault[z]
              \/ /\ z[1] = s /\ z[2] \in new
                 /\ env'[z].source = i /\ env'[z].by = c /\ env'[z].ref = vault'[z]
                 /\ vault'[z] = vault[z] \/ vault[z] = None
    <3>1. PICK so \in Ids \cup {User} : so = i
      OBVIOUS
    <3>2. Injected(s, new, so, c)
      BY <2>1, <3>1
    <3>3. /\ vault' \in [Slots -> Calls \cup {0, None}] /\ env' \in [Slots -> Variable \cup {None}]
          /\ \A z \in Slots :
                \/ env'[z] = env[z] /\ vault'[z] = vault[z]
                \/ /\ z[1] = s /\ z[2] \in new
                   /\ env'[z].source = so /\ env'[z].by = c /\ env'[z].ref = vault'[z]
                   /\ vault'[z] = vault[z] \/ vault[z] = None
      BY <1>3, <2>2, <3>2, InjectedTables
    <3>4. QED
      BY <3>1, <3>3
  <2>5. ASSUME NEW r \in Services, NEW v \in Vars
        PROVE  env'[<<r, v>>] = env[<<r, v>>] \/ Listed(r, v, env[<<r, v>>].source)'
    <3>1. PICK z \in Slots : z = <<r, v>>
      BY DEF Slots
    <3>2. z[1] = r /\ z[2] = v
      BY <3>1
    <3>3. CASE env'[z] # env[z]
      <4>1. r = s /\ v \in new /\ env'[z].source = i
        BY <2>4, <3>2, <3>3
      <4>2. Listed(r, v, i)'
        BY <2>3, <4>1
      <4>3. QED
        BY <3>1, <4>1, <4>2 DEF Listed
    <3>4. QED
      BY <3>1, <3>3
  <2>6. row # None
    BY <1>10 DEF Live
  <2>7. QED
    BY <1>2, <2>1, <2>3, <2>4, <2>5, <2>6, StoreSlotStep
<1>11. QED
  BY <1>9, <1>10

LEMMA StoreSetStep == ASSUME IInv, NEW c \in Calls, storeSetEnvironment(c) PROVE IInv'
<1>1. InStore(c, "setEnvironment")
  BY DEF storeSetEnvironment
<1>2. /\ backend = "memory" /\ call[c].op = "setEnvironment" /\ Running(c) /\ call[c].pc \in {"vault", "row"}
      /\ call[c].at \in Vars
  BY <1>1, StoreCall
<1>3. Tables
  BY DEF IInv, TypeInv
<1>4. PICK s \in Services : s = call[c].svc
  BY <1>2, RunningFacts DEF IInv
<1>5. PICK v \in Vars : v = call[c].at
  BY <1>2
<1>6. CASE s \notin here
  <2>1. Missing(c)
    BY <1>4, <1>6 DEF storeSetEnvironment
  <2>2. QED
    BY <1>2, <2>1, MissingStep
<1>7. CASE s \in here
  <2>1. /\ Goto(c, "done") /\ backend' = backend /\ UNCHANGED <<row, used, here, secrets, attached, loose, faults>>
        /\ IF call[c].pc = "vault" THEN Injected(s, {v}, User, c)
           ELSE env' = [env EXCEPT ![<<s, v>>] = [source |-> User, ref |-> None, by |-> c]] /\ UNCHANGED vault
    BY <1>4, <1>5, <1>7 DEF storeSetEnvironment
  <2>2. \A r, w, j : Listed(r, w, j)' <=> Listed(r, w, j)
    BY <2>1 DEF Listed
  <2>3. /\ vault' \in [Slots -> Calls \cup {0, None}] /\ env' \in [Slots -> Variable \cup {None}]
        /\ \A z \in Slots :
              \/ env'[z] = env[z] /\ vault'[z] = vault[z]
              \/ /\ env'[z].source = User /\ env'[z].by = c /\ env'[z].ref \in {None, vault'[z]}
                 /\ vault'[z] = vault[z] \/ vault[z] = None
    <3>1. CASE call[c].pc = "vault"
      <4>1. PICK new \in SUBSET Vars : new = {v}
        OBVIOUS
      <4>2. PICK so \in Ids \cup {User} : so = User
        OBVIOUS
      <4>3. Injected(s, new, so, c)
        BY <2>1, <3>1, <4>1, <4>2
      <4>4. /\ vault' \in [Slots -> Calls \cup {0, None}] /\ env' \in [Slots -> Variable \cup {None}]
            /\ \A z \in Slots :
                  \/ env'[z] = env[z] /\ vault'[z] = vault[z]
                  \/ /\ z[1] = s /\ z[2] \in new
                     /\ env'[z].source = so /\ env'[z].by = c /\ env'[z].ref = vault'[z]
                     /\ vault'[z] = vault[z] \/ vault[z] = None
        BY <1>3, <4>3, InjectedTables
      <4>5. QED
        BY <4>2, <4>4
    <3>2. CASE call[c].pc # "vault"
      <4>1. PICK y : y = [source |-> User, ref |-> None, by |-> c]
        OBVIOUS
      <4>2. y \in Variable /\ y.source = User /\ y.ref = None /\ y.by = c
        BY <4>1 DEF Variable
      <4>3. PICK x \in Slots : x = <<s, v>>
        BY DEF Slots
      <4>4. env' = [env EXCEPT ![x] = y] /\ vault' = vault
        BY <2>1, <3>2, <4>1, <4>3
      <4>5. env \in [Slots -> Variable \cup {None}] /\ vault \in [Slots -> Calls \cup {0, None}]
        BY <1>3 DEF Tables
      <4>6. env' \in [Slots -> Variable \cup {None}] /\ env'[x] = y /\ \A z \in Slots : z # x => env'[z] = env[z]
        BY <4>2, <4>4, <4>5
      <4>7. QED
        BY <4>2, <4>4, <4>5, <4>6
    <3>3. QED
      BY <3>1, <3>2
  <2>4. attached' \in [Ids \X Services -> (SUBSET Vars) \cup {None}] /\ attached' = attached /\ loose \subseteq loose'
    BY <1>3, <2>1 DEF Tables
  <2>5. \A r \in Services, w \in Vars : env'[<<r, w>>] = env[<<r, w>>] \/ env'[<<r, w>>].source = User
    BY <2>3 DEF Slots
  <2>6. QED
    BY <1>2, <2>1, <2>2, <2>3, <2>4, <2>5, StoreSlotStep
<1>8. QED
  BY <1>6, <1>7

LEMMA StoreDeleteStep == ASSUME IInv, NEW c \in Calls, storeDeleteResource(c) PROVE IInv'
<1>1. InStore(c, "deleteResource")
  BY DEF storeDeleteResource
<1>2. /\ backend = "memory" /\ call[c].op = "deleteResource" /\ Running(c)
      /\ call[c].pc \in {"create", "get", "vault", "row"}
  BY <1>1, StoreCall
<1>3. Tables /\ used = 1 /\ 1 \in Ids /\ call[c].id = 1 /\ Deletes(c)
  BY <1>2, OneId DEF Deletes
<1>4. CASE ~Live(1)
  <2>1. Missing(c)
    BY <1>3, <1>4 DEF storeDeleteResource
  <2>2. QED
    BY <1>2, <2>1, MissingStep
<1>5. CASE Live(1)
  <2>1. PICK gone : gone = {x \in Slots : /\ attached[<<1, x[1]>>] # None /\ x[2] \in attached[<<1, x[1]>>]
                                          /\ env[x] # None /\ env[x].source = 1}
    OBVIOUS
  <2>2. row' = None /\ Goto(c, "done") /\ backend' = backend /\ UNCHANGED <<used, here, loose, faults>>
    BY <1>3, <1>5 DEF storeDeleteResource
  <2>3. env' = [x \in Slots |-> IF x \in gone THEN None ELSE env[x]]
    BY <1>3, <1>5, <2>1 DEF storeDeleteResource, Slots
  <2>4. vault' = [x \in Slots |-> IF x \in gone THEN None ELSE vault[x]]
    BY <1>3, <1>5, <2>1 DEF storeDeleteResource, Slots
  <2>5. attached' = [x \in Ids \X Services |-> IF x[1] = 1 THEN None ELSE attached[x]]
    BY <1>3, <1>5 DEF storeDeleteResource
  <2>6. secrets' = [x \in Ids \X Keys |-> IF x[1] = 1 THEN None ELSE secrets[x]]
    BY <1>3, <1>5 DEF storeDeleteResource
  <2>7. /\ env' \in [Slots -> Variable \cup {None}] /\ vault' \in [Slots -> Calls \cup {0, None}]
        /\ \A x \in Slots : (env'[x] = env[x] /\ vault'[x] = vault[x] /\ x \notin gone) \/ env'[x] = None
    <3>1. env \in [Slots -> Variable \cup {None}] /\ vault \in [Slots -> Calls \cup {0, None}]
      BY <1>3 DEF Tables
    <3>2. env' \in [Slots -> Variable \cup {None}]
      BY <2>3, <3>1
    <3>3. vault' \in [Slots -> Calls \cup {0, None}]
      BY <2>4, <3>1
    <3>4. QED
      BY <2>3, <2>4, <3>2, <3>3
  <2>8. /\ attached' \in [Ids \X Services -> (SUBSET Vars) \cup {None}]
        /\ \A j \in Ids, s \in Services : attached'[<<j, s>>] = IF j = 1 THEN None ELSE attached[<<j, s>>]
    <3>1. attached \in [Ids \X Services -> (SUBSET Vars) \cup {None}]
      BY <1>3 DEF Tables
    <3>2. QED
      BY <2>5, <3>1
  <2>9. /\ secrets' \in [Ids \X Keys -> Secret \cup {None}]
        /\ \A j \in Ids, k \in Keys : secrets'[<<j, k>>] = IF j = 1 THEN None ELSE secrets[<<j, k>>]
    <3>1. secrets \in [Ids \X Keys -> Secret \cup {None}]
      BY <1>3 DEF Tables
    <3>2. QED
      BY <2>6, <3>1
  <2>10. Step(c) /\ call'[c].pc = "done" /\ call'[c].id = call[c].id
    <3>1. "done" \in Pcs \ {"new"}
      BY DEF Pcs, Ended
    <3>2. QED
      BY <1>2, <2>2, <3>1, GotoStep DEF IInv
  <2>11. TypeInv'
    <3>1. Shape(c)'
      BY <1>2, <2>2, <2>10 DEF Shape, Phase, Sweeping
    <3>2. Tables'
      BY <1>3, <2>2, <2>7, <2>8, <2>9 DEF Tables
    <3>3. QED
      BY <2>2, <2>10, <3>1, <3>2, TypeSame DEF IInv
  <2>12. ~Deleted(c)' /\ call'[c].pc \notin Sweeping
    BY <1>2, <2>2, <2>10 DEF Deleted, Sweeping
  <2>13. WithInv' /\ StaleInv' /\ HandInv' /\ GoneInv'
    BY <1>2, <1>3, <2>2, <2>10, WithKept, StaleKept, HandKept, GoneKept DEF IInv
  <2>14. UserInv'
    BY <2>7, <2>10, UserKept
  <2>15. RefInv'
    <3>1. ASSUME NEW s \in here', NEW v \in Vars
          PROVE  Sound(s, v)' \/ (env'[<<s, v>>] = env[<<s, v>>] /\ vault'[<<s, v>>] = vault[<<s, v>>])
      <4>1. <<s, v>> \in Slots
        BY <1>3, <2>2, <3>1 DEF Slots, Tables
      <4>2. QED
        BY <2>7, <4>1 DEF Sound
    <3>2. here' \subseteq here /\ call[c].pc # "removeVariable"
      BY <1>2, <2>2
    <3>3. QED
      BY <2>10, <3>1, <3>2, RefKept
  <2>16. SecretInv'
    BY <1>2, <1>3, <2>9, <2>10, <2>11, SecretKept
  <2>17. EnvInv'
    <3>1. ASSUME NEW j \in Ids, NEW s \in Services, NEW v \in Vars, Listed(s, v, j)
          PROVE  Listed(s, v, j)' \/ (j = 1 /\ ~(env'[<<s, v>>] # None /\ env'[<<s, v>>].source = j))
      <4>1. CASE j # 1
        BY <2>8, <3>1, <4>1 DEF Listed
      <4>2. CASE j = 1
        <5>1. PICK z \in Slots : z = <<s, v>>
          BY DEF Slots
        <5>2. z[1] = s /\ z[2] = v
          BY <5>1
        <5>3. env[z] # None /\ env[z].source = 1 => z \in gone
          BY <2>1, <3>1, <4>2, <5>2 DEF Listed
        <5>4. QED
          BY <2>7, <4>2, <5>1, <5>3
      <4>3. QED
        BY <4>1, <4>2
    <3>2. \A s \in Services, v \in Vars : env'[<<s, v>>] # None => env'[<<s, v>>] = env[<<s, v>>]
      BY <2>7 DEF Slots
    <3>3. \A s \in Services : attached'[<<1, s>>] = None
      BY <1>3, <2>8
    <3>4. QED
      BY <1>2, <1>3, <2>2, <2>10, <2>11, <3>1, <3>2, <3>3, EnvKept
  <2>18. SweepInv'
    BY <1>2, <2>2, <2>10, <2>11, <2>12, SweepKept
  <2>19. ByInv'
    BY <1>2, <2>9, <2>10, ByKept
  <2>20. WholeInv'
    BY <1>2, <2>2, <2>10, WholeOwn
  <2>21. QED
    BY <2>11, <2>13, <2>14, <2>15, <2>16, <2>17, <2>18, <2>19, <2>20 DEF IInv
<1>6. QED
  BY <1>4, <1>5

LEMMA StoreStepKept == ASSUME IInv, NEW c \in Calls, StoreStep(c) PROVE IInv'
BY StoreCreateStep, StoreUpdateStep, StoreProvisionStep, StoreAttachStep, StoreSetStep, StoreDeleteStep
   DEF StoreStep

--------------------------------------------------------------------------------
(***************************************************************************)
(* A call starts                                                           *)
(***************************************************************************)
\* Everything of a call but the calls it remembers.
Same(q) == /\ call'[q].pc = call[q].pc /\ call'[q].op = call[q].op /\ call'[q].id = call[q].id
           /\ call'[q].svc = call[q].svc /\ call'[q].prefix = call[q].prefix
           /\ call'[q].engine = call[q].engine /\ call'[q].status = call[q].status
           /\ call'[q].live = call[q].live /\ call'[q].todo = call[q].todo /\ call'[q].at = call[q].at
           /\ call'[q].ref = call[q].ref

Started(c) ==
    /\ call[c].pc = "new" /\ call' \in [Calls -> Call] /\ UNCHANGED <<backend, data, faults>>
    /\ \A q \in Calls \ {c} :
          Same(q) /\ call'[q].with = IF Running(q) THEN call[q].with \cup {c} ELSE call[q].with
    /\ call'[c].with = {q \in Calls : Running(q)} /\ Begun(c)' /\ Shape(c)' /\ call'[c].ref = None
    /\ call'[c].pc \in {"create", "get", "vault", "row", "deleteService"}
    /\ call'[c].op \in Writers \cup {"attachResource"} => call'[c].pc \in {"create", "get"}

LEMMA StartIs ==
    ASSUME IInv, NEW c \in Calls, call[c].pc = "new", NEW op \in Ops, NEW s \in Services, NEW p \in Prefixes,
           NEW e \in Engines \cup {None}, NEW v \in Vars, NEW secret \in BOOLEAN,
           op = "createResource" => e # None, start(c, op, s, p, e, v, secret)
    PROVE  Started(c)
<1>1. call \in [Calls -> Call] /\ Tables
  BY DEF IInv, TypeInv
<1>2. PICK others : others = {q \in Calls : Running(q)}
  OBVIOUS
<1>3. c \notin others /\ others \subseteq Calls
  BY <1>2 DEF Running
<1>4. PICK i \in Ids : i = (IF row # None THEN row.id ELSE used) /\ i <= used
  <2>1. CASE row # None
    BY <1>1, <2>1 DEF Tables, Row
  <2>2. CASE row = None
    <3>1. used \in Ids /\ used \in Nat
      BY <1>1, ResourcesAssumption DEF Tables
    <3>2. QED
      BY <2>2, <3>1
  <2>3. QED
    BY <2>1, <2>2
<1>5. PICK t : t = IF op = "setEnvironment" THEN {v} ELSE {}
  OBVIOUS
<1>6. PICK at : at = IF op = "setEnvironment" THEN v ELSE None
  OBVIOUS
<1>7. PICK pc \in {"create", "get", "vault", "row", "deleteService"} :
         pc = CASE op = "createResource" -> "create"
                [] op = "setEnvironment" -> (IF secret THEN "vault" ELSE "row")
                [] op = "deleteService" -> "deleteService"
                [] OTHER -> "get"
  OBVIOUS
<1>8. /\ pc = "create" <=> op = "createResource"
      /\ pc \in {"vault", "row"} <=> op = "setEnvironment"
      /\ pc = "deleteService" <=> op = "deleteService"
      /\ pc = "get" <=> op \in {"updateResource", "deleteResource", "provision", "attachResource"}
  BY <1>7 DEF Ops
<1>9. PICK no \in BOOLEAN : no = FALSE
  OBVIOUS
<1>10. PICK x : x = [pc |-> pc, op |-> op, id |-> i, svc |-> s, prefix |-> p, engine |-> e, status |-> None,
                     live |-> no, todo |-> t, at |-> at, ref |-> None, with |-> others]
  OBVIOUS
<1>11. x = [NoCall EXCEPT !.op = op, !.svc = s, !.prefix = p, !.engine = e, !.with = others, !.id = i,
               !.todo = t, !.at = at, !.pc = pc]
  <2>1. NoCall = [pc |-> "new", op |-> "none", id |-> None, svc |-> None, prefix |-> None, engine |-> None,
                  status |-> None, live |-> no, todo |-> {}, at |-> None, ref |-> None, with |-> {}]
    BY <1>9, Zenon DEF NoCall
  <2>2. PICK n : n = NoCall
    OBVIOUS
  <2>3. PICK m : m = [n EXCEPT !.op = op, !.svc = s, !.prefix = p, !.engine = e]
    OBVIOUS
  <2>4. m = [pc |-> "new", op |-> op, id |-> None, svc |-> s, prefix |-> p, engine |-> e,
             status |-> None, live |-> no, todo |-> {}, at |-> None, ref |-> None, with |-> {}]
    BY <2>1, <2>2, <2>3
  <2>5. PICK l : l = [m EXCEPT !.with = others, !.id = i, !.todo = t]
    OBVIOUS
  <2>6. l = [pc |-> "new", op |-> op, id |-> i, svc |-> s, prefix |-> p, engine |-> e,
             status |-> None, live |-> no, todo |-> t, at |-> None, ref |-> None, with |-> others]
    BY <2>4, <2>5
  <2>7. PICK k : k = [l EXCEPT !.at = at, !.pc = pc]
    OBVIOUS
  <2>8. k = x
    <3>1. PICK g : g = pc
      OBVIOUS
    <3>2. k = [l EXCEPT !.at = at, !.pc = g]
      BY <2>7, <3>1
    <3>3. k = [pc |-> g, op |-> op, id |-> i, svc |-> s, prefix |-> p, engine |-> e, status |-> None,
               live |-> no, todo |-> t, at |-> at, ref |-> None, with |-> others]
      BY <2>6, <3>2
    <3>4. QED
      BY <1>10, <3>1, <3>3
  <2>9. k = [n EXCEPT !.op = op, !.svc = s, !.prefix = p, !.engine = e, !.with = others, !.id = i,
               !.todo = t, !.at = at, !.pc = pc]
    BY <2>3, <2>5, <2>7, Zenon
  <2>10. QED
    BY <2>2, <2>8, <2>9
<1>12. x \in Call
  <2>1. pc \in Pcs /\ t \subseteq Vars /\ at \in Vars \cup {None}
    BY <1>5, <1>6 DEF Pcs
  <2>2. QED
    BY <1>3, <1>10, <2>1 DEF Call
<1>13. /\ x.pc = pc /\ x.op = op /\ x.id = i /\ x.svc = s /\ x.prefix = p /\ x.engine = e /\ x.live = no
       /\ x.todo = t /\ x.at = at /\ x.ref = None /\ x.with = others
  BY <1>10
<1>14. /\ call' = [q \in Calls |-> IF q = c THEN x
                                   ELSE IF q \in others THEN [call[q] EXCEPT !.with = @ \cup {c}] ELSE call[q]]
       /\ UNCHANGED <<backend, data, faults>>
  <2>1. /\ call' = [q \in Calls |->
            IF q = c
            THEN [NoCall EXCEPT !.op = op, !.svc = s, !.prefix = p, !.engine = e, !.with = others,
                     !.id = i, !.todo = t, !.at = at, !.pc = pc]
            ELSE IF q \in others THEN [call[q] EXCEPT !.with = @ \cup {c}] ELSE call[q]]
        /\ UNCHANGED <<backend, data, faults>>
    BY <1>2, <1>4, <1>5, <1>6, <1>7 DEF start
  <2>2. QED
    BY <1>11, <2>1
<1>15. ASSUME NEW q \in Calls \ {c}
       PROVE  /\ Same(q) /\ call'[q] \in Call
              /\ call'[q].with = IF Running(q) THEN call[q].with \cup {c} ELSE call[q].with
  <2>1. call[q] \in Call /\ (q \in others <=> Running(q))
    BY <1>1, <1>2
  <2>2. CASE q \in others
    <3>1. PICK y : y = [call[q] EXCEPT !.with = @ \cup {c}]
      OBVIOUS
    <3>2. y \in Call /\ y.with = call[q].with \cup {c}
      BY <2>1, <3>1 DEF Call
    <3>3. /\ y.pc = call[q].pc /\ y.op = call[q].op /\ y.id = call[q].id /\ y.svc = call[q].svc
          /\ y.prefix = call[q].prefix /\ y.engine = call[q].engine
      BY <2>1, <3>1 DEF Call
    <3>4. /\ y.status = call[q].status /\ y.live = call[q].live /\ y.todo = call[q].todo
          /\ y.at = call[q].at /\ y.ref = call[q].ref
      BY <2>1, <3>1 DEF Call
    <3>5. call'[q] = y
      BY <1>14, <2>2, <3>1
    <3>6. QED
      BY <2>1, <2>2, <3>2, <3>3, <3>4, <3>5 DEF Same
  <2>3. CASE q \notin others
    <3>1. call'[q] = call[q]
      BY <1>14, <2>3
    <3>2. QED
      BY <2>1, <2>3, <3>1 DEF Same
  <2>4. QED
    BY <2>2, <2>3
<1>16. call'[c] = x
  BY <1>14
<1>17. call' \in [Calls -> Call]
  <2>1. \A q \in Calls : call'[q] \in Call
    BY <1>12, <1>15, <1>16
  <2>2. call' = [q \in Calls |-> call'[q]]
    BY <1>14
  <2>3. QED
    BY <2>1, <2>2
<1>18. Begun(c)'
  <2>1. used' = used
    BY <1>14 DEF data
  <2>2. QED
    BY <1>4, <1>13, <1>16, <2>1 DEF Begun
<1>19. Shape(c)'
  <2>1. op = "createResource" => e \in Engines
    OBVIOUS
  <2>2. op = "setEnvironment" => t = {v} /\ at = v
    BY <1>5, <1>6
  <2>3. QED
    BY <1>8, <1>9, <1>13, <1>16, <2>1, <2>2 DEF Shape, Phase, Sweeping
<1>20. call'[c].op \in Writers \cup {"attachResource"} => call'[c].pc \in {"create", "get"}
  BY <1>8, <1>13, <1>16 DEF Writers
<1>21. QED
  BY <1>2, <1>13, <1>14, <1>15, <1>16, <1>17, <1>18, <1>19, <1>20 DEF Started

LEMMA StartedData ==
    ASSUME NEW c \in Calls, Started(c)
    PROVE  /\ backend' = backend /\ row' = row /\ used' = used /\ here' = here /\ secrets' = secrets
           /\ attached' = attached /\ env' = env /\ vault' = vault /\ loose' = loose /\ faults' = faults
BY DEF Started, data

LEMMA StartedFacts ==
    ASSUME IInv, NEW c \in Calls, Started(c)
    PROVE  /\ call[c].op = "none" /\ ~Running(c) /\ ~Deletes(c) /\ ~Deleted(c) /\ ~Mid(c)
           /\ ~Deleted(c)' /\ ~Past(c)' /\ ~Mid(c)' /\ Running(c)'
           /\ \A q \in Calls \ {c} :
                 /\ Same(q) /\ call[q].with \subseteq call'[q].with
                 /\ Running(q)' <=> Running(q)
                 /\ Deletes(q)' <=> Deletes(q)
                 /\ Deleted(q)' <=> Deleted(q)
                 /\ Past(q)' <=> Past(q)
                 /\ Mid(q)' <=> Mid(q)
<1>1. call[c].pc = "new" /\ Begun(c) /\ backend' = backend
  BY StartedData DEF Started, IInv, TypeInv
<1>2. call[c].op = "none"
  BY <1>1 DEF Begun
<1>3. ~Running(c) /\ ~Deletes(c) /\ ~Deleted(c) /\ ~Mid(c)
  BY <1>1, <1>2 DEF Running, Deletes, Deleted, Mid
<1>4. /\ call'[c].pc \in {"create", "get", "vault", "row", "deleteService"}
      /\ call'[c].op \in Writers \cup {"attachResource"} => call'[c].pc \in {"create", "get"}
  BY DEF Started
<1>5. ~Deleted(c)' /\ ~Past(c)' /\ ~Mid(c)' /\ Running(c)'
  BY <1>4 DEF Running, Ended, Deleted, Past, Mid
<1>6. ASSUME NEW q \in Calls \ {c}
      PROVE  /\ Same(q) /\ call[q].with \subseteq call'[q].with
             /\ Running(q)' <=> Running(q)
             /\ Deletes(q)' <=> Deletes(q)
             /\ Deleted(q)' <=> Deleted(q)
             /\ Past(q)' <=> Past(q)
             /\ Mid(q)' <=> Mid(q)
  <2>1. Same(q) /\ call[q].with \subseteq call'[q].with
    BY DEF Started
  <2>2. call'[q].pc = call[q].pc /\ call'[q].op = call[q].op
    BY <2>1 DEF Same
  <2>3. QED
    BY <1>1, <2>1, <2>2 DEF Running, Deletes, Deleted, Past, Mid
<1>7. QED
  BY <1>2, <1>3, <1>5, <1>6

\* What overlapped still does: the new call had no operation.
LEMMA StartedOverlaps ==
    ASSUME IInv, NEW c \in Calls, Started(c), NEW q \in Calls \ {c}, NEW ops, "none" \notin ops, Overlaps(q, ops)
    PROVE  Overlaps(q, ops)'
<1>1. PICK p \in call[q].with : call[p].op \in ops
  BY DEF Overlaps
<1>2. p \in Calls /\ p # c
  BY <1>1, WithTyped, StartedFacts DEF IInv
<1>3. call'[p].op = call[p].op /\ p \in call'[q].with
  BY <1>1, <1>2, StartedFacts DEF Same
<1>4. QED
  BY <1>1, <1>3 DEF Overlaps

LEMMA StartedRaced ==
    ASSUME IInv, NEW c \in Calls, Started(c), NEW id, NEW ops, "none" \notin ops, Raced(id, ops)
    PROVE  Raced(id, ops)'
<1>1. PICK d \in Calls : Deletes(d) /\ call[d].id = id /\ Overlaps(d, ops)
  BY DEF Raced
<1>2. d # c
  BY <1>1, StartedFacts
<1>3. Deletes(d)' /\ call'[d].id = id
  BY <1>1, <1>2, StartedFacts DEF Same
<1>4. Overlaps(d, ops)'
  BY <1>1, <1>2, StartedOverlaps
<1>5. QED
  BY <1>3, <1>4, StartedData DEF Raced

LEMMA StartedCalm == ASSUME IInv, NEW c \in Calls, Started(c), Calm' PROVE Calm
<1> SUFFICES ASSUME NEW q \in Calls, call[q].op \in Writers \cup {"deleteResource"}
             PROVE  call[q].pc # "failed" /\ ~Overlaps(q, Writers)
  BY DEF Calm
<1>1. q # c
  BY StartedFacts DEF Writers
<1>2. call'[q].op = call[q].op /\ call'[q].pc = call[q].pc
  BY <1>1, StartedFacts DEF Same
<1>3. call'[q].pc # "failed" /\ ~Overlaps(q, Writers)'
  BY <1>2 DEF Calm
<1>4. "none" \notin Writers
  BY DEF Writers
<1>5. QED
  BY <1>1, <1>2, <1>3, <1>4, StartedOverlaps

LEMMA StartedType == ASSUME IInv, NEW c \in Calls, Started(c) PROVE TypeInv'
<1>1. Tables'
  BY StartedData DEF IInv, TypeInv, Tables
<1>2. ASSUME NEW q \in Calls \ {c} PROVE Begun(q)' /\ Shape(q)'
  <2>1. Same(q) /\ call'[q].with = (IF Running(q) THEN call[q].with \cup {c} ELSE call[q].with)
    BY DEF Started
  <2>2. Begun(q) /\ Shape(q)
    BY DEF IInv, TypeInv
  <2>3. Begun(q)'
    BY <2>1, <2>2, StartedData DEF Begun, Same, Running
  <2>4. Shape(q)'
    BY <2>1, <2>2, StartedData DEF Shape, Phase, Same
  <2>5. QED
    BY <2>3, <2>4
<1>3. call' \in [Calls -> Call] /\ Begun(c)' /\ Shape(c)'
  BY DEF Started
<1>4. QED
  BY <1>1, <1>2, <1>3 DEF TypeInv

LEMMA StartedWhole == ASSUME IInv, NEW c \in Calls, Started(c), Whole, row # None PROVE Whole'
<1>1. PICK i, ks : i = row.id /\ ks = EnvKeys[row.engine]
  OBVIOUS
<1>2. PICK x \in {secrets[<<i, k>>] : k \in ks} \ {None} :
            /\ \A k \in ks : secrets[<<i, k>>] = x
            /\ x.live = (x.by # 0 /\ call[x.by].live)
  BY <1>1 DEF Whole
<1>3. PICK k \in ks : x = secrets[<<i, k>>]
  BY <1>2
<1>4. row \in Row /\ i \in Ids /\ k \in Keys
  <2>1. row \in Row
    BY DEF IInv, TypeInv, Tables
  <2>2. QED
    BY <1>1, <1>3, <2>1 DEF Row, Keys
<1>5. x \in Secret
  BY <1>2, <1>3, <1>4 DEF IInv, TypeInv, Tables
<1>6. x.by # 0 => call'[x.by].live = call[x.by].live
  <2> SUFFICES ASSUME x.by # 0 PROVE call'[x.by].live = call[x.by].live
    OBVIOUS
  <2>1. x.by \in Calls
    BY <1>5 DEF Secret
  <2>2. call[x.by].pc \in {"secrets", "ready"} \cup Ended
    BY <1>2, <1>3, <1>4 DEF IInv, ByInv
  <2>3. x.by # c
    BY <2>2 DEF Started, Ended
  <2>4. QED
    BY <2>1, <2>3, StartedFacts DEF Same
<1>7. x.live = (x.by # 0 /\ call'[x.by].live)
  BY <1>2, <1>6
<1>8. row' = row /\ secrets' = secrets
  BY StartedData
<1>9. x \in {secrets'[<<i, z>>] : z \in ks} \ {None} /\ \A z \in ks : secrets'[<<i, z>>] = x
  BY <1>2, <1>8
<1>10. row'.id = i /\ EnvKeys[row'.engine] = ks
  BY <1>1, <1>8
<1>11. QED
  BY <1>7, <1>9, <1>10 DEF Whole

LEMMA StartedStep == ASSUME IInv, NEW c \in Calls, Started(c) PROVE IInv'
<1>1. /\ backend' = backend /\ row' = row /\ used' = used /\ here' = here /\ secrets' = secrets
      /\ attached' = attached /\ env' = env /\ vault' = vault /\ loose' = loose
  BY StartedData
<1>2. /\ call[c].op = "none" /\ ~Running(c) /\ ~Deletes(c) /\ ~Deleted(c) /\ ~Mid(c)
      /\ ~Deleted(c)' /\ ~Past(c)' /\ ~Mid(c)' /\ Running(c)'
      /\ \A q \in Calls \ {c} :
            /\ Same(q) /\ call[q].with \subseteq call'[q].with
            /\ Running(q)' <=> Running(q)
            /\ Deletes(q)' <=> Deletes(q)
            /\ Deleted(q)' <=> Deleted(q)
            /\ Past(q)' <=> Past(q)
            /\ Mid(q)' <=> Mid(q)
  BY StartedFacts
<1>3. /\ call'[c].pc \in {"create", "get", "vault", "row", "deleteService"} /\ call'[c].ref = None
      /\ call'[c].op \in Writers \cup {"attachResource"} => call'[c].pc \in {"create", "get"}
  BY DEF Started
<1>4. TypeInv'
  BY StartedType
<1>5. WithInv'
  <2> SUFFICES ASSUME NEW p \in Calls, NEW q \in Calls, p # q, Running(p)', Running(q)'
               PROVE  p \in call'[q].with
    BY DEF WithInv
  <2>1. CASE p = c
    <3>1. Running(q) /\ q # c
      BY <1>2, <2>1
    <3>2. QED
      BY <2>1, <3>1 DEF Started
  <2>2. CASE q = c
    <3>1. Running(p) /\ p # c
      BY <1>2, <2>2
    <3>2. QED
      BY <2>2, <3>1 DEF Started
  <2>3. CASE p # c /\ q # c
    BY <1>2, <2>3 DEF IInv, WithInv
  <2>4. QED
    BY <2>1, <2>2, <2>3
<1>6. UserInv'
  <2> SUFFICES ASSUME NEW d \in Calls, call'[d].pc \in {"removeSecret", "removeVariable"},
                      NEW x, x = call'[d].at, env'[x] # None, env'[x].source = User
               PROVE  env'[x].by \in call'[d].with
    BY DEF UserInv
  <2>1. d # c
    BY <1>3
  <2>2. call[d].pc = call'[d].pc /\ call[d].at = x
    BY <1>2, <2>1 DEF Same
  <2>3. env[x].by \in call[d].with
    BY <1>1, <2>2 DEF IInv, UserInv
  <2>4. QED
    BY <1>1, <1>2, <2>1, <2>3
<1>7. StaleInv'
  <2> SUFFICES ASSUME NEW d \in Calls, call'[d].pc = "update", row' # None, row'.status = "ready",
                      call'[d].status # "ready"
               PROVE  Overlaps(d, {"provision", "updateResource"})'
    BY DEF StaleInv
  <2>1. d # c
    BY <1>3
  <2>2. call[d].pc = "update" /\ call[d].status # "ready"
    BY <1>2, <2>1 DEF Same
  <2>3. Overlaps(d, {"provision", "updateResource"})
    BY <1>1, <2>2 DEF IInv, StaleInv
  <2>4. QED
    BY <2>1, <2>3, StartedOverlaps
<1>8. RefInv'
  <2> SUFFICES ASSUME NEW s \in here', NEW v \in Vars,
                      env'[<<s, v>>] # None, env'[<<s, v>>].ref # None, vault'[<<s, v>>] # env'[<<s, v>>].ref
               PROVE  \E d \in Calls : /\ Deletes(d)'
                             /\ \/ call'[d].at = <<s, v>> /\ call'[d].pc \in {"removeVariable", "failed"}
                                \/ env'[<<s, v>>].by \in call'[d].with
    BY DEF RefInv
  <2>1. PICK d \in Calls : /\ Deletes(d)
                           /\ \/ call[d].at = <<s, v>> /\ call[d].pc \in {"removeVariable", "failed"}
                              \/ env[<<s, v>>].by \in call[d].with
    BY <1>1 DEF IInv, RefInv
  <2>2. d # c
    BY <1>2, <2>1
  <2>3. Deletes(d)' /\ call'[d].at = call[d].at /\ call'[d].pc = call[d].pc /\ call[d].with \subseteq call'[d].with
    BY <1>2, <2>1, <2>2 DEF Same
  <2>4. QED
    BY <1>1, <2>1, <2>3
<1>9. HandInv'
  <2> SUFFICES ASSUME NEW q \in Calls, call'[q].pc = "row", call'[q].ref # None,
                      vault'[<<call'[q].svc, call'[q].at>>] # call'[q].ref
               PROVE  \E d \in Calls : Deletes(d)' /\ q \in call'[d].with
    BY DEF HandInv
  <2>1. q # c
    BY <1>3
  <2>2. call[q].pc = "row" /\ call[q].ref # None /\ vault[<<call[q].svc, call[q].at>>] # call[q].ref
    BY <1>1, <1>2, <2>1 DEF Same
  <2>3. PICK d \in Calls : Deletes(d) /\ q \in call[d].with
    BY <2>2 DEF IInv, HandInv
  <2>4. d # c
    BY <1>2, <2>3
  <2>5. QED
    BY <1>2, <2>3, <2>4
<1>10. GoneInv'
  <2>1. \A j : Live(j)' <=> Live(j)
    BY <1>1 DEF Live
  <2>2. ASSUME backend = "prisma", NEW j \in 1..used'
        PROVE  Live(j)' \/ \E d \in Calls : Deleted(d)' /\ call'[d].id = j
    <3>1. Live(j) \/ \E d \in Calls : Deleted(d) /\ call[d].id = j
      BY <1>1, <2>2 DEF IInv, GoneInv
    <3>2. CASE Live(j)
      BY <2>1, <3>2
    <3>3. CASE \E d \in Calls : Deleted(d) /\ call[d].id = j
      <4>1. PICK d \in Calls : Deleted(d) /\ call[d].id = j
        BY <3>3
      <4>2. d # c
        BY <1>2, <4>1
      <4>3. QED
        BY <1>2, <4>1, <4>2 DEF Same
    <3>4. QED
      BY <3>1, <3>2, <3>3
  <2>3. ASSUME NEW d \in Calls, Deleted(d)'
        PROVE  (~Live(call[d].id) /\ \A q \in Calls : Past(q) /\ call[q].id = call[d].id => q \in call[d].with)'
    <3>1. d # c
      BY <1>2, <2>3
    <3>2. Deleted(d) /\ call'[d].id = call[d].id /\ call[d].with \subseteq call'[d].with
      BY <1>2, <2>3, <3>1 DEF Same
    <3>3. PICK j : j = call[d].id
      OBVIOUS
    <3>4. ~Live(j) /\ \A q \in Calls : Past(q) /\ call[q].id = j => q \in call[d].with
      BY <3>2, <3>3 DEF IInv, GoneInv
    <3>5. ASSUME NEW q \in Calls, Past(q)', call'[q].id = j PROVE q \in call'[d].with
      <4>1. q # c
        BY <1>2, <3>5
      <4>2. Past(q) /\ call[q].id = j
        BY <1>2, <3>5, <4>1 DEF Same
      <4>3. QED
        BY <3>2, <3>4, <4>2
    <3>6. ~Live(j)'
      BY <2>1, <3>4
    <3>7. QED
      BY <3>2, <3>3, <3>5, <3>6
  <2>4. backend' = "memory" => used' = 1
    BY <1>1 DEF IInv, GoneInv
  <2>5. QED
    BY <1>1, <2>2, <2>3, <2>4 DEF GoneInv
<1>11. "none" \notin Writers /\ "none" \notin {"attachResource"}
  BY DEF Writers
<1>12. SecretInv'
  <2>1. ASSUME NEW d \in Calls, call'[d].pc = "delete" \/ Deleted(d)', NEW i, i = call'[d].id
        PROVE  Raced(i, Writers)' \/ \A k \in Keys : secrets'[<<i, k>>] = None
    <3>1. d # c
      BY <1>2, <1>3, <2>1
    <3>2. (call[d].pc = "delete" \/ Deleted(d)) /\ call[d].id = i
      BY <1>2, <2>1, <3>1 DEF Same
    <3>3. Raced(i, Writers) \/ \A k \in Keys : secrets[<<i, k>>] = None
      BY <3>2 DEF IInv, SecretInv
    <3>4. Raced(i, Writers) => Raced(i, Writers)'
      BY <1>11, StartedRaced
    <3>5. QED
      BY <1>1, <3>3, <3>4
  <2>2. \A d \in Calls : call'[d].pc = "delete" \/ Deleted(d)' =>
          (Raced(call[d].id, Writers) \/ \A k \in Keys : secrets[<<call[d].id, k>>] = None)'
    BY <2>1
  <2>3. backend' = "memory" /\ row' = None => \A k \in Keys : secrets'[<<1, k>>] = None
    BY <1>1 DEF IInv, SecretInv
  <2>4. QED
    BY <2>2, <2>3 DEF SecretInv
<1>13. \A s, v, i : Lost(s, v, i) => Lost(s, v, i)'
  <2>1. ASSUME NEW s, NEW v, NEW i, Lost(s, v, i) PROVE Lost(s, v, i)'
    <3>1. Raced(i, {"attachResource"}) => Raced(i, {"attachResource"})'
      BY <1>11, StartedRaced
    <3>2. QED
      BY <1>1, <2>1, <3>1 DEF Lost
  <2>2. QED
    BY <2>1
<1>14. \A s, v, i : Listed(s, v, i) => Listed(s, v, i)'
  BY <1>1 DEF Listed
<1>15. EnvInv'
  <2>1. ASSUME NEW s \in Services, NEW v \in Vars, env'[<<s, v>>] # None, env'[<<s, v>>].source # User,
               NEW i, i = env'[<<s, v>>].source
        PROVE  Lost(s, v, i)' \/ Listed(s, v, i)'
    <3>1. Lost(s, v, i) \/ Listed(s, v, i)
      BY <1>1, <2>1 DEF IInv, EnvInv
    <3>2. QED
      BY <1>13, <1>14, <3>1
  <2>2. ASSUME NEW q \in Calls, call'[q].op = "attachResource", call'[q].pc \in {"vault", "row"},
               NEW v \in call'[q].todo, NEW s, s = call'[q].svc, NEW i, i = call'[q].id
        PROVE  Lost(s, v, i)' \/ Listed(s, v, i)' \/ s \notin here'
    <3>1. q # c
      BY <1>3, <2>2
    <3>2. /\ call[q].op = "attachResource" /\ call[q].pc \in {"vault", "row"} /\ v \in call[q].todo
          /\ s = call[q].svc /\ i = call[q].id
      BY <1>2, <2>2, <3>1 DEF Same
    <3>3. Lost(s, v, i) \/ Listed(s, v, i) \/ s \notin here
      BY <3>2 DEF IInv, EnvInv
    <3>4. QED
      BY <1>1, <1>13, <1>14, <3>3
  <2>3. \A s \in Services, v \in Vars : env'[<<s, v>>] # None /\ env'[<<s, v>>].source # User =>
            (Lost(s, v, env[<<s, v>>].source) \/ Listed(s, v, env[<<s, v>>].source))'
    BY <2>1
  <2>4. \A q \in Calls : call'[q].op = "attachResource" /\ call'[q].pc \in {"vault", "row"} =>
           \A v \in call'[q].todo : \/ Lost(call[q].svc, v, call[q].id)' \/ Listed(call[q].svc, v, call[q].id)'
                                    \/ call'[q].svc \notin here'
    BY <2>2
  <2>5. backend' = "memory" /\ row' = None => \A s \in Services : attached'[<<1, s>>] = None
    BY <1>1 DEF IInv, EnvInv
  <2>6. QED
    BY <2>3, <2>4, <2>5 DEF EnvInv
<1>16. SweepInv'
  <2> SUFFICES ASSUME NEW d \in Calls, call'[d].pc \in Sweeping \/ Deleted(d)',
                      NEW s \in Services, NEW v \in Vars,
                      NEW i, i = call'[d].id, env'[<<s, v>>] # None, env'[<<s, v>>].source = i
               PROVE  Lost(s, v, i)' \/ <<s, v>> \in call'[d].todo
    BY DEF SweepInv
  <2>1. d # c
    BY <1>2, <1>3 DEF Sweeping
  <2>2. (call[d].pc \in Sweeping \/ Deleted(d)) /\ call[d].id = i /\ call'[d].todo = call[d].todo
    BY <1>2, <2>1 DEF Same
  <2>3. Lost(s, v, i) \/ <<s, v>> \in call[d].todo
    BY <1>1, <2>2 DEF IInv, SweepInv
  <2>4. QED
    BY <1>13, <2>2, <2>3
<1>17. ByInv'
  <2> SUFFICES ASSUME NEW i \in Ids, NEW k \in Keys, secrets'[<<i, k>>] # None, secrets'[<<i, k>>].by # 0
               PROVE  call'[secrets'[<<i, k>>].by].pc \in {"secrets", "ready"} \cup Ended
    BY DEF ByInv
  <2>1. PICK q : q = secrets[<<i, k>>].by
    OBVIOUS
  <2>2. call[q].pc \in {"secrets", "ready"} \cup Ended
    BY <1>1, <2>1 DEF IInv, ByInv
  <2>3. secrets[<<i, k>>] \in Secret
    BY <1>1 DEF IInv, TypeInv, Tables
  <2>4. q \in Calls /\ q # c
    BY <1>1, <2>1, <2>2, <2>3 DEF Secret, Started, Ended
  <2>5. call'[q].pc = call[q].pc
    BY <1>2, <2>4 DEF Same
  <2>6. QED
    BY <1>1, <2>1, <2>2, <2>5
<1>18. WholeInv'
  <2> SUFFICES ASSUME Calm' PROVE WholeInv'
    BY DEF WholeInv
  <2>1. Calm
    BY StartedCalm
  <2>2. ASSUME NEW q \in Calls, call'[q].pc = "secrets", backend' = "prisma" PROVE Wrote(q)'
    <3>1. q # c
      BY <1>3, <2>2
    <3>2. Same(q)
      BY <1>2, <3>1
    <3>3. Wrote(q)
      BY <1>1, <2>1, <2>2, <3>2 DEF IInv, WholeInv, Same
    <3>4. QED
      BY <1>1, <3>2, <3>3 DEF Wrote, Live, Same
  <2>3. ASSUME NEW q \in Calls,
               call'[q].pc \in {"update", "provider"} \/ (call'[q].pc = "secrets" /\ backend' = "memory")
        PROVE  (Live(call[q].id) /\ ((call[q].pc = "update" /\ call[q].live) \/ row.engine = call[q].engine))'
    <3>1. q # c
      BY <1>3, <2>3
    <3>2. Same(q)
      BY <1>2, <3>1
    <3>3. Live(call[q].id) /\ ((call[q].pc = "update" /\ call[q].live) \/ row.engine = call[q].engine)
      BY <1>1, <2>1, <2>3, <3>2 DEF IInv, WholeInv, Same
    <3>4. QED
      BY <1>1, <3>2, <3>3 DEF Live, Same
  <2>4. ASSUME row' # None, \A q \in Calls : ~Mid(q)' PROVE Whole'
    <3>1. \A q \in Calls : ~Mid(q)
      BY <1>2, <2>4
    <3>2. Whole
      BY <1>1, <2>1, <2>4, <3>1 DEF IInv, WholeInv
    <3>3. QED
      BY <1>1, <2>4, <3>2, StartedWhole
  <2>5. QED
    BY <2>2, <2>3, <2>4 DEF WholeInv
<1>19. QED
  BY <1>4, <1>5, <1>6, <1>7, <1>8, <1>9, <1>10, <1>12, <1>15, <1>16, <1>17, <1>18 DEF IInv
--------------------------------------------------------------------------------
(***************************************************************************)
(* The theorems                                                            *)
(***************************************************************************)
\* Nothing has run, and the resource is attached to one service or to none.
LEMMA InitInv == ASSUME Init PROVE IInv
<1>1. 1 \in Ids /\ "" \in Prefixes /\ 0 \in 0..MaxFaults /\ 1 <= 1
  <2>1. PICK n \in Ids : Ids = 1..n
    BY ResourcesAssumption
  <2>2. n \in Nat \ {0} /\ MaxFaults \in Nat /\ "" \in Prefixes
    BY ResourcesAssumption
  <2>3. 1 \in 1..n /\ 0 \in 0..MaxFaults /\ 1 <= 1
    <3>1. \A m \in Nat \ {0} : 1 \in 1..m
      OBVIOUS
    <3>2. 1 \in 1..n
      BY <2>2, <3>1
    <3>3. \A m \in Nat : 0 \in 0..m
      OBVIOUS
    <3>4. 0 \in 0..MaxFaults
      BY <2>2, <3>3
    <3>5. QED
      BY <3>2, <3>4
  <2>4. QED
    BY <2>1, <2>2, <2>3
<1>2. PICK e \in Engines, att \in BOOLEAN, s \in Services :
         /\ e = CHOOSE x \in Engines : TRUE
         /\ row = [id |-> 1, engine |-> e, status |-> "provisioning"]
         /\ secrets = [x \in Ids \X Keys |->
                         IF x[1] = 1 /\ x[2] \in EnvKeys[e] THEN [by |-> 0, live |-> FALSE] ELSE None]
         /\ attached = [x \in Ids \X Services |->
                          IF att /\ x = <<1, s>> THEN {<<"", k>> : k \in EnvKeys[e]} ELSE None]
         /\ env = [x \in Services \X Vars |->
                     IF att /\ x[1] = s /\ x[2] \in {<<"", k>> : k \in EnvKeys[e]}
                     THEN [source |-> 1, ref |-> 0, by |-> 0] ELSE None]
         /\ vault = [x \in Services \X Vars |->
                       IF att /\ x[1] = s /\ x[2] \in {<<"", k>> : k \in EnvKeys[e]} THEN 0 ELSE None]
  BY DEF Init
<1>3. PICK mine : mine = {<<"", k>> : k \in EnvKeys[e]}
  OBVIOUS
<1>4. EnvKeys[e] \subseteq Keys /\ EnvKeys[e] # {} /\ mine \subseteq Vars
  <2>1. EnvKeys[e] \subseteq Keys /\ EnvKeys[e] # {}
    BY ResourcesAssumption DEF Keys
  <2>2. \A k \in EnvKeys[e] : <<"", k>> \in Vars
    BY <1>1, <2>1 DEF Vars
  <2>3. QED
    BY <1>3, <2>1, <2>2
<1>5. PICK no \in BOOLEAN : no = FALSE
  OBVIOUS
<1>6. PICK sec : sec = [by |-> 0, live |-> no]
  OBVIOUS
<1>7. sec \in Secret /\ sec # None /\ sec.by = 0 /\ sec.live = FALSE
  <2>1. sec \in [by : Nat, live : BOOLEAN] /\ sec \in Secret /\ sec.by = 0 /\ sec.live = no
    BY <1>6 DEF Secret
  <2>2. QED
    BY <1>5, <2>1, NoneAssumption
<1>8. PICK var : var = [source |-> 1, ref |-> 0, by |-> 0]
  OBVIOUS
<1>9. var \in Variable /\ var.source = 1 /\ var.ref = 0 /\ var.by = 0
  BY <1>1, <1>8 DEF Variable
<1>10. /\ backend \in {"prisma", "memory"} /\ here = Services /\ used = 1
       /\ call = [c \in Calls |-> NoCall] /\ loose = {} /\ faults = 0
  BY DEF Init
<1>11. /\ row \in Row /\ row # None /\ row.id = 1 /\ row.engine = e /\ row.status = "provisioning"
  <2>1. row \in Row /\ row.id = 1 /\ row.engine = e /\ row.status = "provisioning"
    BY <1>1, <1>2 DEF Row
  <2>2. QED
    BY <2>1, RowIsSome
<1>12. secrets = [x \in Ids \X Keys |-> IF x[1] = 1 /\ x[2] \in EnvKeys[e] THEN sec ELSE None]
  BY <1>2, <1>5, <1>6, Zenon
<1>13. /\ attached = [x \in Ids \X Services |-> IF att /\ x = <<1, s>> THEN mine ELSE None]
       /\ env = [x \in Slots |-> IF att /\ x[1] = s /\ x[2] \in mine THEN var ELSE None]
       /\ vault = [x \in Slots |-> IF att /\ x[1] = s /\ x[2] \in mine THEN 0 ELSE None]
  BY <1>2, <1>3, <1>8, Zenon DEF Slots
<1>14. \A i \in Ids, k \in Keys : secrets[<<i, k>>] = IF i = 1 /\ k \in EnvKeys[e] THEN sec ELSE None
  BY <1>12
<1>15. \A i \in Ids, t \in Services : attached[<<i, t>>] = IF att /\ i = 1 /\ t = s THEN mine ELSE None
  BY <1>13
<1>16. \A t \in Services, v \in Vars :
          /\ env[<<t, v>>] = IF att /\ t = s /\ v \in mine THEN var ELSE None
          /\ vault[<<t, v>>] = IF att /\ t = s /\ v \in mine THEN 0 ELSE None
  BY <1>13 DEF Slots
<1>17. Tables
  <2>1. secrets \in [Ids \X Keys -> Secret \cup {None}]
    BY <1>7, <1>12
  <2>2. attached \in [Ids \X Services -> (SUBSET Vars) \cup {None}]
    BY <1>4, <1>13
  <2>3. env \in [Slots -> Variable \cup {None}]
    BY <1>9, <1>13
  <2>4. vault \in [Slots -> Calls \cup {0, None}]
    BY <1>13
  <2>5. QED
    BY <1>1, <1>10, <1>11, <2>1, <2>2, <2>3, <2>4 DEF Tables
<1>18. NoCall \in Call /\ NoCall.pc = "new" /\ NoCall.op = "none" /\ NoCall.with = {}
  <2>1. NoCall = [pc |-> "new", op |-> "none", id |-> None, svc |-> None, prefix |-> None, engine |-> None,
                  status |-> None, live |-> no, todo |-> {}, at |-> None, ref |-> None, with |-> {}]
    BY <1>5, Zenon DEF NoCall
  <2>2. PICK n : n = NoCall
    OBVIOUS
  <2>3. "new" \in Pcs
    BY DEF Pcs
  <2>4. n \in Call /\ n.pc = "new" /\ n.op = "none" /\ n.with = {}
    BY <2>1, <2>2, <2>3 DEF Call
  <2>5. QED
    BY <2>2, <2>4
<1>19. \A c \in Calls : call[c] \in Call /\ call[c].pc = "new" /\ call[c].op = "none" /\ call[c].with = {}
  BY <1>10, <1>18
<1>20. \A c \in Calls : /\ ~Running(c) /\ ~Deleted(c) /\ ~Mid(c) /\ Begun(c) /\ Shape(c)
                        /\ call[c].pc \notin Sweeping \cup {"secrets"}
  <2> SUFFICES ASSUME NEW c \in Calls
               PROVE  /\ ~Running(c) /\ ~Deleted(c) /\ ~Mid(c) /\ Begun(c) /\ Shape(c)
                      /\ call[c].pc \notin Sweeping \cup {"secrets"}
    OBVIOUS
  <2>1. call[c].pc = "new" /\ call[c].op = "none" /\ call[c].with = {}
    BY <1>19
  <2>2. Shape(c)
    BY <2>1 DEF Shape, Phase, Sweeping
  <2>3. QED
    BY <2>1, <2>2 DEF Running, Deleted, Mid, Begun, Sweeping
<1>21. TypeInv
  BY <1>10, <1>17, <1>18, <1>20 DEF TypeInv
<1>22. WithInv /\ UserInv /\ StaleInv /\ HandInv /\ SweepInv
  BY <1>19, <1>20 DEF WithInv, UserInv, StaleInv, HandInv, SweepInv, Sweeping
<1>23. RefInv
  BY <1>9, <1>10, <1>16 DEF RefInv
<1>24. GoneInv
  <2>1. \A i \in 1..used : Live(i)
    BY <1>10, <1>11 DEF Live
  <2>2. QED
    BY <1>10, <1>20, <2>1 DEF GoneInv
<1>25. SecretInv
  BY <1>11, <1>19, <1>20 DEF SecretInv
<1>26. EnvInv
  <2>1. ASSUME NEW t \in Services, NEW v \in Vars, env[<<t, v>>] # None PROVE Listed(t, v, env[<<t, v>>].source)
    <3>1. att /\ t = s /\ v \in mine /\ env[<<t, v>>].source = 1
      BY <1>9, <1>16, <2>1
    <3>2. attached[<<1, t>>] = mine /\ mine # None
      BY <1>1, <1>4, <1>15, <3>1, NoneAssumption
    <3>3. QED
      BY <3>1, <3>2 DEF Listed
  <2>2. QED
    BY <1>11, <1>19, <2>1 DEF EnvInv
<1>27. ByInv
  BY <1>7, <1>14 DEF ByInv
<1>28. WholeInv
  <2>1. \A k \in EnvKeys[row.engine] : secrets[<<row.id, k>>] = sec
    BY <1>1, <1>4, <1>11, <1>14
  <2>2. sec.live = (sec.by # 0 /\ call[sec.by].live)
    BY <1>7
  <2>3. sec \in {secrets[<<row.id, k>>] : k \in EnvKeys[row.engine]} \ {None}
    BY <1>4, <1>7, <1>11, <2>1
  <2>4. Whole
    BY <2>1, <2>2, <2>3 DEF Whole
  <2>5. QED
    BY <1>19, <2>4 DEF WholeInv
<1>29. QED
  BY <1>21, <1>22, <1>23, <1>24, <1>25, <1>26, <1>27, <1>28 DEF IInv

LEMMA Stutter == ASSUME IInv, UNCHANGED vars PROVE IInv'
<1>1. UNCHANGED <<backend, row, used, here, secrets, attached, env, vault, call, loose, faults>>
  BY DEF vars
<1>2. TypeInv'
  BY <1>1 DEF IInv, TypeInv, Tables, Begun, Shape
<1>3. WithInv' /\ UserInv'
  BY <1>1 DEF IInv, WithInv, UserInv, Running
<1>4. StaleInv'
  BY <1>1 DEF IInv, StaleInv, Overlaps
<1>5. RefInv' /\ HandInv'
  BY <1>1 DEF IInv, RefInv, HandInv, Deletes
<1>6. \A id, ops : Raced(id, ops)' = Raced(id, ops)
  BY <1>1 DEF Raced, Deletes, Overlaps
<1>7. \A d : Deleted(d)' = Deleted(d) /\ Past(d)' = Past(d) /\ Mid(d)' = Mid(d) /\ Live(d)' = Live(d)
  BY <1>1 DEF Deleted, Deletes, Past, Running, Mid, Live
<1>8. GoneInv'
  BY <1>1, <1>7 DEF IInv, GoneInv
<1>9. SecretInv'
  BY <1>1, <1>6, <1>7 DEF IInv, SecretInv
<1>10. \A t, v, id : Lost(t, v, id)' = Lost(t, v, id) /\ Listed(t, v, id)' = Listed(t, v, id)
  BY <1>1, <1>6 DEF Lost, Listed
<1>11. EnvInv' /\ SweepInv'
  BY <1>1, <1>7, <1>10 DEF IInv, EnvInv, SweepInv
<1>12. ByInv'
  BY <1>1 DEF IInv, ByInv
<1>13. WholeInv'
  <2>1. Calm' = Calm /\ Whole' = Whole
    BY <1>1 DEF Calm, Whole, Overlaps
  <2>2. \A c : Wrote(c)' = Wrote(c)
    BY <1>1 DEF Wrote, Live
  <2>3. QED
    BY <1>1, <1>7, <2>1, <2>2 DEF IInv, WholeInv
<1>14. QED
  BY <1>2, <1>3, <1>4, <1>5, <1>8, <1>9, <1>11, <1>12, <1>13 DEF IInv

\* The first alternative of Next: c is the next call that starts, as any operation of its load.
Starts(c) ==
    /\ call[c].pc = "new" /\ \A q \in Calls : q < c => call[q].pc # "new"
    /\ Cardinality({q \in Calls : Running(q)}) < MaxRunning
    /\ \E op \in Load[c], s \in Services, p \in Prefixes, e \in Engines \cup {None}, v \in Vars,
          secret \in BOOLEAN :
          /\ op = "createResource" => e # None
          /\ IF op = "setEnvironment" THEN v[1] = "" ELSE v = (CHOOSE x \in Vars : TRUE) /\ ~secret
          /\ op \notin {"createResource", "updateResource"} => e = None
          /\ op # "attachResource" => p = CHOOSE x \in Prefixes : TRUE
          /\ start(c, op, s, p, e, v, secret)

LEMMA NextIs ==
    ASSUME Next
    PROVE  \E c \in Calls :
        \/ Starts(c)
        \/ createResource(c) \/ get(c) \/ updateResource(c) \/ nameSecret(c) \/ markReady(c)
        \/ \E live, ok \in BOOLEAN : provisionProvider(c, live, ok)
        \/ \E k \in Keys : attachSecret(c, k)
        \/ readConnection(c) \/ attachResource(c) \/ upsertVariable(c)
        \/ \E v \in Vars : upsertSecret(c, v)
        \/ \E fails \in BOOLEAN : findAttachments(c, fails)
        \/ \E x \in Slots : findInjected(c, x)
        \/ removeSecret(c) \/ removeVariable(c) \/ removeSecrets(c) \/ deleteResource(c)
        \/ deleteService(c) \/ StoreStep(c) \/ fail(c)
BY DEF Next, Starts, Slots

LEMMA StartsStep == ASSUME IInv, NEW c \in Calls, Starts(c) PROVE Started(c)
<1>1. PICK op \in Load[c], s \in Services, p \in Prefixes, e \in Engines \cup {None}, v \in Vars,
           secret \in BOOLEAN :
           /\ op = "createResource" => e # None
           /\ IF op = "setEnvironment" THEN v[1] = "" ELSE v = (CHOOSE x \in Vars : TRUE) /\ ~secret
           /\ op \notin {"createResource", "updateResource"} => e = None
           /\ op # "attachResource" => p = CHOOSE x \in Prefixes : TRUE
           /\ start(c, op, s, p, e, v, secret)
  BY DEF Starts
<1>2. op \in Ops /\ call[c].pc = "new"
  BY ResourcesAssumption DEF Starts
<1>3. QED
  BY <1>1, <1>2, StartIs

LEMMA NextInv == ASSUME IInv, Next PROVE IInv'
<1>1. PICK c \in Calls :
        \/ Starts(c)
        \/ createResource(c) \/ get(c) \/ updateResource(c) \/ nameSecret(c) \/ markReady(c)
        \/ \E live, ok \in BOOLEAN : provisionProvider(c, live, ok)
        \/ \E k \in Keys : attachSecret(c, k)
        \/ readConnection(c) \/ attachResource(c) \/ upsertVariable(c)
        \/ \E v \in Vars : upsertSecret(c, v)
        \/ \E fails \in BOOLEAN : findAttachments(c, fails)
        \/ \E x \in Slots : findInjected(c, x)
        \/ removeSecret(c) \/ removeVariable(c) \/ removeSecrets(c) \/ deleteResource(c)
        \/ deleteService(c) \/ StoreStep(c) \/ fail(c)
  BY NextIs
<1>2. CASE Starts(c)
  BY <1>2, StartsStep, StartedStep
<1>3. CASE \E live, ok \in BOOLEAN : provisionProvider(c, live, ok)
  BY <1>3, ProviderStep
<1>4. CASE \E k \in Keys : attachSecret(c, k)
  BY <1>4, AttachSecretStep
<1>5. CASE \E v \in Vars : upsertSecret(c, v)
  BY <1>5, UpsertSecretStep
<1>6. CASE \E fails \in BOOLEAN : findAttachments(c, fails)
  BY <1>6, AttachmentsStep
<1>7. CASE \E x \in Slots : findInjected(c, x)
  BY <1>7, FindStep
<1>8. CASE createResource(c) \/ get(c) \/ updateResource(c) \/ nameSecret(c) \/ markReady(c)
  BY <1>8, CreateStep, GetStep, UpdateStep, NameStep, ReadyStep
<1>9. CASE readConnection(c) \/ attachResource(c) \/ upsertVariable(c)
  BY <1>9, ReadStep, AttachStep, UpsertVariableStep
<1>10. CASE removeSecret(c) \/ removeVariable(c) \/ removeSecrets(c) \/ deleteResource(c)
  BY <1>10, RemoveSecretStep, RemoveVariableStep, RemoveSecretsStep, DeleteStep
<1>11. CASE deleteService(c) \/ StoreStep(c) \/ fail(c)
  BY <1>11, DeleteServiceStep, StoreStepKept, FailStep
<1>12. QED
  BY <1>1, <1>2, <1>3, <1>4, <1>5, <1>6, <1>7, <1>8, <1>9, <1>10, <1>11

\* The invariant holds in every state that calls of the repository reach.
THEOREM Invariance == Spec => []IInv
<1>1. Init => IInv
  BY InitInv
<1>2. IInv /\ [Next]_vars => IInv'
  BY NextInv, Stutter
<1>3. QED
  BY <1>1, <1>2, PTL DEF Spec

\* A secret a variable refers to exists, whatever runs at the same time and wherever a call dies:
\* upsertServiceEnvironment writes the secret before the row and keeps its id, and only
\* removeResourceInjectedEnvironment removes secrets, just before the variable.
THEOREM SecretsResolve == Spec => []ReferencesResolve
<1>1. ASSUME IInv PROVE TypeOK
  <2>1. Tables /\ Ids \subseteq Nat \ {0}
    BY <1>1, ResourcesAssumption DEF IInv, TypeInv
  <2>2. row = None \/ (row.id \in 1..used /\ row.engine \in Engines /\ row.status \in {"provisioning", "ready"})
    <3>1. \A n \in Nat \ {0} : \A m \in Nat : n <= m => n \in 1..m
      OBVIOUS
    <3>2. ASSUME row # None
          PROVE  row.id \in Ids /\ row.id <= used /\ row.engine \in Engines /\ row.status \in {"provisioning", "ready"}
      BY <2>1, <3>2 DEF Tables, Row
    <3>3. used \in Nat
      BY <2>1 DEF Tables
    <3>4. QED
      BY <2>1, <3>1, <3>2, <3>3
  <2>3. \A i \in Ids, k \in Keys : secrets[<<i, k>>] = None \/ secrets[<<i, k>>].by \in Calls \cup {0}
    BY <2>1 DEF Tables, Secret
  <2>4. \A i \in Ids, s \in Services : attached[<<i, s>>] = None \/ attached[<<i, s>>] \subseteq Vars
    <3>1. \A i \in Ids, s \in Services : attached[<<i, s>>] \in (SUBSET Vars) \cup {None}
      BY <2>1 DEF Tables
    <3>2. QED
      BY <3>1
  <2>5. \A s \in Services, v \in Vars : /\ env[<<s, v>>] = None \/ env[<<s, v>>].source \in Ids \cup {User}
                                        /\ vault[<<s, v>>] \in Calls \cup {0, None}
    <3>1. \A s \in Services, v \in Vars : <<s, v>> \in Slots
      BY DEF Slots
    <3>2. \A z \in Slots : (env[z] = None \/ env[z] \in Variable) /\ vault[z] \in Calls \cup {0, None}
      BY <2>1 DEF Tables
    <3>3. QED
      BY <3>1, <3>2 DEF Variable
  <2>6. used \in Ids \cup {0} /\ here \subseteq Services /\ faults \in 0..MaxFaults
    BY <2>1 DEF Tables
  <2>7. QED
    BY <2>2, <2>3, <2>4, <2>5, <2>6 DEF TypeOK
<1>2. IInv => ReferencesResolve
  <2> SUFFICES ASSUME IInv PROVE ReferencesResolve
    OBVIOUS
  <2>1. TypeOK /\ RefInv
    BY <1>1 DEF IInv
  <2>2. QED
    BY <2>1 DEF RefInv, ReferencesResolve
<1>3. QED
  BY <1>2, Invariance, PTL

\* Once a resource is deleted and nothing runs, deleteResource has left no connection secret and no
\* variable of it, except what a call that ran meanwhile wrote, and what no attachment listed.
THEOREM DeletionsAreThorough == Spec => []DeletedIsGone
<1>1. ASSUME IInv, NEW id \in 1..used, ~Live(id), backend = "prisma"
      PROVE  /\ Raced(id, Writers) \/ \A k \in Keys : secrets[<<id, k>>] = None
             /\ Raced(id, {"attachResource"})
                  \/ \A s \in Services, v \in Vars :
                        env[<<s, v>>] # None /\ env[<<s, v>>].source = id => <<s, v, id>> \in loose
  <2>1. PICK d \in Calls : Deleted(d) /\ call[d].id = id
    BY <1>1 DEF IInv, GoneInv
  <2>2. Raced(id, Writers) \/ \A k \in Keys : secrets[<<id, k>>] = None
    BY <1>1, <2>1 DEF IInv, SecretInv
  <2>3. call[d].todo = {}
    BY <1>1, <2>1 DEF IInv, TypeInv, Shape, Phase, Deleted, Deletes
  <2>4. \A s \in Services, v \in Vars : env[<<s, v>>] # None /\ env[<<s, v>>].source = id => Lost(s, v, id)
    BY <1>1, <2>1, <2>3 DEF IInv, SweepInv
  <2>5. QED
    BY <2>2, <2>4 DEF Lost
<1>2. ASSUME IInv, NEW id \in 1..used, ~Live(id), backend = "memory"
      PROVE  /\ \A k \in Keys : secrets[<<id, k>>] = None
             /\ \A s \in Services, v \in Vars :
                   env[<<s, v>>] # None /\ env[<<s, v>>].source = id => <<s, v, id>> \in loose
  <2>1. Tables /\ used = 1
    BY <1>2 DEF IInv, TypeInv, GoneInv
  <2>2. id = 1
    BY <1>2, <2>1
  <2>3. row = None
    <3>1. ASSUME row # None PROVE row.id \in Nat \ {0} /\ row.id <= 1
      BY <2>1, <3>1, ResourcesAssumption DEF Tables, Row
    <3>2. \A n \in Nat \ {0} : n <= 1 => n = 1
      OBVIOUS
    <3>3. QED
      BY <1>2, <2>2, <3>1, <3>2 DEF Live
  <2>4. \A k \in Keys : secrets[<<1, k>>] = None
    BY <1>2, <2>3 DEF IInv, SecretInv
  <2>5. ASSUME NEW s \in Services, NEW v \in Vars, env[<<s, v>>] # None, env[<<s, v>>].source = 1
        PROVE  <<s, v, 1>> \in loose
    <3>1. 1 # User
      BY NoneAssumption
    <3>2. Lost(s, v, 1) \/ Listed(s, v, 1)
      BY <1>2, <2>5, <3>1 DEF IInv, EnvInv
    <3>3. ~Listed(s, v, 1)
      BY <1>2, <2>3 DEF IInv, EnvInv, Listed
    <3>4. ~Raced(1, {"attachResource"})
      BY <1>2 DEF Raced
    <3>5. QED
      BY <3>2, <3>3, <3>4 DEF Lost
  <2>6. QED
    BY <2>2, <2>4, <2>5
<1>3. IInv => DeletedIsGone
  <2> SUFFICES ASSUME IInv, NEW id \in 1..used, ~Live(id)
               PROVE  /\ Raced(id, Writers) \/ \A k \in Keys : secrets[<<id, k>>] = None
                      /\ Raced(id, {"attachResource"})
                           \/ \A s \in Services, v \in Vars :
                                 env[<<s, v>>] # None /\ env[<<s, v>>].source = id => <<s, v, id>> \in loose
    BY DEF DeletedIsGone, Raced
  <2>1. backend \in {"prisma", "memory"}
    BY DEF IInv, TypeInv, Tables
  <2>2. QED
    BY <1>1, <1>2, <2>1
<1>4. QED
  BY <1>3, Invariance, PTL

\* When nothing runs, the connection that providerEnvFromConnection and the console read is of one
\* call and marked live just when that call's provider was, unless writers overlapped or died.
THEOREM ConnectionsAreWhole == Spec => []ConnectionIsWhole
<1>1. IInv => ConnectionIsWhole
  <2> SUFFICES ASSUME IInv, Idle, row # None,
                      ~\E c \in Calls : call[c].op \in Writers \cup {"deleteResource"}
                                        /\ (call[c].pc = "failed" \/ Overlaps(c, Writers))
               PROVE  Whole
    BY DEF ConnectionIsWhole, Whole
  <2>1. Calm
    BY DEF Calm
  <2>2. \A c \in Calls : ~Mid(c)
    BY DEF Idle, Running, Ended, Mid
  <2>3. QED
    BY <2>1, <2>2 DEF IInv, WholeInv
<1>2. QED
  BY <1>1, Invariance, PTL

\* What a step writes into a variable is a variable.
LEMMA VariableIsSome == ASSUME NEW y \in Variable PROVE y # None
<1>1. Ids \subseteq Nat /\ Calls \subseteq Nat
  BY ResourcesAssumption
<1>2. PICK S, R : S = Nat \cup {User} /\ R = Nat \cup {None}
  OBVIOUS
<1>3. Ids \cup {User} \subseteq S /\ Calls \cup {0, None} \subseteq R /\ Calls \cup {0} \subseteq Nat
  <2>1. Ids \cup {User} \subseteq S
    BY <1>1, <1>2
  <2>2. Calls \cup {0, None} \subseteq R
    <3>1. 0 \in Nat
      OBVIOUS
    <3>2. QED
      BY <1>1, <1>2, <3>1, Zenon
  <2>3. Calls \cup {0} \subseteq Nat
    BY <1>1
  <2>4. QED
    BY <2>1, <2>2, <2>3
<1>4. y = [source |-> y.source, ref |-> y.ref, by |-> y.by] /\ y.source \in S /\ y.ref \in R /\ y.by \in Nat
  BY <1>3 DEF Variable
<1>5. y \in [source : S, ref : R, by : Nat]
  BY <1>4
<1>6. QED
  BY <1>2, <1>5, NoneAssumption

LEMMA WrittenStays ==
    ASSUME Tables, NEW c \in Calls, NEW so \in Ids \cup {User}, NEW ref \in Calls \cup {0, None},
           NEW x \in Slots, NEW z \in Slots, env[z] # None,
           env' = [env EXCEPT ![x] = [source |-> so, ref |-> ref, by |-> c]]
    PROVE  env'[z] # None
<1>1. PICK y : y = [source |-> so, ref |-> ref, by |-> c]
  OBVIOUS
<1>2. y \in Variable
  BY <1>1 DEF Variable
<1>3. PICK T : T = Variable \cup {None}
  OBVIOUS
<1>4. env \in [Slots -> T] /\ env' = [env EXCEPT ![x] = y]
  BY <1>1, <1>3 DEF Tables
<1>5. env'[z] = IF z = x THEN y ELSE env[z]
  BY <1>4
<1>6. QED
  BY <1>2, <1>5, VariableIsSome

LEMMA InjectedStays ==
    ASSUME Tables, NEW c \in Calls, NEW so \in Ids \cup {User}, NEW s \in Services, NEW new \in SUBSET Vars,
           Injected(s, new, so, c), NEW z \in Slots, env[z] # None
    PROVE  env'[z] # None
<1> DEFINE id(v) == IF vault[<<s, v>>] = None THEN c ELSE vault[<<s, v>>]
<1>1. env' = [x \in Slots |->
                IF x[1] = s /\ x[2] \in new THEN [source |-> so, ref |-> id(x[2]), by |-> c] ELSE env[x]]
  BY DEF Injected, Slots
<1>2. CASE z[1] = s /\ z[2] \in new
  <2>1. <<s, z[2]>> \in Slots /\ vault \in [Slots -> Calls \cup {0, None}]
    BY <1>2 DEF Slots, Tables
  <2>2. PICK i \in Calls \cup {0, None} : i = id(z[2])
    BY <2>1
  <2>3. env'[z] = [source |-> so, ref |-> i, by |-> c]
    BY <1>1, <1>2, <2>2
  <2>4. env'[z] \in Variable
    BY <2>3 DEF Variable
  <2>5. QED
    BY <2>4, VariableIsSome
<1>3. CASE ~(z[1] = s /\ z[2] \in new)
  BY <1>1, <1>3
<1>4. QED
  BY <1>2, <1>3

\* The steps that write variables and never remove one.
LEMMA VariableStays ==
    ASSUME IInv, NEW c \in Calls, upsertVariable(c), NEW z \in Slots, env[z] # None PROVE env'[z] # None
<1>1. call[c].pc = "row" /\ Running(c) /\ Tables
  BY DEF upsertVariable, At, Running, Ended, IInv, TypeInv
<1>2. PICK s \in Services : s = call[c].svc
  BY <1>1, RunningFacts DEF IInv
<1>3. PICK v \in Vars : v = call[c].at
  BY <1>1 DEF IInv, TypeInv, Shape, Phase
<1>4. PICK so \in Ids \cup {User} : so = IF call[c].op = "setEnvironment" THEN User ELSE call[c].id
  BY <1>1, RunningFacts DEF IInv
<1>5. PICK ref \in Calls \cup {0, None} : ref = call[c].ref
  BY <1>1, RunningFacts DEF IInv
<1>6. PICK x \in Slots : x = <<s, v>>
  BY DEF Slots
<1>7. CASE s \notin here
  BY <1>2, <1>7 DEF upsertVariable
<1>8. CASE s \in here
  <2>1. env' = [env EXCEPT ![x] = [source |-> so, ref |-> ref, by |-> c]]
    BY <1>2, <1>3, <1>4, <1>5, <1>6, <1>8 DEF upsertVariable
  <2>2. QED
    BY <1>1, <2>1, WrittenStays
<1>9. QED
  BY <1>7, <1>8

LEMMA StoreSetStays ==
    ASSUME IInv, NEW c \in Calls, storeSetEnvironment(c), NEW z \in Slots, env[z] # None PROVE env'[z] # None
<1>1. /\ backend = "memory" /\ Running(c) /\ call[c].at \in Vars /\ Tables
  <2>1. InStore(c, "setEnvironment")
    BY DEF storeSetEnvironment
  <2>2. QED
    BY <2>1, StoreCall DEF IInv, TypeInv
<1>2. PICK s \in Services : s = call[c].svc
  BY <1>1, RunningFacts DEF IInv
<1>3. PICK v \in Vars : v = call[c].at
  BY <1>1
<1>4. PICK so \in Ids \cup {User} : so = User
  OBVIOUS
<1>5. CASE s \notin here
  BY <1>2, <1>5 DEF storeSetEnvironment, Missing, data
<1>6. CASE s \in here /\ call[c].pc = "vault"
  <2>1. PICK new \in SUBSET Vars : new = {v}
    OBVIOUS
  <2>2. Injected(s, new, so, c)
    BY <1>2, <1>3, <1>4, <1>6, <2>1 DEF storeSetEnvironment
  <2>3. QED
    BY <1>1, <2>2, InjectedStays
<1>7. CASE s \in here /\ call[c].pc # "vault"
  <2>1. PICK ref \in Calls \cup {0, None} : ref = None
    OBVIOUS
  <2>2. PICK x \in Slots : x = <<s, v>>
    BY DEF Slots
  <2>3. env' = [env EXCEPT ![x] = [source |-> so, ref |-> ref, by |-> c]]
    BY <1>2, <1>3, <1>4, <1>7, <2>1, <2>2 DEF storeSetEnvironment
  <2>4. QED
    BY <1>1, <2>3, WrittenStays
<1>8. QED
  BY <1>5, <1>6, <1>7

LEMMA StoreAttachStays ==
    ASSUME IInv, NEW c \in Calls, storeAttachResource(c), NEW z \in Slots, env[z] # None PROVE env'[z] # None
<1>1. Running(c) /\ Tables
  <2>1. InStore(c, "attachResource")
    BY DEF storeAttachResource
  <2>2. QED
    BY <2>1, StoreCall DEF IInv, TypeInv
<1>2. PICK so \in Ids \cup {User} : so = call[c].id
  BY <1>1, RunningFacts DEF IInv
<1>3. PICK s \in Services : s = call[c].svc
  BY <1>1, RunningFacts DEF IInv
<1>4. PICK stored : stored = {k \in Keys : secrets[<<so, k>>] # None}
  OBVIOUS
<1>5. PICK new : new = {<<call[c].prefix, k>> : k \in IF stored # {} THEN stored ELSE EnvKeys[row.engine]}
  OBVIOUS
<1>6. CASE ~Live(so) \/ s \notin here
  BY <1>2, <1>3, <1>6 DEF storeAttachResource, Missing, data
<1>7. CASE ~(~Live(so) \/ s \notin here)
  <2>1. Injected(s, new, so, c)
    BY <1>2, <1>3, <1>4, <1>5, <1>7 DEF storeAttachResource
  <2>2. new \in SUBSET Vars
    <3>1. row.engine \in Engines /\ call[c].prefix \in Prefixes
      BY <1>1, <1>7, RunningFacts DEF Live, Tables, Row, IInv
    <3>2. EnvKeys[row.engine] \subseteq Keys /\ stored \subseteq Keys
      BY <1>4, <3>1 DEF Keys
    <3>3. QED
      BY <1>5, <3>1, <3>2 DEF Vars
  <2>3. QED
    BY <1>1, <2>1, <2>2, InjectedStays
<1>8. QED
  BY <1>6, <1>7

\* The in-memory store removes only variables of the resource it deletes.
LEMMA StoreKeepsUsers ==
    ASSUME IInv, NEW c \in Calls, StoreStep(c), NEW z \in Slots, env[z] # None, env[z].source = User
    PROVE  env'[z] # None
<1>1. CASE storeCreateResource(c)
  BY <1>1 DEF storeCreateResource
<1>2. CASE storeUpdateResource(c)
  BY <1>2 DEF storeUpdateResource, Missing, data
<1>3. CASE storeProvision(c)
  BY <1>3 DEF storeProvision, Missing, data
<1>4. CASE storeDeleteResource(c)
  <2>1. InStore(c, "deleteResource")
    BY <1>4 DEF storeDeleteResource
  <2>2. Running(c)
    BY <2>1, StoreCall
  <2>3. PICK i \in Ids : i = call[c].id
    BY <2>2, RunningFacts DEF IInv
  <2>4. i # User
    BY ResourcesAssumption, NoneAssumption
  <2>5. CASE ~Live(i)
    BY <1>4, <2>3, <2>5 DEF storeDeleteResource, Missing, data
  <2>6. CASE Live(i)
    <3>1. PICK gone : gone = {x \in Slots : /\ attached[<<i, x[1]>>] # None /\ x[2] \in attached[<<i, x[1]>>]
                                            /\ env[x] # None /\ env[x].source = i}
      OBVIOUS
    <3>2. env' = [x \in Slots |-> IF x \in gone THEN None ELSE env[x]]
      BY <1>4, <2>3, <2>6, <3>1 DEF storeDeleteResource, Slots
    <3>3. z \notin gone
      BY <2>4, <3>1
    <3>4. QED
      BY <3>2, <3>3
  <2>7. QED
    BY <2>5, <2>6
<1>5. QED
  BY <1>1, <1>2, <1>3, <1>4, StoreAttachStays, StoreSetStays DEF StoreStep

\* A variable a user wrote goes only with its service, or in a deletion that ran while it was written.
LEMMA UserStays ==
    ASSUME IInv, Next, NEW s \in here', NEW v \in Vars, env[<<s, v>>] # None, env[<<s, v>>].source = User,
           env'[<<s, v>>] = None
    PROVE  backend = "prisma" /\ \E c \in Calls : Deletes(c) /\ env[<<s, v>>].by \in call[c].with
<1>1. PICK c \in Calls :
        \/ Starts(c)
        \/ createResource(c) \/ get(c) \/ updateResource(c) \/ nameSecret(c) \/ markReady(c)
        \/ \E live, ok \in BOOLEAN : provisionProvider(c, live, ok)
        \/ \E k \in Keys : attachSecret(c, k)
        \/ readConnection(c) \/ attachResource(c) \/ upsertVariable(c)
        \/ \E w \in Vars : upsertSecret(c, w)
        \/ \E fails \in BOOLEAN : findAttachments(c, fails)
        \/ \E x \in Slots : findInjected(c, x)
        \/ removeSecret(c) \/ removeVariable(c) \/ removeSecrets(c) \/ deleteResource(c)
        \/ deleteService(c) \/ StoreStep(c) \/ fail(c)
  BY NextIs
<1>2. Tables /\ here' \subseteq Services /\ env \in [Slots -> Variable \cup {None}]
  <2>1. IInv'
    BY NextInv
  <2>2. QED
    BY <2>1 DEF IInv, TypeInv, Tables
<1>3. PICK z \in Slots : z = <<s, v>> /\ z[1] = s
  BY <1>2 DEF Slots
<1>4. env' # env
  OBVIOUS
<1>5. ~Starts(c)
  BY <1>4, StartsStep, StartedData
<1>6. ~createResource(c) /\ ~get(c) /\ ~updateResource(c) /\ ~nameSecret(c) /\ ~markReady(c)
  BY <1>4 DEF createResource, get, updateResource, nameSecret, markReady, data
<1>7. /\ ~\E live, ok \in BOOLEAN : provisionProvider(c, live, ok)
      /\ ~\E k \in Keys : attachSecret(c, k)
      /\ ~\E w \in Vars : upsertSecret(c, w)
      /\ ~\E fails \in BOOLEAN : findAttachments(c, fails)
      /\ ~\E x \in Slots : findInjected(c, x)
  BY <1>4 DEF provisionProvider, attachSecret, upsertSecret, findAttachments, findInjected, data
<1>8. ~readConnection(c) /\ ~attachResource(c) /\ ~removeSecret(c) /\ ~removeSecrets(c)
  BY <1>4 DEF readConnection, attachResource, removeSecret, removeSecrets, data
<1>9. ~deleteResource(c) /\ ~fail(c)
  BY <1>4 DEF deleteResource, fail, data
<1>10. ~upsertVariable(c) /\ ~StoreStep(c)
  BY <1>3, VariableStays, StoreKeepsUsers
<1>11. ~deleteService(c)
  <2> SUFFICES ASSUME deleteService(c) PROVE FALSE
    OBVIOUS
  <2>1. here' = here \ {call[c].svc}
    BY DEF deleteService
  <2>2. env' = [x \in Slots |-> IF x[1] = call[c].svc THEN None ELSE env[x]]
    BY DEF deleteService, Slots
  <2>3. QED
    BY <1>3, <2>1, <2>2
<1>12. CASE removeVariable(c)
  <2>1. backend = "prisma" /\ call[c].pc = "removeVariable"
    BY <1>12 DEF removeVariable, At
  <2>2. Deletes(c) /\ call[c].at \in Slots
    BY <2>1 DEF IInv, TypeInv, Shape, Phase, Sweeping, Deletes
  <2>3. PICK x \in Slots : x = call[c].at
    BY <2>2
  <2>4. env' = [env EXCEPT ![x] = None]
    BY <1>12, <2>3 DEF removeVariable
  <2>5. x = z
    BY <1>2, <1>3, <2>4
  <2>6. env[z].by \in call[c].with
    BY <1>3, <2>1, <2>3, <2>5 DEF IInv, UserInv
  <2>7. QED
    BY <1>3, <2>1, <2>2, <2>6
<1>13. QED
  BY <1>1, <1>5, <1>6, <1>7, <1>8, <1>9, <1>10, <1>11, <1>12

\* A variable a user wrote, over an injected one too, is not removed with the resource: a deletion
\* removes what findInjected saw the resource own, and only a write that ran while it was going on
\* comes between that look and removeVariable.
THEOREM UserVariablesHold == Spec => UserVariablesSurvive
<1>1. IInv /\ [Next]_vars =>
        [\A s \in here', v \in Vars :
          env[<<s, v>>] # None /\ env[<<s, v>>].source = User /\ env'[<<s, v>>] = None =>
             backend = "prisma" /\ \E c \in Calls : Deletes(c) /\ env[<<s, v>>].by \in call[c].with]_vars
  BY UserStays
<1>2. QED
  BY <1>1, Invariance, PTL DEF Spec, UserVariablesSurvive

\* A step that takes the row from ready to provisioning.
LEMMA ReadyStays ==
    ASSUME IInv, Next, row # None, row' # None, row.status = "ready", row'.status # "ready"
    PROVE  \E c \in Calls : call[c].pc # call'[c].pc /\
              \/ call[c].op = "createResource"
              \/ backend = "prisma" /\ call[c].op = "updateResource" /\ Overlaps(c, {"provision", "updateResource"})
<1>1. PICK c \in Calls :
        \/ Starts(c)
        \/ createResource(c) \/ get(c) \/ updateResource(c) \/ nameSecret(c) \/ markReady(c)
        \/ \E live, ok \in BOOLEAN : provisionProvider(c, live, ok)
        \/ \E k \in Keys : attachSecret(c, k)
        \/ readConnection(c) \/ attachResource(c) \/ upsertVariable(c)
        \/ \E w \in Vars : upsertSecret(c, w)
        \/ \E fails \in BOOLEAN : findAttachments(c, fails)
        \/ \E x \in Slots : findInjected(c, x)
        \/ removeSecret(c) \/ removeVariable(c) \/ removeSecrets(c) \/ deleteResource(c)
        \/ deleteService(c) \/ StoreStep(c) \/ fail(c)
  BY NextIs
<1>2. row' # row /\ row \in Row /\ call \in [Calls -> Call]
  BY DEF IInv, TypeInv, Tables
<1>3. ~Starts(c)
  BY <1>2, StartsStep, StartedData
<1>4. ~get(c) /\ ~nameSecret(c) /\ ~upsertVariable(c) /\ ~deleteService(c)
  BY <1>2 DEF get, nameSecret, upsertVariable, deleteService, data
<1>5. /\ ~\E live, ok \in BOOLEAN : provisionProvider(c, live, ok)
      /\ ~\E k \in Keys : attachSecret(c, k)
      /\ ~\E w \in Vars : upsertSecret(c, w)
      /\ ~\E fails \in BOOLEAN : findAttachments(c, fails)
      /\ ~\E x \in Slots : findInjected(c, x)
  BY <1>2 DEF provisionProvider, attachSecret, upsertSecret, findAttachments, findInjected, data
<1>6. ~readConnection(c) /\ ~attachResource(c) /\ ~removeSecret(c) /\ ~removeVariable(c) /\ ~removeSecrets(c)
  BY <1>2 DEF readConnection, attachResource, removeSecret, removeVariable, removeSecrets, data
<1>7. ~deleteResource(c) /\ ~fail(c)
  BY <1>2 DEF deleteResource, fail, data
<1>8. ~markReady(c)
  BY <1>2 DEF markReady, Row
<1>9. CASE createResource(c)
  <2>1. call[c].pc = "create" /\ call[c].op = "createResource"
    BY <1>9 DEF createResource, At, IInv, TypeInv, Shape, Phase
  <2>2. PICK id, todo :
           call' = [call EXCEPT ![c].pc = "secrets", ![c].id = id, ![c].todo = todo]
    BY <1>9 DEF createResource
  <2>3. call'[c].pc = "secrets"
    BY <1>2, <2>2 DEF Call
  <2>4. QED
    BY <2>1, <2>3
<1>10. CASE updateResource(c)
  <2>1. backend = "prisma" /\ call[c].pc = "update" /\ call[c].op = "updateResource" /\ Live(call[c].id)
    BY <1>2, <1>10 DEF updateResource, At, IInv, TypeInv, Shape, Phase
  <2>2. row' = [row EXCEPT !.engine = call[c].engine, !.status = call[c].status]
    BY <1>10, <2>1 DEF updateResource
  <2>3. call[c].status # "ready"
    BY <1>2, <2>2 DEF Row
  <2>4. Overlaps(c, {"provision", "updateResource"})
    BY <2>1, <2>3 DEF IInv, StaleInv
  <2>5. PICK p \in {"secrets", "done"} : p = IF call[c].live THEN "secrets" ELSE "done"
    OBVIOUS
  <2>6. PICK todo : todo = EnvKeys[call[c].engine]
    OBVIOUS
  <2>7. call' = [call EXCEPT ![c].pc = p, ![c].live = FALSE, ![c].todo = todo]
    BY <1>10, <2>1, <2>5, <2>6 DEF updateResource
  <2>8. call'[c].pc = p
    BY <1>2, <2>7 DEF Call
  <2>9. p # "update"
    OBVIOUS
  <2>10. QED
    BY <2>1, <2>4, <2>8, <2>9
<1>11. CASE StoreStep(c)
  <2>1. CASE storeCreateResource(c)
    <3>1. call[c].op = "createResource" /\ call[c].pc # "done" /\ Goto(c, "done")
      BY <2>1 DEF storeCreateResource, InStore
    <3>2. call'[c].pc = "done"
      BY <1>2, <3>1 DEF Goto, Call
    <3>3. QED
      BY <3>1, <3>2
  <2>2. ~storeUpdateResource(c) /\ ~storeProvision(c)
    <3>1. ~storeUpdateResource(c)
      BY <1>2 DEF storeUpdateResource, Missing, data, Row
    <3>2. ~storeProvision(c)
      BY <1>2 DEF storeProvision, Missing, data, Row
    <3>3. QED
      BY <3>1, <3>2
  <2>3. ~storeAttachResource(c) /\ ~storeSetEnvironment(c)
    BY <1>2 DEF storeAttachResource, storeSetEnvironment, Missing, data
  <2>4. ~storeDeleteResource(c)
    BY <1>2 DEF storeDeleteResource, Missing, data
  <2>5. QED
    BY <1>11, <2>1, <2>2, <2>3, <2>4 DEF StoreStep
<1>12. QED
  BY <1>1, <1>3, <1>4, <1>5, <1>6, <1>7, <1>8, <1>9, <1>10, <1>11

\* A resource that is ready stays so until it is created again: updateResource writes back the
\* status it read, which is out of date only when the update ran while a provisioning or another
\* update did.
THEOREM ReadyHolds == Spec => ReadyIsKept
<1>1. IInv /\ [Next]_vars =>
        [row # None /\ row' # None /\ row.status = "ready" /\ row'.status # "ready" =>
          \E c \in Calls : call[c].pc # call'[c].pc /\
              \/ call[c].op = "createResource"
              \/ backend = "prisma" /\ call[c].op = "updateResource" /\ Overlaps(c, {"provision", "updateResource"})]_vars
  BY ReadyStays
<1>2. QED
  BY <1>1, Invariance, PTL DEF Spec, ReadyIsKept
================================================================================
