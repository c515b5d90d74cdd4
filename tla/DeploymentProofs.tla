----------------------------- MODULE DeploymentProofs -----------------------------
(***************************************************************************)
(* Proofs about the ways to a running workload: DesiredState (the command  *)
(* line compiles a file and kubectl applies it), Reconciler (the           *)
(* orchestrator rolls a built deployment out) and BuildPipeline (a commit  *)
(* becomes an image and its deployment a status).  The three models share  *)
(* no name, and no proof of one uses a fact of another.                    *)
(*                                                                         *)
(* DesiredState, for all projects, services, resources, specifications,    *)
(* variables and operators and any number of edits, commands and faults.   *)
(* Its properties say what the cluster holds after a success; inductive    *)
(* is that during an undisturbed k8s-apply every object it must leave      *)
(* behind is in place, or still to come, or the command has failed.  That  *)
(* no step of another command undoes this rests on the names the compilers *)
(* give to their objects (SameObject, Unharmed).                           *)
(***************************************************************************)
EXTENDS BuildPipeline, Reconciler, DesiredState, WellFoundedInduction, TLAPS

--------------------------------------------------------------------------------
(***************************************************************************)
(* Induction, sequences and FlattenSeq.  The compilers build their lists   *)
(* with FlattenSeq, which is defined through a function chosen by its      *)
(* recursion; that the function exists is shown by induction, stated with  *)
(* a set instead of a predicate.                                           *)
(***************************************************************************)
\* A set of naturals that is not empty has a least element.
LEMMA LeastElement ==
  ASSUME NEW T \in SUBSET Nat, T # {} PROVE \E x \in T : \A y \in T : x <= y
<1> DEFINE Rel == {ss \in Nat \X Nat : ss[1] < ss[2]}
<1>0. IsWellFoundedOn(Rel, Nat)
  BY NatLessThanWellFounded DEF OpToRel
<1>1. ASSUME NEW x \in Nat, NEW y \in Nat, <<y, x>> \notin Rel PROVE x <= y
  BY <1>1
<1> HIDE DEF Rel
<1>2. \E x \in T : \A y \in T : ~ (<<y, x>> \in Rel)
  BY <1>0, WFMin
<1>3. QED
  BY <1>1, <1>2

\* Induction over the naturals, with a set in place of a predicate.
LEMMA UpwardInduction ==
  ASSUME NEW T \in SUBSET Nat, 0 \in T, \A n \in T : n+1 \in T PROVE T = Nat
<1>1. ASSUME Nat \ T # {} PROVE FALSE
  <2>1. PICK x \in Nat \ T : \A y \in Nat \ T : x <= y
    BY <1>1, LeastElement
  <2>2. x # 0 /\ x-1 \in Nat /\ x - 1 + 1 = x
    BY <2>1
  <2>3. x - 1 \in T
    BY <2>1, <2>2
  <2> QED BY <2>1, <2>2, <2>3
<1> QED BY <1>1

\* A sequence, whatever its elements are.
IsSequence(s) == s \in Seq(Range(s))

\* The elements of a sequence over S are in S.
LEMMA RangeWithin == ASSUME NEW S, NEW s \in Seq(S) PROVE IsSequence(s) /\ Range(s) \subseteq S
BY DEF IsSequence, Range
\* A sequence is one over every set that holds its elements.
LEMMA SequenceOver ==
  ASSUME NEW s, IsSequence(s), NEW S, Range(s) \subseteq S PROVE s \in Seq(S)
BY DEF IsSequence, Range
\* Concatenation keeps the elements of both sequences and adds none.
LEMMA Concatenated ==
  ASSUME NEW s, IsSequence(s), NEW t, IsSequence(t)
  PROVE  IsSequence(s \o t) /\ Range(s \o t) = Range(s) \cup Range(t)
<1>1. s \in Seq(Range(s) \cup Range(t)) /\ t \in Seq(Range(s) \cup Range(t))
  BY SequenceOver
<1>2. s \o t \in Seq(Range(s) \cup Range(t))
  BY <1>1
<1>3. IsSequence(s \o t) /\ Range(s \o t) \subseteq Range(s) \cup Range(t)
  BY <1>2, RangeWithin
<1>4. Len(s \o t) = Len(s) + Len(t) /\ DOMAIN (s \o t) = 1..(Len(s) + Len(t))
      /\ DOMAIN s = 1..Len(s) /\ DOMAIN t = 1..Len(t)
  BY <1>1
<1>5. ASSUME NEW i \in DOMAIN s PROVE s[i] \in Range(s \o t)
  <2>1. (s \o t)[i] = s[i] /\ i \in DOMAIN (s \o t)
    BY <1>1, <1>4, <1>5
  <2>2. QED BY <2>1 DEF Range
<1>6. ASSUME NEW i \in DOMAIN t PROVE t[i] \in Range(s \o t)
  <2>1. (s \o t)[Len(s) + i] = t[i] /\ Len(s) + i \in DOMAIN (s \o t)
    BY <1>1, <1>4, <1>6
  <2>2. QED BY <2>1 DEF Range
<1>7. Range(s) \cup Range(t) \subseteq Range(s \o t)
  BY <1>5, <1>6 DEF Range
<1> QED BY <1>3, <1>7

\* f holds the concatenation of every non-empty prefix of ss up to the n-th.
Joined(ss, n, f) == f = [i \in 1..n |-> IF i = 1 THEN ss[i] ELSE f[i-1] \o ss[i]]

\* FlattenSeq takes the longest of these concatenations.
LEMMA FlattenByPrefixes ==
  ASSUME NEW ss, Len(ss) # 0
  PROVE  FlattenSeq(ss) = (CHOOSE f : Joined(ss, Len(ss), f))[Len(ss)]
BY DEF FlattenSeq, Joined

\* The concatenations of the prefixes can be extended by one.
LEMMA PrefixesExtend == ASSUME NEW ss, NEW n \in Nat, NEW f, Joined(ss, n, f)
  PROVE \E g : Joined(ss, n + 1, g)
<1> DEFINE g == [i \in 1..(n+1) |->
                   IF i \in 1..n THEN f[i] ELSE IF i = 1 THEN ss[i] ELSE f[n] \o ss[i]]
<1>1. ASSUME NEW i \in 1..(n+1) PROVE g[i] = IF i = 1 THEN ss[i] ELSE g[i-1] \o ss[i]
  <2>1. CASE i \in 1..n
    <3>1. f[i] = IF i = 1 THEN ss[i] ELSE f[i-1] \o ss[i]
      BY <2>1 DEF Joined
    <3>2. g[i] = f[i] /\ (i # 1 => g[i-1] = f[i-1])
      BY <2>1
    <3> QED BY <3>1, <3>2
  <2>2. CASE i = n + 1 /\ i = 1
    BY <2>2
  <2>3. CASE i = n + 1 /\ i # 1
    <3>1. i \notin 1..n /\ i - 1 = n /\ n \in 1..n
      BY <2>3
    <3>2. g[i] = f[n] \o ss[i]
      BY <2>3, <3>1
    <3>3. g[n] = f[n]
      BY <3>1
    <3> QED BY <2>3, <3>1, <3>2, <3>3
  <2> QED BY <2>1, <2>2, <2>3
<1>2. g = [i \in 1..(n+1) |-> g[i]]
  OBVIOUS
<1>3. Joined(ss, n+1, g)
  <2> HIDE DEF g
  <2>1. [i \in 1..(n+1) |-> g[i]] = [i \in 1..(n+1) |-> IF i = 1 THEN ss[i] ELSE g[i-1] \o ss[i]]
    BY <1>1
  <2>2. g = [i \in 1..(n+1) |-> IF i = 1 THEN ss[i] ELSE g[i-1] \o ss[i]]
    BY <1>2, <2>1
  <2> QED BY <2>2 DEF Joined
<1> QED BY <1>3

\* By induction they exist for every length, so FlattenSeq's CHOOSE has a value.
LEMMA PrefixesExist == ASSUME NEW ss, NEW n \in Nat PROVE \E f : Joined(ss, n, f)
<1> DEFINE T == {k \in Nat : \E f : Joined(ss, k, f)}
<1>1. 0 \in T
  <2>1. Joined(ss, 0, [i \in {} |-> 0])
    BY DEF Joined
  <2> QED BY <2>1
<1>2. \A k \in T : k + 1 \in T
  BY PrefixesExtend
<1> HIDE DEF T
<1>3. T \in SUBSET Nat
  BY DEF T
<1>4. T = Nat
  BY <1>1, <1>2, <1>3, UpwardInduction
<1> QED BY <1>4 DEF T

\* FlattenSeq, with which the compiler joins its lists, keeps all elements and adds none.
LEMMA Flattened ==
  ASSUME NEW n \in Nat, NEW ss, ss = [i \in 1..n |-> ss[i]], \A i \in 1..n : IsSequence(ss[i])
  PROVE  /\ IsSequence(FlattenSeq(ss))
         /\ \A x : x \in Range(FlattenSeq(ss)) <=> \E i \in 1..n : x \in Range(ss[i])
<1>0. DOMAIN ss = 1..n /\ ss \in Seq(Range(ss)) /\ Len(ss) = n
  <2>1. DOMAIN ss = 1..n
    OBVIOUS
  <2>2. ss \in [1..n -> Range(ss)]
    BY <2>1 DEF Range
  <2>3. ss \in Seq(Range(ss))
    BY <2>2
  <2> QED BY <2>1, <2>3
<1>1. CASE n = 0
  <2>1. FlattenSeq(ss) = ss
    BY <1>0, <1>1 DEF FlattenSeq
  <2>2. IsSequence(ss) /\ Range(ss) = {}
    BY <1>0, <1>1 DEF IsSequence, Range
  <2> QED BY <1>1, <2>1, <2>2
<1>2. CASE n # 0
  <2>1. PICK f : f = CHOOSE g : Joined(ss, n, g)
    OBVIOUS
  <2>2. Joined(ss, n, f)
    BY <2>1, PrefixesExist
  <2>3. FlattenSeq(ss) = f[n]
    BY <1>0, <1>2, <2>1, FlattenByPrefixes
  <2>4. \A i \in 1..n : f[i] = IF i = 1 THEN ss[i] ELSE f[i-1] \o ss[i]
    BY <2>2 DEF Joined
  <2> DEFINE Good(k) == /\ IsSequence(f[k])
                        /\ \A x : x \in Range(f[k]) <=> \E i \in 1..k : x \in Range(ss[i])
             T == {k \in Nat : k + 1 \in 1..n => Good(k + 1)}
  <2>5. 0 \in T
    <3>1. f[1] = ss[1] /\ IsSequence(ss[1]) /\ 1..1 = {1}
      BY <1>2, <2>4
    <3>2. Good(1)
      BY <3>1
    <3> QED BY <3>2
  <2>6. ASSUME NEW k \in T PROVE k + 1 \in T
    <3> SUFFICES ASSUME k + 2 \in 1..n PROVE Good(k + 2)
      BY DEF T
    <3>1. k \in Nat /\ k + 1 \in 1..n /\ Good(k + 1)
      BY <2>6
    <3>2. f[k + 2] = f[k + 1] \o ss[k + 2]
      <4>1. k + 2 # 1 /\ k + 2 - 1 = k + 1
        BY <3>1
      <4>2. PICK j \in 1..n : j = k + 2
        OBVIOUS
      <4>3. f[j] = IF j = 1 THEN ss[j] ELSE f[j - 1] \o ss[j]
        BY <2>4
      <4>4. j # 1 /\ j - 1 = k + 1
        BY <4>1, <4>2
      <4>5. f[j] = f[k + 1] \o ss[j]
        BY <4>3, <4>4
      <4> QED BY <4>2, <4>5
    <3>3. IsSequence(ss[k + 2])
      OBVIOUS
    <3>4. IsSequence(f[k + 2]) /\ Range(f[k + 2]) = Range(f[k + 1]) \cup Range(ss[k + 2])
      BY <3>1, <3>2, <3>3, Concatenated
    <3>5. 1..(k + 2) = 1..(k + 1) \cup {k + 2}
      BY <3>1
    <3>6. \A x : x \in Range(f[k + 1]) <=> \E i \in 1..(k + 1) : x \in Range(ss[i])
      BY <3>1
    <3>7. ASSUME NEW x
          PROVE  x \in Range(f[k + 2]) <=> \E i \in 1..(k + 2) : x \in Range(ss[i])
      <4> HIDE DEF Good, T
      <4>1. (\E i \in 1..(k + 2) : x \in Range(ss[i]))
              <=> (\E i \in 1..(k + 1) : x \in Range(ss[i])) \/ x \in Range(ss[k + 2])
        BY <3>5, Zenon
      <4> QED BY <3>4, <3>6, <4>1, Zenon
    <3> QED BY <3>4, <3>7
  <2> HIDE DEF T, Good
  <2>7. T \in SUBSET Nat
    BY DEF T
  <2>8. T = Nat
    BY <2>5, <2>6, <2>7, UpwardInduction
  <2>9. Good(n)
    <3>1. n - 1 \in T /\ n - 1 + 1 \in 1..n /\ n - 1 + 1 = n
      BY <1>2, <2>8
    <3> QED BY <3>1 DEF T
  <2> QED BY <2>3, <2>9 DEF Good
<1> QED BY <1>1, <1>2


\* The empty list has no elements.
LEMMA EmptyRange == IsSequence(<<>>) /\ Range(<<>>) = {}
<1>1. <<>> \in Seq({}) /\ DOMAIN <<>> = {}
  OBVIOUS
<1> QED BY <1>1, RangeWithin DEF Range

\* A list of one has one element.
LEMMA SingletonRange == ASSUME NEW a PROVE IsSequence(<<a>>) /\ Range(<<a>>) = {a}
<1>1. PICK s : s = <<a>>
  OBVIOUS
<1>2. s \in Seq({a}) /\ DOMAIN s = {1} /\ s[1] = a
  BY <1>1
<1>3. Range(s) = {a}
  BY <1>2 DEF Range
<1> QED BY <1>1, <1>2, <1>3, RangeWithin

\* When(c, s) has the elements of s if c holds, otherwise none.
LEMMA GuardedRange == ASSUME NEW c \in BOOLEAN, NEW s, IsSequence(s)
  PROVE IsSequence(When(c, s)) /\ \A x : x \in Range(When(c, s)) <=> c /\ x \in Range(s)
<1>1. CASE c
  BY <1>1 DEF When
<1>2. CASE ~c
  BY <1>2, EmptyRange DEF When
<1> QED BY <1>1, <1>2

\* The same for one object under a condition.
LEMMA GuardedObject == ASSUME NEW c \in BOOLEAN, NEW a
  PROVE IsSequence(When(c, <<a>>)) /\ \A x : x \in Range(When(c, <<a>>)) <=> c /\ x = a
BY SingletonRange, GuardedRange

--------------------------------------------------------------------------------
(***************************************************************************)
(* What the compilers emit                                                 *)
(***************************************************************************)
\* compileProject goes over the services that are in the file, in some order.
LEMMA ListedServicesAre == ASSUME NEW file
  PROVE /\ IsSequence(ListedServices(file))
        /\ \A x : x \in Range(ListedServices(file)) <=>
                     x \in Range(Services) /\ file.services[x] # Absent
<1>1. PICK n \in Nat : DOMAIN Services = 1..n
  BY NamesAssumption
<1> DEFINE ss == [i \in DOMAIN Services |->
                    When(file.services[Services[i]] # Absent, <<Services[i]>>)]
<1>2. ss = [i \in 1..n |-> ss[i]]
  BY <1>1
<1>3. ASSUME NEW i \in 1..n
      PROVE /\ IsSequence(ss[i])
            /\ \A x : x \in Range(ss[i]) <=> file.services[Services[i]] # Absent /\ x = Services[i]
  <2>1. ss[i] = When(file.services[Services[i]] # Absent, <<Services[i]>>)
    BY <1>1
  <2>2. (file.services[Services[i]] # Absent) \in BOOLEAN
    OBVIOUS
  <2> HIDE DEF ss
  <2> QED BY <2>1, <2>2, GuardedObject
<1>4. ListedServices(file) = FlattenSeq(ss)
  BY DEF ListedServices
<1> HIDE DEF ss
<1>5. /\ IsSequence(ListedServices(file))
      /\ \A x : x \in Range(ListedServices(file)) <=> \E i \in 1..n : x \in Range(ss[i])
  BY <1>2, <1>3, <1>4, Flattened
<1>6. ASSUME NEW x
      PROVE  (\E i \in 1..n : x \in Range(ss[i])) <=>
                 x \in Range(Services) /\ file.services[x] # Absent
  BY <1>1, <1>3 DEF Range
<1> QED BY <1>5, <1>6

\* The objects of one service that something else relies on.
ServiceObject(x, p, name, service, env) ==
    \/ DOMAIN SecretPart(env) # {} /\ x = secretManifest(NamespaceOf(p), name \o <<"env">>, env)
    \/ DOMAIN PlainPart(env) # {}
       /\ x = configMapManifest(NamespaceOf(p), name \o <<"config">>, env)
    \/ x = workloadManifest(p, name, service, env)
    \/ service.type \in {"web", "private"} /\ x = serviceManifest(NamespaceOf(p), name)
    \/ service.type = "web" /\ x = ingressManifest(p, name, service)

\* The kinds of objects no other object of the cluster refers to.
Minor(x, p) ==
    /\ x.id[1] = NamespaceOf(p)
    /\ x.id[2] \in {"Namespace", "HorizontalPodAutoscaler", "PodDisruptionBudget",
                     "DaemonSet", "NetworkPolicy"}

\* compileService emits exactly the objects of the service, and minor ones.
LEMMA ServiceObjects ==
  ASSUME NEW p, NEW name, NEW service, NEW present,
         NEW env, env = injectResourceEnv(service, present)
  PROVE  /\ IsSequence(compileService(p, name, service, present))
         /\ \A x : ServiceObject(x, p, name, service, env)
              => x \in Range(compileService(p, name, service, present))
         /\ \A x \in Range(compileService(p, name, service, present)) :
               ServiceObject(x, p, name, service, env) \/ Minor(x, p)
<1>1. PICK c1 \in BOOLEAN : c1 <=> DOMAIN SecretPart(env) # {}
  OBVIOUS
<1>2. PICK c2 \in BOOLEAN : c2 <=> DOMAIN PlainPart(env) # {}
  OBVIOUS
<1>3. PICK c4 \in BOOLEAN : c4 <=> service.type \in {"web", "private"}
  OBVIOUS
<1>4. PICK c5 \in BOOLEAN : c5 <=> service.type = "web"
  OBVIOUS
<1> DEFINE finite == service.type \in {"cron", "job"}
           least == IF service.min = 0 THEN 1 ELSE service.min
<1>5. PICK c6 \in BOOLEAN : c6 <=> ~finite /\ service.max > least
  OBVIOUS
<1>6. PICK c7 \in BOOLEAN : c7 <=> ~finite
  OBVIOUS
<1>7. PICK x1, x2, x3, x4, x5, x6, x7 :
          /\ x1 = secretManifest(NamespaceOf(p), name \o <<"env">>, env)
          /\ x2 = configMapManifest(NamespaceOf(p), name \o <<"config">>, env)
          /\ x3 = workloadManifest(p, name, service, env)
          /\ x4 = serviceManifest(NamespaceOf(p), name)
          /\ x5 = ingressManifest(p, name, service)
          /\ x6 = hpaManifest(NamespaceOf(p), name, service)
          /\ x7 = pdbManifest(NamespaceOf(p), name)
  OBVIOUS
<1>8. PICK L : L = When(c1, <<x1>>) \o When(c2, <<x2>>) \o <<x3>> \o When(c4, <<x4>>)
                   \o When(c5, <<x5>>) \o When(c6, <<x6>>) \o When(c7, <<x7>>)
  OBVIOUS
<1>9. compileService(p, name, service, present) = L
  BY <1>1, <1>2, <1>3, <1>4, <1>5, <1>6, <1>7, <1>8 DEF compileService, When
<1> HIDE DEF finite, least
<1>10. PICK s1, s2, s3, s4, s5, s6, s7 :
          /\ s1 = When(c1, <<x1>>) /\ s2 = When(c2, <<x2>>) /\ s3 = <<x3>> /\ s4 = When(c4, <<x4>>)
          /\ s5 = When(c5, <<x5>>) /\ s6 = When(c6, <<x6>>) /\ s7 = When(c7, <<x7>>)
  OBVIOUS
<1>11. /\ IsSequence(s1) /\ IsSequence(s2) /\ IsSequence(s3) /\ IsSequence(s4)
       /\ IsSequence(s5) /\ IsSequence(s6) /\ IsSequence(s7)
       /\ \A x : x \in Range(s1) <=> c1 /\ x = x1
       /\ \A x : x \in Range(s2) <=> c2 /\ x = x2
       /\ \A x : x \in Range(s3) <=> x = x3
       /\ \A x : x \in Range(s4) <=> c4 /\ x = x4
       /\ \A x : x \in Range(s5) <=> c5 /\ x = x5
       /\ \A x : x \in Range(s6) <=> c6 /\ x = x6
       /\ \A x : x \in Range(s7) <=> c7 /\ x = x7
  <2>1. IsSequence(s1) /\ \A x : x \in Range(s1) <=> c1 /\ x = x1
    BY <1>10, GuardedObject
  <2>2. IsSequence(s2) /\ \A x : x \in Range(s2) <=> c2 /\ x = x2
    BY <1>10, GuardedObject
  <2>3. IsSequence(s3) /\ \A x : x \in Range(s3) <=> x = x3
    BY <1>10, SingletonRange
  <2>4. IsSequence(s4) /\ \A x : x \in Range(s4) <=> c4 /\ x = x4
    BY <1>10, GuardedObject
  <2>5. IsSequence(s5) /\ \A x : x \in Range(s5) <=> c5 /\ x = x5
    BY <1>10, GuardedObject
  <2>6. IsSequence(s6) /\ \A x : x \in Range(s6) <=> c6 /\ x = x6
    BY <1>10, GuardedObject
  <2>7. IsSequence(s7) /\ \A x : x \in Range(s7) <=> c7 /\ x = x7
    BY <1>10, GuardedObject
  <2>8. QED
    BY <2>1, <2>2, <2>3, <2>4, <2>5, <2>6, <2>7
<1>12. L = s1 \o s2 \o s3 \o s4 \o s5 \o s6 \o s7
  BY <1>8, <1>10
<1>13. PICK t2 : t2 = s1 \o s2
  OBVIOUS
<1>14. PICK t3 : t3 = t2 \o s3
  OBVIOUS
<1>15. PICK t4 : t4 = t3 \o s4
  OBVIOUS
<1>16. PICK t5 : t5 = t4 \o s5
  OBVIOUS
<1>17. PICK t6 : t6 = t5 \o s6
  OBVIOUS
<1>18. L = t6 \o s7
  BY <1>12, <1>13, <1>14, <1>15, <1>16, <1>17
<1>19. IsSequence(t2) /\ Range(t2) = Range(s1) \cup Range(s2)
  BY <1>11, <1>13, Concatenated
<1>20. IsSequence(t3) /\ Range(t3) = Range(t2) \cup Range(s3)
  BY <1>11, <1>14, <1>19, Concatenated
<1>21. IsSequence(t4) /\ Range(t4) = Range(t3) \cup Range(s4)
  BY <1>11, <1>15, <1>20, Concatenated
<1>22. IsSequence(t5) /\ Range(t5) = Range(t4) \cup Range(s5)
  BY <1>11, <1>16, <1>21, Concatenated
<1>23. IsSequence(t6) /\ Range(t6) = Range(t5) \cup Range(s6)
  BY <1>11, <1>17, <1>22, Concatenated
<1>24. IsSequence(L) /\ Range(L) = Range(t6) \cup Range(s7)
  BY <1>11, <1>18, <1>23, Concatenated
<1>25. ASSUME NEW x
       PROVE  x \in Range(L) <=> \/ c1 /\ x = x1
                                 \/ c2 /\ x = x2
                                 \/ x = x3
                                 \/ c4 /\ x = x4
                                 \/ c5 /\ x = x5
                                 \/ c6 /\ x = x6
                                 \/ c7 /\ x = x7
  <2>1. x \in Range(L) <=> \/ x \in Range(s1) \/ x \in Range(s2) \/ x \in Range(s3)
                           \/ x \in Range(s4) \/ x \in Range(s5) \/ x \in Range(s6)
                           \/ x \in Range(s7)
    BY <1>19, <1>20, <1>21, <1>22, <1>23, <1>24
  <2>2. QED
    BY <1>11, <2>1
<1>26. ASSUME NEW x
       PROVE  ServiceObject(x, p, name, service, env)
                <=> \/ c1 /\ x = x1
                    \/ c2 /\ x = x2
                    \/ x = x3
                    \/ c4 /\ x = x4
                    \/ c5 /\ x = x5
  BY <1>1, <1>2, <1>3, <1>4, <1>7 DEF ServiceObject
<1>27. Minor(x6, p) /\ Minor(x7, p)
  BY <1>7 DEF Minor, hpaManifest, pdbManifest, Object
<1> QED BY <1>9, <1>24, <1>25, <1>26, <1>27

\* The objects of the services of a file.
ProjectObject(x, p, file) ==
    \E name \in Range(ListedServices(file)) :
        ServiceObject(x, p, name, file.services[name],
                      injectResourceEnv(file.services[name], file.resources))

\* networkPolicyManifests emits minor objects only.
LEMMA PolicyObjects ==
  ASSUME NEW p, NEW listed, IsSequence(listed), NEW services
  PROVE  /\ IsSequence(networkPolicyManifests(p, listed, services))
         /\ \A x \in Range(networkPolicyManifests(p, listed, services)) : Minor(x, p)
<1>1. PICK n \in Nat : DOMAIN listed = 1..n
  BY DEF IsSequence
<1> DEFINE Policy(i) == Object(NamespaceOf(p), "NetworkPolicy",
                               listed[i] \o <<"public", "egress">>, [selector |-> listed[i]])
           ss == [i \in DOMAIN listed |-> When(services[listed[i]].egress, <<Policy(i)>>)]
           first == Object(NamespaceOf(p), "NetworkPolicy", <<"tenant", "isolation">>,
                           [selector |-> Absent])
<1>2. networkPolicyManifests(p, listed, services) = <<first>> \o FlattenSeq(ss)
  BY DEF networkPolicyManifests
<1>3. ss = [i \in 1..n |-> ss[i]]
  BY <1>1
<1>4. ASSUME NEW i \in 1..n PROVE IsSequence(ss[i]) /\ \A x \in Range(ss[i]) : Minor(x, p)
  <2>1. Minor(Policy(i), p)
    BY DEF Minor, Object
  <2>2. ss[i] = When(services[listed[i]].egress, <<Policy(i)>>)
    BY <1>1
  <2> HIDE DEF ss, Policy
  <2>3. CASE services[listed[i]].egress
    <3>1. ss[i] = <<Policy(i)>>
      BY <2>2, <2>3 DEF When
    <3> QED BY <2>1, <3>1, SingletonRange
  <2>4. CASE ~services[listed[i]].egress
    <3>1. ss[i] = <<>>
      BY <2>2, <2>4 DEF When
    <3> QED BY <3>1, EmptyRange
  <2> QED BY <2>3, <2>4
<1>5. Minor(first, p)
  BY DEF Minor, Object
<1> HIDE DEF ss, first
<1>6. /\ IsSequence(FlattenSeq(ss))
      /\ \A x : x \in Range(FlattenSeq(ss)) <=> \E i \in 1..n : x \in Range(ss[i])
  BY <1>3, <1>4, Flattened
<1>7. IsSequence(<<first>>) /\ Range(<<first>>) = {first}
  BY SingletonRange
<1> QED BY <1>2, <1>4, <1>5, <1>6, <1>7, Concatenated

\* compileProject emits the objects of every service in the file, and minor ones.
LEMMA ProjectObjects ==
  ASSUME NEW p, NEW file
  PROVE  /\ IsSequence(compileProject(p, file))
         /\ \A x : ProjectObject(x, p, file) => x \in Range(compileProject(p, file))
         /\ \A x \in Range(compileProject(p, file)) : ProjectObject(x, p, file) \/ Minor(x, p)
<1>1. PICK listed : listed = ListedServices(file)
  OBVIOUS
<1>2. IsSequence(listed)
  BY <1>1, ListedServicesAre
<1>3. PICK n \in Nat : DOMAIN listed = 1..n
  BY <1>2 DEF IsSequence
<1> DEFINE Space == Object(NamespaceOf(p), "Namespace", NamespaceOf(p), [project |-> p.slug])
           ss == [i \in DOMAIN listed |->
                    compileService(p, listed[i], file.services[listed[i]], file.resources)]
           Pre == Object(NamespaceOf(p), "DaemonSet", <<"image", "prepull">>,
                     [images |-> {imageOf(p, listed[i], file.services[listed[i]]) :
                                      i \in DOMAIN listed}])
<1>4. compileProject(p, file) = <<Space>> \o FlattenSeq(ss)
                                   \o When(file.prepull /\ listed # <<>>, <<Pre>>)
                                   \o networkPolicyManifests(p, listed, file.services)
  BY <1>1 DEF compileProject, prePullManifests
<1>5. ss = [i \in 1..n |-> ss[i]]
  BY <1>3
<1>6. \A i \in 1..n : ss[i] = compileService(p, listed[i], file.services[listed[i]], file.resources)
  BY <1>3
<1>7. Minor(Space, p) /\ Minor(Pre, p)
  BY DEF Minor, Object
<1> HIDE DEF Space, ss, Pre
<1> DEFINE Of(x, i) == ServiceObject(x, p, listed[i], file.services[listed[i]],
                                      injectResourceEnv(file.services[listed[i]], file.resources))
<1>8. ASSUME NEW i \in 1..n
      PROVE  /\ IsSequence(ss[i])
             /\ \A x : Of(x, i) => x \in Range(ss[i])
             /\ \A x \in Range(ss[i]) : Of(x, i) \/ Minor(x, p)
  BY <1>6, ServiceObjects
<1>9. \A x : ProjectObject(x, p, file) <=> \E i \in 1..n : Of(x, i)
  BY <1>1, <1>3 DEF ProjectObject, Range
<1> HIDE DEF Of
<1>10. /\ IsSequence(FlattenSeq(ss))
       /\ \A x : x \in Range(FlattenSeq(ss)) <=> \E i \in 1..n : x \in Range(ss[i])
  BY <1>5, <1>8, Flattened
<1>11. /\ \A x : ProjectObject(x, p, file) => x \in Range(FlattenSeq(ss))
       /\ \A x \in Range(FlattenSeq(ss)) : ProjectObject(x, p, file) \/ Minor(x, p)
  BY <1>8, <1>9, <1>10
<1>12. PICK a : a = <<Space>>
  OBVIOUS
<1>13. PICK b : b = FlattenSeq(ss)
  OBVIOUS
<1>14. PICK c : c = When(file.prepull /\ listed # <<>>, <<Pre>>)
  OBVIOUS
<1>15. PICK d : d = networkPolicyManifests(p, listed, file.services)
  OBVIOUS
<1>16. IsSequence(a) /\ \A x \in Range(a) : Minor(x, p)
  BY <1>7, <1>12, SingletonRange
<1>17. IsSequence(c) /\ \A x \in Range(c) : Minor(x, p)
  <2>1. PICK w \in BOOLEAN : w <=> file.prepull /\ listed # <<>>
    OBVIOUS
  <2>2. c = When(w, <<Pre>>)
    BY <1>14, <2>1 DEF When
  <2> QED BY <1>7, <2>2, GuardedObject
<1>18. IsSequence(d) /\ \A x \in Range(d) : Minor(x, p)
  BY <1>2, <1>15, PolicyObjects
<1>19. compileProject(p, file) = a \o b \o c \o d
  BY <1>4, <1>12, <1>13, <1>14, <1>15
<1>20. PICK e : e = a \o b
  OBVIOUS
<1>21. PICK f : f = e \o c
  OBVIOUS
<1>22. PICK g : g = f \o d
  OBVIOUS
<1>23. compileProject(p, file) = g
  BY <1>19, <1>20, <1>21, <1>22
<1>24. IsSequence(e) /\ Range(e) = Range(a) \cup Range(b)
  BY <1>10, <1>13, <1>16, <1>20, Concatenated
<1>25. IsSequence(f) /\ Range(f) = Range(e) \cup Range(c)
  BY <1>17, <1>21, <1>24, Concatenated
<1>26. IsSequence(g) /\ Range(g) = Range(f) \cup Range(d)
  BY <1>18, <1>22, <1>25, Concatenated
<1> QED BY <1>11, <1>13, <1>16, <1>17, <1>18, <1>23, <1>24, <1>25, <1>26

\* What provisioning applies.
Provisioned(x, p) ==
    /\ x.id[1] = NamespaceOf(p)
    /\ \/ x.id[2] = "ManagedResource"
       \/ x.id[2] = "Secret" /\ \E r \in Range(Resources) : x.id[3] = r \o <<"connection">>

\* compileProjectProvisioning emits nothing else.
LEMMA ProvisioningObjects ==
  ASSUME NEW p, NEW file
  PROVE  /\ IsSequence(compileProjectProvisioning(p, file))
         /\ \A x \in Range(compileProjectProvisioning(p, file)) : Provisioned(x, p)
<1>1. PICK n \in Nat : DOMAIN Resources = 1..n
  BY NamesAssumption
<1> DEFINE ss == [i \in DOMAIN Resources |->
                    When(Resources[i] \in file.resources,
                         compileResourceProvisioningPlan(NamespaceOf(p), Resources[i]))]
<1>2. compileProjectProvisioning(p, file) = FlattenSeq(ss)
  BY DEF compileProjectProvisioning
<1>3. ss = [i \in 1..n |-> ss[i]]
  BY <1>1
<1>4. ASSUME NEW i \in 1..n
      PROVE  IsSequence(ss[i]) /\ \A x \in Range(ss[i]) : Provisioned(x, p)
  <2>1. PICK r \in Range(Resources) : r = Resources[i]
    BY <1>1 DEF Range
  <2> DEFINE env == [k \in ConnectionEnv[r] |-> r]
             x1 == Object(NamespaceOf(p), "ManagedResource", r,
                          [credentials |-> r \o <<"connection">>])
             x2 == secretManifest(NamespaceOf(p), r \o <<"connection">>, env)
  <2>2. PICK c \in BOOLEAN : c <=> DOMAIN SecretPart(env) # {}
    OBVIOUS
  <2>3. compileResourceProvisioningPlan(NamespaceOf(p), r) = <<x1>> \o When(c, <<x2>>)
    BY <2>2 DEF compileResourceProvisioningPlan, When
  <2>4. Provisioned(x1, p) /\ Provisioned(x2, p)
    BY DEF Provisioned, secretManifest, Object
  <2> HIDE DEF x1, x2, env
  <2>5. PICK plan : plan = compileResourceProvisioningPlan(NamespaceOf(p), r)
    OBVIOUS
  <2>6. IsSequence(plan) /\ \A x \in Range(plan) : Provisioned(x, p)
    <3>1. IsSequence(<<x1>>) /\ Range(<<x1>>) = {x1}
      BY SingletonRange
    <3>2. IsSequence(When(c, <<x2>>)) /\ \A x : x \in Range(When(c, <<x2>>)) => x = x2
      BY GuardedObject
    <3>3. IsSequence(plan) /\ Range(plan) = Range(<<x1>>) \cup Range(When(c, <<x2>>))
      BY <2>3, <2>5, <3>1, <3>2, Concatenated
    <3> QED BY <2>4, <3>1, <3>2, <3>3
  <2>7. PICK w \in BOOLEAN : w <=> r \in file.resources
    OBVIOUS
  <2>8. ss[i] = When(w, plan)
    BY <1>1, <2>1, <2>5, <2>7 DEF When
  <2> HIDE DEF ss
  <2> QED BY <2>6, <2>8, GuardedRange
<1> HIDE DEF ss
<1> QED BY <1>2, <1>3, <1>4, Flattened

\* Two slugs that end in a word each are equal only if they agree before it and in it.
LEMMA LastWords ==
  ASSUME NEW s, IsSequence(s), NEW t, IsSequence(t), NEW a, NEW b, s \o <<a>> = t \o <<b>>
  PROVE  s = t /\ a = b
<1>1. PICK S : s \in Seq(S) /\ t \in Seq(S) /\ a \in S /\ b \in S
  <2>1. s \in Seq(Range(s) \cup Range(t) \cup {a, b})
        /\ t \in Seq(Range(s) \cup Range(t) \cup {a, b})
    BY SequenceOver
  <2> QED BY <2>1
<1>2. PICK n, m : /\ n \in Nat /\ n = Len(s) /\ DOMAIN s = 1..n
                  /\ m \in Nat /\ m = Len(t) /\ DOMAIN t = 1..m
  BY <1>1
<1>3. PICK u, v : u = s \o <<a>> /\ v = t \o <<b>>
  OBVIOUS
<1>4. /\ Len(u) = n + 1 /\ u[n + 1] = a /\ \A i \in 1..n : u[i] = s[i]
      /\ Len(v) = m + 1 /\ v[m + 1] = b /\ \A i \in 1..m : v[i] = t[i]
  BY <1>1, <1>2, <1>3
<1>5. u = v /\ n = m
  <2>1. u = v
    BY <1>3
  <2>2. n + 1 = m + 1
    BY <1>4, <2>1
  <2> QED BY <1>2, <2>1, <2>2
<1>6. a = b /\ \A i \in 1..n : s[i] = t[i]
  BY <1>4, <1>5
<1>7. s = [i \in 1..n |-> s[i]] /\ t = [i \in 1..n |-> t[i]]
  BY <1>1, <1>2, <1>5
<1> QED BY <1>6, <1>7

\* The names of services and resources are sequences of words.
LEMMA NamesAreSequences ==
  /\ \A name \in Range(Services) : IsSequence(name) /\ name # <<>>
  /\ \A r \in Range(Resources) : IsSequence(r)
<1>1. ASSUME NEW name \in Range(Services) PROVE IsSequence(name) /\ name # <<>>
  <2>1. name \in Seq(STRING) \ {<<>>}
    BY NamesAssumption DEF Range
  <2> QED BY <2>1, RangeWithin
<1>2. ASSUME NEW r \in Range(Resources) PROVE IsSequence(r)
  <2>1. r \in Seq(STRING)
    BY NamesAssumption DEF Range
  <2> QED BY <2>1, RangeWithin
<1> QED BY <1>1, <1>2

\* Workloads, and what they need to run and to be reached.
WorkloadKinds == {"Deployment", "CronJob", "Job"}
Needed(x) == x.id[2] \in WorkloadKinds \cup {"Secret", "ConfigMap", "Service", "Ingress"}

\* The id of an object tells which manifest function made it.
LEMMA ServiceObjectKinds ==
  ASSUME NEW x, NEW p, NEW name, NEW service, NEW env, ServiceObject(x, p, name, service, env)
  PROVE  /\ x.id[1] = NamespaceOf(p)
         /\ \/ x.id[2] = "Secret" /\ x.id[3] = name \o <<"env">>
               /\ x = secretManifest(NamespaceOf(p), name \o <<"env">>, env)
            \/ x.id[2] = "ConfigMap" /\ x.id[3] = name \o <<"config">>
               /\ x = configMapManifest(NamespaceOf(p), name \o <<"config">>, env)
            \/ x.id[2] \in WorkloadKinds /\ x.id[3] = name
               /\ x = workloadManifest(p, name, service, env)
            \/ x.id[2] = "Service" /\ x.id[3] = name /\ x = serviceManifest(NamespaceOf(p), name)
            \/ x.id[2] = "Ingress" /\ x.id[3] = name /\ x = ingressManifest(p, name, service)
<1>1. CASE x = secretManifest(NamespaceOf(p), name \o <<"env">>, env)
  BY <1>1 DEF secretManifest, Object
<1>2. CASE x = configMapManifest(NamespaceOf(p), name \o <<"config">>, env)
  BY <1>2 DEF configMapManifest, Object
<1>3. CASE x = workloadManifest(p, name, service, env)
  <2>1. x.id = <<NamespaceOf(p), WorkloadKind(service.type), name>>
    BY <1>3 DEF workloadManifest, Object
  <2>2. WorkloadKind(service.type) \in WorkloadKinds
    BY DEF WorkloadKind, WorkloadKinds
  <2> QED BY <1>3, <2>1, <2>2
<1>4. CASE x = serviceManifest(NamespaceOf(p), name)
  BY <1>4 DEF serviceManifest, Object
<1>5. CASE x = ingressManifest(p, name, service)
  BY <1>5 DEF ingressManifest, Object
<1> QED BY <1>1, <1>2, <1>3, <1>4, <1>5 DEF ServiceObject

\* No two needed objects of one compilation have the same id: apply never overwrites
\* within its own list.  This is where "-env" and "-config" must be the last words.
LEMMA SameObject ==
  ASSUME NEW p, NEW file, NEW x \in Range(compileProject(p, file)),
         NEW y \in Range(compileProject(p, file)), x.id = y.id, Needed(x)
  PROVE  x = y
<1>1. ~Minor(x, p) /\ ~Minor(y, p)
  BY DEF Needed, Minor, WorkloadKinds
<1>2. PICK m, sm, em : /\ m \in Range(Services) /\ sm = file.services[m]
                       /\ em = injectResourceEnv(sm, file.resources)
                       /\ ServiceObject(x, p, m, sm, em)
  BY <1>1, ProjectObjects, ListedServicesAre DEF ProjectObject
<1>3. PICK n, sn, en : /\ n \in Range(Services) /\ sn = file.services[n]
                       /\ en = injectResourceEnv(sn, file.resources)
                       /\ ServiceObject(y, p, n, sn, en)
  BY <1>1, ProjectObjects, ListedServicesAre DEF ProjectObject
<1>4. IsSequence(m) /\ IsSequence(n)
  BY <1>2, <1>3, NamesAreSequences
<1>5. x.id[2] = y.id[2] /\ x.id[3] = y.id[3]
  OBVIOUS
<1>6. m = n
  <2>1. CASE x.id[2] = "Secret"
    <3>1. m \o <<"env">> = n \o <<"env">>
      BY <1>2, <1>3, <1>5, <2>1, ServiceObjectKinds DEF WorkloadKinds
    <3> QED BY <1>4, <3>1, LastWords
  <2>2. CASE x.id[2] = "ConfigMap"
    <3>1. m \o <<"config">> = n \o <<"config">>
      BY <1>2, <1>3, <1>5, <2>2, ServiceObjectKinds DEF WorkloadKinds
    <3> QED BY <1>4, <3>1, LastWords
  <2>3. CASE x.id[2] \in WorkloadKinds \cup {"Service", "Ingress"}
    BY <1>2, <1>3, <1>5, <2>3, ServiceObjectKinds DEF WorkloadKinds
  <2> QED BY <2>1, <2>2, <2>3 DEF Needed
<1>7. sm = sn /\ em = en
  BY <1>2, <1>3, <1>6
<1> QED BY <1>2, <1>3, <1>5, <1>6, <1>7, ServiceObjectKinds DEF WorkloadKinds

\* Provisioning the resources of any project leaves the needed objects of every project
\* alone: its secrets end in "connection", theirs in "env".
LEMMA Unharmed ==
  ASSUME NEW p, NEW file, NEW x \in Range(compileProject(p, file)), Needed(x),
         NEW q, NEW y, Provisioned(y, q)
  PROVE  x.id # y.id
<1> SUFFICES ASSUME x.id = y.id PROVE FALSE
  OBVIOUS
<1>1. ~Minor(x, p)
  BY DEF Needed, Minor, WorkloadKinds
<1>2. PICK m : m \in Range(Services) /\ \E sm, em : ServiceObject(x, p, m, sm, em)
  BY <1>1, ProjectObjects, ListedServicesAre DEF ProjectObject
<1>3. x.id[2] = "Secret" /\ \E r \in Range(Resources) : x.id[3] = r \o <<"connection">>
  BY DEF Provisioned, Needed, WorkloadKinds
<1>4. PICK r \in Range(Resources) : x.id[3] = r \o <<"connection">>
  BY <1>3
<1>5. m \o <<"env">> = r \o <<"connection">>
  BY <1>2, <1>3, <1>4, ServiceObjectKinds DEF WorkloadKinds
<1>6. IsSequence(m) /\ IsSequence(r)
  BY <1>2, <1>4, NamesAreSequences
<1> QED BY <1>5, <1>6, LastWords

--------------------------------------------------------------------------------
(***************************************************************************)
(* The inductive invariant of DesiredState                                 *)
(***************************************************************************)
\* Types of the state, with the objects the compilers can make of any file.
AllSpecs == UNION {ServiceSpecs[name] : name \in Range(Services)}

Files == [services : [Range(Services) -> AllSpecs \cup {Absent}],
          resources : SUBSET Range(Resources), prepull : BOOLEAN]

Objects == UNION {Range(compileProject(p, f)) \cup Range(compileProjectProvisioning(p, f)) :
                      p \in Projects, f \in Files}

Command == [pc : {"idle", "kubectl"}, ns : Namespaces \cup {<<>>}, todo : Seq(Objects),
        errors : BOOLEAN, number : Nat]

LastApply == [number : Nat, project : Projects \cup {Absent}, file : Files,
          answer : {"none", "running", "applied", "failed", "killed"}, disturbed : BOOLEAN]

FilesTyped ==
    /\ files \in [Projects -> Files]
    /\ \A p \in Projects : \A name \in Range(Services) :
          files[p].services[name] \in ServiceSpecs[name] \cup {Absent}

RunsTyped ==
    /\ run \in [Operators -> Command] /\ runs \in Nat
    /\ \A o \in Operators :
          /\ run[o].pc = "idle" => run[o] = NoRun
          /\ run[o].pc = "kubectl" => /\ run[o].ns \in Namespaces
                                      /\ \A x \in Range(run[o].todo) : x.id[1] = run[o].ns

\* The object is in the cluster, with its contents.
InPlace(x) == x.id \in DOMAIN kube /\ kube[x.id] = x.body

\* Everything in the cluster was made by the compilers.
ClusterMade == \A id \in DOMAIN kube : \E x \in Objects : x.id = id /\ InPlace(x)

\* Commands are told apart by their numbers, and the number of the last k8s-apply of a
\* namespace belongs to nobody or to a command of that namespace that still runs.
Numbered ==
    /\ \A o \in Operators : run[o].pc = "kubectl" => run[o].number \in 1..runs
    /\ \A o, q \in Operators :
          run[o].pc = "kubectl" /\ run[q].pc = "kubectl" /\ run[o].number = run[q].number => o = q
    /\ last \in [Namespaces -> LastApply]
    /\ \A ns \in Namespaces : last[ns].number \in 0..runs
    /\ \A o \in Operators, ns \in Namespaces :
          run[o].pc = "kubectl" /\ run[o].number = last[ns].number =>
              run[o].ns = ns /\ last[ns].answer = "running"

\* What the file of a k8s-apply asks for.
WantedObjects(l) == Range(compileProject(l.project, l.file))

\* As long as the last k8s-apply of a namespace, started while no other command ran
\* there, runs or has succeeded: what runs in the namespace is that command or provisions
\* resources, and every needed object is in place, still in its list, or it has had errors.
ApplyHolds(ns) ==
    last[ns].answer \in {"running", "applied"} /\ ~last[ns].disturbed =>
        /\ last[ns].project \in Projects /\ NamespaceOf(last[ns].project) = ns
        /\ \A o \in Operators : run[o].pc = "kubectl" /\ run[o].ns = ns =>
              \A x \in Range(run[o].todo) :
                 IF run[o].number = last[ns].number THEN x \in WantedObjects(last[ns])
                 ELSE \E q : Provisioned(x, q)
        /\ \A x \in WantedObjects(last[ns]) : Needed(x) =>
              \/ InPlace(x)
              \/ \E o \in Operators :
                    /\ run[o].pc = "kubectl" /\ run[o].number = last[ns].number
                    /\ run[o].errors \/ x \in Range(run[o].todo)

\* The inductive invariant.
DesiredInv ==
    /\ FilesTyped /\ RunsTyped /\ ClusterMade /\ Numbered
    /\ \A ns \in Namespaces : ApplyHolds(ns)

\* The initial state satisfies the inductive invariant: no command runs, the cluster is empty.
LEMMA DesiredInitInv == DesiredInit => DesiredInv
<1> SUFFICES ASSUME DesiredInit PROVE DesiredInv
  OBVIOUS
<1>1. Empty \in Files /\ \A b \in BOOLEAN : [Empty EXCEPT !.prepull = b] \in Files
  <2>1. PICK none : none = [name \in Range(Services) |-> Absent]
    OBVIOUS
  <2>2. none \in [Range(Services) -> AllSpecs \cup {Absent}]
    BY <2>1
  <2>3. Empty = [services |-> none, resources |-> {}, prepull |-> FALSE]
    BY <2>1 DEF Empty
  <2>4. Empty \in Files
    BY <2>2, <2>3 DEF Files
  <2>5. ASSUME NEW b \in BOOLEAN PROVE [Empty EXCEPT !.prepull = b] \in Files
    <3>1. [Empty EXCEPT !.prepull = b] = [services |-> none, resources |-> {}, prepull |-> b]
      BY <2>3
    <3> QED BY <2>2, <3>1 DEF Files
  <2> QED BY <2>4, <2>5
<1>2. PICK b \in BOOLEAN : files = [p \in Projects |-> [Empty EXCEPT !.prepull = b]]
  BY DEF DesiredInit
<1>3. FilesTyped
  BY <1>1, <1>2 DEF FilesTyped, Empty
<1>4. NoRun \in Command
  <2>1. <<>> \in Seq(Objects)
    OBVIOUS
  <2> QED BY <2>1 DEF NoRun, Command
<1>5. RunsTyped
  BY <1>4 DEF RunsTyped, DesiredInit, NoRun
<1>6. ClusterMade
  BY DEF ClusterMade, DesiredInit
<1>7. NoApply \in LastApply
  BY <1>1 DEF NoApply, LastApply
<1>8. Numbered
  BY <1>7 DEF Numbered, DesiredInit, NoRun, NoApply
<1>9. \A ns \in Namespaces : ApplyHolds(ns)
  BY DEF ApplyHolds, DesiredInit, NoApply
<1> QED BY <1>3, <1>5, <1>6, <1>8, <1>9 DEF DesiredInv

\* Editing a file changes neither the cluster nor what a running command has compiled.
LEMMA EditKeeps == ASSUME DesiredInv, NEW p \in Projects, edit(p) PROVE DesiredInv'
<1>1. UNCHANGED <<run, kube, last, runs>>
  BY DEF edit
<1>2. FilesTyped'
  <2>1. FilesTyped
    BY DEF DesiredInv
  <2>2. ASSUME NEW name \in Range(Services), NEW v \in ServiceSpecs[name] \cup {Absent},
               files' = [files EXCEPT ![p].services[name] = v]
        PROVE  FilesTyped'
    <3>1. v \in AllSpecs \cup {Absent}
      BY DEF AllSpecs
    <3>2. files[p] \in Files
      BY <2>1 DEF FilesTyped
    <3>3. [files[p] EXCEPT !.services[name] = v] \in Files
      BY <3>1, <3>2 DEF Files
    <3>4. files' = [files EXCEPT ![p] = [files[p] EXCEPT !.services[name] = v]]
      BY <2>1, <2>2 DEF FilesTyped
    <3>5. files' \in [Projects -> Files]
      BY <2>1, <3>3, <3>4 DEF FilesTyped
    <3>6. ASSUME NEW q \in Projects, NEW n \in Range(Services)
          PROVE  files'[q].services[n] = IF q = p /\ n = name THEN v ELSE files[q].services[n]
      BY <2>1, <3>2, <3>4 DEF FilesTyped, Files
    <3> QED BY <2>1, <2>2, <3>5, <3>6 DEF FilesTyped
  <2>3. ASSUME NEW r \in Range(Resources),
               files' = [files EXCEPT ![p].resources = SymDiff(@, {r})]
        PROVE  FilesTyped'
    <3>1. files[p] \in Files
      BY <2>1 DEF FilesTyped
    <3>2. SymDiff(files[p].resources, {r}) \in SUBSET Range(Resources)
      BY <3>1 DEF Files, SymDiff
    <3>3. PICK new : new = SymDiff(files[p].resources, {r})
      OBVIOUS
    <3>4. files' = [files EXCEPT ![p].resources = new]
      BY <2>3, <3>3
    <3>5. files' \in [Projects -> Files]
          /\ \A q \in Projects : files'[q].services = files[q].services
      BY <2>1, <3>1, <3>2, <3>3, <3>4 DEF FilesTyped, Files
    <3> QED BY <2>1, <3>5 DEF FilesTyped
  <2> QED BY <2>2, <2>3 DEF edit
<1>3. RunsTyped' /\ ClusterMade' /\ Numbered'
  BY <1>1 DEF DesiredInv, RunsTyped, ClusterMade, Numbered, InPlace
<1>4. \A ns \in Namespaces : ApplyHolds(ns)'
  BY <1>1 DEF DesiredInv, ApplyHolds, InPlace
<1> QED BY <1>2, <1>3, <1>4 DEF DesiredInv

\* An object belongs to the namespace of a project, and an ingress to one of its services.
LEMMA ObjectFacts ==
  ASSUME NEW x \in Objects
  PROVE  /\ x.id[1] \in Namespaces
         /\ x.id[2] = "Ingress" => \E p \in Projects, name \in Range(Services) : \E service :
                                       x = ingressManifest(p, name, service)
<1>1. PICK p \in Projects, f \in Files :
          x \in Range(compileProject(p, f)) \/ x \in Range(compileProjectProvisioning(p, f))
  BY DEF Objects
<1>2. CASE x \in Range(compileProject(p, f))
  <2>1. CASE Minor(x, p)
    BY <2>1 DEF Minor, Namespaces
  <2>2. CASE ProjectObject(x, p, f)
    <3>1. PICK name : /\ name \in Range(Services)
                      /\ ServiceObject(x, p, name, f.services[name],
                                       injectResourceEnv(f.services[name], f.resources))
      BY <2>2, ListedServicesAre DEF ProjectObject
    <3>2. PICK service, env : service = f.services[name] /\ ServiceObject(x, p, name, service, env)
      BY <3>1
    <3>3. x.id[1] = NamespaceOf(p)
      BY <3>2, ServiceObjectKinds
    <3>4. x.id[2] = "Ingress" => x = ingressManifest(p, name, service)
      BY <3>2, ServiceObjectKinds DEF WorkloadKinds
    <3> QED BY <3>1, <3>3, <3>4 DEF Namespaces
  <2> QED BY <1>2, <2>1, <2>2, ProjectObjects
<1>3. CASE x \in Range(compileProjectProvisioning(p, f))
  <2>1. Provisioned(x, p)
    BY <1>3, ProvisioningObjects
  <2> QED BY <2>1 DEF Provisioned, Namespaces
<1> QED BY <1>1, <1>2, <1>3

\* What the compilers make of a file in use is among the objects.
LEMMA AreObjects ==
  ASSUME NEW p \in Projects, NEW f \in Files
  PROVE  /\ Range(compileProject(p, f)) \subseteq Objects
         /\ Range(compileProjectProvisioning(p, f)) \subseteq Objects
<1> DEFINE X(q, g) == Range(compileProject(q, g)) \cup Range(compileProjectProvisioning(q, g))
<1>1. Objects = UNION {X(q, g) : q \in Projects, g \in Files}
  BY DEF Objects
<1> HIDE DEF X
<1>2. X(p, f) \subseteq Objects
  BY <1>1
<1> QED BY <1>2 DEF X

\* Starting a command gives it a new number and leaves the others alone.
LEMMA CommandStarted ==
  ASSUME DesiredInv, NEW o \in Operators, NEW ns \in Namespaces, NEW todo \in Seq(Objects),
         \A x \in Range(todo) : x.id[1] = ns, Start(o, ns, todo)
  PROVE  /\ RunsTyped' /\ ClusterMade' /\ FilesTyped'
         /\ UNCHANGED kube
         /\ run[o].pc = "idle" /\ runs' = runs + 1
         /\ \A q \in Operators \ {o} : run'[q] = run[q]
         /\ run'[o] = [pc |-> "kubectl", ns |-> ns, todo |-> todo, errors |-> FALSE,
                       number |-> runs + 1]
         /\ \A q \in Operators : run'[q].pc = "kubectl" => run'[q].number \in 1..runs'
         /\ \A q, u \in Operators : run'[q].pc = "kubectl" /\ run'[u].pc = "kubectl"
                                    /\ run'[q].number = run'[u].number => q = u
<1>1. PICK new : new = [pc |-> "kubectl", ns |-> ns, todo |-> todo,
                        errors |-> FALSE, number |-> runs + 1]
  OBVIOUS
<1>2. RunsTyped /\ Numbered /\ ClusterMade /\ FilesTyped
  BY DEF DesiredInv
<1>3. /\ run[o].pc = "idle" /\ runs' = runs + 1 /\ run' = [run EXCEPT ![o] = new]
      /\ UNCHANGED <<files, kube>>
  BY <1>1 DEF Start
<1>4. runs \in Nat /\ runs' \in Nat /\ run \in [Operators -> Command]
  BY <1>2, <1>3 DEF RunsTyped
<1>5. new \in Command
  BY <1>1, <1>4 DEF Command
<1>6. run' \in [Operators -> Command] /\ run'[o] = new
      /\ \A q \in Operators \ {o} : run'[q] = run[q]
  BY <1>3, <1>4, <1>5
<1>7. /\ new.pc = "kubectl" /\ new.ns = ns /\ new.todo = todo /\ new.number = runs + 1
  BY <1>1
<1>8. RunsTyped'
  <2>1. ASSUME NEW q \in Operators
        PROVE  /\ run'[q].pc = "idle" => run'[q] = NoRun
               /\ run'[q].pc = "kubectl" => /\ run'[q].ns \in Namespaces
                                            /\ \A x \in Range(run'[q].todo) : x.id[1] = run'[q].ns
    <3>1. CASE q = o
      BY <1>6, <1>7, <3>1
    <3>2. CASE q # o
      BY <1>2, <1>6, <3>2 DEF RunsTyped
    <3> QED BY <3>1, <3>2
  <2> QED BY <1>4, <1>6, <2>1 DEF RunsTyped
<1>9. \A q \in Operators : run[q].pc = "kubectl" => run[q].number \in 1..runs
  BY <1>2 DEF Numbered
<1>10. \A q \in Operators : run'[q].pc = "kubectl" => run'[q].number \in 1..runs'
  BY <1>3, <1>4, <1>6, <1>7, <1>9
<1>11. \A q, u \in Operators : run'[q].pc = "kubectl" /\ run'[u].pc = "kubectl"
                              /\ run'[q].number = run'[u].number => q = u
  BY <1>2, <1>4, <1>6, <1>7, <1>9 DEF Numbered
<1>12. ClusterMade' /\ FilesTyped'
  BY <1>2, <1>3 DEF ClusterMade, FilesTyped, InPlace
<1> QED BY <1>1, <1>3, <1>6, <1>8, <1>10, <1>11, <1>12

\* Provisioning may run next to a k8s-apply: its objects harm none of the needed ones.
LEMMA ProvisionKeeps ==
  ASSUME DesiredInv, NEW o \in Operators, NEW p \in Projects, provisionProjectResources(o, p)
  PROVE  DesiredInv'
<1>1. PICK todo : todo = compileProjectProvisioning(p, files[p])
  OBVIOUS
<1>2. PICK ns \in Namespaces : ns = NamespaceOf(p)
  BY DEF Namespaces
<1>3. files[p] \in Files
  BY DEF DesiredInv, FilesTyped
<1>4. IsSequence(todo) /\ \A x \in Range(todo) : Provisioned(x, p)
  BY <1>1, ProvisioningObjects
<1>5. Range(todo) \subseteq Objects
  BY <1>1, <1>3, AreObjects
<1>6. todo \in Seq(Objects) /\ \A x \in Range(todo) : x.id[1] = ns
  BY <1>2, <1>4, <1>5, SequenceOver DEF Provisioned
<1>7. Start(o, ns, todo) /\ UNCHANGED last
  BY <1>1, <1>2 DEF provisionProjectResources
<1>8. /\ RunsTyped' /\ ClusterMade' /\ FilesTyped'
      /\ UNCHANGED kube
      /\ run[o].pc = "idle" /\ runs' = runs + 1
      /\ \A q \in Operators \ {o} : run'[q] = run[q]
      /\ run'[o] = [pc |-> "kubectl", ns |-> ns, todo |-> todo, errors |-> FALSE,
                    number |-> runs + 1]
      /\ \A q \in Operators : run'[q].pc = "kubectl" => run'[q].number \in 1..runs'
      /\ \A q, u \in Operators : run'[q].pc = "kubectl" /\ run'[u].pc = "kubectl"
                                 /\ run'[q].number = run'[u].number => q = u
  BY <1>6, <1>7, CommandStarted
<1>9. Numbered /\ runs \in Nat
  BY DEF DesiredInv, RunsTyped
<1>10. /\ run'[o].pc = "kubectl" /\ run'[o].ns = ns /\ run'[o].todo = todo
       /\ run'[o].number = runs + 1
  BY <1>8
<1>11. \A n \in Namespaces : last[n].number \in 0..runs /\ last[n].number # runs + 1
  BY <1>9 DEF Numbered
<1>12. Numbered'
  <2>1. \A n \in Namespaces : last'[n].number \in 0..runs'
    BY <1>7, <1>8, <1>9, <1>11
  <2>2. ASSUME NEW q \in Operators, NEW n \in Namespaces, run'[q].pc = "kubectl",
               run'[q].number = last'[n].number
        PROVE  run'[q].ns = n /\ last'[n].answer = "running"
    <3>1. q # o
      BY <1>7, <1>10, <1>11, <2>2
    <3> QED BY <1>7, <1>8, <1>9, <2>2, <3>1 DEF Numbered
  <2> QED BY <1>7, <1>8, <1>9, <2>1, <2>2 DEF Numbered
<1>13. ASSUME NEW n \in Namespaces PROVE ApplyHolds(n)'
  <2>1. ApplyHolds(n)
    BY DEF DesiredInv
  <2> SUFFICES ASSUME last[n].answer \in {"running", "applied"}, ~last[n].disturbed
               PROVE  ApplyHolds(n)'
    BY <1>7 DEF ApplyHolds
  <2>2. ASSUME NEW q \in Operators, run'[q].pc = "kubectl", run'[q].ns = n,
               NEW x \in Range(run'[q].todo)
        PROVE  IF run'[q].number = last[n].number
                 THEN x \in WantedObjects(last[n])
                 ELSE \E u : Provisioned(x, u)
    <3>1. CASE q = o
      BY <1>4, <1>10, <1>11, <2>2, <3>1
    <3>2. CASE q # o
      BY <1>8, <2>1, <2>2, <3>2 DEF ApplyHolds
    <3> QED BY <3>1, <3>2
  <2>3. ASSUME NEW x \in WantedObjects(last[n]), Needed(x), ~InPlace(x)
        PROVE  \E q \in Operators : /\ run'[q].pc = "kubectl" /\ run'[q].number = last[n].number
                                    /\ run'[q].errors \/ x \in Range(run'[q].todo)
    <3>1. PICK q \in Operators : /\ run[q].pc = "kubectl" /\ run[q].number = last[n].number
                                 /\ run[q].errors \/ x \in Range(run[q].todo)
      BY <2>1, <2>3 DEF ApplyHolds
    <3>2. q # o
      BY <1>8, <3>1
    <3> QED BY <1>8, <3>1, <3>2
  <2>4. last' = last /\ kube' = kube
    BY <1>7, <1>8
  <2>5. last[n].project \in Projects /\ NamespaceOf(last[n].project) = n
    BY <2>1 DEF ApplyHolds
  <2> QED BY <2>2, <2>3, <2>4, <2>5 DEF ApplyHolds, InPlace
<1> QED BY <1>8, <1>12, <1>13 DEF DesiredInv

\* A new k8s-apply has its objects in its list; if another command runs in the namespace
\* it is disturbed, and nothing is promised.
LEMMA ApplyKeeps ==
  ASSUME DesiredInv, NEW o \in Operators, NEW p \in Projects, applyProject(o, p)
  PROVE  DesiredInv'
<1>1. PICK todo : todo = compileProject(p, files[p])
  OBVIOUS
<1>2. PICK ns \in Namespaces : ns = NamespaceOf(p)
  BY DEF Namespaces
<1>3. files[p] \in Files
  BY DEF DesiredInv, FilesTyped
<1>4. IsSequence(todo) /\ \A x \in Range(todo) : x.id[1] = ns
  <2>1. ASSUME NEW x \in Range(todo) PROVE x.id[1] = ns
    <3>1. CASE Minor(x, p)
      BY <1>2, <3>1 DEF Minor
    <3>2. CASE ProjectObject(x, p, files[p])
      <4>1. PICK name, service, env : ServiceObject(x, p, name, service, env)
        BY <3>2 DEF ProjectObject
      <4> QED BY <1>2, <4>1, ServiceObjectKinds
    <3> QED BY <1>1, <3>1, <3>2, ProjectObjects
  <2> QED BY <1>1, <2>1, ProjectObjects
<1>5. Range(todo) \subseteq Objects
  BY <1>1, <1>3, AreObjects
<1>6. todo \in Seq(Objects)
  BY <1>4, <1>5, SequenceOver
<1>7. PICK l : l = [number |-> runs + 1, project |-> p, file |-> files[p],
                    answer |-> "running", disturbed |-> Busy(ns)]
  OBVIOUS
<1>8. Start(o, ns, todo) /\ last' = [last EXCEPT ![ns] = l]
  BY <1>1, <1>2, <1>7 DEF applyProject
<1>9. /\ RunsTyped' /\ ClusterMade' /\ FilesTyped'
      /\ UNCHANGED kube
      /\ run[o].pc = "idle" /\ runs' = runs + 1
      /\ \A q \in Operators \ {o} : run'[q] = run[q]
      /\ run'[o] = [pc |-> "kubectl", ns |-> ns, todo |-> todo, errors |-> FALSE,
                    number |-> runs + 1]
      /\ \A q \in Operators : run'[q].pc = "kubectl" => run'[q].number \in 1..runs'
      /\ \A q, u \in Operators : run'[q].pc = "kubectl" /\ run'[u].pc = "kubectl"
                                 /\ run'[q].number = run'[u].number => q = u
  BY <1>4, <1>6, <1>8, CommandStarted
<1>10. Numbered /\ runs \in Nat
  BY DEF DesiredInv, RunsTyped
<1>11. /\ run'[o].pc = "kubectl" /\ run'[o].ns = ns /\ run'[o].todo = todo
       /\ run'[o].number = runs + 1
  BY <1>9
<1>12. \A n \in Namespaces : last[n].number \in 0..runs /\ last[n].number # runs + 1
  BY <1>10 DEF Numbered
<1>13. last'[ns] = l /\ \A n \in Namespaces \ {ns} : last'[n] = last[n]
  BY <1>8, <1>10 DEF Numbered
<1>14. l.number = runs + 1 /\ l.project = p /\ l.file = files[p] /\ l.answer = "running"
       /\ l.disturbed = Busy(ns)
  BY <1>7
<1>15. Numbered'
  <2>1. \A n \in Namespaces : last'[n].number \in 0..runs'
    BY <1>9, <1>10, <1>12, <1>13, <1>14
  <2>2. ASSUME NEW q \in Operators, NEW n \in Namespaces, run'[q].pc = "kubectl",
               run'[q].number = last'[n].number
        PROVE  run'[q].ns = n /\ last'[n].answer = "running"
    <3>1. CASE n = ns
      <4>1. q = o
        BY <1>9, <1>11, <1>13, <1>14, <2>2, <3>1
      <4> QED BY <1>11, <1>13, <1>14, <3>1, <4>1
    <3>2. CASE n # ns
      <4>1. q # o
        BY <1>11, <1>12, <1>13, <2>2, <3>2
      <4> QED BY <1>9, <1>10, <1>13, <2>2, <3>2, <4>1 DEF Numbered
    <3> QED BY <3>1, <3>2
  <2>3. l \in LastApply
    <3>1. Busy(ns) \in BOOLEAN
      BY DEF Busy
    <3> QED BY <1>3, <1>7, <1>10, <3>1 DEF LastApply
  <2>4. last' \in [Namespaces -> LastApply]
    BY <1>8, <1>10, <2>3 DEF Numbered
  <2> QED BY <1>9, <2>1, <2>2, <2>4 DEF Numbered
<1>16. ASSUME NEW n \in Namespaces \ {ns} PROVE ApplyHolds(n)'
  <2>1. ApplyHolds(n) /\ last'[n] = last[n]
    BY <1>13 DEF DesiredInv
  <2> SUFFICES ASSUME last[n].answer \in {"running", "applied"}, ~last[n].disturbed
               PROVE  ApplyHolds(n)'
    BY <2>1 DEF ApplyHolds
  <2>2. ASSUME NEW q \in Operators, run'[q].pc = "kubectl", run'[q].ns = n,
               NEW x \in Range(run'[q].todo)
        PROVE  IF run'[q].number = last[n].number
                 THEN x \in WantedObjects(last[n])
                 ELSE \E u : Provisioned(x, u)
    <3>1. q # o
      BY <1>11, <2>2
    <3> QED BY <1>9, <2>1, <2>2, <3>1 DEF ApplyHolds
  <2>3. ASSUME NEW x \in WantedObjects(last[n]), Needed(x), ~InPlace(x)
        PROVE  \E q \in Operators : /\ run'[q].pc = "kubectl" /\ run'[q].number = last[n].number
                                    /\ run'[q].errors \/ x \in Range(run'[q].todo)
    <3>1. PICK q \in Operators : /\ run[q].pc = "kubectl" /\ run[q].number = last[n].number
                                 /\ run[q].errors \/ x \in Range(run[q].todo)
      BY <2>1, <2>3 DEF ApplyHolds
    <3>2. q # o
      BY <1>9, <3>1
    <3> QED BY <1>9, <3>1, <3>2
  <2>4. kube' = kube
    BY <1>9
  <2>5. last[n].project \in Projects /\ NamespaceOf(last[n].project) = n
    BY <2>1 DEF ApplyHolds
  <2> QED BY <2>1, <2>2, <2>3, <2>4, <2>5 DEF ApplyHolds, InPlace
<1>17. ApplyHolds(ns)'
  <2> SUFFICES ASSUME ~Busy(ns) PROVE ApplyHolds(ns)'
    BY <1>13, <1>14 DEF ApplyHolds
  <2>1. WantedObjects(last'[ns]) = Range(todo)
    BY <1>1, <1>13, <1>14 DEF WantedObjects
  <2>2. ASSUME NEW q \in Operators, run'[q].pc = "kubectl", run'[q].ns = ns PROVE q = o
    BY <1>9, <2>2 DEF Busy
  <2> QED BY <1>2, <1>11, <1>13, <1>14, <2>1, <2>2 DEF ApplyHolds
<1> QED BY <1>9, <1>15, <1>16, <1>17 DEF DesiredInv

\* A list that is not empty has its head and the elements of its tail.
LEMMA HeadAndTail ==
  ASSUME NEW S, NEW s \in Seq(S), s # <<>>
  PROVE  /\ Head(s) \in S /\ Tail(s) \in Seq(S)
         /\ \A x : x \in Range(s) <=> x = Head(s) \/ x \in Range(Tail(s))
<1>1. PICK n \in Nat : n = Len(s) /\ n # 0 /\ DOMAIN s = 1..n /\ s \in [1..n -> S]
  <2>1. Len(s) \in Nat /\ Len(s) # 0 /\ DOMAIN s = 1..Len(s) /\ s \in [1..Len(s) -> S]
    OBVIOUS
  <2> QED BY <2>1
<1>2. PICK t : t = Tail(s)
  OBVIOUS
<1>3. Head(s) = s[1] /\ s[1] \in S /\ t \in Seq(S) /\ Len(t) = n - 1
  BY <1>1, <1>2
<1>4. DOMAIN t = 1..(n - 1)
  BY <1>3
<1>5. \A i \in 1..(n - 1) : t[i] = s[i + 1]
  BY <1>1, <1>2
<1>6. ASSUME NEW x \in Range(s) PROVE x = Head(s) \/ x \in Range(t)
  <2>1. PICK i \in 1..n : x = s[i]
    BY <1>1, <1>6 DEF Range
  <2>2. CASE i = 1
    BY <1>3, <2>1, <2>2
  <2>3. CASE i # 1
    <3>1. PICK j \in 1..(n - 1) : j + 1 = i
      <4>1. i - 1 \in 1..(n - 1) /\ i - 1 + 1 = i
        BY <1>1, <2>3
      <4> QED BY <4>1
    <3>2. t[j] = s[i]
      BY <1>5, <3>1
    <3> QED BY <1>4, <2>1, <3>2 DEF Range
  <2> QED BY <2>2, <2>3
<1>7. Head(s) \in Range(s)
  <2>1. 1 \in DOMAIN s
    BY <1>1
  <2> QED BY <1>3, <2>1 DEF Range
<1>8. ASSUME NEW x \in Range(t) PROVE x \in Range(s)
  <2>1. PICK j \in 1..(n - 1) : x = t[j]
    BY <1>4, <1>8 DEF Range
  <2>2. PICK i \in 1..n : i = j + 1
    BY <1>1
  <2>3. x = s[i]
    BY <1>5, <2>1, <2>2
  <2> QED BY <1>1, <2>3 DEF Range
<1> QED BY <1>2, <1>3, <1>6, <1>7, <1>8

\* A command that is through with one object has the others before it.
LEMMA CommandMovesOn ==
  ASSUME DesiredInv, NEW o \in Operators, NEW e \in BOOLEAN,
         run[o].pc = "kubectl", run[o].todo # <<>>,
         run' = [run EXCEPT ![o].todo = Tail(@), ![o].errors = e],
         UNCHANGED <<last, runs>>
  PROVE  /\ RunsTyped' /\ Numbered'
         /\ \A q \in Operators \ {o} : run'[q] = run[q]
         /\ run'[o].pc = "kubectl" /\ run'[o].ns = run[o].ns /\ run'[o].number = run[o].number
         /\ run'[o].errors = e /\ run'[o].todo = Tail(run[o].todo)
         /\ run[o].ns \in Namespaces
         /\ Head(run[o].todo) \in Objects /\ Head(run[o].todo).id[1] = run[o].ns
         /\ \A x : x \in Range(run[o].todo) <=>
                       x = Head(run[o].todo) \/ x \in Range(Tail(run[o].todo))
<1>1. RunsTyped /\ Numbered
  BY DEF DesiredInv
<1>2. run \in [Operators -> Command] /\ run[o] \in Command /\ run[o].ns \in Namespaces
  BY <1>1 DEF RunsTyped
<1>3. PICK s, r : s = run[o].todo /\ r = Tail(s)
  OBVIOUS
<1>4. s \in Seq(Objects) /\ s # <<>>
  BY <1>2, <1>3 DEF Command
<1>5. /\ Head(s) \in Objects /\ r \in Seq(Objects)
      /\ \A x : x \in Range(s) <=> x = Head(s) \/ x \in Range(r)
  BY <1>3, <1>4, HeadAndTail
<1>6. PICK old : old = run[o]
  OBVIOUS
<1>7. PICK new : new = [old EXCEPT !.todo = r, !.errors = e]
  OBVIOUS
<1>8. /\ new \in Command /\ new.pc = "kubectl" /\ new.ns = old.ns /\ new.number = old.number
      /\ new.errors = e /\ new.todo = r
  BY <1>2, <1>5, <1>6, <1>7 DEF Command
<1>9. run' = [run EXCEPT ![o] = new]
  BY <1>2, <1>3, <1>6, <1>7
<1>10. run' \in [Operators -> Command] /\ run'[o] = new
       /\ \A q \in Operators \ {o} : run'[q] = run[q]
  BY <1>2, <1>8, <1>9
<1>11. \A x \in Range(s) : x.id[1] = old.ns
  BY <1>1, <1>3, <1>6 DEF RunsTyped
<1>12. RunsTyped'
  <2>1. ASSUME NEW q \in Operators
        PROVE  /\ run'[q].pc = "idle" => run'[q] = NoRun
               /\ run'[q].pc = "kubectl" => /\ run'[q].ns \in Namespaces
                                            /\ \A x \in Range(run'[q].todo) : x.id[1] = run'[q].ns
    <3>1. CASE q = o
      BY <1>2, <1>5, <1>6, <1>8, <1>10, <1>11, <3>1
    <3>2. CASE q # o
      BY <1>1, <1>10, <3>2 DEF RunsTyped
    <3> QED BY <3>1, <3>2
  <2>2. runs' \in Nat
    BY <1>1 DEF RunsTyped
  <2> QED BY <1>10, <2>1, <2>2 DEF RunsTyped
<1>13. \A q \in Operators : run'[q].pc = run[q].pc /\ run'[q].number = run[q].number
       /\ run'[q].ns = run[q].ns
  BY <1>6, <1>8, <1>10
<1>14. Numbered'
  <2>1. last' = last /\ runs' = runs
    OBVIOUS
  <2>2. last' \in [Namespaces -> LastApply] /\ \A ns \in Namespaces : last'[ns].number \in 0..runs'
    BY <1>1, <2>1 DEF Numbered
  <2>3. \A q \in Operators : run'[q].pc = "kubectl" => run'[q].number \in 1..runs'
    BY <1>1, <1>13, <2>1 DEF Numbered
  <2>4. \A q, u \in Operators : run'[q].pc = "kubectl" /\ run'[u].pc = "kubectl"
                                 /\ run'[q].number = run'[u].number => q = u
    BY <1>1, <1>13 DEF Numbered
  <2>5. ASSUME NEW q \in Operators, NEW ns \in Namespaces,
               run'[q].pc = "kubectl", run'[q].number = last'[ns].number
        PROVE  run'[q].ns = ns /\ last'[ns].answer = "running"
    <3>1. run[q].pc = "kubectl" /\ run[q].number = last[ns].number /\ run'[q].ns = run[q].ns
      BY <1>13, <2>1, <2>5
    <3>2. run[q].ns = ns /\ last[ns].answer = "running"
      BY <1>1, <3>1 DEF Numbered
    <3> QED BY <2>1, <3>1, <3>2
  <2> QED BY <2>2, <2>3, <2>4, <2>5 DEF Numbered
<1> QED BY <1>2, <1>3, <1>5, <1>6, <1>8, <1>10, <1>11, <1>12, <1>14

\* The wanted objects are objects of the compilers.
LEMMA WantedAreObjects ==
  ASSUME DesiredInv, NEW ns \in Namespaces, ApplyHolds(ns),
         last[ns].answer \in {"running", "applied"}, ~last[ns].disturbed,
         NEW x \in WantedObjects(last[ns])
  PROVE  x \in Objects
<1>1. last[ns].project \in Projects /\ last[ns].file \in Files
  BY DEF DesiredInv, ApplyHolds, Numbered, LastApply
<1> QED BY <1>1, AreObjects DEF WantedObjects

\* Applying an object, or failing to, keeps the invariant: the cluster then has the object
\* or the command has an error, and objects in place are overwritten by themselves only.
LEMMA ApplyObjectKeeps ==
  ASSUME DesiredInv, NEW o \in Operators, applyObject(o)
  PROVE  DesiredInv'
<1>1. PICK x : x = Head(run[o].todo)
  OBVIOUS
<1>2. /\ run[o].pc = "kubectl" /\ run[o].todo # <<>>
      /\ UNCHANGED <<files, last, edits, runs>>
  BY DEF applyObject
<1>3. PICK e \in BOOLEAN :
         /\ run' = [run EXCEPT ![o].todo = Tail(@), ![o].errors = e]
         /\ run[o].errors => e
         /\ \/ e /\ kube' = kube
            \/ kube' = [id \in DOMAIN kube \cup {x.id} |->
                               IF id = x.id THEN x.body ELSE kube[id]]
  <2>1. run \in [Operators -> Command] /\ run[o] \in Command
    BY DEF DesiredInv, RunsTyped
  <2>2. run[o].errors \in BOOLEAN
    BY <2>1 DEF Command
  <2>3. CASE run' = [run EXCEPT ![o].todo = Tail(@)]
    <3>1. [run[o] EXCEPT !.todo = Tail(run[o].todo)]
             = [run[o] EXCEPT !.todo = Tail(run[o].todo), !.errors = run[o].errors]
      BY <2>1 DEF Command
    <3>2. run' = [run EXCEPT ![o].todo = Tail(@), ![o].errors = run[o].errors]
      BY <2>1, <2>3, <3>1
    <3>3. (run' = [run EXCEPT ![o].todo = Tail(@), ![o].errors = TRUE])
          \/ kube' = [id \in DOMAIN kube \cup {x.id} |->
                               IF id = x.id THEN x.body ELSE kube[id]]
      BY <1>1 DEF applyObject
    <3> QED BY <2>2, <3>2, <3>3, <1>1 DEF applyObject
  <2>4. CASE run' = [run EXCEPT ![o].todo = Tail(@), ![o].errors = TRUE] /\ kube' = kube
    BY <2>4
  <2> QED BY <1>1, <2>3, <2>4 DEF applyObject
<1>4. UNCHANGED <<last, runs>>
  BY <1>2
<1>5. /\ RunsTyped' /\ Numbered'
      /\ \A q \in Operators \ {o} : run'[q] = run[q]
      /\ run'[o].pc = "kubectl" /\ run'[o].ns = run[o].ns /\ run'[o].number = run[o].number
      /\ run'[o].errors = e /\ run'[o].todo = Tail(run[o].todo)
      /\ run[o].ns \in Namespaces
      /\ x \in Objects /\ x.id[1] = run[o].ns
      /\ \A y : y \in Range(run[o].todo) <=> y = x \/ y \in Range(run'[o].todo)
  <2> HIDE DEF DesiredInv, RunsTyped, Numbered
  <2> QED BY <1>1, <1>2, <1>3, <1>4, CommandMovesOn
<1>6. FilesTyped'
  BY <1>2 DEF DesiredInv, FilesTyped
<1>7. \A y \in Objects : InPlace(y) /\ y.id # x.id => InPlace(y)'
  BY <1>3 DEF InPlace
<1>8. ~e => InPlace(x)'
  BY <1>3 DEF InPlace
<1>9. ClusterMade'
  <2>1. CASE kube' = kube
    BY <2>1 DEF DesiredInv, ClusterMade, InPlace
  <2>2. CASE kube' = [id \in DOMAIN kube \cup {x.id} |->
                               IF id = x.id THEN x.body ELSE kube[id]]
    <3>1. ASSUME NEW id \in DOMAIN kube' PROVE \E y \in Objects : y.id = id /\ InPlace(y)'
      <4>1. CASE id = x.id
        BY <1>5, <2>2, <4>1 DEF InPlace
      <4>2. CASE id # x.id
        <5>1. PICK y \in Objects : y.id = id /\ InPlace(y)
          BY <2>2, <3>1, <4>2 DEF DesiredInv, ClusterMade
        <5> QED BY <1>7, <4>2, <5>1
      <4> QED BY <4>1, <4>2
    <3> QED BY <3>1 DEF ClusterMade
  <2> QED BY <1>3, <2>1, <2>2
<1>10. ASSUME NEW n \in Namespaces PROVE ApplyHolds(n)'
  <2>1. ApplyHolds(n) /\ last'[n] = last[n]
    BY <1>2 DEF DesiredInv
  <2> SUFFICES ASSUME last[n].answer \in {"running", "applied"}, ~last[n].disturbed
               PROVE  ApplyHolds(n)'
    BY <2>1 DEF ApplyHolds
  <2>2. ASSUME NEW q \in Operators, run[q].pc = "kubectl", run[q].ns = n,
               NEW y \in Range(run[q].todo)
        PROVE  IF run[q].number = last[n].number
                 THEN y \in WantedObjects(last[n])
                 ELSE \E u : Provisioned(y, u)
    BY <2>1, <2>2 DEF ApplyHolds
  <2>3. ASSUME NEW q \in Operators, run'[q].pc = "kubectl", run'[q].ns = n,
               NEW y \in Range(run'[q].todo)
        PROVE  IF run'[q].number = last[n].number
                 THEN y \in WantedObjects(last[n])
                 ELSE \E u : Provisioned(y, u)
    <3>1. CASE q = o
      BY <1>2, <1>5, <2>2, <2>3, <3>1
    <3>2. CASE q # o
      BY <1>5, <2>2, <2>3, <3>2
    <3> QED BY <3>1, <3>2
  <2>4. PICK p, f : p = last[n].project /\ f = last[n].file
    OBVIOUS
  <2>5. WantedObjects(last[n]) = Range(compileProject(p, f))
    BY <2>4 DEF WantedObjects
  <2>6. ASSUME NEW y \in WantedObjects(last[n]), Needed(y), InPlace(y)
        PROVE  InPlace(y)' \/ (run'[o].number = last[n].number /\ run'[o].errors)
    <3>1. y \in Objects
      BY <2>1, <2>6, WantedAreObjects
    <3>2. CASE y.id # x.id
      BY <1>7, <2>6, <3>1, <3>2
    <3>3. CASE y.id = x.id
      <4>1. y.id[1] = n
        <5>1. CASE Minor(y, p)
          BY <2>6, <5>1 DEF Minor, Needed, WorkloadKinds
        <5>2. CASE ProjectObject(y, p, f)
          <6>1. PICK name, service, env : ServiceObject(y, p, name, service, env)
            BY <5>2 DEF ProjectObject
          <6>2. NamespaceOf(p) = n
            BY <2>1, <2>4 DEF ApplyHolds
          <6> QED BY <6>1, <6>2, ServiceObjectKinds
        <5> QED BY <2>5, <2>6, <5>1, <5>2, ProjectObjects
      <4>2. run[o].ns = n
        BY <1>5, <3>3, <4>1
      <4>3. x \in Range(run[o].todo)
        BY <1>5
      <4>4. CASE run[o].number = last[n].number
        <5>1. x \in WantedObjects(last[n])
          BY <1>2, <2>2, <4>2, <4>3, <4>4
        <5>2. x = y
          BY <2>5, <2>6, <3>3, <5>1, SameObject
        <5> QED BY <1>5, <1>8, <4>4, <5>2
      <4>5. CASE run[o].number # last[n].number
        <5>1. PICK u : Provisioned(x, u)
          BY <1>2, <2>2, <4>2, <4>3, <4>5
        <5> QED BY <2>5, <2>6, <3>3, <5>1, Unharmed
      <4> QED BY <4>4, <4>5
    <3> QED BY <3>2, <3>3
  <2>7. ASSUME NEW y \in WantedObjects(last[n]), Needed(y), ~InPlace(y)'
        PROVE  \E q \in Operators : /\ run'[q].pc = "kubectl" /\ run'[q].number = last[n].number
                                    /\ run'[q].errors \/ y \in Range(run'[q].todo)
    <3>1. CASE InPlace(y)
      BY <1>5, <2>6, <2>7, <3>1
    <3>2. CASE ~InPlace(y)
      <4>1. PICK q \in Operators : /\ run[q].pc = "kubectl" /\ run[q].number = last[n].number
                                   /\ run[q].errors \/ y \in Range(run[q].todo)
        BY <2>1, <2>7, <3>2 DEF ApplyHolds
      <4>2. CASE q # o
        BY <1>5, <4>1, <4>2
      <4>3. CASE q = o
        <5>1. e \/ y \in Range(run'[o].todo)
          BY <1>3, <1>5, <1>8, <2>7, <4>1, <4>3
        <5> QED BY <1>5, <4>1, <4>3, <5>1
      <4> QED BY <4>2, <4>3
    <3> QED BY <3>1, <3>2
  <2>8. last[n].project \in Projects /\ NamespaceOf(last[n].project) = n
    BY <2>1 DEF ApplyHolds
  <2> QED BY <2>1, <2>3, <2>7, <2>8 DEF ApplyHolds
<1> QED BY <1>5, <1>6, <1>9, <1>10 DEF DesiredInv

\* The end of a command keeps the invariant: it says "applied" only with an empty list and
\* no error, and then all needed objects are in place, as only it has its number.
LEMMA AnswerKeeps ==
  ASSUME DesiredInv, NEW o \in Operators, NEW a \in {"applied", "failed", "killed"},
         run[o].pc = "kubectl", a = "applied" => run[o].todo = <<>> /\ ~run[o].errors,
         Answer(o, a)
  PROVE  DesiredInv'
<1>1. FilesTyped /\ RunsTyped /\ ClusterMade /\ Numbered
  BY DEF DesiredInv
<1>2. /\ run' = [run EXCEPT ![o] = NoRun] /\ kube' = kube /\ files' = files /\ runs' = runs
      /\ last' = [last EXCEPT ![run[o].ns] =
                   IF @.number = run[o].number THEN [@ EXCEPT !.answer = a] ELSE @]
  BY DEF Answer
<1>3. run \in [Operators -> Command] /\ run[o].ns \in Namespaces
      /\ last \in [Namespaces -> LastApply]
  BY <1>1 DEF RunsTyped, Numbered
<1>4. NoRun \in Command /\ NoRun.pc = "idle"
  <2>1. <<>> \in Seq(Objects)
    OBVIOUS
  <2> QED BY <2>1 DEF NoRun, Command
<1>5. run' \in [Operators -> Command] /\ run'[o] = NoRun
      /\ \A q \in Operators \ {o} : run'[q] = run[q]
  BY <1>2, <1>3, <1>4
<1>6. \A q \in Operators : run'[q].pc = "kubectl" => q # o /\ run'[q] = run[q]
  BY <1>4, <1>5
<1>7. RunsTyped'
  <2>1. ASSUME NEW q \in Operators
        PROVE  /\ run'[q].pc = "idle" => run'[q] = NoRun
               /\ run'[q].pc = "kubectl" => /\ run'[q].ns \in Namespaces
                                            /\ \A x \in Range(run'[q].todo) : x.id[1] = run'[q].ns
    BY <1>1, <1>4, <1>5 DEF RunsTyped
  <2>2. runs' \in Nat
    BY <1>1, <1>2 DEF RunsTyped
  <2> QED BY <1>5, <2>1, <2>2 DEF RunsTyped
<1>8. ClusterMade' /\ FilesTyped'
  BY <1>1, <1>2 DEF ClusterMade, FilesTyped, InPlace
<1>9. ASSUME NEW n \in Namespaces
      PROVE  /\ last'[n] \in LastApply
             /\ last'[n] = IF run[o].number = last[n].number
                              THEN [last[n] EXCEPT !.answer = a] ELSE last[n]
  <2>1. run[o].number = last[n].number => run[o].ns = n
    BY <1>1 DEF Numbered
  <2>2. last'[n] = IF run[o].number = last[n].number THEN [last[n] EXCEPT !.answer = a] ELSE last[n]
    <3>1. CASE n = run[o].ns
      BY <1>2, <1>3, <3>1
    <3>2. CASE n # run[o].ns
      BY <1>2, <1>3, <2>1, <3>2
    <3> QED BY <3>1, <3>2
  <2>3. last[n] \in LastApply
    BY <1>3
  <2>4. [last[n] EXCEPT !.answer = a] \in LastApply
    BY <2>3 DEF LastApply
  <2> QED BY <2>2, <2>3, <2>4
<1>10. ASSUME NEW n \in Namespaces
       PROVE  /\ last'[n].number = last[n].number /\ last'[n].project = last[n].project
              /\ last'[n].file = last[n].file /\ last'[n].disturbed = last[n].disturbed
              /\ run[o].number # last[n].number => last'[n].answer = last[n].answer
              /\ run[o].number = last[n].number => last'[n].answer = a
  <2>1. last[n] \in LastApply
    BY <1>3
  <2> QED BY <1>9, <2>1 DEF LastApply
<1>11. Numbered'
  <2>1. last' \in [Namespaces -> LastApply]
    <3>1. DOMAIN last' = Namespaces /\ last' = [n \in Namespaces |-> last'[n]]
      BY <1>2, <1>3
    <3> QED BY <1>9, <3>1
  <2>2. \A n \in Namespaces : last'[n].number \in 0..runs'
    BY <1>1, <1>2, <1>10 DEF Numbered
  <2>3. \A q \in Operators : run'[q].pc = "kubectl" => run'[q].number \in 1..runs'
    BY <1>1, <1>2, <1>6 DEF Numbered
  <2>4. \A q, u \in Operators : run'[q].pc = "kubectl" /\ run'[u].pc = "kubectl"
                                 /\ run'[q].number = run'[u].number => q = u
    BY <1>1, <1>6 DEF Numbered
  <2>5. ASSUME NEW q \in Operators, NEW n \in Namespaces,
               run'[q].pc = "kubectl", run'[q].number = last'[n].number
        PROVE  run'[q].ns = n /\ last'[n].answer = "running"
    <3>1. q # o /\ run[q].pc = "kubectl" /\ run[q].number = last[n].number /\ run'[q].ns = run[q].ns
      BY <1>6, <1>10, <2>5
    <3>2. run[q].ns = n /\ last[n].answer = "running"
      BY <1>1, <3>1 DEF Numbered
    <3>3. run[o].number # last[n].number
      BY <1>1, <3>1 DEF Numbered
    <3> QED BY <1>10, <3>1, <3>2, <3>3
  <2> QED BY <2>1, <2>2, <2>3, <2>4, <2>5 DEF Numbered
<1>12. ASSUME NEW n \in Namespaces PROVE ApplyHolds(n)'
  <2> SUFFICES ASSUME last'[n].answer \in {"running", "applied"}, ~last'[n].disturbed
               PROVE  ApplyHolds(n)'
    BY DEF ApplyHolds
  <2>1. last[n].answer \in {"running", "applied"} /\ ~last[n].disturbed
    <3>1. run[o].number = last[n].number => last[n].answer = "running"
      BY <1>1 DEF Numbered
    <3> QED BY <1>10, <3>1
  <2>2. ApplyHolds(n)
    BY DEF DesiredInv
  <2>3. WantedObjects(last'[n]) = WantedObjects(last[n])
    BY <1>10 DEF WantedObjects
  <2>4. ASSUME NEW q \in Operators, run'[q].pc = "kubectl", run'[q].ns = n,
               NEW y \in Range(run'[q].todo)
        PROVE  IF run'[q].number = last[n].number
                 THEN y \in WantedObjects(last[n])
                 ELSE \E u : Provisioned(y, u)
    BY <1>6, <2>1, <2>2, <2>4 DEF ApplyHolds
  <2>5. ASSUME NEW y \in WantedObjects(last[n]), Needed(y), ~InPlace(y)
        PROVE  \E q \in Operators : /\ run'[q].pc = "kubectl" /\ run'[q].number = last[n].number
                                    /\ run'[q].errors \/ y \in Range(run'[q].todo)
    <3>1. PICK q \in Operators : /\ run[q].pc = "kubectl" /\ run[q].number = last[n].number
                                 /\ run[q].errors \/ y \in Range(run[q].todo)
      BY <2>1, <2>2, <2>5 DEF ApplyHolds
    <3>2. CASE q # o
      BY <1>5, <3>1, <3>2
    <3>3. CASE q = o
      <4>1. a = "applied"
        BY <1>10, <3>1, <3>3
      <4>2. run[o].todo = <<>> /\ ~run[o].errors
        BY <4>1
      <4>3. Range(run[o].todo) = {}
        BY <4>2, EmptyRange
      <4> QED BY <3>1, <3>3, <4>2, <4>3
    <3> QED BY <3>2, <3>3
  <2>6. last[n].project \in Projects /\ NamespaceOf(last[n].project) = n
    BY <2>1, <2>2 DEF ApplyHolds
  <2>7. \A y : InPlace(y)' <=> InPlace(y)
    BY <1>2 DEF InPlace
  <2> QED BY <1>10, <2>3, <2>4, <2>5, <2>6, <2>7 DEF ApplyHolds
<1> QED BY <1>7, <1>8, <1>11, <1>12 DEF DesiredInv

\* Every step keeps the inductive invariant.
LEMMA DesiredStepInv == DesiredInv /\ [DesiredNext]_desiredVars => DesiredInv'
<1> SUFFICES ASSUME DesiredInv, [DesiredNext]_desiredVars PROVE DesiredInv'
  OBVIOUS
<1>1. ASSUME NEW p \in Projects, edit(p) PROVE DesiredInv'
  BY <1>1, EditKeeps
<1>2. ASSUME NEW o \in Operators, NEW p \in Projects, applyProject(o, p) PROVE DesiredInv'
  BY <1>2, ApplyKeeps
<1>3. ASSUME NEW o \in Operators, NEW p \in Projects, provisionProjectResources(o, p)
      PROVE  DesiredInv'
  BY <1>3, ProvisionKeeps
<1>4. ASSUME NEW o \in Operators, applyObject(o) PROVE DesiredInv'
  BY <1>4, ApplyObjectKeeps
<1>5. ASSUME NEW o \in Operators, kubectlExits(o) PROVE DesiredInv'
  <2>1. PICK a \in {"applied", "failed", "killed"} :
               a = IF run[o].errors THEN "failed" ELSE "applied"
    OBVIOUS
  <2>2. /\ Answer(o, a) /\ run[o].pc = "kubectl"
        /\ a = "applied" => run[o].todo = <<>> /\ ~run[o].errors
    BY <1>5, <2>1 DEF kubectlExits
  <2> QED BY <2>2, AnswerKeeps
<1>6. ASSUME NEW o \in Operators, kubectlKilled(o) PROVE DesiredInv'
  <2>1. PICK a \in {"applied", "failed", "killed"} : a = "killed"
    OBVIOUS
  <2>2. Answer(o, a) /\ run[o].pc = "kubectl" /\ a # "applied"
    BY <1>6, <2>1 DEF kubectlKilled
  <2> QED BY <2>2, AnswerKeeps
<1>7. CASE UNCHANGED desiredVars
  <2>1. /\ files' = files /\ run' = run /\ kube' = kube
        /\ last' = last /\ runs' = runs
    BY <1>7 DEF desiredVars
  <2>2. FilesTyped' /\ RunsTyped' /\ ClusterMade' /\ Numbered'
    BY <2>1 DEF DesiredInv, FilesTyped, RunsTyped, ClusterMade, Numbered, InPlace
  <2>3. \A n \in Namespaces : ApplyHolds(n)'
    BY <2>1 DEF DesiredInv, ApplyHolds, InPlace
  <2> QED BY <2>2, <2>3 DEF DesiredInv
<1> QED BY <1>1, <1>2, <1>3, <1>4, <1>5, <1>6, <1>7 DEF DesiredNext

\* The inductive invariant holds in every behaviour.
LEMMA DesiredInvariance == DesiredSpec => []DesiredInv
<1>1. DesiredInit => DesiredInv
  BY DesiredInitInv
<1>2. DesiredInv /\ [DesiredNext]_desiredVars => DesiredInv'
  BY DesiredStepInv
<1> QED BY <1>1, <1>2, PTL DEF DesiredSpec

\* The inductive invariant contains the types.
LEMMA DesiredInvTyped == DesiredInv => DesiredTypeOK
<1> SUFFICES ASSUME DesiredInv PROVE DesiredTypeOK
  OBVIOUS
<1>1. FilesTyped /\ RunsTyped /\ ClusterMade /\ Numbered
  BY DEF DesiredInv
<1>2. ASSUME NEW p \in Projects
      PROVE  /\ \A name \in Range(Services) :
                  files[p].services[name] \in ServiceSpecs[name] \cup {Absent}
             /\ files[p].resources \subseteq Range(Resources)
  BY <1>1 DEF FilesTyped, Files
<1>3. ASSUME NEW o \in Operators
      PROVE  /\ run[o].pc \in {"idle", "kubectl"}
             /\ run[o].pc = "idle" => run[o] = NoRun
             /\ run[o].pc = "kubectl" => run[o].ns \in Namespaces
  <2>1. run[o] \in Command
    BY <1>1 DEF RunsTyped
  <2> QED BY <1>1, <2>1 DEF RunsTyped, Command
<1>4. ASSUME NEW id \in DOMAIN kube PROVE id[1] \in Namespaces
  <2>1. PICK x \in Objects : x.id = id
    BY <1>1 DEF ClusterMade
  <2> QED BY <2>1, ObjectFacts
<1>5. ASSUME NEW ns \in Namespaces
      PROVE  last[ns].answer \in {"none", "running", "applied", "failed", "killed"}
  BY <1>1 DEF Numbered, LastApply
<1> QED BY <1>2, <1>3, <1>4, <1>5 DEF DesiredTypeOK

\* Files, commands, the cluster and the history have the values the code can give them, and
\* every object is in the namespace of a project, which is where kubectl apply puts it.
THEOREM DesiredTypeCorrect == DesiredSpec => []DesiredTypeOK
BY DesiredInvTyped, DesiredInvariance, PTL

\* A generated host name names service, project and organization, so an ingress that did not
\* claim it as a custom domain is theirs.
LEMMA DesiredInvApart == DesiredInv => HostsAreApart
<1> SUFFICES ASSUME DesiredInv, NEW p \in Projects, NEW q \in Projects,
                    NEW m \in Range(Services), NEW n \in Range(Services),
                    NEW host, host = serviceHostname(p, m, Absent),
                    NEW i, i = <<NamespaceOf(q), "Ingress", n>>,
                    i \in DOMAIN kube, kube[i].host = host, ~kube[i].custom
             PROVE  /\ n = m /\ NamespaceOf(q) = NamespaceOf(p)
                    /\ \A o \in Projects \ {p} : serviceHostname(o, n, Absent) # host
  BY DEF HostsAreApart
<1>1. host.label = <<m, p.slug, p.org>>
  BY DEF serviceHostname, joinLabel
<1>2. PICK x \in Objects : x.id = i /\ kube[i] = x.body
  BY DEF DesiredInv, ClusterMade, InPlace
<1>3. x.id[1] = NamespaceOf(q) /\ x.id[2] = "Ingress" /\ x.id[3] = n
  BY <1>2
<1>4. PICK u \in Projects, name \in Range(Services) :
         \E service : x = ingressManifest(u, name, service)
  BY <1>3, ObjectFacts
<1>5. PICK service : x = ingressManifest(u, name, service)
  BY <1>4
<1>6. /\ NamespaceOf(u) = NamespaceOf(q) /\ name = n
      /\ x.body.host = serviceHostname(u, name, service.domain)
      /\ x.body.custom = (service.domain # Absent)
  BY <1>3, <1>5 DEF ingressManifest, Object
<1>7. serviceHostname(u, n, service.domain) = host
  BY <1>2, <1>6
<1>8. service.domain = Absent
  <2>1. ~x.body.custom
    BY <1>2
  <2> QED BY <1>6, <2>1
<1>9. ASSUME NEW o \in Projects, serviceHostname(o, n, Absent) = host
      PROVE  o = p /\ n = m
  <2>1. host.label = <<n, o.slug, o.org>>
    BY <1>9 DEF serviceHostname, joinLabel
  <2>2. n = m /\ o.slug = p.slug /\ o.org = p.org
    BY <1>1, <2>1
  <2>3. o \in [org : Seq(STRING), slug : Seq(STRING)]
        /\ p \in [org : Seq(STRING), slug : Seq(STRING)]
    BY ProjectsAssumption
  <2> QED BY <2>2, <2>3
<1>10. u = p /\ n = m
  BY <1>7, <1>8, <1>9
<1> QED BY <1>6, <1>9, <1>10

\* A generated host name (serviceHostname) is one service's of one project, even where hyphens in
\* the slugs make two projects share a namespace; another ingress has it as a custom domain only.
THEOREM HostsStayApart == DesiredSpec => []HostsAreApart
BY DesiredInvApart, DesiredInvariance, PTL

\* envRefs finds the ConfigMap of a service without "-env" in its name.
LEMMA ConfigName ==
  ASSUME NEW name, IsSequence(name), name # <<>>, ~Misnamed(name)
  PROVE  FirstEnvReplaced(name \o <<"env">>) = name \o <<"config">>
<1>1. PICK S : name \in Seq(S) /\ "env" \in S /\ "config" \in S
  <2>1. name \in Seq(Range(name) \cup {"env", "config"})
    BY SequenceOver
  <2> QED BY <2>1
<1>2. PICK n \in Nat : n = Len(name) /\ DOMAIN name = 1..n /\ n # 0
  BY <1>1
<1>3. PICK s, t : s = name \o <<"env">> /\ t = name \o <<"config">>
  OBVIOUS
<1>4. /\ Len(s) = n + 1 /\ s[n + 1] = "env" /\ \A i \in 1..n : s[i] = name[i]
      /\ Len(t) = n + 1 /\ t[n + 1] = "config" /\ \A i \in 1..n : t[i] = name[i]
      /\ s \in Seq(S) /\ t \in Seq(S)
  BY <1>1, <1>2, <1>3
<1>5. \A i \in 2..n : s[i] \notin DOMAIN Reword
  <2>1. \A i \in 2..n : i \in 1..n
    OBVIOUS
  <2> QED BY <1>2, <1>4, <2>1 DEF Misnamed
<1> DEFINE First(i) == /\ s[i] \in DOMAIN Reword
                       /\ \A j \in 2..(i - 1) : ~(s[j] \in DOMAIN Reword)
<1>6. n + 1 \in 2..(n + 1) /\ First(n + 1)
  <2>1. n + 1 - 1 = n
    BY <1>2
  <2> QED BY <1>2, <1>4, <1>5, <2>1, RewordAssumption
<1>7. ASSUME NEW i \in 2..(n + 1), First(i) PROVE i = n + 1
  <2>1. i # n + 1 => i \in 2..n
    BY <1>2
  <2> QED BY <1>5, <1>7, <2>1
<1> HIDE DEF First
<1>8. (CHOOSE i \in 2..(n + 1) : First(i)) = n + 1
  BY <1>6, <1>7
<1>9. FirstEnvReplaced(s) = [s EXCEPT ![n + 1] = "config"]
  <2>1. Len(s) = n + 1 /\ Reword[s[n + 1]] = "config"
    BY <1>4, RewordAssumption
  <2>2. FirstEnvReplaced(s) = [s EXCEPT ![CHOOSE i \in 2..Len(s) : First(i)] =
                                  Reword[s[CHOOSE i \in 2..Len(s) : First(i)]]]
    BY DEF FirstEnvReplaced, First
  <2> QED BY <1>8, <2>1, <2>2
<1>10. [s EXCEPT ![n + 1] = "config"] = t
  <2>1. DOMAIN s = 1..(n + 1) /\ DOMAIN t = 1..(n + 1)
    BY <1>4
  <2>2. s = [i \in 1..(n + 1) |-> s[i]] /\ t = [i \in 1..(n + 1) |-> t[i]]
    BY <1>4, <2>1
  <2>3. PICK u : u = [s EXCEPT ![n + 1] = "config"]
    OBVIOUS
  <2>4. u = [i \in 1..(n + 1) |-> IF i = n + 1 THEN "config" ELSE s[i]]
    BY <2>2, <2>3
  <2>5. \A i \in 1..(n + 1) : (IF i = n + 1 THEN "config" ELSE s[i]) = t[i]
    <3>1. \A i \in 1..(n + 1) : i # n + 1 => i \in 1..n
      BY <1>2
    <3> QED BY <1>4, <3>1
  <2>6. u = [i \in 1..(n + 1) |-> t[i]]
    BY <2>4, <2>5
  <2> QED BY <2>2, <2>3, <2>6
<1> QED BY <1>3, <1>9, <1>10

\* What AppliedCanStart says of one service.
Startable(ns, name, service, env) ==
    LET w == <<ns, WorkloadKind(service.type), name>>
    IN /\ w \in DOMAIN kube
       /\ {x.key : x \in kube[w].refs} = DOMAIN env
       /\ \A x \in kube[w].refs : (x.kind = "ConfigMap" /\ Misnamed(name)) \/
             /\ Has(ns, x.kind, x.name)
             /\ x.key \in DOMAIN kube[<<ns, x.kind, x.name>>].data
             /\ kube[<<ns, x.kind, x.name>>].data[x.key] = env[x.key]
       /\ service.type = "web" =>
             /\ Has(ns, "Ingress", name) /\ Has(ns, "Service", name)
             /\ kube[<<ns, "Ingress", name>>].backend = name
             /\ kube[<<ns, "Service", name>>].selector = name

\* After an undisturbed success every needed object is in place, and the variables,
\* ConfigMap, Secret, Service and ingress of a service fit its workload.
LEMMA DesiredInvCanStart == DesiredInv => AppliedCanStart
<1> SUFFICES ASSUME DesiredInv PROVE AppliedCanStart
  OBVIOUS
<1>1. DesiredTypeOK
  BY DesiredInvTyped
<1> SUFFICES ASSUME NEW ns \in Namespaces, last[ns].answer = "applied", ~last[ns].disturbed,
                    NEW name \in Range(ListedServices(last[ns].file))
             PROVE  Startable(ns, name, last[ns].file.services[name],
                              injectResourceEnv(last[ns].file.services[name],
                                                last[ns].file.resources))
  BY <1>1, Zenon DEF AppliedCanStart, Startable
<1> SUFFICES ASSUME NEW l, l = last[ns], NEW service, service = l.file.services[name],
                    NEW w, w = <<ns, WorkloadKind(service.type), name>>,
                    NEW env, env = injectResourceEnv(service, l.file.resources)
             PROVE  Startable(ns, name, service, env)
  OBVIOUS
<1>2. PICK p \in Projects : p = l.project /\ NamespaceOf(p) = ns
  BY DEF DesiredInv, ApplyHolds
<1>3. \A x \in WantedObjects(l) : Needed(x) => InPlace(x)
  <2>1. ASSUME NEW o \in Operators, run[o].pc = "kubectl" PROVE run[o].number # l.number
    BY <2>1 DEF DesiredInv, Numbered
  <2>2. ApplyHolds(ns)
    BY DEF DesiredInv
  <2> QED BY <2>1, <2>2 DEF ApplyHolds
<1>4. ASSUME NEW x, ServiceObject(x, p, name, service, env), Needed(x) PROVE InPlace(x)
  <2>1. ProjectObject(x, p, l.file)
    BY <1>4 DEF ProjectObject
  <2>2. x \in WantedObjects(l)
    BY <1>2, <2>1, ProjectObjects DEF WantedObjects
  <2> QED BY <1>3, <1>4, <2>2
<1>5. IsSequence(name) /\ name # <<>>
  BY ListedServicesAre, NamesAreSequences
<1>6. PICK s, c : s = name \o <<"env">> /\ c = name \o <<"config">>
  OBVIOUS
<1>7. w \in DOMAIN kube /\ kube[w].refs = envRefs(env, s)
  <2>1. PICK x : x = workloadManifest(p, name, service, env)
    OBVIOUS
  <2>2. x.id = w /\ x.body.refs = envRefs(env, s) /\ x.id[2] = WorkloadKind(service.type)
    BY <1>2, <1>6, <2>1 DEF workloadManifest, Object
  <2>3. ServiceObject(x, p, name, service, env)
    BY <2>1 DEF ServiceObject
  <2>4. Needed(x)
    BY <2>2 DEF Needed, WorkloadKind, WorkloadKinds
  <2> QED BY <1>4, <2>2, <2>3, <2>4 DEF InPlace
<1>8. DOMAIN PlainPart(env) = DOMAIN env \ SecretKeys
      /\ DOMAIN SecretPart(env) = DOMAIN env \cap SecretKeys
  BY DEF PlainPart, SecretPart
<1>9. {x.key : x \in envRefs(env, s)} = DOMAIN env
  <2>1. ASSUME NEW x \in envRefs(env, s) PROVE x.key \in DOMAIN env
    BY <1>8, <2>1 DEF envRefs
  <2>2. ASSUME NEW k \in DOMAIN env PROVE \E x \in envRefs(env, s) : x.key = k
    <3>1. CASE k \in SecretKeys
      <4>1. PICK x : x = [kind |-> "Secret", name |-> s, key |-> k]
        OBVIOUS
      <4>2. x \in envRefs(env, s)
        BY <1>8, <3>1, <4>1 DEF envRefs
      <4> QED BY <4>1, <4>2
    <3>2. CASE k \notin SecretKeys
      <4>1. PICK x : x = [kind |-> "ConfigMap", name |-> FirstEnvReplaced(s), key |-> k]
        OBVIOUS
      <4>2. x \in envRefs(env, s)
        BY <1>8, <3>2, <4>1 DEF envRefs
      <4> QED BY <4>1, <4>2
    <3> QED BY <3>1, <3>2
  <2>3. PICK R : R = envRefs(env, s)
    OBVIOUS
  <2>4. \A k : k \in {x.key : x \in R} <=> k \in DOMAIN env
    BY <2>1, <2>2, <2>3
  <2> QED BY <2>3, <2>4
<1>10. ASSUME NEW x \in envRefs(env, s), ~(x.kind = "ConfigMap" /\ Misnamed(name))
       PROVE  /\ Has(ns, x.kind, x.name)
              /\ x.key \in DOMAIN kube[<<ns, x.kind, x.name>>].data
              /\ kube[<<ns, x.kind, x.name>>].data[x.key] = env[x.key]
  <2>1. CASE x.kind = "ConfigMap"
    <3>1. x.name = FirstEnvReplaced(s) /\ x.key \in DOMAIN PlainPart(env)
      BY <2>1 DEF envRefs
    <3>2. x.name = c
      BY <1>5, <1>6, <1>10, <2>1, <3>1, ConfigName
    <3>3. PICK y : y = configMapManifest(ns, c, env)
      OBVIOUS
    <3>4. y.id = <<ns, "ConfigMap", c>> /\ y.body.data = PlainPart(env) /\ Needed(y)
      BY <3>3 DEF configMapManifest, Object, Needed
    <3>5. ServiceObject(y, p, name, service, env)
      BY <1>2, <1>6, <3>1, <3>3 DEF ServiceObject
    <3>6. <<ns, "ConfigMap", c>> \in DOMAIN kube
          /\ kube[<<ns, "ConfigMap", c>>].data = PlainPart(env)
      BY <1>4, <3>4, <3>5 DEF InPlace
    <3>7. PlainPart(env)[x.key] = env[x.key]
      BY <3>1 DEF PlainPart
    <3> QED BY <2>1, <3>1, <3>2, <3>6, <3>7 DEF Has
  <2>2. CASE x.kind = "Secret"
    <3>1. x.name = s /\ x.key \in DOMAIN SecretPart(env)
      BY <2>2 DEF envRefs
    <3>3. PICK y : y = secretManifest(ns, s, env)
      OBVIOUS
    <3>4. y.id = <<ns, "Secret", s>> /\ y.body.data = SecretPart(env) /\ Needed(y)
      BY <3>3 DEF secretManifest, Object, Needed
    <3>5. ServiceObject(y, p, name, service, env)
      BY <1>2, <1>6, <3>1, <3>3 DEF ServiceObject
    <3>6. <<ns, "Secret", s>> \in DOMAIN kube /\ kube[<<ns, "Secret", s>>].data = SecretPart(env)
      BY <1>4, <3>4, <3>5 DEF InPlace
    <3>7. SecretPart(env)[x.key] = env[x.key]
      BY <3>1 DEF SecretPart
    <3> QED BY <2>2, <3>1, <3>6, <3>7 DEF Has
  <2>3. x.kind = "ConfigMap" \/ x.kind = "Secret"
    BY DEF envRefs
  <2> QED BY <2>1, <2>2, <2>3
<1>11. ASSUME service.type = "web"
       PROVE  /\ Has(ns, "Ingress", name) /\ Has(ns, "Service", name)
              /\ kube[<<ns, "Ingress", name>>].backend = name
              /\ kube[<<ns, "Service", name>>].selector = name
  <2>1. PICK x, y : x = ingressManifest(p, name, service) /\ y = serviceManifest(ns, name)
    OBVIOUS
  <2>2. x.id = <<ns, "Ingress", name>> /\ x.body.backend = name /\ Needed(x)
    BY <1>2, <2>1 DEF ingressManifest, Object, Needed
  <2>3. y.id = <<ns, "Service", name>> /\ y.body.selector = name /\ Needed(y)
    BY <2>1 DEF serviceManifest, Object, Needed
  <2>4. ServiceObject(x, p, name, service, env) /\ ServiceObject(y, p, name, service, env)
    BY <1>2, <1>11, <2>1 DEF ServiceObject
  <2> QED BY <1>4, <2>2, <2>3, <2>4 DEF InPlace, Has
<1> QED BY <1>7, <1>9, <1>10, <1>11 DEF Startable

\* A k8s-apply that succeeded with the namespace to itself left a project that can start,
\* whatever earlier files, half-done runs, provisioning and retries left behind; only the
\* ConfigMap of a service with "-env" in its name is not found.
THEOREM AppliedProjectsStart == DesiredSpec => []AppliedCanStart
BY DesiredInvCanStart, DesiredInvariance, PTL

--------------------------------------------------------------------------------
(***************************************************************************)
(* Proofs about Reconciler, for every set of deployments, workloads,       *)
(* previews and orchestrators and every bound on builds and faults.        *)
(***************************************************************************)
USE RowsAssumption, WorkloadAssumption, BoundsAssumption

\* The initial state satisfies the inductive invariant: nothing is DEPLOYING,
\* nothing is CLEANED_UP and no orchestrator has work at hand.
LEMMA OrchestratorInit == ReconcilerInit => ReconcilerInv
<1> SUFFICES ASSUME ReconcilerInit PROVE ReconcilerInv
  OBVIOUS
<1>1. rows \in [DeploymentIds -> Row]
  <2>1. [status : {"BUILDING"}, image : {FALSE}, previous : {FALSE}] \subseteq Row
    BY DEF Row, Statuses
  <2>2. [status : {"ROLLBACK_REQUESTED"}, image : {TRUE}, previous : BOOLEAN] \subseteq Row
    BY DEF Row, Statuses, Listed
  <2>3. QED
    BY <2>1, <2>2 DEF ReconcilerInit
<1>2. \A d \in DeploymentIds : rows[d].status \in {"BUILDING", "ROLLBACK_REQUESTED"}
  BY DEF ReconcilerInit
<1>3. ReconcilerTypeOK
  <2>1. /\ orch \in [Orchestrators -> Work]
        /\ \A o \in Orchestrators : orch[o].pc = "idle" <=> orch[o].dep = Nothing
    BY DEF ReconcilerInit, Resting, Work
  <2>2. orchFaults \in 0..MaxOrchFaults /\ closed \subseteq Previews
    BY DEF ReconcilerInit
  <2>3. overlapped \in BOOLEAN
    BY Zenon DEF ReconcilerInit
  <2>4. QED
    BY <1>1, <2>1, <2>2, <2>3 DEF ReconcilerInit, ReconcilerTypeOK
<1>4. QED
  BY <1>2, <1>3 DEF ReconcilerInit, ReconcilerInv, NoDanglingRollout,
         CleanedUpIsGone, CleanupInv, Resting

\* The writes of the builder, the API and the webhook keep the invariant: none
\* of them writes DEPLOYING or CLEANED_UP, and none touches the cluster.
LEMMA OtherWriters ==
  ASSUME ReconcilerInv,
         \/ \E d \in DeploymentIds : imageReady(d) \/ imageReadyUnnamed(d) \/ cancelDeployment(d)
         \/ \E p \in Previews : cleanupRequested(p)
  PROVE  ReconcilerInv'
<1> USE DEF ReconcilerInv
<1> DEFINE Harmless == \A d \in DeploymentIds :
                          \/ rows'[d].status = rows[d].status
                          \/ rows'[d].status \notin {"DEPLOYING", "CLEANED_UP"}
           Typed == /\ rows' \in [DeploymentIds -> Row]
                    /\ builds' \in [DeploymentIds -> 0..MaxBuilds]
                    /\ closed' \subseteq Previews
<1>1. ASSUME NEW d \in DeploymentIds, imageReady(d) PROVE Typed /\ Harmless
  BY <1>1 DEF ReconcilerTypeOK, Row, imageReady, Statuses, Listed
<1>2. ASSUME NEW d \in DeploymentIds, imageReadyUnnamed(d) PROVE Typed /\ Harmless
  BY <1>2 DEF ReconcilerTypeOK, Row, imageReadyUnnamed, Statuses, Listed
<1>3. ASSUME NEW d \in DeploymentIds, cancelDeployment(d) PROVE Typed /\ Harmless
  BY <1>3 DEF ReconcilerTypeOK, Row, cancelDeployment, Statuses
<1>4. ASSUME NEW p \in Previews, cleanupRequested(p) PROVE Typed /\ Harmless
  BY <1>4, SMTT(30) DEF ReconcilerTypeOK, Row, cleanupRequested, Statuses, Listed
<1>5. Typed /\ Harmless
  BY <1>1, <1>2, <1>3, <1>4
<1> HIDE DEF Harmless, Typed
<1>6. UNCHANGED <<orch, cluster, orchFaults, overlapped>>
  BY DEF imageReady, imageReadyUnnamed, cancelDeployment, cleanupRequested
<1>7. ReconcilerTypeOK'
  BY <1>5, <1>6 DEF ReconcilerTypeOK, Typed
<1>8. NoDanglingRollout'
  BY <1>5, <1>6 DEF NoDanglingRollout, Harmless
<1>9. \A o \in Orchestrators : orch[o].pc # "idle" => orch[o].dep \in DeploymentIds
  BY DEF ReconcilerTypeOK, Work
<1>10. CleanedUpIsGone' /\ CleanupInv'
  BY <1>5, <1>6, <1>9 DEF CleanedUpIsGone, CleanupInv, Harmless
<1>11. QED
  BY <1>7, <1>8, <1>10

\* Taking up a deployment keeps the invariant: a listed row is not CLEANED_UP.
LEMMA RunOnceKeeps ==
  ASSUME ReconcilerInv, NEW o \in Orchestrators, NEW d \in DeploymentIds, RunOnce(o, d)
  PROVE  ReconcilerInv'
<1> USE DEF ReconcilerInv
<1>1. ReconcilerTypeOK'
  <2>1. rows[d].status \in Statuses /\ HasImage(d) \in BOOLEAN
    BY DEF ReconcilerTypeOK, Row, HasImage
  <2>2. [pc |-> "listed", dep |-> d, saw |-> rows[d].status, image |-> HasImage(d)] \in Work
    BY <2>1 DEF Work
  <2>3. orch' \in [Orchestrators -> Work]
    BY <2>2 DEF RunOnce, ReconcilerTypeOK
  <2>4. QED
    BY <2>3 DEF ReconcilerTypeOK, RunOnce
<1>2. /\ orch'[o].pc = "listed" /\ orch'[o].dep = d
      /\ \A p \in Orchestrators \ {o} : orch'[p] = orch[p]
      /\ orch[o].pc = "idle"
      /\ rows[d].status # "CLEANED_UP"
      /\ UNCHANGED <<rows, cluster, orchFaults>>
  BY DEF ReconcilerTypeOK, Work, RunOnce, Waiting, Listed
<1>3. NoDanglingRollout'
  <2>1. \A p \in Orchestrators :
            orch[p].pc \in {"applying", "rollout", "ready"} => orch'[p] = orch[p]
    BY <1>2
  <2>2. ASSUME NEW e \in DeploymentIds, rows'[e].status = "DEPLOYING", ~(orchFaults' > 0)
        PROVE  \E p \in Orchestrators :
                   orch'[p].dep = e /\ orch'[p].pc \in {"applying", "rollout", "ready"}
    <3>1. PICK p \in Orchestrators :
              orch[p].dep = e /\ orch[p].pc \in {"applying", "rollout", "ready"}
      BY <1>2, <2>2 DEF NoDanglingRollout
    <3>2. QED
      BY <2>1, <3>1
  <2>3. QED
    BY <2>2 DEF NoDanglingRollout
<1>4. CleanedUpIsGone' /\ CleanupInv'
  <2>1. ~overlapped' => ~overlapped /\ \A p \in Orchestrators \ {o} : orch[p].pc = "idle"
    BY DEF RunOnce, ReconcilerTypeOK
  <2>2. CleanedUpIsGone'
    BY <1>2, <2>1 DEF CleanedUpIsGone
  <2>3. CleanupInv'
    BY <1>2, <2>1 DEF CleanupInv
  <2>4. QED
    BY <2>2, <2>3
<1>5. QED
  BY <1>1, <1>3, <1>4

\* What a step of an orchestrator with a deployment at hand changes: its own
\* record, the status of that deployment's row, the cluster and the faults.
LEMMA ReconcileKeeps ==
  ASSUME ReconcilerInv, NEW o \in Orchestrators, orch[o].pc # "idle",
         \/ reconcileDeployment(o) \/ kubectlApply(o) \/ rolloutStatus(o)
         \/ kubectlFails(o) \/ markReady(o) \/ kubectlDelete(o)
         \/ kubectlDeleteFails(o) \/ markCleanedUp(o) \/ orchestratorDies(o)
  PROVE  ReconcilerInv'
<1> DEFINE d == orch[o].dep
           pc == orch[o].pc
<1> USE DEF ReconcilerInv
<1>1. d \in DeploymentIds /\ WorkloadOf[d] \in Workloads
  BY DEF ReconcilerTypeOK, Work
<1>2. /\ \A p \in Orchestrators \ {o} : orch'[p] = orch[p]
      /\ orch'[o].pc = "idle" \/ orch'[o].dep = d
      /\ UNCHANGED <<builds, closed, overlapped>>
  BY DEF ReconcilerTypeOK, Row, Work, reconcileDeployment, kubectlApply,
         rolloutStatus, kubectlFails, markReady, kubectlDelete, kubectlDeleteFails,
         markCleanedUp, orchestratorDies, Goto, Return, Resting
<1>3. /\ \A e \in DeploymentIds \ {d} : rows'[e] = rows[e]
      /\ rows' \in [DeploymentIds -> Row]
  <2>1. \/ UNCHANGED rows
        \/ \E s \in Statuses : rows' = [rows EXCEPT ![d].status = s]
    BY DEF reconcileDeployment, kubectlApply, rolloutStatus, kubectlFails,
           markReady, kubectlDelete, kubectlDeleteFails, markCleanedUp, orchestratorDies,
           TrySetStatus, SetStatus, Statuses, Listed
  <2>2. ASSUME NEW s \in Statuses, rows' = [rows EXCEPT ![d].status = s]
        PROVE  /\ \A e \in DeploymentIds \ {d} : rows'[e] = rows[e]
               /\ rows' \in [DeploymentIds -> Row]
    BY <1>1, <2>2 DEF ReconcilerTypeOK, Row
  <2>3. QED
    BY <2>1, <2>2 DEF ReconcilerTypeOK
<1>4. orchFaults' \in 0..MaxOrchFaults /\ (orchFaults > 0 => orchFaults' > 0)
  BY DEF ReconcilerTypeOK, Row, Work, reconcileDeployment, kubectlApply,
         rolloutStatus, kubectlFails, markReady, kubectlDelete, kubectlDeleteFails,
         markCleanedUp, orchestratorDies, TrySetStatus, StoreFault
<1>5. ReconcilerTypeOK'
  <2>1. cluster' \in [Workloads -> DeploymentIds \cup {Nothing}]
    BY <1>1 DEF ReconcilerTypeOK, Row, Work, reconcileDeployment, kubectlApply,
           rolloutStatus, kubectlFails, markReady, kubectlDelete,
           kubectlDeleteFails, markCleanedUp, orchestratorDies
  <2>2. \/ Return(o)
        \/ \E x \in {"applying", "rollout", "ready", "deleting", "deleted"} : Goto(o, x)
    BY DEF reconcileDeployment, kubectlApply, rolloutStatus, kubectlFails,
           markReady, kubectlDelete, kubectlDeleteFails, markCleanedUp, orchestratorDies
  <2>3. /\ orch' \in [Orchestrators -> Work]
        /\ \A p \in Orchestrators : orch'[p].pc = "idle" <=> orch'[p].dep = Nothing
    <3>1. CASE Return(o)
      BY <3>1 DEF ReconcilerTypeOK, Work, Return, Resting
    <3>2. ASSUME NEW x \in {"applying", "rollout", "ready", "deleting", "deleted"}, Goto(o, x)
          PROVE  /\ orch' \in [Orchestrators -> Work]
                 /\ orch'[o].pc # "idle" /\ orch'[o].dep = d
      BY <3>2 DEF ReconcilerTypeOK, Work, Goto
    <3>3. QED
      BY <1>1, <1>2, <2>2, <3>1, <3>2 DEF ReconcilerTypeOK
  <2>4. QED
    BY <1>2, <1>3, <1>4, <2>1, <2>3 DEF ReconcilerTypeOK
<1>6. NoDanglingRollout'
  <2>1. rows'[d].status = "DEPLOYING" =>
            \/ orchFaults' > 0
            \/ orch'[o].dep = d /\ orch'[o].pc \in {"applying", "rollout", "ready"}
            \/ rows[d].status = "DEPLOYING" /\ pc \notin {"applying", "rollout", "ready"}
    BY <1>1 DEF ReconcilerTypeOK, Row, Work, reconcileDeployment, kubectlApply,
           rolloutStatus, kubectlFails, markReady, kubectlDelete,
           kubectlDeleteFails, markCleanedUp, orchestratorDies, TrySetStatus,
           SetStatus, StoreFault, Goto, Return
  <2>2. ASSUME NEW e \in DeploymentIds, rows'[e].status = "DEPLOYING", ~(orchFaults' > 0)
        PROVE  \E p \in Orchestrators :
                   orch'[p].dep = e /\ orch'[p].pc \in {"applying", "rollout", "ready"}
    <3>1. CASE e = d /\ orch'[o].dep = d /\ orch'[o].pc \in {"applying", "rollout", "ready"}
      BY <3>1
    <3>2. CASE ~(e = d /\ orch'[o].dep = d /\ orch'[o].pc \in {"applying", "rollout", "ready"})
      <4>1. /\ rows[e].status = "DEPLOYING" /\ ~(orchFaults > 0)
            /\ e = d => pc \notin {"applying", "rollout", "ready"}
        BY <1>3, <1>4, <2>1, <2>2, <3>2
      <4>2. PICK p \in Orchestrators :
                orch[p].dep = e /\ orch[p].pc \in {"applying", "rollout", "ready"}
        BY <4>1 DEF NoDanglingRollout
      <4>3. p # o
        BY <4>1, <4>2
      <4>4. QED
        BY <1>2, <4>2, <4>3
    <3>3. QED
      BY <3>1, <3>2
  <2>3. QED
    BY <2>2 DEF NoDanglingRollout
<1>7. ASSUME ~overlapped
      PROVE  /\ \A e \in DeploymentIds : rows'[e].status = "CLEANED_UP" => cluster'[WorkloadOf[e]] # e
             /\ orch'[o].pc # "idle" => rows'[d].status # "CLEANED_UP"
             /\ orch'[o].pc = "deleted" => \A x \in Workloads : cluster'[x] = Nothing
  <2>1. rows[d].status # "CLEANED_UP"
    BY <1>7 DEF CleanupInv
  <2>2. rows'[d].status = "CLEANED_UP" => pc = "deleted" /\ orch'[o].pc = "idle"
                                          /\ UNCHANGED cluster
    BY <1>1, <2>1 DEF ReconcilerTypeOK, Row, Work, reconcileDeployment,
           kubectlApply, rolloutStatus, kubectlFails, markReady, kubectlDelete,
           kubectlDeleteFails, markCleanedUp, orchestratorDies, TrySetStatus,
           SetStatus, Return, Resting
  <2>3. pc = "deleted" => \A x \in Workloads : cluster[x] = Nothing
    BY <1>7 DEF CleanupInv
  <2>4. \A x \in Workloads : cluster'[x] \in {cluster[x], d, Nothing}
    BY <1>1 DEF ReconcilerTypeOK, Row, Work, reconcileDeployment, kubectlApply,
           rolloutStatus, kubectlFails, markReady, kubectlDelete,
           kubectlDeleteFails, markCleanedUp, orchestratorDies
  <2>5. orch'[o].pc = "deleted" => \A x \in Workloads : cluster'[x] = Nothing
    BY <2>3 DEF ReconcilerTypeOK, Row, Work, reconcileDeployment, kubectlApply,
           rolloutStatus, kubectlFails, markReady, kubectlDelete,
           kubectlDeleteFails, markCleanedUp, orchestratorDies, Goto, Return,
           Resting
  <2>6. ASSUME NEW e \in DeploymentIds, rows'[e].status = "CLEANED_UP"
        PROVE  cluster'[WorkloadOf[e]] # e
    <3>1. CASE e = d
      BY <1>1, <2>2, <2>3, <2>6, <3>1
    <3>2. CASE e # d
      <4>1. rows[e].status = "CLEANED_UP" /\ WorkloadOf[e] \in Workloads
        BY <1>3, <2>6, <3>2
      <4>2. cluster[WorkloadOf[e]] # e
        BY <1>7, <4>1 DEF CleanedUpIsGone
      <4>3. QED
        BY <2>4, <3>2, <4>1, <4>2
    <3>3. QED
      BY <3>1, <3>2
  <2>7. QED
    BY <2>2, <2>5, <2>6
<1>8. CleanedUpIsGone' /\ CleanupInv'
  <2>1. ~overlapped => \A p \in Orchestrators \ {o} : orch'[p].pc = "idle"
    BY <1>2 DEF CleanupInv
  <2>2. CleanedUpIsGone'
    BY <1>2, <1>7 DEF CleanedUpIsGone
  <2>3. CleanupInv'
    BY <1>2, <1>7, <2>1 DEF CleanupInv
  <2>4. QED
    BY <2>2, <2>3
<1>9. QED
  BY <1>5, <1>6, <1>8

\* ReconcilerInv is an invariant of the reconciler.
THEOREM OrchestratorInvariance == ReconcilerSpec => []ReconcilerInv
<1>1. ASSUME ReconcilerInv, [ReconcilerNext]_vars PROVE ReconcilerInv'
  <2>1. CASE UNCHANGED vars
    BY <1>1, <2>1 DEF vars, ReconcilerInv, ReconcilerTypeOK, NoDanglingRollout,
           CleanedUpIsGone, CleanupInv
  <2>2. ASSUME NEW o \in Orchestrators, OrchestratorStep(o) \/ orchestratorDies(o)
        PROVE  ReconcilerInv'
    <3>1. CASE \E d \in DeploymentIds : RunOnce(o, d)
      BY <1>1, <3>1, RunOnceKeeps
    <3>2. CASE ~\E d \in DeploymentIds : RunOnce(o, d)
      <4>1. \/ reconcileDeployment(o) \/ kubectlApply(o) \/ rolloutStatus(o)
            \/ kubectlFails(o) \/ markReady(o) \/ kubectlDelete(o)
            \/ kubectlDeleteFails(o) \/ markCleanedUp(o) \/ orchestratorDies(o)
        BY <2>2, <3>2 DEF OrchestratorStep
      <4>2. orch[o].pc # "idle"
        BY <4>1 DEF reconcileDeployment, kubectlApply, rolloutStatus, kubectlFails,
               markReady, kubectlDelete, kubectlDeleteFails, markCleanedUp, orchestratorDies
      <4>3. QED
        BY <1>1, <4>1, <4>2, ReconcileKeeps
    <3>3. QED
      BY <3>1, <3>2
  <2>3. QED
    BY <1>1, <2>1, <2>2, OtherWriters DEF ReconcilerNext
<1>2. QED
  BY <1>1, OrchestratorInit, PTL DEF ReconcilerSpec

\* Every reachable state of the reconciler is well typed.
THEOREM OrchestratorTypeCorrect == ReconcilerSpec => []ReconcilerTypeOK
<1>1. ReconcilerInv => ReconcilerTypeOK
  BY DEF ReconcilerInv
<1>2. QED
  BY <1>1, OrchestratorInvariance, PTL

\* As long as no store call failed and no process died, every DEPLOYING row has
\* an orchestrator that will write its outcome, however many orchestrators take
\* up the same deployment.
THEOREM NoRolloutDangles == ReconcilerSpec => []NoDanglingRollout
<1>1. ReconcilerInv => NoDanglingRollout
  BY DEF ReconcilerInv
<1>2. QED
  BY <1>1, OrchestratorInvariance, PTL

\* As long as orchestrators have worked one at a time (one process always does),
\* a row says CLEANED_UP only while its deployment does not run, whatever faults
\* occur.
THEOREM CleanupIsTruthful == ReconcilerSpec => []CleanedUpIsGone
<1>1. ReconcilerInv => CleanedUpIsGone
  BY DEF ReconcilerInv
<1>2. QED
  BY <1>1, OrchestratorInvariance, PTL

--------------------------------------------------------------------------------
(***************************************************************************)
(* Proofs about BuildPipeline, for every set of jobs, deployments, commits,*)
(* builders and requests, both claim policies, and any number of faults.   *)
(*                                                                         *)
(* The four properties are not inductive: they need to know what the       *)
(* snapshots held outside the tables (job payloads, build contexts,        *)
(* requests in progress) still have in common with the tables.  One        *)
(* predicate per kind of holder says so, and the four of them are kept by  *)
(* every step because the tables only grow: see Grows.                     *)
(***************************************************************************)

USE IdsAssumption, NoneAssumption, BudgetAssumption, PolicyAssumption,
    FaultsAssumption, ReportsAssumption

IsPushed(image) == image # None => registry[image] # None

\* A row that exists has a commit, its own digest or none, and announces only a
\* pushed image; a row that does not exist is blank.
DeploymentSound(d) ==
    /\ Exists(d) => /\ deployments[d].commit \in Commits
                    /\ deployments[d].digest \in {None, deployments[d].commit}
                    /\ IsPushed(deployments[d].imageUrl)
    /\ ~Exists(d) => deployments[d] = NoDeployment

\* A job names an existing deployment or none, and only a pushed image; it has
\* an attempt left while it waits; if it succeeded its deployment has an image.
JobSound(j) ==
    /\ board[j].status = "absent" => board[j].attempts = 0
    /\ board[j].status = "queued" => board[j].attempts < MaxAttempts
    /\ board[j].status = "succeeded" => /\ jobOf[j].dep # None
                                        /\ deployments[jobOf[j].dep].imageUrl # None
    /\ jobOf[j].dep # None => Exists(jobOf[j].dep)
    /\ IsPushed(jobOf[j].imageUrl)

Resolved == {"mark", "build", "record", "service", "complete"}

\* A builder holds an existing job; once it resolved the job's deployment it
\* has an image name, and a digest only of the deployment's commit; after the
\* build the image is pushed, and after recordImage the deployment has one.
WorkerSound(w) ==
    /\ hands[w].pc # "idle" => /\ hands[w].job # None
                               /\ board[hands[w].job].status # "absent"
    /\ hands[w].pc = "working" /\ ctx[w].phase \in Resolved =>
          /\ Target(w) # None
          /\ ctx[w].image # None
          /\ ctx[w].digest \in {None, deployments[Target(w)].commit}
          /\ ctx[w].phase \notin {"mark", "build"} => registry[ctx[w].image] # None
          /\ ctx[w].phase \in {"service", "complete"} =>
                deployments[Target(w)].imageUrl # None

\* A request past its check names an existing deployment and never reports
\* BUILDING; a rollback carries a pushed image with the commit it belongs to.
RequestSound(r) ==
    LET q == requests[r] IN
    /\ q.status # "BUILDING"
    /\ q.stage \in {"checked", "written"} => q.dep # None /\ Exists(q.dep)
    /\ q.op = "rollback" => /\ q.commit \in Commits
                            /\ q.digest \in {None, q.commit}
                            /\ q.imageUrl # None /\ IsPushed(q.imageUrl)

Sound ==
    /\ \A d \in Deployments : DeploymentSound(d)
    /\ \A j \in Jobs : JobSound(j)
    /\ \A w \in Workers : WorkerSound(w)
    /\ \A r \in Requests : RequestSound(r)
    /\ IsPushed(serviceImage)

IInv == TypeOK /\ Sound /\ NoDanglingBuild

--------------------------------------------------------------------------------
(***************************************************************************)
(* What every step leaves of the tables                                    *)
(***************************************************************************)

\* The tables only grow: rows stay, with their commit and with an image once
\* they have one; a pushed tag stays pushed; a job keeps its payload.
Grows ==
    /\ \A d \in Deployments : Exists(d) =>
          /\ Exists(d)'
          /\ deployments'[d].commit = deployments[d].commit
          /\ deployments[d].imageUrl # None => deployments'[d].imageUrl # None
    /\ \A c \in Commits : registry[c] # None => registry'[c] # None
    /\ \A j \in Jobs : board[j].status # "absent" =>
          board'[j].status # "absent" /\ jobOf'[j] = jobOf[j]

\* Tables that do not change have grown.
LEMMA UnchangedGrows ==
  ASSUME UNCHANGED <<deployments, registry, board, jobOf>>
  PROVE  Grows
BY DEF Grows, Exists

\* A builder that does not step stays sound while the tables grow.
LEMMA WorkerKept ==
  ASSUME TypeOK, Sound, Grows, NEW w \in Workers, hands'[w] = hands[w], ctx'[w] = ctx[w]
  PROVE  WorkerSound(w)'
<1>1. WorkerSound(w)
  BY DEF Sound
<1>2. CASE hands[w].pc = "idle"
  BY <1>2 DEF WorkerSound
<1>3. CASE hands[w].pc # "idle"
  <2>1. /\ hands[w].job \in Jobs
        /\ board[hands[w].job].status # "absent"
    BY <1>1, <1>3 DEF WorkerSound, TypeOK
  <2>2. board'[hands[w].job].status # "absent" /\ Target(w)' = Target(w)
    BY <2>1 DEF Grows, Target
  <2>3. CASE ~(hands[w].pc = "working" /\ ctx[w].phase \in Resolved)
    BY <1>3, <2>1, <2>2, <2>3 DEF WorkerSound
  <2>4. CASE hands[w].pc = "working" /\ ctx[w].phase \in Resolved
    <3>1. Target(w) \in Deployments /\ Exists(Target(w)) /\ ctx[w].image \in Commits
      BY <1>1, <2>1, <2>4 DEF WorkerSound, TypeOK, Payload, Context, Image, Target, Sound,
                              JobSound
    <3>2. /\ deployments'[Target(w)].commit = deployments[Target(w)].commit
          /\ deployments[Target(w)].imageUrl # None =>
                deployments'[Target(w)].imageUrl # None
          /\ registry[ctx[w].image] # None => registry'[ctx[w].image] # None
      BY <3>1 DEF Grows
    <3>3. QED
      BY <1>1, <2>1, <2>2, <2>4, <3>2 DEF WorkerSound
  <2>5. QED
    BY <2>3, <2>4
<1>4. QED
  BY <1>2, <1>3

\* A request that does not step stays sound while the tables grow.
LEMMA RequestKept ==
  ASSUME TypeOK, Sound, Grows, NEW r \in Requests, requests'[r] = requests[r]
  PROVE  RequestSound(r)'
<1>1. RequestSound(r)
  BY DEF Sound
<1>2. requests[r].dep \in Deployments \cup {None} /\ requests[r].imageUrl \in Image
  BY DEF TypeOK, Request
<1>3. QED
  BY <1>1, <1>2 DEF RequestSound, Grows, IsPushed, Image

\* A job that no step touches stays sound while the tables grow.
LEMMA JobKept ==
  ASSUME TypeOK, Sound, Grows, NEW j \in Jobs, board'[j] = board[j], jobOf'[j] = jobOf[j]
  PROVE  JobSound(j)'
<1>1. JobSound(j)
  BY DEF Sound
<1>2. jobOf[j].dep \in Deployments \cup {None} /\ jobOf[j].imageUrl \in Image
  BY DEF TypeOK, Payload
<1>3. QED
  BY <1>1, <1>2 DEF JobSound, Grows, IsPushed, Image

\* A deployment that no step touches stays sound while the tables grow.
LEMMA DeploymentKept ==
  ASSUME TypeOK, Sound, Grows, NEW d \in Deployments, deployments'[d] = deployments[d]
  PROVE  DeploymentSound(d)'
<1>1. DeploymentSound(d)
  BY DEF Sound
<1>2. deployments[d].imageUrl \in Image
  BY DEF TypeOK, Deployment
<1>3. QED
  BY <1>1, <1>2 DEF DeploymentSound, Grows, IsPushed, Image, Exists

\* So a step that lets the tables grow is left to show that what it changes is
\* sound.
LEMMA SoundStep ==
  ASSUME TypeOK, Sound, Grows,
         \A d \in Deployments : deployments'[d] = deployments[d] \/ DeploymentSound(d)',
         \A j \in Jobs : \/ board'[j] = board[j] /\ jobOf'[j] = jobOf[j]
                         \/ JobSound(j)',
         \A w \in Workers : \/ hands'[w] = hands[w] /\ ctx'[w] = ctx[w]
                            \/ WorkerSound(w)',
         \A r \in Requests : requests'[r] = requests[r] \/ RequestSound(r)',
         serviceImage' = serviceImage \/ IsPushed(serviceImage)'
  PROVE  Sound'
<1>1. \A d \in Deployments : DeploymentSound(d)'
  BY DeploymentKept
<1>2. \A j \in Jobs : JobSound(j)'
  BY JobKept
<1>3. \A w \in Workers : WorkerSound(w)'
  BY WorkerKept
<1>4. \A r \in Requests : RequestSound(r)'
  BY RequestKept
<1>5. IsPushed(serviceImage)'
  BY DEF Sound, IsPushed, Grows, TypeOK, Image
<1>6. QED
  BY <1>1, <1>2, <1>3, <1>4, <1>5 DEF Sound

\* A step leaves no build dangling if whoever newly marks a deployment BUILDING
\* goes on to build it, and a builder that leaves the build unfinished has
\* overwritten BUILDING.
LEMMA BuildStep ==
  ASSUME TypeOK, Sound, NoDanglingBuild, TypeOK', Grows, faults' >= faults,
         \A d \in Deployments : deployments'[d].status = "BUILDING" =>
            \/ deployments[d].status = "BUILDING"
            \/ \E w \in Workers : (In(w, "build") \/ In(w, "record"))' /\ Target(w)' = d,
         \A w \in Workers : In(w, "build") \/ In(w, "record") =>
            \/ (In(w, "build") \/ In(w, "record"))' /\ hands'[w].job = hands[w].job
            \/ deployments'[Target(w)].status # "BUILDING"
  PROVE  NoDanglingBuild'
<1> SUFFICES ASSUME NEW d \in Deployments, deployments'[d].status = "BUILDING",
                    ~(faults' > 0), deployments[d].status = "BUILDING"
             PROVE  \E w \in Workers : (In(w, "build") \/ In(w, "record"))' /\ Target(w)' = d
  BY DEF NoDanglingBuild
<1>1. ~(faults > 0)
  BY DEF TypeOK
<1>2. PICK w \in Workers : (In(w, "build") \/ In(w, "record")) /\ Target(w) = d
  BY <1>1 DEF NoDanglingBuild
<1>3. (In(w, "build") \/ In(w, "record"))' /\ hands'[w].job = hands[w].job
  BY <1>2
<1>4. hands[w].job \in Jobs /\ board[hands[w].job].status # "absent"
  BY <1>2 DEF Sound, WorkerSound, TypeOK, In
<1>5. Target(w)' = d
  BY <1>2, <1>3, <1>4 DEF Grows, Target
<1>6. QED
  BY <1>3, <1>5

\* In particular a step that marks nothing BUILDING and stops no builder.
LEMMA BuildKept ==
  ASSUME TypeOK, Sound, NoDanglingBuild, TypeOK', Grows, faults' >= faults,
         \A d \in Deployments :
            deployments'[d].status = "BUILDING" => deployments[d].status = "BUILDING",
         \A w \in Workers : In(w, "build") \/ In(w, "record") =>
            hands'[w] = hands[w] /\ ctx'[w] = ctx[w]
  PROVE  NoDanglingBuild'
<1>1. \A w \in Workers : In(w, "build") \/ In(w, "record") =>
          (In(w, "build") \/ In(w, "record"))' /\ hands'[w].job = hands[w].job
  BY DEF In
<1>2. QED
  BY <1>1, BuildStep

--------------------------------------------------------------------------------
(***************************************************************************)
(* The API operations                                                      *)
(***************************************************************************)

\* The initial state satisfies the inductive invariant: all tables are empty.
LEMMA InitIInv == Init => IInv
<1> SUFFICES ASSUME Init PROVE IInv
  OBVIOUS
<1>1. TypeOK
  BY DEF Init, BoardInit, NoJob, Free, TypeOK, Deployment, DeploymentStatuses, Image,
         Payload, Context, Request, NoDeployment, NoPayload, NoContext, NoRequest
<1>2. Sound
  BY DEF Init, BoardInit, NoJob, Free, NoDeployment, NoPayload, NoContext, NoRequest,
         Sound, DeploymentSound, JobSound, WorkerSound, RequestSound, Exists, IsPushed,
         Resolved
<1>3. QED
  BY <1>1, <1>2 DEF IInv, NoDanglingBuild, Init, NoDeployment

\* Inserting a job changes that row only, which waits with its attempts unused.
LEMMA Enqueued ==
  ASSUME TypeOK, Sound, NEW j \in Jobs, NEW payload \in Payload, Enqueue(j, payload)
  PROVE  /\ board' \in [Jobs -> [status : {"absent", "queued", "running", "succeeded", "failed"},
                                 attempts : 0..MaxAttempts]]
         /\ jobOf' \in [Jobs -> Payload]
         /\ hands' = hands
         /\ \A i \in Jobs \ {j} : board'[i] = board[i] /\ jobOf'[i] = jobOf[i]
         /\ board[j].status = "absent"
         /\ board'[j] = [status |-> "queued", attempts |-> 0]
         /\ jobOf'[j] = payload
<1>1. board[j].attempts = 0
  BY DEF Enqueue, Post, Sound, JobSound
<1>2. QED
  BY <1>1 DEF Enqueue, Post, TypeOK

\* Creating a deployment with its job keeps the invariant.
LEMMA CreateIInv ==
  ASSUME IInv, NEW d \in Deployments, NEW c \in Commits, NEW j \in Jobs,
         createDeploymentWorkflow(d, c, j)
  PROVE  IInv'
<1> DEFINE p == [type |-> "build", dep |-> d, imageUrl |-> None]
<1>1. TypeOK /\ Sound /\ NoDanglingBuild
  BY DEF IInv
<1>2. p \in Payload /\ Enqueue(j, p) /\ ~Exists(d)
  BY DEF Payload, Image, createDeploymentWorkflow, Fresh
<1>3. /\ deployments'[d] = [status |-> "queued", commit |-> c, imageUrl |-> None,
                            digest |-> None]
      /\ \A e \in Deployments \ {d} : deployments'[e] = deployments[e]
      /\ UNCHANGED <<serviceImage, registry, ctx, requests, faults>>
  BY <1>1 DEF TypeOK, createDeploymentWorkflow, NoDeployment
<1> HIDE DEF p
<1>4. /\ board' \in [Jobs -> [status : {"absent", "queued", "running", "succeeded", "failed"},
                              attempts : 0..MaxAttempts]]
      /\ jobOf' \in [Jobs -> Payload]
      /\ hands' = hands
      /\ \A i \in Jobs \ {j} : board'[i] = board[i] /\ jobOf'[i] = jobOf[i]
      /\ board[j].status = "absent"
      /\ board'[j] = [status |-> "queued", attempts |-> 0]
      /\ jobOf'[j] = p
  BY <1>1, <1>2, Enqueued
<1>5. deployments' \in [Deployments -> Deployment]
  BY <1>1 DEF TypeOK, createDeploymentWorkflow, NoDeployment, Deployment, Image,
              DeploymentStatuses
<1>6. TypeOK'
  BY <1>1, <1>3, <1>4, <1>5 DEF TypeOK
<1>7. Grows
  BY <1>2, <1>3, <1>4 DEF Grows, Exists
<1>8. DeploymentSound(d)'
  BY <1>3 DEF DeploymentSound, Exists, IsPushed
<1>9. JobSound(j)'
  BY <1>3, <1>4 DEF JobSound, Exists, IsPushed, p
<1>10. Sound'
  BY <1>1, <1>3, <1>4, <1>7, <1>8, <1>9, SoundStep
<1>11. \A e \in Deployments :
          deployments'[e].status = "BUILDING" => deployments[e].status = "BUILDING"
  BY <1>3
<1>12. NoDanglingBuild'
  BY <1>1, <1>3, <1>4, <1>6, <1>7, <1>11, BuildKept DEF TypeOK
<1>13. QED
  BY <1>6, <1>10, <1>12 DEF IInv

\* Enqueueing a job without a deployment keeps the invariant.
LEMMA UnrelatedIInv ==
  ASSUME IInv, NEW j \in Jobs, enqueueUnrelated(j)
  PROVE  IInv'
<1> DEFINE p == [type |-> "unrelated", dep |-> None, imageUrl |-> None]
<1>1. TypeOK /\ Sound /\ NoDanglingBuild
  BY DEF IInv
<1>2. p \in Payload /\ Enqueue(j, p)
  BY DEF Payload, Image, enqueueUnrelated, NoPayload
<1>3. UNCHANGED <<deployments, serviceImage, registry, ctx, requests, faults>>
  BY DEF enqueueUnrelated
<1> HIDE DEF p
<1>4. /\ board' \in [Jobs -> [status : {"absent", "queued", "running", "succeeded", "failed"},
                              attempts : 0..MaxAttempts]]
      /\ jobOf' \in [Jobs -> Payload]
      /\ hands' = hands
      /\ \A i \in Jobs \ {j} : board'[i] = board[i] /\ jobOf'[i] = jobOf[i]
      /\ board[j].status = "absent"
      /\ board'[j] = [status |-> "queued", attempts |-> 0]
      /\ jobOf'[j] = p
  BY <1>1, <1>2, Enqueued
<1>5. TypeOK'
  BY <1>1, <1>3, <1>4 DEF TypeOK
<1>6. Grows
  BY <1>3, <1>4 DEF Grows, Exists
<1>7. JobSound(j)'
  BY <1>4 DEF JobSound, IsPushed, p
<1>8. Sound'
  BY <1>1, <1>3, <1>4, <1>6, <1>7, SoundStep
<1>9. NoDanglingBuild'
  BY <1>1, <1>3, <1>4, <1>5, <1>6, BuildKept DEF TypeOK
<1>10. QED
  BY <1>5, <1>8, <1>9 DEF IInv

\* Checking a status change keeps the invariant: nobody asks for BUILDING.
LEMMA TransitionIInv ==
  ASSUME IInv, NEW r \in Requests, NEW op \in {"cancel", "report"}, NEW d \in Deployments,
         NEW s \in DeploymentStatuses \ {"BUILDING"}, transitionDeployment(r, op, d, s)
  PROVE  IInv'
<1>1. TypeOK /\ Sound /\ NoDanglingBuild
  BY DEF IInv
<1>2. UNCHANGED <<board, hands, deployments, serviceImage, registry, jobOf, ctx, faults>>
  BY DEF transitionDeployment, boardVars
<1>3. /\ Exists(d)
      /\ \A t \in Requests \ {r} : requests'[t] = requests[t]
      /\ requests'[r] = [op |-> op, stage |-> "checked", dep |-> d, status |-> s,
                         commit |-> None, imageUrl |-> None, digest |-> None]
  BY <1>1 DEF transitionDeployment, NoRequest, TypeOK
<1>4. requests' \in [Requests -> Request]
  BY <1>1 DEF transitionDeployment, NoRequest, TypeOK, Request, Image
<1>5. TypeOK'
  BY <1>1, <1>2, <1>4 DEF TypeOK
<1>6. Grows
  BY <1>2, UnchangedGrows
<1>7. RequestSound(r)'
  BY <1>2, <1>3 DEF RequestSound, Exists
<1>8. Sound'
  BY <1>1, <1>2, <1>3, <1>6, <1>7, SoundStep
<1>9. NoDanglingBuild'
  BY <1>1, <1>2, <1>5, <1>6, BuildKept DEF TypeOK
<1>10. QED
  BY <1>5, <1>8, <1>9 DEF IInv

\* A request that only moves to another stage keeps what it carries.
LEMMA Staged ==
  ASSUME NEW q \in Request, NEW t \in {"new", "checked", "written", "done"}
  PROVE  LET u == [q EXCEPT !.stage = t]
         IN  /\ u \in Request
             /\ u.stage = t /\ u.op = q.op /\ u.dep = q.dep /\ u.status = q.status
             /\ u.commit = q.commit /\ u.imageUrl = q.imageUrl /\ u.digest = q.digest
BY DEF Request

\* A row of which only the status is written keeps the rest.
LEMMA Statused ==
  ASSUME NEW row \in Deployment, NEW s \in DeploymentStatuses
  PROVE  LET new == [row EXCEPT !.status = s]
         IN  /\ new \in Deployment
             /\ new.status = s /\ new.commit = row.commit
             /\ new.imageUrl = row.imageUrl /\ new.digest = row.digest
BY DEF Deployment

\* Writing a checked status keeps the invariant, however stale the check: it is
\* never BUILDING and leaves commit, image and digest alone.
LEMMA UpdateIInv ==
  ASSUME IInv, NEW r \in Requests, updateDeployment(r)
  PROVE  IInv'
<1>0. PICK d, s : d = requests[r].dep /\ s = requests[r].status
  OBVIOUS
<1>1. TypeOK /\ Sound /\ NoDanglingBuild
  BY DEF IInv
<1>2. UNCHANGED <<board, hands, serviceImage, registry, jobOf, ctx, faults>>
  BY DEF updateDeployment, boardVars
<1>3. /\ d \in Deployments /\ Exists(d) /\ s \in DeploymentStatuses \ {"BUILDING"}
      /\ requests[r].op \in {"report", "cancel"}
      /\ requests[r].stage = "checked"
  BY <1>0, <1>1 DEF updateDeployment, Sound, RequestSound, TypeOK, Request
<1>4. /\ deployments'[d] = [deployments[d] EXCEPT !.status = s]
      /\ \A e \in Deployments \ {d} : deployments'[e] = deployments[e]
      /\ \A t \in Requests \ {r} : requests'[t] = requests[t]
      /\ \/ requests'[r] = [requests[r] EXCEPT !.stage = "written"]
         \/ requests'[r] = [requests[r] EXCEPT !.stage = "done"]
  BY <1>0, <1>1, <1>3 DEF updateDeployment, TypeOK
<1>5. deployments' \in [Deployments -> Deployment]
  <2>1. [deployments[d] EXCEPT !.status = s] \in Deployment
    BY <1>1, <1>3, Statused DEF TypeOK
  <2>2. deployments' = [deployments EXCEPT ![d] = [deployments[d] EXCEPT !.status = s]]
    BY <1>0 DEF updateDeployment
  <2>3. QED
    BY <1>1, <1>3, <2>1, <2>2 DEF TypeOK
<1>6. requests' \in [Requests -> Request]
  <2>1. /\ [requests[r] EXCEPT !.stage = "written"] \in Request
        /\ [requests[r] EXCEPT !.stage = "done"] \in Request
    BY <1>1, Staged DEF TypeOK
  <2>2. \/ requests' = [requests EXCEPT ![r] = [requests[r] EXCEPT !.stage = "written"]]
        \/ requests' = [requests EXCEPT ![r] = [requests[r] EXCEPT !.stage = "done"]]
    BY DEF updateDeployment
  <2>3. QED
    BY <1>1, <2>1, <2>2 DEF TypeOK
<1>7. TypeOK'
  BY <1>1, <1>2, <1>5, <1>6 DEF TypeOK
<1>8. /\ deployments'[d].status = s
      /\ deployments'[d].commit = deployments[d].commit
      /\ deployments'[d].imageUrl = deployments[d].imageUrl
      /\ deployments'[d].digest = deployments[d].digest
      /\ requests'[r].status = s /\ requests'[r].dep = d
      /\ requests'[r].op = requests[r].op
  <2>1. /\ deployments'[d].status = s
        /\ deployments'[d].commit = deployments[d].commit
        /\ deployments'[d].imageUrl = deployments[d].imageUrl
        /\ deployments'[d].digest = deployments[d].digest
    BY <1>1, <1>3, <1>4, Statused DEF TypeOK
  <2>2. /\ requests'[r].status = requests[r].status
        /\ requests'[r].dep = requests[r].dep
        /\ requests'[r].op = requests[r].op
    <3>1. requests[r] \in Request
      BY <1>1 DEF TypeOK
    <3>2. CASE requests'[r] = [requests[r] EXCEPT !.stage = "written"]
      BY <3>1, <3>2, Staged
    <3>3. CASE requests'[r] = [requests[r] EXCEPT !.stage = "done"]
      BY <3>1, <3>3, Staged
    <3>4. QED
      BY <1>4, <3>2, <3>3
  <2>3. QED
    BY <1>0, <2>1, <2>2
<1>9. Exists(d)'
  BY <1>3, <1>8 DEF Exists, DeploymentStatuses
<1>10. Grows
  <2>1. \A e \in Deployments : Exists(e) =>
            /\ Exists(e)'
            /\ deployments'[e].commit = deployments[e].commit
            /\ deployments[e].imageUrl # None => deployments'[e].imageUrl # None
    <3> SUFFICES ASSUME NEW e \in Deployments, Exists(e)
                 PROVE  /\ Exists(e)'
                        /\ deployments'[e].commit = deployments[e].commit
                        /\ deployments[e].imageUrl # None => deployments'[e].imageUrl # None
      OBVIOUS
    <3>1. CASE e = d
      BY <3>1, <1>8, <1>9
    <3>2. CASE e # d
      BY <3>2, <1>4 DEF Exists
    <3>3. QED
      BY <3>1, <3>2
  <2>2. QED
    BY <1>2, <2>1 DEF Grows
<1>11. DeploymentSound(d)'
  BY <1>1, <1>2, <1>3, <1>8, <1>9 DEF Sound, DeploymentSound, IsPushed
<1>12. RequestSound(r)'
  BY <1>3, <1>8, <1>9 DEF RequestSound
<1>13. Sound'
  BY <1>1, <1>2, <1>4, <1>10, <1>11, <1>12, SoundStep
<1>14. \A e \in Deployments :
          deployments'[e].status = "BUILDING" => deployments[e].status = "BUILDING"
  BY <1>3, <1>4, <1>8
<1>15. NoDanglingBuild'
  BY <1>1, <1>2, <1>7, <1>10, <1>14, BuildKept DEF TypeOK
<1>16. QED
  BY <1>7, <1>13, <1>15 DEF IInv

\* Enqueueing the job of a cancellation or of a rollback keeps the invariant:
\* the request still names an existing deployment and a pushed image or none.
LEMMA EnqueueIInv ==
  ASSUME IInv, NEW r \in Requests, NEW j \in Jobs,
         enqueueCancel(r, j) \/ enqueueRollback(r, j)
  PROVE  IInv'
<1>1. TypeOK /\ Sound /\ NoDanglingBuild
  BY DEF IInv
<1>2. UNCHANGED <<deployments, serviceImage, registry, ctx, faults>>
  BY DEF enqueueCancel, enqueueRollback
<1>3. /\ requests[r].stage = "written"
      /\ requests' = [requests EXCEPT ![r].stage = "done"]
  BY DEF enqueueCancel, enqueueRollback
<1>4. requests[r].dep \in Deployments /\ Exists(requests[r].dep)
  BY <1>1, <1>3 DEF Sound, RequestSound, TypeOK, Request
<1>5. PICK p \in Payload :
          /\ Enqueue(j, p)
          /\ p.dep = requests[r].dep
          /\ p.imageUrl = None \/ (requests[r].op = "rollback" /\ p.imageUrl = requests[r].imageUrl)
  <2>1. CASE enqueueCancel(r, j)
    <3>1. [type |-> "cancel", dep |-> requests[r].dep, imageUrl |-> None] \in Payload
      BY <1>4 DEF Payload, Image
    <3>2. QED
      BY <2>1, <3>1 DEF enqueueCancel
  <2>2. CASE enqueueRollback(r, j)
    <3>1. [type |-> "rollback", dep |-> requests[r].dep,
           imageUrl |-> requests[r].imageUrl] \in Payload
      BY <1>1, <1>4 DEF Payload, TypeOK, Request
    <3>2. QED
      BY <2>2, <3>1 DEF enqueueRollback
  <2>3. QED
    BY <2>1, <2>2
<1>6. /\ board' \in [Jobs -> [status : {"absent", "queued", "running", "succeeded", "failed"},
                              attempts : 0..MaxAttempts]]
      /\ jobOf' \in [Jobs -> Payload]
      /\ hands' = hands
      /\ \A i \in Jobs \ {j} : board'[i] = board[i] /\ jobOf'[i] = jobOf[i]
      /\ board[j].status = "absent"
      /\ board'[j] = [status |-> "queued", attempts |-> 0]
      /\ jobOf'[j] = p
  BY <1>1, <1>5, Enqueued
<1>7. /\ requests' \in [Requests -> Request]
      /\ \A t \in Requests \ {r} : requests'[t] = requests[t]
      /\ requests'[r] = [requests[r] EXCEPT !.stage = "done"]
  <2>1. [requests[r] EXCEPT !.stage = "done"] \in Request
    BY <1>1, Staged DEF TypeOK
  <2>2. requests' = [requests EXCEPT ![r] = [requests[r] EXCEPT !.stage = "done"]]
    BY <1>3
  <2>3. QED
    BY <1>1, <2>1, <2>2 DEF TypeOK
<1>8. TypeOK'
  BY <1>1, <1>2, <1>6, <1>7 DEF TypeOK
<1>9. Grows
  BY <1>2, <1>6 DEF Grows, Exists
<1>10. IsPushed(p.imageUrl)
  BY <1>1, <1>5 DEF Sound, RequestSound, IsPushed
<1>11. JobSound(j)'
  BY <1>2, <1>4, <1>5, <1>6, <1>10 DEF JobSound, Exists, IsPushed
<1>12. RequestSound(r)'
  BY <1>1, <1>2, <1>7, Staged, SMTT(30) DEF Sound, RequestSound, IsPushed, TypeOK
<1>13. Sound'
  BY <1>1, <1>2, <1>6, <1>7, <1>9, <1>11, <1>12, SoundStep
<1>14. NoDanglingBuild'
  BY <1>1, <1>2, <1>6, <1>8, <1>9, BuildKept DEF TypeOK
<1>15. QED
  BY <1>8, <1>13, <1>14 DEF IInv

\* Choosing the image of a rollback keeps the invariant: a row with an image
\* exists, so its commit, digest and image belong together.
LEMMA RollbackIInv ==
  ASSUME IInv, NEW r \in Requests, NEW d \in Deployments, NEW previous \in Deployments,
         rollbackDeployment(r, d, previous)
  PROVE  IInv'
<1> DEFINE q == [op |-> "rollback", stage |-> "checked", dep |-> d, status |-> "IMAGE_READY",
                 commit |-> deployments[previous].commit,
                 imageUrl |-> deployments[previous].imageUrl,
                 digest |-> deployments[previous].digest]
<1>1. TypeOK /\ Sound /\ NoDanglingBuild
  BY DEF IInv
<1>2. UNCHANGED <<board, hands, deployments, serviceImage, registry, jobOf, ctx, faults>>
  BY DEF rollbackDeployment, boardVars
<1>3. /\ Exists(d) /\ deployments[previous].imageUrl # None
      /\ \A t \in Requests \ {r} : requests'[t] = requests[t]
      /\ requests'[r] = q
  BY <1>1 DEF rollbackDeployment, TypeOK
<1>4. Exists(previous)
  <2>1. DeploymentSound(previous)
    BY <1>1 DEF Sound
  <2>2. ~Exists(previous) => deployments[previous].imageUrl = None
    BY <2>1 DEF DeploymentSound, NoDeployment
  <2>3. QED
    BY <1>3, <2>2
<1>5. q \in Request
  BY <1>1 DEF Request, TypeOK, Deployment, DeploymentStatuses
<1>6. requests' \in [Requests -> Request]
  BY <1>1, <1>5 DEF rollbackDeployment, TypeOK
<1>7. TypeOK'
  BY <1>1, <1>2, <1>6 DEF TypeOK
<1>8. Grows
  BY <1>2, UnchangedGrows
<1>9. DeploymentSound(previous)
  BY <1>1 DEF Sound
<1>10. RequestSound(r)'
  BY <1>2, <1>3, <1>4, <1>9 DEF RequestSound, DeploymentSound, Exists, IsPushed
<1>11. Sound'
  BY <1>1, <1>2, <1>3, <1>8, <1>10, SoundStep
<1>12. NoDanglingBuild'
  BY <1>1, <1>2, <1>7, <1>8, BuildKept DEF TypeOK
<1>13. QED
  BY <1>7, <1>11, <1>12 DEF IInv

\* Creating the rollback deployment keeps the invariant.
LEMMA CreateRollbackIInv ==
  ASSUME IInv, NEW r \in Requests, NEW d \in Deployments, createRollback(r, d)
  PROVE  IInv'
<1> DEFINE q == requests[r]
           row == [status |-> q.status, commit |-> q.commit, imageUrl |-> q.imageUrl,
                   digest |-> q.digest]
<1>1. TypeOK /\ Sound /\ NoDanglingBuild
  BY DEF IInv
<1>2. UNCHANGED <<board, hands, serviceImage, registry, jobOf, ctx, faults>>
  BY DEF createRollback, boardVars
<1>3. /\ q.op = "rollback" /\ ~Exists(d)
      /\ deployments'[d] = row
      /\ \A e \in Deployments \ {d} : deployments'[e] = deployments[e]
      /\ \A t \in Requests \ {r} : requests'[t] = requests[t]
      /\ requests'[r] = [q EXCEPT !.stage = "written", !.dep = d]
  BY <1>1 DEF createRollback, TypeOK, Fresh
<1>4. q \in Request /\ RequestSound(r)
  BY <1>1 DEF TypeOK, Sound
<1>5. row \in Deployment /\ row.status \notin {"absent", "BUILDING"}
  BY <1>4 DEF Deployment, Request, RequestSound, DeploymentStatuses
<1>6. [q EXCEPT !.stage = "written", !.dep = d] \in Request
  BY <1>4 DEF Request
<1>7. deployments' \in [Deployments -> Deployment] /\ requests' \in [Requests -> Request]
  BY <1>1, <1>5, <1>6 DEF createRollback, TypeOK
<1>8. TypeOK'
  BY <1>1, <1>2, <1>7 DEF TypeOK
<1>9. /\ requests'[r].status = q.status /\ requests'[r].op = q.op /\ requests'[r].dep = d
      /\ requests'[r].commit = q.commit /\ requests'[r].digest = q.digest
      /\ requests'[r].imageUrl = q.imageUrl
  BY <1>3, <1>4 DEF Request
<1>10. Exists(d)'
  BY <1>3, <1>5 DEF Exists
<1>11. Grows
  BY <1>2, <1>3 DEF Grows, Exists
<1>12. DeploymentSound(d)'
  BY <1>2, <1>3, <1>4, <1>10 DEF DeploymentSound, RequestSound, IsPushed
<1>13. RequestSound(r)'
  BY <1>2, <1>4, <1>9, <1>10 DEF RequestSound, IsPushed
<1>14. Sound'
  BY <1>1, <1>2, <1>3, <1>11, <1>12, <1>13, SoundStep
<1>15. \A e \in Deployments :
          deployments'[e].status = "BUILDING" => deployments[e].status = "BUILDING"
  BY <1>3, <1>5
<1>16. NoDanglingBuild'
  BY <1>1, <1>2, <1>8, <1>11, <1>15, BuildKept DEF TypeOK
<1>17. QED
  BY <1>8, <1>14, <1>16 DEF IInv

\* A request that dies between two awaits keeps the invariant.
LEMMA AbortIInv ==
  ASSUME IInv, NEW r \in Requests, abortRequest(r)
  PROVE  IInv'
<1>1. TypeOK /\ Sound /\ NoDanglingBuild
  BY DEF IInv
<1>2. UNCHANGED <<board, hands, deployments, serviceImage, registry, jobOf, ctx>>
  BY DEF abortRequest, boardVars
<1>3. /\ requests' \in [Requests -> Request]
      /\ faults' \in 0..MaxFaults /\ faults' >= faults
      /\ \A t \in Requests \ {r} : requests'[t] = requests[t]
      /\ requests'[r] = [requests[r] EXCEPT !.stage = "done"]
  <2>1. [requests[r] EXCEPT !.stage = "done"] \in Request
    BY <1>1, Staged DEF TypeOK
  <2>2. requests' = [requests EXCEPT ![r] = [requests[r] EXCEPT !.stage = "done"]]
    BY DEF abortRequest
  <2>3. faults' \in 0..MaxFaults /\ faults' >= faults
    BY <1>1 DEF abortRequest, Fault, TypeOK
  <2>4. QED
    BY <1>1, <2>1, <2>2, <2>3 DEF TypeOK
<1>4. TypeOK'
  BY <1>1, <1>2, <1>3 DEF TypeOK
<1>5. Grows
  BY <1>2, UnchangedGrows
<1>6. RequestSound(r)'
  BY <1>1, <1>2, <1>3, Staged DEF Sound, RequestSound, IsPushed, TypeOK
<1>7. Sound'
  BY <1>1, <1>2, <1>3, <1>5, <1>6, SoundStep
<1>8. NoDanglingBuild'
  BY <1>1, <1>2, <1>3, <1>4, <1>5, BuildKept
<1>9. QED
  BY <1>4, <1>7, <1>8 DEF IInv

--------------------------------------------------------------------------------
(***************************************************************************)
(* The builder                                                             *)
(***************************************************************************)

BoardTyped ==
    /\ board \in [Jobs -> [status : {"absent", "queued", "running", "succeeded", "failed"},
                           attempts : 0..MaxAttempts]]
    /\ hands \in [Workers -> [pc : {"idle", "working", "failing"},
                              job : Jobs \cup {None}, attempt : 0..MaxAttempts]]

\* A claim hands an existing job with an attempt left to an idle builder.
LEMMA Claimed ==
  ASSUME TypeOK, Sound, NEW w \in Workers, NEW j \in Jobs, Claim(w, j)
  PROVE  /\ BoardTyped'
         /\ hands[w].pc = "idle"
         /\ board[j].status # "absent"
         /\ \A i \in Jobs \ {j} : board'[i] = board[i]
         /\ board'[j].status = "running"
         /\ \A v \in Workers \ {w} : hands'[v] = hands[v]
         /\ hands'[w].pc = "working" /\ hands'[w].job = j
<1>1. board[j].attempts < MaxAttempts /\ board[j].status # "absent" /\ board[j].attempts \in Nat
  BY DEF Claim, Available, Sound, JobSound, TypeOK
<1>2. board[j].attempts + 1 \in 0..MaxAttempts
  BY <1>1
<1>3. BoardTyped'
  BY <1>2 DEF Claim, TypeOK, BoardTyped
<1>4. QED
  BY <1>1, <1>3 DEF Claim, TypeOK

\* A builder that is not idle holds an existing job.
LEMMA Holding ==
  ASSUME TypeOK, Sound, NEW w \in Workers, hands[w].pc # "idle"
  PROVE  hands[w].job \in Jobs /\ board[hands[w].job].status # "absent"
BY DEF Sound, WorkerSound, TypeOK

\* Whatever ends a builder's work touches its own hands and its own job, whose
\* attempts stay; a job queued again has an attempt left.
LEMMA LetGo ==
  ASSUME TypeOK, Sound, NEW w \in Workers, NEW j, j = hands[w].job,
         Falter(w) \/ Complete(w) \/ CompleteUnseen(w) \/ Fail(w) \/ Drop(w)
  PROVE  /\ BoardTyped'
         /\ j \in Jobs /\ board[j].status # "absent"
         /\ \A i \in Jobs \ {j} : board'[i] = board[i]
         /\ board'[j].attempts = board[j].attempts
         /\ board'[j].status \in {"queued", "running", "succeeded", "failed"}
         /\ board'[j].status = "queued" => board[j].attempts < MaxAttempts
         /\ board'[j].status = "succeeded" =>
               board[j].status = "succeeded" \/ ~(Falter(w) \/ Fail(w) \/ Drop(w))
         /\ \A v \in Workers \ {w} : hands'[v] = hands[v]
         /\ hands'[w].pc # "working"
         /\ hands'[w].pc # "idle" => hands'[w].job = j
<1>1. hands[w].pc # "idle"
  BY DEF Falter, Complete, CompleteUnseen, Fail, Drop
<1>2. j \in Jobs /\ board[j].status # "absent"
  BY <1>1, Holding
<1>3. JobSound(j)
  BY <1>2 DEF Sound
<1>4. \A v \in Workers \ {w} : hands'[v] = hands[v]
  BY DEF Falter, Complete, CompleteUnseen, Fail, Drop, TypeOK
<1>5. /\ hands'[w].pc # "working"
      /\ hands'[w].pc # "idle" => hands'[w].job = j
  BY DEF Falter, Complete, CompleteUnseen, Fail, Drop, TypeOK, Free
<1>6. hands' \in [Workers -> [pc : {"idle", "working", "failing"},
                              job : Jobs \cup {None}, attempt : 0..MaxAttempts]]
  BY SMTT(30) DEF Falter, Complete, CompleteUnseen, Fail, Drop, TypeOK, Free
<1>7. PICK t \in {"queued", "running", "succeeded", "failed"} :
          /\ board' = [board EXCEPT ![j].status = t]
          /\ t = "queued" => board[j].attempts < MaxAttempts
          /\ t = "succeeded" => board[j].status = "succeeded" \/ ~(Falter(w) \/ Fail(w) \/ Drop(w))
  <2>1. CASE board' = board
    <3>1. board' = [board EXCEPT ![j].status = board[j].status]
      BY <1>2, <2>1 DEF TypeOK
    <3>2. board[j].status \in {"queued", "running", "succeeded", "failed"}
      BY <1>2 DEF TypeOK
    <3>3. QED
      BY <1>3, <3>1, <3>2 DEF JobSound
  <2>2. CASE (Complete(w) \/ CompleteUnseen(w)) /\ ~(Falter(w) \/ Fail(w) \/ Drop(w))
    BY <2>2 DEF Complete, CompleteUnseen
  <2>3. CASE Fail(w)
    BY <2>3 DEF Fail
  <2>4. QED
    BY <2>1, <2>2, <2>3 DEF Falter, Drop
<1>8. /\ \A i \in Jobs \ {j} : board'[i] = board[i]
      /\ board'[j].attempts = board[j].attempts
      /\ board'[j].status = t
  BY <1>2, <1>7 DEF TypeOK
<1>9. board' \in [Jobs -> [status : {"absent", "queued", "running", "succeeded", "failed"},
                           attempts : 0..MaxAttempts]]
  BY <1>2, <1>7 DEF TypeOK
<1>10. BoardTyped'
  BY <1>6, <1>9 DEF BoardTyped
<1>11. QED
  BY <1>2, <1>4, <1>5, <1>7, <1>8, <1>10

\* A builder that has resolved its job works on an existing deployment, and
\* with an image name.
LEMMA AtTarget ==
  ASSUME TypeOK, Sound, NEW w \in Workers, NEW phase \in Resolved, In(w, phase)
  PROVE  /\ hands[w].job \in Jobs
         /\ Target(w) \in Deployments
         /\ Exists(Target(w))
         /\ deployments[Target(w)].commit \in Commits
         /\ ctx[w].image \in Commits
         /\ ctx[w].digest \in {None, deployments[Target(w)].commit}
<1>1. hands[w].job \in Jobs
  BY Holding DEF In
<1>2. WorkerSound(w)
  BY DEF Sound
<1>3. Target(w) # None /\ ctx[w].image # None
      /\ ctx[w].digest \in {None, deployments[Target(w)].commit}
  BY <1>2 DEF In, WorkerSound
<1>4. Target(w) \in Deployments /\ Exists(Target(w))
  BY <1>1, <1>3 DEF Sound, JobSound, Target, TypeOK, Payload
<1>5. ctx[w].image \in Commits
  BY <1>3 DEF TypeOK, Context, Image
<1>6. QED
  BY <1>1, <1>3, <1>4, <1>5 DEF Sound, DeploymentSound

\* The context of a builder that has left its work, or that moves to another
\* phase, is a context.
LEMMA ContextTyped ==
  ASSUME TypeOK, NEW w \in Workers,
         NEW phase \in {"none", "resolve", "mark", "build", "record", "service", "complete"},
         Leave(w) \/ Enter(w, phase)
  PROVE  /\ ctx' \in [Workers -> Context]
         /\ \A v \in Workers \ {w} : ctx'[v] = ctx[v]
         /\ Enter(w, phase) => /\ ctx'[w].phase = phase
                               /\ ctx'[w].image = ctx[w].image
                               /\ ctx'[w].digest = ctx[w].digest
<1>1. NoContext \in Context
  BY DEF NoContext, Context, Image
<1>2. [ctx[w] EXCEPT !.phase = phase] \in Context
  BY DEF TypeOK, Context
<1>3. Leave(w) => ctx' = [ctx EXCEPT ![w] = NoContext]
  BY DEF Leave
<1>4. Enter(w, phase) => ctx' = [ctx EXCEPT ![w] = [ctx[w] EXCEPT !.phase = phase]]
  BY DEF Enter
<1>5. ctx' \in [Workers -> Context] /\ \A v \in Workers \ {w} : ctx'[v] = ctx[v]
  <2>1. ctx \in [Workers -> Context]
    BY DEF TypeOK
  <2>2. CASE Leave(w)
    BY <1>1, <1>3, <2>1, <2>2
  <2>3. CASE Enter(w, phase)
    BY <1>2, <1>4, <2>1, <2>3
  <2>4. QED
    BY <2>2, <2>3
<1>6. ASSUME Enter(w, phase)
      PROVE  /\ ctx'[w].phase = phase
             /\ ctx'[w].image = ctx[w].image
             /\ ctx'[w].digest = ctx[w].digest
  BY <1>6 DEF TypeOK, Context, Enter
<1>7. QED
  BY <1>5, <1>6

\* A claim keeps the invariant: nothing is asked of a builder yet to resolve.
LEMMA ClaimIInv ==
  ASSUME IInv, NEW w \in Workers, ClaimNextWorkflowJob(w)
  PROVE  IInv'
<1>1. TypeOK /\ Sound /\ NoDanglingBuild
  BY DEF IInv
<1>2. PICK j \in Jobs : Claim(w, j)
  BY DEF ClaimNextWorkflowJob
<1>3. /\ BoardTyped'
      /\ hands[w].pc = "idle"
      /\ board[j].status # "absent"
      /\ \A i \in Jobs \ {j} : board'[i] = board[i]
      /\ board'[j].status = "running"
      /\ \A v \in Workers \ {w} : hands'[v] = hands[v]
      /\ hands'[w].pc = "working" /\ hands'[w].job = j
  BY <1>1, <1>2, Claimed
<1>4. /\ ctx' \in [Workers -> Context]
      /\ \A v \in Workers \ {w} : ctx'[v] = ctx[v]
      /\ ctx'[w].phase = "resolve"
  BY <1>1, ContextTyped DEF ClaimNextWorkflowJob
<1>5. UNCHANGED <<deployments, serviceImage, registry, jobOf, requests, faults>>
  BY DEF ClaimNextWorkflowJob
<1>6. TypeOK'
  BY <1>1, <1>3, <1>4, <1>5 DEF TypeOK, BoardTyped
<1>7. Grows
  BY <1>3, <1>5 DEF Grows, Exists
<1>8. JobSound(j)'
  BY <1>1, <1>3, <1>5 DEF Sound, JobSound, Exists, IsPushed
<1>9. WorkerSound(w)'
  BY <1>3, <1>4 DEF WorkerSound, Resolved
<1>10. Sound'
  BY <1>1, <1>3, <1>4, <1>5, <1>7, <1>8, <1>9, SoundStep
<1>11. \A v \in Workers : In(v, "build") \/ In(v, "record") => v # w
  BY <1>3 DEF In
<1>12. NoDanglingBuild'
  BY <1>1, <1>3, <1>4, <1>5, <1>6, <1>7, <1>11, BuildKept DEF TypeOK
<1>13. QED
  BY <1>6, <1>10, <1>12 DEF IInv

\* Of the image names a builder may use one is always there: the last resort is
\* the tag of the deployment's commit.
LEMMA ResolvedImage ==
  ASSUME TypeOK, NEW job \in Payload, NEW deployment \in Deployment,
         deployment.commit \in Commits
  PROVE  resolveImage(job, deployment) \in Commits
<1>1. job.imageUrl \in Image /\ deployment.imageUrl \in Image /\ serviceImage \in Image
  BY DEF TypeOK, Payload, Deployment
<1>2. CASE job.imageUrl # None
  BY <1>1, <1>2 DEF resolveImage, Image
<1>3. CASE job.imageUrl = None /\ deployment.imageUrl # None
  BY <1>1, <1>3 DEF resolveImage, Image
<1>4. CASE job.imageUrl = None /\ deployment.imageUrl = None /\ serviceImage # None
  BY <1>1, <1>4 DEF resolveImage, Image
<1>5. CASE job.imageUrl = None /\ deployment.imageUrl = None /\ serviceImage = None
  BY <1>5 DEF resolveImage
<1>6. QED
  BY <1>2, <1>3, <1>4, <1>5

\* Resolving a job keeps the invariant: the digest in the snapshot is the
\* deployment's own.
LEMMA ResolveIInv ==
  ASSUME IInv, NEW w \in Workers, resolveState(w)
  PROVE  IInv'
<1>1. TypeOK /\ Sound /\ NoDanglingBuild
  BY DEF IInv
<1>2. In(w, "resolve") /\ jobOf[hands[w].job].dep # None
  BY DEF resolveState
<1>3. hands[w].job \in Jobs /\ board[hands[w].job].status # "absent"
  BY <1>1, <1>2, Holding DEF In
<1>4. PICK d \in Deployments : d = jobOf[hands[w].job].dep /\ Exists(d)
  BY <1>1, <1>2, <1>3 DEF TypeOK, Payload, Sound, JobSound
<1>5. DeploymentSound(d)
  BY <1>1 DEF Sound
<1>6. PICK image \in Commits : image = resolveImage(jobOf[hands[w].job], deployments[d])
  BY <1>1, <1>3, <1>4, <1>5, ResolvedImage DEF TypeOK, DeploymentSound
<1>7. UNCHANGED <<board, hands, deployments, serviceImage, registry, jobOf, requests, faults>>
  BY DEF resolveState, boardVars
<1>8. ctx' = [ctx EXCEPT ![w] = [phase |-> "mark", image |-> image,
                                 digest |-> deployments[d].digest]]
  BY <1>4, <1>6 DEF resolveState
<1>9. [phase |-> "mark", image |-> image, digest |-> deployments[d].digest] \in Context
  BY <1>1 DEF Context, Image, TypeOK, Deployment
<1>10. /\ ctx' \in [Workers -> Context]
       /\ \A v \in Workers \ {w} : ctx'[v] = ctx[v]
       /\ ctx'[w].phase = "mark" /\ ctx'[w].image = image
       /\ ctx'[w].digest = deployments[d].digest
  BY <1>1, <1>8, <1>9 DEF TypeOK
<1>11. TypeOK'
  BY <1>1, <1>7, <1>10 DEF TypeOK
<1>12. Grows
  BY <1>7, UnchangedGrows
<1>13. Target(w)' = d
  BY <1>4, <1>7 DEF Target
<1>14. WorkerSound(w)'
  BY <1>3, <1>4, <1>5, <1>7, <1>10, <1>13 DEF WorkerSound, DeploymentSound
<1>15. Sound'
  BY <1>1, <1>7, <1>10, <1>12, <1>14, SoundStep
<1>16. \A v \in Workers : In(v, "build") \/ In(v, "record") => v # w
  BY <1>2 DEF In
<1>17. NoDanglingBuild'
  BY <1>1, <1>7, <1>10, <1>11, <1>12, <1>16, BuildKept DEF TypeOK
<1>18. QED
  BY <1>11, <1>15, <1>17 DEF IInv

\* A job without a deployment is given up, and the invariant stays.
LEMMA ResolveFailsIInv ==
  ASSUME IInv, NEW w \in Workers, resolveStateFails(w)
  PROVE  IInv'
<1>1. TypeOK /\ Sound /\ NoDanglingBuild
  BY DEF IInv
<1>2. In(w, "resolve") /\ Falter(w) /\ Leave(w)
  BY DEF resolveStateFails
<1>3. UNCHANGED <<board, deployments, serviceImage, registry, jobOf, requests, faults>>
  BY <1>2 DEF resolveStateFails, Falter
<1>4. PICK j : j = hands[w].job
  OBVIOUS
<1>5. /\ BoardTyped' /\ j \in Jobs /\ board[j].status # "absent"
      /\ \A v \in Workers \ {w} : hands'[v] = hands[v]
      /\ hands'[w].pc # "working"
      /\ hands'[w].pc # "idle" => hands'[w].job = j
  BY <1>1, <1>2, <1>4, LetGo
<1>6. ctx' \in [Workers -> Context] /\ \A v \in Workers \ {w} : ctx'[v] = ctx[v]
  BY <1>1, <1>2, ContextTyped
<1>7. TypeOK'
  BY <1>1, <1>3, <1>5, <1>6 DEF TypeOK, BoardTyped
<1>8. Grows
  BY <1>3, UnchangedGrows
<1>9. WorkerSound(w)'
  BY <1>3, <1>5 DEF WorkerSound
<1>10. Sound'
  BY <1>1, <1>3, <1>5, <1>6, <1>8, <1>9, SoundStep
<1>11. \A v \in Workers : In(v, "build") \/ In(v, "record") => v # w
  BY <1>2 DEF In
<1>12. NoDanglingBuild'
  BY <1>1, <1>3, <1>5, <1>6, <1>7, <1>8, <1>11, BuildKept DEF TypeOK
<1>13. QED
  BY <1>7, <1>10, <1>12 DEF IInv

\* Writing a status other than "absent" over an existing row lets the rows grow
\* and leaves them sound; the other rows stay.
LEMMA StatusWritten ==
  ASSUME TypeOK, Sound, NEW d \in Deployments, Exists(d), NEW s \in DeploymentStatuses,
         deployments' = [deployments EXCEPT ![d].status = s]
  PROVE  /\ deployments' \in [Deployments -> Deployment]
         /\ \A e \in Deployments \ {d} : deployments'[e] = deployments[e]
         /\ deployments'[d].status = s
         /\ deployments'[d].commit = deployments[d].commit
         /\ deployments'[d].imageUrl = deployments[d].imageUrl
         /\ deployments'[d].digest = deployments[d].digest
         /\ Exists(d)'
<1>1. deployments[d] \in Deployment /\ deployments \in [Deployments -> Deployment]
  BY DEF TypeOK
<1>2. deployments' = [deployments EXCEPT ![d] = [deployments[d] EXCEPT !.status = s]]
  OBVIOUS
<1>3. /\ [deployments[d] EXCEPT !.status = s] \in Deployment
      /\ deployments'[d] = [deployments[d] EXCEPT !.status = s]
  BY <1>1, <1>2, Statused
<1>4. deployments' \in [Deployments -> Deployment]
  BY <1>1, <1>2, <1>3
<1>5. /\ deployments'[d].status = s
      /\ deployments'[d].commit = deployments[d].commit
      /\ deployments'[d].imageUrl = deployments[d].imageUrl
      /\ deployments'[d].digest = deployments[d].digest
  BY <1>1, <1>3, Statused
<1>6. s # "absent"
  BY DEF DeploymentStatuses
<1>7. QED
  BY <1>1, <1>2, <1>4, <1>5, <1>6 DEF Exists

\* Marking a deployment BUILDING keeps the invariant: the builder goes on to
\* build it.
LEMMA MarkIInv ==
  ASSUME IInv, NEW w \in Workers, markBuilding(w)
  PROVE  IInv'
<1>1. TypeOK /\ Sound /\ NoDanglingBuild
  BY DEF IInv
<1>2. In(w, "mark") /\ Enter(w, "build")
  BY DEF markBuilding
<1>3. UNCHANGED <<board, hands, serviceImage, registry, jobOf, requests, faults>>
  BY DEF markBuilding, boardVars
<1>4. PICK d \in Deployments : /\ d = Target(w) /\ Exists(d)
                               /\ ctx[w].image \in Commits
                               /\ ctx[w].digest \in {None, deployments[d].commit}
  BY <1>1, <1>2, AtTarget DEF Resolved
<1>5. /\ deployments' \in [Deployments -> Deployment]
      /\ \A e \in Deployments \ {d} : deployments'[e] = deployments[e]
      /\ deployments'[d].commit = deployments[d].commit
      /\ deployments'[d].imageUrl = deployments[d].imageUrl
      /\ deployments'[d].digest = deployments[d].digest
      /\ Exists(d)'
  <2>1. deployments' = [deployments EXCEPT ![d].status = "BUILDING"]
    BY <1>4 DEF markBuilding, Building
  <2>2. "BUILDING" \in DeploymentStatuses
    BY DEF DeploymentStatuses
  <2>3. QED
    BY <1>1, <1>4, <2>1, <2>2, StatusWritten
<1>6. /\ ctx' \in [Workers -> Context]
      /\ \A v \in Workers \ {w} : ctx'[v] = ctx[v]
      /\ ctx'[w].phase = "build"
      /\ ctx'[w].image = ctx[w].image
      /\ ctx'[w].digest = ctx[w].digest
  BY <1>1, <1>2, ContextTyped
<1>7. TypeOK'
  BY <1>1, <1>3, <1>5, <1>6 DEF TypeOK
<1>8. Grows
  BY <1>3, <1>5 DEF Grows, Exists
<1>9. DeploymentSound(d)'
  BY <1>1, <1>3, <1>4, <1>5 DEF Sound, DeploymentSound, IsPushed
<1>10. hands'[w] = hands[w] /\ Target(w)' = d
  BY <1>3, <1>4 DEF Target
<1>11. hands[w].job \in Jobs /\ board[hands[w].job].status # "absent"
  BY <1>1, <1>2, Holding DEF In
<1>12. WorkerSound(w)'
  BY <1>3, <1>4, <1>5, <1>6, <1>10, <1>11 DEF WorkerSound
<1>13. Sound'
  BY <1>1, <1>3, <1>5, <1>6, <1>8, <1>9, <1>12, SoundStep
<1>14. (In(w, "build") \/ In(w, "record"))'
  BY <1>2, <1>3, <1>6 DEF In
<1>15. \A e \in Deployments : deployments'[e].status = "BUILDING" =>
          \/ deployments[e].status = "BUILDING"
          \/ \E v \in Workers : (In(v, "build") \/ In(v, "record"))' /\ Target(v)' = e
  BY <1>5, <1>10, <1>14
<1>16. \A v \in Workers : In(v, "build") \/ In(v, "record") =>
          (In(v, "build") \/ In(v, "record"))' /\ hands'[v].job = hands[v].job
  BY <1>2, <1>3, <1>6 DEF In
<1>17. faults' >= faults
  BY <1>1, <1>3 DEF TypeOK
<1>18. NoDanglingBuild'
  BY <1>1, <1>7, <1>8, <1>15, <1>16, <1>17, BuildStep
<1>19. QED
  BY <1>7, <1>13, <1>18 DEF IInv

\* A push lets the registry grow.
LEMMA PushGrows ==
  ASSUME TypeOK, Sound, NEW w \in Workers, In(w, "build"), registry' \in {registry, Pushed(w)}
  PROVE  /\ registry' \in [Commits -> Image]
         /\ \A c \in Commits : registry[c] # None => registry'[c] # None
         /\ registry' = Pushed(w) => registry'[ctx[w].image] # None
<1>1. /\ deployments[Target(w)].commit \in Commits
      /\ ctx[w].image \in Commits
  BY AtTarget DEF Resolved
<1>2. registry \in [Commits -> Image]
  BY DEF TypeOK
<1>3. QED
  BY <1>1, <1>2 DEF Pushed, Image

\* A finished build keeps the invariant: the image is pushed, and the digest is
\* that of the commit although another deployment may own the tag.
LEMMA ExecuteIInv ==
  ASSUME IInv, NEW w \in Workers, executeBuild(w)
  PROVE  IInv'
<1>1. TypeOK /\ Sound /\ NoDanglingBuild
  BY DEF IInv
<1>2. In(w, "build") /\ registry' = Pushed(w)
  BY DEF executeBuild
<1>3. UNCHANGED <<board, hands, deployments, serviceImage, jobOf, requests, faults>>
  BY DEF executeBuild, boardVars
<1>4. PICK d \in Deployments : /\ d = Target(w) /\ Exists(d)
                               /\ ctx[w].image \in Commits
                               /\ deployments[d].commit \in Commits
                               /\ ctx[w].digest \in {None, deployments[d].commit}
  BY <1>1, <1>2, AtTarget DEF Resolved
<1>5. /\ registry' \in [Commits -> Image]
      /\ \A c \in Commits : registry[c] # None => registry'[c] # None
      /\ registry'[ctx[w].image] # None
  BY <1>1, <1>2, PushGrows
<1>6. PICK digest : digest = resolveDigest(w) /\ digest = deployments[d].commit
  BY <1>4 DEF resolveDigest
<1>7. ctx' = [ctx EXCEPT ![w] = [ctx[w] EXCEPT !.phase = "record", !.digest = digest]]
  BY <1>6 DEF executeBuild
<1>8. [ctx[w] EXCEPT !.phase = "record", !.digest = digest] \in Context
  <2>1. ctx[w] \in Context /\ digest \in Image
    BY <1>1, <1>4, <1>6 DEF TypeOK, Image
  <2>2. QED
    BY <2>1 DEF Context
<1>9. /\ ctx' \in [Workers -> Context]
      /\ \A v \in Workers \ {w} : ctx'[v] = ctx[v]
      /\ ctx'[w] = [ctx[w] EXCEPT !.phase = "record", !.digest = digest]
  BY <1>1, <1>7, <1>8 DEF TypeOK
<1>10. /\ ctx'[w].phase = "record"
       /\ ctx'[w].image = ctx[w].image
       /\ ctx'[w].digest = digest
  BY <1>1, <1>9 DEF TypeOK, Context
<1>11. TypeOK'
  BY <1>1, <1>3, <1>5, <1>9 DEF TypeOK
<1>12. Grows
  BY <1>3, <1>5 DEF Grows, Exists
<1>13. hands[w].job \in Jobs /\ board[hands[w].job].status # "absent"
  BY <1>1, <1>2, Holding DEF In
<1>14. hands'[w] = hands[w] /\ Target(w)' = d
  BY <1>3, <1>4 DEF Target
<1>15. WorkerSound(w)'
  BY <1>3, <1>4, <1>5, <1>6, <1>10, <1>13, <1>14 DEF WorkerSound
<1>16. Sound'
  BY <1>1, <1>3, <1>9, <1>12, <1>15, SoundStep
<1>17. \A v \in Workers : In(v, "build") \/ In(v, "record") =>
          (In(v, "build") \/ In(v, "record"))' /\ hands'[v].job = hands[v].job
  BY <1>2, <1>3, <1>9, <1>10 DEF In
<1>18. faults' >= faults
  BY <1>1, <1>3 DEF TypeOK
<1>19. NoDanglingBuild'
  BY <1>1, <1>3, <1>11, <1>12, <1>17, <1>18, BuildStep
<1>20. QED
  BY <1>11, <1>16, <1>19 DEF IInv

\* After a fault a deployment may stay BUILDING.
LEMMA FaultExcuses ==
  ASSUME TypeOK, TypeOK', Fault
  PROVE  NoDanglingBuild'
<1>1. faults' > 0
  BY DEF Fault, TypeOK
<1>2. QED
  BY <1>1 DEF NoDanglingBuild

\* A failed build keeps the invariant: BUILDING is overwritten unless the store
\* failed too.
LEMMA BuildFailsIInv ==
  ASSUME IInv, NEW w \in Workers, buildFails(w)
  PROVE  IInv'
<1>1. TypeOK /\ Sound /\ NoDanglingBuild
  BY DEF IInv
<1>2. /\ In(w, "build") /\ Falter(w) /\ Leave(w)
      /\ registry' \in {registry, Pushed(w)}
  BY DEF buildFails
<1>3. UNCHANGED <<board, serviceImage, jobOf, requests>>
  BY <1>2 DEF buildFails, Falter
<1>4. PICK d \in Deployments : d = Target(w) /\ Exists(d)
  BY <1>1, <1>2, AtTarget DEF Resolved
<1>5. /\ registry' \in [Commits -> Image]
      /\ \A c \in Commits : registry[c] # None => registry'[c] # None
  BY <1>1, <1>2, PushGrows
<1>6. PICK j : j = hands[w].job
  OBVIOUS
<1>7. /\ BoardTyped' /\ j \in Jobs /\ board[j].status # "absent"
      /\ \A v \in Workers \ {w} : hands'[v] = hands[v]
      /\ hands'[w].pc # "working"
      /\ hands'[w].pc # "idle" => hands'[w].job = j
  BY <1>1, <1>2, <1>6, LetGo
<1>8. ctx' \in [Workers -> Context] /\ \A v \in Workers \ {w} : ctx'[v] = ctx[v]
  BY <1>1, <1>2, ContextTyped
<1>9. WorkerSound(w)'
  BY <1>3, <1>7 DEF WorkerSound
<1>10. CASE Fault /\ UNCHANGED deployments
  <2>1. TypeOK'
    BY <1>1, <1>3, <1>5, <1>7, <1>8, <1>10 DEF TypeOK, BoardTyped, Fault
  <2>2. Grows
    BY <1>3, <1>5, <1>10 DEF Grows, Exists
  <2>3. Sound'
    BY <1>1, <1>3, <1>7, <1>8, <1>9, <1>10, <2>2, SoundStep
  <2>4. QED
    BY <1>1, <1>10, <2>1, <2>3, FaultExcuses DEF IInv
<1>11. CASE UNCHANGED faults /\ deployments' = [deployments EXCEPT ![d].status = "BUILD_FAILED"]
  <2>1. deployments' = [deployments EXCEPT ![d].status = "BUILD_FAILED"]
    BY <1>11
  <2>2. /\ deployments' \in [Deployments -> Deployment]
        /\ \A e \in Deployments \ {d} : deployments'[e] = deployments[e]
        /\ deployments'[d].status = "BUILD_FAILED"
        /\ deployments'[d].commit = deployments[d].commit
        /\ deployments'[d].imageUrl = deployments[d].imageUrl
        /\ deployments'[d].digest = deployments[d].digest
        /\ Exists(d)'
    <3>1. "BUILD_FAILED" \in DeploymentStatuses
      BY DEF DeploymentStatuses
    <3>2. TypeOK /\ Sound /\ Exists(d)
      BY <1>1, <1>4
    <3>3. QED
      BY <2>1, <3>1, <3>2, StatusWritten
  <2>3. TypeOK'
    BY <1>1, <1>3, <1>5, <1>7, <1>8, <1>11, <2>2 DEF TypeOK, BoardTyped
  <2>4. Grows
    BY <1>3, <1>5, <2>2 DEF Grows, Exists
  <2>5. DeploymentSound(d)'
    <3>1. DeploymentSound(d)
      BY <1>1 DEF Sound
    <3>2. deployments[d].imageUrl \in Image
      BY <1>1 DEF TypeOK, Deployment
    <3>3. QED
      BY <1>4, <1>5, <2>2, <3>1, <3>2 DEF DeploymentSound, IsPushed, Image
  <2>6. Sound'
    BY <1>1, <1>3, <1>7, <1>8, <1>9, <2>2, <2>4, <2>5, SoundStep
  <2>7. \A e \in Deployments :
            deployments'[e].status = "BUILDING" => deployments[e].status = "BUILDING"
    BY <2>2
  <2>8. \A v \in Workers : In(v, "build") \/ In(v, "record") =>
            \/ (In(v, "build") \/ In(v, "record"))' /\ hands'[v].job = hands[v].job
            \/ deployments'[Target(v)].status # "BUILDING"
    <3> SUFFICES ASSUME NEW v \in Workers, In(v, "build") \/ In(v, "record"), v # w
                 PROVE  (In(v, "build") \/ In(v, "record"))' /\ hands'[v].job = hands[v].job
      BY <1>4, <2>2
    <3> QED
      BY <1>7, <1>8 DEF In
  <2>9. faults' >= faults
    BY <1>1, <1>11 DEF TypeOK
  <2>10. NoDanglingBuild'
    BY <1>1, <2>3, <2>4, <2>7, <2>8, <2>9, BuildStep
  <2>11. QED
    BY <2>3, <2>6, <2>10 DEF IInv
<1>12. QED
  BY <1>4, <1>10, <1>11 DEF buildFails

\* The row recordImage writes announces a pushed image with the commit's digest.
LEMMA RecordedRow ==
  ASSUME TypeOK, Sound, NEW w \in Workers, In(w, "record"), NEW d, d = Target(w),
         deployments' = Recorded(w), registry' = registry
  PROVE  /\ d \in Deployments
         /\ deployments' \in [Deployments -> Deployment]
         /\ \A e \in Deployments \ {d} : deployments'[e] = deployments[e]
         /\ deployments'[d].status = "IMAGE_READY"
         /\ deployments'[d].commit = deployments[d].commit
         /\ deployments'[d].imageUrl # None
         /\ Exists(d)'
         /\ DeploymentSound(d)'
<1>1. /\ d \in Deployments
      /\ ctx[w].image \in Commits
      /\ deployments[d].commit \in Commits
      /\ ctx[w].digest \in {None, deployments[d].commit}
  BY AtTarget DEF Resolved
<1>2. registry[ctx[w].image] # None
  BY DEF Sound, WorkerSound, In, Resolved
<1>3. deployments[d] \in Deployment /\ deployments \in [Deployments -> Deployment]
  BY <1>1 DEF TypeOK
<1>4. PICK row : row = [deployments[d] EXCEPT !.status = "IMAGE_READY",
                                              !.imageUrl = ctx[w].image,
                                              !.digest = ctx[w].digest]
  OBVIOUS
<1>5. /\ row \in Deployment
      /\ row.status = "IMAGE_READY" /\ row.commit = deployments[d].commit
      /\ row.imageUrl = ctx[w].image /\ row.digest = ctx[w].digest
  BY <1>1, <1>3, <1>4 DEF Deployment, DeploymentStatuses, Image
<1>6. deployments' = [deployments EXCEPT ![d] = row]
  BY <1>4 DEF Recorded
<1>7. /\ deployments' \in [Deployments -> Deployment]
      /\ \A e \in Deployments \ {d} : deployments'[e] = deployments[e]
      /\ deployments'[d] = row
  BY <1>1, <1>3, <1>5, <1>6
<1>8. Exists(d)'
  BY <1>5, <1>7 DEF Exists
<1>9. DeploymentSound(d)'
  BY <1>1, <1>2, <1>5, <1>7, <1>8 DEF DeploymentSound, IsPushed
<1>10. QED
  BY <1>1, <1>5, <1>7, <1>8, <1>9

\* Recording the image keeps the invariant.
LEMMA RecordIInv ==
  ASSUME IInv, NEW w \in Workers, recordImage(w)
  PROVE  IInv'
<1>1. TypeOK /\ Sound /\ NoDanglingBuild
  BY DEF IInv
<1>2. In(w, "record") /\ Enter(w, "service") /\ deployments' = Recorded(w)
  BY DEF recordImage
<1>3. UNCHANGED <<board, hands, serviceImage, registry, jobOf, requests, faults>>
  BY DEF recordImage, boardVars
<1>4. PICK d \in Deployments : /\ d = Target(w)
                               /\ ctx[w].image \in Commits
                               /\ ctx[w].digest \in {None, deployments[d].commit}
  BY <1>1, <1>2, AtTarget DEF Resolved
<1>5. /\ deployments' \in [Deployments -> Deployment]
      /\ \A e \in Deployments \ {d} : deployments'[e] = deployments[e]
      /\ deployments'[d].status = "IMAGE_READY"
      /\ deployments'[d].commit = deployments[d].commit
      /\ deployments'[d].imageUrl # None
      /\ Exists(d)'
      /\ DeploymentSound(d)'
  BY <1>1, <1>2, <1>3, <1>4, RecordedRow
<1>6. /\ ctx' \in [Workers -> Context]
      /\ \A v \in Workers \ {w} : ctx'[v] = ctx[v]
      /\ ctx'[w].phase = "service"
      /\ ctx'[w].image = ctx[w].image
      /\ ctx'[w].digest = ctx[w].digest
  BY <1>1, <1>2, ContextTyped
<1>7. TypeOK'
  BY <1>1, <1>3, <1>5, <1>6 DEF TypeOK
<1>8. Grows
  BY <1>3, <1>5 DEF Grows, Exists
<1>9. hands[w].job \in Jobs /\ board[hands[w].job].status # "absent"
  BY <1>1, <1>2, Holding DEF In
<1>10. hands'[w] = hands[w] /\ Target(w)' = d
  BY <1>3, <1>4 DEF Target
<1>11. registry[ctx[w].image] # None
  BY <1>1, <1>2 DEF Sound, WorkerSound, In, Resolved
<1>12. WorkerSound(w)'
  BY <1>3, <1>4, <1>5, <1>6, <1>9, <1>10, <1>11 DEF WorkerSound
<1>13. Sound'
  BY <1>1, <1>3, <1>5, <1>6, <1>8, <1>12, SoundStep
<1>14. \A e \in Deployments :
          deployments'[e].status = "BUILDING" => deployments[e].status = "BUILDING"
  BY <1>5
<1>15. \A v \in Workers : In(v, "build") \/ In(v, "record") =>
          \/ (In(v, "build") \/ In(v, "record"))' /\ hands'[v].job = hands[v].job
          \/ deployments'[Target(v)].status # "BUILDING"
  <2> SUFFICES ASSUME NEW v \in Workers, In(v, "build") \/ In(v, "record"), v # w
               PROVE  (In(v, "build") \/ In(v, "record"))' /\ hands'[v].job = hands[v].job
    BY <1>4, <1>5
  <2> QED
    BY <1>3, <1>6 DEF In
<1>16. faults' >= faults
  BY <1>1, <1>3 DEF TypeOK
<1>17. NoDanglingBuild'
  BY <1>1, <1>7, <1>8, <1>14, <1>15, <1>16, BuildStep
<1>18. QED
  BY <1>7, <1>13, <1>17 DEF IInv

\* Telling the service of the image keeps the invariant.
LEMMA ServiceIInv ==
  ASSUME IInv, NEW w \in Workers, updateService(w)
  PROVE  IInv'
<1>1. TypeOK /\ Sound /\ NoDanglingBuild
  BY DEF IInv
<1>2. In(w, "service") /\ Enter(w, "complete")
  BY DEF updateService
<1>3. UNCHANGED <<board, hands, deployments, registry, jobOf, requests>>
  BY DEF updateService, boardVars
<1>4. ctx[w].image \in Commits
  BY <1>1, <1>2, AtTarget DEF Resolved
<1>5. /\ serviceImage' \in Image
      /\ faults' \in 0..MaxFaults /\ faults' >= faults
  BY <1>1, <1>4 DEF updateService, Fault, TypeOK, Image
<1>6. /\ ctx' \in [Workers -> Context]
      /\ \A v \in Workers \ {w} : ctx'[v] = ctx[v]
      /\ ctx'[w].phase = "complete"
      /\ ctx'[w].image = ctx[w].image
      /\ ctx'[w].digest = ctx[w].digest
  BY <1>1, <1>2, ContextTyped
<1>7. TypeOK'
  BY <1>1, <1>3, <1>5, <1>6 DEF TypeOK
<1>8. Grows
  BY <1>3, UnchangedGrows
<1>9. WorkerSound(w) /\ Target(w)' = Target(w)
  BY <1>1, <1>3 DEF Sound, Target
<1>10. WorkerSound(w)'
  BY <1>2, <1>3, <1>6, <1>9 DEF WorkerSound, In, Resolved
<1>11. Sound'
  <2>1. registry[ctx[w].image] # None
    BY <1>2, <1>9 DEF WorkerSound, In, Resolved
  <2>2. serviceImage' = serviceImage \/ IsPushed(serviceImage)'
    BY <1>3, <2>1 DEF updateService, IsPushed
  <2>3. QED
    BY <1>1, <1>3, <1>6, <1>8, <1>10, <2>2, SoundStep
<1>12. \A v \in Workers : In(v, "build") \/ In(v, "record") => v # w
  BY <1>2 DEF In
<1>13. NoDanglingBuild'
  BY <1>1, <1>3, <1>5, <1>6, <1>7, <1>8, <1>12, BuildKept
<1>14. QED
  BY <1>7, <1>11, <1>13 DEF IInv

\* A builder may end its work anywhere, provided that it reports success only
\* after recordImage and leaves the deployments sound.
LEMMA LeaveSound ==
  ASSUME TypeOK, Sound, NEW w \in Workers,
         \/ Falter(w) \/ Fail(w) \/ Drop(w)
         \/ In(w, "complete") /\ (Complete(w) \/ CompleteUnseen(w)),
         \A v \in Workers \ {w} : ctx'[v] = ctx[v],
         UNCHANGED <<serviceImage, registry, jobOf, requests>>,
         \A d \in Deployments : Exists(d) =>
            /\ Exists(d)'
            /\ deployments'[d].commit = deployments[d].commit
            /\ deployments[d].imageUrl # None => deployments'[d].imageUrl # None,
         \A d \in Deployments : deployments'[d] = deployments[d] \/ DeploymentSound(d)'
  PROVE  BoardTyped' /\ Grows /\ Sound' /\ \A v \in Workers \ {w} : hands'[v] = hands[v]
<1>1. PICK j : j = hands[w].job
  OBVIOUS
<1>2. /\ BoardTyped'
      /\ j \in Jobs /\ board[j].status # "absent"
      /\ \A i \in Jobs \ {j} : board'[i] = board[i]
      /\ board'[j].attempts = board[j].attempts
      /\ board'[j].status \in {"queued", "running", "succeeded", "failed"}
      /\ board'[j].status = "queued" => board[j].attempts < MaxAttempts
      /\ board'[j].status = "succeeded" =>
            board[j].status = "succeeded" \/ ~(Falter(w) \/ Fail(w) \/ Drop(w))
      /\ \A v \in Workers \ {w} : hands'[v] = hands[v]
      /\ hands'[w].pc # "working"
      /\ hands'[w].pc # "idle" => hands'[w].job = j
  BY <1>1, LetGo
<1>3. Grows
  BY <1>2 DEF Grows
<1>4. JobSound(j) /\ jobOf[j].dep \in Deployments \cup {None}
  BY <1>2 DEF Sound, TypeOK, Payload
<1>5. In(w, "complete") => jobOf[j].dep # None /\ deployments[jobOf[j].dep].imageUrl # None
  BY <1>1 DEF Sound, WorkerSound, In, Target, Resolved
<1>6. board'[j].status = "succeeded" => /\ jobOf[j].dep # None
                                        /\ deployments[jobOf[j].dep].imageUrl # None
  BY <1>2, <1>4, <1>5 DEF JobSound
<1>7. jobOf[j].dep # None => Exists(jobOf[j].dep)
  BY <1>4 DEF JobSound
<1>8. JobSound(j)'
  <2>1. /\ board'[j].status # "absent"
        /\ board'[j].status = "queued" => board'[j].attempts < MaxAttempts
        /\ IsPushed(jobOf[j].imageUrl)' /\ jobOf'[j] = jobOf[j]
    BY <1>2, <1>4 DEF JobSound, IsPushed
  <2>2. jobOf[j].dep # None => Exists(jobOf[j].dep)'
    BY <1>2, <1>4, <1>7 DEF Exists
  <2>3. board'[j].status = "succeeded" => deployments'[jobOf[j].dep].imageUrl # None
    BY <1>4, <1>6, <1>7
  <2>4. QED
    BY <1>6, <2>1, <2>2, <2>3 DEF JobSound
<1>9. WorkerSound(w)'
  BY <1>2 DEF WorkerSound
<1>10. Sound'
  BY <1>2, <1>3, <1>8, <1>9, SoundStep
<1>11. QED
  BY <1>2, <1>3, <1>10

\* Completing a job keeps the invariant: its deployment has an image.
LEMMA CompleteIInv ==
  ASSUME IInv, NEW w \in Workers, CompleteWorkflowJob(w)
  PROVE  IInv'
<1>1. TypeOK /\ Sound /\ NoDanglingBuild
  BY DEF IInv
<1>2. In(w, "complete") /\ Complete(w) /\ Leave(w)
  BY DEF CompleteWorkflowJob
<1>3. UNCHANGED <<deployments, serviceImage, registry, jobOf, requests, faults>>
  BY DEF CompleteWorkflowJob
<1>4. ctx' \in [Workers -> Context] /\ \A v \in Workers \ {w} : ctx'[v] = ctx[v]
  BY <1>1, <1>2, ContextTyped
<1>5. BoardTyped' /\ Grows /\ Sound' /\ \A v \in Workers \ {w} : hands'[v] = hands[v]
  BY <1>1, <1>2, <1>3, <1>4, LeaveSound DEF Exists
<1>6. TypeOK'
  BY <1>1, <1>3, <1>4, <1>5 DEF TypeOK, BoardTyped
<1>7. \A v \in Workers : In(v, "build") \/ In(v, "record") => v # w
  BY <1>2 DEF In
<1>8. NoDanglingBuild'
  BY <1>1, <1>3, <1>4, <1>5, <1>6, <1>7, BuildKept DEF TypeOK
<1>9. QED
  BY <1>5, <1>6, <1>8 DEF IInv

\* Reporting a failed job keeps the invariant, whoever holds the job by now.
LEMMA FailIInv ==
  ASSUME IInv, NEW w \in Workers, FailWorkflowJob(w)
  PROVE  IInv'
<1>1. TypeOK /\ Sound /\ NoDanglingBuild
  BY DEF IInv
<1>2. Fail(w) /\ hands[w].pc = "failing"
  BY DEF FailWorkflowJob, Fail
<1>3. UNCHANGED <<deployments, serviceImage, registry, jobOf, ctx, requests, faults>>
  BY DEF FailWorkflowJob
<1>4. BoardTyped' /\ Grows /\ Sound' /\ \A v \in Workers \ {w} : hands'[v] = hands[v]
  BY <1>1, <1>2, <1>3, LeaveSound DEF Exists
<1>5. TypeOK'
  BY <1>1, <1>3, <1>4 DEF TypeOK, BoardTyped
<1>6. \A v \in Workers : In(v, "build") \/ In(v, "record") => v # w
  BY <1>2 DEF In
<1>7. NoDanglingBuild'
  BY <1>1, <1>3, <1>4, <1>5, <1>6, BuildKept DEF TypeOK
<1>8. QED
  BY <1>4, <1>5, <1>7 DEF IInv

\* A failed store call keeps the invariant whether or not it was carried out.
LEMMA StoreErrorsIInv ==
  ASSUME IInv, NEW w \in Workers, storeErrors(w)
  PROVE  IInv'
<1>1. TypeOK /\ Sound
  BY DEF IInv
<1>2. Leave(w) /\ Fault /\ UNCHANGED <<serviceImage, registry, jobOf, requests>>
  BY DEF storeErrors
<1>3. \/ Falter(w)
      \/ In(w, "complete") /\ CompleteUnseen(w)
  BY DEF storeErrors
<1>4. ctx' \in [Workers -> Context] /\ \A v \in Workers \ {w} : ctx'[v] = ctx[v]
  BY <1>1, <1>2, ContextTyped
<1> DEFINE Kept == /\ deployments' \in [Deployments -> Deployment]
                   /\ \A d \in Deployments : Exists(d) =>
                         /\ Exists(d)'
                         /\ deployments'[d].commit = deployments[d].commit
                         /\ deployments[d].imageUrl # None => deployments'[d].imageUrl # None
                   /\ \A d \in Deployments :
                         deployments'[d] = deployments[d] \/ DeploymentSound(d)'
<1>5. Kept
  <2>1. CASE deployments' = deployments
    BY <1>1, <2>1 DEF Exists, TypeOK
  <2>2. CASE In(w, "mark") /\ deployments' = Building(w)
    <3>1. PICK d \in Deployments : d = Target(w) /\ Exists(d)
      BY <1>1, <2>2, AtTarget DEF Resolved
    <3>2. deployments' = [deployments EXCEPT ![d].status = "BUILDING"]
      BY <2>2, <3>1 DEF Building
    <3>3. /\ deployments' \in [Deployments -> Deployment]
          /\ \A e \in Deployments \ {d} : deployments'[e] = deployments[e]
          /\ deployments'[d].commit = deployments[d].commit
          /\ deployments'[d].imageUrl = deployments[d].imageUrl
          /\ deployments'[d].digest = deployments[d].digest
          /\ Exists(d)'
      <4>1. "BUILDING" \in DeploymentStatuses
        BY DEF DeploymentStatuses
      <4>2. TypeOK /\ Sound /\ Exists(d)
        BY <1>1, <3>1
      <4>3. QED
        BY <3>2, <4>1, <4>2, StatusWritten
    <3>4. DeploymentSound(d)'
      BY <1>1, <1>2, <3>1, <3>3 DEF Sound, DeploymentSound, IsPushed
    <3>5. QED
      BY <3>3, <3>4 DEF Exists
  <2>3. CASE In(w, "record") /\ deployments' = Recorded(w)
    <3>1. PICK d : d = Target(w)
      OBVIOUS
    <3>2. /\ d \in Deployments
          /\ deployments' \in [Deployments -> Deployment]
          /\ \A e \in Deployments \ {d} : deployments'[e] = deployments[e]
          /\ deployments'[d].commit = deployments[d].commit
          /\ deployments'[d].imageUrl # None
          /\ Exists(d)'
          /\ DeploymentSound(d)'
      BY <1>1, <1>2, <2>3, <3>1, RecordedRow
    <3>3. QED
      BY <3>2 DEF Exists
  <2>4. QED
    BY <2>1, <2>2, <2>3 DEF storeErrors
<1>6. BoardTyped' /\ Sound'
  BY <1>1, <1>2, <1>3, <1>4, <1>5, LeaveSound
<1>7. TypeOK'
  BY <1>1, <1>2, <1>4, <1>5, <1>6 DEF TypeOK, BoardTyped, Fault
<1>8. QED
  BY <1>1, <1>2, <1>6, <1>7, FaultExcuses DEF IInv

\* The death of a builder keeps the invariant at every point of its work.
LEMMA CrashIInv ==
  ASSUME IInv, NEW w \in Workers, crash(w)
  PROVE  IInv'
<1>1. TypeOK /\ Sound
  BY DEF IInv
<1>2. /\ Drop(w) /\ Leave(w) /\ Fault
      /\ UNCHANGED <<deployments, serviceImage, registry, jobOf, requests>>
  BY DEF crash
<1>3. ctx' \in [Workers -> Context] /\ \A v \in Workers \ {w} : ctx'[v] = ctx[v]
  BY <1>1, <1>2, ContextTyped
<1>4. BoardTyped' /\ Sound'
  BY <1>1, <1>2, <1>3, LeaveSound DEF Exists
<1>5. TypeOK'
  BY <1>1, <1>2, <1>3, <1>4 DEF TypeOK, BoardTyped, Fault
<1>6. QED
  BY <1>1, <1>2, <1>4, <1>5, FaultExcuses DEF IInv

--------------------------------------------------------------------------------
(***************************************************************************)
(* The theorems                                                            *)
(***************************************************************************)

\* Every step keeps the inductive invariant.
LEMMA StepIInv == IInv /\ [Next]_pipelineVars => IInv'
<1> SUFFICES ASSUME IInv, [Next]_pipelineVars PROVE IInv'
  OBVIOUS
<1>1. CASE \E d \in Deployments, c \in Commits, j \in Jobs : createDeploymentWorkflow(d, c, j)
  BY <1>1, CreateIInv
<1>2. CASE \E j \in Jobs : enqueueUnrelated(j)
  BY <1>2, UnrelatedIInv
<1>3. CASE \E r \in Requests, d \in Deployments :
              \/ transitionDeployment(r, "cancel", d, "CANCELLED")
              \/ \E s \in Reports : transitionDeployment(r, "report", d, s)
              \/ \E p \in Deployments : rollbackDeployment(r, d, p)
  <2>1. "CANCELLED" \in DeploymentStatuses \ {"BUILDING"}
    BY DEF DeploymentStatuses
  <2>2. \A s \in Reports : s \in DeploymentStatuses \ {"BUILDING"}
    OBVIOUS
  <2>3. QED
    BY <1>3, <2>1, <2>2, TransitionIInv, RollbackIInv
<1>4. CASE \E r \in Requests : RequestStep(r) \/ abortRequest(r)
  BY <1>4, UpdateIInv, EnqueueIInv, CreateRollbackIInv, AbortIInv DEF RequestStep
<1>5. CASE \E w \in Workers : BuilderStep(w)
  BY <1>5, ClaimIInv, ResolveIInv, ResolveFailsIInv, MarkIInv, ExecuteIInv, BuildFailsIInv,
     RecordIInv, ServiceIInv, CompleteIInv, FailIInv DEF BuilderStep
<1>6. CASE \E w \in Workers : storeErrors(w) \/ crash(w)
  BY <1>6, StoreErrorsIInv, CrashIInv
<1>7. CASE UNCHANGED pipelineVars
  <2>1. TypeOK' /\ NoDanglingBuild'
    BY <1>7 DEF IInv, pipelineVars, TypeOK, NoDanglingBuild, In, Target
  <2>2. Sound'
    BY <1>7, UnchangedGrows, SoundStep DEF IInv, pipelineVars
  <2>3. QED
    BY <2>1, <2>2 DEF IInv
<1>8. QED
  BY <1>1, <1>2, <1>3, <1>4, <1>5, <1>6, <1>7 DEF Next

\* The inductive invariant holds in every reachable state.
LEMMA Invariance == Spec => []IInv
BY InitIInv, StepIInv, PTL DEF Spec

\* Every reachable state of the deployments, the queue, the registry, the
\* builders and the API requests is well typed; no job is claimed more often
\* than its budget of attempts allows.
THEOREM TypeCorrect == Spec => []TypeOK
<1>1. IInv => TypeOK
  BY DEF IInv
<1>2. QED
  BY <1>1, Invariance, PTL

\* resolveDigest never records the digest of another deployment's commit,
\* whatever tags builders share and however snapshots have aged.
THEOREM DigestsAreOwn == Spec => []DigestOfCommit
<1>1. IInv => DigestOfCommit
  BY DEF IInv, Sound, DeploymentSound, DigestOfCommit, NoDeployment
<1>2. QED
  BY <1>1, Invariance, PTL

\* The order executeBuild, UpdateDeployment, UpdateService announces no image
\* before it is pushed, retries, rollbacks and crashes included.
THEOREM ImagesArePushed == Spec => []AnnouncedIsPushed
<1>1. IInv => AnnouncedIsPushed
  BY DEF IInv, Sound, DeploymentSound, AnnouncedIsPushed, IsPushed, NoDeployment
<1>2. QED
  BY <1>1, Invariance, PTL

\* A job is reported as succeeded only after recordImage, even when the report
\* is late, repeated, or about a job that another builder has taken over.
THEOREM SuccessHasImage == Spec => []SucceededHasImage
<1>1. IInv => SucceededHasImage
  BY DEF IInv, Sound, JobSound, SucceededHasImage
<1>2. QED
  BY <1>1, Invariance, PTL

\* markFailed and recordImage between them overwrite every BUILDING that
\* markBuilding wrote, unless a fault intervened.
THEOREM NoBuildDangles == Spec => []NoDanglingBuild
<1>1. IInv => NoDanglingBuild
  BY DEF IInv
<1>2. QED
  BY <1>1, Invariance, PTL

\* API and builders touch the queue only through the operations of JobBoard, so
\* what WorkflowQueue is proved to implement is all that they rely on.
THEOREM KeepsToBoard == Spec => BoardSpec
<1>1. Init => BoardInit
  BY DEF Init
<1>2. [Next]_pipelineVars => [BoardNext]_boardVars
  <2> SUFFICES ASSUME [Next]_pipelineVars PROVE BoardNext \/ UNCHANGED boardVars
    OBVIOUS
  <2>1. CASE \E d \in Deployments, c \in Commits, j \in Jobs : createDeploymentWorkflow(d, c, j)
    BY <2>1 DEF createDeploymentWorkflow, Enqueue, BoardNext
  <2>2. CASE \E j \in Jobs : enqueueUnrelated(j)
    BY <2>2 DEF enqueueUnrelated, Enqueue, BoardNext
  <2>3. CASE \E r \in Requests, d \in Deployments :
                \/ transitionDeployment(r, "cancel", d, "CANCELLED")
                \/ \E s \in Reports : transitionDeployment(r, "report", d, s)
                \/ \E p \in Deployments : rollbackDeployment(r, d, p)
    BY <2>3 DEF transitionDeployment, rollbackDeployment, boardVars
  <2>4. CASE \E r \in Requests : RequestStep(r) \/ abortRequest(r)
    BY <2>4 DEF RequestStep, abortRequest, updateDeployment, enqueueCancel, enqueueRollback,
                createRollback, Enqueue, BoardNext, boardVars
  <2>5. CASE \E w \in Workers : BuilderStep(w)
    <3>1. PICK w \in Workers : BuilderStep(w)
      BY <2>5
    <3>2. CASE ClaimNextWorkflowJob(w)
      BY <3>2 DEF ClaimNextWorkflowJob, BoardNext
    <3>3. CASE resolveStateFails(w) \/ buildFails(w)
      BY <3>3 DEF resolveStateFails, buildFails, BoardNext
    <3>4. CASE resolveState(w) \/ markBuilding(w) \/ executeBuild(w) \/ recordImage(w)
               \/ updateService(w)
      BY <3>4 DEF resolveState, markBuilding, executeBuild, recordImage, updateService, boardVars
    <3>5. CASE CompleteWorkflowJob(w) \/ FailWorkflowJob(w)
      BY <3>5 DEF CompleteWorkflowJob, FailWorkflowJob, BoardNext
    <3>6. QED
      BY <3>1, <3>2, <3>3, <3>4, <3>5 DEF BuilderStep
  <2>6. CASE \E w \in Workers : storeErrors(w) \/ crash(w)
    BY <2>6 DEF storeErrors, crash, BoardNext
  <2>7. CASE UNCHANGED pipelineVars
    BY <2>7 DEF pipelineVars, boardVars
  <2>8. QED
    BY <2>1, <2>2, <2>3, <2>4, <2>5, <2>6, <2>7 DEF Next
<1>3. QED
  BY <1>1, <1>2, PTL DEF Spec, BoardSpec
================================================================================
