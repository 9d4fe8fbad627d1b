----------------------------- MODULE DeployProofs -----------------------------
(***************************************************************************)
(* Proofs about DeploySetup, for every set of plans and wirings and any    *)
(* number of jobs, faults and attempts: a repository that was there before *)
(* survives, the journal of cleanups is true, a rollback that meets no     *)
(* fault succeeds.                                                         *)
(***************************************************************************)
EXTENDS DeploySetup, FiniteSetTheorems, TLAPS

Repo == <<"repo", 0>>

(***************************************************************************)
(* Cleanup steps and stacks of them.                                       *)
(***************************************************************************)
Target == [github_repo |-> "repo", github_deploy_key |-> "key",
           github_actions_secret |-> "secret", github_workflow_file |-> "file"]

\* The cleanups, and what each removes.
Step ==
    {s \in [kind : DOMAIN Target, arg : Int, at : Nat \X Nat] :
        s.kind \in {"github_repo", "github_workflow_file"} => s.arg = 0}
Obj(s) == <<Target[s.kind], s.arg>>

\* What a step would remove is there, unless it is a key whose id was not read.
Unread(s) == s.kind = "github_deploy_key" /\ s.arg = 0
Held(s) == Unread(s) \/ Obj(s) \in hub

Members(st) == {st[i] : i \in 1..Len(st)}

\* The repository is at the bottom and nowhere else, and no two steps are
\* about the same thing or of the same moment.
Good(st) ==
    /\ \A i \in 1..Len(st) : st[i].kind = "github_repo" <=> i = 1
    /\ \A i, j \in 1..Len(st) : i # j => Obj(st[i]) # Obj(st[j]) /\ st[i].at # st[j].at

(***************************************************************************)
(* The parts of the inductive invariant.                                   *)
(***************************************************************************)
Rolling == job.kind = "rollback" /\ job.pc \in {"call", "wait"}
Providing == job.kind = "provision" /\ job.pc # "idle"

\* The step was made for call i of the plan.
MadeBy(s, i) ==
    LET m == Calls(job.plan)[i]
    IN  s.kind = CleanupKinds[m.name] /\ (m.name # "AddDeployKey" => s.arg = m.arg)

WireFields == {"pc", "method", "via", "k", "attempt", "err", "id", "run"}
JobFields == {"kind", "pc", "plan", "i", "step", "gh", "failed", "err", "faults"}

Typed ==
    /\ DOMAIN job = JobFields
    /\ DOMAIN wire = WireFields
    /\ job.pc \in {"idle", "call", "wait", "push", "pop", "sleep"}
    /\ job.kind \in {"none", "provision", "rollback"} \cup DOMAIN Gets
    /\ stack \in Seq(Step) /\ saved \in Seq(Step) /\ jobs \in Nat
    /\ faults \in Nat /\ job.faults \in 0..faults

\* Which job is where; a job that waits has its method on the wire.
Placed ==
    /\ job.pc \in {"call", "wait"} => job.kind # "none"
    /\ job.pc = "pop" => job.kind = "rollback"
    /\ job.pc = "sleep" => job.kind \in DOMAIN Gets
    /\ Providing => job.plan \in Plans /\ job.i \in DOMAIN Calls(job.plan)
    /\ Rolling => job.step \in Step
    /\ job.pc = "push" =>
          /\ job.kind = "provision" /\ Calls(job.plan)[job.i].name # "DispatchWorkflow"
          /\ job.step \in Step /\ MadeBy(job.step, job.i) /\ job.step.at = <<jobs, job.i>>
    /\ job.pc # "wait" => wire = NoWire
    /\ job.pc = "wait" =>
          /\ wire.pc \in {"enter", "send", "pause", "over"} /\ wire.method = Current
          /\ wire.via \in {"cli", "rest"} /\ wire.id \in {0, 1}
          /\ wire.k \in 1..Len(Requests(wire.method, wire.via))
          /\ wire.pc = "enter" => wire.k = 1
          /\ wire.via = "rest" => ~client.gh

\* The stack and the file are good, what they would remove is there and was
\* not yet removed.
Stacked ==
    /\ Good(stack) /\ Good(saved) /\ (stack # <<>> => saved # <<>>)
    /\ \A s \in Members(stack) \cup Members(saved) : Held(s) /\ s.at \notin ran

\* No moment is used twice.
Moments ==
    \A a \in ran \cup {s.at : s \in Members(stack) \cup Members(saved)} :
        /\ a \in Nat \X Nat /\ a[1] <= jobs
        /\ Providing /\ a[1] = jobs => a[2] < job.i

\* A provision past its first call has a step for each earlier call on the
\* stack; a rollback has the step it runs off the stack and the file.
Handed ==
    /\ Providing /\ (job.i > 1 \/ job.pc = "push") =>
          /\ saved = stack /\ Len(stack) = job.i - 1
          /\ \A i \in 1..Len(stack) : MadeBy(stack[i], i)
    /\ job.pc = "push" => Held(job.step)
    /\ Rolling => saved = stack /\ Good(Append(stack, job.step))

\* What a method that returned without an error has done.
Settled ==
    job.pc = "wait" /\ wire.pc = "over" /\ wire.err = "nil" =>
        /\ job.kind = "provision" /\ wire.method.name # "DispatchWorkflow" =>
              Held(CleanupStep(wire.method, wire.id, <<0, 0>>))
        /\ wire.method.name = "CreateRepo" => stack = <<>> /\ saved = <<>> /\ before = {}
        /\ wire.method.name = "RemoveGitHubRepo" => Repo \notin hub

\* A repository that was there is nobody's to remove.
Guarded ==
    before # {} =>
        before = {Repo} /\ Repo \in hub /\ stack = <<>> /\ saved = <<>> /\ job.pc # "push" /\ ~Rolling

\* A rollback that met no fault so far.
Clean ==
    job.kind = "rollback" /\ job.gh /\ ctx = "live" /\ faults = job.faults
        /\ (client.gh \/ client.rest = "token")

Answering ==
    Clean =>
        /\ \A s \in job.failed : Unread(s)
        /\ job.pc = "call" \/ (job.pc = "wait" /\ wire.pc # "over") => Held(job.step)
        /\ job.pc = "wait" /\ wire.pc = "over" => wire.err = "nil" \/ Unread(job.step)

\* NoSilentOrphan, with what a good stack makes of it.
NoOrphan == Repo \in hub \ before => told \/ InHand \/ stack # <<>> \/ saved # <<>>

Inv ==
    /\ Typed /\ Placed /\ Stacked /\ Moments /\ Handed
    /\ Settled /\ Guarded /\ Answering /\ NoOrphan
-----------------------------------------------------------------------------
\* What is sorted is all there, each name once.
LEMMA SortedNames ==
    ASSUME NEW S, IsFiniteSet(S), S \subseteq Int
    PROVE  /\ Cardinality(S) \in Nat
           /\ sortedSecretNames(S) \in [1..Cardinality(S) -> S]
           /\ \A i, j \in 1..Cardinality(S) :
                 i # j => sortedSecretNames(S)[i] # sortedSecretNames(S)[j]
<1> DEFINE N == Cardinality(S)
<1> DEFINE Below(n) == {m \in S : m < n}
<1> DEFINE rank == [n \in S |-> Cardinality(Below(n))]
<1>1. N \in Nat
  BY FS_CardinalityType
<1>2. ASSUME NEW n \in S PROVE IsFiniteSet(Below(n)) /\ Cardinality(Below(n)) \in 0..(N - 1)
  <2>1. IsFiniteSet(Below(n)) /\ Cardinality(Below(n)) <= N /\ (N = Cardinality(Below(n)) => S = Below(n))
    BY FS_Subset, Below(n) \in SUBSET S
  <2>2. n \notin Below(n)
    OBVIOUS
  <2>3. QED
    BY <1>1, <2>1, <2>2, FS_CardinalityType
<1>3. ASSUME NEW m \in S, NEW n \in S, m < n PROVE Cardinality(Below(m)) < Cardinality(Below(n))
  <2>1. Below(m) \in SUBSET Below(n) /\ m \in Below(n) /\ m \notin Below(m)
    <3>1. m \in Int /\ n \in Int /\ \A x \in S : x \in Int
      OBVIOUS
    <3>2. \A x \in S : x < m => x < n
      BY <1>3, <3>1
    <3>3. ~(m < m)
      BY <3>1
    <3>4. QED
      BY <1>3, <3>2, <3>3, Zenon
  <2>2. /\ Cardinality(Below(m)) <= Cardinality(Below(n))
        /\ Cardinality(Below(n)) # Cardinality(Below(m))
    BY <1>2, <2>1, FS_Subset
  <2>3. QED
    BY <1>2, <2>2, SMTT(40)
<1>4. rank \in Injection(S, 0..(N - 1))
  <2>1. rank \in [S -> 0..(N - 1)]
    BY <1>2
  <2>2. ASSUME NEW m \in S, NEW n \in S, rank[m] = rank[n] PROVE m = n
    BY <1>2, <1>3, <2>2
  <2>3. QED
    BY <2>1, <2>2 DEF Injection, IsInjective
<1>5. rank \in Surjection(S, 0..(N - 1))
  <2>1. IsFiniteSet(0..(N - 1)) /\ Cardinality(0..(N - 1)) = N
    BY <1>1, FS_Interval, SMTT(40)
  <2>2. QED
    BY <1>4, <2>1, FS_Injection
<1>6. ASSUME NEW i \in 1..N
      PROVE  sortedSecretNames(S)[i] \in S /\ Cardinality(Below(sortedSecretNames(S)[i])) = i - 1
  <2>1. i - 1 \in 0..(N - 1)
    BY <1>1
  <2>2. \E n \in S : Cardinality(Below(n)) = i - 1
    BY <1>5, <2>1 DEF Surjection
  <2>3. QED
    BY <2>2 DEF sortedSecretNames
<1> DEFINE f == sortedSecretNames(S)
<1> DEFINE name(i) == CHOOSE n \in S : Cardinality(Below(n)) = i - 1
<1>7. f = [i \in 1..N |-> name(i)]
  BY Zenon DEF sortedSecretNames
<1> HIDE DEF f, name
<1>8. f \in [1..N -> S]
  BY <1>6, <1>7 DEF f
<1>9. \A i, j \in 1..N : i # j => f[i] # f[j]
  <2> SUFFICES ASSUME NEW i \in 1..N, NEW j \in 1..N, f[i] = f[j] PROVE i = j
    OBVIOUS
  <2>1. i - 1 = j - 1
    BY <1>6, Zenon DEF f
  <2>2. QED
    BY <1>1, <2>1
<1>10. QED
  BY <1>1, <1>8, <1>9 DEF f

\* Concatenation, element by element.
LEMMA Joined ==
    ASSUME NEW S, NEW s \in Seq(S), NEW t \in Seq(S)
    PROVE  /\ s \o t \in Seq(S) /\ Len(s \o t) = Len(s) + Len(t)
           /\ DOMAIN (s \o t) = 1..(Len(s) + Len(t))
           /\ \A i \in 1..Len(s) : (s \o t)[i] = s[i]
           /\ \A i \in 1..Len(t) : (s \o t)[Len(s) + i] = t[i]
OBVIOUS

\* The calls of a plan, one by one.
LEMMA CallsAre ==
    ASSUME NEW plan \in Plans
    PROVE  LET n == Cardinality(plan.secrets)
               c == Calls(plan)
           IN  /\ n \in Nat /\ Len(c) = n + 4 /\ DOMAIN c = 1..(n + 4)
               /\ c[1] = Method("CreateRepo", 0) /\ c[2] = Method("AddDeployKey", 1)
               /\ \A i \in 3..(n + 2) :
                     c[i] = Method("SetActionsSecret", sortedSecretNames(plan.secrets)[i - 2])
               /\ c[n + 3] = Method("CommitWorkflowFile", 0)
               /\ c[n + 4] = Method("DispatchWorkflow", 0)
<1> DEFINE n == Cardinality(plan.secrets)
           names == sortedSecretNames(plan.secrets)
           a == <<Method("CreateRepo", 0), Method("AddDeployKey", 1)>>
           b == [i \in DOMAIN names |-> Method("SetActionsSecret", names[i])]
           d == <<Method("CommitWorkflowFile", 0), Method("DispatchWorkflow", 0)>>
           M == {Method("CreateRepo", 0), Method("AddDeployKey", 1), Method("CommitWorkflowFile", 0),
                 Method("DispatchWorkflow", 0)} \cup {Method("SetActionsSecret", k) : k \in plan.secrets}
<1>1. n \in Nat /\ DOMAIN names = 1..n /\ names \in [1..n -> plan.secrets]
  BY DeployAssumption, SortedNames
<1>2. a \in Seq(M) /\ Len(a) = 2 /\ a[1] = Method("CreateRepo", 0) /\ a[2] = Method("AddDeployKey", 1)
  OBVIOUS
<1>3. d \in Seq(M) /\ Len(d) = 2 /\ d[1] = Method("CommitWorkflowFile", 0)
      /\ d[2] = Method("DispatchWorkflow", 0)
  OBVIOUS
<1>4. b \in Seq(M) /\ Len(b) = n /\ \A i \in 1..n : b[i] = Method("SetActionsSecret", names[i])
  <2>1. b = [i \in 1..n |-> Method("SetActionsSecret", names[i])]
    BY <1>1
  <2>2. \A i \in 1..n : Method("SetActionsSecret", names[i]) \in M
    BY <1>1
  <2> HIDE DEF M, names
  <2>3. b \in [1..n -> M]
    BY <2>1, <2>2
  <2>4. QED
    BY <1>1, <2>1, <2>3
<1>5. Calls(plan) = a \o b \o d
  BY DEF Calls
<1> HIDE DEF a, b, d, M
<1> DEFINE ab == a \o b
<1>6. /\ ab \in Seq(M) /\ Len(ab) = n + 2 /\ ab[1] = a[1] /\ ab[2] = a[2]
      /\ \A i \in 1..n : ab[2 + i] = b[i]
  <2>1. /\ ab \in Seq(M) /\ Len(ab) = Len(a) + Len(b)
        /\ \A i \in 1..Len(a) : ab[i] = a[i]
        /\ \A i \in 1..Len(b) : ab[Len(a) + i] = b[i]
    <3>1. a \in Seq(M) /\ b \in Seq(M)
      BY <1>2, <1>4
    <3>2. QED
      BY <3>1, Joined
  <2> HIDE DEF ab
  <2>2. QED
    BY <1>1, <1>2, <1>4, <2>1
<1> HIDE DEF ab
<1> DEFINE c == ab \o d
<1>7. /\ Len(c) = n + 4 /\ DOMAIN c = 1..(n + 4)
      /\ \A i \in 1..(n + 2) : c[i] = ab[i]
      /\ c[n + 3] = d[1] /\ c[n + 4] = d[2]
  <2>1. /\ Len(c) = Len(ab) + Len(d) /\ DOMAIN c = 1..(Len(ab) + Len(d))
        /\ \A i \in 1..Len(ab) : c[i] = ab[i]
        /\ \A i \in 1..Len(d) : c[Len(ab) + i] = d[i]
    <3>1. ab \in Seq(M) /\ d \in Seq(M)
      BY <1>3, <1>6
    <3>2. QED
      BY <3>1, Joined
  <2> HIDE DEF c
  <2>2. (n + 2) + 1 = n + 3 /\ (n + 2) + 2 = n + 4
    BY <1>1
  <2>3. QED
    BY <1>1, <1>3, <1>6, <2>1, <2>2
<1> HIDE DEF c
<1>8. c[1] = a[1] /\ c[2] = a[2]
  BY <1>1, <1>6, <1>7
<1>9. ASSUME NEW i \in 3..(n + 2) PROVE c[i] = Method("SetActionsSecret", names[i - 2])
  <2>1. PICK k \in 1..n : i = 2 + k /\ k = i - 2 /\ i \in 1..(n + 2)
    BY <1>1
  <2>2. c[i] = b[k]
    BY <1>6, <1>7, <2>1
  <2>3. QED
    BY <1>4, <2>1, <2>2
<1>10. Calls(plan) = c
  BY <1>5 DEF c, ab
<1>11. QED
  BY <1>1, <1>2, <1>3, <1>7, <1>8, <1>9, <1>10, Zenon

ProvisionMethods ==
    {Method("CreateRepo", 0), Method("AddDeployKey", 1), Method("CommitWorkflowFile", 0),
     Method("DispatchWorkflow", 0)} \cup {Method("SetActionsSecret", n) : n \in Int}

\* Where each call is, and that none is made twice.
LEMMA CallsShape ==
    ASSUME NEW plan \in Plans, NEW i \in DOMAIN Calls(plan)
    PROVE  LET c == Calls(plan)
           IN  /\ Len(c) \in Nat /\ DOMAIN c = 1..Len(c) /\ c[i] \in ProvisionMethods
               /\ 4 <= Len(c)
               /\ c[i].name = "CreateRepo" <=> i = 1
               /\ c[i].name = "AddDeployKey" <=> i = 2
               /\ c[i].name = "DispatchWorkflow" <=> i = Len(c)
               /\ \A j \in DOMAIN c : j # i => c[j] # c[i]
<1> DEFINE n == Cardinality(plan.secrets)
           names == sortedSecretNames(plan.secrets)
           c == Calls(plan)
<1>1. /\ n \in Nat /\ names \in [1..n -> plan.secrets] /\ plan.secrets \subseteq Int
      /\ \A j, k \in 1..n : j # k => names[j] # names[k]
  BY DeployAssumption, SortedNames
<1>2. /\ Len(c) = n + 4 /\ DOMAIN c = 1..(n + 4)
      /\ c[1] = Method("CreateRepo", 0) /\ c[2] = Method("AddDeployKey", 1)
      /\ \A j \in 3..(n + 2) : c[j] = Method("SetActionsSecret", names[j - 2])
      /\ c[n + 3] = Method("CommitWorkflowFile", 0) /\ c[n + 4] = Method("DispatchWorkflow", 0)
  BY CallsAre
<1> HIDE DEF n, names, c
<1>3. ASSUME NEW j \in 1..(n + 4)
      PROVE \/ j = 1 \/ j = 2 \/ j = n + 3 \/ j = n + 4
            \/ (j \in 3..(n + 2) /\ j - 2 \in 1..n /\ names[j - 2] \in Int)
  BY <1>1
<1>4. i \in 1..(n + 4)
  BY <1>2 DEF c
<1> DEFINE Kind(j, name, arg) == c[j] = Method(name, arg) /\ c[j].name = name /\ c[j].arg = arg
<1>4a. /\ Kind(1, "CreateRepo", 0) /\ Kind(2, "AddDeployKey", 1)
      /\ Kind(n + 3, "CommitWorkflowFile", 0) /\ Kind(n + 4, "DispatchWorkflow", 0)
      /\ \A j \in 3..(n + 2) : Kind(j, "SetActionsSecret", names[j - 2])
  BY <1>2 DEF Method
<1>4b. /\ 1 \notin 3..(n + 4) /\ 2 \notin 3..(n + 4) /\ n + 3 \notin 1..(n + 2) /\ n + 4 \notin 1..(n + 3)
      /\ n + 3 \in 3..(n + 4) /\ n + 4 \in 3..(n + 4) /\ n + 3 # n + 4 /\ 3..(n + 2) \subseteq 3..(n + 4)
      /\ 3..(n + 2) \subseteq 1..(n + 2) /\ 1..(n + 2) \subseteq 1..(n + 3)
  BY <1>1
<1>5. /\ c[i] \in ProvisionMethods
      /\ c[i].name = "CreateRepo" <=> i = 1
      /\ c[i].name = "AddDeployKey" <=> i = 2
      /\ c[i].name = "DispatchWorkflow" <=> i = n + 4
  <2>1. CASE i \in 3..(n + 2) /\ names[i - 2] \in Int
    BY <1>4a, <1>4b, <2>1 DEF ProvisionMethods
  <2>2. CASE i \in {1, 2, n + 3, n + 4}
    BY <1>4a, <1>4b, <2>2 DEF ProvisionMethods
  <2>3. QED
    BY <1>3, <1>4, <2>1, <2>2
<1>6. ASSUME NEW j \in 1..(n + 4), j # i PROVE c[j] # c[i]
  <2>1. CASE j \in 3..(n + 2) /\ i \in 3..(n + 2)
    <3>1. j - 2 \in 1..n /\ i - 2 \in 1..n /\ j - 2 # i - 2
      BY <1>1, <1>6, <2>1
    <3>2. names[j - 2] # names[i - 2]
      BY <1>1, <3>1
    <3>3. QED
      BY <1>4a, <2>1, <3>2
  <2>2. CASE i \in {1, 2, n + 3, n + 4}
    BY <1>4a, <1>4b, <1>3, <1>6, <2>2
  <2>3. CASE j \in {1, 2, n + 3, n + 4}
    BY <1>4a, <1>4b, <1>3, <1>4, <1>6, <2>3
  <2>4. QED
    BY <1>3, <1>4, <2>1, <2>2, <2>3
<1>7. n + 4 \in Nat /\ 4 <= n + 4
  BY <1>1
<1>8. QED
  BY <1>2, <1>5, <1>6, <1>7 DEF c
-----------------------------------------------------------------------------
(* Stacks.                                                                 *)

\* The fields of a step.
LEMMA StepFields ==
    /\ \A s \in Step :
          /\ s.kind \in {"github_repo", "github_deploy_key", "github_actions_secret", "github_workflow_file"}
          /\ s.arg \in Int /\ s.at \in Nat \X Nat
          /\ s.kind \in {"github_repo", "github_workflow_file"} => s.arg = 0
    /\ DOMAIN Target = {"github_repo", "github_deploy_key", "github_actions_secret", "github_workflow_file"}
BY DEF Step, Target

\* A step on top.
LEMMA OnTop ==
    ASSUME NEW st \in Seq(Step), NEW s \in Step
    PROVE  /\ Append(st, s) \in Seq(Step) /\ Append(st, s) # <<>>
           /\ Len(Append(st, s)) = Len(st) + 1 /\ Len(st) \in Nat
           /\ \A i \in 1..Len(st) : Append(st, s)[i] = st[i]
           /\ Append(st, s)[Len(st) + 1] = s
           /\ Members(Append(st, s)) = Members(st) \cup {s}
<1>1. /\ Append(st, s) \in Seq(Step) /\ Append(st, s) # <<>>
      /\ Len(Append(st, s)) = Len(st) + 1 /\ Len(st) \in Nat
      /\ \A i \in 1..Len(st) : Append(st, s)[i] = st[i]
      /\ Append(st, s)[Len(st) + 1] = s
  OBVIOUS
<1> DEFINE t == Append(st, s)  n == Len(st)
<1> HIDE DEF t, n
<1>2. \A i \in 1..(n + 1) : i \in 1..n \/ i = n + 1
  BY <1>1 DEF n
<1>3. Members(t) = Members(st) \cup {s}
  BY <1>1, <1>2 DEF Members, t, n
<1>4. QED
  BY <1>1, <1>3 DEF t

\* The top taken off.
LEMMA OffTop ==
    ASSUME NEW st \in Seq(Step), st # <<>>
    PROVE  Front(st) \in Seq(Step) /\ Last(st) \in Step /\ st = Append(Front(st), Last(st))
BY DEF Front, Last

\* A stack is good exactly if what is under its top is, and the top differs from it.
LEMMA GoodTop ==
    ASSUME NEW st \in Seq(Step), NEW s \in Step
    PROVE  Good(Append(st, s)) <=>
              /\ Good(st) /\ (s.kind = "github_repo" <=> st = <<>>)
              /\ \A t \in Members(st) : Obj(t) # Obj(s) /\ t.at # s.at
<1> DEFINE n == Len(st)  t == Append(st, s)
<1>1. /\ n \in Nat /\ Len(t) = n + 1 /\ t[n + 1] = s /\ \A i \in 1..n : t[i] = st[i]
      /\ st = <<>> <=> n = 0
  BY OnTop
<1> HIDE DEF n, t
<1>2. \A i \in 1..(n + 1) : i = n + 1 \/ (i \in 1..n /\ i # n + 1)
  BY <1>1
<1>3. n + 1 \in 1..(n + 1) /\ 1..n \subseteq 1..(n + 1) /\ (n + 1 = 1 <=> n = 0)
  BY <1>1
<1>4. ASSUME Good(t)
      PROVE  /\ Good(st) /\ (s.kind = "github_repo" <=> st = <<>>)
             /\ \A x \in Members(st) : Obj(x) # Obj(s) /\ x.at # s.at
  <2>1. Good(st)
    BY <1>1, <1>3, <1>4 DEF Good, n
  <2>2. s.kind = "github_repo" <=> st = <<>>
    BY <1>1, <1>3, <1>4 DEF Good
  <2>3. ASSUME NEW i \in 1..n PROVE Obj(st[i]) # Obj(s) /\ st[i].at # s.at
    BY <1>1, <1>2, <1>3, <1>4 DEF Good
  <2>4. QED
    BY <2>1, <2>2, <2>3 DEF Members, n
<1>5. ASSUME Good(st), s.kind = "github_repo" <=> st = <<>>,
             \A x \in Members(st) : Obj(x) # Obj(s) /\ x.at # s.at
      PROVE  Good(t)
  <2>1. \A i \in 1..n : Obj(st[i]) # Obj(s) /\ st[i].at # s.at
    BY <1>5 DEF Members, n
  <2>2. \A i \in 1..(n + 1) : t[i].kind = "github_repo" <=> i = 1
    BY <1>1, <1>2, <1>3, <1>5 DEF Good, n
  <2>3. \A i, j \in 1..(n + 1) : i # j => Obj(t[i]) # Obj(t[j]) /\ t[i].at # t[j].at
    BY <1>1, <1>2, <1>5, <2>1 DEF Good, n
  <2>4. QED
    BY <1>1, <2>2, <2>3 DEF Good
<1>6. QED
  BY <1>4, <1>5 DEF t

\* A good stack that is not empty has the repository's step.
LEMMA GoodBottom ==
    /\ Good(<<>>) /\ Members(<<>>) = {}
    /\ \A st \in Seq(Step) : st # <<>> =>
          /\ Good(st) => \E s \in Members(st) : s.kind = "github_repo"
          /\ Members(st) # {} /\ Members(st) \subseteq Step
    /\ \A st \in Seq(Step) : Members(st) \subseteq Step /\ Members(st) = Range(st)
<1>1. Good(<<>>) /\ Members(<<>>) = {}
  BY DEF Good, Members
<1>2. ASSUME NEW st \in Seq(Step) PROVE Members(st) \subseteq Step /\ Members(st) = Range(st)
  BY DEF Members, Range
<1>3. ASSUME NEW st \in Seq(Step), st # <<>> PROVE 1 \in 1..Len(st)
  BY <1>3
<1>4. ASSUME NEW st \in Seq(Step), st # <<>>
      PROVE  Members(st) # {} /\ (Good(st) => \E s \in Members(st) : s.kind = "github_repo")
  BY <1>3, <1>4 DEF Good, Members
<1>5. QED
  BY <1>1, <1>2, <1>4
-----------------------------------------------------------------------------
(* Methods and requests.                                                   *)

RemoveMethods == {StepRunner(s) : s \in Step}
GetMethods == {Method(name, 0) : name \in DOMAIN Gets}
Methods == ProvisionMethods \cup RemoveMethods \cup GetMethods

\* The request of a method that does its work.
MainVerb(m) ==
    CASE m.name \in DOMAIN Creates -> "POST"
      [] m.name \in DOMAIN Puts -> "PUT"
      [] m.name \in DOMAIN Gets -> "GET"
      [] OTHER -> "DELETE"
MainObj(m) ==
    CASE m.name \in DOMAIN Creates -> <<Creates[m.name], m.arg>>
      [] m.name \in DOMAIN Puts -> <<Puts[m.name], m.arg>>
      [] m.name \in DOMAIN Gets -> <<Gets[m.name], 0>>
      [] OTHER -> <<Removes[m.name], m.arg>>

\* The tables, as sets and values.
LEMMA Tables ==
    /\ DOMAIN Creates = {"CreateRepo", "AddDeployKey", "DispatchWorkflow"}
    /\ DOMAIN Puts = {"SetActionsSecret", "CommitWorkflowFile"}
    /\ DOMAIN Gets = {"GetLatestRun", "GetWorkflowSteps", "GetWorkflowLogs"}
    /\ DOMAIN Removes = {"RemoveGitHubRepo", "RemoveGitHubDeployKey", "RemoveGitHubActionsSecret",
                         "RemoveGitHubWorkflowFile"}
    /\ DOMAIN CleanupKinds = {"CreateRepo", "AddDeployKey", "SetActionsSecret", "CommitWorkflowFile"}
    /\ Creates["CreateRepo"] = "repo" /\ Creates["AddDeployKey"] = "key" /\ Creates["DispatchWorkflow"] = "run"
    /\ Puts["SetActionsSecret"] = "secret" /\ Puts["CommitWorkflowFile"] = "file"
    /\ Removes["RemoveGitHubRepo"] = "repo" /\ Removes["RemoveGitHubDeployKey"] = "key"
    /\ Removes["RemoveGitHubActionsSecret"] = "secret" /\ Removes["RemoveGitHubWorkflowFile"] = "file"
    /\ Gets["GetLatestRun"] = "run" /\ Gets["GetWorkflowSteps"] = "jobs" /\ Gets["GetWorkflowLogs"] = "log"
    /\ CleanupKinds["CreateRepo"] = "github_repo" /\ CleanupKinds["AddDeployKey"] = "github_deploy_key"
    /\ CleanupKinds["SetActionsSecret"] = "github_actions_secret"
    /\ CleanupKinds["CommitWorkflowFile"] = "github_workflow_file"
    /\ Target["github_repo"] = "repo" /\ Target["github_deploy_key"] = "key"
    /\ Target["github_actions_secret"] = "secret" /\ Target["github_workflow_file"] = "file"
BY DEF Creates, Puts, Gets, Removes, CleanupKinds, Target

\* What is called for a cleanup step.
LEMMA RunnerIs ==
    ASSUME NEW s \in Step
    PROVE  LET m == StepRunner(s)
           IN  /\ m.name \in DOMAIN Removes /\ MainVerb(m) = "DELETE" /\ MainObj(m) = Obj(s)
               /\ m.name = "RemoveGitHubRepo" <=> s.kind = "github_repo"
               /\ m.name = "RemoveGitHubWorkflowFile" <=> s.kind = "github_workflow_file"
BY StepFields, Tables DEF StepRunner, Method, MainVerb, MainObj, Obj

\* The calls of a provision.
LEMMA ProvisionIs ==
    ASSUME NEW m \in ProvisionMethods
    PROVE  /\ m.name \in DOMAIN Creates \cup DOMAIN Puts /\ m.arg \in Int
           /\ MainVerb(m) \in {"POST", "PUT"}
           /\ m.name = "AddDeployKey" => m.arg = 1
           /\ m.name \notin {"SetActionsSecret", "AddDeployKey"} => m.arg = 0
           /\ MainObj(m) = Repo <=> m.name = "CreateRepo"
           /\ m.name # "DispatchWorkflow" => m.name \in DOMAIN CleanupKinds
                 /\ MainObj(m) = <<Target[CleanupKinds[m.name]], m.arg>>
BY Tables DEF ProvisionMethods, Method, MainVerb, MainObj, Repo

\* A method's last request does its work, an earlier one reads.
LEMMA RequestsAre ==
    ASSUME NEW m \in Methods, NEW via \in {"cli", "rest"}, NEW k \in 1..Len(Requests(m, via))
    PROVE  LET r == Requests(m, via)
           IN  /\ Len(r) \in Nat
               /\ \/ (k = Len(r) /\ r[k] = [verb |-> MainVerb(m), obj |-> MainObj(m)])
                  \/ (/\ k + 1 \in 1..Len(r) /\ k # Len(r) /\ r[k].verb = "GET"
                      /\ m.name \in {"SetActionsSecret", "RemoveGitHubWorkflowFile"}
                      /\ m.name = "RemoveGitHubWorkflowFile" => r[k].obj = <<"file", 0>>)
<1>1. CASE m.name = "SetActionsSecret"
  BY <1>1, Tables DEF Requests, SetActionsSecret, Request, MainVerb, MainObj
<1>2. CASE m.name = "RemoveGitHubWorkflowFile"
  <2>1. m.arg = 0
    BY <1>2, Tables, StepFields DEF Methods, RemoveMethods, ProvisionMethods, GetMethods, Method, StepRunner
  <2>2. QED
    BY <1>2, <2>1, Tables DEF Requests, RemoveGitHubWorkflowFile, Request, MainVerb, MainObj
<1>3. CASE m.name \notin {"SetActionsSecret", "RemoveGitHubWorkflowFile"}
  <2>1. m.name = "CommitWorkflowFile" => m.arg = 0
    BY Tables, StepFields DEF Methods, RemoveMethods, ProvisionMethods, GetMethods, Method, StepRunner
  <2>2. Requests(m, via) = <<[verb |-> MainVerb(m), obj |-> MainObj(m)]>>
    BY <1>3, <2>1, Tables DEF Requests, Request, MainVerb, MainObj
  <2>3. QED
    BY <2>2
<1>4. QED
  BY <1>1, <1>2, <1>3

\* A method on the wire.
OnWire(m) ==
    /\ m \in Methods /\ wire.method = m /\ wire.via \in {"cli", "rest"}
    /\ wire.k \in 1..Len(Requests(m, wire.via))
LastRequest == wire.k = Len(Requests(wire.method, wire.via))

\* The request under way.
LEMMA Requested ==
    ASSUME NEW m, OnWire(m)
    PROVE  /\ m \in Methods
           /\ LastRequest => req.verb = MainVerb(m) /\ req.obj = MainObj(m)
           /\ ~LastRequest =>
                 /\ wire.k + 1 \in 1..Len(Requests(m, wire.via)) /\ req.verb = "GET"
                 /\ m.name \in {"SetActionsSecret", "RemoveGitHubWorkflowFile"}
                 /\ m.name = "RemoveGitHubWorkflowFile" => req.obj = <<"file", 0>>
<1> DEFINE r == Requests(m, wire.via)
<1>1. m \in Methods /\ wire.via \in {"cli", "rest"} /\ wire.k \in 1..Len(Requests(m, wire.via))
  BY DEF OnWire
<1>2. \/ (wire.k = Len(r) /\ r[wire.k] = [verb |-> MainVerb(m), obj |-> MainObj(m)])
      \/ (/\ wire.k + 1 \in 1..Len(r) /\ wire.k # Len(r) /\ r[wire.k].verb = "GET"
          /\ m.name \in {"SetActionsSecret", "RemoveGitHubWorkflowFile"}
          /\ m.name = "RemoveGitHubWorkflowFile" => r[wire.k].obj = <<"file", 0>>)
  BY <1>1, RequestsAre
<1>3. req = r[wire.k] /\ (LastRequest <=> wire.k = Len(r))
  BY DEF req, LastRequest, OnWire
<1> HIDE DEF r
<1>4. QED
  BY <1>1, <1>2, <1>3 DEF r

\* The kinds of methods.
LEMMA MethodIs ==
    ASSUME NEW m \in Methods
    PROVE  /\ m.name \in DOMAIN Creates \cup DOMAIN Puts \cup DOMAIN Removes \cup DOMAIN Gets
           /\ MainObj(m)[1] = "repo" <=> m.name \in {"CreateRepo", "RemoveGitHubRepo"}
           /\ MainObj(m)[1] = "run" => m.name \in {"DispatchWorkflow", "GetLatestRun"}
           /\ m.name = "DispatchWorkflow" => MainObj(m)[1] = "run"
           /\ MainVerb(m) = "DELETE" <=> m.name \in DOMAIN Removes
           /\ MainVerb(m) = "GET" <=> m.name \in DOMAIN Gets
           /\ MainVerb(m) = "POST" <=> m.name \in DOMAIN Creates
           /\ MainVerb(m) = "PUT" <=> m.name \in DOMAIN Puts
           /\ m.name \in {"CreateRepo", "RemoveGitHubRepo"} => MainObj(m) = Repo
<1>1. m.name \in DOMAIN Creates \cup DOMAIN Puts \cup DOMAIN Removes \cup DOMAIN Gets
  BY Tables, StepFields DEF Methods, RemoveMethods, ProvisionMethods, GetMethods, Method, StepRunner
<1>2. m.name \in {"CreateRepo", "RemoveGitHubRepo"} => m.arg = 0
  BY Tables, StepFields DEF Methods, RemoveMethods, ProvisionMethods, GetMethods, Method, StepRunner
<1>3. QED
  BY <1>1, <1>2, Tables DEF MainObj, MainVerb, Repo

\* What a request that is carried out does to GitHub.
LEMMA Carried ==
    ASSUME NEW m, OnWire(m), CarriedOut
    PROVE  /\ \/ hub' = hub
              \/ (MainVerb(m) \in {"POST", "PUT"} /\ hub' = hub \cup {MainObj(m)})
              \/ (m.name = "RemoveGitHubRepo" /\ hub' = {})
              \/ (MainVerb(m) = "DELETE" /\ m.name # "RemoveGitHubRepo" /\ hub' = hub \ {MainObj(m)})
           /\ Verdict = "ok" /\ LastRequest =>
              /\ MainVerb(m) \in {"POST", "PUT"} /\ m.name # "DispatchWorkflow" =>
                    hub' = hub \cup {MainObj(m)} /\ (MainVerb(m) = "POST" => MainObj(m) \notin hub)
              /\ m.name = "RemoveGitHubRepo" => hub' = {}
<1>1. CASE Verdict # "ok"
  BY <1>1 DEF CarriedOut
<1>2. CASE Verdict = "ok"
  <2>1. CASE req.verb = "GET"
    <3>1. hub' = hub
      BY <1>2, <2>1 DEF CarriedOut
    <3>2. LastRequest => MainVerb(m) = "GET"
      BY <2>1, Requested
    <3>3. QED
      BY <3>1, <3>2, MethodIs, Tables DEF OnWire
  <2>2. CASE req.verb # "GET"
    <3>1. req.verb = MainVerb(m) /\ req.obj = MainObj(m)
      BY <2>2, Requested
    <3>2. MainVerb(m) = "POST" => MainObj(m) \notin hub
      BY <1>2, <3>1 DEF Verdict
    <3>3. MainVerb(m) \in {"POST", "PUT", "DELETE"}
      BY <2>2, <3>1, MethodIs, Tables DEF OnWire
    <3>4. CASE MainVerb(m) = "POST" /\ MainObj(m)[1] = "run"
      <4>1. hub' = hub /\ m.name = "DispatchWorkflow"
        BY <1>2, <3>1, <3>4, MethodIs, Tables DEF CarriedOut, OnWire
      <4>2. QED
        BY <4>1
    <3>5. CASE MainVerb(m) \in {"POST", "PUT"} /\ MainObj(m)[1] # "run"
      <4>1. hub' = hub \cup {MainObj(m)} /\ m.name # "RemoveGitHubRepo"
        BY <1>2, <3>1, <3>5, MethodIs, Tables DEF CarriedOut, OnWire
      <4>2. QED
        BY <3>2, <3>5, <4>1
    <3>6. CASE MainVerb(m) = "DELETE" /\ MainObj(m)[1] = "repo"
      <4>1. hub' = {} /\ m.name = "RemoveGitHubRepo"
        BY <1>2, <3>1, <3>6, MethodIs, Tables DEF CarriedOut, OnWire
      <4>2. QED
        BY <3>6, <4>1
    <3>7. CASE MainVerb(m) = "DELETE" /\ MainObj(m)[1] # "repo"
      <4>1. hub' = hub \ {MainObj(m)} /\ m.name # "RemoveGitHubRepo"
        BY <1>2, <3>1, <3>7, MethodIs, Tables DEF CarriedOut, OnWire
      <4>2. QED
        BY <3>7, <4>1
    <3>8. QED
      BY <3>3, <3>4, <3>5, <3>6, <3>7, MethodIs, Tables DEF OnWire
  <2>3. QED
    BY <2>1, <2>2
<1>3. QED
  BY <1>1, <1>2

\* What the caller makes of an answer.
LEMMA Readings ==
    ASSUME NEW m, OnWire(m), NEW answer, NEW err \in Reading(answer)
    PROVE  /\ m.name \notin DOMAIN Gets /\ err = "nil" => answer \in {"ok", "blank", "garbled"}
           /\ m.name \notin DOMAIN Gets /\ answer = "ok" => err = "nil"
<1> SUFFICES ASSUME m.name \notin DOMAIN Gets
             PROVE  (err = "nil" => answer \in {"ok", "blank", "garbled"}) /\ (answer = "ok" => err = "nil")
  OBVIOUS
<1>1. err = IF wire.via = "rest" THEN doOnce(answer) ELSE ghAPI(answer)
  BY Tables DEF Reading, OnWire
<1>2. mapHTTPError(answer) # "nil" /\ wrapCLIError(answer) # "nil"
  BY DEF mapHTTPError, wrapCLIError
<1>3. QED
  BY <1>1, <1>2 DEF doOnce, ghAPI

\* The wire after an answer.
LEMMA Settles ==
    ASSUME NEW m, OnWire(m), DOMAIN wire = WireFields, wire.pc = "send", wire.id \in {0, 1},
           NEW answer, Settle(answer)
    PROVE  /\ DOMAIN wire' = WireFields /\ wire'.method = m /\ wire'.via = wire.via
           /\ wire'.pc \in {"send", "pause", "over"} /\ wire'.id \in {0, 1}
           /\ wire'.id # wire.id => answer = "ok" /\ m.name = "AddDeployKey"
           /\ wire'.k \in 1..Len(Requests(m, wire.via))
           /\ \E err \in Reading(answer) :
                 /\ wire'.pc = "over" /\ wire'.err = "nil" => err = "nil" /\ LastRequest
                 /\ err = "nil" /\ LastRequest => wire'.pc = "over" /\ wire'.err = "nil"
                 /\ err = "nil" /\ ~LastRequest => wire'.pc = "send"
<1>1. PICK err \in Reading(answer) : wire' = doJSON(WithValue(answer), err)
  BY DEF Settle
<1> DEFINE w == WithValue(answer)
<1>2. /\ DOMAIN w = WireFields /\ w.method = m /\ w.via = wire.via /\ w.pc = "send" /\ w.k = wire.k
      /\ w.id \in {0, 1} /\ (w.id # wire.id => answer = "ok" /\ m.name = "AddDeployKey")
  BY DEF WithValue, OnWire, WireFields
<1> HIDE DEF w
<1>3. wire' = doJSON(w, err)
  BY <1>1 DEF w
<1> DEFINE r == Requests(m, wire.via)
<1>4. Len(r) \in Nat /\ wire.k \in 1..Len(r) /\ (wire.k # Len(r) => wire.k + 1 \in 1..Len(r) /\ wire.k < Len(r))
  BY RequestsAre DEF OnWire
<1>5. LastRequest <=> wire.k = Len(r)
  BY DEF LastRequest, OnWire
<1> HIDE DEF r
<1>6. CASE isRetriable(err) /\ wire' = [w EXCEPT !.pc = "pause"]
  <2>1. err # "nil"
    BY <1>6 DEF isRetriable
  <2>2. QED
    BY <1>1, <1>2, <1>4, <1>6, <2>1 DEF WireFields, r
<1>7. CASE err = "nil" /\ wire.k < Len(r) /\ wire' = [w EXCEPT !.k = w.k + 1, !.attempt = 1]
  <2>1. /\ DOMAIN wire' = WireFields /\ wire'.method = m /\ wire'.via = wire.via /\ wire'.pc = "send"
        /\ wire'.id = w.id /\ wire'.k = w.k + 1
    BY <1>2, <1>7 DEF WireFields
  <2>2. wire'.k \in 1..Len(r) /\ ~LastRequest
    BY <1>2, <1>4, <1>5, <1>7, <2>1
  <2>3. QED
    BY <1>1, <1>2, <1>7, <2>1, <2>2 DEF r
<1>8. CASE wire' = Over(w, err) /\ (err = "nil" => wire.k = Len(r))
  <2>1. /\ DOMAIN wire' = WireFields /\ wire'.method = m /\ wire'.via = wire.via /\ wire'.pc = "over"
        /\ wire'.id = w.id /\ wire'.k = wire.k /\ (wire'.err = "nil" <=> err = "nil")
    BY <1>2, <1>8 DEF Over, DispatchWorkflow, WireFields
  <2>2. QED
    BY <1>1, <1>2, <1>4, <1>5, <1>8, <2>1 DEF r
<1>9. QED
  BY <1>2, <1>3, <1>4, <1>6, <1>7, <1>8 DEF doJSON, isRetriable, r
-----------------------------------------------------------------------------
(* The transport's steps.                                                  *)

\* Every method has a request.
LEMMA RequestsSome ==
    ASSUME NEW m \in Methods, NEW via \in {"cli", "rest"}
    PROVE  1 \in 1..Len(Requests(m, via))
<1>1. CASE m.name = "SetActionsSecret"
  BY <1>1, Tables DEF Requests, SetActionsSecret
<1>2. CASE m.name = "RemoveGitHubWorkflowFile"
  BY <1>2, Tables DEF Requests, RemoveGitHubWorkflowFile
<1>3. CASE m.name \notin {"SetActionsSecret", "RemoveGitHubWorkflowFile"}
  BY <1>3, Tables DEF Requests
<1>4. QED
  BY <1>1, <1>2, <1>3

\* The call of the job under way.
LEMMA CurrentIs ==
    ASSUME Typed, Placed, job.pc \in {"call", "wait"}
    PROVE  /\ Current \in Methods
           /\ job.kind \in {"provision", "rollback"} \cup DOMAIN Gets
           /\ job.kind = "provision" =>
                 /\ Current = Calls(job.plan)[job.i] /\ Current \in ProvisionMethods
                 /\ job.plan \in Plans /\ job.i \in DOMAIN Calls(job.plan)
           /\ job.kind = "rollback" => job.step \in Step /\ Current = StepRunner(job.step)
           /\ job.kind \in DOMAIN Gets => Current.name = job.kind
<1>1. job.kind \in {"provision", "rollback"} \cup DOMAIN Gets
  BY DEF Typed, Placed
<1>2. ASSUME job.kind = "provision"
      PROVE  /\ Current = Calls(job.plan)[job.i] /\ Current \in ProvisionMethods
             /\ job.plan \in Plans /\ job.i \in DOMAIN Calls(job.plan)
  <2>1. job.plan \in Plans /\ job.i \in DOMAIN Calls(job.plan)
    BY <1>2 DEF Placed, Providing
  <2>2. Current = Calls(job.plan)[job.i]
    BY <1>2 DEF Current
  <2>3. QED
    BY <2>1, <2>2, CallsShape
<1>3. ASSUME job.kind = "rollback" PROVE job.step \in Step /\ Current = StepRunner(job.step)
  BY <1>3 DEF Placed, Rolling, Current
<1>4. ASSUME job.kind \in DOMAIN Gets PROVE Current = Method(job.kind, 0) /\ Current.name = job.kind
  BY <1>4, Tables DEF Current, Method
<1>5. Current \in Methods
  BY <1>1, <1>2, <1>3, <1>4 DEF Methods, RemoveMethods, GetMethods
<1>6. QED
  BY <1>1, <1>2, <1>3, <1>4, <1>5

\* A job that waits has its method on the wire.
LEMMA Waiting ==
    ASSUME Typed, Placed, job.pc = "wait"
    PROVE  OnWire(Current)
BY CurrentIs DEF Placed, OnWire

\* A good stack that is not empty, or one with the step in hand, is of a
\* repository that is there.
LEMMA RepoThere ==
    ASSUME Typed, Stacked
    PROVE  stack # <<>> \/ saved # <<>> => Repo \in hub
<1>1. ASSUME NEW s \in Step, s.kind = "github_repo", Held(s) PROVE Repo \in hub
  BY <1>1, StepFields, Tables DEF Held, Unread, Obj, Repo
<1>2. stack # <<>> => Repo \in hub
  BY <1>1, GoodBottom DEF Typed, Stacked
<1>3. saved # <<>> => Repo \in hub
  BY <1>1, GoodBottom DEF Typed, Stacked
<1>4. QED
  BY <1>2, <1>3

\* Whatever becomes of a request, what the steps on the stack and in the
\* file would remove stays, a repository that was there before stays, and
\* only CreateRepo makes one.
LEMMA HubKeeps ==
    ASSUME Inv, job.pc = "wait", hub' = hub \/ CarriedOut
    PROVE  /\ \A s \in Members(stack) \cup Members(saved) : Unread(s) \/ Obj(s) \in hub'
           /\ before # {} => Repo \in hub'
           /\ Repo \in hub' /\ Repo \notin hub => Current.name = "CreateRepo"
<1> DEFINE m == Current
<1>1. OnWire(m) /\ m \in Methods
  BY Waiting, CurrentIs DEF Inv
<1>2. \/ hub' = hub
      \/ (MainVerb(m) \in {"POST", "PUT"} /\ hub' = hub \cup {MainObj(m)})
      \/ (m.name = "RemoveGitHubRepo" /\ hub' = {})
      \/ (MainVerb(m) = "DELETE" /\ m.name # "RemoveGitHubRepo" /\ hub' = hub \ {MainObj(m)})
  BY <1>1, Carried
<1>3. \A s \in Members(stack) \cup Members(saved) : Unread(s) \/ Obj(s) \in hub
  BY DEF Inv, Stacked, Held
<1>4. ASSUME MainVerb(m) = "DELETE"
      PROVE  Rolling /\ job.step \in Step /\ m = StepRunner(job.step)
  <2>1. m.name \in DOMAIN Removes
    BY <1>1, <1>4, MethodIs
  <2>2. job.kind # "provision" /\ job.kind \notin DOMAIN Gets
    BY <2>1, CurrentIs, ProvisionIs, Tables DEF Inv
  <2>3. QED
    BY <2>2, CurrentIs DEF Inv, Rolling
<1>5. m.name = "RemoveGitHubRepo" => MainVerb(m) = "DELETE"
  BY <1>1, MethodIs, Tables
<1>6. ASSUME Rolling, job.step \in Step
      PROVE  /\ before = {} /\ saved = stack
             /\ job.step.kind = "github_repo" <=> stack = <<>>
             /\ \A t \in Members(stack) : Obj(t) # Obj(job.step)
  <2>1. Good(Append(stack, job.step)) /\ stack \in Seq(Step) /\ saved = stack
    BY <1>6 DEF Inv, Typed, Handed
  <2>2. before = {}
    BY <1>6 DEF Inv, Guarded
  <2>3. QED
    BY <1>6, <2>1, <2>2, GoodTop
<1>7. CASE hub' = hub
  BY <1>3, <1>7 DEF Inv, Guarded
<1>8. CASE MainVerb(m) \in {"POST", "PUT"} /\ hub' = hub \cup {MainObj(m)}
  <2>1. MainObj(m) = Repo => m.name = "CreateRepo"
    <3>1. MainObj(m) = Repo => MainObj(m)[1] = "repo"
      BY DEF Repo
    <3>2. QED
      BY <1>1, <1>8, <3>1, MethodIs, Tables
  <2>2. QED
    BY <1>3, <1>8, <2>1 DEF Inv, Guarded
<1>9. CASE m.name = "RemoveGitHubRepo" /\ hub' = {}
  <2>1. stack = <<>> /\ saved = <<>> /\ before = {}
    BY <1>4, <1>5, <1>6, <1>9, RunnerIs
  <2>2. QED
    BY <1>9, <2>1, GoodBottom
<1>10. CASE MainVerb(m) = "DELETE" /\ m.name # "RemoveGitHubRepo" /\ hub' = hub \ {MainObj(m)}
  <2>1. before = {} /\ saved = stack /\ MainObj(m) = Obj(job.step)
        /\ \A t \in Members(stack) : Obj(t) # Obj(job.step)
    BY <1>4, <1>6, <1>10, RunnerIs
  <2>2. QED
    BY <1>3, <1>10, <2>1
<1>11. QED
  BY <1>2, <1>7, <1>8, <1>9, <1>10

\* A wire that moved on under a waiting job keeps the invariant, if what it
\* says of the end is right.
LEMMA WireMoves ==
    ASSUME Inv, job.pc = "wait", UNCHANGED deployVars, hub' = hub \/ CarriedOut,
           DOMAIN wire' = WireFields, wire'.pc \in {"enter", "send", "pause", "over"},
           wire'.method = wire.method, wire'.via \in {"cli", "rest"}, wire'.id \in {0, 1},
           wire'.k \in 1..Len(Requests(wire.method, wire'.via)), wire'.pc = "enter" => wire'.k = 1,
           client' = client, wire'.via = "rest" => ~client.gh, faults' \in Nat, faults <= faults', Settled', Answering'
    PROVE  Inv'
<1>1. before' = before /\ stack' = stack /\ saved' = saved /\ job' = job /\ jobs' = jobs /\ ran' = ran
  BY DEF deployVars
<1>2. told' = told
  BY Zenon DEF deployVars
<1>3. /\ \A s \in Members(stack) \cup Members(saved) : Unread(s) \/ Obj(s) \in hub'
      /\ before # {} => Repo \in hub'
      /\ Repo \in hub' /\ Repo \notin hub => Current.name = "CreateRepo"
  BY HubKeeps
<1>4. Typed'
  BY <1>1 DEF Inv, Typed
<1>5. Placed'
  BY <1>1 DEF Inv, Placed, Current, Providing, Rolling, MadeBy
<1>6. Stacked'
  BY <1>1, <1>3 DEF Inv, Stacked, Held
<1>7. Moments'
  BY <1>1 DEF Inv, Moments, Providing
<1>8. Handed'
  BY <1>1 DEF Inv, Handed, Providing, Rolling, MadeBy
<1>9. Guarded'
  BY <1>1, <1>3 DEF Inv, Guarded, Rolling
<1>10. NoOrphan'
  <2>1. InHand' <=> InHand
    BY <1>1 DEF InHand, IsRepo, Current
  <2>2. Repo \notin hub /\ Repo \in hub' => InHand
    BY <1>3 DEF InHand
  <2>3. Repo \in hub \ before => told \/ InHand \/ stack # <<>> \/ saved # <<>>
    BY DEF Inv, NoOrphan
  <2>4. QED
    BY <1>1, <1>2, <2>1, <2>2, <2>3, Zenon DEF NoOrphan
<1>11. QED
  BY <1>4, <1>5, <1>6, <1>7, <1>8, <1>9, <1>10 DEF Inv

\* The facts of a method that returned without an error: its last request
\* was carried out.
LEMMA SettledStep ==
    ASSUME Inv, job.pc = "wait", job' = job, stack' = stack, saved' = saved, before' = before,
           wire'.method = wire.method, wire'.id \in {0, 1},
           \/ wire'.pc # "over" \/ wire'.err # "nil" \/ Current.name \in DOMAIN Gets
           \/ (CarriedOut /\ Verdict = "ok" /\ LastRequest)
    PROVE  Settled'
<1> DEFINE m == Current
<1>1. OnWire(m) /\ m \in Methods /\ wire.method = m
  BY Waiting, CurrentIs DEF Inv, Placed
<1>2. CASE wire'.pc # "over" \/ wire'.err # "nil"
  BY <1>2 DEF Settled
<1>3. CASE m.name \in DOMAIN Gets
  <2>1. job.kind # "provision"
    BY <1>3, CurrentIs, ProvisionIs, Tables DEF Inv
  <2>2. QED
    BY <1>1, <1>3, <2>1, Tables DEF Settled
<1>4. CASE m.name \notin DOMAIN Gets /\ CarriedOut /\ Verdict = "ok" /\ LastRequest
  <2>1. /\ MainVerb(m) \in {"POST", "PUT"} /\ m.name # "DispatchWorkflow" =>
              hub' = hub \cup {MainObj(m)} /\ (MainVerb(m) = "POST" => MainObj(m) \notin hub)
        /\ m.name = "RemoveGitHubRepo" => hub' = {}
    BY <1>1, <1>4, Carried
  <2>2. ASSUME job.kind = "provision", m.name # "DispatchWorkflow"
        PROVE  LET s == CleanupStep(m, wire'.id, <<0, 0>>) IN Unread(s) \/ Obj(s) \in hub'
    <3>1. /\ m \in ProvisionMethods /\ MainVerb(m) \in {"POST", "PUT"}
          /\ m.name = "AddDeployKey" => m.arg = 1
          /\ MainObj(m) = <<Target[CleanupKinds[m.name]], m.arg>>
      BY <2>2, CurrentIs, ProvisionIs DEF Inv
    <3>2. MainObj(m) \in hub'
      BY <2>1, <2>2, <3>1
    <3> DEFINE s == CleanupStep(m, wire'.id, <<0, 0>>)
    <3>3. s.kind = CleanupKinds[m.name] /\ s.arg = IF m.name = "AddDeployKey" THEN wire'.id ELSE m.arg
      BY DEF CleanupStep
    <3> HIDE DEF s
    <3>4. Unread(s) \/ Obj(s) = MainObj(m)
      BY <3>1, <3>3, Tables DEF Unread, Obj
    <3>5. QED
      BY <3>2, <3>4 DEF s
  <2>3. ASSUME m.name = "CreateRepo" PROVE stack = <<>> /\ saved = <<>> /\ before = {}
    <3>1. Repo \notin hub
      BY <1>1, <2>1, <2>3, MethodIs, Tables
    <3>2. QED
      BY <3>1, RepoThere DEF Inv, Guarded
  <2>4. m.name = "RemoveGitHubRepo" => Repo \notin hub'
    BY <2>1
  <2>5. (wire.method)' = m
    BY <1>1
  <2>6. QED
    BY <2>2, <2>3, <2>4, <2>5 DEF Settled, Held
<1>5. QED
  BY <1>2, <1>3, <1>4

\* A clean rollback's request is answered with "ok", unless its key's id was
\* never read.
LEMMA CleanVerdict ==
    ASSUME Inv, job.pc = "wait", Rolling, Held(job.step), ~Unread(job.step)
    PROVE  Verdict = "ok"
<1> DEFINE m == Current
<1>1. OnWire(m) /\ m \in Methods /\ m = StepRunner(job.step) /\ job.step \in Step
  BY Waiting, CurrentIs DEF Inv, Rolling
<1>2. /\ m.name \in DOMAIN Removes /\ MainVerb(m) = "DELETE" /\ MainObj(m) = Obj(job.step)
      /\ m.name = "RemoveGitHubWorkflowFile" <=> job.step.kind = "github_workflow_file"
  BY <1>1, RunnerIs
<1>3. Obj(job.step) \in hub
  BY DEF Held
<1>4. Repo \in hub
  <2>1. Good(Append(stack, job.step)) /\ stack \in Seq(Step)
    BY DEF Inv, Handed, Typed
  <2>2. job.step.kind = "github_repo" <=> stack = <<>>
    BY <1>1, <2>1, GoodTop
  <2>3. CASE stack # <<>>
    BY <2>3, RepoThere DEF Inv
  <2>4. CASE stack = <<>>
    BY <1>1, <1>3, <2>2, <2>4, StepFields, Tables DEF Obj, Repo
  <2>5. QED
    BY <2>3, <2>4
<1>5. CASE LastRequest
  <2>1. req.verb = "DELETE" /\ req.obj \in hub
    BY <1>1, <1>2, <1>3, <1>5, Requested
  <2>2. QED
    BY <1>4, <2>1 DEF Verdict, Repo
<1>6. CASE ~LastRequest
  <2>1. req.verb = "GET" /\ m.name = "RemoveGitHubWorkflowFile" /\ req.obj = <<"file", 0>>
    BY <1>1, <1>2, <1>6, Requested, Tables
  <2>2. <<"file", 0>> \in hub
    BY <1>1, <1>2, <1>3, <2>1, StepFields, Tables DEF Obj
  <2>3. QED
    BY <1>4, <2>1, <2>2 DEF Verdict, Repo
<1>7. QED
  BY <1>5, <1>6

\* An answer to a waiting job's request.
LEMMA SettleStep ==
    ASSUME Inv, job.pc = "wait", wire.pc = "send", UNCHANGED deployVars, hub' = hub \/ CarriedOut,
           NEW answer, Settle(answer),
           answer \in {"ok", "blank", "garbled"} => CarriedOut /\ Verdict = "ok",
           client' = client, faults' \in Nat, faults <= faults', Answering'
    PROVE  Inv'
<1> DEFINE m == Current
<1>1. OnWire(m) /\ wire.method = m /\ DOMAIN wire = WireFields /\ wire.id \in {0, 1}
  BY Waiting DEF Inv, Typed, Placed
<1>2. /\ DOMAIN wire' = WireFields /\ wire'.method = m /\ wire'.via = wire.via
      /\ wire'.pc \in {"send", "pause", "over"} /\ wire'.id \in {0, 1}
      /\ wire'.k \in 1..Len(Requests(m, wire.via))
      /\ \E err \in Reading(answer) :
            wire'.pc = "over" /\ wire'.err = "nil" => err = "nil" /\ LastRequest
  BY <1>1, Settles
<1>3. m.name \in DOMAIN Gets \/ wire'.pc # "over" \/ wire'.err # "nil"
      \/ (CarriedOut /\ Verdict = "ok" /\ LastRequest)
  BY <1>1, <1>2, Readings
<1>4. job' = job /\ stack' = stack /\ saved' = saved /\ before' = before
  BY DEF deployVars
<1>5. Settled'
  BY <1>1, <1>2, <1>3, <1>4, SettledStep
<1>6. wire.via \in {"cli", "rest"} /\ (wire.via = "rest" => ~client.gh)
  BY DEF Inv, Placed
<1>7. QED
  BY <1>1, <1>2, <1>5, <1>6, WireMoves

\* Anything that is not an answer in time leaves no clean rollback.
LEMMA NotClean ==
    ASSUME job' = job, faults \in Nat, job.faults \in 0..faults,
           faults' = faults + 1 \/ (ctx = "done" /\ ctx' = ctx)
    PROVE  Answering'
BY DEF Answering, Clean

\* An answer in time: the one way for a method to succeed with its value read.
LEMMA AnsweredStep ==
    ASSUME Inv, job.pc = "wait", UNCHANGED deployVars, Answered
    PROVE  Inv'
<1> DEFINE m == Current
<1>1. /\ wire.pc = "send" /\ client' = client /\ ctx' = ctx /\ ctx = "live" /\ CarriedOut
      /\ Settle(Verdict) /\ faults' = faults
  BY DEF Answered, Sending
<1>2. job' = job
  BY DEF deployVars
<1>3. faults \in Nat
  BY DEF Inv, Typed
<1>4. Verdict \in {"ok", "404", "422", "422 already"}
  BY DEF Verdict
<1>5. Answering'
  <2> SUFFICES ASSUME Clean, ~Unread(job.step)
               PROVE  /\ wire'.pc # "over" => Obj(job.step) \in hub'
                      /\ wire'.pc = "over" => wire'.err = "nil"
    <3>1. Clean' => Clean
      BY <1>1, <1>2 DEF Clean
    <3>2. Clean => \A s \in job.failed : Unread(s)
      BY DEF Inv, Answering
    <3>3. QED
      BY <1>2, <3>1, <3>2 DEF Answering, Held
  <2>1. Rolling /\ Held(job.step) /\ Obj(job.step) \in hub
    BY <1>1 DEF Clean, Rolling, Inv, Answering, Held
  <2>2. Verdict = "ok"
    BY <2>1, CleanVerdict
  <2>3. OnWire(m) /\ m = StepRunner(job.step) /\ job.step \in Step
    BY <2>1, Waiting, CurrentIs DEF Inv, Rolling
  <2>4. m.name \notin DOMAIN Gets
    BY <2>3, RunnerIs, Tables
  <2>5. DOMAIN wire = WireFields /\ wire.id \in {0, 1}
    BY DEF Inv, Typed, Placed
  <2>6. PICK err \in Reading(Verdict) :
           /\ err = "nil" /\ LastRequest => wire'.pc = "over" /\ wire'.err = "nil"
           /\ err = "nil" /\ ~LastRequest => wire'.pc = "send"
    BY <1>1, <2>3, <2>5, Settles
  <2>7. err = "nil"
    BY <2>2, <2>3, <2>4, <2>6, Readings
  <2>8. ~LastRequest => hub' = hub
    <3>1. ~LastRequest => req.verb = "GET"
      BY <2>3, Requested
    <3>2. req.verb = "GET" => hub' = hub
      BY <1>1 DEF CarriedOut
    <3>3. QED
      BY <3>1, <3>2
  <2>9. QED
    BY <2>1, <2>6, <2>7, <2>8
<1>6. /\ hub' = hub \/ CarriedOut
      /\ Verdict \in {"ok", "blank", "garbled"} => CarriedOut /\ Verdict = "ok"
      /\ faults' \in Nat /\ faults <= faults'
  <2>1. Verdict \in {"ok", "blank", "garbled"} => Verdict = "ok"
    BY <1>4
  <2>2. faults' \in Nat /\ faults <= faults'
    BY <1>1, <1>3
  <2>3. QED
    BY <1>1, <2>1, <2>2, Zenon
<1>7. QED
  BY <1>1, <1>5, <1>6, SettleStep, Zenon

\* The choice of a transport.
LEMMA FallbackStep ==
    ASSUME Inv, job.pc = "wait", UNCHANGED deployVars, withFallback
    PROVE  Inv'
<1> DEFINE m == Current
<1>1. OnWire(m) /\ m \in Methods /\ wire.method = m /\ DOMAIN wire = WireFields /\ wire.id \in {0, 1}
  BY Waiting, CurrentIs DEF Inv, Typed, Placed
<1>2. /\ wire.pc = "enter" /\ client' = client /\ hub' = hub /\ ctx' = ctx /\ faults' = faults
      /\ wire.k = 1
  BY DEF withFallback, Inv, Placed
<1>3. job' = job /\ stack' = stack /\ saved' = saved /\ before' = before
  BY DEF deployVars
<1> DEFINE Ends(err) == wire' = Over(wire, err)
           none == m.name \in {"GetWorkflowSteps", "GetWorkflowLogs"} /\ Listed = <<>>
<1>4. \/ (m.name \in DOMAIN Gets /\ \E err \in {"runNotFound", "patScopeInsufficient"} : Ends(err))
      \/ (~client.gh /\ client.rest # "token" /\ \E err \in {"ghUnavailable", "patInvalid"} : Ends(err))
      \/ wire' = [wire EXCEPT !.pc = "send"]
      \/ (~client.gh /\ wire' = [wire EXCEPT !.via = "rest"])
  <2>1. CASE wire.via = "cli" /\ none
    BY <1>1, <2>1, Tables DEF withFallback
  <2>2. CASE wire.via = "cli" /\ ~none
    BY <1>1, <2>2, Tables DEF withFallback
  <2>3. CASE wire.via = "rest"
    BY <1>1, <2>3, Tables DEF withFallback, restGetWorkflowLogs, Inv, Placed
  <2>4. QED
    BY <1>1, <2>1, <2>2, <2>3 DEF OnWire
<1> HIDE DEF none
<1>6. CASE wire' = [wire EXCEPT !.pc = "send"] \/ (~client.gh /\ wire' = [wire EXCEPT !.via = "rest"])
  <2>1. /\ DOMAIN wire' = WireFields /\ wire'.pc \in {"enter", "send"} /\ wire'.method = m
        /\ wire'.via \in {wire.via, "rest"} /\ wire'.id = wire.id /\ wire'.k = 1
        /\ (wire'.via # wire.via => ~client.gh)
    BY <1>1, <1>2, <1>6 DEF WireFields
  <2>2. /\ wire'.via \in {"cli", "rest"} /\ (wire'.via = "rest" => ~client.gh)
    BY <2>1 DEF Inv, Placed
  <2>3. wire'.k \in 1..Len(Requests(wire.method, wire'.via))
    BY <1>1, <2>1, <2>2, RequestsSome
  <2>4. Settled'
    BY <1>1, <1>3, <2>1, SettledStep
  <2>5. Answering'
    BY <1>2, <1>3, <2>1 DEF Inv, Answering, Clean, Held
  <2>6. faults' \in Nat /\ faults <= faults'
    BY <1>2 DEF Inv, Typed
  <2>7. QED
    BY <1>1, <1>2, <2>1, <2>2, <2>3, <2>4, <2>5, <2>6, WireMoves
<1>7. CASE \E err \in {"runNotFound", "patScopeInsufficient", "ghUnavailable", "patInvalid"} : Ends(err)
  <2>1. /\ DOMAIN wire' = WireFields /\ wire'.pc = "over" /\ wire'.method = m
        /\ wire'.via = wire.via /\ wire'.id = wire.id /\ wire'.k = wire.k /\ wire'.err # "nil"
    BY <1>1, <1>7 DEF WireFields, Over, DispatchWorkflow
  <2>2. /\ wire.via \in {"cli", "rest"} /\ (wire.via = "rest" => ~client.gh)
        /\ wire.k \in 1..Len(Requests(wire.method, wire.via))
    BY DEF Inv, Placed
  <2>3. Settled'
    BY <1>1, <1>3, <2>1, SettledStep
  <2>4. ~Clean'
    <3>1. ASSUME job.kind = "rollback" PROVE m.name \notin DOMAIN Gets /\ wire' # [wire EXCEPT !.pc = "send"]
      <4>1. wire' # [wire EXCEPT !.pc = "send"]
        BY <1>1, <2>1 DEF WireFields
      <4>2. QED
        BY <3>1, <4>1, CurrentIs, RunnerIs, Tables DEF Inv
    <3>2. wire' # [wire EXCEPT !.via = "rest"]
      BY <1>1, <1>2, <2>1 DEF WireFields
    <3>3. job.kind = "rollback" => ~client.gh /\ client.rest # "token"
      BY <1>4, <3>1, <3>2
    <3>4. QED
      BY <1>2, <1>3, <3>3 DEF Clean
  <2>5. Answering'
    BY <2>4 DEF Answering
  <2>6. faults' \in Nat /\ faults <= faults'
    BY <1>2 DEF Inv, Typed
  <2>7. QED
    BY <1>1, <1>2, <2>1, <2>2, <2>3, <2>5, <2>6, WireMoves
<1>8. QED
  BY <1>4, <1>6, <1>7

\* The steps of the transport.
LEMMA TransportStep ==
    ASSUME Inv, UNCHANGED deployVars, Transport
    PROVE  Inv'
<1>1. job.pc = "wait"
  <2>1. wire.pc # "off"
    BY Zenon DEF Transport, withFallback, Answered, Refused, Lost, Unreadable, Cut, Pause, PauseCancelled, Sending
  <2>2. NoWire.pc = "off"
    BY DEF NoWire
  <2>3. QED
    BY <2>1, <2>2 DEF Inv, Placed
<1>2. faults \in Nat /\ job.faults \in 0..faults
  BY DEF Inv, Typed
<1>3. job' = job /\ stack' = stack /\ saved' = saved /\ before' = before
  BY DEF deployVars
<1>4. CASE withFallback
  BY <1>1, <1>4, FallbackStep
<1>5. CASE Answered
  BY <1>1, <1>5, AnsweredStep
<1>6. CASE Refused
  <2>1. wire.pc = "send" /\ client' = client /\ ctx' = ctx /\ faults' = faults + 1 /\ hub' = hub
    BY <1>6 DEF Refused, Sending, Fault
  <2>2. /\ Answering' /\ faults' \in Nat /\ faults <= faults'
    <3>1. Answering'
      BY <1>2, <1>3, <2>1, NotClean, Zenon
    <3>2. faults' \in Nat /\ faults <= faults'
      BY <1>2, <2>1
    <3>3. QED
      BY <3>1, <3>2, Zenon
  <2>3. PICK answer \in {"401", "403", "403 rate limit", "429"} : Settle(answer)
    BY <1>6 DEF Refused
  <2>4. answer \notin {"ok", "blank", "garbled"}
    BY <2>3
  <2>5. QED
    BY <1>1, <2>1, <2>2, <2>3, <2>4, SettleStep, Zenon
<1>7. CASE Lost
  <2>1. wire.pc = "send" /\ client' = client /\ ctx' = ctx /\ faults' = faults + 1
    BY <1>7 DEF Lost, Sending, Fault
  <2>2. /\ Answering' /\ faults' \in Nat /\ faults <= faults'
    <3>1. Answering'
      BY <1>2, <1>3, <2>1, NotClean, Zenon
    <3>2. faults' \in Nat /\ faults <= faults'
      BY <1>2, <2>1
    <3>3. QED
      BY <3>1, <3>2, Zenon
  <2>3. PICK answer \in {"none", "5xx"} : Settle(answer)
    BY <1>7 DEF Lost
  <2>4. answer \notin {"ok", "blank", "garbled"}
    BY <2>3
  <2>5. hub' = hub \/ CarriedOut
    BY <1>7, Zenon DEF Lost
  <2>6. QED
    BY <1>1, <2>1, <2>2, <2>3, <2>4, <2>5, SettleStep, Zenon
<1>8. CASE Unreadable
  <2>1. wire.pc = "send" /\ client' = client /\ ctx' = ctx /\ faults' = faults + 1
    BY <1>8 DEF Unreadable, Sending, Fault
  <2>2. /\ Answering' /\ faults' \in Nat /\ faults <= faults'
    <3>1. Answering'
      BY <1>2, <1>3, <2>1, NotClean, Zenon
    <3>2. faults' \in Nat /\ faults <= faults'
      BY <1>2, <2>1
    <3>3. QED
      BY <3>1, <3>2, Zenon
  <2>3. PICK answer \in {"blank", "garbled"} : Settle(answer)
    BY <1>8 DEF Unreadable
  <2>4. CarriedOut /\ Verdict = "ok"
    BY <1>8, Zenon DEF Unreadable
  <2>5. QED
    BY <1>1, <2>1, <2>2, <2>3, <2>4, SettleStep, Zenon
<1>9. CASE Cut
  <2>1. wire.pc = "send" /\ client' = client /\ ctx' = ctx /\ faults' = faults /\ ctx = "done"
    BY <1>9 DEF Cut, Sending
  <2>2. Settle("none") /\ "none" \notin {"ok", "blank", "garbled"}
    BY <1>9, Zenon DEF Cut
  <2>3. /\ Answering' /\ faults' \in Nat /\ faults <= faults'
    <3>1. Answering'
      BY <1>2, <1>3, <2>1, NotClean, Zenon
    <3>2. faults' \in Nat /\ faults <= faults'
      BY <1>2, <2>1
    <3>3. QED
      BY <3>1, <3>2, Zenon
  <2>4. hub' = hub \/ CarriedOut
    BY <1>9, Zenon DEF Cut
  <2>5. QED
    BY <1>1, <2>1, <2>2, <2>3, <2>4, SettleStep, Zenon
<1>10. CASE Pause \/ PauseCancelled
  <2>1. /\ wire.pc = "pause" /\ client' = client /\ hub' = hub /\ ctx' = ctx /\ faults' = faults
        /\ \/ wire' = [wire EXCEPT !.pc = "send", !.attempt = wire.attempt + 1]
           \/ (ctx = "done" /\ wire' = Over(wire, "ctx"))
    BY <1>10 DEF Pause, PauseCancelled
  <2>2. DOMAIN wire = WireFields /\ wire.id \in {0, 1} /\ wire.via \in {"cli", "rest"}
        /\ wire.k \in 1..Len(Requests(wire.method, wire.via)) /\ (wire.via = "rest" => ~client.gh)
    BY <1>1 DEF Inv, Typed, Placed
  <2>3. /\ DOMAIN wire' = WireFields /\ wire'.method = wire.method /\ wire'.via = wire.via
        /\ wire'.id = wire.id /\ wire'.k = wire.k
        /\ wire'.pc = "send" \/ (ctx = "done" /\ wire'.pc = "over" /\ wire'.err # "nil")
    BY <2>1, <2>2 DEF WireFields, Over, DispatchWorkflow
  <2>4. Settled'
    BY <1>1, <1>3, <2>2, <2>3, SettledStep
  <2>5. Answering'
    BY <1>1, <1>3, <2>1, <2>3 DEF Inv, Answering, Clean, Held
  <2>6. faults' \in Nat /\ faults <= faults'
    BY <1>2, <2>1
  <2>7. QED
    BY <1>1, <2>1, <2>2, <2>3, <2>4, <2>5, <2>6, WireMoves
<1>11. QED
  BY <1>4, <1>5, <1>6, <1>7, <1>8, <1>9, <1>10, Zenon DEF Transport
-----------------------------------------------------------------------------
(* The steps of the jobs.                                                  *)

\* Steps that leave GitHub alone leave what the cleanups would remove.
LEMMA HeldSame ==
    ASSUME External
    PROVE  client' = client /\ hub' = hub /\ before' = before /\ \A s : Held(s)' <=> Held(s)
BY DEF External, Held, Unread, Obj

\* Nothing but runs, or the context, changed.
LEMMA SameStep ==
    ASSUME Inv, UNCHANGED deployVars, client' = client, hub' = hub, wire' = wire, faults' = faults,
           ctx' \in {ctx, "done"}
    PROVE  Inv'
<1>1. before' = before /\ stack' = stack /\ saved' = saved /\ job' = job /\ jobs' = jobs /\ ran' = ran
  BY DEF deployVars
<1>2. told' = told
  BY Zenon DEF deployVars
<1>3. Typed' /\ Stacked' /\ Moments' /\ Guarded'
  BY <1>1 DEF Inv, Typed, Stacked, Moments, Guarded, Held, Unread, Obj, Providing, Rolling
<1>4. Placed'
  BY <1>1 DEF Inv, Placed, Providing, Rolling, MadeBy, Current
<1>5. Handed' /\ Settled'
  BY <1>1 DEF Inv, Handed, Settled, Held, Unread, Obj, Providing, Rolling, MadeBy
<1>6. Answering'
  BY <1>1 DEF Inv, Answering, Clean, Held, Unread, Obj
<1>7. NoOrphan'
  <2>1. InHand' <=> InHand
    BY <1>1 DEF InHand, IsRepo, Current
  <2>2. QED
    BY <1>1, <1>2, <2>1, Zenon DEF NoOrphan, Inv
<1>8. QED
  BY <1>3, <1>4, <1>5, <1>6, <1>7 DEF Inv

\* The job ended, or nothing was under way.  The stack may have become
\* shorter, empty or what was saved.
LEMMA Rests ==
    ASSUME Inv, External, wire' = NoWire, ran' = ran, saved' = saved,
           stack' \in Seq(Step), Good(stack'), Members(stack') \subseteq Members(stack) \cup Members(saved),
           stack' # <<>> => saved # <<>>,
           jobs' \in Nat, jobs <= jobs',
           DOMAIN job' = JobFields, job'.pc = "idle",
           job'.kind \in {"none", "provision", "rollback"} \cup DOMAIN Gets,
           faults' \in Nat, job'.faults \in 0..faults', Answering', NoOrphan'
    PROVE  Inv'
<1>1. client' = client /\ hub' = hub /\ before' = before /\ \A s : Held(s)' <=> Held(s)
  BY HeldSame
<1>2. ~Providing' /\ ~Rolling'
  BY DEF Providing, Rolling
<1>3. Typed'
  <2>1. DOMAIN NoWire = WireFields
    BY DEF NoWire, WireFields
  <2>2. QED
    BY <2>1 DEF Inv, Typed
<1>4. Placed'
  BY <1>2 DEF Placed
<1>5. Stacked'
  BY <1>1 DEF Inv, Stacked
<1>6. Moments'
  <2>1. \A a \in ran \cup {s.at : s \in Members(stack) \cup Members(saved)} : a \in Nat \X Nat /\ a[1] <= jobs
    BY DEF Inv, Moments
  <2>2. \A a \in Nat \X Nat : a[1] <= jobs => a[1] <= jobs'
    BY DEF Inv, Typed
  <2>3. QED
    BY <1>2, <2>1, <2>2 DEF Moments
<1>7. Handed' /\ Settled'
  BY <1>2 DEF Handed, Settled
<1>8. Guarded'
  <2>1. before # {} => before = {Repo} /\ Repo \in hub /\ stack = <<>> /\ saved = <<>>
    BY DEF Inv, Guarded
  <2>2. before # {} => stack' = <<>>
    BY <2>1
  <2>3. QED
    BY <1>1, <1>2, <2>1, <2>2 DEF Guarded
<1>9. QED
  BY <1>3, <1>4, <1>5, <1>6, <1>7, <1>8 DEF Inv

\* A job returns.
LEMMA ReturnStep ==
    ASSUME Inv, External, NEW err, NEW isRepo, Returns(err, isRepo), wire' = NoWire, ran' = ran,
           saved' = saved, jobs' = jobs, ctx' = ctx, faults' \in {faults, faults + 1}, job.pc # "idle",
           stack' \in Seq(Step), Good(stack'), Members(stack') \subseteq Members(stack) \cup Members(saved),
           stack' # <<>> => saved # <<>>,
           NoOrphan'
    PROVE  Inv'
<1>1. /\ DOMAIN job' = JobFields /\ job'.pc = "idle" /\ job'.kind = job.kind /\ job'.faults = job.faults
      /\ job'.gh = job.gh /\ job'.failed = job.failed
  BY DEF Returns, Inv, Typed, JobFields
<1>2. job.kind \in {"none", "provision", "rollback"} \cup DOMAIN Gets /\ jobs \in Nat
  BY DEF Inv, Typed
<1>3. faults' \in Nat /\ job'.faults \in 0..faults' /\ faults <= faults' /\ jobs <= jobs
      /\ (job.faults = faults' => faults' = faults)
  BY <1>1 DEF Inv, Typed
<1>4. Answering'
  <2>1. Clean' => Clean
    BY <1>1, <1>3, HeldSame DEF Clean
  <2>2. QED
    BY <1>1, <2>1 DEF Inv, Answering
<1>5. QED
  BY <1>1, <1>2, <1>3, <1>4, Rests

\* What a job says of the repository when it ends.
LEMMA ReturnTells ==
    ASSUME NEW err, NEW isRepo, Returns(err, isRepo)
    PROVE  (told => told') /\ (err # "nil" /\ isRepo => told')
BY Zenon DEF Returns

\* Nothing of the repository is in hand unless a job is at it.
LEMMA NotInHand ==
    ASSUME Typed, Placed, InHand
    PROVE  \/ job.pc = "push" /\ IsRepo
           \/ (job.pc = "wait" /\ job.kind = "provision" /\ Current.name = "CreateRepo")
           \/ (Rolling /\ IsRepo)
<1>1. CASE job.pc = "push" /\ IsRepo
  BY <1>1
<1>2. CASE job.pc = "wait" /\ Current.name \in {"CreateRepo", "RemoveGitHubRepo"}
  BY <1>2, CurrentIs, ProvisionIs, RunnerIs, Tables DEF Rolling, IsRepo
<1>3. CASE job.pc = "call" /\ Current.name = "RemoveGitHubRepo"
  BY <1>3, CurrentIs, ProvisionIs, RunnerIs, Tables DEF Rolling, IsRepo
<1>4. QED
  BY <1>1, <1>2, <1>3 DEF InHand

\* A step of a job that leaves the stack and the file alone.
LEMMA OrphanSame ==
    ASSUME Inv, External, stack' = stack, saved' = saved, told => told',
           InHand /\ Repo \in hub => told' \/ InHand'
    PROVE  NoOrphan'
<1>1. Repo \in hub \ before => told \/ InHand \/ stack # <<>> \/ saved # <<>>
  BY DEF Inv, NoOrphan
<1>2. hub' = hub /\ before' = before
  BY DEF External
<1>3. QED
  BY <1>1, <1>2, Zenon DEF NoOrphan

\* The parts of the invariant that only speak of the stack, for a step that
\* leaves it alone.
LEMMA StackSame ==
    ASSUME Inv, External, stack' = stack, saved' = saved, ran' = ran, jobs' \in Nat, jobs <= jobs',
           Providing' => Providing /\ job'.i = job.i /\ jobs' = jobs
    PROVE  Stacked' /\ Moments'
<1>1. \A s : Held(s)' <=> Held(s)
  BY HeldSame
<1>2. Stacked'
  BY <1>1 DEF Inv, Stacked
<1>3. \A a \in ran \cup {s.at : s \in Members(stack) \cup Members(saved)} :
          a \in Nat \X Nat /\ a[1] <= jobs /\ (Providing /\ a[1] = jobs => a[2] < job.i)
  BY DEF Inv, Moments
<1>4. \A a \in Nat \X Nat : a[1] <= jobs => a[1] <= jobs'
  BY DEF Inv, Typed
<1>5. Moments'
  BY <1>3, <1>4 DEF Moments
<1>6. QED
  BY <1>2, <1>5

\* A provision begins, or is refused.
LEMMA ProvisionStep ==
    ASSUME Inv, Provision
    PROVE  Inv'
<1>1. /\ job.pc = "idle" /\ ctx' = "live" /\ wire' = NoWire /\ External /\ faults' = faults
      /\ stack' = stack /\ saved' = saved /\ ran' = ran /\ jobs' = jobs + 1
  BY DEF Provision, Start, Counted
<1>2. told' = told
  BY Zenon DEF Provision
<1>3. PICK plan \in Plans :
         /\ DOMAIN job' = JobFields /\ job'.kind = "provision" /\ job'.plan = plan /\ job'.i = 1
         /\ job'.faults = faults /\ job'.pc \in {"call", "idle"}
  BY DEF Provision, Idle, JobFields
<1>4. jobs \in Nat /\ jobs' \in Nat /\ jobs <= jobs' /\ faults \in Nat /\ job'.faults \in 0..faults'
      /\ stack \in Seq(Step) /\ saved \in Seq(Step)
  BY <1>1, <1>3 DEF Inv, Typed
<1>5. NoOrphan'
  <2>1. ~InHand
    BY <1>1, NotInHand DEF Inv, Rolling
  <2>2. QED
    BY <1>1, <1>2, <2>1, OrphanSame, Zenon
<1>6. Answering'
  BY <1>3 DEF Answering, Clean
<1>7. CASE job'.pc = "idle"
  <2>1. /\ Good(stack') /\ Members(stack') \subseteq Members(stack) \cup Members(saved)
        /\ stack' # <<>> => saved # <<>>
    BY <1>1 DEF Inv, Stacked
  <2>2. QED
    BY <1>1, <1>3, <1>4, <1>5, <1>6, <1>7, <2>1, Rests
<1>8. CASE job'.pc = "call"
  <2>1. Typed'
    BY <1>1, <1>3, <1>4 DEF Typed, NoWire, WireFields
  <2>2. Placed'
    <3>1. 1 \in DOMAIN Calls(plan)
      BY CallsAre
    <3>2. QED
      BY <1>1, <1>3, <1>8, <3>1 DEF Placed, Rolling, Providing
  <2>3. Stacked' /\ Moments'
    <3>1. Stacked'
      BY <1>1, HeldSame DEF Inv, Stacked
    <3>2. \A a \in ran \cup {s.at : s \in Members(stack) \cup Members(saved)} : a \in Nat \X Nat /\ a[1] <= jobs
      BY DEF Inv, Moments
    <3>3. \A a \in Nat \X Nat : a[1] <= jobs => a[1] <= jobs' /\ a[1] # jobs'
      BY <1>1, <1>4
    <3>4. Moments'
      BY <1>1, <3>2, <3>3 DEF Moments
    <3>5. QED
      BY <3>1, <3>4
  <2>4. Handed' /\ Settled'
    BY <1>3, <1>8 DEF Handed, Settled, Providing, Rolling
  <2>5. Guarded'
    BY <1>1, <1>3, <1>8, HeldSame DEF Inv, Guarded, Rolling
  <2>6. QED
    BY <1>5, <1>6, <2>1, <2>2, <2>3, <2>4, <2>5 DEF Inv
<1>9. QED
  BY <1>3, <1>7, <1>8

\* A rollback begins, or the workflow is followed.
LEMMA StartStep ==
    ASSUME Inv, Rollback \/ Follow
    PROVE  Inv'
<1>1. /\ job.pc = "idle" /\ wire' = NoWire /\ External /\ faults' = faults
      /\ stack' = stack /\ saved' = saved /\ ran' = ran /\ jobs' \in {jobs, jobs + 1}
  BY DEF Rollback, Follow, Start, Counted
<1>2. told' = told
  BY Zenon DEF Rollback, Follow
<1>3. /\ DOMAIN job' = JobFields /\ job'.faults = faults /\ job'.failed = {}
      /\ \/ (job'.kind = "rollback" /\ job'.pc = "pop")
         \/ (job'.kind \in DOMAIN Gets /\ job'.pc = "call")
  <2>1. CASE Rollback
    BY <2>1 DEF Rollback, Idle, JobFields
  <2>2. CASE Follow
    BY <2>2 DEF Follow, Idle, JobFields
  <2>3. QED
    BY <2>1, <2>2
<1>4. jobs \in Nat /\ jobs' \in Nat /\ jobs <= jobs' /\ faults \in Nat /\ job'.faults \in 0..faults'
      /\ stack \in Seq(Step) /\ saved \in Seq(Step)
  BY <1>1, <1>3 DEF Inv, Typed
<1>5. job'.kind \in {"rollback"} \cup DOMAIN Gets /\ ~Providing' /\ ~Rolling'
  BY <1>3, Tables DEF Providing, Rolling
<1>6. NoOrphan'
  <2>1. ~InHand
    BY <1>1, NotInHand DEF Inv, Rolling
  <2>2. QED
    BY <1>1, <1>2, <2>1, OrphanSame, Zenon
<1>7. Answering'
  BY <1>3, Tables DEF Answering, Clean
<1>8. Typed'
  BY <1>1, <1>3, <1>4, <1>5 DEF Typed, NoWire, WireFields
<1>9. Placed'
  BY <1>1, <1>3, <1>5, Tables DEF Placed
<1>10. Stacked' /\ Moments'
  BY <1>1, <1>4, <1>5, StackSame
<1>11. Handed' /\ Settled'
  BY <1>3, <1>5 DEF Handed, Settled
<1>12. Guarded'
  BY <1>1, <1>3, <1>5, HeldSame DEF Inv, Guarded
<1>13. QED
  BY <1>6, <1>7, <1>8, <1>9, <1>10, <1>11, <1>12 DEF Inv

\* The method is called.
LEMMA CallStep ==
    ASSUME Inv, Call
    PROVE  Inv'
<1>1. /\ job.pc = "call" /\ wire' = Called(Current) /\ job' = [job EXCEPT !.pc = "wait"] /\ External
      /\ ctx' = ctx /\ faults' = faults /\ stack' = stack /\ saved' = saved /\ jobs' = jobs /\ ran' = ran
  BY DEF Call
<1>2. told' = told
  BY Zenon DEF Call
<1>3. /\ DOMAIN job' = JobFields /\ job'.kind = job.kind /\ job'.pc = "wait" /\ job'.plan = job.plan
      /\ job'.i = job.i /\ job'.step = job.step /\ job'.gh = job.gh /\ job'.failed = job.failed
      /\ job'.faults = job.faults
  BY <1>1 DEF Inv, Typed, JobFields
<1>4. /\ DOMAIN wire' = WireFields /\ wire'.pc = "enter" /\ wire'.method = Current /\ wire'.via = "cli"
      /\ wire'.k = 1 /\ wire'.id = 0
  BY <1>1 DEF Called, NoWire, WireFields
<1>5. Current' = Current
  BY <1>3 DEF Current
<1>6. /\ (Providing' <=> Providing) /\ (Rolling' <=> Rolling)
  BY <1>1, <1>3 DEF Providing, Rolling
<1>7. Typed'
  BY <1>1, <1>3, <1>4 DEF Inv, Typed
<1>8. Placed'
  <2>1. 1 \in 1..Len(Requests(Current, "cli"))
    BY <1>1, CurrentIs, RequestsSome DEF Inv
  <2>2. QED
    BY <1>1, <1>3, <1>4, <1>5, <1>6, <2>1 DEF Inv, Placed
<1>9. Stacked' /\ Moments'
  <2>1. jobs' \in Nat /\ jobs <= jobs'
    BY <1>1 DEF Inv, Typed
  <2>2. QED
    BY <1>1, <1>3, <1>6, <2>1, StackSame
<1>10. Handed'
  BY <1>1, <1>3, <1>6 DEF Inv, Handed, MadeBy
<1>11. Settled'
  BY <1>4 DEF Settled
<1>12. Guarded'
  BY <1>1, <1>3, <1>6, HeldSame DEF Inv, Guarded
<1>13. Answering'
  <2>1. Clean' => Clean
    BY <1>1, <1>3, HeldSame DEF Clean
  <2>2. QED
    BY <1>1, <1>3, <1>4, <2>1, HeldSame DEF Inv, Answering
<1>14. NoOrphan'
  <2>1. InHand => InHand'
    BY <1>1, <1>3, <1>5 DEF InHand
  <2>2. QED
    BY <1>1, <1>2, <2>1, OrphanSame, Zenon
<1>15. QED
  BY <1>7, <1>8, <1>9, <1>10, <1>11, <1>12, <1>13, <1>14 DEF Inv

\* A call of a provision returned.
LEMMA ProvisionedStep ==
    ASSUME Inv, Provisioned
    PROVE  Inv'
<1> DEFINE m == Current
           s == CleanupStep(m, wire.id, <<jobs, job.i>>)
<1>1. /\ job.pc = "wait" /\ wire.pc = "over" /\ wire' = NoWire /\ External /\ job.kind = "provision"
      /\ ctx' = ctx /\ faults' = faults /\ stack' = stack /\ saved' = saved /\ jobs' = jobs /\ ran' = ran
  BY DEF Provisioned, Done
<1>2. /\ m \in ProvisionMethods /\ m = Calls(job.plan)[job.i] /\ job.plan \in Plans
      /\ job.i \in DOMAIN Calls(job.plan) /\ wire.method = m /\ wire.id \in {0, 1}
  BY <1>1, CurrentIs DEF Inv, Placed
<1>3. \/ Returns(wire.err, m.name = "CreateRepo") /\ wire.err # "nil"
      \/ Returns("nil", FALSE) /\ m.name = "DispatchWorkflow"
      \/ (/\ wire.err = "nil" /\ m.name # "DispatchWorkflow" /\ job' = [job EXCEPT !.pc = "push", !.step = s]
          /\ UNCHANGED told)
  BY Zenon DEF Provisioned
<1>4. InHand => m.name = "CreateRepo"
  BY <1>1, NotInHand DEF Inv, Rolling
<1>5. ASSUME NEW err, NEW isRepo, Returns(err, isRepo), m.name = "CreateRepo" => err # "nil" /\ isRepo
      PROVE  Inv'
  <2>1. NoOrphan'
    BY <1>1, <1>4, <1>5, ReturnTells, OrphanSame, Zenon
  <2>2. /\ stack' \in Seq(Step) /\ Good(stack') /\ Members(stack') \subseteq Members(stack) \cup Members(saved)
        /\ stack' # <<>> => saved # <<>>
    BY <1>1 DEF Inv, Typed, Stacked
  <2>3. QED
    BY <1>1, <1>5, <2>1, <2>2, ReturnStep
<1>6. CASE /\ wire.err = "nil" /\ m.name # "DispatchWorkflow" /\ job' = [job EXCEPT !.pc = "push", !.step = s]
           /\ UNCHANGED told
  <2>1. told' = told
    BY <1>6, Zenon
  <2>2. /\ DOMAIN job' = JobFields /\ job'.kind = "provision" /\ job'.pc = "push" /\ job'.plan = job.plan
        /\ job'.i = job.i /\ job'.step = s /\ job'.faults = job.faults
    BY <1>1, <1>6 DEF Inv, Typed, JobFields
  <2>3. /\ s.kind = CleanupKinds[m.name] /\ s.arg = (IF m.name = "AddDeployKey" THEN wire.id ELSE m.arg)
        /\ s.at = <<jobs, job.i>>
    BY DEF CleanupStep
  <2>4. s \in Step
    <3>1. s = [kind |-> CleanupKinds[m.name], arg |-> IF m.name = "AddDeployKey" THEN wire.id ELSE m.arg,
               at |-> <<jobs, job.i>>]
      BY DEF CleanupStep
    <3>2. jobs \in Nat /\ job.i \in Nat
      BY <1>2, CallsShape DEF Inv, Typed
    <3>3. /\ m.name \in DOMAIN CleanupKinds /\ m.arg \in Int
          /\ m.name \notin {"SetActionsSecret", "AddDeployKey"} => m.arg = 0
      BY <1>2, <1>6, ProvisionIs
    <3>4. QED
      BY <1>2, <3>1, <3>2, <3>3, Tables DEF Step, Target
  <2>5. Held(s)
    <3>1. Held(CleanupStep(wire.method, wire.id, <<0, 0>>))
      BY <1>1, <1>2, <1>6 DEF Inv, Settled
    <3>2. QED
      BY <1>2, <3>1 DEF Held, Unread, Obj, CleanupStep
  <2>6. Typed'
    BY <1>1, <2>2 DEF Inv, Typed, NoWire, WireFields
  <2> HIDE DEF s
  <2>7. Placed'
    BY <1>1, <1>2, <1>6, <2>2, <2>3, <2>4 DEF Placed, Rolling, Providing, MadeBy
  <2>8. Stacked' /\ Moments'
    <3>1. jobs' \in Nat /\ jobs <= jobs' /\ Providing /\ job'.i = job.i
      BY <1>1, <2>2 DEF Inv, Typed, Providing
    <3>2. QED
      BY <1>1, <3>1, StackSame
  <2>9. Handed'
    <3>1. m.name = "CreateRepo" <=> job.i = 1
      BY <1>2, CallsShape
    <3>2. saved = stack /\ Len(stack) = job.i - 1 /\ \A i \in 1..Len(stack) : MadeBy(stack[i], i)
      <4>1. CASE job.i > 1
        BY <1>1, <4>1 DEF Inv, Handed, Providing
      <4>2. CASE job.i = 1
        BY <1>1, <1>2, <1>6, <3>1, <4>2 DEF Inv, Settled
      <4>3. QED
        BY <1>2, <4>1, <4>2, CallsShape
    <3>3. QED
      BY <1>1, <2>2, <2>5, <3>2, HeldSame DEF Handed, Rolling, MadeBy
  <2>10. Settled' /\ Answering'
    BY <2>2 DEF Settled, Answering, Clean
  <2>11. Guarded'
    <3>1. before = {}
      <4>1. m.name = "CreateRepo" <=> job.i = 1
        BY <1>2, CallsShape
      <4>2. CASE job.i = 1
        BY <1>1, <1>2, <1>6, <4>1, <4>2 DEF Inv, Settled
      <4>3. CASE job.i > 1
        <5>1. Len(stack) = job.i - 1 /\ job.i \in Int
          BY <1>1, <1>2, <4>3, CallsShape DEF Inv, Handed, Providing
        <5>2. stack # <<>>
          BY <4>3, <5>1
        <5>3. QED
          BY <5>2 DEF Inv, Guarded
      <4>4. QED
        BY <1>2, <4>2, <4>3, CallsShape
    <3>2. QED
      BY <3>1, HeldSame, <1>1 DEF Guarded
  <2>12. NoOrphan'
    <3>1. m.name = "CreateRepo" => InHand'
      BY <2>2, <2>3, Tables DEF InHand, IsRepo
    <3>2. QED
      BY <1>1, <1>4, <2>1, <3>1, OrphanSame, Zenon
  <2>13. QED
    BY <2>6, <2>7, <2>8, <2>9, <2>10, <2>11, <2>12 DEF Inv
<1>7. QED
  <2>1. CASE Returns(wire.err, m.name = "CreateRepo") /\ wire.err # "nil"
    BY <1>5, <2>1, Zenon
  <2>2. CASE Returns("nil", FALSE) /\ m.name = "DispatchWorkflow"
    BY <1>5, <2>2, Zenon
  <2>3. QED
    BY <1>3, <1>6, <2>1, <2>2, Zenon

\* A push is refused, or its save fails.
LEMMA PushStopsStep ==
    ASSUME Inv, PushRefused \/ PushFails
    PROVE  Inv'
<1>1. /\ job.pc = "push" /\ External /\ wire' = wire /\ ctx' = ctx /\ faults' \in {faults, faults + 1}
      /\ stack' = stack /\ saved' = saved /\ jobs' = jobs /\ ran' = ran
  BY DEF PushRefused, PushFails, Pushing, Fault
<1>2. PICK err : Returns(err, IsRepo) /\ err # "nil"
  <2>1. CASE PushFails
    <3>1. "persist" # "nil"
      OBVIOUS
    <3>2. QED
      BY <2>1, <3>1, Zenon DEF PushFails
  <2>2. CASE PushRefused
    <3>1. (IF ctx = "done" THEN "ctx" ELSE "secretInCleanup") # "nil"
      OBVIOUS
    <3>2. QED
      BY <2>2, <3>1, Zenon DEF PushRefused
  <2>3. QED
    BY <2>1, <2>2
<1>3. wire' = NoWire
  BY <1>1 DEF Inv, Placed
<1>4. InHand => IsRepo
  BY <1>1, NotInHand DEF Inv, Rolling
<1>5. NoOrphan'
  BY <1>1, <1>2, <1>4, ReturnTells, OrphanSame, Zenon
<1>6. /\ stack' \in Seq(Step) /\ Good(stack') /\ Members(stack') \subseteq Members(stack) \cup Members(saved)
      /\ stack' # <<>> => saved # <<>>
  BY <1>1 DEF Inv, Typed, Stacked
<1>7. QED
  BY <1>1, <1>2, <1>3, <1>5, <1>6, ReturnStep

\* The step for a plan's call is about something else than the steps for
\* its earlier calls.
LEMMA StepsDiffer ==
    ASSUME NEW plan \in Plans, NEW i \in DOMAIN Calls(plan), NEW j \in DOMAIN Calls(plan), i # j,
           NEW s \in Step, NEW t \in Step,
           Calls(plan)[i].name # "DispatchWorkflow", Calls(plan)[j].name # "DispatchWorkflow",
           s.kind = CleanupKinds[Calls(plan)[i].name],
           Calls(plan)[i].name # "AddDeployKey" => s.arg = Calls(plan)[i].arg,
           t.kind = CleanupKinds[Calls(plan)[j].name],
           Calls(plan)[j].name # "AddDeployKey" => t.arg = Calls(plan)[j].arg
    PROVE  Obj(s) # Obj(t)
<1> DEFINE a == Calls(plan)[i]
           b == Calls(plan)[j]
<1>1. /\ a \in ProvisionMethods /\ b \in ProvisionMethods /\ a # b
      /\ (a.name = "AddDeployKey" <=> i = 2) /\ (b.name = "AddDeployKey" <=> j = 2)
  BY CallsShape
<1>2. a.name \in DOMAIN CleanupKinds /\ b.name \in DOMAIN CleanupKinds
  BY <1>1, ProvisionIs
<1> HIDE DEF a, b
<1>3. a.name = b.name /\ a.arg = b.arg => a = b
  BY <1>1 DEF ProvisionMethods, Method
<1>4. a.name = b.name => a.name # "AddDeployKey"
  BY <1>1
<1>5. ASSUME Obj(s) = Obj(t) PROVE s.kind = t.kind /\ s.arg = t.arg
  BY <1>5, StepFields, Tables DEF Obj
<1>6. s.kind = t.kind => a.name = b.name
  <2>1. s.kind = CleanupKinds[a.name] /\ t.kind = CleanupKinds[b.name]
    BY DEF a, b
  <2>2. QED
    BY <1>2, <2>1 DEF CleanupKinds
<1>7. QED
  BY <1>1, <1>3, <1>4, <1>5, <1>6 DEF a, b

\* The step is pushed and saved; it is about nothing the stack already has.
LEMMA PushStep ==
    ASSUME Inv, Push
    PROVE  Inv'
<1> DEFINE s == job.step
           c == Calls(job.plan)
<1>1. /\ job.pc = "push" /\ External /\ wire' = wire /\ ctx' = ctx /\ faults' = faults
      /\ stack' = Append(stack, s) /\ saved' = stack' /\ jobs' = jobs /\ ran' = ran
      /\ job' = [job EXCEPT !.pc = "call", !.i = job.i + 1]
  BY DEF Push, Pushing, Onward
<1>2. /\ job.kind = "provision" /\ c[job.i].name # "DispatchWorkflow" /\ s \in Step
      /\ MadeBy(s, job.i) /\ s.at = <<jobs, job.i>> /\ Held(s) /\ wire' = NoWire /\ Providing
      /\ job.plan \in Plans /\ job.i \in DOMAIN c
  BY <1>1 DEF Inv, Placed, Handed, Providing
<1>3. /\ saved = stack /\ Len(stack) = job.i - 1 /\ \A i \in 1..Len(stack) : MadeBy(stack[i], i)
      /\ stack \in Seq(Step) /\ jobs \in Nat
  BY <1>1, <1>2 DEF Inv, Handed, Typed
<1>4. /\ Len(c) \in Nat /\ DOMAIN c = 1..Len(c) /\ job.i \in 1..Len(c) /\ job.i # Len(c)
      /\ (c[job.i].name = "CreateRepo" <=> job.i = 1) /\ c[job.i] \in ProvisionMethods
  BY <1>2, CallsShape
<1>5. /\ job.i \in Nat /\ job.i + 1 \in 1..Len(c) /\ job.i + 1 > 1
      /\ \A i \in 1..Len(stack) : i \in 1..Len(c) /\ i # job.i /\ i # Len(c)
  BY <1>3, <1>4
<1>6. /\ DOMAIN job' = JobFields /\ job'.kind = "provision" /\ job'.pc = "call" /\ job'.plan = job.plan
      /\ job'.i = job.i + 1 /\ job'.faults = job.faults
  BY <1>1, <1>2 DEF Inv, Typed, JobFields
<1> HIDE DEF s, c
<1>7. ASSUME NEW t \in Members(stack) PROVE Obj(t) # Obj(s) /\ t.at # s.at
  <2>1. PICK j \in 1..Len(stack) : t = stack[j]
    BY DEF Members
  <2>2. /\ t \in Step /\ MadeBy(t, j) /\ j \in DOMAIN c /\ j # job.i /\ c[j].name # "DispatchWorkflow"
    BY <1>2, <1>3, <1>4, <1>5, <2>1, CallsShape, SMTT(40) DEF c
  <2>3. Obj(t) # Obj(s)
    <3>1. /\ s.kind = CleanupKinds[c[job.i].name] /\ (c[job.i].name # "AddDeployKey" => s.arg = c[job.i].arg)
          /\ t.kind = CleanupKinds[c[j].name] /\ (c[j].name # "AddDeployKey" => t.arg = c[j].arg)
      BY <1>2, <2>2 DEF MadeBy, c
    <3>2. QED
      BY <1>2, <2>2, <3>1, StepsDiffer DEF c
  <2>4. t.at # s.at
    <3>1. t.at[1] = jobs => t.at[2] < job.i
      BY <1>2 DEF Inv, Moments
    <3>2. s.at[1] = jobs /\ s.at[2] = job.i
      BY <1>2
    <3>3. QED
      BY <1>5, <3>1, <3>2
  <2>5. QED
    BY <2>3, <2>4
<1>8. s.kind = "github_repo" <=> stack = <<>>
  <2>1. c[job.i].name \in DOMAIN CleanupKinds
    BY <1>2, <1>4, ProvisionIs
  <2>2. s.kind = "github_repo" <=> c[job.i].name = "CreateRepo"
    BY <1>2, <2>1, Tables DEF MadeBy, c
  <2>3. stack = <<>> <=> job.i = 1
    BY <1>3, <1>5
  <2>4. QED
    BY <1>4, <2>2, <2>3
<1>9. /\ Good(stack') /\ stack' \in Seq(Step) /\ stack' # <<>> /\ Members(stack') = Members(stack) \cup {s}
      /\ Len(stack') = Len(stack) + 1 /\ \A i \in 1..Len(stack) : stack'[i] = stack[i]
      /\ stack'[Len(stack) + 1] = s
  <2>1. Good(stack)
    BY DEF Inv, Stacked
  <2>2. Good(Append(stack, s))
    BY <1>2, <1>3, <1>7, <1>8, <2>1, GoodTop
  <2>3. QED
    BY <1>1, <1>2, <1>3, <2>2, OnTop
<1>10. s.at \notin ran
  <2>1. s.at \in ran => (s.at[1] = jobs => s.at[2] < job.i)
    BY <1>2 DEF Inv, Moments
  <2>2. s.at[1] = jobs /\ s.at[2] = job.i
    BY <1>2
  <2>3. QED
    BY <1>5, <2>1, <2>2
<1>11. Typed'
  BY <1>1, <1>2, <1>6, <1>9 DEF Inv, Typed, NoWire, WireFields
<1>12. Placed'
  BY <1>2, <1>4, <1>5, <1>6 DEF Placed, Providing, Rolling, c
<1>13. Stacked'
  BY <1>1, <1>2, <1>3, <1>9, <1>10, HeldSame DEF Inv, Stacked
<1>14. Moments'
  <2>1. \A a \in ran \cup {t.at : t \in Members(stack)} :
            a \in Nat \X Nat /\ a[1] <= jobs /\ (a[1] = jobs => a[2] < job.i)
    BY <1>2, <1>3 DEF Inv, Moments
  <2>2. \A a \in Nat \X Nat : a[2] < job.i => a[2] < job.i + 1
    BY <1>5
  <2>3. s.at \in Nat \X Nat /\ s.at[1] <= jobs /\ s.at[2] < job.i + 1
    BY <1>2, <1>3, <1>5
  <2>4. QED
    BY <1>1, <1>6, <1>9, <2>1, <2>2, <2>3 DEF Moments
<1>15. Handed'
  <2>1. Len(stack') = job'.i - 1
    BY <1>3, <1>5, <1>6, <1>9
  <2>2. ASSUME NEW i \in 1..Len(stack') PROVE MadeBy(stack'[i], i)
    <3>1. i \in 1..Len(stack) \/ i = Len(stack) + 1
      BY <1>3, <1>5, <1>9, SMTT(40)
    <3>2. Len(stack) + 1 = job.i
      BY <1>3, <1>5
    <3>3. CASE i \in 1..Len(stack)
      <4>1. stack'[i] = stack[i]
        BY <1>9, <3>3
      <4>2. QED
        BY <1>3, <3>3, <4>1
    <3>4. CASE i = Len(stack) + 1
      <4>1. stack'[Len(stack) + 1] = s
        BY <1>9
      <4>2. stack'[i] = s /\ i = job.i
        BY <3>2, <3>4, <4>1, Zenon
      <4>3. QED
        BY <1>2, <4>2
    <3>5. QED
      BY <3>1, <3>3, <3>4
  <2>3. QED
    BY <1>1, <1>6, <2>1, <2>2 DEF Handed, Rolling, MadeBy
<1>16. Settled' /\ Answering'
  BY <1>6 DEF Settled, Answering, Clean
<1>17. Guarded'
  BY <1>1, HeldSame DEF Inv, Guarded
<1>18. NoOrphan'
  BY <1>9, Zenon DEF NoOrphan
<1>19. QED
  BY <1>11, <1>12, <1>13, <1>14, <1>15, <1>16, <1>17, <1>18 DEF Inv

\* A rollback returns.
LEMMA RolledBackStep ==
    ASSUME Inv, RolledBack
    PROVE  Inv'
<1>1. /\ job.pc = "pop" /\ External /\ wire' = wire /\ ctx' = ctx /\ faults' = faults
      /\ stack' = stack /\ saved' = saved /\ jobs' = jobs /\ ran' = ran
  BY DEF RolledBack, Popping
<1>2. PICK err : Returns(err, FALSE)
  BY Zenon DEF RolledBack
<1>3. wire' = NoWire
  BY <1>1 DEF Inv, Placed
<1>4. ~InHand
  BY <1>1, NotInHand DEF Inv, Rolling
<1>5. NoOrphan'
  BY <1>1, <1>2, <1>4, ReturnTells, OrphanSame, Zenon
<1>6. /\ stack' \in Seq(Step) /\ Good(stack') /\ Members(stack') \subseteq Members(stack) \cup Members(saved)
      /\ stack' # <<>> => saved # <<>>
  BY <1>1 DEF Inv, Typed, Stacked
<1>7. QED
  BY <1>1, <1>2, <1>3, <1>5, <1>6, ReturnStep

\* What is left when the top is taken off.
LEMMA Popped ==
    ASSUME Inv, stack # <<>>
    PROVE  LET rest == Front(stack)
               top == Last(stack)
           IN  /\ rest \in Seq(Step) /\ top \in Step /\ Good(rest) /\ Good(Append(rest, top))
               /\ top.kind = "github_repo" <=> rest = <<>>
               /\ Members(stack) = Members(rest) \cup {top}
               /\ \A t \in Members(rest) : t.at # top.at
               /\ Held(top) /\ top.at \notin ran /\ before = {} /\ saved # <<>>
<1> DEFINE rest == Front(stack)
           top == Last(stack)
<1>1. stack \in Seq(Step) /\ Good(stack)
  BY DEF Inv, Typed, Stacked
<1>2. rest \in Seq(Step) /\ top \in Step /\ stack = Append(rest, top)
  BY <1>1, OffTop
<1> HIDE DEF rest, top
<1>3. /\ Good(rest) /\ Good(Append(rest, top)) /\ (top.kind = "github_repo" <=> rest = <<>>)
      /\ \A t \in Members(rest) : t.at # top.at
  BY <1>1, <1>2, GoodTop
<1>4. Members(stack) = Members(rest) \cup {top}
  BY <1>2, OnTop
<1>5. Held(top) /\ top.at \notin ran /\ saved # <<>>
  BY <1>4 DEF Inv, Stacked
<1>6. before = {}
  BY DEF Inv, Guarded
<1>7. QED
  BY <1>2, <1>3, <1>4, <1>5, <1>6 DEF rest, top

\* The shorter stack could not be saved.
LEMMA PopFailsStep ==
    ASSUME Inv, PopFails
    PROVE  Inv'
<1>1. /\ job.pc = "pop" /\ External /\ wire' = wire /\ ctx' = ctx /\ faults' = faults + 1 /\ stack # <<>>
      /\ stack' = Front(stack) /\ saved' = saved /\ jobs' = jobs /\ ran' = ran
      /\ Returns("persist", Last(stack).kind = "github_repo")
  BY DEF PopFails, Popping, Fault
<1>2. wire' = NoWire
  BY <1>1 DEF Inv, Placed
<1>3. /\ stack' \in Seq(Step) /\ Good(stack') /\ Members(stack') \subseteq Members(stack) \cup Members(saved)
      /\ saved # <<>>
  BY <1>1, Popped
<1>4. NoOrphan'
  BY <1>1, <1>3, Zenon DEF NoOrphan
<1>5. QED
  BY <1>1, <1>2, <1>3, <1>4, ReturnStep

\* The top is taken off, saved, and handed to the runner.
LEMMA PopStep ==
    ASSUME Inv, Pop
    PROVE  Inv'
<1> DEFINE top == Last(stack)
<1>1. /\ job.pc = "pop" /\ External /\ wire' = wire /\ ctx' = ctx /\ faults' = faults /\ stack # <<>>
      /\ stack' = Front(stack) /\ saved' = stack' /\ jobs' = jobs /\ ran' = ran \cup {top.at}
      /\ job' = IF job.gh THEN [job EXCEPT !.pc = "call", !.step = top]
                ELSE [job EXCEPT !.failed = job.failed \cup {top}]
  BY DEF Pop, Popping, Run
<1>2. (told => told') /\ (~job.gh /\ top.kind = "github_repo" => told')
  BY Zenon DEF Pop, Run
<1>3. job.kind = "rollback" /\ wire' = NoWire
  BY <1>1 DEF Inv, Placed
<1>4. /\ stack' \in Seq(Step) /\ top \in Step /\ Good(stack') /\ Good(Append(stack', top))
      /\ (top.kind = "github_repo" <=> stack' = <<>>)
      /\ Members(stack) = Members(stack') \cup {top}
      /\ (\A t \in Members(stack') : t.at # top.at)
      /\ Held(top) /\ top.at \notin ran /\ before = {} /\ saved # <<>>
  BY <1>1, Popped
<1> HIDE DEF top
<1>5. /\ DOMAIN job' = JobFields /\ job'.kind = "rollback" /\ job'.gh = job.gh /\ job'.faults = job.faults
      /\ \/ (job.gh /\ job'.pc = "call" /\ job'.step = top /\ job'.failed = job.failed)
         \/ (~job.gh /\ job'.pc = "pop")
  <2>1. CASE job.gh
    BY <1>1, <1>3, <2>1 DEF Inv, Typed, JobFields
  <2>2. CASE ~job.gh
    BY <1>1, <1>3, <2>2 DEF Inv, Typed, JobFields
  <2>3. QED
    BY <2>1, <2>2
<1>6. Typed'
  BY <1>1, <1>3, <1>4, <1>5 DEF Inv, Typed, NoWire, WireFields
<1>7. Placed'
  BY <1>3, <1>4, <1>5 DEF Placed, Providing, Rolling
<1>8. Stacked'
  BY <1>1, <1>4, HeldSame DEF Inv, Stacked
<1>9. Moments'
  <2>1. \A a \in ran \cup {s.at : s \in Members(stack)} : a \in Nat \X Nat /\ a[1] <= jobs
    BY DEF Inv, Moments
  <2>2. QED
    BY <1>1, <1>4, <1>5, <2>1 DEF Moments, Providing
<1>10. Handed'
  BY <1>1, <1>4, <1>5 DEF Handed, Providing, Rolling
<1>11. Settled'
  BY <1>5 DEF Settled
<1>12. Guarded'
  BY <1>1, <1>4, HeldSame DEF Guarded
<1>13. Answering'
  <2>1. Clean' => Clean /\ job.gh
    BY <1>1, <1>5, HeldSame DEF Clean
  <2>2. Clean => \A s \in job.failed : Unread(s)
    BY DEF Inv, Answering
  <2>3. QED
    BY <1>4, <1>5, <2>1, <2>2, HeldSame, <1>1 DEF Answering
<1>14. NoOrphan'
  <2>1. top.kind = "github_repo" => told' \/ InHand'
    <3>1. ASSUME job.gh, top.kind = "github_repo" PROVE InHand'
      <4>1. Current' = StepRunner(top) /\ (job.pc)' = "call"
        BY <1>5, <3>1 DEF Current
      <4>2. StepRunner(top).name = "RemoveGitHubRepo"
        BY <1>4, <3>1, RunnerIs
      <4>3. QED
        BY <4>1, <4>2 DEF InHand
    <3>2. QED
      BY <1>2, <3>1, Zenon
  <2>2. top.kind # "github_repo" => stack' # <<>>
    BY <1>4
  <2>3. QED
    BY <2>1, <2>2, Zenon DEF NoOrphan
<1>15. QED
  BY <1>6, <1>7, <1>8, <1>9, <1>10, <1>11, <1>12, <1>13, <1>14 DEF Inv

\* A cleanup returned.
LEMMA CleanedStep ==
    ASSUME Inv, Cleaned
    PROVE  Inv'
<1>1. /\ job.pc = "wait" /\ wire.pc = "over" /\ wire' = NoWire /\ External /\ job.kind = "rollback"
      /\ ctx' = ctx /\ faults' = faults /\ stack' = stack /\ saved' = saved /\ jobs' = jobs /\ ran' = ran
      /\ job' = [job EXCEPT !.pc = "pop",
                            !.failed = @ \cup (IF wire.err = "nil" THEN {} ELSE {job.step})]
  BY DEF Cleaned, Done
<1>2. (told => told') /\ (wire.err # "nil" /\ IsRepo => told')
  BY Zenon DEF Cleaned
<1>3. /\ DOMAIN job' = JobFields /\ job'.kind = "rollback" /\ job'.pc = "pop" /\ job'.gh = job.gh
      /\ job'.failed = job.failed \cup (IF wire.err = "nil" THEN {} ELSE {job.step})
      /\ job'.faults = job.faults
  BY <1>1 DEF Inv, Typed, JobFields
<1>4. ~Providing' /\ ~Rolling' /\ Rolling
  BY <1>1, <1>3 DEF Providing, Rolling
<1>5. Typed'
  BY <1>1, <1>3 DEF Inv, Typed, NoWire, WireFields
<1>6. Placed'
  BY <1>1, <1>3, <1>4 DEF Placed
<1>7. Stacked' /\ Moments'
  <2>1. jobs' \in Nat /\ jobs <= jobs'
    BY <1>1 DEF Inv, Typed
  <2>2. QED
    BY <1>1, <1>4, <2>1, StackSame
<1>8. Handed' /\ Settled'
  BY <1>3, <1>4 DEF Handed, Settled
<1>9. Guarded'
  BY <1>1, <1>3, <1>4, HeldSame DEF Inv, Guarded
<1>10. Answering'
  <2>1. Clean' => Clean
    BY <1>1, <1>3, HeldSame DEF Clean
  <2>2. Clean => (\A s \in job.failed : Unread(s)) /\ (wire.err = "nil" \/ Unread(job.step))
    BY <1>1 DEF Inv, Answering
  <2>3. QED
    BY <1>3, <2>1, <2>2 DEF Answering
<1>11. NoOrphan'
  <2>1. InHand /\ Repo \in hub => wire.err # "nil" /\ IsRepo
    <3>1. InHand => IsRepo
      BY <1>1, <1>4, NotInHand DEF Inv
    <3>2. IsRepo => wire.method.name = "RemoveGitHubRepo"
      BY <1>1, CurrentIs, RunnerIs DEF Inv, Placed, IsRepo
    <3>3. QED
      BY <1>1, <3>1, <3>2 DEF Inv, Settled
  <2>2. QED
    BY <1>1, <1>2, <2>1, OrphanSame, Zenon
<1>12. QED
  BY <1>5, <1>6, <1>7, <1>8, <1>9, <1>10, <1>11 DEF Inv

\* A wait for the workflow sleeps or asks again.
LEMMA GetsStep ==
    ASSUME Inv, External, job.kind \in DOMAIN Gets, wire' = NoWire, job.pc \in {"wait", "sleep"},
           ctx' = ctx, faults' = faults, stack' = stack, saved' = saved, jobs' = jobs, ran' = ran,
           NEW pc \in {"sleep", "call"}, job' = [job EXCEPT !.pc = pc], told => told'
    PROVE  Inv'
<1>1. /\ DOMAIN job' = JobFields /\ job'.kind = job.kind /\ job'.pc = pc /\ job'.faults = job.faults
  BY DEF Inv, Typed, JobFields
<1>2. job.kind # "provision" /\ job.kind # "rollback" /\ job.kind # "none" /\ ~Providing' /\ ~Rolling'
  BY <1>1, Tables DEF Providing, Rolling
<1>3. Typed'
  BY <1>1 DEF Inv, Typed, NoWire, WireFields
<1>4. Placed'
  BY <1>1, <1>2 DEF Placed
<1>5. Stacked' /\ Moments'
  <2>1. jobs' \in Nat /\ jobs <= jobs'
    BY DEF Inv, Typed
  <2>2. QED
    BY <1>2, <2>1, StackSame
<1>6. Handed' /\ Settled' /\ Answering'
  BY <1>1, <1>2 DEF Handed, Settled, Answering, Clean
<1>7. Guarded'
  BY <1>1, <1>2, HeldSame DEF Inv, Guarded
<1>8. NoOrphan'
  <2>1. ~InHand
    BY <1>2, NotInHand DEF Inv, Rolling
  <2>2. QED
    BY <2>1, OrphanSame, Zenon
<1>9. QED
  BY <1>3, <1>4, <1>5, <1>6, <1>7, <1>8 DEF Inv

\* The workflow was asked for.
LEMMA FollowedStep ==
    ASSUME Inv, Followed
    PROVE  Inv'
<1>1. /\ job.pc = "wait" /\ wire' = NoWire /\ External /\ job.kind \in DOMAIN Gets
      /\ ctx' = ctx /\ faults' = faults /\ stack' = stack /\ saved' = saved /\ jobs' = jobs /\ ran' = ran
  BY DEF Followed, Done
<1>2. (\E err : Returns(err, FALSE)) \/ (job' = [job EXCEPT !.pc = "sleep"] /\ UNCHANGED told)
  BY Zenon DEF Followed
<1>3. ~InHand
  BY <1>1, NotInHand, Tables DEF Inv, Rolling
<1>4. CASE \E err : Returns(err, FALSE)
  <2>1. PICK err : Returns(err, FALSE)
    BY <1>4
  <2>2. NoOrphan'
    BY <1>1, <1>3, <2>1, ReturnTells, OrphanSame, Zenon
  <2>3. /\ stack' \in Seq(Step) /\ Good(stack') /\ Members(stack') \subseteq Members(stack) \cup Members(saved)
        /\ stack' # <<>> => saved # <<>>
    BY <1>1 DEF Inv, Typed, Stacked
  <2>4. QED
    BY <1>1, <2>1, <2>2, <2>3, ReturnStep
<1>5. CASE job' = [job EXCEPT !.pc = "sleep"] /\ UNCHANGED told
  <2>1. told => told'
    BY <1>5, Zenon
  <2>2. QED
    BY <1>1, <1>5, <2>1, GetsStep
<1>6. QED
  BY <1>2, <1>4, <1>5

\* The sleep between two questions ends.
LEMMA PollStep ==
    ASSUME Inv, PollAgain \/ PollCancelled
    PROVE  Inv'
<1>1. /\ job.pc = "sleep" /\ External /\ wire' = wire /\ ctx' = ctx /\ faults' = faults
      /\ stack' = stack /\ saved' = saved /\ jobs' = jobs /\ ran' = ran
  BY DEF PollAgain, PollCancelled
<1>2. Returns("ctx", FALSE) \/ (job' = [job EXCEPT !.pc = "call"] /\ UNCHANGED told)
  BY Zenon DEF PollAgain, PollCancelled
<1>3. wire' = NoWire /\ job.kind \in DOMAIN Gets
  BY <1>1 DEF Inv, Placed
<1>4. CASE Returns("ctx", FALSE)
  <2>1. ~InHand
    BY <1>1, NotInHand DEF Inv, Rolling
  <2>2. NoOrphan'
    BY <1>1, <1>4, <2>1, ReturnTells, OrphanSame, Zenon
  <2>3. /\ stack' \in Seq(Step) /\ Good(stack') /\ Members(stack') \subseteq Members(stack) \cup Members(saved)
        /\ stack' # <<>> => saved # <<>>
    BY <1>1 DEF Inv, Typed, Stacked
  <2>4. QED
    BY <1>1, <1>3, <1>4, <2>2, <2>3, ReturnStep
<1>5. CASE job' = [job EXCEPT !.pc = "call"] /\ UNCHANGED told
  <2>1. told => told'
    BY <1>5, Zenon
  <2>2. QED
    BY <1>1, <1>3, <1>5, <2>1, GetsStep
<1>6. QED
  BY <1>2, <1>4, <1>5, Zenon

\* The process dies.
LEMMA CrashStep ==
    ASSUME Inv, Crash
    PROVE  Inv'
<1>1. /\ stack' = <<>> /\ job' = Idle /\ wire' = NoWire /\ External /\ ctx' = ctx /\ faults' = faults
      /\ saved' = saved /\ jobs' = jobs /\ ran' = ran
  BY DEF Crash
<1>2. (told => told') /\ (InHand => told')
  BY Zenon DEF Crash
<1>3. /\ DOMAIN job' = JobFields /\ job'.pc = "idle" /\ job'.kind = "none" /\ job'.faults = 0
  BY <1>1 DEF Idle, JobFields
<1>4. jobs \in Nat /\ jobs <= jobs /\ faults \in Nat /\ 0 \in 0..faults
  BY DEF Inv, Typed
<1>5. stack' \in Seq(Step) /\ Good(stack') /\ Members(stack') = {}
  BY <1>1, GoodBottom
<1>6. Answering'
  BY <1>3 DEF Answering, Clean
<1>7. NoOrphan'
  <2>1. Repo \in hub \ before => told \/ InHand \/ stack # <<>> \/ saved # <<>>
    BY DEF Inv, NoOrphan
  <2>2. stack # <<>> => saved # <<>>
    BY DEF Inv, Stacked
  <2>3. hub' = hub /\ before' = before
    BY <1>1, HeldSame
  <2>4. QED
    BY <1>1, <1>2, <2>1, <2>2, <2>3, Zenon DEF NoOrphan
<1>8. QED
  BY <1>1, <1>3, <1>4, <1>5, <1>6, <1>7, Rests

\* The next process loads what was saved.
LEMMA LoadStep ==
    ASSUME Inv, LoadSnapshot
    PROVE  Inv'
<1>1. /\ stack' = saved /\ job' = job /\ wire' = wire /\ External /\ ctx' = ctx /\ faults' = faults
      /\ saved' = saved /\ jobs' = jobs /\ ran' = ran /\ job = Idle /\ saved # <<>>
  BY DEF LoadSnapshot
<1>2. /\ DOMAIN job' = JobFields /\ job'.pc = "idle" /\ job'.kind = "none" /\ job'.faults = 0 /\ job.pc = "idle"
  BY <1>1 DEF Idle, JobFields
<1>3. jobs \in Nat /\ jobs <= jobs /\ faults \in Nat /\ 0 \in 0..faults /\ wire = NoWire
  BY <1>2 DEF Inv, Typed, Placed
<1>4. /\ stack' \in Seq(Step) /\ Good(stack') /\ Members(stack') \subseteq Members(stack) \cup Members(saved)
  BY <1>1 DEF Inv, Typed, Stacked
<1>5. Answering'
  BY <1>2 DEF Answering, Clean
<1>6. NoOrphan'
  BY <1>1, Zenon DEF NoOrphan
<1>7. QED
  BY <1>1, <1>2, <1>3, <1>4, <1>5, <1>6, Rests
-----------------------------------------------------------------------------
(* The theorems.                                                           *)

\* The invariant holds at the start.
LEMMA InvInit == Init => Inv
<1> SUFFICES ASSUME Init PROVE Inv
  OBVIOUS
<1>1. /\ hub \in {{}, {Repo}} /\ before = hub /\ wire = NoWire /\ faults = 0 /\ stack = <<>> /\ saved = <<>>
      /\ job = Idle /\ jobs = 0 /\ ran = {}
  BY DEF Init, Repo
<1>2. /\ DOMAIN job = JobFields /\ job.pc = "idle" /\ job.kind = "none" /\ job.faults = 0
  BY <1>1 DEF Idle, JobFields
<1>3. Typed
  BY <1>1, <1>2 DEF Typed, NoWire, WireFields
<1>4. ~Providing /\ ~Rolling
  BY <1>2 DEF Providing, Rolling
<1>5. Placed /\ Handed /\ Settled /\ Answering
  BY <1>1, <1>2, <1>4 DEF Placed, Handed, Settled, Answering, Clean
<1>6. Stacked /\ Moments
  BY <1>1, GoodBottom DEF Stacked, Moments
<1>7. Guarded
  BY <1>1, <1>2, <1>4 DEF Guarded
<1>8. NoOrphan
  BY <1>1 DEF NoOrphan
<1>9. QED
  BY <1>3, <1>5, <1>6, <1>7, <1>8 DEF Inv

\* Every step keeps it.
LEMMA InvNext == Inv /\ [Next]_vars => Inv'
<1> SUFFICES ASSUME Inv, [Next]_vars PROVE Inv'
  OBVIOUS
<1>1. CASE Provision \/ Provisioned \/ PushRefused \/ Push \/ PushFails
  BY <1>1, ProvisionStep, ProvisionedStep, PushStopsStep, PushStep
<1>2. CASE Rollback \/ RolledBack \/ Pop \/ PopFails \/ Cleaned
  BY <1>2, StartStep, RolledBackStep, PopStep, PopFailsStep, CleanedStep
<1>3. CASE Follow \/ Followed \/ PollAgain \/ PollCancelled \/ Call
  BY <1>3, StartStep, FollowedStep, PollStep, CallStep
<1>4. CASE Crash \/ LoadSnapshot
  BY <1>4, CrashStep, LoadStep
<1>5. CASE Transport /\ UNCHANGED deployVars
  BY <1>5, TransportStep
<1>6. CASE (RunAdvances \/ CtxDone) /\ UNCHANGED deployVars
  <2>1. client' = client /\ hub' = hub /\ wire' = wire /\ faults' = faults /\ ctx' \in {ctx, "done"}
    BY <1>6 DEF RunAdvances, CtxDone
  <2>2. QED
    BY <1>6, <2>1, SameStep
<1>7. CASE UNCHANGED vars
  <2>1. UNCHANGED deployVars
    BY <1>7, Zenon DEF vars, deployVars
  <2>2. client' = client /\ hub' = hub /\ wire' = wire /\ faults' = faults /\ ctx' \in {ctx, "done"}
    BY <1>7 DEF vars
  <2>3. QED
    BY <2>1, <2>2, SameStep
<1>8. QED
  BY <1>1, <1>2, <1>3, <1>4, <1>5, <1>6, <1>7, Zenon DEF Next

\* Every behaviour keeps the invariant.
THEOREM Invariant == Spec => []Inv
BY InvInit, InvNext, PTL DEF Spec

\* For every set of plans and wirings, and any faults, crashes and retries: a
\* repository that was there before is never removed.
THEOREM OthersRepoSurvives == Spec => []PreexistingSurvives
<1>1. Inv => PreexistingSurvives
  BY DEF Inv, Guarded, PreexistingSurvives
<1>2. QED
  BY <1>1, Invariant, PTL

\* A repository this program made is on record or was reported, and no
\* cleanup that was run is still on record.
THEOREM JournalIsTrue == Spec => []JournalTrue
<1>1. Inv => JournalTrue
  <2> SUFFICES ASSUME Inv PROVE NoSilentOrphan /\ RunOnce
    BY DEF JournalTrue
  <2>1. /\ Members(stack) = Range(stack) /\ Members(saved) = Range(saved)
        /\ stack # <<>> => \E s \in Members(stack) : s.kind = "github_repo"
        /\ saved # <<>> => \E s \in Members(saved) : s.kind = "github_repo"
    BY GoodBottom DEF Inv, Typed, Stacked
  <2>2. NoSilentOrphan
    <3>1. Repo \in hub \ before => told \/ InHand \/ stack # <<>> \/ saved # <<>>
      BY DEF Inv, NoOrphan
    <3>2. QED
      BY <2>1, <3>1, Zenon DEF NoSilentOrphan, Repo
  <2>3. RunOnce
    BY <2>1 DEF Inv, Stacked, RunOnce
  <2>4. QED
    BY <2>2, <2>3
<1>2. QED
  BY <1>1, Invariant, PTL

\* A rollback that meets no fault fails at no step but a key whose id was
\* never read.
THEOREM CleanRollbackSucceeds == Spec => []RollbackAnswered
<1>1. Inv => RollbackAnswered
  BY DEF Inv, Answering, Clean, Unread, RollbackAnswered
<1>2. QED
  BY <1>1, Invariant, PTL
===============================================================================
