----------------------------- MODULE WizardProofs -----------------------------
(***************************************************************************)
(* Proofs about WizardTransaction for every set of plans, commands, stacks *)
(* and faults: what the snapshot file and a rollback promise, with a crash *)
(* and a failure at any step, as long as the wizard's commands do not      *)
(* overlap.                                                                *)
(***************************************************************************)
EXTENDS WizardTransaction, SequenceTheorems, TLAPS

\* The commands that can be in flight together are one: the operator waits
\* for the answer of a command before the next one.
Serial ==
    \A j, k \in Job : jobs[j].kind # "idle" /\ jobs[k].kind # "idle" => j = k

(***************************************************************************)
(* What a command past its start works on.                                 *)
(***************************************************************************)
Provisioning(job) == job.kind = "exec" /\ job.pc \in {"create", "push", "save", "clear"}
Undoing(job) == job.kind \in {"rollback", "resume"} /\ job.pc \in {"pop", "run", "clear"}

Bound(job) ==
    /\ job.kind = "exec" /\ job.pc = "start" => job.sid \in StackId
    /\ Provisioning(job) => job.plan \in Plan /\ job.sid \in StackId
    /\ Provisioning(job) /\ job.pc \in {"create", "push"} => job.i \in 1..Len(PlanSteps(job.plan))
    /\ job.kind = "exec" /\ job.pc = "done" /\ ~job.failed => job.plan \in Plan
    /\ Undoing(job) => job.sid \in StackId
    /\ job.kind \in {"resume", "discard"} => ~job.mine

Typed == TypeOK /\ \A j \in Job : Bound(jobs[j])

(***************************************************************************)
(* Which screen and which slot go with which command.                      *)
(***************************************************************************)
\* Before both files are read nothing has been started.
Booting == ~Typing => slot = NoStack /\ \A j \in Job : jobs[j].kind = "idle"

\* The resume screen is there only before the first wizard, and until a
\* resume or a discard has answered.
Resuming == ui.state = "ResumeWizard" =>
    slot = NoStack /\ \A j \in Job : jobs[j].kind \notin {"exec", "rollback"}

Placed(job) ==
    /\ job.kind \in {"resume", "discard"} => ui.state = "ResumeWizard"
    /\ job.kind \in {"exec", "rollback"} /\ ~job.mine => slot = NoStack
    /\ (Provisioning(job) \/ Undoing(job)) /\ job.mine => slot = job.sid

Screens == Booting /\ Resuming /\ \A j \in Job : Placed(jobs[j])

(***************************************************************************)
(* How far a command has come, in memory, in the file and on the panel.    *)
(***************************************************************************)
Forward(job) ==
    /\ Provisioning(job) /\ job.pc \in {"create", "push"} =>
         /\ stacks[job.sid] = SubSeq(PlanSteps(job.plan), 1, job.i - 1)
         /\ job.i = 1 \/ disk = stacks[job.sid]
    /\ Provisioning(job) /\ job.pc = "save" => disk = PlanSteps(job.plan)

Backward(job) ==
    /\ job.kind = "rollback" /\ job.pc = "start" => job.hand = {} /\ job.goal = {}
    /\ Undoing(job) =>
         /\ ~job.failed => job.goal \cap panel \subseteq StepSet(stacks[job.sid]) \cup job.hand
         /\ job.goal # {} /\ stacks[job.sid] = <<>> => disk = <<>>
         /\ job.pc # "run" => job.hand = {}
         /\ job.pc = "clear" => stacks[job.sid] = <<>> /\ ~job.failed
    /\ job.kind \in {"rollback", "resume"} /\ job.pc = "done" /\ ~job.failed /\ job.goal # {} =>
         job.goal \cap panel = {} /\ disk = <<>>

Progress == \A j \in Job : Forward(jobs[j]) /\ Backward(jobs[j])

Rest == Screens /\ Progress /\ MemoryNeverAheadOfDisk
-----------------------------------------------------------------------------
\* PlanSteps gives two or three resources.
LEMMA PlanStepsType ==
    ASSUME NEW p \in Plan
    PROVE  PlanSteps(p) \in Seq(Resource) /\ Len(PlanSteps(p)) \in {2, 3}
<1> DEFINE web == << <<p, "subdomain">>, <<p, "ssl">> >>
<1>1. \A k \in Kinds : <<p, k>> \in Resource
  BY DEF Resource
<1>2. web \in Seq(Resource) /\ Len(web) = 2
  BY <1>1 DEF Kinds
<1>3. /\ Append(web, <<p, "database">>) \in Seq(Resource)
      /\ Len(Append(web, <<p, "database">>)) = 3
  BY <1>1, <1>2, AppendProperties DEF Kinds
<1> HIDE DEF web
<1>4. PlanSteps(p) = IF p \in WithDB THEN Append(web, <<p, "database">>) ELSE web
  BY DEF PlanSteps, web
<1>5. QED
  BY <1>2, <1>3, <1>4

\* A plan up to its step i.
LEMMA PlanPrefix ==
    ASSUME NEW p \in Plan, NEW i \in 1..Len(PlanSteps(p))
    PROVE  /\ PlanSteps(p)[i] \in Resource
           /\ Append(SubSeq(PlanSteps(p), 1, i - 1), PlanSteps(p)[i]) = SubSeq(PlanSteps(p), 1, i)
           /\ SubSeq(PlanSteps(p), 1, Len(PlanSteps(p))) = PlanSteps(p)
           /\ SubSeq(PlanSteps(p), 1, 0) = <<>>
<1> DEFINE s == PlanSteps(p)
<1>1. s \in Seq(Resource) /\ Len(s) \in {2, 3}
  BY PlanStepsType
<1> HIDE DEF s
<1>2. s[i] \in Resource
  BY <1>1, ElementOfSeq DEF s
<1>3. SubSeq(s, 1, i) = Append(SubSeq(s, 1, i - 1), s[i])
  BY <1>1, SubSeqRecursiveSecond DEF s
<1>4. SubSeq(s, 1, Len(s)) = s
  BY <1>1, SubSeqFull
<1>5. SubSeq(s, 1, 0) = <<>>
  BY <1>1, SubSeqEmpty
<1>6. QED
  BY <1>2, <1>3, <1>4, <1>5 DEF s

\* Popping: the front, and the step taken off.
LEMMA FrontSteps ==
    ASSUME NEW s \in Seq(Resource), s # <<>>
    PROVE  /\ Front(s) \in Seq(Resource) /\ s[Len(s)] \in Resource
           /\ StepSet(s) = StepSet(Front(s)) \cup {s[Len(s)]}
<1>1. Len(s) \in Nat \ {0} /\ Len(s) \in 1..Len(s)
  BY EmptySeq, LenProperties
<1>2. /\ Front(s) \in Seq(Resource) /\ Len(Front(s)) = Len(s) - 1
      /\ \A k \in 1..Len(s) - 1 : Front(s)[k] = s[k]
  <2> DEFINE n == Len(s) - 1
  <2>1. n \in Nat /\ 1..n \subseteq 1..Len(s)
    BY <1>1
  <2>2. \A k \in 1..n : s[k] \in Resource
    BY <2>1, ElementOfSeq
  <2> HIDE DEF n
  <2>3. /\ SubSeq(s, 1, n) \in Seq(Resource)
        /\ Len(SubSeq(s, 1, n)) = IF 1 <= n THEN n - 1 + 1 ELSE 0
        /\ \A k \in 1..(n - 1 + 1) : SubSeq(s, 1, n)[k] = s[1 + k - 1]
    BY <2>1, <2>2, SubSeqProperties
  <2>4. n - 1 + 1 = n /\ (\A k \in 1..n : 1 + k - 1 = k)
    BY <2>1
  <2>5. Len(SubSeq(s, 1, n)) = n /\ \A k \in 1..n : SubSeq(s, 1, n)[k] = s[k]
    <3>1. Len(SubSeq(s, 1, n)) = n
      BY <2>1, <2>3
    <3>2. ASSUME NEW k \in 1..n PROVE SubSeq(s, 1, n)[k] = s[k]
      BY <2>3, <2>4
    <3>3. QED
      BY <3>1, <3>2
  <2>6. QED
    BY <2>3, <2>5 DEF Front, n
<1>3. s[Len(s)] \in Resource
  BY <1>1, ElementOfSeq
<1>4. 1..Len(s) = (1..Len(s) - 1) \cup {Len(s)}
  BY <1>1
<1>5. StepSet(s) = StepSet(Front(s)) \cup {s[Len(s)]}
  BY <1>1, <1>2, <1>4 DEF StepSet
<1>6. QED
  BY <1>2, <1>3, <1>5

\* Pushing.
LEMMA AppendSteps ==
    ASSUME NEW s \in Seq(Resource), NEW r \in Resource
    PROVE  /\ Append(s, r) \in Seq(Resource) /\ Append(s, r) # <<>>
           /\ StepSet(s) \subseteq StepSet(Append(s, r))
<1>1. /\ Append(s, r) \in Seq(Resource) /\ Len(Append(s, r)) = Len(s) + 1
      /\ \A k \in 1..Len(s) : Append(s, r)[k] = s[k]
      /\ Len(s) \in Nat
  BY AppendProperties, LenProperties
<1>2. Append(s, r) # <<>>
  BY <1>1
<1>3. 1..Len(s) \subseteq 1..Len(Append(s, r))
  BY <1>1
<1>4. QED
  BY <1>1, <1>2, <1>3 DEF StepSet

\* The steps of a stack are resources, and an empty stack has none.
LEMMA StepSetType ==
    /\ StepSet(<<>>) = {}
    /\ \A s \in Seq(Resource) : StepSet(s) \subseteq Resource
BY ElementOfSeq DEF StepSet

\* A command that is not under way.
LEMMA IdleJobType ==
    /\ IdleJob \in JobType /\ Bound(IdleJob) /\ IdleJob.kind = "idle" /\ ~IdleJob.mine
    /\ IdleJob.hand = {} /\ IdleJob.goal = {}
<1>1. /\ IdleJob \in JobType /\ IdleJob.kind = "idle" /\ ~IdleJob.mine
      /\ IdleJob.hand = {} /\ IdleJob.goal = {}
  BY DEF IdleJob, JobType, JobKinds, JobPcs
<1>2. QED
  BY <1>1 DEF Bound, Provisioning, Undoing

LEMMA TypedInit == Init => Typed /\ Rest
<1> SUFFICES ASSUME Init PROVE Typed /\ Rest
  OBVIOUS
<1> USE WizardAssumption DEF Init, Volatile0
<1>1. IdleJob \in JobType /\ IdleJob.kind = "idle"
  BY IdleJobType
<1>2. BootUI \in UIType /\ ~BootUI.loaded /\ BootUI.state = "Dashboard"
  BY DEF BootUI, UIType, UIStates, UISteps
<1>3. TypeOK
  BY <1>1, <1>2 DEF TypeOK
<1>4. \A j \in Job : jobs[j] = IdleJob
  OBVIOUS
<1>5. \A j \in Job : Bound(jobs[j]) /\ Placed(jobs[j]) /\ Forward(jobs[j]) /\ Backward(jobs[j])
  BY <1>1, <1>4 DEF Bound, Placed, Forward, Backward, Provisioning, Undoing
<1>6. Booting /\ Resuming /\ MemoryNeverAheadOfDisk
  BY <1>1, <1>2, <1>4 DEF Booting, Resuming, MemoryNeverAheadOfDisk
<1>7. QED
  BY <1>3, <1>5, <1>6 DEF Typed, Rest, Screens, Progress
-----------------------------------------------------------------------------
\* A step of the Model alone: it reads the files at start-up, or it does not
\* touch the choice of the resume screen.
LEMMA ScreenStep ==
    ASSUME Typed, ui' \in UIType, UNCHANGED <<panel, disk, saved, stacks, slot, jobs>>,
           Typing => Typing',
           ~Typing \/ (ui'.state = "ResumeWizard" <=> ui.state = "ResumeWizard")
    PROVE  Typed' /\ (Rest => Rest')
<1>1. Typed'
  BY DEF Typed, TypeOK, Bound, Provisioning, Undoing
<1>2. ASSUME Rest PROVE Rest'
  <2>1. Progress' /\ MemoryNeverAheadOfDisk'
    BY <1>2 DEF Rest, Progress, MemoryNeverAheadOfDisk, Forward, Backward, Provisioning, Undoing
  <2>2. Booting'
    BY <1>2 DEF Rest, Screens, Booting
  <2>3. CASE ~Typing
    <3>1. slot = NoStack /\ \A j \in Job : jobs[j].kind = "idle"
      BY <1>2, <2>3 DEF Rest, Screens, Booting
    <3>2. Resuming' /\ \A j \in Job : Placed(jobs[j])'
      BY <3>1 DEF Resuming, Placed, Provisioning, Undoing
    <3>3. QED
      BY <2>1, <2>2, <3>2 DEF Rest, Screens
  <2>4. CASE ui'.state = "ResumeWizard" <=> ui.state = "ResumeWizard"
    <3>1. Resuming' /\ \A j \in Job : Placed(jobs[j])'
      BY <1>2, <2>4 DEF Rest, Screens, Resuming, Placed, Provisioning, Undoing
    <3>2. QED
      BY <2>1, <2>2, <3>1 DEF Rest, Screens
  <2>5. QED
    BY <2>3, <2>4
<1>3. QED
  BY <1>1, <1>2

\* The operator's keys and the answers that only move the form.
LEMMA FormStep ==
    ASSUME Typed,
           \/ ReadPending \/ PendingLoaded \/ ConfigLoaded \/ KeyCheckDomain \/ DomainChecked
           \/ KeyBack \/ KeyLeave \/ KeyDiscard \/ \E p \in Plan : EditDomain(p)
    PROVE  Typed' /\ (Rest => Rest')
<1>0. /\ ui \in UIType /\ disk \in Seq(Resource) /\ saved \in SUBSET Plan
      /\ <<>> \in Seq(Resource)
  BY DEF Typed, TypeOK
<1> USE DEF durable
<1>1. CASE ReadPending
  <2>1. ui' \in UIType /\ ~Typing
    BY <1>0, <1>1 DEF ReadPending, UIType, Typing
  <2>2. QED
    BY <1>1, <2>1, ScreenStep DEF ReadPending
<1>2. CASE PendingLoaded
  <2>1. ui' \in UIType /\ ~Typing
    BY <1>0, <1>2 DEF PendingLoaded, UIType, UIStates, Typing
  <2>2. QED
    BY <1>2, <2>1, ScreenStep DEF PendingLoaded
<1>3. CASE ConfigLoaded
  <2>1. ui' \in UIType /\ ~Typing
    BY <1>0, <1>3 DEF ConfigLoaded, UIType, UIStates, Typing
  <2>2. QED
    BY <1>3, <2>1, ScreenStep DEF ConfigLoaded
<1>4. CASE KeyCheckDomain
  <2> DEFINE n == ui.checks + 1
  <2>1. n \in 0..MaxChecks
    BY <1>0, <1>4, WizardAssumption DEF KeyCheckDomain, UIType
  <2> HIDE DEF n
  <2>2. ui' = [ui EXCEPT !.checks = n]
    BY <1>4 DEF KeyCheckDomain, n
  <2>3. ui' \in UIType /\ ui'.state = ui.state /\ ui'.pend = ui.pend /\ ui'.loaded = ui.loaded
    BY <1>0, <2>1, <2>2 DEF UIType
  <2>4. QED
    BY <1>4, <2>3, ScreenStep DEF KeyCheckDomain, Typing
<1>5. CASE DomainChecked
  <2> DEFINE n == ui.checks - 1
  <2>1. n \in 0..MaxChecks
    BY <1>0, <1>5, WizardAssumption DEF DomainChecked, UIType
  <2> HIDE DEF n
  <2>2. ui' = [ui EXCEPT !.checks = n] \/ ui' = [ui EXCEPT !.checks = n, !.step = "Review"]
    BY <1>5 DEF DomainChecked, n
  <2>3. ui' \in UIType /\ ui'.state = ui.state /\ ui'.pend = ui.pend /\ ui'.loaded = ui.loaded
    BY <1>0, <2>1, <2>2 DEF UIType, UISteps
  <2>4. QED
    BY <1>5, <2>3, ScreenStep DEF DomainChecked, Typing
<1>6. CASE KeyBack
  <2>1. ui' \in UIType /\ ui'.state = ui.state /\ ui'.pend = ui.pend /\ ui'.loaded = ui.loaded
    BY <1>0, <1>6 DEF KeyBack, UIType, UISteps
  <2>2. QED
    BY <1>6, <2>1, ScreenStep DEF KeyBack, Typing
<1>7. CASE KeyLeave
  <2>1. /\ ui' \in UIType /\ ui'.state # "ResumeWizard" /\ ui.state # "ResumeWizard"
        /\ ui'.pend = ui.pend /\ ui'.loaded = ui.loaded
    BY <1>0, <1>7 DEF KeyLeave, UIType, UISteps, UIStates
  <2>2. QED
    BY <1>7, <2>1, ScreenStep DEF KeyLeave, Typing
<1>8. CASE KeyDiscard
  <2>1. ui' \in UIType /\ ui'.state = ui.state /\ ui'.pend = ui.pend /\ ui'.loaded = ui.loaded
    BY <1>0, <1>8 DEF KeyDiscard, UIType
  <2>2. QED
    BY <1>8, <2>1, ScreenStep DEF KeyDiscard, Typing
<1>9. ASSUME NEW p \in Plan, EditDomain(p) PROVE Typed' /\ (Rest => Rest')
  <2>1. ui' \in UIType /\ ui'.state = ui.state /\ ui'.pend = ui.pend /\ ui'.loaded = ui.loaded
    BY <1>0, <1>9 DEF EditDomain, UIType
  <2>2. QED
    BY <1>9, <2>1, ScreenStep DEF EditDomain, Typing
<1>10. QED
  BY <1>1, <1>2, <1>3, <1>4, <1>5, <1>6, <1>7, <1>8, <1>9
-----------------------------------------------------------------------------
\* A step of command j leaves the others alone.
LEMMA OneJob ==
    ASSUME Typed, NEW j \in Job, NEW r \in JobType, Bound(r), jobs' = [jobs EXCEPT ![j] = r]
    PROVE  /\ jobs' \in [Job -> JobType] /\ jobs'[j] = r
           /\ \A k \in Job : k # j => jobs'[k] = jobs[k]
           /\ \A k \in Job : Bound(jobs'[k])
<1>1. jobs \in [Job -> JobType] /\ \A k \in Job : Bound(jobs[k])
  BY DEF Typed, TypeOK
<1>2. /\ jobs' \in [Job -> JobType] /\ jobs'[j] = r
      /\ \A k \in Job : k # j => jobs'[k] = jobs[k]
  BY <1>1
<1>3. \A k \in Job : Bound(jobs'[k])
  BY <1>1, <1>2, Zenon
<1>4. QED
  BY <1>2, <1>3

\* The types of the other variables after a step.
LEMMA TypedAfter ==
    ASSUME panel' \subseteq Resource, disk' \in Seq(Resource), saved' \subseteq Plan,
           stacks' \in [StackId -> Seq(Resource)], slot' \in StackId \cup {NoStack},
           jobs' \in [Job -> JobType], \A k \in Job : Bound(jobs'[k]), ui' \in UIType
    PROVE  Typed'
BY DEF Typed, TypeOK, Bound, Provisioning, Undoing

\* With every other command idle, what is said of all of them is said of j.
LEMMA Alone ==
    ASSUME NEW j \in Job, \A k \in Job : k # j => jobs'[k] = jobs[k],
           \/ Serial /\ jobs[j].kind # "idle"
           \/ Serial' /\ jobs'[j].kind # "idle",
           Placed(jobs[j])', Forward(jobs[j])', Backward(jobs[j])'
    PROVE  /\ \A k \in Job : k # j => jobs'[k].kind = "idle"
           /\ Progress' /\ \A k \in Job : Placed(jobs[k])'
<1>1. ASSUME NEW k \in Job, k # j PROVE jobs'[k].kind = "idle"
  BY <1>1 DEF Serial
<1>2. ASSUME NEW k \in Job, k # j PROVE (Placed(jobs[k]) /\ Forward(jobs[k]) /\ Backward(jobs[k]))'
  BY <1>1, <1>2 DEF Placed, Forward, Backward, Provisioning, Undoing
<1>3. QED
  BY <1>1, <1>2 DEF Progress

\* A step of a command that goes on or ends.
LEMMA CommandStep ==
    ASSUME Typed, Rest, Serial, NEW j \in Job, jobs[j].kind # "idle", ui' = ui,
           \A k \in Job : k # j => jobs'[k] = jobs[k],
           jobs'[j].kind = jobs[j].kind, jobs'[j].mine = jobs[j].mine,
           ~jobs[j].mine => slot' = slot,
           (Provisioning(jobs'[j]) \/ Undoing(jobs'[j])) /\ jobs[j].mine => slot' = jobs'[j].sid,
           Forward(jobs[j])', Backward(jobs[j])', MemoryNeverAheadOfDisk'
    PROVE  Rest'
<1>1. /\ Booting /\ Resuming /\ Placed(jobs[j]) /\ Bound(jobs[j])
  BY DEF Rest, Screens, Typed
<1>2. Placed(jobs[j])'
  BY <1>1 DEF Placed, Provisioning, Undoing
<1>3. /\ \A k \in Job : k # j => jobs'[k].kind = "idle"
      /\ Progress' /\ \A k \in Job : Placed(jobs[k])'
  BY <1>2, Alone
<1>4. Typing /\ Typing'
  BY <1>1 DEF Booting, Typing
<1>5. Booting'
  BY <1>4 DEF Booting
<1>6. Resuming'
  <2>1. jobs[j].kind \in JobKinds
    BY DEF Typed, TypeOK, JobType
  <2>2. QED
    BY <1>1, <1>3, <2>1 DEF Resuming, Bound, JobKinds
<1>7. QED
  BY <1>3, <1>5, <1>6 DEF Rest, Screens

\* A command reports.
LEMMA FinishStep ==
    ASSUME Typed, NEW j \in Job, jobs[j].kind # "idle", NEW f \in BOOLEAN, Finish(j, f), ui' = ui,
           jobs[j].kind = "exec" /\ ~f => jobs[j].plan \in Plan,
           panel' \subseteq Resource, disk' \in Seq(Resource), saved' \subseteq Plan,
           stacks' \in [StackId -> Seq(Resource)], slot' \in StackId \cup {NoStack}
    PROVE  /\ Typed'
           /\ /\ Rest /\ Serial /\ (~jobs[j].mine => slot' = slot) /\ MemoryNeverAheadOfDisk'
              /\ jobs[j].kind \in {"rollback", "resume"} /\ ~f /\ jobs[j].goal # {} =>
                     jobs[j].goal \cap panel' = {} /\ disk' = <<>>
              => Rest'
<1> DEFINE r == [jobs[j] EXCEPT !.pc = "done", !.hand = {}, !.failed = f]
<1>0. jobs[j] \in JobType /\ Bound(jobs[j]) /\ ui \in UIType
  BY DEF Typed, TypeOK
<1>1. jobs' = [jobs EXCEPT ![j] = r]
  BY DEF Finish
<1>2. /\ r \in JobType /\ r.pc = "done" /\ r.kind = jobs[j].kind /\ r.mine = jobs[j].mine
      /\ r.failed = f /\ r.goal = jobs[j].goal /\ r.plan = jobs[j].plan
  BY <1>0 DEF JobType, JobPcs
<1> HIDE DEF r
<1>3. Bound(r) /\ ~Provisioning(r) /\ ~Undoing(r)
  BY <1>0, <1>2 DEF Bound, Provisioning, Undoing
<1>4. /\ jobs' \in [Job -> JobType] /\ jobs'[j] = r
      /\ \A k \in Job : k # j => jobs'[k] = jobs[k]
      /\ \A k \in Job : Bound(jobs'[k])
  BY <1>1, <1>2, <1>3, OneJob
<1>5. Typed'
  BY <1>0, <1>4, TypedAfter
<1>6. ASSUME Rest, Serial, ~jobs[j].mine => slot' = slot, MemoryNeverAheadOfDisk',
             jobs[j].kind \in {"rollback", "resume"} /\ ~f /\ jobs[j].goal # {} =>
                 jobs[j].goal \cap panel' = {} /\ disk' = <<>>
      PROVE  Rest'
  <2>1. Forward(jobs[j])' /\ Backward(jobs[j])'
    BY <1>2, <1>3, <1>4, <1>6 DEF Forward, Backward, Provisioning, Undoing
  <2>2. QED
    BY <1>2, <1>3, <1>4, <1>6, <2>1, CommandStep
<1>7. QED
  BY <1>5, <1>6
-----------------------------------------------------------------------------
\* Execute.
LEMMA ExecStep ==
    ASSUME Typed, NEW j \in Job,
           ExecStart(j) \/ ExecCreate(j) \/ ExecPush(j) \/ ExecSave(j) \/ ExecClear(j)
    PROVE  Typed' /\ (Rest /\ Serial => Rest')
<1> USE WizardAssumption DEF durable
<1>0. /\ panel \subseteq Resource /\ disk \in Seq(Resource) /\ saved \subseteq Plan
      /\ stacks \in [StackId -> Seq(Resource)] /\ slot \in StackId \cup {NoStack}
      /\ jobs[j] \in JobType /\ Bound(jobs[j]) /\ ui \in UIType /\ <<>> \in Seq(Resource)
  BY DEF Typed, TypeOK
<1>1. /\ jobs[j].kind = "exec" /\ jobs[j].kind # "idle" /\ ui' = ui
  BY DEF ExecStart, ExecCreate, ExecPush, ExecSave, ExecClear, At
<1>2. ASSUME Rest PROVE Placed(jobs[j]) /\ Forward(jobs[j]) /\ MemoryNeverAheadOfDisk
  BY <1>2 DEF Rest, Screens, Progress
<1>3. CASE ExecStart(j)
  <2> DEFINE sid == jobs[j].sid
  <2>1. /\ jobs[j].pc = "start" /\ sid \in StackId /\ UNCHANGED <<panel, disk, saved>>
        /\ stacks' = [stacks EXCEPT ![sid] = <<>>]
        /\ slot' = IF jobs[j].mine THEN sid ELSE slot
    BY <1>0, <1>1, <1>3 DEF ExecStart, At, Bound, SetSlot
  <2>2. /\ stacks' \in [StackId -> Seq(Resource)] /\ slot' \in StackId \cup {NoStack}
        /\ stacks'[sid] = <<>>
    BY <1>0, <2>1
  <2>3. Rest => MemoryNeverAheadOfDisk'
    <3>1. ASSUME ~jobs[j].mine, Rest PROVE slot' = NoStack
      BY <1>1, <1>2, <2>1, <3>1 DEF Placed
    <3>2. QED
      BY <2>1, <2>2, <3>1, StepSetType DEF MemoryNeverAheadOfDisk
  <2>4. CASE Finish(j, TRUE)
    BY <1>0, <1>1, <2>1, <2>2, <2>3, <2>4, FinishStep
  <2>5. CASE ~Finish(j, TRUE)
    <3> DEFINE r == [jobs[j] EXCEPT !.pc = "create", !.i = 1]
    <3>1. jobs' = [jobs EXCEPT ![j] = r] /\ jobs[j].plan # NoPlan
      BY <1>3, <2>5 DEF ExecStart, ValidatePlan
    <3>2. /\ r \in JobType /\ r.pc = "create" /\ r.kind = "exec" /\ r.mine = jobs[j].mine
          /\ r.plan = jobs[j].plan /\ r.plan \in Plan /\ r.i = 1 /\ r.sid = sid
      <4>1. 1 \in 0..3 /\ jobs[j].plan \in Plan
        BY <1>0, <3>1 DEF JobType
      <4>2. QED
        BY <1>0, <1>1, <4>1 DEF JobType, JobPcs
    <3> HIDE DEF r
    <3>3. Bound(r)
      <4>1. r.i \in 1..Len(PlanSteps(r.plan))
        <5> DEFINE n == Len(PlanSteps(r.plan))
        <5>1. n = 2 \/ n = 3
          BY <3>2, PlanStepsType
        <5> HIDE DEF n
        <5>2. 1 \in 1..n
          BY <5>1
        <5>3. QED
          BY <3>2, <5>2 DEF n
      <4>2. QED
        BY <2>1, <3>2, <4>1 DEF Bound, Undoing
    <3>4. /\ jobs' \in [Job -> JobType] /\ jobs'[j] = r
          /\ \A k \in Job : k # j => jobs'[k] = jobs[k]
          /\ \A k \in Job : Bound(jobs'[k])
      BY <3>1, <3>2, <3>3, OneJob
    <3>5. Typed'
      BY <1>0, <1>1, <2>1, <2>2, <3>4, TypedAfter
    <3>6. Forward(jobs[j])' /\ Backward(jobs[j])'
      <4>1. stacks'[sid] = SubSeq(PlanSteps(r.plan), 1, 1 - 1)
        BY <2>2, <3>2, SubSeqEmpty
      <4>2. QED
        BY <3>2, <3>4, <4>1 DEF Forward, Backward, Provisioning, Undoing
    <3>7. QED
      BY <1>1, <2>1, <2>3, <3>2, <3>4, <3>5, <3>6, CommandStep
  <2>6. QED
    BY <2>4, <2>5
<1>4. CASE ExecCreate(j)
  <2>1. /\ jobs[j].pc = "create" /\ UNCHANGED <<disk, saved, stacks, slot>>
        /\ jobs[j].plan \in Plan /\ jobs[j].i \in 1..Len(PlanSteps(jobs[j].plan))
        /\ Provisioning(jobs[j])
    BY <1>0, <1>1, <1>4 DEF ExecCreate, At, Bound, Provisioning
  <2>2. NextResource(j) \in Resource
    BY <2>1, PlanPrefix DEF NextResource
  <2>3. panel' \subseteq Resource
    BY <1>0, <1>4, <2>2 DEF ExecCreate
  <2>4. Rest => MemoryNeverAheadOfDisk'
    BY <1>2, <2>1 DEF MemoryNeverAheadOfDisk
  <2>5. CASE Finish(j, TRUE)
    BY <1>0, <1>1, <2>1, <2>3, <2>4, <2>5, FinishStep
  <2>6. CASE ~Finish(j, TRUE)
    <3> DEFINE r == [jobs[j] EXCEPT !.pc = "push", !.hand = {NextResource(j)}]
    <3>1. jobs' = [jobs EXCEPT ![j] = r]
      BY <1>4, <2>6 DEF ExecCreate
    <3>2. /\ r \in JobType /\ r.pc = "push" /\ r.kind = "exec" /\ r.mine = jobs[j].mine
          /\ r.plan = jobs[j].plan /\ r.i = jobs[j].i /\ r.sid = jobs[j].sid
      BY <1>0, <1>1, <2>2 DEF JobType, JobPcs
    <3> HIDE DEF r
    <3>3. Bound(r)
      BY <1>0, <1>1, <2>1, <3>2 DEF Bound, Provisioning, Undoing
    <3>4. /\ jobs' \in [Job -> JobType] /\ jobs'[j] = r
          /\ \A k \in Job : k # j => jobs'[k] = jobs[k]
          /\ \A k \in Job : Bound(jobs'[k])
      BY <3>1, <3>2, <3>3, OneJob
    <3>5. Typed'
      BY <1>0, <1>1, <2>1, <2>3, <3>4, TypedAfter
    <3>6. ASSUME Rest PROVE Forward(jobs[j])' /\ Backward(jobs[j])'
      BY <1>2, <2>1, <3>2, <3>4, <3>6 DEF Forward, Backward, Provisioning, Undoing
    <3>7. ASSUME Rest, jobs[j].mine PROVE slot' = jobs'[j].sid
      BY <1>2, <2>1, <3>2, <3>4, <3>7 DEF Placed
    <3>8. QED
      BY <1>1, <2>1, <2>4, <3>2, <3>4, <3>5, <3>6, <3>7, CommandStep
  <2>7. QED
    BY <2>5, <2>6
<1>5. CASE ExecPush(j)
  <2> DEFINE sid == jobs[j].sid
             steps == PlanSteps(jobs[j].plan)
             pushed == Append(stacks[sid], NextResource(j))
  <2>1. /\ jobs[j].pc = "push" /\ UNCHANGED <<panel, saved, slot>>
        /\ jobs[j].plan \in Plan /\ jobs[j].i \in 1..Len(steps) /\ sid \in StackId
        /\ Provisioning(jobs[j])
    BY <1>0, <1>1, <1>5 DEF ExecPush, At, Bound, Provisioning
  <2>2. stacks[sid] \in Seq(Resource) /\ NextResource(j) \in Resource
    BY <1>0, <2>1, PlanPrefix DEF NextResource
  <2>3. pushed \in Seq(Resource) /\ StepSet(stacks[sid]) \subseteq StepSet(pushed)
    BY <2>2, AppendSteps
  <2>4. ASSUME Rest PROVE pushed = SubSeq(steps, 1, jobs[j].i)
    <3>1. stacks[sid] = SubSeq(steps, 1, jobs[j].i - 1)
      BY <1>2, <2>1, <2>4 DEF Forward
    <3>2. QED
      BY <2>1, <3>1, PlanPrefix DEF NextResource
  <2>5. ASSUME Rest PROVE slot \in {NoStack, sid}
    BY <1>1, <1>2, <2>1, <2>5 DEF Placed
  <2>6. CASE PersistFails(pushed) /\ Finish(j, TRUE) /\ UNCHANGED stacks
    <3>1. disk' \in {disk, pushed}
      BY <2>6 DEF PersistFails
    <3>2. Rest => MemoryNeverAheadOfDisk'
      BY <1>2, <2>1, <2>3, <2>5, <2>6, <3>1 DEF MemoryNeverAheadOfDisk
    <3>3. disk' \in Seq(Resource)
      BY <1>0, <2>3, <3>1
    <3>4. QED
      BY <1>0, <1>1, <2>1, <2>6, <3>2, <3>3, FinishStep
  <2>7. CASE ~(PersistFails(pushed) /\ Finish(j, TRUE) /\ UNCHANGED stacks)
    <3> DEFINE last == jobs[j].i = Len(steps)
               pc == IF last THEN "save" ELSE "create"
               i == IF last THEN jobs[j].i ELSE jobs[j].i + 1
               r == [jobs[j] EXCEPT !.pc = pc, !.hand = {}, !.i = i]
    <3>1. disk' = pushed /\ stacks' = [stacks EXCEPT ![sid] = pushed]
      BY <1>5, <2>7 DEF ExecPush, PersistOk
    <3>2. jobs' = [jobs EXCEPT ![j] = r]
      <4>1. jobs' = IF last THEN [jobs EXCEPT ![j].pc = "save", ![j].hand = {}]
                            ELSE [jobs EXCEPT ![j].pc = "create", ![j].hand = {}, ![j].i = @ + 1]
        BY <1>5, <2>7 DEF ExecPush
      <4>2. CASE last
        <5>1. [jobs[j] EXCEPT !.pc = "save", !.hand = {}] = r
          BY <1>0, <4>2 DEF JobType
        <5>2. QED
          BY <4>1, <4>2, <5>1
      <4>3. CASE ~last
        BY <4>1, <4>3
      <4>4. QED
        BY <4>2, <4>3
    <3>3. /\ i \in 1..Len(steps) /\ i \in 0..3
          /\ last => pc = "save" /\ jobs[j].i = Len(steps)
          /\ ~last => pc = "create" /\ i # 1 /\ i - 1 = jobs[j].i
      <4> DEFINE n == Len(steps)
                 m == jobs[j].i
      <4>1. (n = 2 \/ n = 3) /\ m \in 1..n
        BY <2>1, PlanStepsType
      <4> HIDE DEF n, m
      <4>2. /\ m = n => m \in 1..n /\ m \in 0..3
            /\ m # n => m + 1 \in 1..n /\ m + 1 \in 0..3 /\ m + 1 # 1 /\ m + 1 - 1 = m
        BY <4>1
      <4>3. CASE last
        <5>1. i = m /\ m = n /\ pc = "save"
          BY <4>3 DEF n, m
        <5>2. QED
          BY <4>2, <4>3, <5>1, Zenon DEF n, m
      <4>4. CASE ~last
        <5>1. i = m + 1 /\ m # n /\ pc = "create"
          BY <4>4 DEF n, m
        <5> HIDE DEF i, pc
        <5>2. i \in 1..n /\ i \in 0..3 /\ i # 1 /\ i - 1 = m
          BY <4>1, <5>1
        <5>3. QED
          BY <4>4, <5>1, <5>2, Zenon DEF n, m
      <4>5. QED
        BY <4>3, <4>4, Zenon
    <3> HIDE DEF pc, i, last
    <3>4. /\ r \in JobType /\ r.pc = pc /\ r.kind = "exec" /\ r.mine = jobs[j].mine
          /\ r.plan = jobs[j].plan /\ r.i = i /\ r.sid = sid /\ pc \in {"save", "create"}
      BY <1>0, <1>1, <3>3 DEF JobType, JobPcs
    <3> HIDE DEF r
    <3>5. Bound(r)
      BY <1>0, <1>1, <2>1, <3>3, <3>4 DEF Bound, Provisioning, Undoing
    <3>6. /\ jobs' \in [Job -> JobType] /\ jobs'[j] = r
          /\ \A k \in Job : k # j => jobs'[k] = jobs[k]
          /\ \A k \in Job : Bound(jobs'[k])
      BY <3>2, <3>4, <3>5, OneJob
    <3>7. stacks' \in [StackId -> Seq(Resource)] /\ stacks'[sid] = pushed
      BY <1>0, <2>1, <2>3, <3>1
    <3>8. Typed'
      BY <1>0, <1>1, <2>1, <2>3, <3>1, <3>6, <3>7, TypedAfter
    <3>9. Rest => MemoryNeverAheadOfDisk'
      BY <2>1, <2>5, <3>1, <3>7 DEF MemoryNeverAheadOfDisk
    <3>10. ASSUME Rest PROVE Forward(jobs[j])' /\ Backward(jobs[j])'
      <4>1. last => disk' = steps
        BY <2>1, <2>4, <3>1, <3>3, <3>10, PlanPrefix
      <4>2. ~last => stacks'[sid] = SubSeq(steps, 1, i - 1) /\ disk' = stacks'[sid]
        BY <2>4, <3>1, <3>3, <3>7, <3>10
      <4>3. QED
        BY <3>3, <3>4, <3>6, <4>1, <4>2 DEF Forward, Backward, Provisioning, Undoing
    <3>11. ASSUME Rest, jobs[j].mine PROVE slot' = jobs'[j].sid
      BY <1>2, <2>1, <3>4, <3>6, <3>11 DEF Placed
    <3>12. QED
      BY <1>1, <2>1, <3>4, <3>6, <3>8, <3>9, <3>10, <3>11, CommandStep
  <2>8. QED
    BY <2>6, <2>7
<1>6. CASE ExecSave(j)
  <2>1. /\ jobs[j].pc = "save" /\ UNCHANGED <<panel, disk, stacks, slot>>
        /\ jobs[j].plan \in Plan /\ jobs[j].sid \in StackId /\ Provisioning(jobs[j])
    BY <1>0, <1>1, <1>6 DEF ExecSave, At, Bound, Provisioning
  <2>2. saved' \subseteq Plan
    BY <1>0, <1>6, <2>1 DEF ExecSave, JobType
  <2>3. Rest => MemoryNeverAheadOfDisk'
    BY <1>2, <2>1 DEF MemoryNeverAheadOfDisk
  <2>4. CASE Finish(j, TRUE)
    BY <1>0, <1>1, <2>1, <2>2, <2>3, <2>4, FinishStep
  <2>5. CASE ~Finish(j, TRUE)
    <3> DEFINE r == [jobs[j] EXCEPT !.pc = "clear"]
    <3>1. jobs' = [jobs EXCEPT ![j] = r]
      BY <1>6, <2>5 DEF ExecSave
    <3>2. /\ r \in JobType /\ r.pc = "clear" /\ r.kind = "exec" /\ r.mine = jobs[j].mine
          /\ r.plan = jobs[j].plan /\ r.sid = jobs[j].sid
      BY <1>0, <1>1 DEF JobType, JobPcs
    <3> HIDE DEF r
    <3>3. Bound(r)
      BY <2>1, <3>2 DEF Bound, Provisioning, Undoing
    <3>4. /\ jobs' \in [Job -> JobType] /\ jobs'[j] = r
          /\ \A k \in Job : k # j => jobs'[k] = jobs[k]
          /\ \A k \in Job : Bound(jobs'[k])
      BY <3>1, <3>2, <3>3, OneJob
    <3>5. Typed'
      BY <1>0, <1>1, <2>1, <2>2, <3>4, TypedAfter
    <3>6. Forward(jobs[j])' /\ Backward(jobs[j])'
      BY <3>2, <3>4 DEF Forward, Backward, Provisioning, Undoing
    <3>7. ASSUME Rest, jobs[j].mine PROVE slot' = jobs'[j].sid
      BY <1>2, <2>1, <3>2, <3>4, <3>7 DEF Placed
    <3>8. QED
      BY <1>1, <2>1, <2>3, <3>2, <3>4, <3>5, <3>6, <3>7, CommandStep
  <2>6. QED
    BY <2>4, <2>5
<1>7. CASE ExecClear(j)
  <2>1. /\ UNCHANGED <<panel, saved, stacks>> /\ Finish(j, FALSE) /\ disk' \in {<<>>, disk}
        /\ slot' = IF jobs[j].mine THEN NoStack ELSE slot
        /\ jobs[j].plan \in Plan
    BY <1>0, <1>7 DEF ExecClear, ClearOk, ClearFails, SetSlot, At, Bound, Provisioning
  <2>2. ASSUME Rest PROVE slot' = NoStack
    BY <1>1, <1>2, <2>1, <2>2 DEF Placed
  <2>3. Rest => MemoryNeverAheadOfDisk'
    BY <2>2 DEF MemoryNeverAheadOfDisk
  <2>4. disk' \in Seq(Resource) /\ slot' \in StackId \cup {NoStack}
    BY <1>0, <2>1
  <2>5. QED
    BY <1>0, <1>1, <2>1, <2>3, <2>4, FinishStep
<1>8. QED
  BY <1>3, <1>4, <1>5, <1>6, <1>7

\* Stack.Rollback, after a failure and from the resume screen, and the discard.
LEMMA UndoStep ==
    ASSUME Typed, NEW j \in Job,
           \/ RollbackStart(j) \/ RollbackPop(j) \/ RollbackRun(j) \/ RollbackClear(j)
           \/ DiscardRun(j)
    PROVE  Typed' /\ (Rest /\ Serial => Rest')
<1> USE WizardAssumption DEF durable
<1>0. /\ panel \subseteq Resource /\ disk \in Seq(Resource) /\ saved \subseteq Plan
      /\ stacks \in [StackId -> Seq(Resource)] /\ slot \in StackId \cup {NoStack}
      /\ jobs[j] \in JobType /\ Bound(jobs[j]) /\ ui \in UIType /\ <<>> \in Seq(Resource)
  BY DEF Typed, TypeOK
<1>1. jobs[j].kind \in {"rollback", "resume", "discard"} /\ jobs[j].kind # "idle" /\ ui' = ui
  BY DEF RollbackStart, RollbackPop, RollbackRun, RollbackClear, DiscardRun, At
<1>2. ASSUME Rest PROVE /\ Placed(jobs[j]) /\ Backward(jobs[j]) /\ MemoryNeverAheadOfDisk
                        /\ jobs[j].kind \in {"resume", "discard"} => slot = NoStack
  BY <1>2 DEF Rest, Screens, Progress, Placed, Resuming
<1>3. CASE RollbackStart(j)
  <2> DEFINE sid == SlotOf(j)
  <2>1. /\ jobs[j].kind = "rollback" /\ jobs[j].pc = "start"
        /\ UNCHANGED <<panel, disk, saved, stacks, slot>>
    BY <1>3 DEF RollbackStart, At
  <2>2. Rest => MemoryNeverAheadOfDisk'
    BY <1>2, <2>1 DEF MemoryNeverAheadOfDisk
  <2>3. CASE Finish(j, TRUE)
    BY <1>0, <1>1, <2>1, <2>2, <2>3, FinishStep
  <2>4. CASE sid = NoStack /\ Finish(j, FALSE)
    <3>1. ASSUME Rest PROVE jobs[j].goal = {}
      BY <1>2, <2>1, <3>1 DEF Backward
    <3>2. QED
      BY <1>0, <1>1, <2>1, <2>2, <2>4, <3>1, FinishStep
  <2>5. CASE sid # NoStack /\ ~Finish(j, TRUE)
    <3> DEFINE goal == StepSet(stacks[sid])
               r == [jobs[j] EXCEPT !.pc = "pop", !.sid = sid, !.goal = goal]
    <3>1. jobs' = [jobs EXCEPT ![j] = r]
      BY <1>3, <2>5 DEF RollbackStart
    <3>2. sid \in StackId /\ (jobs[j].mine => sid = slot)
      BY <1>0, <2>5 DEF SlotOf, JobType
    <3>3. goal \subseteq Resource
      BY <1>0, <3>2, StepSetType
    <3>4. /\ r \in JobType /\ r.pc = "pop" /\ r.kind = "rollback" /\ r.mine = jobs[j].mine
          /\ r.sid = sid /\ r.goal = goal /\ r.hand = jobs[j].hand /\ r.failed = jobs[j].failed
      BY <1>0, <2>1, <3>2, <3>3 DEF JobType, JobPcs
    <3> HIDE DEF r
    <3>5. Bound(r)
      BY <3>2, <3>4 DEF Bound, Provisioning, Undoing
    <3>6. /\ jobs' \in [Job -> JobType] /\ jobs'[j] = r
          /\ \A k \in Job : k # j => jobs'[k] = jobs[k]
          /\ \A k \in Job : Bound(jobs'[k])
      BY <3>1, <3>4, <3>5, OneJob
    <3>7. Typed'
      BY <1>0, <1>1, <2>1, <3>6, TypedAfter
    <3>8. ASSUME Rest PROVE Forward(jobs[j])' /\ Backward(jobs[j])'
      <4>1. goal # {} => stacks[sid] # <<>>
        BY StepSetType
      <4>2. jobs[j].hand = {}
        BY <1>2, <2>1, <3>8 DEF Backward
      <4> HIDE DEF goal
      <4>3. Forward(jobs[j])'
        BY <3>4, <3>6 DEF Forward, Provisioning
      <4>4. jobs'[j].goal \cap panel' \subseteq StepSet(stacks'[jobs'[j].sid]) \cup jobs'[j].hand
        BY <2>1, <3>4, <3>6 DEF goal
      <4>5. QED
        BY <2>1, <3>4, <3>6, <4>1, <4>2, <4>3, <4>4 DEF Backward, Undoing
    <3>9. QED
      BY <1>1, <2>1, <2>2, <3>2, <3>4, <3>6, <3>7, <3>8, CommandStep
  <2>6. QED
    BY <1>3, <2>3, <2>4, <2>5 DEF RollbackStart
<1>4. CASE RollbackPop(j)
  <2> DEFINE sid == jobs[j].sid
             rest == Front(stacks[sid])
             top == stacks[sid][Len(stacks[sid])]
  <2>1. /\ jobs[j].pc = "pop" /\ jobs[j].kind \in {"rollback", "resume"} /\ sid \in StackId
        /\ UNCHANGED <<panel, saved, slot>> /\ Undoing(jobs[j]) /\ stacks[sid] \in Seq(Resource)
    BY <1>0, <1>4 DEF RollbackPop, At, Bound, Undoing
  <2>2. ASSUME Rest PROVE slot \in {NoStack, sid} /\ (jobs[j].mine => slot = sid)
    BY <1>2, <2>1, <2>2 DEF Placed
  <2>3. CASE stacks[sid] = <<>>
    <3>1. UNCHANGED <<stacks, disk>>
      BY <1>4, <2>3 DEF RollbackPop
    <3>2. Rest => MemoryNeverAheadOfDisk'
      BY <1>2, <2>1, <3>1 DEF MemoryNeverAheadOfDisk
    <3>3. CASE Finish(j, TRUE)
      BY <1>0, <1>1, <2>1, <3>1, <3>2, <3>3, FinishStep
    <3>4. CASE ~Finish(j, TRUE)
      <4> DEFINE r == [jobs[j] EXCEPT !.pc = "clear"]
      <4>1. jobs' = [jobs EXCEPT ![j] = r] /\ ~jobs[j].failed
        BY <1>4, <2>3, <3>4 DEF RollbackPop
      <4>2. /\ r \in JobType /\ r.pc = "clear" /\ r.kind = jobs[j].kind
            /\ r.mine = jobs[j].mine /\ r.sid = sid /\ r.goal = jobs[j].goal
            /\ r.hand = jobs[j].hand /\ r.failed = jobs[j].failed
        BY <1>0 DEF JobType, JobPcs
      <4> HIDE DEF r
      <4>3. Bound(r)
        BY <1>0, <2>1, <4>2 DEF Bound, Provisioning, Undoing
      <4>4. /\ jobs' \in [Job -> JobType] /\ jobs'[j] = r
            /\ \A k \in Job : k # j => jobs'[k] = jobs[k]
            /\ \A k \in Job : Bound(jobs'[k])
        BY <4>1, <4>2, <4>3, OneJob
      <4>5. Typed'
        BY <1>0, <1>1, <2>1, <3>1, <4>4, TypedAfter
      <4>6. ASSUME Rest PROVE Forward(jobs[j])' /\ Backward(jobs[j])'
        <5>1. Forward(jobs[j])'
          BY <2>1, <4>2, <4>4 DEF Forward, Provisioning
        <5>2. Backward(jobs[j])'
          BY <1>2, <2>1, <2>3, <3>1, <4>1, <4>2, <4>4, <4>6 DEF Backward, Undoing
        <5>3. QED
          BY <5>1, <5>2
      <4>7. QED
        BY <1>1, <2>1, <2>2, <3>2, <4>2, <4>4, <4>5, <4>6, CommandStep
    <3>5. QED
      BY <3>3, <3>4
  <2>4. CASE stacks[sid] # <<>>
    <3>1. /\ rest \in Seq(Resource) /\ top \in Resource
          /\ StepSet(stacks[sid]) = StepSet(rest) \cup {top}
      BY <2>1, <2>4, FrontSteps
    <3>2. stacks' = [stacks EXCEPT ![sid] = rest]
      BY <1>4, <2>4 DEF RollbackPop
    <3>3. /\ stacks' \in [StackId -> Seq(Resource)] /\ stacks'[sid] = rest
          /\ disk' \in {disk, rest} /\ disk' \in Seq(Resource)
      BY <1>0, <1>4, <2>1, <2>4, <3>1, <3>2 DEF RollbackPop, PersistOk, PersistFails
    <3>4. Rest => MemoryNeverAheadOfDisk'
      BY <1>2, <2>1, <2>2, <3>1, <3>3 DEF MemoryNeverAheadOfDisk
    <3>5. CASE Finish(j, TRUE)
      BY <1>0, <1>1, <2>1, <3>3, <3>4, <3>5, FinishStep
    <3>6. CASE ~Finish(j, TRUE)
      <4> DEFINE r == [jobs[j] EXCEPT !.pc = "run", !.hand = {top}]
      <4>1. jobs' = [jobs EXCEPT ![j] = r] /\ disk' = rest
        BY <1>4, <2>4, <3>6 DEF RollbackPop, PersistOk
      <4>2. /\ r \in JobType /\ r.pc = "run" /\ r.kind = jobs[j].kind
            /\ r.mine = jobs[j].mine /\ r.sid = sid /\ r.goal = jobs[j].goal
            /\ r.hand = {top} /\ r.failed = jobs[j].failed
        BY <1>0, <3>1 DEF JobType, JobPcs
      <4> HIDE DEF r
      <4>3. Bound(r)
        BY <1>0, <2>1, <4>2 DEF Bound, Provisioning, Undoing
      <4>4. /\ jobs' \in [Job -> JobType] /\ jobs'[j] = r
            /\ \A k \in Job : k # j => jobs'[k] = jobs[k]
            /\ \A k \in Job : Bound(jobs'[k])
        BY <4>1, <4>2, <4>3, OneJob
      <4>5. Typed'
        BY <1>0, <1>1, <2>1, <3>3, <4>4, TypedAfter
      <4>6. ASSUME Rest PROVE Forward(jobs[j])' /\ Backward(jobs[j])'
        <5>1. Forward(jobs[j])'
          BY <2>1, <4>2, <4>4 DEF Forward, Provisioning
        <5>2. ~jobs[j].failed => jobs[j].goal \cap panel \subseteq StepSet(rest) \cup {top}
          BY <1>2, <2>1, <3>1, <4>6 DEF Backward
        <5>3. Backward(jobs[j])'
          BY <2>1, <3>3, <4>1, <4>2, <4>4, <5>2 DEF Backward, Undoing
        <5>4. QED
          BY <5>1, <5>3
      <4>7. QED
        BY <1>1, <2>1, <2>2, <3>4, <4>2, <4>4, <4>5, <4>6, CommandStep
    <3>7. QED
      BY <3>5, <3>6
  <2>5. QED
    BY <2>3, <2>4
<1>5. CASE RollbackRun(j)
  <2> DEFINE sid == jobs[j].sid
  <2>1. /\ jobs[j].pc = "run" /\ jobs[j].kind \in {"rollback", "resume"} /\ sid \in StackId
        /\ UNCHANGED <<disk, saved, stacks, slot>> /\ Undoing(jobs[j])
    BY <1>0, <1>5, SMTT(40) DEF RollbackRun, At, Bound, Undoing
  <2>2. PICK f \in BOOLEAN :
          /\ jobs' = [jobs EXCEPT ![j] = [jobs[j] EXCEPT !.pc = "pop", !.hand = {}, !.failed = f]]
          /\ ~f => ~jobs[j].failed /\ panel' = panel \ jobs[j].hand
    <3>1. CASE jobs' = [jobs EXCEPT ![j].pc = "pop", ![j].hand = {}] /\ panel' = panel \ jobs[j].hand
      <4>1. [jobs[j] EXCEPT !.pc = "pop", !.hand = {}]
              = [jobs[j] EXCEPT !.pc = "pop", !.hand = {}, !.failed = jobs[j].failed]
        BY <1>0 DEF JobType
      <4>2. jobs[j].failed \in BOOLEAN
        BY <1>0 DEF JobType
      <4>3. QED
        BY <3>1, <4>1, <4>2
    <3>2. CASE jobs' = [jobs EXCEPT ![j].pc = "pop", ![j].hand = {}, ![j].failed = TRUE]
      BY <3>2
    <3>3. QED
      BY <1>5, <3>1, <3>2 DEF RollbackRun
  <2> DEFINE r == [jobs[j] EXCEPT !.pc = "pop", !.hand = {}, !.failed = f]
  <2>3. panel' \subseteq Resource /\ panel' \subseteq panel
    BY <1>0, <1>5 DEF RollbackRun
  <2>4. jobs' = [jobs EXCEPT ![j] = r]
    BY <2>2
  <2>5. /\ r \in JobType /\ r.pc = "pop" /\ r.kind = jobs[j].kind
        /\ r.mine = jobs[j].mine /\ r.sid = sid /\ r.goal = jobs[j].goal
        /\ r.hand = {} /\ r.failed = f
    BY <1>0 DEF JobType, JobPcs
  <2> HIDE DEF r
  <2>6. Bound(r)
    BY <1>0, <2>1, <2>5 DEF Bound, Provisioning, Undoing
  <2>7. /\ jobs' \in [Job -> JobType] /\ jobs'[j] = r
        /\ \A k \in Job : k # j => jobs'[k] = jobs[k]
        /\ \A k \in Job : Bound(jobs'[k])
    BY <2>4, <2>5, <2>6, OneJob
  <2>8. Typed'
    BY <1>0, <1>1, <2>1, <2>3, <2>7, TypedAfter
  <2>9. Rest => MemoryNeverAheadOfDisk'
    BY <1>2, <2>1 DEF MemoryNeverAheadOfDisk
  <2>10. ASSUME Rest PROVE Forward(jobs[j])' /\ Backward(jobs[j])'
    <3>1. Forward(jobs[j])'
      BY <2>1, <2>5, <2>7 DEF Forward, Provisioning
    <3>2. ~f => jobs[j].goal \cap panel' \subseteq StepSet(stacks[sid])
      BY <1>2, <2>1, <2>2, <2>10 DEF Backward
    <3>3. jobs[j].goal # {} /\ stacks[sid] = <<>> => disk = <<>>
      BY <1>2, <2>1, <2>10 DEF Backward
    <3>4. Backward(jobs[j])'
      BY <2>1, <2>5, <2>7, <3>2, <3>3 DEF Backward, Undoing
    <3>5. QED
      BY <3>1, <3>4
  <2>11. ASSUME Rest, jobs[j].mine PROVE slot' = jobs'[j].sid
    BY <1>2, <2>1, <2>5, <2>7, <2>11 DEF Placed
  <2>12. QED
    BY <1>1, <2>1, <2>5, <2>7, <2>8, <2>9, <2>10, <2>11, CommandStep
<1>6. CASE RollbackClear(j)
  <2>1. /\ UNCHANGED <<panel, saved, stacks>> /\ Finish(j, FALSE)
        /\ disk' \in {<<>>, disk} /\ (disk = <<>> => disk' = <<>>)
        /\ slot' = IF jobs[j].mine THEN NoStack ELSE slot
        /\ jobs[j].pc = "clear" /\ Undoing(jobs[j])
    BY <1>6 DEF RollbackClear, ClearOk, ClearFails, SetSlot, At, Undoing
  <2>2. ASSUME Rest PROVE slot' = NoStack
    BY <1>1, <1>2, <2>1, <2>2 DEF Placed
  <2>3. Rest => MemoryNeverAheadOfDisk'
    BY <2>2 DEF MemoryNeverAheadOfDisk
  <2>4. disk' \in Seq(Resource) /\ slot' \in StackId \cup {NoStack}
    BY <1>0, <2>1
  <2>5. ASSUME Rest, jobs[j].goal # {} PROVE jobs[j].goal \cap panel' = {} /\ disk' = <<>>
    BY <1>2, <2>1, <2>5, StepSetType DEF Backward
  <2>6. QED
    BY <1>0, <1>1, <2>1, <2>3, <2>4, <2>5, FinishStep
<1>7. CASE DiscardRun(j)
  <2>1. /\ UNCHANGED <<panel, saved, stacks, slot>> /\ jobs[j].kind = "discard"
        /\ disk' \in {<<>>, disk}
    BY <1>7 DEF DiscardRun, ClearOk, ClearFails, At
  <2>2. PICK f \in BOOLEAN : Finish(j, f)
    BY <1>7 DEF DiscardRun
  <2>3. Rest => MemoryNeverAheadOfDisk'
    BY <1>2, <2>1 DEF MemoryNeverAheadOfDisk
  <2>4. disk' \in Seq(Resource)
    BY <1>0, <2>1
  <2>5. QED
    BY <1>0, <1>1, <2>1, <2>2, <2>3, <2>4, FinishStep
<1>8. QED
  BY <1>3, <1>4, <1>5, <1>6, <1>7
-----------------------------------------------------------------------------
\* A key starts a command.
LEMMA SpawnStep ==
    ASSUME Typed, NEW j \in Job, NEW r \in JobType, Bound(r), r.kind # "idle", Spawn(j, r),
           ui' \in UIType, ui'.state = ui.state, Typing', UNCHANGED <<panel, disk, saved, slot>>,
           stacks' \in [StackId -> Seq(Resource)], slot # NoStack => stacks'[slot] = stacks[slot],
           ui.state = "ResumeWizard" => r.kind \notin {"exec", "rollback"}
    PROVE  /\ Typed' /\ jobs'[j] = r
           /\ Rest /\ Serial' /\ (Placed(jobs[j]) /\ Forward(jobs[j]) /\ Backward(jobs[j]))' => Rest'
<1>1. /\ jobs' \in [Job -> JobType] /\ jobs'[j] = r
      /\ \A k \in Job : k # j => jobs'[k] = jobs[k]
      /\ \A k \in Job : Bound(jobs'[k])
  BY OneJob DEF Spawn
<1>2. Typed'
  <2>1. /\ panel \subseteq Resource /\ disk \in Seq(Resource) /\ saved \subseteq Plan
        /\ slot \in StackId \cup {NoStack}
    BY DEF Typed, TypeOK
  <2>2. QED
    BY <1>1, <2>1, TypedAfter
<1>3. ASSUME Rest, Serial', (Placed(jobs[j]) /\ Forward(jobs[j]) /\ Backward(jobs[j]))' PROVE Rest'
  <2>1. /\ \A k \in Job : k # j => jobs'[k].kind = "idle"
        /\ Progress' /\ \A k \in Job : Placed(jobs[k])'
    BY <1>1, <1>3, Alone
  <2>2. Booting'
    BY DEF Booting
  <2>3. Resuming'
    BY <1>1, <1>3, <2>1 DEF Rest, Screens, Resuming
  <2>4. MemoryNeverAheadOfDisk'
    BY <1>3 DEF Rest, MemoryNeverAheadOfDisk
  <2>5. QED
    BY <2>1, <2>2, <2>3, <2>4 DEF Rest, Screens
<1>4. QED
  BY <1>1, <1>2, <1>3

LEMMA KeyStep ==
    ASSUME Typed, NEW j \in Job,
           KeyRollback(j) \/ KeyConfirmDiscard(j)
              \/ \E s \in StackId : KeyExecute(j, s) \/ KeyResume(j, s)
    PROVE  Typed' /\ (Rest /\ Serial' => Rest')
<1> USE WizardAssumption DEF durable
<1>0. /\ stacks \in [StackId -> Seq(Resource)] /\ ui \in UIType /\ Typing
  BY DEF Typed, TypeOK, KeyRollback, KeyConfirmDiscard, KeyExecute, KeyResume, InWizard, InResume
<1>1. ASSUME NEW s \in StackId, KeyExecute(j, s) PROVE Typed' /\ (Rest /\ Serial' => Rest')
  <2> DEFINE r == [IdleJob EXCEPT !.kind = "exec", !.pc = "start", !.sid = s, !.plan = ui.plan,
                                  !.base = ui.cfg, !.mine = TRUE]
  <2>1. /\ Spawn(j, r) /\ ui' = [ui EXCEPT !.step = "Executing"] /\ ui.state = "ProjectWizard"
        /\ UNCHANGED <<panel, disk, saved, stacks, slot>>
    BY <1>1 DEF KeyExecute, InWizard
  <2>2. ui' \in UIType /\ ui'.state = ui.state /\ Typing'
    BY <1>0, <2>1 DEF UIType, UISteps, Typing
  <2>3. r \in JobType /\ r.kind = "exec" /\ r.pc = "start" /\ r.sid = s /\ r.mine
    BY <1>0, IdleJobType DEF JobType, JobKinds, JobPcs, UIType
  <2> HIDE DEF r
  <2>4. Bound(r)
    BY <2>3 DEF Bound, Provisioning, Undoing
  <2>5. /\ Typed' /\ jobs'[j] = r
        /\ Rest /\ Serial' /\ (Placed(jobs[j]) /\ Forward(jobs[j]) /\ Backward(jobs[j]))' => Rest'
    BY <1>0, <2>1, <2>2, <2>3, <2>4, SpawnStep
  <2>6. (Placed(jobs[j]) /\ Forward(jobs[j]) /\ Backward(jobs[j]))'
    BY <2>3, <2>5 DEF Placed, Forward, Backward, Provisioning, Undoing
  <2>7. QED
    BY <2>5, <2>6
<1>2. CASE KeyRollback(j)
  <2> DEFINE r == [IdleJob EXCEPT !.kind = "rollback", !.pc = "start", !.mine = TRUE]
  <2>1. /\ Spawn(j, r) /\ ui' = [ui EXCEPT !.step = "RollingBack"] /\ ui.state = "ProjectWizard"
        /\ UNCHANGED <<panel, disk, saved, stacks, slot>>
    BY <1>2 DEF KeyRollback, InWizard
  <2>2. ui' \in UIType /\ ui'.state = ui.state /\ Typing'
    BY <1>0, <2>1 DEF UIType, UISteps, Typing
  <2>3. /\ r \in JobType /\ r.kind = "rollback" /\ r.pc = "start" /\ r.mine
        /\ r.hand = {} /\ r.goal = {}
    BY IdleJobType DEF JobType, JobKinds, JobPcs
  <2> HIDE DEF r
  <2>4. Bound(r)
    BY <2>3 DEF Bound, Provisioning, Undoing
  <2>5. /\ Typed' /\ jobs'[j] = r
        /\ Rest /\ Serial' /\ (Placed(jobs[j]) /\ Forward(jobs[j]) /\ Backward(jobs[j]))' => Rest'
    BY <1>0, <2>1, <2>2, <2>3, <2>4, SpawnStep
  <2>6. (Placed(jobs[j]) /\ Forward(jobs[j]) /\ Backward(jobs[j]))'
    BY <2>3, <2>5 DEF Placed, Forward, Backward, Provisioning, Undoing
  <2>7. QED
    BY <2>5, <2>6
<1>3. CASE KeyConfirmDiscard(j)
  <2> DEFINE r == [IdleJob EXCEPT !.kind = "discard", !.pc = "clear"]
  <2>1. /\ Spawn(j, r) /\ ui' = ui /\ ui.state = "ResumeWizard"
        /\ UNCHANGED <<panel, disk, saved, stacks, slot>>
    BY <1>3 DEF KeyConfirmDiscard, InResume
  <2>2. Typing'
    BY <1>0, <2>1 DEF Typing
  <2>3. r \in JobType /\ r.kind = "discard" /\ r.pc = "clear" /\ ~r.mine
    BY IdleJobType DEF JobType, JobKinds, JobPcs
  <2> HIDE DEF r
  <2>4. Bound(r)
    BY <2>3 DEF Bound, Provisioning, Undoing
  <2>5. /\ Typed' /\ jobs'[j] = r
        /\ Rest /\ Serial' /\ (Placed(jobs[j]) /\ Forward(jobs[j]) /\ Backward(jobs[j]))' => Rest'
    BY <1>0, <2>1, <2>2, <2>3, <2>4, SpawnStep
  <2>6. (Placed(jobs[j]) /\ Forward(jobs[j]) /\ Backward(jobs[j]))'
    BY <2>1, <2>3, <2>5 DEF Placed, Forward, Backward, Provisioning, Undoing
  <2>7. QED
    BY <2>5, <2>6
<1>4. ASSUME NEW s \in StackId, KeyResume(j, s) PROVE Typed' /\ (Rest /\ Serial' => Rest')
  <2> DEFINE goal == StepSet(ui.snap)
             r == [IdleJob EXCEPT !.kind = "resume", !.pc = "pop", !.sid = s, !.goal = goal]
  <2>1. /\ Spawn(j, r) /\ ui' = ui /\ ui.state = "ResumeWizard" /\ s # slot
        /\ UNCHANGED <<panel, disk, saved, slot>> /\ stacks' = [stacks EXCEPT ![s] = ui.snap]
    BY <1>0, <1>4 DEF KeyResume, InResume, FreshStack, Typing
  <2>2. ui.snap \in Seq(Resource) /\ goal \subseteq Resource /\ (goal # {} => ui.snap # <<>>)
    BY <1>0, StepSetType DEF UIType
  <2>3. /\ stacks' \in [StackId -> Seq(Resource)] /\ stacks'[s] = ui.snap
        /\ \A t \in StackId : t # s => stacks'[t] = stacks[t]
    BY <1>0, <2>1, <2>2
  <2>4. /\ r \in JobType /\ r.kind = "resume" /\ r.pc = "pop" /\ r.sid = s /\ ~r.mine
        /\ r.goal = goal /\ r.hand = {}
    BY <2>2, IdleJobType DEF JobType, JobKinds, JobPcs
  <2> HIDE DEF r
  <2>5. Bound(r)
    BY <2>4 DEF Bound, Provisioning, Undoing
  <2>6. Typing' /\ slot \in StackId \cup {NoStack}
    BY <1>0, <2>1 DEF Typing, Typed, TypeOK
  <2>7. /\ Typed' /\ jobs'[j] = r
        /\ Rest /\ Serial' /\ (Placed(jobs[j]) /\ Forward(jobs[j]) /\ Backward(jobs[j]))' => Rest'
    BY <1>0, <2>1, <2>3, <2>4, <2>5, <2>6, SpawnStep
  <2>8. Placed(jobs[j])' /\ Forward(jobs[j])'
    BY <2>1, <2>4, <2>7 DEF Placed, Forward, Provisioning, Undoing
  <2>9. Backward(jobs[j])'
    <3>1. goal \cap panel' \subseteq StepSet(stacks'[s]) \cup {}
      BY <2>3
    <3> HIDE DEF goal
    <3>2. QED
      BY <2>2, <2>3, <2>4, <2>7, <3>1 DEF Backward, Undoing
  <2>10. QED
    BY <2>7, <2>8, <2>9
<1>5. QED
  BY <1>1, <1>2, <1>3, <1>4

\* Update applies a report.
LEMMA MessageStep ==
    ASSUME Typed, NEW j \in Job, Message(j)
    PROVE  Typed' /\ (Rest /\ Serial => Rest')
<1>0. /\ panel \subseteq Resource /\ disk \in Seq(Resource) /\ saved \subseteq Plan
      /\ stacks \in [StackId -> Seq(Resource)] /\ slot \in StackId \cup {NoStack}
      /\ jobs[j] \in JobType /\ ui \in UIType /\ <<>> \in Seq(Resource) /\ Bound(jobs[j])
  BY DEF Typed, TypeOK
<1>1. /\ jobs[j].kind \in {"exec", "rollback", "resume", "discard"} /\ Retire(j)
      /\ UNCHANGED <<panel, disk, saved>>
  BY DEF Message, Executed, RolledBack, Discarded, At, durable
<1>2. /\ ui' \in UIType /\ ui'.pend = ui.pend /\ ui'.loaded = ui.loaded
      /\ ui'.state = "ResumeWizard" => ui.state = "ResumeWizard"
  <2>1. ResumeCleared(ui) \in UIType /\ ResumeCleared(ui).pend = ui.pend
        /\ ResumeCleared(ui).loaded = ui.loaded /\ ResumeCleared(ui).state = "Dashboard"
    BY <1>0 DEF ResumeCleared, UIType, UIStates
  <2>2. CASE Executed(j) /\ jobs[j].failed
    BY <1>0, <2>2 DEF Executed, UIType, UISteps
  <2>3. CASE Executed(j) /\ ~jobs[j].failed
    <3> DEFINE cfg == jobs[j].base \cup {jobs[j].plan}
    <3>1. cfg \subseteq Plan
      BY <1>0, <2>3 DEF Executed, At, Bound, JobType
    <3>2. QED
      BY <1>0, <2>3, <3>1 DEF Executed, UIType, UISteps, UIStates
  <2>4. CASE RolledBack(j)
    <3>1. CASE ui.state = "ResumeWizard"
      BY <1>0, <2>1, <2>4, <3>1 DEF RolledBack
    <3>2. CASE ui.state # "ResumeWizard"
      BY <1>0, <2>4, <3>2 DEF RolledBack, UIType, UISteps, UIStates
    <3>3. QED
      BY <3>1, <3>2
  <2>5. CASE Discarded(j)
    BY <1>0, <2>1, <2>5 DEF Discarded
  <2>6. QED
    BY <2>2, <2>3, <2>4, <2>5 DEF Message
<1>3. /\ IdleJob \in JobType /\ IdleJob.kind = "idle" /\ Bound(IdleJob)
  BY IdleJobType
<1>4. jobs' = [jobs EXCEPT ![j] = IdleJob] /\ slot' = slot
  BY <1>1 DEF Retire
<1>5. /\ jobs' \in [Job -> JobType] /\ jobs'[j] = IdleJob
      /\ \A k \in Job : k # j => jobs'[k] = jobs[k]
      /\ \A k \in Job : Bound(jobs'[k])
  BY <1>3, <1>4, OneJob
<1>6. /\ stacks' \in [StackId -> Seq(Resource)]
      /\ slot # NoStack => stacks'[slot] = stacks[slot]
  BY <1>0, <1>1, <1>4 DEF Retire, Collect
<1>7. Typed'
  BY <1>0, <1>1, <1>2, <1>4, <1>5, <1>6, TypedAfter
<1>8. ASSUME Rest, Serial PROVE Rest'
  <2>1. (Placed(jobs[j]) /\ Forward(jobs[j]) /\ Backward(jobs[j]))'
    BY <1>3, <1>5 DEF Placed, Forward, Backward, Provisioning, Undoing
  <2>2. /\ \A k \in Job : k # j => jobs'[k].kind = "idle"
        /\ Progress' /\ \A k \in Job : Placed(jobs[k])'
    BY <1>1, <1>5, <1>8, <2>1, Alone
  <2>3. Typing /\ Typing'
    BY <1>1, <1>2, <1>8 DEF Rest, Screens, Booting, Typing
  <2>4. Booting' /\ Resuming'
    BY <1>2, <1>3, <1>4, <1>5, <1>8, <2>2, <2>3 DEF Rest, Screens, Booting, Resuming
  <2>5. MemoryNeverAheadOfDisk'
    BY <1>1, <1>4, <1>6, <1>8 DEF Rest, MemoryNeverAheadOfDisk
  <2>6. QED
    BY <2>2, <2>4, <2>5 DEF Rest, Screens
<1>9. QED
  BY <1>7, <1>8

\* The death of the process, and a new wizard on the dashboard.
LEMMA CrashStep == ASSUME Typed, Crash PROVE Typed' /\ Rest'
<1> USE WizardAssumption DEF Crash, durable
<1>1. IdleJob \in JobType /\ IdleJob.kind = "idle" /\ Bound(IdleJob)
  BY IdleJobType
<1>2. BootUI \in UIType /\ ~BootUI.loaded /\ BootUI.state = "Dashboard"
  BY DEF BootUI, UIType, UIStates, UISteps
<1>3. \A j \in Job : jobs'[j] = IdleJob
  OBVIOUS
<1>4. Typed'
  <2>1. /\ panel' \subseteq Resource /\ disk' \in Seq(Resource) /\ saved' \subseteq Plan
        /\ stacks' \in [StackId -> Seq(Resource)] /\ slot' \in StackId \cup {NoStack}
        /\ jobs' \in [Job -> JobType] /\ ui' \in UIType
    BY <1>1, <1>2 DEF Typed, TypeOK
  <2>2. QED
    BY <1>1, <1>3, <2>1, TypedAfter
<1>5. \A j \in Job : (Placed(jobs[j]) /\ Forward(jobs[j]) /\ Backward(jobs[j]))'
  BY <1>1, <1>3 DEF Placed, Forward, Backward, Provisioning, Undoing
<1>6. (Booting /\ Resuming /\ MemoryNeverAheadOfDisk)'
  BY <1>1, <1>2, <1>3 DEF Booting, Resuming, MemoryNeverAheadOfDisk
<1>7. QED
  BY <1>4, <1>5, <1>6 DEF Rest, Screens, Progress

LEMMA NewStep == ASSUME Typed, KeyNew PROVE Typed' /\ (Rest => Rest')
<1> USE WizardAssumption DEF durable
<1>0. /\ panel \subseteq Resource /\ disk \in Seq(Resource) /\ saved \subseteq Plan
      /\ stacks \in [StackId -> Seq(Resource)] /\ slot \in StackId \cup {NoStack}
      /\ ui \in UIType /\ <<>> \in Seq(Resource)
      /\ \A j \in Job : jobs[j] \in JobType /\ Bound(jobs[j])
  BY DEF Typed, TypeOK
<1>1. /\ UNCHANGED <<panel, disk, saved>> /\ slot' = NoStack /\ Typing
      /\ ui.state = "Dashboard"
      /\ ui' = [ui EXCEPT !.state = "ProjectWizard", !.step = "Domain", !.plan = NoPlan]
  BY DEF KeyNew
<1>2. ui' \in UIType /\ ui'.state = "ProjectWizard" /\ Typing'
  BY <1>0, <1>1 DEF UIType, UIStates, UISteps, Typing
<1>3. ASSUME NEW j \in Job
      PROVE  /\ jobs'[j] \in JobType /\ jobs'[j].kind = jobs[j].kind /\ jobs'[j].pc = jobs[j].pc
             /\ jobs'[j].plan = jobs[j].plan /\ jobs'[j].i = jobs[j].i /\ ~jobs'[j].mine
             /\ jobs'[j].hand = jobs[j].hand /\ jobs'[j].goal = jobs[j].goal
             /\ jobs'[j].failed = jobs[j].failed
             /\ ~At(j, {"rollback"}, "start") => jobs'[j].sid = jobs[j].sid
  <2> DEFINE sid == IF At(j, {"rollback"}, "start") THEN SlotOf(j) ELSE jobs[j].sid
  <2>1. jobs'[j] = [jobs[j] EXCEPT !.mine = FALSE, !.sid = sid]
    BY <1>3 DEF KeyNew
  <2>2. sid \in StackId \cup {NoStack} /\ (~At(j, {"rollback"}, "start") => sid = jobs[j].sid)
    BY <1>0 DEF SlotOf, JobType
  <2> HIDE DEF sid
  <2>3. QED
    BY <1>0, <2>1, <2>2, ZenonT(60) DEF JobType
<1>4. jobs' \in [Job -> JobType]
  <2>1. jobs' = [j \in Job |-> jobs'[j]]
    BY DEF KeyNew
  <2>2. QED
    BY <1>3, <2>1
<1>5. \A j \in Job : Bound(jobs'[j])
  BY <1>0, <1>3 DEF Bound, Provisioning, Undoing, At
<1>6. /\ stacks' \in [StackId -> Seq(Resource)]
      /\ \A j \in Job : jobs'[j].sid \in StackId => stacks'[jobs'[j].sid] = stacks[jobs'[j].sid]
  BY <1>0 DEF KeyNew, Collect
<1>7. Typed'
  BY <1>0, <1>1, <1>2, <1>4, <1>5, <1>6, TypedAfter
<1>8. ASSUME Rest PROVE Rest'
  <2>1. (Booting /\ Resuming /\ MemoryNeverAheadOfDisk)'
    BY <1>1, <1>2 DEF Booting, Resuming, MemoryNeverAheadOfDisk
  <2>2. ASSUME NEW j \in Job PROVE (Placed(jobs[j]) /\ Forward(jobs[j]) /\ Backward(jobs[j]))'
    <3>1. Placed(jobs[j]) /\ Forward(jobs[j]) /\ Backward(jobs[j]) /\ Bound(jobs[j])
      BY <1>0, <1>8 DEF Rest, Screens, Progress
    <3>2. Placed(jobs[j])'
      BY <1>1, <1>3, <3>1 DEF Placed
    <3>3. Provisioning(jobs[j]) \/ Undoing(jobs[j]) =>
            jobs'[j].sid = jobs[j].sid /\ stacks'[jobs[j].sid] = stacks[jobs[j].sid]
      BY <1>3, <1>6, <3>1 DEF Bound, Provisioning, Undoing, At
    <3>4. Forward(jobs[j])'
      BY <1>1, <1>3, <3>1, <3>3 DEF Forward, Provisioning
    <3>5. Backward(jobs[j])'
      BY <1>1, <1>3, <3>1, <3>3 DEF Backward, Undoing
    <3>6. QED
      BY <3>2, <3>4, <3>5
  <2>3. QED
    BY <2>1, <2>2 DEF Rest, Screens, Progress
<1>9. QED
  BY <1>7, <1>8
-----------------------------------------------------------------------------
\* Every step of the wizard.
LEMMA WizardStep ==
    Typed /\ [Next]_vars => Typed' /\ (Rest /\ Serial /\ Serial' => Rest')
<1> SUFFICES ASSUME Typed, [Next]_vars PROVE Typed' /\ (Rest /\ Serial /\ Serial' => Rest')
  OBVIOUS
<1>1. CASE Key
  BY <1>1, FormStep, NewStep, KeyStep DEF Key
<1>2. CASE StartUp \/ DomainChecked
  BY <1>2, FormStep DEF StartUp
<1>3. CASE Crash
  BY <1>3, CrashStep
<1>4. ASSUME NEW j \in Job, Command(j) PROVE Typed' /\ (Rest /\ Serial /\ Serial' => Rest')
  BY <1>4, ExecStep, UndoStep DEF Command
<1>5. ASSUME NEW j \in Job, Message(j) PROVE Typed' /\ (Rest /\ Serial /\ Serial' => Rest')
  BY <1>5, MessageStep
<1>6. CASE UNCHANGED vars
  <2>1. UNCHANGED <<panel, disk, saved, stacks, slot, jobs>> /\ ui' = ui
    BY <1>6 DEF vars
  <2>2. ui \in UIType
    BY DEF Typed, TypeOK
  <2>3. QED
    BY <2>1, <2>2, ScreenStep DEF Typing
<1>7. QED
  BY <1>1, <1>2, <1>3, <1>4, <1>5, <1>6 DEF Next

\* Every value the wizard code keeps has its type, also when commands overlap.
THEOREM TypeCorrect == Spec => []TypeOK
<1>1. Init => Typed
  BY TypedInit
<1>2. Typed /\ [Next]_vars => Typed'
  BY WizardStep
<1>3. Typed => TypeOK
  BY DEF Typed
<1>4. QED
  BY <1>1, <1>2, <1>3, PTL DEF Spec

\* While commands do not overlap.
LEMMA SerialInv == Spec /\ []Serial => [](Typed /\ Rest)
<1>1. Init => Typed /\ Rest
  BY TypedInit
<1>2. Typed /\ Rest /\ Serial /\ Serial' /\ [Next]_vars => (Typed /\ Rest)'
  BY WizardStep
<1>3. QED
  BY <1>1, <1>2, PTL DEF Spec

\* The snapshot file is written ahead: at every step of Execute it names all
\* the steps done before, and the current stack is never ahead of it, with
\* any failure and a crash anywhere, as long as commands do not overlap.
THEOREM SnapshotKeepsUp == Spec /\ []Serial => []SnapshotNotBehind
<1>1. Typed /\ Rest => SnapshotNotBehind
  <2> SUFFICES ASSUME Typed, Rest PROVE SnapshotNotBehind
    OBVIOUS
  <2>1. ASSUME NEW j \in Job, At(j, {"exec"}, "create")
        PROVE  disk = SubSeq(PlanSteps(jobs[j].plan), 1, jobs[j].i - 1) \/ jobs[j].i = 1
    BY <2>1 DEF Rest, Progress, Forward, Provisioning, At
  <2>2. ASSUME NEW j \in Job, At(j, {"exec"}, "save") PROVE disk = PlanSteps(jobs[j].plan)
    BY <2>2 DEF Rest, Progress, Forward, Provisioning, At
  <2>3. QED
    BY <2>1, <2>2 DEF SnapshotNotBehind, CheckpointBeforeNextStep, Rest
<1>2. QED
  BY <1>1, SerialInv, PTL

\* Stack.Rollback: success means that the panel holds none of its steps and
\* no snapshot is left, as long as commands do not overlap.
THEOREM CleanRollback == Spec /\ []Serial => []CleanRollbackLeavesNothing
<1>1. Rest => CleanRollbackLeavesNothing
  BY DEF Rest, Progress, Backward, CleanRollbackLeavesNothing, At
<1>2. QED
  BY <1>1, SerialInv, PTL
===============================================================================
