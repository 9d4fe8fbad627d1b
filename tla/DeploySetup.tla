----------------------------- MODULE DeploySetup -----------------------------
(***************************************************************************)
(* wizard.ExecuteGitHubProvision: a repository, its deploy key, its        *)
(* Actions secrets and its workflow are made one after the other, each     *)
(* followed by a cleanup on the wizard's stack; a Rollback runs the        *)
(* cleanups in reverse; WaitForWorkflowCompletion follows the dispatched   *)
(* workflow; the CI/CD tile asks for steps and logs.                       *)
(*                                                                         *)
(* One job at a time on one stack, which is saved at every push and pop.   *)
(* The process may die at any point; the next one loads what was saved.    *)
(***************************************************************************)
EXTENDS GitHubClient, SequencesExt

CONSTANTS
    Plans,   \* the GitHubProvisionPlans to try
    MaxJobs  \* bound: the provisions and rollbacks that are started

ASSUME DeployAssumption ==
    MaxJobs \in Nat /\ \A plan \in Plans : IsFiniteSet(plan.secrets) /\ plan.secrets \subseteq Int

VARIABLES
    before,  \* what was on GitHub before the first job
    stack,   \* Stack.steps
    saved,   \* the steps in pending_cleanups.json
    job,     \* the operation under way
    jobs,    \* how many were started
    ran,     \* the cleanups that were run
    told     \* an error was about the repository, or the process died on it

vars == <<client, hub, runs, wire, ctx, faults, before, stack, saved, job, jobs, ran, told>>
-----------------------------------------------------------------------------
(* Plans, and the steps they push.                                         *)

\* The values of a field: empty, "text", "expr" (GitHub expression or shell
\* syntax), "token" (secret-shaped).
Fields == {"owner", "repo", "branch", "deploy_public_key", "workflow_path"}

ValidateWorkflowField(value) == value # "expr"

validateGitHubProvisionPlan(plan) ==
    /\ \A f \in Fields : plan.fields[f] # "" /\ ValidateWorkflowField(plan.fields[f])
    /\ plan.content
    /\ plan.secrets # {}

\* The name with i - 1 smaller ones is the i-th.
sortedSecretNames(secrets) ==
    [i \in 1..Cardinality(secrets) |->
        CHOOSE n \in secrets : Cardinality({m \in secrets : m < n}) = i - 1]

\* The calls of ExecuteGitHubProvision, in order.
Calls(plan) ==
    LET names == sortedSecretNames(plan.secrets)
    IN  <<Method("CreateRepo", 0), Method("AddDeployKey", 1)>>
        \o [i \in DOMAIN names |-> Method("SetActionsSecret", names[i])]
        \o <<Method("CommitWorkflowFile", 0), Method("DispatchWorkflow", 0)>>

CleanupKinds == [CreateRepo |-> "github_repo", AddDeployKey |-> "github_deploy_key",
                 SetActionsSecret |-> "github_actions_secret",
                 CommitWorkflowFile |-> "github_workflow_file"]

\* The step pushed after a call; at stands for CreatedAt.
CleanupStep(method, id, at) ==
    [kind |-> CleanupKinds[method.name],
     arg |-> IF method.name = "AddDeployKey" THEN id ELSE method.arg, at |-> at]

\* The fields of the plan that a kind's Params repeat.
Params(kind) ==
    {"owner", "repo"} \cup (IF kind = "github_workflow_file" THEN {"workflow_path", "branch"} ELSE {})

isSecretShaped(value) == value = "token"

\* The required parameters are there: the plan was validated, and an id is a
\* number.
validateStep(plan, step) == \A f \in Params(step.kind) : ~isSecretShaped(plan.fields[f])

\* MakeStepRunnerWithGitHub.
StepRunner(step) ==
    CASE step.kind = "github_repo" -> Method("RemoveGitHubRepo", 0)
      [] step.kind = "github_deploy_key" -> Method("RemoveGitHubDeployKey", step.arg)
      [] step.kind = "github_actions_secret" -> Method("RemoveGitHubActionsSecret", step.arg)
      [] OTHER -> Method("RemoveGitHubWorkflowFile", 0)

NoPlan == [fields |-> [f \in Fields |-> ""], content |-> FALSE, secrets |-> {}]
NoStep == [kind |-> "none", arg |-> 0, at |-> <<0, 0>>]
Idle == [kind |-> "none", pc |-> "idle", plan |-> NoPlan, i |-> 0, step |-> NoStep, gh |-> FALSE,
         failed |-> {}, err |-> "nil", faults |-> 0]

Init ==
    /\ client \in Clients
    /\ hub \in {{}, {<<"repo", 0>>}} /\ before = hub
    /\ runs = <<>> /\ wire = NoWire /\ ctx = "live" /\ faults = 0
    /\ stack = <<>> /\ saved = <<>>
    /\ job = Idle /\ jobs = 0 /\ ran = {} /\ told = FALSE
-----------------------------------------------------------------------------
External == UNCHANGED <<client, hub, runs, before>>

Start ==
    /\ job.pc = "idle" /\ ctx' = "live" /\ wire' = NoWire
    /\ External /\ UNCHANGED <<faults, stack, saved, ran>>

Counted == jobs < MaxJobs /\ jobs' = jobs + 1

\* The job returns err; isRepo when the error is about the repository.
Returns(err, isRepo) ==
    /\ job' = [job EXCEPT !.pc = "idle", !.err = err]
    /\ told' = (told \/ (err # "nil" /\ isRepo))

Provision ==
    /\ Start /\ Counted
    /\ \E plan \in Plans :
           LET j == [Idle EXCEPT !.kind = "provision", !.plan = plan, !.i = 1, !.faults = faults]
           IN  job' = IF validateGitHubProvisionPlan(plan) THEN [j EXCEPT !.pc = "call"]
                      ELSE [j EXCEPT !.err = "invalidPlan"]
    /\ UNCHANGED told

\* The current call of a provision, rollback, wait or tile.
Current ==
    CASE job.kind = "provision" -> Calls(job.plan)[job.i]
      [] job.kind = "rollback" -> StepRunner(job.step)
      [] OTHER -> Method(job.kind, 0)

Call ==
    /\ job.pc = "call"
    /\ wire' = Called(Current) /\ job' = [job EXCEPT !.pc = "wait"]
    /\ External /\ UNCHANGED <<ctx, faults, stack, saved, jobs, ran, told>>

Done == job.pc = "wait" /\ wire.pc = "over" /\ wire' = NoWire /\ External

\* A call of the provision returned; DispatchWorkflow is the last.
Provisioned ==
    /\ Done /\ job.kind = "provision"
    /\ CASE wire.err # "nil" -> Returns(wire.err, Current.name = "CreateRepo")
         [] wire.err = "nil" /\ Current.name = "DispatchWorkflow" -> Returns("nil", FALSE)
         [] OTHER -> /\ job' = [job EXCEPT !.pc = "push",
                                           !.step = CleanupStep(Current, wire.id, <<jobs, job.i>>)]
                     /\ UNCHANGED told
    /\ UNCHANGED <<ctx, faults, stack, saved, jobs, ran>>

IsRepo == job.step.kind = "github_repo"
Onward == job' = [job EXCEPT !.pc = "call", !.i = job.i + 1] /\ UNCHANGED told

\* Stack.Push: a context that ended or a secret-shaped parameter refuses the
\* step; a failed save takes it back.
PushRefused ==
    /\ job.pc = "push" /\ (ctx = "done" \/ ~validateStep(job.plan, job.step))
    /\ Returns(IF ctx = "done" THEN "ctx" ELSE "secretInCleanup", IsRepo)
    /\ External /\ UNCHANGED <<wire, ctx, faults, stack, saved, jobs, ran>>

Pushing == job.pc = "push" /\ ctx = "live" /\ validateStep(job.plan, job.step) /\ External

Push ==
    /\ Pushing /\ Onward
    /\ stack' = Append(stack, job.step) /\ saved' = stack'
    /\ UNCHANGED <<wire, ctx, faults, jobs, ran>>

\* Mutant: a failed save is not reported.
PushFails_Ignored ==
    /\ Pushing /\ Fault /\ Onward
    /\ UNCHANGED <<wire, ctx, stack, saved, jobs, ran>>

PushFails ==
    /\ Pushing /\ Fault
    /\ Returns("persist", IsRepo)
    /\ UNCHANGED <<wire, ctx, stack, saved, jobs, ran>>
-----------------------------------------------------------------------------
(* Rollback.                                                               *)

Rollback ==
    /\ Start /\ Counted
    /\ \E gh \in BOOLEAN :
           job' = [Idle EXCEPT !.kind = "rollback", !.pc = "pop", !.gh = gh, !.faults = faults]
    /\ UNCHANGED told

Popping == job.pc = "pop" /\ External

RolledBack ==
    /\ Popping /\ (ctx = "done" \/ stack = <<>>)
    /\ Returns(CASE ctx = "done" -> "ctx" [] job.failed # {} -> "rollback" [] OTHER -> "nil", FALSE)
    /\ UNCHANGED <<wire, ctx, faults, stack, saved, jobs, ran>>

\* Without a GitHub runner the step fails closed.
Run(step) ==
    /\ ran' = ran \cup {step.at}
    /\ job' = IF job.gh THEN [job EXCEPT !.pc = "call", !.step = step]
              ELSE [job EXCEPT !.failed = job.failed \cup {step}]
    /\ told' = (told \/ (~job.gh /\ step.kind = "github_repo"))

\* Mutant: the oldest step first.
Pop_Oldest ==
    /\ Popping /\ ctx = "live" /\ stack # <<>>
    /\ stack' = Tail(stack) /\ saved' = stack' /\ Run(Head(stack))
    /\ UNCHANGED <<wire, ctx, faults, jobs>>

\* Stack.Pop saves the shorter stack before the step is run.
Pop ==
    /\ Popping /\ ctx = "live" /\ stack # <<>>
    /\ stack' = Front(stack) /\ saved' = stack' /\ Run(Last(stack))
    /\ UNCHANGED <<wire, ctx, faults, jobs>>

PopFails ==
    /\ Popping /\ ctx = "live" /\ stack # <<>> /\ Fault
    /\ stack' = Front(stack)
    /\ Returns("persist", Last(stack).kind = "github_repo")
    /\ UNCHANGED <<wire, ctx, saved, jobs, ran>>

\* A step's error is kept, and the next step follows.
Cleaned ==
    /\ Done /\ job.kind = "rollback"
    /\ job' = [job EXCEPT !.pc = "pop",
                          !.failed = @ \cup (IF wire.err = "nil" THEN {} ELSE {job.step})]
    /\ told' = (told \/ (wire.err # "nil" /\ IsRepo))
    /\ UNCHANGED <<ctx, faults, stack, saved, jobs, ran>>
-----------------------------------------------------------------------------
(* Following the workflow.                                                 *)

\* WaitForWorkflowCompletion, and the tile's reads.
Follow ==
    /\ \E m \in DOMAIN Gets :
           Start /\ job' = [Idle EXCEPT !.kind = m, !.pc = "call", !.faults = faults]
    /\ UNCHANGED <<jobs, told>>

IsCompleted(run) == run \in {"success", "failure"}

Followed ==
    /\ Done /\ job.kind \in DOMAIN Gets
    /\ CASE wire.err # "nil" \/ job.kind # "GetLatestRun" -> Returns(wire.err, FALSE)
         [] wire.err = "nil" /\ job.kind = "GetLatestRun" /\ IsCompleted(wire.run) ->
                Returns(IF wire.run = "success" THEN "nil" ELSE "workflowDispatchFailed", FALSE)
         [] OTHER -> job' = [job EXCEPT !.pc = "sleep"] /\ UNCHANGED told
    /\ UNCHANGED <<ctx, faults, stack, saved, jobs, ran>>

PollAgain ==
    /\ job.pc = "sleep" /\ job' = [job EXCEPT !.pc = "call"]
    /\ External /\ UNCHANGED <<wire, ctx, faults, stack, saved, jobs, ran, told>>
PollCancelled ==
    /\ job.pc = "sleep" /\ ctx = "done" /\ Returns("ctx", FALSE)
    /\ External /\ UNCHANGED <<wire, ctx, faults, stack, saved, jobs, ran>>
-----------------------------------------------------------------------------
\* The process dies; a request under way may still be carried out.
InHand ==
    \/ job.pc = "push" /\ IsRepo
    \/ job.pc = "wait" /\ Current.name \in {"CreateRepo", "RemoveGitHubRepo"}
    \/ job.pc = "call" /\ Current.name = "RemoveGitHubRepo"

Crash ==
    /\ told' = (told \/ InHand)
    /\ stack' = <<>> /\ job' = Idle /\ wire' = NoWire
    /\ External /\ UNCHANGED <<ctx, faults, saved, jobs, ran>>

\* Stack.LoadSnapshot, on the next start.
LoadSnapshot ==
    /\ job = Idle /\ stack = <<>> /\ saved # <<>>
    /\ stack' = saved
    /\ External /\ UNCHANGED <<wire, ctx, faults, saved, job, jobs, ran, told>>

deployVars == <<before, stack, saved, job, jobs, ran, told>>

Next ==
    \/ Provision \/ Provisioned \/ PushRefused \/ Push \/ PushFails
    \/ Rollback \/ RolledBack \/ Pop \/ PopFails \/ Cleaned
    \/ Follow \/ Followed \/ PollAgain \/ PollCancelled \/ Call
    \/ Crash \/ LoadSnapshot
    \/ (Transport \/ RunAdvances) /\ UNCHANGED deployVars
    \/ job.pc # "idle" /\ CtxDone /\ UNCHANGED deployVars

Spec == Init /\ [][Next]_vars

\* The program's own steps happen, sleeps end, and a request whose context
\* ended comes back.  Nothing else bounds a request, neither gh nor the HTTP
\* client has a timeout, and callers pass contexts that may have none: that
\* GitHub answers and that a context ends are not assumed.
Progress ==
    \/ Provisioned \/ PushRefused \/ Push \/ PushFails \/ RolledBack \/ Pop \/ PopFails \/ Cleaned
    \/ Followed \/ PollAgain \/ PollCancelled \/ Call
    \/ (withFallback \/ Cut \/ Pause \/ PauseCancelled) /\ UNCHANGED deployVars
FairSpec == Spec /\ WF_vars(Progress)
-----------------------------------------------------------------------------
\* A repository that was there before is still there: "already exists" is
\* never taken for a creation, so no rollback removes it (mapHTTPError,
\* wrapCLIError, ExecuteGitHubProvision).
PreexistingSurvives == before \subseteq hub

\* A repository this program made is on the stack or in the file, or in the
\* hands of the step under way; otherwise the caller got an error about it or
\* the process died with it in hand (Push, Pop, ExecuteGitHubProvision).
NoSilentOrphan ==
    <<"repo", 0>> \in hub \ before
        => \/ told \/ InHand
           \/ \E s \in Range(stack) \cup Range(saved) : s.kind = "github_repo"

\* A rollback whose requests are all answered has no failing step, although
\* removing what is not there is an error: nothing is removed after the
\* repository it is in.  The exception is a key whose id was never read.
RollbackAnswered ==
    job.kind = "rollback" /\ job.gh /\ ctx = "live" /\ faults = job.faults
        /\ (client.gh \/ client.rest = "token")
        => \A s \in job.failed : s.kind = "github_deploy_key" /\ s.arg = 0

\* A cleanup that was run is neither on the stack nor in the file, whatever
\* failed or crashed since: "a crash between Pop and Rollback never reruns
\* the same step twice" (Stack.Pop).
RunOnce == \A s \in Range(stack) \cup Range(saved) : s.at \notin ran

\* The journal of cleanups says neither too little nor too much.
JournalTrue == NoSilentOrphan /\ RunOnce

Unanswered == wire.pc = "send" /\ ctx = "live"
Following == job.kind = "GetLatestRun" /\ ctx = "live"

\* Unless GitHub leaves one request unanswered for ever, every operation
\* returns, through refusals, retries, failed saves and cleanups; whatever
\* GitHub does, it returns once its context has ended (doJSON, Rollback,
\* WaitForWorkflowCompletion, which may follow a run as long as it is let).
WorkEnds == <>[]Unanswered \/ (job.pc # "idle" ~> (job.pc = "idle" \/ Following))
=============================================================================
