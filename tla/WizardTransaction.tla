------------------------- MODULE WizardTransaction -------------------------
(***************************************************************************)
(* The new-project wizard as a transaction against the hosting panel.      *)
(*                                                                         *)
(* One webox process at a time runs an operator-driven UI (tui/update.go)  *)
(* whose keys start commands (tui/commands.go).  A command runs in its own *)
(* goroutine: it provisions (wizard.Execute), undoes (Stack.Rollback) or   *)
(* discards, and reports with one message that Update applies later.       *)
(* Three things survive the process: the panel, pending_cleanups.json and  *)
(* config.json.  Every remote call, every file operation and every applied *)
(* message is a step of its own, and the process may die between any two.  *)
(***************************************************************************)
EXTENDS Naturals, Sequences, FiniteSets

CONSTANTS
    Plan,       \* provisioning plans; each has a domain of its own
    WithDB,     \* the plans that also ask for a database
    Job,        \* command goroutines that can be in flight at once
    StackId,    \* heap addresses of wizard.Stack objects
    NoPlan, NoStack,
    MaxChecks,  \* bound on domain checks in flight
    Faults      \* the failures the environment may produce

FaultKinds == {"create", "lostreply", "persist", "fsync", "save", "remove",
               "clear", "load", "provider", "crash"}

ASSUME WizardAssumption ==
    /\ WithDB \subseteq Plan /\ NoPlan \notin Plan /\ NoStack \notin StackId
    /\ MaxChecks \in Nat /\ Faults \subseteq FaultKinds

VARIABLES
    panel,   \* resources that exist on the hosting panel
    disk,    \* steps of pending_cleanups.json; <<>> when there is no file
    saved,   \* projects in config.json
    stacks,  \* the Stack objects in memory, oldest step first
    slot,    \* the Stack the current wizard's slot holds
    jobs,    \* the commands in flight
    ui       \* the Model fields the wizard and resume screens use

vars == <<panel, disk, saved, stacks, slot, jobs, ui>>
durable == <<panel, disk, saved>>
-----------------------------------------------------------------------------
(* Resources, in the order Execute provisions them. *)
Kinds == {"subdomain", "ssl", "database"}
Resource == Plan \X Kinds

PlanSteps(p) ==
    LET web == << <<p, "subdomain">>, <<p, "ssl">> >>
    IN  IF p \in WithDB THEN Append(web, <<p, "database">>) ELSE web

\* The steps of a stack or snapshot as a set.
StepSet(s) == {s[k] : k \in 1..Len(s)}
Front(s) == SubSeq(s, 1, Len(s) - 1)

IdleJob ==
    [kind |-> "idle", pc |-> "idle", plan |-> NoPlan, i |-> 0,
     sid |-> NoStack, mine |-> FALSE, base |-> {}, hand |-> {},
     goal |-> {}, failed |-> FALSE]

BootUI ==
    [state |-> "Dashboard", step |-> "Domain", plan |-> NoPlan, checks |-> 0,
     loaded |-> FALSE, cfg |-> {}, snap |-> <<>>, loadErr |-> FALSE,
     discarding |-> FALSE, pend |-> "unread", pendSnap |-> <<>>]

Volatile0 ==
    /\ stacks = [s \in StackId |-> <<>>]
    /\ slot = NoStack
    /\ jobs = [j \in Job |-> IdleJob]
    /\ ui = BootUI

Init == panel = {} /\ disk = <<>> /\ saved = {} /\ Volatile0
-----------------------------------------------------------------------------
(* Start-up: the two replies of Init's batch, and process death.           *)

\* loadPendingCmd reads the file; its reply is applied later.
ReadPending ==
    /\ ui.pend = "unread"
    /\ \/ ui' = [ui EXCEPT !.pend = "read", !.pendSnap = disk]
       \/ "load" \in Faults /\ ui' = [ui EXCEPT !.pend = "error"]
    /\ UNCHANGED <<durable, stacks, slot, jobs>>

\* applyPendingLoaded: any snapshot or load error opens the resume screen,
\* whatever the operator is doing by then.
PendingLoaded ==
    /\ ui.pend \in {"read", "error"}
    /\ ui' = IF ui.pend = "read" /\ ui.pendSnap = <<>>
             THEN [ui EXCEPT !.pend = "done"]
             ELSE [ui EXCEPT !.pend = "done", !.pendSnap = <<>>,
                             !.state = "ResumeWizard", !.snap = ui.pendSnap,
                             !.loadErr = (ui.pend = "error"),
                             !.discarding = FALSE]
    /\ UNCHANGED <<durable, stacks, slot, jobs>>

ConfigLoaded ==
    /\ ~ui.loaded
    /\ ui' = [ui EXCEPT !.loaded = TRUE, !.cfg = saved,
                        !.state = IF ui.snap # <<>> \/ ui.loadErr
                                  THEN "ResumeWizard" ELSE "Dashboard"]
    /\ UNCHANGED <<durable, stacks, slot, jobs>>

\* The process dies (kill, power loss, q, ctrl+c or k: Quit cancels the
\* context and exits without waiting for goroutines) and is started again.
Crash ==
    /\ "crash" \in Faults
    /\ stacks' = [s \in StackId |-> <<>>]
    /\ slot' = NoStack
    /\ jobs' = [j \in Job |-> IdleJob]
    /\ ui' = BootUI
    /\ UNCHANGED durable
-----------------------------------------------------------------------------
(* Keys.                                                                   *)
\* The operator acts once both local files have been read.
Typing == ui.pend = "done" /\ ui.loaded
InWizard(step) == Typing /\ ui.state = "ProjectWizard" /\ ui.step = step
InResume == Typing /\ ui.state = "ResumeWizard"

\* An address for a new Stack object.
FreshStack(s) == s # slot /\ \A j \in Job : jobs[j].sid # s

\* A Stack nothing refers to any more is garbage.
Collect ==
    stacks' = [s \in StackId |->
                 IF s = slot' \/ \E j \in Job : jobs'[j].sid = s
                 THEN stacks[s] ELSE <<>>]

At(j, kinds, pc) == jobs[j].kind \in kinds /\ jobs[j].pc = pc

\* What the slot holds that a command was given.
SlotOf(j) == IF jobs[j].mine THEN slot ELSE jobs[j].sid

Spawn(j, job) ==
    /\ jobs[j].kind = "idle"
    /\ jobs' = [jobs EXCEPT ![j] = job]

\* n on the dashboard: a new form and a new slot; commands of an earlier
\* wizard keep the slot they were given, and a rollback that has not looked
\* into it yet the Stack there.
KeyNew ==
    /\ Typing /\ ui.state = "Dashboard" /\ ui.loaded
    /\ ui' = [ui EXCEPT !.state = "ProjectWizard", !.step = "Domain",
                        !.plan = NoPlan]
    /\ slot' = NoStack
    /\ jobs' = [j \in Job |->
                 [jobs[j] EXCEPT !.mine = FALSE,
                                 !.sid = IF At(j, {"rollback"}, "start") THEN SlotOf(j) ELSE @]]
    /\ Collect
    /\ UNCHANGED durable

\* The operator types the domain, then enter starts preflight and check.
EditDomain(p) ==
    /\ InWizard("Domain")
    /\ ui' = [ui EXCEPT !.plan = p]
    /\ UNCHANGED <<durable, stacks, slot, jobs>>

KeyCheckDomain ==
    /\ InWizard("Domain") /\ ui.plan # NoPlan /\ ui.checks < MaxChecks
    /\ ui' = [ui EXCEPT !.checks = @ + 1]
    /\ UNCHANGED <<durable, stacks, slot, jobs>>

\* applyPreflight / applyDomainCheck: a negative reply only sets an error, a
\* positive one moves the form to Review whatever its step is by then.
DomainChecked ==
    /\ ui.checks > 0
    /\ \/ ui' = [ui EXCEPT !.checks = @ - 1]
       \/ ui' = [ui EXCEPT !.checks = @ - 1, !.step = "Review"]
    /\ UNCHANGED <<durable, stacks, slot, jobs>>

KeyBack ==
    /\ InWizard("Review")
    /\ ui' = [ui EXCEPT !.step = "Domain"]
    /\ UNCHANGED <<durable, stacks, slot, jobs>>

\* esc, or n at the failure prompt ("resources kept on panel").
KeyLeave ==
    /\ Typing /\ ui.state = "ProjectWizard"
    /\ ui.step \notin {"Executing", "RollingBack"}
    /\ ui' = [ui EXCEPT !.state = "Dashboard",
                        !.step = IF @ = "Failure" THEN "Done" ELSE @]
    /\ UNCHANGED <<durable, stacks, slot, jobs>>

KeyExecute(j, s) ==
    /\ InWizard("Review") /\ FreshStack(s)
    /\ Spawn(j, [IdleJob EXCEPT !.kind = "exec", !.pc = "start", !.sid = s,
                                !.plan = ui.plan, !.base = ui.cfg,
                                !.mine = TRUE])
    /\ ui' = [ui EXCEPT !.step = "Executing"]
    /\ UNCHANGED <<durable, stacks, slot>>

KeyRollback(j) ==
    /\ InWizard("Failure")
    /\ Spawn(j, [IdleJob EXCEPT !.kind = "rollback", !.pc = "start",
                                !.mine = TRUE])
    /\ ui' = [ui EXCEPT !.step = "RollingBack"]
    /\ UNCHANGED <<durable, stacks, slot>>

\* r on the resume screen: no guard on a rollback already in flight.
\* Without the profile of the snapshot (config not loaded) the command fails.
KeyResume(j, s) ==
    /\ InResume /\ ~ui.discarding /\ ui.snap # <<>> /\ ~ui.loadErr
    /\ FreshStack(s)
    /\ IF ui.loaded
       THEN /\ Spawn(j, [IdleJob EXCEPT !.kind = "resume", !.pc = "pop",
                                        !.sid = s, !.goal = StepSet(ui.snap)])
            /\ stacks' = [stacks EXCEPT ![s] = ui.snap]
       ELSE /\ Spawn(j, [IdleJob EXCEPT !.kind = "resume", !.pc = "done",
                                        !.failed = TRUE])
            /\ UNCHANGED stacks
    /\ UNCHANGED <<durable, slot, ui>>

KeyDiscard ==
    /\ InResume /\ ~ui.discarding
    /\ ui' = [ui EXCEPT !.discarding = TRUE]
    /\ UNCHANGED <<durable, stacks, slot, jobs>>

\* enter after the typed confirmation phrase.
KeyConfirmDiscard(j) ==
    /\ InResume /\ ui.discarding
    /\ Spawn(j, [IdleJob EXCEPT !.kind = "discard", !.pc = "clear"])
    /\ UNCHANGED <<durable, stacks, slot, ui>>
-----------------------------------------------------------------------------
(* Commands.                                                               *)
Finish(j, failed) ==
    jobs' = [jobs EXCEPT ![j].pc = "done", ![j].hand = {},
                         ![j].failed = failed]

SetSlot(j, s) == slot' = IF jobs[j].mine THEN s ELSE slot

\* Mutants: nothing is written; the file is one step behind.
PersistOk_Noop(s) == UNCHANGED disk

\* NewFilePersister: SavePending (temp file, rename, fsync of the directory)
\* or, for an empty stack, RemovePending.
PersistOk(s) == disk' = s
PersistFails(s) ==
    \/ "persist" \in Faults /\ UNCHANGED disk
    \/ "fsync" \in Faults /\ s # <<>> /\ disk' = s

\* RemovePending on a path that may have no file.
ClearOk == disk' = <<>>
ClearFails == "clear" \in Faults /\ disk # <<>> /\ UNCHANGED disk

\* The form has chosen the profile, the stack and the database from lists:
\* what ValidatePlan can still refuse is a form without a domain.
ValidatePlan(p) == p # NoPlan

\* The runner makes a provider for every call, and that may fail.
NoProvider == "provider" \in Faults

\* wizardExecuteCmd up to the first remote call.
ExecStart(j) ==
    /\ At(j, {"exec"}, "start")
    /\ stacks' = [stacks EXCEPT ![jobs[j].sid] = <<>>]
    /\ SetSlot(j, jobs[j].sid)
    /\ \/ /\ ValidatePlan(jobs[j].plan)
          /\ jobs' = [jobs EXCEPT ![j].pc = "create", ![j].i = 1]
       \/ /\ NoProvider \/ ~ValidatePlan(jobs[j].plan)
          /\ Finish(j, TRUE)
    /\ UNCHANGED <<durable, ui>>

NextResource(j) == PlanSteps(jobs[j].plan)[jobs[j].i]

\* CreateSubdomain / SetupSSL / CreateDatabase.  SetupSSL on a domain that
\* has a certificate renews it; the others refuse what exists.  A lost reply
\* is an error for a call that took effect.
ExecCreate(j) ==
    /\ At(j, {"exec"}, "create")
    /\ LET r == NextResource(j)
           taken == r \in panel /\ r[2] # "ssl"
       IN  \/ /\ ~taken
              /\ panel' = panel \cup {r}
              /\ \/ jobs' = [jobs EXCEPT ![j].pc = "push", ![j].hand = {r}]
                 \/ "lostreply" \in Faults /\ Finish(j, TRUE)
           \/ /\ taken \/ "create" \in Faults
              /\ Finish(j, TRUE)
              /\ UNCHANGED panel
    /\ UNCHANGED <<disk, saved, stacks, slot, ui>>

\* Stack.Push: append, persist, and take the step back when that fails.
ExecPush(j) ==
    /\ At(j, {"exec"}, "push")
    /\ LET s == jobs[j].sid
           pushed == Append(stacks[s], NextResource(j))
       IN  \/ /\ PersistOk(pushed)
              /\ stacks' = [stacks EXCEPT ![s] = pushed]
              /\ jobs' = IF jobs[j].i = Len(PlanSteps(jobs[j].plan))
                         THEN [jobs EXCEPT ![j].pc = "save", ![j].hand = {}]
                         ELSE [jobs EXCEPT ![j].pc = "create", ![j].hand = {},
                                           ![j].i = @ + 1]
           \/ /\ PersistFails(pushed)
              /\ Finish(j, TRUE)
              /\ UNCHANGED stacks
    /\ UNCHANGED <<panel, saved, slot, ui>>

\* config.Save of the configuration captured when the key was pressed.
ExecSave(j) ==
    /\ At(j, {"exec"}, "save")
    /\ \/ /\ saved' = jobs[j].base \cup {jobs[j].plan}
          /\ \/ jobs' = [jobs EXCEPT ![j].pc = "clear"]
             \/ "fsync" \in Faults /\ Finish(j, TRUE)
       \/ "save" \in Faults /\ Finish(j, TRUE) /\ UNCHANGED saved
    /\ UNCHANGED <<panel, disk, stacks, slot, ui>>

\* The error of RemovePending is dropped.
ExecClear(j) ==
    /\ At(j, {"exec"}, "clear")
    /\ ClearOk \/ ClearFails
    /\ SetSlot(j, NoStack)
    /\ Finish(j, FALSE)
    /\ UNCHANGED <<panel, saved, stacks, ui>>

\* wizardRollbackCmd up to the first Pop.
RollbackStart(j) ==
    /\ At(j, {"rollback"}, "start")
    /\ \/ SlotOf(j) = NoStack /\ Finish(j, FALSE)
       \/ /\ SlotOf(j) # NoStack
          /\ \/ jobs' = [jobs EXCEPT ![j].pc = "pop", ![j].sid = SlotOf(j),
                                     ![j].goal = StepSet(stacks[SlotOf(j)])]
             \/ NoProvider /\ Finish(j, TRUE)
    /\ UNCHANGED <<durable, stacks, slot, ui>>

\* Stack.Pop inside Stack.Rollback: the shorter snapshot is persisted before
\* the step runs; a failed persist ends the rollback.
RollbackPop(j) ==
    /\ At(j, {"rollback", "resume"}, "pop")
    /\ LET s == jobs[j].sid
           rest == Front(stacks[s])
       IN  IF stacks[s] = <<>>
           THEN /\ IF jobs[j].failed THEN Finish(j, TRUE)
                   ELSE jobs' = [jobs EXCEPT ![j].pc = "clear"]
                /\ UNCHANGED <<stacks, disk>>
           ELSE /\ stacks' = [stacks EXCEPT ![s] = rest]
                /\ \/ /\ PersistOk(rest)
                      /\ jobs' = [jobs EXCEPT ![j].pc = "run",
                                    ![j].hand = {stacks[s][Len(stacks[s])]}]
                   \/ PersistFails(rest) /\ Finish(j, TRUE)
    /\ UNCHANGED <<panel, saved, slot, ui>>

\* Mutant: the error of a Remove* call is not remembered.
RollbackRun_Forgets(j) ==
    /\ At(j, {"rollback", "resume"}, "run")
    /\ \/ panel' = panel \ jobs[j].hand
       \/ "remove" \in Faults /\ UNCHANGED panel
    /\ jobs' = [jobs EXCEPT ![j].pc = "pop", ![j].hand = {}]
    /\ UNCHANGED <<disk, saved, stacks, slot, ui>>

\* The Remove* call of the popped step; the loop goes on after an error.
RollbackRun(j) ==
    /\ At(j, {"rollback", "resume"}, "run")
    /\ \/ /\ panel' = panel \ jobs[j].hand
          /\ jobs' = [jobs EXCEPT ![j].pc = "pop", ![j].hand = {}]
       \/ /\ "remove" \in Faults
          /\ jobs' = [jobs EXCEPT ![j].pc = "pop", ![j].hand = {},
                                  ![j].failed = TRUE]
          /\ UNCHANGED panel
    /\ UNCHANGED <<disk, saved, stacks, slot, ui>>

\* RemovePending after a rollback without errors; its own error is dropped.
RollbackClear(j) ==
    /\ At(j, {"rollback", "resume"}, "clear")
    /\ ClearOk \/ ClearFails
    /\ SetSlot(j, NoStack)
    /\ Finish(j, FALSE)
    /\ UNCHANGED <<panel, saved, stacks, ui>>

\* pendingDiscardCmd.
DiscardRun(j) ==
    /\ At(j, {"discard"}, "clear")
    /\ \/ ClearOk /\ Finish(j, FALSE)
       \/ ClearFails /\ Finish(j, TRUE)
    /\ UNCHANGED <<panel, saved, stacks, slot, ui>>
-----------------------------------------------------------------------------
(* Update applies a command's message.                                     *)
ResumeCleared(u) ==
    [u EXCEPT !.snap = <<>>, !.loadErr = FALSE, !.discarding = FALSE,
              !.state = "Dashboard"]

Retire(j) ==
    /\ jobs' = [jobs EXCEPT ![j] = IdleJob]
    /\ UNCHANGED slot
    /\ Collect


\* applyExecution: a failure sets the form's step but not the screen.
Executed(j) ==
    /\ At(j, {"exec"}, "done")
    /\ ui' = IF jobs[j].failed
             THEN [ui EXCEPT !.step = "Failure"]
             ELSE [ui EXCEPT !.step = "Done", !.state = "Dashboard",
                             !.cfg = jobs[j].base \cup {jobs[j].plan}]
    /\ Retire(j)
    /\ UNCHANGED durable

\* applyRollback tells a resume from a wizard rollback by the screen only.
RolledBack(j) ==
    /\ At(j, {"rollback", "resume"}, "done")
    /\ ui' = IF ui.state = "ResumeWizard"
             THEN IF jobs[j].failed THEN ui ELSE ResumeCleared(ui)
             ELSE [ui EXCEPT !.step = "Done", !.state = "Dashboard"]
    /\ Retire(j)
    /\ UNCHANGED durable

Discarded(j) ==
    /\ At(j, {"discard"}, "done")
    /\ ui' = IF jobs[j].failed THEN ui ELSE ResumeCleared(ui)
    /\ Retire(j)
    /\ UNCHANGED durable
-----------------------------------------------------------------------------
Key ==
    \/ KeyNew \/ KeyCheckDomain \/ KeyBack \/ KeyLeave \/ KeyDiscard
    \/ \E p \in Plan : EditDomain(p)
    \/ \E j \in Job : KeyRollback(j) \/ KeyConfirmDiscard(j)
    \/ \E j \in Job, s \in StackId : KeyExecute(j, s) \/ KeyResume(j, s)

Command(j) ==
    \/ ExecStart(j) \/ ExecCreate(j) \/ ExecPush(j) \/ ExecSave(j)
    \/ ExecClear(j) \/ RollbackStart(j) \/ RollbackPop(j) \/ RollbackRun(j)
    \/ RollbackClear(j) \/ DiscardRun(j)

Message(j) == Executed(j) \/ RolledBack(j) \/ Discarded(j)

StartUp == ReadPending \/ PendingLoaded \/ ConfigLoaded

Next ==
    \/ Key \/ StartUp \/ DomainChecked \/ Crash
    \/ \E j \in Job : Command(j) \/ Message(j)

Spec == Init /\ [][Next]_vars

\* A goroutine that can run runs, and Bubble Tea delivers every message; the
\* panel answers every call (with a result or an error).
FairSpec ==
    /\ Spec
    /\ WF_vars(StartUp)
    /\ \A j \in Job : WF_vars(Command(j)) /\ WF_vars(Message(j))
-----------------------------------------------------------------------------
(* Properties.                                                             *)
JobKinds == {"idle", "exec", "rollback", "resume", "discard"}
JobPcs == {"idle", "start", "create", "push", "save", "clear", "pop", "run",
           "done"}
JobType ==
    [kind : JobKinds, pc : JobPcs, plan : Plan \cup {NoPlan}, i : 0..3,
     sid : StackId \cup {NoStack}, mine : BOOLEAN, base : SUBSET Plan,
     hand : SUBSET Resource, goal : SUBSET Resource, failed : BOOLEAN]

UIStates == {"Dashboard", "ProjectWizard", "ResumeWizard"}
UISteps == {"Domain", "Review", "Executing", "Failure", "RollingBack", "Done"}
UIType ==
    [state : UIStates, step : UISteps, plan : Plan \cup {NoPlan},
     checks : 0..MaxChecks, loaded : BOOLEAN, cfg : SUBSET Plan,
     snap : Seq(Resource), loadErr : BOOLEAN, discarding : BOOLEAN,
     pend : {"unread", "read", "error", "done"}, pendSnap : Seq(Resource)]

\* Every variable, and every field of the Model and of a command that the
\* wizard code reads or writes, stays in its type.
TypeOK ==
    /\ panel \subseteq Resource
    /\ disk \in Seq(Resource)
    /\ saved \subseteq Plan
    /\ stacks \in [StackId -> Seq(Resource)]
    /\ slot \in StackId \cup {NoStack}
    /\ jobs \in [Job -> JobType]
    /\ ui \in UIType

PlanSet(p) == StepSet(PlanSteps(p))

\* Stack.Push, "every push is recoverable across crashes": before Execute
\* asks the panel for step i, or saves the project, the snapshot file holds
\* exactly the steps already done, in order.  Dying there loses none of them.
CheckpointBeforeNextStep ==
    \A j \in Job :
        /\ At(j, {"exec"}, "create") =>
              disk = SubSeq(PlanSteps(jobs[j].plan), 1, jobs[j].i - 1)
                 \/ jobs[j].i = 1
        /\ At(j, {"exec"}, "save") => disk = PlanSteps(jobs[j].plan)

\* Stack.Push / Stack.Pop: the process never relies on a step of the current
\* wizard's stack that a crash would make it forget.
MemoryNeverAheadOfDisk ==
    slot # NoStack => StepSet(stacks[slot]) \subseteq StepSet(disk)

\* The snapshot file is never behind what the wizard relies on.
SnapshotNotBehind == CheckpointBeforeNextStep /\ MemoryNeverAheadOfDisk

\* Stack.Rollback: a rollback that reports success has removed every step it
\* started with from the panel, and no snapshot is left to offer them again.
CleanRollbackLeavesNothing ==
    \A j \in Job :
        At(j, {"rollback", "resume"}, "done") /\ ~jobs[j].failed
            /\ jobs[j].goal # {}
            => jobs[j].goal \cap panel = {} /\ disk = <<>>


(* A claim of the documents that the code does not keep.                   *)

\* wizard/pending_cleanups.go, RemovePending runs "after a successful execution
\* (no rollback needed)": what a saved project needs is not rolled back.
SavedStayProvisioned ==
    \A p \in saved : PlanSet(p) \subseteq panel

=============================================================================
