------------------------------ MODULE Cockpit ------------------------------
(***************************************************************************)
(* The cockpit's Update loop (tui/update.go).  Of the new-project wizard   *)
(* it has what the rest of the cockpit can tell: its screen, its commands  *)
(* and the configuration they save; what they do to the panel and to the   *)
(* snapshot is WizardTransaction.                                          *)
(*                                                                         *)
(* Bubble Tea applies keys, mouse events and messages to one Model, one at *)
(* a time.  What a handler starts is a command: it runs in a goroutine and *)
(* its reply is a message applied later, in any order and to whatever      *)
(* screen is open by then.  m is the Model, jobs the commands in flight,   *)
(* timers the tea.Tick timers that are running.                            *)
(***************************************************************************)
EXTENDS ProviderCatalog, FiniteSets, Bags

CONSTANTS
    Domain,       \* project domains; a domain stands for its project
    Configured,   \* the projects of config.json, in order
    Linked,       \* the projects whose Repo names a GitHub repository
    Panel,        \* the domains the hosting panel may come to list
    Run,          \* GitHub workflow runs
    None,         \* no project, no run, no lines
    PresetFiles,  \* the entries of the embedded preset directory
    Helpers,      \* the clipboard helpers that are installed
    ActionKind,   \* what the detail screen can ask for
    Sessions,     \* the sets of features that meet in one session (a bound)
    Watched,      \* the projects whose statuses are followed (a bound)
    MaxCopies,    \* bound on equal commands in flight
    MaxSaves,     \* bound on scans, imports and executions in flight
    MaxTimers     \* bound on refresh timers told apart

\* What a session is about besides start-up and the init wizard.  Without
\* "pipeline" no CI/CD fetcher is installed (a nil option), without "resume"
\* no snapshot was left behind.
Feature == {"resume", "import", "wizard", "detail", "pipeline", "tile", "catalog"}

ASSUME CockpitAssumption ==
    /\ Configured \in Seq(Domain) /\ Linked \subseteq Domain
    /\ Panel \subseteq Domain /\ IsFiniteSet(Panel) /\ None \notin Domain \cup Run
    /\ ActionKind \subseteq {"restart", "ssl", "logs"}
    /\ Sessions \subseteq SUBSET Feature /\ Watched \subseteq Domain
    /\ MaxCopies \in Nat \ {0} /\ MaxTimers \in Nat \ {0} /\ MaxSaves \in Nat

VARIABLES m, jobs, timers, uses

vars == <<m, jobs, timers, uses>>

Using(f) == f \in uses
-----------------------------------------------------------------------------
(* The Model.                                                              *)

\* clampIndex: the nearest row of a list of the given length, 0 if empty.
clampIndex(i, count) ==
    IF count = 0 \/ i < 0 THEN 0 ELSE IF i >= count THEN count - 1 ELSE i

NoConfig == [profiles |-> FALSE, projects |-> <<>>]
NoImport == [loading |-> FALSE, saving |-> FALSE, rows |-> {}]
NoModal == [open |-> FALSE, project |-> None, run |-> None,
            loading |-> FALSE, lines |-> <<None, None>>]
NoCatalog == [selected |-> None, detail |-> FALSE, hint |-> ""]
NoResume == [snapshot |-> "none", discarding |-> FALSE]

\* The init wizard: the step it is on, and the fields whose text its
\* validator would refuse.  The port is filled in.
InitSteps == <<"Welcome", "Alias", "Host", "Port", "User", "Review", "Done">>
newInitWizardForm == [step |-> 1, bad |-> {"Alias", "Host", "User"}]
doneInitWizardForm == [step |-> Len(InitSteps), bad |-> {"Alias", "Host", "User"}]
InitField(form) == {InitSteps[form.step]} \cap {"Alias", "Host", "Port", "User"}

\* New: the dashboard, before any configuration is known.
NewModel ==
    [state |-> "Dashboard", tab |-> "Overview", sel |-> 0,
     focused |-> FALSE, offsets |-> "nil", cfg |-> NoConfig,
     form |-> newInitWizardForm,
     catalog |-> NoCatalog,
     saving |-> FALSE, resume |-> NoResume, import |-> NoImport,
     wizard |-> "Domain", running |-> FALSE, modal |-> NoModal, live |-> None,
     statuses |-> {}, runs |-> [d \in Linked |-> None]]

\* selectedProject: the highlighted project, if the index is a row.
selectedProject(x) ==
    IF x.sel < Len(x.cfg.projects) THEN x.cfg.projects[x.sel + 1] ELSE None

\* The CI/CD tile of a linked project scrolls; its placeholder, and the
\* log tile that no producer fills, do not.
scrollableSlot(x) == selectedProject(x) \in Linked

Awake == m.state \notin {"Stopped", "Panicked"}

\* The operator acts once both local files have been read.
Ready == Awake /\ {<<"config">>, <<"pending">>} \cap BagToSet(jobs) = {}
-----------------------------------------------------------------------------
(* Commands.                                                               *)

\* A second equal reply of these changes nothing, so one copy stands for all.
Idempotent == {"refresh", "poll", "logs"}

\* A handler's commands start as its message is consumed.
Perform(done, cmds) ==
    LET left == jobs (-) SetToBag(done)
        bound(c) == IF c[1] \in Idempotent THEN 1 ELSE MaxCopies
    IN  jobs' = left (+) SetToBag({c \in cmds : BagIn(c, left) => left[c] < bound(c)})

refreshVisibleProjects(x) == <<"refresh", ToSet(x.cfg.projects) \cap Watched>>

Room ==
    LET saves == {job \in BagToSet(jobs) : job[1] \in {"scan", "import", "execute"}}
    IN  BagCardinality([job \in saves |-> jobs[job]]) < MaxSaves

projectActionCmd(kind, d) == <<"action", kind, d>>

loadCICDLogsCmd(d, run) == <<"logs", d, run>>

\* A probe that fails is a value of the snapshot (offline, no days left,
\* unavailable), never an error of the reply: every project gets one.  Its
\* last deploy is asked of GitHub in between, under a context without a
\* deadline: the reply may never come, for any of them.
FetchProjectStatuses(projects) == projects

\* What the panel lists and the configuration did not manage.
unmanagedRows(listed, managed) == listed \ managed

pollCICDPipeline(x) ==
    {<<"poll", d>> : d \in IF Using("pipeline")
                           THEN {selectedProject(x)} \cap Linked ELSE {}}

\* scheduleRefresh and scheduleCICDTick add a timer; a tick replaces itself.
OneMore(n) == IF n < MaxTimers THEN n + 1 ELSE n
scheduleRefresh ==
    timers' = [timers EXCEPT !.refresh = OneMore(@)] /\ UNCHANGED uses

\* One key or event that starts no timer.
Become(x, cmds) ==
    m' = x /\ Perform({}, cmds) /\ UNCHANGED <<timers, uses>>
\* One reply that starts no timer.
Apply(job, x, cmds) ==
    m' = x /\ Perform({job}, cmds) /\ UNCHANGED <<timers, uses>>

InFlight(job) == Awake /\ BagIn(job, jobs)

\* Init: the configuration and the snapshot are loaded side by side.
Init ==
    /\ m = NewModel
    /\ jobs = SetToBag({<<"config">>, <<"pending">>})
    /\ timers = [refresh |-> 0, cicd |-> 0]
    /\ uses \in Sessions
-----------------------------------------------------------------------------
(* Start-up replies.                                                       *)

\* ConfigLoadedMsg with a configuration that has profiles.  With a snapshot
\* pending the handler returns before it schedules anything.
ConfigLoaded ==
    /\ InFlight(<<"config">>)
    /\ LET cfg == [profiles |-> TRUE, projects |-> Configured]
           x == [m EXCEPT !.cfg = cfg, !.state = "Dashboard",
                          !.sel = clampIndex(@, Len(Configured))]
       IN  IF m.resume.snapshot # "none"
           THEN Apply(<<"config">>,
                      [m EXCEPT !.cfg = cfg, !.state = "Resume"], {})
           ELSE /\ m' = x
                /\ Perform({<<"config">>},
                           {refreshVisibleProjects(x)} \cup pollCICDPipeline(x))
                /\ timers' = [refresh |-> OneMore(timers.refresh),
                              cicd |-> IF Using("pipeline")
                                       THEN OneMore(timers.cicd) ELSE 0]
                /\ UNCHANGED uses

\* ConfigLoadedMsg without profiles: the init wizard, unless a snapshot
\* waits.  ConfigLoadFailedMsg: the init wizard in any case.
ConfigUnusable(failed) ==
    /\ InFlight(<<"config">>)
    /\ Apply(<<"config">>,
             IF m.resume.snapshot # "none" /\ ~failed
             THEN [m EXCEPT !.state = "Resume"]
             ELSE [m EXCEPT !.state = "Init", !.form = newInitWizardForm,
                            !.saving = FALSE], {})

\* applyPendingLoaded: a snapshot, or an unreadable one, opens the resume
\* screen over whatever is on it.
PendingLoaded(found) ==
    /\ InFlight(<<"pending">>) /\ (found # "none" <=> Using("resume"))
    /\ Apply(<<"pending">>,
             IF found = "none" THEN m
             ELSE [m EXCEPT !.state = "Resume",
                            !.resume = [snapshot |-> found,
                                        discarding |-> FALSE]], {})
-----------------------------------------------------------------------------
(* Keys of every screen.  The help overlay only swallows keys, which is an *)
(* operator who presses none.                                              *)
On(state) == Ready /\ m.state = state

\* The process is gone, and with it the Model and what it had started.
End(state) ==
    /\ m' = [NewModel EXCEPT !.state = state]
    /\ jobs' = EmptyBag /\ timers' = [refresh |-> 0, cicd |-> 0]
    /\ UNCHANGED uses

\* q, ctrl+c, k on the resume screen, esc on the first init step.
KeyQuit == Ready /\ End("Stopped")

\* tab and shift+tab: with one scrollable tile the cycle has two places;
\* with none the key does nothing, whatever has the focus.
KeyTab ==
    /\ Using("tile") /\ On("Dashboard") /\ scrollableSlot(m)
    /\ Become([m EXCEPT !.focused = ~@], {})

KeyUnfocus ==
    /\ On("Dashboard") /\ m.focused
    /\ Become([m EXCEPT !.focused = FALSE], {})

\* pgup, pgdown, end and the wheel, while a tile has the focus; the first
\* use makes the offset map.
ScrollTile ==
    /\ Ready /\ m.focused
    /\ Become([m EXCEPT !.offsets = "made"], {})

\* home assigns into the offset map: a panic when no scroll has made it.
KeyHome ==
    /\ Ready /\ m.focused
    /\ IF m.offsets = "nil" THEN End("Panicked") ELSE UNCHANGED vars
-----------------------------------------------------------------------------
(* Init wizard and resume screen.                                          *)

OnInit == On("Init") /\ ~m.saving

\* A key typed or taken back leaves the field's text fit or unfit.
KeyType(fits) ==
    /\ OnInit /\ InitField(m.form) # {}
    /\ Become([m EXCEPT !.form.bad = IF fits THEN @ \ InitField(m.form)
                                     ELSE @ \cup InitField(m.form)], {})

\* validateAndAdvance: enter on any other step than the review.
KeyAdvance ==
    /\ OnInit /\ InitSteps[m.form.step] # "Review"
    /\ InitField(m.form) \cap m.form.bad = {}
    /\ Become([m EXCEPT !.form.step = @ + 1], {})

\* stepBack: the welcome screen stays (esc there quits).
KeyStepBack ==
    /\ OnInit /\ InitSteps[m.form.step] # "Welcome"
    /\ Become([m EXCEPT !.form.step = @ - 1], {})

\* enter on the review step: the profile is added to the configuration of
\* this moment.  A failed load left none, and saves over the file.
KeySaveProfile ==
    /\ OnInit /\ InitSteps[m.form.step] = "Review"
    /\ Become([m EXCEPT !.saving = TRUE],
              {<<"profile", [m.cfg EXCEPT !.profiles = TRUE]>>})

ProfileSaved ==
    \E job \in BagToSet(jobs) :
        /\ job[1] = "profile" /\ InFlight(job)
        /\ LET x == [m EXCEPT !.cfg = job[2], !.state = "Dashboard",
                              !.saving = FALSE, !.form = doneInitWizardForm,
                              !.sel = clampIndex(@, Len(job[2].projects))]
           IN  m' = x /\ Perform({job}, {refreshVisibleProjects(x)})
        /\ scheduleRefresh

ProfileSaveFailed ==
    \E job \in BagToSet(jobs) :
        /\ job[1] = "profile" /\ InFlight(job)
        /\ Apply(job, [m EXCEPT !.saving = FALSE,
                             !.form.step = Len(InitSteps) - 1], {})

\* r: nothing but the snapshot itself is looked at, so it can be repeated.
KeyRollback ==
    /\ On("Resume") /\ ~m.resume.discarding /\ m.resume.snapshot = "clean"
    /\ Become(m, {<<"rollback">>})

KeyDiscard ==
    /\ On("Resume") /\ ~m.resume.discarding
    /\ Become([m EXCEPT !.resume.discarding = TRUE], {})

\* enter after the confirmation phrase; this, too, can be repeated.
KeyConfirmDiscard ==
    /\ On("Resume") /\ m.resume.discarding
    /\ Become(m, {<<"discard">>})

\* applyRollback: away from the resume screen the reply is taken for the
\* new-project wizard's, whose form is done, and goes to the dashboard even
\* after an error.
RolledBack(ok) ==
    /\ InFlight(<<"rollback">>)
    /\ Apply(<<"rollback">>,
             IF m.state # "Resume"
             THEN [m EXCEPT !.state = "Dashboard", !.wizard = "Done"]
             ELSE IF ok THEN [m EXCEPT !.state = "Dashboard",
                                       !.resume = NoResume]
             ELSE m, {})

\* applyPendingDiscarded looks at no screen.
Discarded(ok) ==
    /\ InFlight(<<"discard">>)
    /\ Apply(<<"discard">>,
             IF ok THEN [m EXCEPT !.state = "Dashboard", !.resume = NoResume]
             ELSE m, {})
-----------------------------------------------------------------------------
(* Dashboard.                                                              *)
OnDashboard == On("Dashboard") /\ ~m.modal.open

\* up and down: a changed selection drops the cached pipeline of the newly
\* selected project and polls it.
KeySelect(up) ==
    /\ OnDashboard
    /\ LET count == Len(m.cfg.projects)
           x == [m EXCEPT !.sel = clampIndex(IF up THEN @ - 1 ELSE @ + 1,
                                             count)]
       IN  x # m /\ Become(x, pollCICDPipeline(x))

Drilled(x) == [x EXCEPT !.state = "Detail", !.tab = "Overview"]

\* enter and right.
KeyOpen ==
    /\ Using("detail") /\ OnDashboard /\ m.cfg.projects # <<>>
    /\ Become(Drilled(m), {})

\* beginImportScan: what is managed is decided by the configuration of now.
KeyImport ==
    /\ Using("import") /\ Room /\ OnDashboard /\ m.cfg.profiles
    /\ Become([m EXCEPT !.state = "Import",
                        !.import = [NoImport EXCEPT !.loading = TRUE]],
              {<<"scan", ToSet(m.cfg.projects)>>})

KeyCatalog ==
    /\ Using("catalog") /\ OnDashboard
    /\ Become([m EXCEPT !.state = "Catalog", !.catalog.hint = ""], {})

KeyCatalogBack ==
    /\ On("Catalog")
    /\ Become([m EXCEPT !.state = "Dashboard", !.catalog.hint = ""], {})

\* Default: the registry, loaded once from the embedded files.
CatalogRows == catalogRows(loadDir(PresetFiles).presets)

\* catalogSnapshot shows the first row as selected while none is.
SelectedRow ==
    IF m.catalog.selected # None \/ CatalogRows = <<>> THEN m.catalog.selected
    ELSE CatalogRows[1].id

\* up and down; every key of the screen takes the hint away.
KeyCatalogMove(row) ==
    /\ On("Catalog")
    /\ Become([m EXCEPT !.catalog.hint = "", !.catalog.selected =
                  IF CatalogRows = <<>> THEN @ ELSE row], {})

KeyCatalogDetail ==
    /\ On("Catalog")
    /\ Become([m EXCEPT !.catalog = [selected |-> SelectedRow, detail |-> ~@.detail,
                                     hint |-> ""]], {})

\* c: the briefing of the selected row goes to the clipboard.
KeyCatalogCopy ==
    /\ On("Catalog")
    /\ Become([m EXCEPT !.catalog.detail = TRUE,
                        !.catalog.hint = IF SelectedRow = None THEN "select first"
                                         ELSE IF clipboardCopy(Helpers) = "nil"
                                              THEN "copied" ELSE "unavailable"], {})

\* openCICDLogsModal: f8, when the selected project has a run.
KeyOpenLogs ==
    /\ OnDashboard
    /\ \E d \in Linked :
        /\ d = selectedProject(m) /\ m.runs[d] # None
        /\ Become([m EXCEPT !.modal = [NoModal EXCEPT !.open = TRUE,
                                         !.project = d, !.run = m.runs[d],
                                         !.loading = TRUE]],
                  {loadCICDLogsCmd(d, m.runs[d])})

\* esc and f8 in the modal; esc goes to a focused tile first, f8 does not.
KeyCloseLogs ==
    /\ On("Dashboard") /\ m.modal.open
    /\ Become([m EXCEPT !.modal = NoModal], {})

\* handleLeftClick and routeDashboardClick.  A selection made this way polls
\* nothing; a focused tile swallows the click.
Click ==
    /\ Ready /\ ~m.focused
    /\ \/ /\ m.state = "Dashboard" /\ ~m.modal.open
          /\ \/ Using("detail") /\ \E row \in 1..Len(m.cfg.projects) :
                    Become(Drilled([m EXCEPT !.sel = row - 1]), {})
             \/ /\ Using("tile") /\ scrollableSlot(m)
                /\ Become([m EXCEPT !.focused = TRUE], {})
             \/ Using("detail") /\ m.cfg.projects # <<>> /\ Become(Drilled(m), {})
       \/ /\ m.state = "Detail" /\ m.tab # "Logs"
          /\ Become([m EXCEPT !.state = "Dashboard"], {})
-----------------------------------------------------------------------------
(* Project detail.  The tabs without a stream are all "Overview".          *)
OnDetail == On("Detail") /\ m.tab # "Logs"

KeyDetailBack == OnDetail /\ Become([m EXCEPT !.state = "Dashboard"], {})

\* enterLiveLogsTab: a buffer of another project is replaced.
KeyLiveLogs ==
    /\ OnDetail /\ selectedProject(m) # None
    /\ Become([m EXCEPT !.tab = "Logs",
                        !.live = selectedProject(m)], {})

KeyLeaveLogs ==
    /\ On("Detail") /\ m.tab = "Logs"
    /\ Become([m EXCEPT !.tab = "Overview"], {})

\* dispatchProjectAction: r, s and v, one at a time.
KeyAction(kind) ==
    /\ OnDetail /\ ~m.running /\ selectedProject(m) # None
    /\ Become([m EXCEPT !.running = TRUE],
              {projectActionCmd(kind, selectedProject(m))})

\* applyProjectAction: what changed the project refreshes the statuses.
ActionCompleted(ok) ==
    \E job \in BagToSet(jobs) :
        /\ job[1] = "action" /\ InFlight(job)
        /\ Apply(job, [m EXCEPT !.running = FALSE],
                 IF ok /\ job[2] # "logs" THEN {refreshVisibleProjects(m)}
                 ELSE {})
-----------------------------------------------------------------------------
(* Import preview.                                                         *)
OnImport == On("Import") /\ ~m.import.loading /\ ~m.import.saving

KeyImportBack ==
    /\ OnImport
    /\ Become([m EXCEPT !.state = "Dashboard", !.import = NoImport], {})

\* Mutant: a failed scan leaves the preview loading.
ImportScanned_KeepsForm(ok) ==
    \E job \in BagToSet(jobs), listed \in SUBSET Panel :
        /\ job[1] = "scan" /\ InFlight(job)
        /\ Apply(job,
                 IF ok THEN [m EXCEPT !.state = "Import",
                                      !.import = [NoImport EXCEPT !.rows =
                                                    unmanagedRows(listed, job[2])]]
                 ELSE [m EXCEPT !.state = "Dashboard"], {})

\* importScanCmd lists the panel of that moment; rows are what its cfg did not
\* manage.
ImportScanned(ok) ==
    \E job \in BagToSet(jobs), listed \in SUBSET Panel :
        /\ job[1] = "scan" /\ InFlight(job)
        /\ Apply(job,
                 IF ok THEN [m EXCEPT !.state = "Import",
                                      !.import = [NoImport EXCEPT !.rows =
                                                    unmanagedRows(listed, job[2])]]
                 ELSE [m EXCEPT !.state = "Dashboard", !.import = NoImport],
                 {})

\* Mutant: the rows replace the projects of the configuration.
KeyImportAll_FromDefault ==
    /\ OnImport /\ Room /\ m.import.rows # {}
    /\ Become([m EXCEPT !.import.saving = TRUE],
              {<<"import", [profiles |-> TRUE,
                            projects |-> SetToSeq(m.import.rows)]>>})

\* a: importPersistCmd appends the rows to the configuration of this moment.
KeyImportAll ==
    /\ OnImport /\ Room /\ m.import.rows # {}
    /\ Become([m EXCEPT !.import.saving = TRUE],
              {<<"import", [m.cfg EXCEPT !.projects =
                              @ \o SetToSeq(m.import.rows)]>>})

\* Mutant: imported projects wait for the next tick that finds the dashboard.
ImportPersisted_NoRefresh ==
    \E job \in BagToSet(jobs) :
        /\ job[1] = "import" /\ InFlight(job)
        /\ m' = [m EXCEPT !.cfg = job[2], !.state = "Dashboard",
                          !.import = NoImport]
        /\ Perform({job}, {}) /\ scheduleRefresh

\* applyImportPersisted.
ImportPersisted ==
    \E job \in BagToSet(jobs) :
        /\ job[1] = "import" /\ InFlight(job)
        /\ LET x == [m EXCEPT !.cfg = job[2], !.state = "Dashboard",
                              !.import = NoImport]
           IN  m' = x /\ Perform({job}, {refreshVisibleProjects(x)})
        /\ scheduleRefresh

ImportPersistFailed ==
    \E job \in BagToSet(jobs) :
        /\ job[1] = "import" /\ InFlight(job)
        /\ Apply(job, [m EXCEPT !.import.saving = FALSE], {})
-----------------------------------------------------------------------------
(* New-project wizard.  "Domain" stands for the steps up to the domain.    *)
OnWizard(step) == On("Wizard") /\ m.wizard = step

KeyNew ==
    /\ Using("wizard") /\ OnDashboard /\ m.cfg.profiles
    /\ Become([m EXCEPT !.state = "Wizard", !.wizard = "Domain"], {})

\* enter after the domain: preflight, then the check of the domain.  It can be
\* repeated before the first reply.
KeyCheckDomain == OnWizard("Domain") /\ Become(m, {<<"check">>})

KeyWizardBack ==
    OnWizard("Review") /\ Become([m EXCEPT !.wizard = "Domain"], {})

\* esc, and n at the failure prompt.
KeyWizardLeave ==
    /\ On("Wizard") /\ m.wizard \notin {"Executing", "RollingBack"}
    /\ Become([m EXCEPT !.state = "Dashboard",
                        !.wizard = IF @ = "Failure" THEN "Done" ELSE @], {})

\* enter on the review: wizardExecuteCmd will append the project to the
\* configuration of this moment.  (The panel refuses a domain it has, and a
\* project is not made twice.)
KeyExecute(d) ==
    /\ OnWizard("Review") /\ Room /\ d \notin ToSet(m.cfg.projects)
    /\ Become([m EXCEPT !.wizard = "Executing"],
              {<<"execute", [m.cfg EXCEPT !.projects = Append(@, d)]>>})

KeyWizardRollback ==
    /\ OnWizard("Failure")
    /\ Become([m EXCEPT !.wizard = "RollingBack"], {<<"rollback">>})

\* applyDomainCheck looks at no step: a late reply opens the review again.
DomainChecked(ok) ==
    /\ InFlight(<<"check">>)
    /\ Apply(<<"check">>, IF ok THEN [m EXCEPT !.wizard = "Review"] ELSE m, {})

\* applyExecution: a failure, of the save too, sets the form's step only.
Executed(ok) ==
    \E job \in BagToSet(jobs) :
        /\ job[1] = "execute" /\ InFlight(job)
        /\ LET x == [m EXCEPT !.cfg = job[2], !.state = "Dashboard",
                              !.sel = Len(job[2].projects) - 1, !.wizard = "Done"]
           IN  IF ok THEN /\ m' = x /\ Perform({job}, {refreshVisibleProjects(x)})
                          /\ scheduleRefresh
               ELSE Apply(job, [m EXCEPT !.wizard = "Failure"], {})
-----------------------------------------------------------------------------
(* Refresh, CI/CD polling and workflow logs.                               *)

\* RefreshTickMsg: only the dashboard and the detail screen refresh, every
\* screen schedules the next tick.
RefreshTick ==
    /\ Awake /\ timers.refresh > 0
    /\ Become(m, IF m.state \in {"Dashboard", "Detail"}
                 THEN {refreshVisibleProjects(m)} ELSE {})

StatusRefreshed(projects) ==
    /\ InFlight(<<"refresh", projects>>)
    /\ Apply(<<"refresh", projects>>,
             [m EXCEPT !.statuses = @ \cup FetchProjectStatuses(projects)], {})

\* applyCICDTick.
CICDTick ==
    /\ Awake /\ timers.cicd > 0
    /\ Become(m, pollCICDPipeline(m))

\* applyCICDFetched: a run replaces the entry, "no run" clears it.  (A rate
\* limit or another error keeps what was there: one of the runs or none.)
CICDFetched ==
    \E d \in Linked :
        /\ InFlight(<<"poll", d>>)
        /\ \E run \in Run \cup {None} :
              Apply(<<"poll", d>>, [m EXCEPT !.runs[d] = run], {})

\* Mutant: a reply is taken for the open modal's, whatever it is about.
CICDLogsFetched_AnyProject(ok) ==
    \E d \in Linked, run \in Run :
        /\ InFlight(loadCICDLogsCmd(d, run))
        /\ Apply(loadCICDLogsCmd(d, run),
                 IF ~m.modal.open THEN m
                 ELSE [m EXCEPT !.modal.loading = FALSE,
                                !.modal.lines = IF ok THEN <<d, run>> ELSE @],
                 {})

\* applyCICDLogsFetched: the reply is matched by project, not by run.
CICDLogsFetched(ok) ==
    \E d \in Linked, run \in Run :
        /\ InFlight(loadCICDLogsCmd(d, run))
        /\ Apply(loadCICDLogsCmd(d, run),
                 IF ~m.modal.open \/ m.modal.project # d THEN m
                 ELSE [m EXCEPT !.modal.loading = FALSE,
                                !.modal.lines = IF ok THEN <<d, run>> ELSE @],
                 {})
-----------------------------------------------------------------------------
Operator ==
    \/ KeyQuit \/ KeyTab \/ KeyUnfocus \/ ScrollTile \/ KeyHome
    \/ KeyAdvance \/ KeyStepBack \/ \E fits \in BOOLEAN : KeyType(fits)
    \/ KeySaveProfile \/ KeyRollback \/ KeyDiscard \/ KeyConfirmDiscard
    \/ \E up \in BOOLEAN : KeySelect(up)
    \/ KeyOpen \/ KeyImport \/ KeyCatalog \/ KeyCatalogBack
    \/ KeyCatalogMove(RowAbove(CatalogRows, SelectedRow))
    \/ KeyCatalogMove(RowBelow(CatalogRows, SelectedRow))
    \/ KeyCatalogDetail \/ KeyCatalogCopy
    \/ KeyOpenLogs \/ KeyCloseLogs \/ Click
    \/ KeyDetailBack \/ KeyLiveLogs \/ KeyLeaveLogs
    \/ \E kind \in ActionKind : KeyAction(kind)
    \/ KeyImportBack \/ KeyImportAll
    \/ KeyNew \/ KeyCheckDomain \/ KeyWizardBack \/ KeyWizardLeave
    \/ KeyWizardRollback \/ \E d \in Panel : KeyExecute(d)

Config == ConfigLoaded \/ \E failed \in BOOLEAN : ConfigUnusable(failed)
Pending == \E found \in {"none", "clean", "broken"} : PendingLoaded(found)
Profile == ProfileSaved \/ ProfileSaveFailed
Rollback == \E ok \in BOOLEAN : RolledBack(ok)
Discard == \E ok \in BOOLEAN : Discarded(ok)
Action == \E ok \in BOOLEAN : ActionCompleted(ok)
Scan == \E ok \in BOOLEAN : ImportScanned(ok)
Import == ImportPersisted \/ ImportPersistFailed
Wizard == \E ok \in BOOLEAN : DomainChecked(ok) \/ Executed(ok)
Logs == \E ok \in BOOLEAN : CICDLogsFetched(ok)

Next ==
    \/ Operator \/ Config \/ Pending \/ Profile \/ Rollback \/ Discard
    \/ Action \/ Scan \/ Import \/ Wizard \/ Logs
    \/ \E projects \in SUBSET Watched : StatusRefreshed(projects)
    \/ RefreshTick \/ CICDTick \/ CICDFetched

\* No fairness: a command may hang for ever, and the operator may idle.
Spec == Init /\ [][Next]_vars
-----------------------------------------------------------------------------
\* The Model, the commands in flight and the timers stay in their types; the
\* selected row is never negative, also when the list is empty.
TypeOK ==
    /\ m.state \in {"Init", "Dashboard", "Detail", "Resume", "Import",
                    "Catalog", "Wizard", "Stopped", "Panicked"}
    /\ m.wizard \in {"Domain", "Review", "Executing", "Failure", "RollingBack", "Done"}
    /\ m.tab \in {"Overview", "Logs"} /\ m.sel \in Nat
    /\ {m.focused, m.saving, m.running, m.cfg.profiles,
        m.resume.discarding, m.import.loading, m.import.saving,
        m.modal.open, m.modal.loading} \subseteq BOOLEAN
    /\ m.catalog \in [selected : Nat \cup {None}, detail : BOOLEAN,
                      hint : {"", "select first", "copied", "unavailable"}]
    /\ m.offsets \in {"nil", "made"} /\ m.form.step \in 1..Len(InitSteps)
    /\ m.form.bad \subseteq {"Alias", "Host", "Port", "User"}
    /\ m.cfg.projects \in Seq(Domain) /\ m.import.rows \subseteq Domain
    /\ m.resume.snapshot \in {"none", "clean", "broken"}
    /\ m.modal.project \in Linked \cup {None}
    /\ m.modal.run \in Run \cup {None}
    /\ m.live \in Domain \cup {None} /\ m.statuses \subseteq Domain
    /\ m.runs \in [Linked -> Run \cup {None}]
    /\ IsABag(jobs)
    /\ timers \in [refresh: 0..MaxTimers, cicd: 0..MaxTimers]

\* A screen that ignores keys has its reply under way: the lock and the
\* command that releases it never come apart.
LockHasReply ==
    LET running(cmd) == \E job \in BagToSet(jobs) : job[1] = cmd
    IN  /\ m.saving => running("profile")
        /\ m.import.loading => running("scan")
        /\ m.import.saving => running("import")
        /\ m.modal.loading => running("logs")
        /\ m.wizard = "Executing" => running("execute")
        /\ m.wizard = "RollingBack" => running("rollback")

\* The modal never shows lines of another project than its title names.
ModalLinesOfProject ==
    m.modal.open /\ m.modal.lines # <<None, None>> =>
        m.modal.lines[1] = m.modal.project

\* The rows never wait for nothing: once the refresh timers run, a project of
\* the configuration has a status or a command under way that brings it, also
\* one that was imported or made a moment ago, whatever screen the operator
\* has moved to and in whatever order the replies came.
StatusUnderWay ==
    Awake /\ timers.refresh > 0 =>
        \A d \in ToSet(m.cfg.projects) \cap Watched :
            \/ d \in m.statuses
            \/ \E job \in BagToSet(jobs) : job[1] = "refresh" /\ d \in job[2]

\* Every save starts from a configuration captured earlier.  A project the
\* panel does not list, which only config.json can have brought, is never
\* forgotten when such a save is applied, however late.
ConfiguredKept ==
    [][Awake' => ToSet(m.cfg.projects) \ Panel \subseteq ToSet(m'.cfg.projects)]_vars
=============================================================================
