---------------------------- MODULE GitHubClient ----------------------------
(***************************************************************************)
(* services/github: the client that asks `gh` first and the REST API with  *)
(* a token when there is no `gh`.  A method is one or two requests on      *)
(* either transport; REST repeats a request that failed on the server or   *)
(* was rate limited, `gh` repeats nothing.                                 *)
(*                                                                         *)
(* GitHub holds one repository of interest: <<"repo", 0>> and, inside it,  *)
(* <<"key", id>>, <<"secret", n>>, <<"file", 0>> and the workflow's runs.  *)
(* Bodies, paths and encryption are left out.                              *)
(***************************************************************************)
EXTENDS Integers, Sequences, FiniteSets

CONSTANTS
    Clients,      \* how NewClient may be wired: [gh, rest]
    MaxAttempts,  \* the attempts of RESTTransport.doJSON
    MaxFaults     \* bound: refusals, lost and unreadable answers, failed saves

ASSUME ClientAssumption == MaxAttempts \in Nat \ {0} /\ MaxFaults \in Nat

VARIABLES
    client,  \* the wiring in use
    hub,     \* what exists on GitHub
    runs,    \* the workflow's runs, oldest first
    wire,    \* the method under way
    ctx,     \* "live", or "done" once its context ended
    faults   \* what went wrong so far

hubVars == <<client, hub, runs, wire, ctx, faults>>
-----------------------------------------------------------------------------
(* Methods and their requests.                                             *)

Method(name, arg) == [name |-> name, arg |-> arg]
Request(verb, kind, id) == [verb |-> verb, obj |-> <<kind, id>>]

Creates == [CreateRepo |-> "repo", AddDeployKey |-> "key", DispatchWorkflow |-> "run"]
Puts == [SetActionsSecret |-> "secret", CommitWorkflowFile |-> "file"]
Removes == [RemoveGitHubRepo |-> "repo", RemoveGitHubDeployKey |-> "key",
            RemoveGitHubActionsSecret |-> "secret", RemoveGitHubWorkflowFile |-> "file"]
Gets == [GetLatestRun |-> "run", GetWorkflowSteps |-> "jobs", GetWorkflowLogs |-> "log"]

\* SetActionsSecret over REST asks for the public key first; `gh secret set`
\* does so itself.
SetActionsSecret(via, n) ==
    (IF via = "rest" THEN <<Request("GET", "publickey", 0)>> ELSE <<>>)
        \o <<Request("PUT", "secret", n)>>

\* A file is removed by its sha.
RemoveGitHubWorkflowFile == <<Request("GET", "file", 0), Request("DELETE", "file", 0)>>

\* The requests of the two transports.
Requests(method, via) ==
    CASE method.name = "SetActionsSecret" -> SetActionsSecret(via, method.arg)
      [] method.name = "RemoveGitHubWorkflowFile" -> RemoveGitHubWorkflowFile
      [] method.name = "CommitWorkflowFile" -> <<Request("PUT", "file", 0)>>
      [] method.name \in DOMAIN Creates -> <<Request("POST", Creates[method.name], method.arg)>>
      [] method.name \in DOMAIN Gets -> <<Request("GET", Gets[method.name], 0)>>
      [] OTHER -> <<Request("DELETE", Removes[method.name], method.arg)>>

req == Requests(wire.method, wire.via)[wire.k]

NoWire == [pc |-> "off", method |-> Method("none", 0), via |-> "none", k |-> 1, attempt |-> 1,
           err |-> "nil", id |-> 0, run |-> "none"]
-----------------------------------------------------------------------------
(* GitHub, as the client relies on it.                                     *)

Listed == SelectSeq(runs, LAMBDA r : r # "unlisted")
LatestRun == IF Listed = <<>> THEN "none" ELSE Listed[Len(Listed)]

Verdict ==
    CASE req.verb = "POST" /\ req.obj \in hub -> "422 already"
      [] req.obj # <<"repo", 0>> /\ <<"repo", 0>> \notin hub -> "404"
      [] req.verb = "PUT" /\ req.obj = <<"file", 0>> /\ req.obj \in hub -> "422"
      [] req.verb = "DELETE" /\ req.obj \notin hub -> "404"
      [] req.verb = "GET" /\ req.obj[1] = "file" /\ req.obj \notin hub -> "404"
      [] req.verb = "GET" /\ req.obj[1] \in {"jobs", "log"} /\ Listed = <<>> -> "404"
      [] req.verb = "POST" /\ req.obj[1] = "run" /\ <<"file", 0>> \notin hub -> "404"
      [] OTHER -> "ok"

CarriedOut ==
    IF Verdict # "ok" THEN UNCHANGED <<hub, runs>>
    ELSE CASE req.verb = "POST" /\ req.obj[1] = "run" ->
                  runs' = Append(runs, "unlisted") /\ UNCHANGED hub
           [] req.verb \in {"POST", "PUT"} /\ req.obj[1] # "run" ->
                  hub' = hub \cup {req.obj} /\ UNCHANGED runs
           [] req.verb = "DELETE" /\ req.obj[1] = "repo" -> hub' = {} /\ runs' = <<>>
           [] req.verb = "DELETE" /\ req.obj[1] # "repo" ->
                  hub' = hub \ {req.obj} /\ UNCHANGED runs
           [] OTHER -> UNCHANGED <<hub, runs>>

\* A run appears in the list some time after its dispatch, and ends.
RunAdvances ==
    \E i \in DOMAIN runs :
        /\ \/ runs[i] = "unlisted" /\ runs' = [runs EXCEPT ![i] = "queued"]
           \/ \E c \in {"success", "failure"} :
                  runs[i] = "queued" /\ runs' = [runs EXCEPT ![i] = c]
        /\ UNCHANGED <<client, hub, wire, ctx, faults>>
-----------------------------------------------------------------------------
(* What an answer becomes.                                                 *)

\* Mutant: a 422 that says "already" counts as done.
mapHTTPError_Exists(answer) == IF answer = "422 already" THEN "nil" ELSE "status"

mapHTTPError(answer) ==
    CASE answer = "401" -> "patInvalid"
      [] answer \in {"403 rate limit", "429"} -> "rateLimited"
      [] answer = "403" -> "patScopeInsufficient"
      [] answer = "422 already" -> "repoExists"
      [] answer = "422" -> "validationFailed"
      [] answer = "5xx" -> "serverError"
      [] OTHER -> "unexpectedStatus"

isRetriable(err) == err \in {"rateLimited", "serverError"}

wrapCLIError(answer) ==
    CASE answer = "401" -> "patInvalid"
      [] answer \in {"403", "403 rate limit"} -> "patScopeInsufficient"
      [] answer = "422 already" -> "repoExists"
      [] OTHER -> "gh"

\* What is decoded when a 2xx has no body or an unreadable one; DELETE and
\* PUT are not decoded.
Undecoded(answer) ==
    CASE req.verb \in {"DELETE", "PUT"} -> "nil"
      [] req.verb \notin {"DELETE", "PUT"} /\ answer = "garbled" -> "parse"
      [] req.obj[1] = "publickey" /\ answer = "blank" -> "invalidPublicKey"
      [] req.verb = "GET" /\ req.obj[1] = "file" /\ answer = "blank" -> "missingSHA"
      [] req.obj[1] = "jobs" /\ answer = "blank" -> "runNotFound"
      [] OTHER -> "nil"

\* doOnce and ghAPI.
doOnce(answer) ==
    CASE answer = "ok" -> "nil"
      [] answer \in {"blank", "garbled"} -> Undecoded(answer)
      [] answer = "none" -> "request"
      [] OTHER -> mapHTTPError(answer)
ghAPI(answer) ==
    CASE answer = "ok" -> "nil"
      [] answer \in {"blank", "garbled"} -> Undecoded(answer)
      [] OTHER -> wrapCLIError(answer)

\* GetWorkflowSteps: 404 and a run without jobs are "no run yet"; jobs
\* without steps are an error.
GetWorkflowSteps(err, answer) ==
    CASE answer = "404" -> {"runNotFound"}
      [] answer = "ok" -> {"nil", "runNotFound", "stepsParseError"}
      [] OTHER -> {err}

\* GetWorkflowLogs of `gh`; parseGHLogLines takes any output.
GetWorkflowLogs(err, answer) ==
    CASE answer = "404" -> {"runNotFound"}
      [] answer \in {"blank", "garbled"} -> {"nil"}
      [] OTHER -> {err}

\* DispatchWorkflow wraps every error.
DispatchWorkflow(err) == IF err = "nil" THEN "nil" ELSE "workflowDispatchFailed"

Reading(answer) ==
    LET err == IF wire.via = "rest" THEN doOnce(answer) ELSE ghAPI(answer)
    IN  CASE wire.method.name = "GetWorkflowSteps" -> GetWorkflowSteps(err, answer)
          [] wire.method.name = "GetWorkflowLogs" -> GetWorkflowLogs(err, answer)
          [] OTHER -> {err}
-----------------------------------------------------------------------------
(* A method: the choice of a transport, its requests, the end.             *)

Called(method) == [NoWire EXCEPT !.pc = "enter", !.method = method, !.via = "cli"]

Over(w, err) ==
    [w EXCEPT !.pc = "over",
              !.err = IF w.method.name = "DispatchWorkflow" THEN DispatchWorkflow(err) ELSE err]

\* GetWorkflowLogs of REST asks nothing.
restGetWorkflowLogs == "patScopeInsufficient"

\* withFallback: only a missing `gh` leads to REST, where there is one;
\* doJSON first needs a token.
withFallback ==
    /\ wire.pc = "enter"
    /\ LET named == wire.method.name \in {"GetWorkflowSteps", "GetWorkflowLogs"}
       IN  wire' = CASE wire.via = "cli" /\ named /\ Listed = <<>> -> Over(wire, "runNotFound")
                     [] wire.via = "cli" /\ ~(named /\ Listed = <<>>) /\ client.gh ->
                            [wire EXCEPT !.pc = "send"]
                     [] wire.via = "cli" /\ ~(named /\ Listed = <<>>) /\ ~client.gh ->
                            IF client.rest = "none" THEN Over(wire, "ghUnavailable")
                            ELSE [wire EXCEPT !.via = "rest"]
                     [] wire.via = "rest" /\ wire.method.name = "GetWorkflowLogs" ->
                            Over(wire, restGetWorkflowLogs)
                     [] wire.via = "rest" /\ wire.method.name # "GetWorkflowLogs"
                          /\ client.rest = "no token" -> Over(wire, "patInvalid")
                     [] OTHER -> [wire EXCEPT !.pc = "send"]
    /\ UNCHANGED <<client, hub, runs, ctx, faults>>

\* Mutant: any failure is tried again, without a limit.
doJSON_Forever(w, err) ==
    CASE w.via = "rest" /\ err # "nil" -> [w EXCEPT !.pc = "pause", !.attempt = 0]
      [] err = "nil" /\ w.k < Len(Requests(w.method, w.via)) ->
             [w EXCEPT !.k = w.k + 1, !.attempt = 1]
      [] OTHER -> Over(w, err)

\* The loop of doJSON, and the next request of the method.
doJSON(w, err) ==
    CASE w.via = "rest" /\ isRetriable(err) /\ w.attempt < MaxAttempts -> [w EXCEPT !.pc = "pause"]
      [] err = "nil" /\ w.k < Len(Requests(w.method, w.via)) ->
             [w EXCEPT !.k = w.k + 1, !.attempt = 1]
      [] OTHER -> Over(w, err)

\* The values that come with a 2xx: the new key's id, the latest run.
WithValue(answer) ==
    CASE answer = "ok" /\ wire.method.name = "AddDeployKey" -> [wire EXCEPT !.id = 1]
      [] answer = "ok" /\ wire.method.name = "GetLatestRun" -> [wire EXCEPT !.run = LatestRun]
      [] OTHER -> wire

Settle(answer) == \E err \in Reading(answer) : wire' = doJSON(WithValue(answer), err)

Sending == wire.pc = "send" /\ UNCHANGED <<client, ctx>>
Fault == faults < MaxFaults /\ faults' = faults + 1

Answered ==
    /\ Sending /\ ctx = "live"
    /\ CarriedOut /\ Settle(Verdict)
    /\ UNCHANGED faults

Refused ==
    /\ Sending /\ ctx = "live" /\ Fault
    /\ \E answer \in {"401", "403", "403 rate limit", "429"} : Settle(answer)
    /\ UNCHANGED <<hub, runs>>

\* Carried out or not, nothing says which.
Lost ==
    /\ Sending /\ ctx = "live" /\ Fault
    /\ \E answer \in {"none", "5xx"} : Settle(answer)
    /\ CarriedOut \/ UNCHANGED <<hub, runs>>

\* Carried out, with an answer nobody can read.
Unreadable ==
    /\ Sending /\ ctx = "live" /\ Verdict = "ok" /\ Fault
    /\ \E answer \in {"blank", "garbled"} : Settle(answer)
    /\ CarriedOut

\* A request or a `gh` whose context ended.
Cut ==
    /\ Sending /\ ctx = "done"
    /\ Settle("none")
    /\ CarriedOut \/ UNCHANGED <<hub, runs>>
    /\ UNCHANGED faults

\* retryDelay, sleepContext; doJSON returns the context's error.
Pause ==
    /\ wire.pc = "pause"
    /\ wire' = [wire EXCEPT !.pc = "send", !.attempt = wire.attempt + 1]
    /\ UNCHANGED <<client, hub, runs, ctx, faults>>
PauseCancelled ==
    /\ wire.pc = "pause" /\ ctx = "done"
    /\ wire' = Over(wire, "ctx")
    /\ UNCHANGED <<client, hub, runs, ctx, faults>>

CtxDone == ctx = "live" /\ ctx' = "done" /\ UNCHANGED <<client, hub, runs, wire, faults>>

Transport == \/ withFallback \/ Answered \/ Refused \/ Lost \/ Unreadable \/ Cut
             \/ Pause \/ PauseCancelled
=============================================================================
