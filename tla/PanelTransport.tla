--------------------------- MODULE PanelTransport ---------------------------
(***************************************************************************)
(* How the hosting adapters reach a panel: cPanel's UAPI over HTTPS with   *)
(* retries, over `uapi` on SSH, and the composite that falls over from one *)
(* to the other; DirectAdmin's Live API in the same two ways, read-only;   *)
(* and `devil` on SSH for small.pl.                                        *)
(*                                                                         *)
(* A request is a function of the panel's and the name of what it is       *)
(* about.  A reply is an answer, the shapes that the code tells apart:     *)
(* each leg makes an error of it.  Text, URLs and quoting are left out.    *)
(***************************************************************************)
EXTENDS Integers, Sequences, FiniteSets

CONSTANTS
    Profiles,     \* the provider profiles to try
    MaxRetries    \* maxRetries of both HTTPS transports

ASSUME TransportAssumption == MaxRetries \in Nat

VARIABLES
    profile,  \* the profile in use
    panel,    \* the objects that exist on the account, as <<kind, name>>
    wire,     \* the request under way
    ctx       \* "live", or "done" once the operation's context ended
-----------------------------------------------------------------------------
(* The panels' functions: what each does, and to what.                     *)

\* The mutating UAPI functions, named as in Mutator.
MutatorVerbs == [
    AddAddonDomain |-> "add", AddSubdomain |-> "add",
    DeleteDomain |-> "del", DeleteSubdomain |-> "del",
    CreatePassengerApp |-> "add", EditPassengerApp |-> "touch",
    RestartPassengerApp |-> "touch", DeletePassengerApp |-> "del",
    CreateMysqlDatabase |-> "add", DeleteMysqlDatabase |-> "del",
    CreateMysqlUser |-> "add", DeleteMysqlUser |-> "del", SetMysqlPrivileges |-> "set",
    InstallSSL |-> "set", StartAutoSSL |-> "set", DeleteSSL |-> "del"]

MutatorFunctions == DOMAIN MutatorVerbs

\* What the arguments that argsForX renders identify.
MutatorSubjects == [
    AddAddonDomain |-> "domain", AddSubdomain |-> "domain",
    DeleteDomain |-> "domain", DeleteSubdomain |-> "domain",
    CreatePassengerApp |-> "app", EditPassengerApp |-> "app",
    RestartPassengerApp |-> "app", DeletePassengerApp |-> "app",
    CreateMysqlDatabase |-> "db", DeleteMysqlDatabase |-> "db",
    CreateMysqlUser |-> "user", DeleteMysqlUser |-> "user", SetMysqlPrivileges |-> "grant",
    InstallSSL |-> "cert", StartAutoSSL |-> "cert", DeleteSSL |-> "cert"]

\* The read-only UAPI functions and Live API endpoints: what each lists.
UapiReads == [ListDomains |-> "domain", ListPassengerApps |-> "app",
              ListMysqlDatabases |-> "db", ListSSLKeys |-> "cert"]
LiveReads == [Whoami |-> "account", ListDomains |-> "domain", ListSubdomains |-> "domain",
              ListDatabases |-> "db", ListSSLCertificates |-> "cert"]
UapiReader == DOMAIN UapiReads
LiveReader == DOMAIN LiveReads

\* The devil sub-commands.
DevilVerbs == [www_add |-> "add", www_restart |-> "touch", www_list |-> "read", www_del |-> "del",
               vhost_list |-> "read", ssl_add |-> "set", ssl_del |-> "del",
               db_add |-> "add", db_del |-> "del", version |-> "read"]
DevilSubjects == [www_add |-> "domain", www_restart |-> "domain", www_list |-> "domain",
                  www_del |-> "domain", vhost_list |-> "domain", ssl_add |-> "cert",
                  ssl_del |-> "cert", db_add |-> "db", db_del |-> "db", version |-> "account"]

Request(fn, name) == [fn |-> fn, name |-> name]
NoRequest == Request("none", "none")

Verb(call) ==
    CASE call.fn \in MutatorFunctions -> MutatorVerbs[call.fn]
      [] call.fn \in DOMAIN DevilVerbs -> DevilVerbs[call.fn]
      [] OTHER -> "read"

Object(call) ==
    << CASE call.fn \in MutatorFunctions -> MutatorSubjects[call.fn]
         [] call.fn \in DOMAIN DevilSubjects -> DevilSubjects[call.fn]
         [] call.fn \in UapiReader -> UapiReads[call.fn]
         [] call.fn \in LiveReader \ UapiReader -> LiveReads[call.fn]
         [] OTHER -> "log",
       call.name >>

Api == CASE profile.adapter = "cpanel" -> "uapi"
         [] profile.adapter = "directadmin" -> "live"
         [] OTHER -> "devil"

NoWire == [pc |-> "off", call |-> NoRequest, via |-> "none", attempt |-> 0, err |-> "nil",
           faults |-> 0]
-----------------------------------------------------------------------------
(* The panel, as the code relies on it.                                    *)

Verdict(call) ==
    CASE Verb(call) = "add" /\ Object(call) \in panel -> "exists"
      [] Verb(call) \in {"del", "touch"} /\ Object(call) \notin panel -> "notfound"
      [] call.fn = "SetMysqlPrivileges"
           /\ ~({<<"db", call.name>>, <<"user", call.name>>} \subseteq panel) -> "notfound"
      [] OTHER -> "ok"

\* A grant goes with its database or its user.
Gone(obj) == {obj} \cup (IF obj[1] \in {"db", "user"} THEN {<<"grant", obj[2]>>} ELSE {})

Effect(call) ==
    CASE Verdict(call) = "ok" /\ Verb(call) \in {"add", "set"} -> panel \cup {Object(call)}
      [] Verdict(call) = "ok" /\ Verb(call) = "del" -> panel \ Gone(Object(call))
      [] OTHER -> panel

\* Answers of a panel that did nothing.
Declined(call, via) ==
    CASE via = "https" /\ Api = "uapi" -> {"401", "429", "4xx", "denied", "failure"}
      [] via = "ssh" /\ Api = "uapi" -> {"denied", "failure"}
      [] via \in {"https", "ssh"} /\ Api # "uapi" -> {"401", "429", "404", "503 disabled", "4xx"}
      [] via = "shell" /\ call.fn = "www_add" -> {"invalid node version"}
      [] via = "shell" /\ call.fn = "www_restart" -> {"not a nodejs domain"}
      [] via = "shell" /\ call.fn = "ssl_add" -> {"dns not configured", "rate limit"}
      [] OTHER -> {}

\* Answers that do not say whether the request was carried out.
Inconclusive(via) ==
    CASE via = "https" -> {"none", "cut", "5xx", "garbled"}
      [] via = "ssh" /\ Api = "live" -> {"none", "5xx", "garbled"}
      [] OTHER -> {"none", "garbled"}
-----------------------------------------------------------------------------
(* What each leg makes of an answer.                                       *)

\* isModuleDenied: WHM has the module switched off.
isModuleDenied(answer) == answer = "denied"

\* ErrAPIResultFailure, with the panel's text.
APIResultFailure(answer) ==
    CASE answer = "exists" -> "failure: already exists"
      [] answer = "notfound" -> "failure: does not exist"
      [] OTHER -> "failure"

\* singleCall of uapi: transport, HTTP status, envelope, in this order.
singleCall(answer) ==
    CASE answer = "ok" -> "nil"
      [] answer = "none" -> "unavailable"
      [] answer = "cut" -> "body"
      [] answer = "401" -> "auth"
      [] answer = "429" -> "rate"
      [] answer = "5xx" -> "server"
      [] answer = "4xx" -> "status"
      [] answer = "garbled" -> "malformed"
      [] isModuleDenied(answer) -> "denied"
      [] OTHER -> APIResultFailure(answer)

\* shouldRetry of uapi.
shouldRetry(err) ==
    err \notin {"nil", "auth", "malformed", "denied",
                "failure", "failure: already exists", "failure: does not exist"}

\* SSHPoolRunner.Run of uapi: an exit status is a result, any other failure
\* of ssh.Exec is ErrTransportUnavailable.
uapiPoolRun(answer) == IF answer = "none" THEN "unavailable" ELSE "nil"

\* SSHFallback.call of uapi: a non-zero exit and a status-0 envelope say the
\* same.
fallbackCall(answer) ==
    CASE answer = "ok" -> "nil"
      [] uapiPoolRun(answer) # "nil" -> uapiPoolRun(answer)
      [] answer = "garbled" -> "malformed"
      [] isModuleDenied(answer) -> "denied"
      [] OTHER -> APIResultFailure(answer)

\* SSHMutator.call reads them alike.
mutatorCall(answer) == fallbackCall(answer)

\* classifyMutationError: the failures whose text says "exists" or "not found".
classifyMutationError(err) ==
    CASE err = "failure: already exists" -> "exists"
      [] err = "failure: does not exist" -> "notfound"
      [] OTHER -> err

\* decodeListResponse of uapi wants a row: an empty array of applications is
\* an unknown shape, unless the panel sends null or an object instead.
decodeListResponse(call) ==
    IF call.fn = "ListPassengerApps" /\ ~\E o \in panel : o[1] = "app"
    THEN {"nil", "malformed"} ELSE {"nil"}

\* classifyHTTPStatus of the Live API.
classifyHTTPStatus(answer) ==
    CASE answer = "ok" -> "nil"
      [] answer = "401" -> "auth"
      [] answer = "429" -> "rate"
      [] answer \in {"404", "503 disabled"} -> "disabled"
      [] answer = "5xx" -> "server"
      [] answer = "garbled" -> "nil"
      [] OTHER -> "status"

liveSingleCall(answer) ==
    CASE answer = "none" -> "unavailable"
      [] answer = "cut" -> "body"
      [] OTHER -> classifyHTTPStatus(answer)

liveShouldRetry(err) == err \notin {"nil", "auth", "malformed", "disabled", "status"}

\* SSHPoolRunner.Run of the Live API.
livePoolRun(answer) == IF answer = "none" THEN "unavailable" ELSE "nil"

\* fetch: curl on the host, which appends the HTTP status.
fetch(answer) ==
    IF livePoolRun(answer) # "nil" THEN livePoolRun(answer) ELSE classifyHTTPStatus(answer)

\* decodeList of the Live API takes an empty list for one; what is neither a
\* wrapper nor an array is malformed.
decodeList(err, answer) == IF err = "nil" /\ answer = "garbled" THEN "malformed" ELSE err

\* The parsers of devil's output; stripAndNormalize refuses "garbled" output
\* before any of them looks.
parseWwwAdd(answer) ==
    CASE answer = "ok" -> "nil"
      [] answer = "exists" -> "subdomainExists"
      [] answer = "invalid node version" -> "nodeVersionUnsupported"
      [] OTHER -> "unknown"
parseWwwRestart(answer) ==
    CASE answer = "ok" -> "nil"
      [] answer = "not a nodejs domain" -> "appNotNode"
      [] answer = "notfound" -> "appNotFound"
      [] OTHER -> "unknown"
parseSSLAdd(answer) ==
    CASE answer = "ok" -> "nil"
      [] answer = "dns not configured" -> "dns"
      [] answer = "rate limit" -> "rateLimitLetsEncrypt"
      [] OTHER -> "unknown"
parseSSLDelete(answer) == IF answer \in {"ok", "notfound"} THEN "nil" ELSE "unknown"
parseDBAdd(answer) ==
    CASE answer = "ok" -> "nil"
      [] answer = "exists" -> "dbNameTaken"
      [] OTHER -> "unknown"
parseDBDelete(answer) == IF answer \in {"ok", "notfound"} THEN "nil" ELSE "unknown"
parseDeleteOutcome(answer) == IF answer \in {"ok", "notfound"} THEN "nil" ELSE "unknown"
parseWwwList(answer) == IF answer = "ok" THEN "nil" ELSE "unknown"

\* The first address of the list; an account without a domain has none.
parseVhostList(answer) ==
    IF answer = "ok" /\ \E o \in panel : o[1] = "domain" THEN "nil" ELSE "unknown"

devil(call, answer) ==
    IF answer = "none" THEN "exec" ELSE
    CASE call.fn = "www_add" -> parseWwwAdd(answer)
      [] call.fn = "www_restart" -> parseWwwRestart(answer)
      [] call.fn = "www_list" -> parseWwwList(answer)
      [] call.fn = "www_del" -> parseDeleteOutcome(answer)
      [] call.fn = "vhost_list" -> parseVhostList(answer)
      [] call.fn = "ssl_add" -> parseSSLAdd(answer)
      [] call.fn = "ssl_del" -> parseSSLDelete(answer)
      [] call.fn = "db_add" -> parseDBAdd(answer)
      [] call.fn = "db_del" -> parseDBDelete(answer)
      [] OTHER -> "nil"

\* The errors an answer may become.  A devil refusal with a non-zero exit is
\* an error of ssh.Exec, which the adapter returns without reading the text.
Reading(call, via, answer) ==
    CASE Api = "uapi" /\ Verb(call) = "read" /\ answer = "ok" /\ via # "shell" -> decodeListResponse(call)
      [] Api = "uapi" /\ Verb(call) = "read" /\ answer # "ok" /\ via = "ssh" -> {fallbackCall(answer)}
      [] Api = "uapi" /\ Verb(call) # "read" /\ via = "ssh" -> {mutatorCall(answer)}
      [] Api = "uapi" /\ ~(Verb(call) = "read" /\ answer = "ok") /\ via = "https" -> {singleCall(answer)}
      [] Api = "live" /\ via = "https" -> {decodeList(liveSingleCall(answer), answer)}
      [] Api = "live" /\ via = "ssh" -> {decodeList(fetch(answer), answer)}
      [] OTHER -> {devil(call, answer)} \cup (IF answer = "ok" THEN {} ELSE {"exec"})
-----------------------------------------------------------------------------
(* A request: the choice of a leg, the round trips, the end.               *)

WireAt(pc) == wire.pc = pc
Over(err) == wire' = [wire EXCEPT !.pc = "over", !.err = err]
Leg(via) == wire' = [wire EXCEPT !.pc = "enter", !.via = via, !.attempt = 0]

\* Logs are read, and devil is run, in a shell; the rest asks a panel's API.
OnPanel == Api # "devil" /\ wire.call.fn # "tail"

\* Composite.X, CompositeMutator.X, sshExecutor: the first leg there is.
Dispatch ==
    /\ WireAt("choose")
    /\ CASE ~OnPanel -> Leg("shell")
         [] OnPanel /\ profile.https -> Leg("https")
         [] OnPanel /\ ~profile.https /\ profile.ssh -> Leg("ssh")
         [] OTHER -> Over("unavailable")
    /\ UNCHANGED <<profile, panel, ctx>>

\* X.Validate, as far as it is about the name.
Validate(call) == Len(call.name) > 0

\* guardAndValidate, guardAndValidateValue: WEBOX_CPANEL_MUTATIONS comes
\* before the arguments.
guardAndValidate(call) ==
    CASE ~profile.mutations -> "mutationsDisabled"
      [] profile.mutations /\ ~Validate(call) -> "invalidArgs"
      [] OTHER -> "nil"

Guarded(via) ==
    /\ WireAt("enter") /\ wire.via = via /\ wire.call.fn \in MutatorFunctions
    /\ IF guardAndValidate(wire.call) = "nil" THEN wire' = [wire EXCEPT !.pc = "send"]
       ELSE Over(guardAndValidate(wire.call))
    /\ UNCHANGED <<profile, panel, ctx>>

\* HTTPSMutator.X and SSHMutator.X: the same guard on both legs.
EnterHTTPSMutator == Guarded("https")
EnterSSHMutator == Guarded("ssh")

Unguarded ==
    /\ wire' = [wire EXCEPT !.pc = "send"]
    /\ UNCHANGED <<profile, panel, ctx>>

\* The readers of the two panels, on either leg.
EnterUapiReader == WireAt("enter") /\ Api = "uapi" /\ wire.call.fn \in UapiReader /\ Unguarded
EnterLiveReader == WireAt("enter") /\ Api = "live" /\ Unguarded

\* Provider.exec of smallhost, and the SSHRunner of cpanel's TailLog.
EnterShell == WireAt("enter") /\ wire.via = "shell" /\ Unguarded

\* tryMutate, and shouldFailover of the Live API: only an unreachable
\* transport moves a request to the other leg.
shouldFailover(err) == err = "unavailable"
liveShouldFailover(err) == err = "unavailable"

\* The retry loops of the two transports.
callWithArgs(err, attempt) == shouldRetry(err) /\ attempt < MaxRetries
liveCall(err, attempt) == liveShouldRetry(err) /\ attempt < MaxRetries

\* Failures of the operation so far: 0, 1, or 2 for more than one, and for
\* one whose effect on the panel is unknown.
Counted(n) == IF wire.faults + n > 2 THEN 2 ELSE wire.faults + n

\* tryComposite: what follows a round trip that ended in err, n failures
\* later.
Settle(err, n) ==
    LET w == [wire EXCEPT !.faults = Counted(n)]
        again == IF Api = "uapi" THEN callWithArgs(err, w.attempt) ELSE liveCall(err, w.attempt)
        over == IF Api = "uapi" THEN shouldFailover(err) ELSE liveShouldFailover(err)
    IN  wire' = CASE w.via = "https" /\ again -> [w EXCEPT !.pc = "pause"]
                  [] w.via = "https" /\ ~again /\ over /\ profile.ssh ->
                       [w EXCEPT !.pc = "enter", !.via = "ssh", !.attempt = 0]
                  [] OTHER -> [w EXCEPT !.pc = "over", !.err = classifyMutationError(err)]

\* The panel acts on the request, and its answer arrives.
Answered ==
    /\ WireAt("send") /\ ctx = "live"
    /\ panel' = Effect(wire.call)
    /\ \E e \in Reading(wire.call, wire.via, Verdict(wire.call)) :
          Settle(e, IF Verdict(wire.call) = "ok" THEN 0 ELSE 1)
    /\ UNCHANGED <<profile, ctx>>

Refused ==
    /\ WireAt("send") /\ ctx = "live"
    /\ \E a \in Declined(wire.call, wire.via) : \E e \in Reading(wire.call, wire.via, a) :
          Settle(e, 1)
    /\ UNCHANGED <<profile, panel, ctx>>

\* The answer is lost, or cannot be read: a request that changed the panel
\* is then sent again, or sent over the other leg.
Lost ==
    /\ WireAt("send") /\ ctx = "live"
    /\ panel' \in {panel, Effect(wire.call)}
    /\ \E a \in Inconclusive(wire.via) : \E e \in Reading(wire.call, wire.via, a) : Settle(e, 2)
    /\ UNCHANGED <<profile, ctx>>

\* ssh.Exec sent the request and hears nothing: the end of the context does
\* not make it return.  An HTTPS client has its timeout of 30 s.
Silence ==
    /\ WireAt("send") /\ ctx = "live" /\ wire.via # "https"
    /\ wire' = [wire EXCEPT !.pc = "silent"]
    /\ UNCHANGED <<profile, panel, ctx>>

\* The connection is lost at last; the request may have been carried out.
SilenceEnds ==
    /\ WireAt("silent")
    /\ panel' \in {panel, Effect(wire.call)}
    /\ \E e \in Reading(wire.call, wire.via, "none") : Settle(e, 2)
    /\ UNCHANGED <<profile, ctx>>

\* With the context over nothing is sent: client.Do and Pool.Acquire fail.
NotSent ==
    /\ WireAt("send") /\ ctx = "done"
    /\ \E e \in Reading(wire.call, wire.via, "none") : Settle(e, 2)
    /\ UNCHANGED <<profile, panel, ctx>>

\* Mutant: the pause does not count as an attempt.
Pause_SameAttempt ==
    /\ WireAt("pause")
    /\ wire' = [wire EXCEPT !.pc = "send"]
    /\ UNCHANGED <<profile, panel, ctx>>

\* sleepWithCtx of backoff(attempt), slept through.
Pause ==
    /\ WireAt("pause")
    /\ wire' = [wire EXCEPT !.pc = "send", !.attempt = @ + 1]
    /\ UNCHANGED <<profile, panel, ctx>>

\* sleepWithCtx cut short counts as an unreachable transport: the composite
\* tries SSH with the same, ended, context.
PauseCancelled ==
    /\ WireAt("pause") /\ ctx = "done"
    /\ wire' = IF profile.ssh
              THEN [wire EXCEPT !.pc = "enter", !.via = "ssh", !.attempt = 0, !.faults = 2]
              ELSE [wire EXCEPT !.pc = "over", !.err = "unavailable", !.faults = 2]
    /\ UNCHANGED <<profile, panel, ctx>>

CtxDone ==
    /\ ctx = "live"
    /\ ctx' = "done"
    /\ UNCHANGED <<profile, panel, wire>>

WireStep ==
    \/ Dispatch
    \/ EnterHTTPSMutator \/ EnterSSHMutator \/ EnterUapiReader \/ EnterLiveReader \/ EnterShell
    \/ Answered \/ Refused \/ Lost \/ Silence \/ NotSent \/ Pause \/ PauseCancelled
=============================================================================
