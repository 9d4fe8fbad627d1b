---------------------------- MODULE StatusCache ----------------------------
(***************************************************************************)
(* status.Cache: stale-while-revalidate entries behind a singleflight      *)
(* group.  Callers run GetOrFetchMeta (GetOrFetch is the same without the  *)
(* second lookup); a stale hit starts a background goroutine; an operation *)
(* on the panel invalidates the prefixes of its event.  What is cached is  *)
(* the version of the remote status, so older and newer can be told apart. *)
(***************************************************************************)
EXTENDS Naturals, FiniteSets

CONSTANTS
    Key,         \* <<prefix, domain>> pairs
    Caller,      \* goroutines that call GetOrFetchMeta
    Background,  \* refreshBackground goroutines (bound: this many at once)
    NoKey, NoLeader,
    Happening,   \* the events that occur (a bound: some of Event)
    MaxVersion   \* bound on how often a remote status changes

Prefix == {"http:", "ssh:node:", "ssl:", "gh:lastDeploy:", "gh:steps:"}
Event == {"Restart", "Deploy", "RemoveSubdomain", "ChangeNodeVersion",
          "SetupSSL", "RenewSSL", "RemoveSSL"}

ASSUME CacheAssumption ==
    /\ \A k \in Key : k[1] \in Prefix
    /\ NoKey \notin Key /\ NoLeader \notin Caller \cup Background
    /\ Caller \cap Background = {}
    /\ Happening \subseteq Event
    /\ MaxVersion \in Nat \ {0}

Goroutine == Caller \cup Background
Version == 0..MaxVersion     \* 0: no value

VARIABLES
    world,    \* the version of the remote status of each key
    entries,  \* Cache.entries: val 0 is an absent entry
    group,    \* the singleflight group: the leader of the call of each key
    g,        \* the goroutines
    pending,  \* prefixes InvalidateEvent has still to remove
    seen      \* history: the last version each caller was given of each key

cacheVars == <<world, entries, group, g, pending, seen>>

NoEntry == [val |-> 0, fresh |-> FALSE]
Idle == [pc |-> "idle", key |-> NoKey, val |-> 0, stale |-> FALSE]

CacheInit ==
    /\ world = [k \in Key |-> 1]
    /\ entries = [k \in Key |-> NoEntry]
    /\ group = [k \in Key |-> NoLeader]
    /\ g = [x \in Goroutine |-> Idle]
    /\ pending = {}
    /\ seen = [c \in Caller |-> [k \in Key |-> 0]]
-----------------------------------------------------------------------------
At(x, pc) == g[x].pc = pc

\* Caller c is given val; 0 stands for an error.
Answer(c, val, stale) ==
    [g[c] EXCEPT !.pc = "got", !.val = val, !.stale = stale]

Saw(c, val) ==
    seen' = IF val = 0 THEN seen ELSE [seen EXCEPT ![c][g[c].key] = val]

Call(c, k) ==
    /\ g[c].pc \in {"idle", "got"}
    /\ g' = [g EXCEPT ![c] = [Idle EXCEPT !.pc = "lookup", !.key = k]]
    /\ UNCHANGED <<world, entries, group, pending, seen>>

\* lookup, under the read lock: a fresh hit, a stale hit or a miss.
LookupFresh(c) ==
    LET e == entries[g[c].key] IN
    /\ At(c, "lookup") /\ e.val # 0 /\ e.fresh
    /\ g' = [g EXCEPT ![c] = Answer(c, e.val, FALSE)]
    /\ Saw(c, e.val)
    /\ UNCHANGED <<world, entries, group, pending>>

\* Mutant: a stale hit starts no refresh.
LookupStale_NoRefresh(c, b) ==
    LET e == entries[g[c].key] IN
    /\ At(c, "lookup") /\ e.val # 0 /\ ~e.fresh
    /\ g' = [g EXCEPT ![c] = Answer(c, e.val, TRUE)]
    /\ Saw(c, e.val)
    /\ UNCHANGED <<world, entries, group, pending>>

\* refreshBackground: the value is returned, doFetch runs on its own.
LookupStale(c, b) ==
    LET e == entries[g[c].key] IN
    /\ At(c, "lookup") /\ e.val # 0 /\ ~e.fresh /\ At(b, "idle")
    /\ g' = [g EXCEPT ![c] = Answer(c, e.val, TRUE),
                      ![b] = [Idle EXCEPT !.pc = "do", !.key = g[c].key]]
    /\ Saw(c, e.val)
    /\ UNCHANGED <<world, entries, group, pending>>

LookupMiss(c) ==
    /\ At(c, "lookup") /\ entries[g[c].key].val = 0
    /\ g' = [g EXCEPT ![c].pc = "do"]
    /\ UNCHANGED <<world, entries, group, pending, seen>>

\* Mutant: no singleflight, everyone fetches.
Lead_Always(x) ==
    /\ At(x, "do")
    /\ g' = [g EXCEPT ![x].pc = "fetch"]
    /\ group' = [group EXCEPT ![g[x].key] = x]
    /\ UNCHANGED <<world, entries, pending, seen>>

\* singleflight.Group.Do: lead a new call of the key or join the one in
\* flight.
Lead(x) ==
    /\ At(x, "do") /\ group[g[x].key] = NoLeader
    /\ g' = [g EXCEPT ![x].pc = "fetch"]
    /\ group' = [group EXCEPT ![g[x].key] = x]
    /\ UNCHANGED <<world, entries, pending, seen>>

Join(x) ==
    /\ At(x, "do") /\ group[g[x].key] # NoLeader
    /\ g' = [g EXCEPT ![x].pc = "join"]
    /\ UNCHANGED <<world, entries, group, pending, seen>>
-----------------------------------------------------------------------------
(* The function doFetch gives to Do, run by the leader.                    *)

\* The remote reads its status; the reply is under way.
FetchRead(x) ==
    /\ At(x, "fetch")
    /\ g' = [g EXCEPT ![x].pc = "reply", ![x].val = world[g[x].key]]
    /\ UNCHANGED <<world, entries, group, pending, seen>>

\* An error, or the leader's context is done: nothing is stored.
FetchError(x) ==
    /\ g[x].pc \in {"fetch", "reply"}
    /\ g' = [g EXCEPT ![x].pc = "end", ![x].val = 0]
    /\ UNCHANGED <<world, entries, group, pending, seen>>

\* The entry is written under the lock, fresh from now on.
Store(x) ==
    /\ At(x, "reply")
    /\ entries' = [entries EXCEPT ![g[x].key] = [val |-> g[x].val, fresh |-> TRUE]]
    /\ g' = [g EXCEPT ![x].pc = "end"]
    /\ UNCHANGED <<world, group, pending, seen>>

\* What a goroutine goes on with when Do returns val; a background goroutine
\* drops it.
Resume(y, val) ==
    IF y \in Background THEN Idle
    ELSE IF val = 0 THEN Answer(y, 0, FALSE)
    ELSE [g[y] EXCEPT !.pc = "meta", !.val = val]

\* Do forgets the call and returns to the leader and everyone who joined.
Land(x) ==
    /\ At(x, "end")
    /\ group' = [group EXCEPT ![g[x].key] = NoLeader]
    /\ g' = [y \in Goroutine |->
               IF y = x \/ (At(y, "join") /\ g[y].key = g[x].key)
               THEN Resume(y, g[x].val) ELSE g[y]]
    /\ UNCHANGED <<world, entries, pending, seen>>

\* Mutant: a second lookup that finds the entry gone starts the call again.
Meta_Again(c) ==
    LET e == entries[g[c].key] IN
    /\ At(c, "meta")
    /\ g' = [g EXCEPT ![c] = IF e.val = 0 THEN [@ EXCEPT !.pc = "lookup"]
                             ELSE Answer(c, g[c].val, ~e.fresh)]
    /\ IF e.val = 0 THEN seen' = seen ELSE Saw(c, g[c].val)
    /\ UNCHANGED <<world, entries, group, pending>>

\* GetOrFetchMeta looks the entry up again for its metadata; when it has
\* been removed meanwhile the zero Metadata says "not stale".
Meta(c) ==
    LET e == entries[g[c].key] IN
    /\ At(c, "meta")
    /\ g' = [g EXCEPT ![c] = Answer(c, g[c].val, e.val # 0 /\ ~e.fresh)]
    /\ Saw(c, g[c].val)
    /\ UNCHANGED <<world, entries, group, pending>>
-----------------------------------------------------------------------------
(* Invalidation, time and the remote side.                                 *)
PrefixesForEvent(e) ==
    CASE e \in {"Restart", "RemoveSubdomain"} -> {"http:"}
      [] e = "Deploy" -> {"http:", "gh:lastDeploy:", "gh:steps:"}
      [] e = "ChangeNodeVersion" -> {"ssh:node:"}
      [] e \in {"SetupSSL", "RenewSSL", "RemoveSSL"} -> {"ssl:"}

InvalidateEvent(e) ==
    /\ pending = {}
    /\ pending' = PrefixesForEvent(e)
    /\ UNCHANGED <<world, entries, group, g, seen>>

\* One prefix at a time, each under the lock; calls in flight are not told.
Invalidate(p) ==
    /\ p \in pending
    /\ pending' = pending \ {p}
    /\ entries' = [k \in Key |-> IF k[1] = p THEN NoEntry ELSE entries[k]]
    /\ UNCHANGED <<world, group, g, seen>>

\* expiresAt passes.
Expire(k) ==
    /\ entries[k].val # 0 /\ entries[k].fresh
    /\ entries' = [entries EXCEPT ![k].fresh = FALSE]
    /\ UNCHANGED <<world, group, g, pending, seen>>

RemoteChange(k) ==
    /\ world[k] < MaxVersion
    /\ world' = [world EXCEPT ![k] = @ + 1]
    /\ UNCHANGED <<entries, group, g, pending, seen>>
-----------------------------------------------------------------------------
CallerStep(c) ==
    \/ LookupFresh(c) \/ LookupMiss(c) \/ Meta(c)
    \/ \E b \in Background : LookupStale(c, b)

DoStep(x) ==
    Lead(x) \/ Join(x) \/ FetchRead(x) \/ FetchError(x) \/ Store(x) \/ Land(x)

CacheNext ==
    \/ \E c \in Caller : CallerStep(c) \/ \E k \in Key : Call(c, k)
    \/ \E x \in Goroutine : DoStep(x)
    \/ \E k \in Key : Expire(k) \/ RemoteChange(k)
    \/ \E e \in Happening : InvalidateEvent(e)
    \/ \E p \in Prefix : Invalidate(p)

CacheSpec == CacheInit /\ [][CacheNext]_cacheVars

Fetching(x) == g[x].pc \in {"fetch", "reply"}

\* Goroutines that can run do.  A refresh's fetch ends, its context has 30 s.
\* A caller's need not: it runs under the caller's context, in the cockpit
\* m.ctx (tui/model.go:246), which has no deadline.  Callers get strong
\* fairness because of the bound on Background: in the program a stale hit
\* never waits for a goroutine to start.
FairCacheSpec ==
    /\ CacheSpec
    /\ \A c \in Caller :
          SF_cacheVars(CallerStep(c)) /\ WF_cacheVars(~Fetching(c) /\ DoStep(c))
    /\ \A b \in Background : WF_cacheVars(DoStep(b))
-----------------------------------------------------------------------------
(* Properties.                                                             *)

\* Entries, singleflight calls and goroutines stay in their types.
CacheTypeOK ==
    /\ world \in [Key -> Version]
    /\ entries \in [Key -> [val : Version, fresh : BOOLEAN]]
    /\ group \in [Key -> Goroutine \cup {NoLeader}]
    /\ g \in [Goroutine ->
                [pc : {"idle", "lookup", "do", "fetch", "reply", "end", "join",
                       "meta", "got"},
                 key : Key \cup {NoKey}, val : Version, stale : BOOLEAN]]
    /\ pending \subseteq Prefix
    /\ seen \in [Caller -> [Key -> Version]]

\* doFetch: a caller who polls a key never sees its status go back to an
\* older version, through expiry, failed fetches, shared calls and
\* invalidation alike.
MonotonicReads ==
    [][\A c \in Caller, k \in Key : seen'[c][k] >= seen[c][k]]_cacheVars

\* GetOrFetchMeta: a call returns, except while a caller's own fetch of the
\* key stays silent for ever: singleflight makes everyone wait for that one.
Silent(k) == \E c \in Caller : <>[](Fetching(c) /\ g[c].key = k)
Asking(c, k) == g[c].key = k /\ g[c].pc \notin {"idle", "got"}
CallReturns ==
    \A c \in Caller, k \in Key : (Asking(c, k) ~> At(c, "got")) \/ Silent(k)

\* refreshBackground: a key that callers keep finding stale is fetched again
\* and again.  (One stale hit alone may join a call that has already stored,
\* and so refresh nothing; and every refresh joins a caller's fetch of the key
\* that stays silent for ever.)
FoundStale(k) ==
    \E c \in Caller : At(c, "lookup") /\ g[c].key = k
                         /\ entries[k].val # 0 /\ ~entries[k].fresh
StaleRefreshed ==
    \A k \in Key : []<>FoundStale(k) =>
        []<>(\E x \in Goroutine : At(x, "fetch") /\ g[x].key = k) \/ Silent(k)
=============================================================================
