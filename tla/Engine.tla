------------------------------- MODULE Engine -------------------------------
(***************************************************************************)
(* The engine around the replicas: the configuration in storage and in     *)
(* force (config.go applyConfig, backend.go loadPersistedConfig), the      *)
(* 1Password client (ensureClient), the vault directory and allowlist      *)
(* (refreshVaultDirectory), the periodic function (coldStart, periodic),   *)
(* op/refresh and reads as triggers of cycles, op/invalidate, restarts.    *)
(*                                                                         *)
(* Each section under b.mu, each call of the client factory, of storage    *)
(* and of 1Password is one action.  A cycle (VaultReplica) is one answer   *)
(* here, and of the governor (Governor) only auth_failed is kept: the      *)
(* states that end by themselves appear as calls denied or failed at will, *)
(* a bounded number of times.                                              *)
(***************************************************************************)
EXTENDS Naturals, FiniteSets

CONSTANTS
    Vaults,         \* the vaults 1Password lists; each holds items
    Unlisted,       \* entries of `vaults' that match none of them
    Tokens,
    Writers,        \* concurrent writers of op/config
    Requests,       \* concurrent reads and op/refresh writes
    Timer,          \* the periodic function
    None,
    MaxWrites,      \* bound: config writes
    MaxFaults       \* bound: failed calls, denied cycles and restarts

ASSUME NamesAssumption ==
    Timer \notin Requests /\ None \notin Tokens /\ Unlisted \cap Vaults = {}
ASSUME BoundsAssumption == MaxWrites \in Nat /\ MaxFaults \in Nat

VARIABLES
    stored,         \* the op/config storage entry
    config,         \* Backend.config
    client,         \* Backend.client, by the token it was built from
    allow,          \* allowlistIDs; None while vaultDirectory is nil
    fresh,          \* each vault's replica, by its items and lastCycle
    authFailed,     \* the governor is in auth_failed
    revoked,        \* 1Password: tokens no longer accepted
    write,          \* what each config writer is doing
    run,            \* what each request and the timer are doing
    faults,
    writes,
    durable,        \* history: configurations that reached storage
    unread          \* history: the last start could not read storage, and no
                    \* configuration was put in force since

envVars == <<revoked, faults>>
confVars == <<stored, config, durable, unread>>
writerVars == <<write, writes>>
vars == <<confVars, client, allow, fresh, authFailed, envVars, writerVars, run>>

-----------------------------------------------------------------------------
Threads == Requests \cup {Timer}

Configs == [token : Tokens, vaults : SUBSET (Vaults \cup Unlisted)]

AllowlistUnchecked(c) == c.vaults

\* The allowlist a directory refresh publishes; the other entries are only
\* reported (unresolvedVaults).  Entries are IDs here.
Allowlist(c) == c.vaults \cap Vaults

\* A replica is cold while it has no items, cycled while its last cycle is
\* younger than refresh_interval, due from then on, and invalidated when
\* op/invalidate zeroed lastCycle over the items it holds.
Freshness == {"cold", "cycled", "due", "invalidated"}

Idle == [step |-> "idle"]

Writing == [step : {"factory", "put", "swap", "reconfigure"}, cfg : Configs]

\* A directory refresh carries the configuration it read first.
Running == [step : {"client", "factory", "call"},
            token : Tokens \cup {None},
            work : {"directory"} \X Configs \cup {"cycle"} \X Vaults]

Job(t, work) == run' = [run EXCEPT ![t] = [step |-> "client", token |-> None, work |-> work]]

Move(t, step, token) == run' = [run EXCEPT ![t].step = step, ![t].token = token]

Leave(t) == run' = [run EXCEPT ![t] = Idle]

Fault == faults < MaxFaults /\ faults' = faults + 1

-----------------------------------------------------------------------------
\* External: 1Password stops accepting a token; a replica's data ages.

Revoke(tok) ==
    /\ tok \notin revoked
    /\ revoked' = revoked \cup {tok}
    /\ UNCHANGED <<confVars, client, allow, fresh, authFailed, faults, writerVars, run>>

Age(v) ==
    /\ fresh[v] = "cycled"
    /\ fresh' = [fresh EXCEPT ![v] = "due"]
    /\ UNCHANGED <<confVars, client, allow, authFailed, envVars, writerVars, run>>

-----------------------------------------------------------------------------
\* op/config writes: applyConfig.

\* A configuration that validates; the client factory is called.
BeginWrite(w) ==
    /\ write[w] = Idle
    /\ writes < MaxWrites
    /\ writes' = writes + 1
    /\ \E c \in Configs : write' = [write EXCEPT ![w] = [step |-> "factory", cfg |-> c]]
    /\ UNCHANGED <<confVars, client, allow, fresh, authFailed, envVars, run>>

\* The factory's handshake.  It is not reported to the governor.
BuildClient(w) ==
    /\ write[w].step = "factory"
    /\ \/ /\ write[w].cfg.token \notin revoked
          /\ write' = [write EXCEPT ![w].step = "put"]
          /\ UNCHANGED faults
       \/ /\ write[w].cfg.token \in revoked
          /\ write' = [write EXCEPT ![w] = Idle]
          /\ UNCHANGED faults
       \/ /\ Fault
          /\ write' = [write EXCEPT ![w] = Idle]
    /\ UNCHANGED <<confVars, client, allow, fresh, authFailed, revoked, writes, run>>

PutFailedGoOn(w) == write' = [write EXCEPT ![w].step = "swap"]

\* A Put that fails ends the write.
PutFailed(w) == write' = [write EXCEPT ![w] = Idle]

Put(w) ==
    /\ write[w].step = "put"
    /\ \/ /\ stored' = write[w].cfg
          /\ durable' = durable \cup {write[w].cfg}
          /\ write' = [write EXCEPT ![w].step = "swap"]
          /\ UNCHANGED faults
       \/ /\ Fault
          /\ PutFailed(w)
          /\ UNCHANGED <<stored, durable>>
    /\ UNCHANGED <<config, unread, client, allow, fresh, authFailed, revoked, writes, run>>

\* The section under b.mu.  The vault directory is not rebuilt.
Swap(w) ==
    /\ write[w].step = "swap"
    /\ config' = write[w].cfg
    /\ unread' = FALSE
    /\ client' = write[w].cfg.token
    /\ write' = [write EXCEPT ![w].step = "reconfigure"]
    /\ UNCHANGED <<stored, durable, allow, fresh, authFailed, envVars, writes, run>>

\* gate.reconfigure, and the request is answered.
Reconfigure(w) ==
    /\ write[w].step = "reconfigure"
    /\ authFailed' = FALSE
    /\ write' = [write EXCEPT ![w] = Idle]
    /\ UNCHANGED <<confVars, client, allow, fresh, envVars, writes, run>>

-----------------------------------------------------------------------------
\* Directory refreshes and cycles.

\* coldStart: the directory has never been built.
RefreshDirectory ==
    /\ run[Timer] = Idle
    /\ config # None
    /\ allow = None
    /\ Job(Timer, <<"directory", config>>)
    /\ UNCHANGED <<confVars, client, allow, fresh, authFailed, envVars, writerVars>>

DueIgnored == {"cold"}

\* The vaults a tick cycles: coldStart takes those without items, periodic
\* those whose last cycle is refresh_interval old, and neither an invalidated
\* one, whose lastCycle is zero.
Due == {"cold", "due"}

PeriodicCycle(v) ==
    /\ run[Timer] = Idle
    /\ config # None
    /\ allow # None /\ v \in allow
    /\ fresh[v] \in Due
    /\ Job(Timer, <<"cycle", v>>)
    /\ UNCHANGED <<confVars, client, allow, fresh, authFailed, envVars, writerVars>>

\* A read outside its window, a miss, or op/refresh.
Trigger(t) ==
    /\ run[t] = Idle
    /\ config # None
    /\ allow # None
    /\ \E v \in allow : Job(t, <<"cycle", v>>)
    /\ UNCHANGED <<confVars, client, allow, fresh, authFailed, envVars, writerVars>>

\* op/invalidate.
Invalidate(v) ==
    /\ allow # None /\ v \in allow
    /\ fresh[v] \in {"cycled", "due"}
    /\ fresh' = [fresh EXCEPT ![v] = "invalidated"]
    /\ UNCHANGED <<confVars, client, allow, authFailed, envVars, writerVars, run>>

\* ensureClient, its first section and clientInitAllowed.
EnsureClient(t) ==
    /\ run[t].step = "client"
    /\ CASE client # None -> Move(t, "call", client)
         [] client = None /\ config # None /\ ~authFailed -> Move(t, "factory", config.token)
         [] OTHER -> Leave(t)
    /\ UNCHANGED <<confVars, client, allow, fresh, authFailed, envVars, writerVars>>

\* ensureClient, the factory's answer, recordClientInitResult and the section
\* that sets b.client, whatever was set meanwhile.
ClientBuilt(t) ==
    /\ run[t].step = "factory"
    /\ run[t].token \notin revoked
    /\ client' = run[t].token
    /\ Move(t, "call", run[t].token)
    /\ UNCHANGED <<confVars, allow, fresh, authFailed, envVars, writerVars>>

ClientRefused(t) ==
    /\ run[t].step = "factory"
    /\ \/ run[t].token \in revoked /\ authFailed' = TRUE /\ UNCHANGED faults
       \/ Fault /\ UNCHANGED authFailed
    /\ Leave(t)
    /\ UNCHANGED <<confVars, client, allow, fresh, revoked, writerVars>>

\* refreshVaultDirectory: ListVaults is not asked of the governor, and its
\* failure is not reported to it.
ListVaults(t) ==
    /\ run[t].step = "call"
    /\ run[t].work[1] = "directory"
    /\ \/ /\ run[t].token \notin revoked
          /\ allow' = Allowlist(run[t].work[2])
          /\ UNCHANGED faults
       \/ run[t].token \in revoked /\ UNCHANGED <<allow, faults>>
       \/ Fault /\ UNCHANGED allow
    /\ Leave(t)
    /\ UNCHANGED <<confVars, client, fresh, authFailed, revoked, writerVars>>

\* runCycle: denied in auth_failed, refused when the token is revoked, denied
\* by the rest of the governor or failed otherwise, or done.
Cycle(t) ==
    /\ run[t].step = "call"
    /\ run[t].work[1] = "cycle"
    /\ \/ authFailed /\ UNCHANGED <<fresh, authFailed, faults>>
       \/ /\ ~authFailed /\ run[t].token \in revoked
          /\ authFailed' = TRUE
          /\ UNCHANGED <<fresh, faults>>
       \/ Fault /\ UNCHANGED <<fresh, authFailed>>
       \/ /\ ~authFailed /\ run[t].token \notin revoked
          /\ fresh' = [fresh EXCEPT ![run[t].work[2]] = "cycled"]
          /\ UNCHANGED <<authFailed, faults>>
    /\ Leave(t)
    /\ UNCHANGED <<confVars, client, allow, revoked, writerVars>>

LoadNothing == None

\* initialize: loadPersistedConfig reads storage and nothing else.
Load == stored

\* The process dies between any two steps and is started again.  When storage
\* cannot be read the mount comes up without a configuration.
Restart ==
    /\ Fault
    /\ \/ config' = Load /\ unread' = FALSE
       \/ stored # None /\ config' = None /\ unread' = TRUE
    /\ client' = None
    /\ allow' = None
    /\ fresh' = [v \in Vaults |-> "cold"]
    /\ authFailed' = FALSE
    /\ write' = [w \in Writers |-> Idle]
    /\ run' = [t \in Threads |-> Idle]
    /\ UNCHANGED <<stored, durable, revoked, writes>>

-----------------------------------------------------------------------------
Init ==
    /\ stored = None
    /\ config = None
    /\ client = None
    /\ allow = None
    /\ fresh = [v \in Vaults |-> "cold"]
    /\ authFailed = FALSE
    /\ revoked = {}
    /\ write = [w \in Writers |-> Idle]
    /\ run = [t \in Threads |-> Idle]
    /\ faults = 0
    /\ writes = 0
    /\ durable = {}
    /\ unread = FALSE

WriterStep(w) == BuildClient(w) \/ Put(w) \/ Swap(w) \/ Reconfigure(w)

Step(t) == EnsureClient(t) \/ ClientBuilt(t) \/ ClientRefused(t) \/ ListVaults(t) \/ Cycle(t)

Next ==
    \/ \E tok \in Tokens : Revoke(tok)
    \/ \E v \in Vaults : Age(v) \/ Invalidate(v) \/ PeriodicCycle(v)
    \/ \E w \in Writers : BeginWrite(w) \/ WriterStep(w)
    \/ RefreshDirectory
    \/ \E t \in Requests : Trigger(t)
    \/ \E t \in Threads : Step(t)
    \/ Restart

Spec == Init /\ [][Next]_vars

\* Threads run and their calls return.  OpenBao calls the periodic function
\* about once a minute, and each call visits every allowlisted vault, so a
\* vault that is due again and again is not passed over for ever.
FairSpec ==
    /\ Spec
    /\ \A w \in Writers : WF_vars(WriterStep(w))
    /\ \A t \in Threads : WF_vars(Step(t))
    /\ WF_vars(RefreshDirectory)
    /\ \A v \in Vaults : SF_vars(PeriodicCycle(v))

-----------------------------------------------------------------------------
TypeOK ==
    /\ stored \in Configs \cup {None}
    /\ config \in Configs \cup {None}
    /\ client \in Tokens \cup {None}
    /\ allow \in (SUBSET Vaults) \cup {None}
    /\ fresh \in [Vaults -> Freshness]
    /\ authFailed \in BOOLEAN
    /\ revoked \subseteq Tokens
    /\ write \in [Writers -> Writing \cup {Idle}]
    /\ run \in [Threads -> Running \cup {Idle}]
    /\ faults \in 0 .. MaxFaults
    /\ writes \in 0 .. MaxWrites
    /\ durable \subseteq Configs
    /\ unread \in BOOLEAN

WritersIdle == \A w \in Writers : write[w] = Idle

\* config.go applyConfig stores a configuration before it takes effect, and a
\* failed Put changes nothing: what is in force, and what a restart at any
\* moment would load, was written durably.
InForceIsDurable ==
    /\ config # None => config \in durable
    /\ stored # None => stored \in durable
    /\ \A w \in Writers : write[w].step \in {"swap", "reconfigure"} => write[w].cfg \in durable

\* backend.go:44-46 "the live, validated configuration - the in-memory
\* counterpart of the `op/config' storage entry, refreshed on every successful
\* write": when no config write is running, the configuration in force is the
\* stored one, whatever failed or restarted on the way, and none at all when
\* the last start could not read it.  It holds while config writes come one at
\* a time.
ConfigIsStored == WritersIdle => config = IF unread THEN None ELSE stored

\* What ConfigStore sees of a config writer, and of all of them.
PhaseOf(step) ==
    IF step \in {"factory", "put"} THEN "asked" ELSE IF step = "swap" THEN "kept" ELSE "effective"

CallOf(me) ==
    IF me.step = "idle" THEN [phase |-> "out"] ELSE [phase |-> PhaseOf(me.step), cfg |-> me.cfg]

Calls == [w \in Writers |-> CallOf(write[w])]

WrittenAhead == INSTANCE ConfigStore WITH inForce <- config, call <- Calls

\* config.go applyConfig keeps the promise of ConfigStore to any number of
\* concurrent writers, through failures and restarts at any step: no
\* configuration takes effect before it is stored, a failed write changes
\* neither, and a restart goes on with what was stored last, or with nothing.
ConfigWrites == WrittenAhead!Spec

\* There is no usable token: no configuration, a revoked token, auth_failed, or
\* a client of another token (see ClientIsConfigured).
Unusable ==
    \/ config = None
    \/ authFailed
    \/ config.token \in revoked
    \/ client \notin {None, config.token}

\* backend.go initialize, periodic: after an outage or a restart the engine
\* recovers by itself.  Again and again the directory is built and every
\* allowlisted vault has been cycled within its interval, unless the token is
\* unusable.  An invalidated vault is excepted here (see
\* InvalidatedIsRefetched).
Recovers ==
    \A v \in Vaults :
        []<>(Unusable \/ (allow # None /\ (v \in allow => fresh[v] \in {"cycled", "invalidated"})))

-----------------------------------------------------------------------------
\* What the documents say and the code does not do.

\* README.md:134 "Rewriting it rotates the engine's 1Password client": once a
\* rewrite was answered, the client is the new token's.
ClientIsConfigured ==
    WritersIdle /\ config # None => client \in {None, config.token}

\* README.md:307-308 "the actual refetch cost lands on whatever read or
\* scheduled cycle touches that vault next": an invalidated vault is cycled
\* again without anybody reading it.
InvalidatedIsRefetched ==
    \A v \in Vaults : fresh[v] = "invalidated" ~> (fresh[v] # "invalidated" \/ Unusable)
=============================================================================
