---------------------------- MODULE EngineProofs ----------------------------
(***************************************************************************)
(* What the engine may rely on after a restart: the configuration in force *)
(* was stored, and while writes of op/config come one at a time it is the  *)
(* stored one; with any number of writers the promise of ConfigStore is    *)
(* kept.  For every set of vaults, tokens, writers and requests.           *)
(***************************************************************************)
EXTENDS Engine, TLAPS

USE NamesAssumption, BoundsAssumption

\* Counting a fault keeps the bound.
LEMMA FaultsAreCounted ==
    ASSUME TypeOK, Fault
    PROVE  faults' \in 0 .. MaxFaults
  BY DEF TypeOK, Fault

\* The initial state is typed.
LEMMA InitTyped == Init => TypeOK
  <1> SUFFICES ASSUME Init PROVE TypeOK
    OBVIOUS
  <1>1. /\ [v \in Vaults |-> "cold"] \in [Vaults -> Freshness]
        /\ [w \in Writers |-> Idle] \in [Writers -> Writing \cup {Idle}]
        /\ [t \in Threads |-> Idle] \in [Threads -> Running \cup {Idle}]
    BY DEF Freshness
  <1>2. 0 \in 0 .. MaxFaults /\ 0 \in 0 .. MaxWrites
    OBVIOUS
  <1> QED
    BY <1>1, <1>2 DEF Init, TypeOK

\* A thread that is not idle is running, and keeps running when it moves.
LEMMA RunnersAreTyped ==
    ASSUME TypeOK, NEW t \in Threads, run[t].step # "idle"
    PROVE  /\ run[t] \in Running
           /\ Leave(t) => run' \in [Threads -> Running \cup {Idle}]
           /\ \A s \in {"client", "factory", "call"}, k \in Tokens \cup {None} :
                Move(t, s, k) => run' \in [Threads -> Running \cup {Idle}]
  <1>1. run \in [Threads -> Running \cup {Idle}]
    BY DEF TypeOK
  <1>2. run[t] \in Running
    BY <1>1 DEF Idle
  <1>3. ASSUME NEW s \in {"client", "factory", "call"}, NEW k \in Tokens \cup {None}
        PROVE  [run[t] EXCEPT !.step = s, !.token = k] \in Running
    BY <1>2, <1>3 DEF Running
  <1>4. Leave(t) => run' \in [Threads -> Running \cup {Idle}]
    BY <1>1 DEF Leave
  <1>5. ASSUME NEW s \in {"client", "factory", "call"}, NEW k \in Tokens \cup {None}, Move(t, s, k)
        PROVE  run' \in [Threads -> Running \cup {Idle}]
    <2>1. run' = [run EXCEPT ![t] = [run[t] EXCEPT !.step = s, !.token = k]]
      BY <1>1, <1>2, <1>5 DEF Move, Running
    <2> QED
      BY <1>1, <1>3, <2>1
  <1> QED
    BY <1>2, <1>4, <1>5

\* A config writer that is not idle carries a configuration.
LEMMA WritersAreTyped ==
    ASSUME TypeOK, NEW w \in Writers, write[w].step # "idle"
    PROVE  /\ write[w] \in Writing
           /\ [write EXCEPT ![w] = Idle] \in [Writers -> Writing \cup {Idle}]
           /\ [write EXCEPT ![w].step = "put"] \in [Writers -> Writing \cup {Idle}]
           /\ [write EXCEPT ![w].step = "swap"] \in [Writers -> Writing \cup {Idle}]
           /\ [write EXCEPT ![w].step = "reconfigure"] \in [Writers -> Writing \cup {Idle}]
  <1>1. write \in [Writers -> Writing \cup {Idle}]
    BY DEF TypeOK
  <1>2. write[w] \in Writing
    BY <1>1 DEF Idle
  <1>3. ASSUME NEW s \in {"put", "swap", "reconfigure"}
        PROVE  [write[w] EXCEPT !.step = s] \in Writing
    BY <1>2 DEF Writing
  <1> QED
    BY <1>1, <1>2, <1>3

\* Every step keeps the types.
LEMMA NextTyped == TypeOK /\ [Next]_vars => TypeOK'
  <1> SUFFICES ASSUME TypeOK, [Next]_vars PROVE TypeOK'
    OBVIOUS
  <1> USE DEF confVars, envVars, writerVars
  <1>1. ASSUME NEW tok \in Tokens, Revoke(tok) PROVE TypeOK'
    BY <1>1 DEF Revoke, TypeOK
  <1>2. ASSUME NEW v \in Vaults, Age(v) \/ Invalidate(v) PROVE TypeOK'
    BY <1>2 DEF Age, Invalidate, TypeOK, Freshness
  <1>3. ASSUME NEW t \in Threads, NEW work \in {"directory"} \X Configs \cup {"cycle"} \X Vaults,
               Job(t, work)
        PROVE  run' \in [Threads -> Running \cup {Idle}]
    <2>1. [step |-> "client", token |-> None, work |-> work] \in Running
      BY DEF Running
    <2> QED
      BY <1>3, <2>1 DEF Job, TypeOK
  <1>4. ASSUME NEW v \in Vaults, PeriodicCycle(v) PROVE TypeOK'
    BY <1>3, <1>4 DEF PeriodicCycle, TypeOK, Threads
  <1>5. CASE RefreshDirectory
    <2>1. config \in Configs
      BY <1>5 DEF RefreshDirectory, TypeOK
    <2> QED
      BY <1>3, <1>5, <2>1 DEF RefreshDirectory, TypeOK, Threads
  <1>6. ASSUME NEW t \in Requests, Trigger(t) PROVE TypeOK'
    <2>1. PICK v \in Vaults : Job(t, <<"cycle", v>>)
      BY <1>6 DEF Trigger, TypeOK
    <2> QED
      BY <1>3, <1>6, <2>1 DEF Trigger, TypeOK, Threads
  <1>7. ASSUME NEW w \in Writers, BeginWrite(w) PROVE TypeOK'
    <2>1. PICK c \in Configs : write' = [write EXCEPT ![w] = [step |-> "factory", cfg |-> c]]
      BY <1>7 DEF BeginWrite
    <2>2. [step |-> "factory", cfg |-> c] \in Writing
      BY DEF Writing
    <2> QED
      BY <1>7, <2>1, <2>2 DEF BeginWrite, TypeOK
  <1>8. ASSUME NEW w \in Writers, BuildClient(w) PROVE TypeOK'
    <2>1. faults' \in 0 .. MaxFaults
      BY <1>8, FaultsAreCounted DEF BuildClient, TypeOK
    <2>2. write' \in [Writers -> Writing \cup {Idle}]
      <3>1. write' = [write EXCEPT ![w].step = "put"] \/ write' = [write EXCEPT ![w] = Idle]
        BY <1>8 DEF BuildClient
      <3>2. write[w].step # "idle"
        BY <1>8 DEF BuildClient
      <3> QED
        BY <3>1, <3>2, WritersAreTyped, ZenonT(60)
    <2> QED
      BY <1>8, <2>1, <2>2 DEF BuildClient, TypeOK
  <1>9. ASSUME NEW w \in Writers, Put(w) PROVE TypeOK'
    <2>1. write[w].cfg \in Configs
      BY <1>9, WritersAreTyped DEF Put, Writing
    <2>2. faults' \in 0 .. MaxFaults
      BY <1>9, FaultsAreCounted DEF Put, TypeOK
    <2>3. write' \in [Writers -> Writing \cup {Idle}]
      <3>1. write' = [write EXCEPT ![w].step = "swap"] \/ write' = [write EXCEPT ![w] = Idle]
        BY <1>9 DEF Put, PutFailed
      <3>2. write[w].step # "idle"
        BY <1>9 DEF Put
      <3> QED
        BY <3>1, <3>2, WritersAreTyped, ZenonT(60)
    <2>4. stored' \in Configs \cup {None} /\ durable' \subseteq Configs
      <3>1. stored \in Configs \cup {None} /\ durable \subseteq Configs
        BY DEF TypeOK
      <3>2. \/ stored' = write[w].cfg /\ durable' = durable \cup {write[w].cfg}
            \/ UNCHANGED <<stored, durable>>
        BY <1>9 DEF Put
      <3> QED
        BY <2>1, <3>1, <3>2
    <2> QED
      BY <1>9, <2>2, <2>3, <2>4 DEF Put, TypeOK
  <1>10. ASSUME NEW w \in Writers, Swap(w) PROVE TypeOK'
    <2>1. write[w].cfg \in Configs /\ write[w].cfg.token \in Tokens
      BY <1>10, WritersAreTyped DEF Swap, Writing, Configs
    <2> QED
      BY <1>10, <2>1, WritersAreTyped DEF Swap, TypeOK
  <1>11. ASSUME NEW w \in Writers, Reconfigure(w) PROVE TypeOK'
    BY <1>11, WritersAreTyped DEF Reconfigure, TypeOK
  <1>12. ASSUME NEW t \in Threads, EnsureClient(t) PROVE TypeOK'
    <2>1. CASE client # None
      BY <1>12, <2>1, RunnersAreTyped DEF EnsureClient, TypeOK
    <2>2. CASE client = None /\ config # None
      <3>1. config.token \in Tokens
        BY <2>2 DEF TypeOK, Configs
      <3> QED
        BY <1>12, <2>2, <3>1, RunnersAreTyped DEF EnsureClient, TypeOK
    <2>3. CASE client = None /\ config = None
      BY <1>12, <2>3, RunnersAreTyped DEF EnsureClient, TypeOK
    <2> QED
      BY <2>1, <2>2, <2>3
  <1>13. ASSUME NEW t \in Threads, ClientBuilt(t) PROVE TypeOK'
    <2>1. run[t].token \in Tokens \cup {None}
      BY <1>13, RunnersAreTyped DEF ClientBuilt, Running
    <2> QED
      BY <1>13, <2>1, RunnersAreTyped DEF ClientBuilt, TypeOK
  <1>14. ASSUME NEW t \in Threads, ClientRefused(t) PROVE TypeOK'
    <2>1. faults' \in 0 .. MaxFaults /\ authFailed' \in BOOLEAN
      BY <1>14, FaultsAreCounted DEF ClientRefused, TypeOK
    <2>2. run' \in [Threads -> Running \cup {Idle}]
      BY <1>14, RunnersAreTyped DEF ClientRefused
    <2> QED
      BY <1>14, <2>1, <2>2 DEF ClientRefused, TypeOK
  <1>15. ASSUME NEW t \in Threads, ListVaults(t) PROVE TypeOK'
    <2>1. faults' \in 0 .. MaxFaults
      BY <1>15, FaultsAreCounted DEF ListVaults, TypeOK
    <2>2. run' \in [Threads -> Running \cup {Idle}]
      BY <1>15, RunnersAreTyped DEF ListVaults
    <2>3. allow' \in (SUBSET Vaults) \cup {None}
      BY <1>15 DEF ListVaults, Allowlist, TypeOK
    <2> QED
      BY <1>15, <2>1, <2>2, <2>3 DEF ListVaults, TypeOK
  <1>16. ASSUME NEW t \in Threads, Cycle(t) PROVE TypeOK'
    <2>1. faults' \in 0 .. MaxFaults /\ authFailed' \in BOOLEAN
      BY <1>16, FaultsAreCounted DEF Cycle, TypeOK
    <2>2. run' \in [Threads -> Running \cup {Idle}]
      BY <1>16, RunnersAreTyped DEF Cycle
    <2>3. fresh' \in [Vaults -> Freshness]
      BY <1>16 DEF Cycle, TypeOK, Freshness
    <2> QED
      BY <1>16, <2>1, <2>2, <2>3 DEF Cycle, TypeOK
  <1>17. CASE Restart
    <2>1. faults' \in 0 .. MaxFaults
      BY <1>17, FaultsAreCounted DEF Restart
    <2>2. /\ fresh' \in [Vaults -> Freshness]
          /\ write' \in [Writers -> Writing \cup {Idle}]
          /\ run' \in [Threads -> Running \cup {Idle}]
      BY <1>17 DEF Restart, Freshness
    <2> QED
      BY <1>17, <2>1, <2>2 DEF Restart, Load, TypeOK
  <1>18. CASE UNCHANGED vars
    BY <1>18 DEF vars, TypeOK
  <1> QED
    BY <1>1, <1>2, <1>4, <1>5, <1>6, <1>7, <1>8, <1>9, <1>10, <1>11, <1>12, <1>13, <1>14, <1>15,
       <1>16, <1>17, <1>18 DEF Next, WriterStep, Step

\* The engine's state stays well formed.
THEOREM EngineTyped == Spec => []TypeOK
  BY InitTyped, NextTyped, PTL DEF Spec

-----------------------------------------------------------------------------
\* Everything but a config write's own steps and a restart leaves the three
\* configurations and the writers alone.
ConfigUntouched == UNCHANGED <<stored, config, durable, unread, write>>

LEMMA OthersLeaveConfig ==
    [Next]_vars =>
        \/ ConfigUntouched
        \/ \E w \in Writers : BeginWrite(w) \/ BuildClient(w) \/ Put(w) \/ Swap(w) \/ Reconfigure(w)
        \/ Restart
  BY DEF Next, WriterStep, Step, vars, confVars, writerVars, envVars, ConfigUntouched, Revoke, Age,
         Invalidate, PeriodicCycle, RefreshDirectory, Trigger, EnsureClient, ClientBuilt,
         ClientRefused, ListVaults, Cycle

\* A configuration takes effect, and is loaded, only once it was stored.
LEMMA NextDurable == TypeOK /\ InForceIsDurable /\ [Next]_vars => InForceIsDurable'
  <1> SUFFICES ASSUME TypeOK, InForceIsDurable, [Next]_vars PROVE InForceIsDurable'
    OBVIOUS
  <1> USE DEF confVars
  <1>1. CASE ConfigUntouched
    BY <1>1 DEF ConfigUntouched, InForceIsDurable
  <1>2. ASSUME NEW w \in Writers, BeginWrite(w) PROVE InForceIsDurable'
    BY <1>2 DEF BeginWrite, InForceIsDurable, TypeOK
  <1>3. ASSUME NEW w \in Writers, BuildClient(w) PROVE InForceIsDurable'
    BY <1>3 DEF BuildClient, InForceIsDurable, TypeOK, Idle, Writing
  <1>4. ASSUME NEW w \in Writers, Put(w) PROVE InForceIsDurable'
    <2>1. durable \subseteq durable'
      BY <1>4 DEF Put
    <2>2. stored' = stored \/ stored' \in durable'
      BY <1>4 DEF Put
    <2>3. ASSUME NEW u \in Writers, write'[u].step \in {"swap", "reconfigure"}
          PROVE  write'[u].cfg \in durable'
      <3>1. CASE u # w
        BY <1>4, <2>1, <2>3, <3>1 DEF Put, PutFailed, InForceIsDurable, TypeOK
      <3>2. CASE u = w
        BY <1>4, <2>3, <3>2 DEF Put, PutFailed, TypeOK, Idle, Writing
      <3> QED
        BY <3>1, <3>2
    <2> QED
      BY <1>4, <2>1, <2>2, <2>3 DEF Put, InForceIsDurable
  <1>5. ASSUME NEW w \in Writers, Swap(w) PROVE InForceIsDurable'
    BY <1>5 DEF Swap, InForceIsDurable, TypeOK, Idle, Writing
  <1>6. ASSUME NEW w \in Writers, Reconfigure(w) PROVE InForceIsDurable'
    BY <1>6 DEF Reconfigure, InForceIsDurable, TypeOK, Idle
  <1>7. CASE Restart
    BY <1>7 DEF Restart, Load, InForceIsDurable, Idle
  <1> QED
    BY <1>1, <1>2, <1>3, <1>4, <1>5, <1>6, <1>7, OthersLeaveConfig

\* config.go applyConfig, backend.go loadPersistedConfig: no configuration is
\* in force that a restart could not have loaded.
THEOREM ConfigInForceIsDurable == Spec => []InForceIsDurable
  <1>1. Init => InForceIsDurable
    BY DEF Init, InForceIsDurable, Idle
  <1> QED
    BY <1>1, InitTyped, NextTyped, NextDurable, PTL DEF Spec

-----------------------------------------------------------------------------
\* Between a writer's Put and its Swap the stored configuration is the one it
\* is about to put in force.
SwapPending ==
    /\ \A w \in Writers : write[w].step = "swap" => write[w].cfg = stored
    /\ \/ config = IF unread THEN None ELSE stored
       \/ \E w \in Writers : write[w].step = "swap"

\* While there is at most one writer, the configuration in force is the stored
\* one or about to be.
LEMMA NextPending ==
    ASSUME \A a, b \in Writers : a = b, TypeOK, SwapPending, [Next]_vars
    PROVE  SwapPending'
  <1> USE DEF confVars
  <1>1. CASE ConfigUntouched
    BY <1>1 DEF ConfigUntouched, SwapPending
  <1>2. ASSUME NEW w \in Writers, BeginWrite(w) PROVE SwapPending'
    BY <1>2 DEF BeginWrite, SwapPending, TypeOK, Idle
  <1>3. ASSUME NEW w \in Writers, BuildClient(w) PROVE SwapPending'
    BY <1>3 DEF BuildClient, SwapPending, TypeOK, Idle, Writing
  <1>4. ASSUME NEW w \in Writers, Put(w) PROVE SwapPending'
    <2>1. write[w] \in Writing
      BY <1>4, WritersAreTyped DEF Put
    <2>2. CASE stored' = write[w].cfg /\ write' = [write EXCEPT ![w].step = "swap"]
      BY <2>1, <2>2 DEF SwapPending, TypeOK, Writing
    <2>3. CASE UNCHANGED <<stored, config>> /\ write' = [write EXCEPT ![w] = Idle]
      BY <1>4, <2>3 DEF Put, SwapPending, TypeOK, Idle
    <2> QED
      BY <1>4, <2>2, <2>3 DEF Put, PutFailed
  <1>5. ASSUME NEW w \in Writers, Swap(w) PROVE SwapPending'
    BY <1>5 DEF Swap, SwapPending, TypeOK
  <1>6. ASSUME NEW w \in Writers, Reconfigure(w) PROVE SwapPending'
    BY <1>6 DEF Reconfigure, SwapPending, TypeOK, Idle
  <1>7. CASE Restart
    BY <1>7 DEF Restart, Load, SwapPending, Idle
  <1> QED
    BY <1>1, <1>2, <1>3, <1>4, <1>5, <1>6, <1>7, OthersLeaveConfig

\* backend.go:44-46: with config writes one at a time, at rest the
\* configuration in force is the stored one, or none if the last start could
\* not read it.
THEOREM ConfigInForceIsStored ==
    ASSUME \A a, b \in Writers : a = b
    PROVE  Spec => []ConfigIsStored
  <1>1. Init => SwapPending
    BY DEF Init, SwapPending, Idle
  <1>2. TypeOK /\ SwapPending /\ [Next]_vars => SwapPending'
    BY NextPending
  <1>3. SwapPending => ConfigIsStored
    BY DEF SwapPending, ConfigIsStored, WritersIdle, Idle
  <1> QED
    BY <1>1, <1>2, <1>3, InitTyped, NextTyped, PTL DEF Spec

-----------------------------------------------------------------------------
\* The call of a writer in the middle of a write.
LEMMA CallIs ==
    ASSUME NEW me, me.step # "idle"
    PROVE  CallOf(me) = [phase |-> PhaseOf(me.step), cfg |-> me.cfg]
  BY DEF CallOf

\* A step of one writer moves its call and no other.
LEMMA OneCallMoves ==
    ASSUME TypeOK, NEW w \in Writers, NEW me, write' = [write EXCEPT ![w] = me]
    PROVE  Calls' = [Calls EXCEPT ![w] = CallOf(me)]
  BY DEF Calls, TypeOK

\* Every step of a config write, and every restart, is one that the promise
\* allows; all others show it nothing.
LEMMA WrittenAheadStep ==
    ASSUME TypeOK, [Next]_vars
    PROVE  WrittenAhead!Next \/ UNCHANGED WrittenAhead!vars
  <1> USE DEF confVars
  <1>0. /\ WrittenAhead!Out = [phase |-> "out"] /\ CallOf(Idle) = [phase |-> "out"]
        /\ \A w \in Writers : Calls[w] = CallOf(write[w])
    BY DEF WrittenAhead!Out, CallOf, Idle, Calls
  <1>a. ASSUME NEW w \in Writers, write[w].step # "idle"
        PROVE  /\ Calls[w] = [phase |-> PhaseOf(write[w].step), cfg |-> write[w].cfg]
               /\ Calls[w].phase = PhaseOf(write[w].step) /\ Calls[w].cfg = write[w].cfg
    <2>1. Calls[w] = [phase |-> PhaseOf(write[w].step), cfg |-> write[w].cfg]
      BY <1>0, <1>a, CallIs
    <2> QED
      BY <2>1
  <1>1. CASE ConfigUntouched
    BY <1>1 DEF ConfigUntouched, Calls, WrittenAhead!vars
  <1>2. ASSUME NEW w \in Writers, BeginWrite(w) PROVE WrittenAhead!Next
    <2>1. PICK c \in Configs : write' = [write EXCEPT ![w] = [step |-> "factory", cfg |-> c]]
      BY <1>2 DEF BeginWrite
    <2>2. CallOf([step |-> "factory", cfg |-> c]) = [phase |-> "asked", cfg |-> c]
      BY DEF CallOf, PhaseOf
    <2>3. Calls' = [Calls EXCEPT ![w] = [phase |-> "asked", cfg |-> c]]
      BY <2>1, <2>2, OneCallMoves
    <2>4. Calls[w] = WrittenAhead!Out /\ UNCHANGED <<stored, config>>
      BY <1>0, <1>2 DEF BeginWrite
    <2>5. WrittenAhead!Asks(w, c)
      BY <2>3, <2>4 DEF WrittenAhead!Asks
    <2> QED
      BY <2>5 DEF WrittenAhead!Next
  <1>3. ASSUME NEW w \in Writers, write[w].step \in {"factory", "put"}, UNCHANGED <<stored, config>>,
               write' = [write EXCEPT ![w] = Idle]
        PROVE  WrittenAhead!Next
    <2>1. Calls' = [Calls EXCEPT ![w] = WrittenAhead!Out]
      BY <1>0, <1>3, OneCallMoves
    <2>2. Calls[w].phase = "asked"
      <3>1. write[w].step # "idle" /\ PhaseOf(write[w].step) = "asked"
        BY <1>3 DEF PhaseOf
      <3> QED
        BY <1>a, <3>1
    <2>3. WrittenAhead!IsRefused(w)
      BY <1>3, <2>1, <2>2 DEF WrittenAhead!IsRefused, WrittenAhead!Returns, WrittenAhead!At
    <2> QED
      BY <2>3 DEF WrittenAhead!Next
  <1>4. ASSUME NEW w \in Writers, BuildClient(w) PROVE WrittenAhead!Next \/ UNCHANGED WrittenAhead!vars
    <2>1. write[w].step = "factory" /\ UNCHANGED <<stored, config>>
      BY <1>4 DEF BuildClient
    <2>2. CASE write' = [write EXCEPT ![w] = Idle]
      BY <1>3, <2>1, <2>2
    <2>3. CASE write' = [write EXCEPT ![w].step = "put"]
      <3>1. write[w] \in Writing
        BY <2>1, WritersAreTyped
      <3>2. CallOf([write[w] EXCEPT !.step = "put"]) = CallOf(write[w])
        BY <2>1, <3>1 DEF CallOf, PhaseOf, Writing
      <3>3. Calls' = [Calls EXCEPT ![w] = CallOf(write[w])]
        BY <2>3, <3>2, OneCallMoves
      <3>4. Calls' = Calls
        BY <3>3 DEF Calls
      <3> QED
        BY <2>1, <3>4 DEF WrittenAhead!vars
    <2> QED
      BY <1>4, <2>2, <2>3 DEF BuildClient
  <1>5. ASSUME NEW w \in Writers, NEW s \in {"swap", "reconfigure"}, write[w].step # "idle",
               write' = [write EXCEPT ![w].step = s]
        PROVE  Calls' = [Calls EXCEPT ![w].phase = IF s = "swap" THEN "kept" ELSE "effective"]
    <2>1. write[w] \in Writing
      BY <1>5, WritersAreTyped
    <2> DEFINE me == [write[w] EXCEPT !.step = s]
               phase == IF s = "swap" THEN "kept" ELSE "effective"
    <2>2. me = [step |-> s, cfg |-> write[w].cfg]
      BY <2>1 DEF Writing
    <2>3. CallOf(me) = [phase |-> phase, cfg |-> write[w].cfg]
      BY <2>2 DEF CallOf, PhaseOf
    <2>4. Calls[w] = [phase |-> PhaseOf(write[w].step), cfg |-> write[w].cfg]
      BY <1>a, <1>5
    <2>5. [Calls[w] EXCEPT !.phase = phase] = [phase |-> phase, cfg |-> write[w].cfg]
      BY <2>4
    <2>6. Calls' = [Calls EXCEPT ![w] = CallOf(me)]
      BY <1>5, OneCallMoves
    <2> HIDE DEF me, phase
    <2>7. Calls' = [Calls EXCEPT ![w].phase = phase]
      BY <2>3, <2>5, <2>6
    <2> QED
      BY <2>7 DEF phase
  <1>6. ASSUME NEW w \in Writers, Put(w) PROVE WrittenAhead!Next
    <2>1. CASE write' = [write EXCEPT ![w] = Idle] /\ UNCHANGED <<stored, durable>>
      BY <1>3, <1>6, <2>1 DEF Put
    <2>2. CASE stored' = write[w].cfg /\ write' = [write EXCEPT ![w].step = "swap"]
      <3>1. Calls' = [Calls EXCEPT ![w].phase = "kept"] /\ UNCHANGED config
        BY <1>5, <1>6, <2>2 DEF Put
      <3>2. Calls[w].phase = "asked" /\ Calls[w].cfg = write[w].cfg
        <4>1. write[w].step # "idle" /\ PhaseOf(write[w].step) = "asked"
          BY <1>6 DEF Put, PhaseOf
        <4> QED
          BY <1>a, <4>1
      <3>3. WrittenAhead!IsKept(w)
        BY <2>2, <3>1, <3>2 DEF WrittenAhead!IsKept, WrittenAhead!Moves, WrittenAhead!At
      <3> QED
        BY <3>3 DEF WrittenAhead!Next
    <2> QED
      BY <1>6, <2>1, <2>2 DEF Put, PutFailed
  <1>7. ASSUME NEW w \in Writers, Swap(w) PROVE WrittenAhead!Next
    <2>1. Calls' = [Calls EXCEPT ![w].phase = "effective"] /\ UNCHANGED stored /\ config' = write[w].cfg
      BY <1>5, <1>7 DEF Swap
    <2>2. Calls[w].phase = "kept" /\ Calls[w].cfg = write[w].cfg
      <3>1. write[w].step # "idle" /\ PhaseOf(write[w].step) = "kept"
        BY <1>7 DEF Swap, PhaseOf
      <3> QED
        BY <1>a, <3>1
    <2>3. WrittenAhead!TakesEffect(w)
      BY <2>1, <2>2 DEF WrittenAhead!TakesEffect, WrittenAhead!Moves, WrittenAhead!At
    <2> QED
      BY <2>3 DEF WrittenAhead!Next
  <1>8. ASSUME NEW w \in Writers, Reconfigure(w) PROVE WrittenAhead!Next
    <2>1. write' = [write EXCEPT ![w] = Idle] /\ UNCHANGED <<stored, config>>
      BY <1>8 DEF Reconfigure
    <2>2. Calls' = [Calls EXCEPT ![w] = WrittenAhead!Out]
      BY <1>0, <2>1, OneCallMoves
    <2>3. Calls[w].phase = "effective"
      <3>1. write[w].step # "idle" /\ PhaseOf(write[w].step) = "effective"
        BY <1>8 DEF Reconfigure, PhaseOf
      <3> QED
        BY <1>a, <3>1
    <2>4. WrittenAhead!Succeeds(w)
      BY <2>1, <2>2, <2>3 DEF WrittenAhead!Succeeds, WrittenAhead!Returns, WrittenAhead!At
    <2> QED
      BY <2>4 DEF WrittenAhead!Next
  <1>9. CASE Restart
    <2>1. config' \in {stored, None} /\ UNCHANGED stored /\ write' = [w \in Writers |-> Idle]
      BY <1>9 DEF Restart, Load
    <2>2. Calls' = [w \in Writers |-> WrittenAhead!Out]
      BY <1>0, <2>1 DEF Calls
    <2>3. WrittenAhead!Dies
      BY <2>1, <2>2 DEF WrittenAhead!Dies
    <2> QED
      BY <2>3 DEF WrittenAhead!Next
  <1> QED
    BY <1>1, <1>2, <1>4, <1>6, <1>7, <1>8, <1>9, OthersLeaveConfig

\* config.go applyConfig implements ConfigStore, for any number of concurrent
\* config writers and whatever else the engine is doing.
THEOREM ConfigIsWrittenAhead == Spec => ConfigWrites
  <1>1. Init => WrittenAhead!Init
    BY DEF Init, Calls, CallOf, Idle, WrittenAhead!Init, WrittenAhead!Out
  <1>2. TypeOK /\ [Next]_vars => [WrittenAhead!Next]_(WrittenAhead!vars)
    BY WrittenAheadStep
  <1> QED
    BY <1>1, <1>2, EngineTyped, PTL DEF Spec, ConfigWrites, WrittenAhead!Spec
=============================================================================
