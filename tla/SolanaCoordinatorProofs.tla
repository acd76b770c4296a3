---------------------- MODULE SolanaCoordinatorProofs -----------------------
(***************************************************************************)
(* The account on chain, for every number of clients, configuration and    *)
(* seed.  It keeps its types and the invariant of Coordinator: an          *)
(* instruction is a good step of CoordinatorOpsProofs followed by another  *)
(* one, tick, and the owner's updates touch a halted coordinator only.     *)
(* An epoch has the clients that joined for it, in the order of the        *)
(* registry, its rates are those of its warmup, and its end pays those who *)
(* finished it.                                                            *)
(***************************************************************************)
EXTENDS SolanaCoordinator, CoordinatorOpsProofs

\* A registry: a vector of clients, each listed once.
Registry(r) ==
    /\ r \in Seq(RegisteredClient)
    /\ Len(r) <= MaxClients
    /\ \A i, j \in DOMAIN r : r[i].id = r[j].id => i = j

\* The inductive invariant.
Inv ==
    /\ TypeOK
    /\ Registry(clients)
    /\ CoordinatorInv(coordinator)

\* The pending clients that tick() passes on are listed once.
LEMMA ActiveIdsArePending ==
    ASSUME NEW r, Registry(r), NEW active \in Nat
    PROVE  IsPending(ActiveIds(r, active))
<1> DEFINE K == {k \in DOMAIN r : r[k].active = active}
           s == Retain(r, K)
           ids == ActiveIds(r, active)
<1>1. r \in Seq(RegisteredClient) /\ K \in SUBSET (DOMAIN r)
  BY DEF Registry
<1> HIDE DEF K
<1>2. /\ s \in Seq(RegisteredClient) /\ Cardinality(K) \in Nat
      /\ Len(s) = Cardinality(K)
      /\ DOMAIN s = 1 .. Cardinality(K)
      /\ \A i \in 1 .. Cardinality(K) : Nth(K, i) \in K /\ s[i] = r[Nth(K, i)]
      /\ \A i, j \in 1 .. Cardinality(K) : Nth(K, i) = Nth(K, j) => i = j
  BY <1>1, RetainProperties
<1>3. ids = [i \in DOMAIN s |-> s[i].id]
  BY DEF ActiveIds, K
<1> HIDE DEF s, ids
<1>4. \A i \in DOMAIN s : s[i].id \in ClientIds
  <2>1. \A i \in DOMAIN s : s[i] \in RegisteredClient
    BY <1>2, ElementOfSeq
  <2> QED
    BY <2>1 DEF RegisteredClient
<1>5. ids \in Seq(ClientIds) /\ DOMAIN ids = DOMAIN s
  <2>1. ids \in [1 .. Cardinality(K) -> ClientIds]
    BY <1>2, <1>3, <1>4
  <2> QED
    BY <1>2, <2>1
<1>6. ASSUME NEW i \in DOMAIN ids, NEW j \in DOMAIN ids, ids[i] = ids[j]
      PROVE  i = j
  <2>1. r[Nth(K, i)].id = r[Nth(K, j)].id /\ Nth(K, i) \in DOMAIN r /\ Nth(K, j) \in DOMAIN r
    BY <1>1, <1>2, <1>3, <1>5, <1>6
  <2>2. Nth(K, i) = Nth(K, j)
    BY <2>1 DEF Registry
  <2> QED
    BY <1>2, <1>5, <2>2
<1> QED
  BY <1>5, <1>6 DEF IsPending, ids

\* The end of an epoch changes only what clients have earned or lost.
LEMMA SettleKeepsRegistry ==
    ASSUME NEW r, Registry(r), NEW c \in CoordinatorType, NEW rates \in EpochRates
    PROVE  Registry(Settle(r, c, rates))
<1> DEFINE s == Settle(r, c, rates)
           n == Len(c.clients)
<1>1. r \in Seq(RegisteredClient) /\ Len(r) \in Nat /\ DOMAIN r = 1 .. Len(r)
  BY LenProperties DEF Registry
<1>2. n \in Nat /\ DOMAIN c.clients = 1 .. n
  BY ClientOfList
<1>3. rates.earning \in Nat /\ rates.slashing \in Nat
  BY DEF EpochRates
<1>4. \A k \in DOMAIN r : r[k] \in RegisteredClient
  BY <1>1, ElementOfSeq
<1>5. n > 0 => rates.earning \div n \in Nat
  BY <1>2, <1>3
<1>6. DOMAIN s = DOMAIN r
  BY DEF Settle
<1>7. ASSUME NEW k \in DOMAIN r
      PROVE  s[k] \in RegisteredClient /\ s[k].id = r[k].id
  <2> DEFINE fin == Merge(r, c.clients)
             exi == Merge(r, c.exited_clients)
             earns == /\ fin[k] \in DOMAIN c.clients
                      /\ fin[k] # fin[k - 1]
                      /\ c.clients[fin[k]].state = "Healthy"
             loses == /\ exi[k] \in DOMAIN c.exited_clients
                      /\ exi[k] # exi[k - 1]
                      /\ c.exited_clients[exi[k]].state = "Ejected"
             x == IF earns THEN r[k].earned + rates.earning \div n ELSE r[k].earned
             y == IF loses THEN r[k].slashed + rates.slashing ELSE r[k].slashed
  <2>1. r[k] \in RegisteredClient /\ r[k].earned \in Nat /\ r[k].slashed \in Nat
    BY <1>4, <1>7 DEF RegisteredClient
  <2>2. earns => n > 0
    BY <1>2
  <2>3. s[k] = [r[k] EXCEPT !.earned = IF earns THEN @ + rates.earning \div n ELSE @,
                            !.slashed = IF loses THEN @ + rates.slashing ELSE @]
    BY <1>7 DEF Settle
  <2> HIDE DEF s, n, earns, loses
  <2>4. s[k] = [r[k] EXCEPT !.earned = x, !.slashed = y]
    BY <2>1, <2>3 DEF RegisteredClient
  <2>5. x \in Nat
    BY <1>5, <2>1, <2>2
  <2>6. y \in Nat
    BY <1>3, <2>1
  <2> HIDE DEF x, y
  <2>7. s[k] \in RegisteredClient
    BY <2>1, <2>4, <2>5, <2>6 DEF RegisteredClient
  <2> QED
    BY <2>1, <2>4, <2>7 DEF RegisteredClient
<1> HIDE DEF s, n
<1>8. s \in Seq(RegisteredClient) /\ Len(s) = Len(r)
  <2>1. s \in [1 .. Len(r) -> RegisteredClient]
    <3>1. s = [k \in DOMAIN r |-> s[k]]
      BY <1>6 DEF Settle, s
    <3> QED
      BY <1>1, <1>7, <3>1
  <2> QED
    BY <1>1, <2>1
<1> QED
  BY <1>6, <1>7, <1>8 DEF Registry, s

\* Who joined for the epoch with this number.
JoinedFor(registry, active) ==
    {registry[k].id : k \in {j \in DOMAIN registry : registry[j].active = active}}

\* The registry that join_run leaves.
LEMMA RegistryAfterJoin ==
    ASSUME Registry(clients), next_active \in Nat, NEW id \in ClientIds,
           id \in Registered \/ CanPush(clients, MaxClients)
    PROVE  LET new == [id |-> id, earned |-> 0, slashed |-> 0, active |-> next_active]
               registry == IF id \in Registered THEN Rejoin(clients, id, next_active)
                                                ELSE Append(clients, new)
           IN  /\ Registry(registry) /\ Within(clients, registry)
               /\ (\A k \in DOMAIN clients : clients[k].active <= next_active) =>
                    \A k \in DOMAIN registry : registry[k].active <= next_active
               /\ JoinedFor(registry, next_active)
                    = JoinedFor(clients, next_active) \cup {id}
               /\ \A k \in DOMAIN clients :
                     /\ k \in DOMAIN registry /\ registry[k].id = clients[k].id
                     /\ registry[k].earned = clients[k].earned
<1>0. clients \in Seq(RegisteredClient)
  BY DEF Registry
<1>1. Len(clients) \in Nat /\ DOMAIN clients = 1 .. Len(clients)
  BY <1>0, LenProperties
<1>2. \A k \in DOMAIN clients : clients[k] \in RegisteredClient
  BY <1>0, <1>1, ElementOfSeq
<1> DEFINE new == [id |-> id, earned |-> 0, slashed |-> 0, active |-> next_active]
<1>3. CASE id \in Registered
  <2> DEFINE s == Rejoin(clients, id, next_active)
  <2>1. DOMAIN s = DOMAIN clients
    BY DEF Rejoin
  <2>2. ASSUME NEW k \in DOMAIN clients
        PROVE  /\ s[k] \in RegisteredClient /\ s[k].id = clients[k].id
               /\ s[k].earned = clients[k].earned
               /\ s[k].active = IF clients[k].id = id THEN next_active ELSE clients[k].active
    <3>1. s[k] = IF clients[k].id = id THEN [clients[k] EXCEPT !.active = next_active]
                                       ELSE clients[k]
      BY <2>2 DEF Rejoin
    <3> HIDE DEF s
    <3> QED
      BY <1>2, <2>2, <3>1 DEF RegisteredClient
  <2>3. s = [k \in DOMAIN clients |-> s[k]]
    BY DEF Rejoin
  <2> HIDE DEF s
  <2>4. s \in Seq(RegisteredClient) /\ Len(s) = Len(clients)
    <3>1. s \in [1 .. Len(clients) -> RegisteredClient]
      BY <1>1, <2>2, <2>3
    <3> QED
      BY <1>1, <3>1
  <2>5. Registry(s)
    BY <2>1, <2>2, <2>4 DEF Registry
  <2>6. Within(clients, s)
    BY <2>1, <2>2, WithinPrefix
  <2>7. (\A k \in DOMAIN clients : clients[k].active <= next_active) =>
          \A k \in DOMAIN s : s[k].active <= next_active
    BY <2>1, <2>2
  <2>8. PICK m \in DOMAIN clients : clients[m].id = id
    BY <1>3 DEF Registered
  <2>9. JoinedFor(s, next_active) = JoinedFor(clients, next_active) \cup {id}
    BY <2>1, <2>2, <2>8 DEF JoinedFor
  <2>10. \A k \in DOMAIN clients : /\ k \in DOMAIN s /\ s[k].id = clients[k].id
                                    /\ s[k].earned = clients[k].earned
    BY <2>1, <2>2
  <2> QED
    BY <1>3, <2>5, <2>6, <2>7, <2>9, <2>10 DEF s
<1>4. CASE id \notin Registered
  <2> DEFINE s == Append(clients, new)
  <2>1. new \in RegisteredClient /\ new.id = id /\ new.active = next_active
    BY DEF RegisteredClient
  <2>2. Len(clients) < MaxClients
    BY <1>4 DEF CanPush
  <2> HIDE DEF new
  <2>3. /\ s \in Seq(RegisteredClient) /\ Len(s) = Len(clients) + 1
        /\ DOMAIN s = 1 .. Len(clients) + 1
        /\ \A k \in DOMAIN clients : s[k] = clients[k]
        /\ s[Len(clients) + 1] = new
    BY <1>0, <1>1, <2>1
  <2>4. \A k \in DOMAIN clients : clients[k].id # id
    BY <1>4 DEF Registered
  <2> HIDE DEF s
  <2>5. Len(s) <= MaxClients
    BY <1>1, <2>2, <2>3, SizesAssumption
  <2>6. /\ \A i \in DOMAIN s : i \in DOMAIN clients \/ i = Len(clients) + 1
        /\ DOMAIN clients \subseteq DOMAIN s /\ Len(clients) + 1 \in DOMAIN s
    BY <1>1, <2>3
  <2>7. \A i, j \in DOMAIN s : s[i].id = s[j].id => i = j
    BY <2>1, <2>3, <2>4, <2>6 DEF Registry
  <2>8. Registry(s)
    BY <2>3, <2>5, <2>7 DEF Registry
  <2>9. Within(clients, s)
    BY <2>3, <2>6, WithinPrefix
  <2>10. (\A k \in DOMAIN clients : clients[k].active <= next_active) =>
           \A k \in DOMAIN s : s[k].active <= next_active
    BY <2>1, <2>3, <2>6
  <2>11. JoinedFor(s, next_active) = JoinedFor(clients, next_active) \cup {id}
    <3>1. ASSUME NEW x \in JoinedFor(s, next_active)
          PROVE  x \in JoinedFor(clients, next_active) \cup {id}
      <4>1. PICK k \in DOMAIN s : s[k].active = next_active /\ x = s[k].id
        BY <3>1 DEF JoinedFor
      <4> QED
        BY <2>1, <2>3, <2>6, <4>1 DEF JoinedFor
    <3>2. ASSUME NEW x \in JoinedFor(clients, next_active) PROVE x \in JoinedFor(s, next_active)
      BY <2>3, <2>6, <3>2 DEF JoinedFor
    <3>3. id \in JoinedFor(s, next_active)
      BY <2>1, <2>3, <2>6 DEF JoinedFor
    <3> QED
      BY <3>1, <3>2, <3>3
  <2>12. \A k \in DOMAIN clients : /\ k \in DOMAIN s /\ s[k].id = clients[k].id
                                    /\ s[k].earned = clients[k].earned
    BY <2>3, <2>6
  <2> QED
    BY <1>4, <2>8, <2>9, <2>10, <2>11, <2>12 DEF s, new
<1> QED
  BY <1>3, <1>4

-----------------------------------------------------------------------------
(* The instructions. *)

LEMMA ZeroedInv == CoordinatorInv(ZeroedCoordinator)
<1> DEFINE g == CHOOSE g \in Configs : TRUE
           k == [kind |-> "Ephemeral", repo |-> CHOOSE r \in Repos : TRUE]
           c == FreshCoordinator(g, k, "Uninitialized")
           d == [c EXCEPT !.step = 0, !.first_round = FALSE]
<1>1. g \in Configs /\ k \in Checkpoint
  BY OwnerAssumption DEF Checkpoint
<1> HIDE DEF g, k
<1>2. CoordinatorInv(c) /\ c.run_state = "Uninitialized"
  BY <1>1, FreshInv DEF FreshCoordinator
<1>3. c \in CoordinatorType
  BY <1>2 DEF CoordinatorInv
<1> HIDE DEF c
<1>4. d \in CoordinatorType
  BY <1>3 DEF CoordinatorType
<1>5. /\ d.run_state = c.run_state /\ d.pending_pause = c.pending_pause
      /\ d.clients = c.clients /\ d.exited_clients = c.exited_clients
      /\ d.rounds = c.rounds /\ d.rounds_head = c.rounds_head
  BY <1>3 DEF CoordinatorType
<1> HIDE DEF d
<1>6. CoordinatorInv(d)
  BY <1>2, <1>4, <1>5, HaltedUpdateInv DEF Halted
<1>7. ZeroedCoordinator = d
  BY DEF ZeroedCoordinator, d, c, g, k
<1> QED
  BY <1>6, <1>7

\* What a step leaves, apart from open, configured and the ghost.
StepOK ==
    /\ CoordinatorInv(coordinator')
    /\ Registry(clients')
    /\ next_active' \in Nat
    /\ current_epoch_rates' \in EpochRates /\ future_epoch_rates' \in EpochRates
    /\ is_warmup_first_tick' \in BOOLEAN /\ is_training_first_tick' \in BOOLEAN

\* A method that leaves a good coordinator and a registry may be followed by tick.
LEMMA TickInstanceOK ==
    ASSUME Inv, NEW c, CoordinatorInv(c), NEW r, Registry(r),
           NEW active \in Nat, NEW seed \in Seeds,
           TickInstance(c, r, active, seed)
    PROVE  StepOK /\ UNCHANGED <<open, configured>>
<1> DEFINE t == Tick(c, ActiveIds(r, active), seed)
<1>1. CanTick(c) /\ coordinator' = t.st
  BY DEF TickInstance
<1>2. CoordinatorInv(t.st)
  BY <1>1, ActiveIdsArePending, TickGood DEF GoodStep
<1>3. t.st \in CoordinatorType
  BY <1>2 DEF CoordinatorInv
<1>4. clients' = r \/ clients' = Settle(r, t.st, current_epoch_rates)
  BY DEF TickInstance
<1>5. current_epoch_rates \in EpochRates /\ future_epoch_rates \in EpochRates
  BY DEF Inv, TypeOK
<1>6. current_epoch_rates' \in EpochRates /\ future_epoch_rates' \in EpochRates
  BY <1>5 DEF TickInstance
<1>7. next_active' \in Nat
  <2>1. next_active' = active \/ next_active' = active + 1
    BY DEF TickInstance
  <2> QED
    BY <2>1
<1>8. is_warmup_first_tick' \in BOOLEAN /\ is_training_first_tick' \in BOOLEAN
  BY Zenon DEF TickInstance
<1>9. UNCHANGED <<open, configured>>
  BY DEF TickInstance
<1> HIDE DEF t
<1>10. Registry(clients')
  BY <1>3, <1>4, <1>5, SettleKeepsRegistry
<1> QED
  BY <1>1, <1>2, <1>6, <1>7, <1>8, <1>9, <1>10 DEF StepOK

\* Nothing but the coordinator changes, and it stays good.
LEMMA CoordinatorOnlyOK ==
    ASSUME Inv, CoordinatorInv(coordinator'),
           UNCHANGED <<clients, next_active, ratesVars, flags>>
    PROVE  StepOK
  BY DEF Inv, TypeOK, StepOK, ratesVars, flags

LEMMA OwnerStepOK ==
    ASSUME Inv,
           UpdateConfig \/ UpdateModel \/ UpdateProgress \/ SetFutureEpochRates
             \/ SetPaused \/ SetUnpaused \/ TimeStep
    PROVE  StepOK
<1>0. /\ CoordinatorInv(coordinator) /\ coordinator \in CoordinatorType
      /\ Registry(clients) /\ next_active \in Nat
  BY DEF Inv, TypeOK
<1>1. CASE UpdateConfig
  <2>1. PICK g \in Configs : coordinator' = [coordinator EXCEPT !.config = g]
    BY <1>1 DEF UpdateConfig
  <2>2. Halted(coordinator) /\ UNCHANGED <<clients, next_active, ratesVars, flags>>
    BY <1>1 DEF UpdateConfig, CanUpdate
  <2>3. coordinator' \in CoordinatorType
    BY <1>0, <2>1 DEF CoordinatorType
  <2>4. CoordinatorInv(coordinator')
    BY <1>0, <2>1, <2>2, <2>3, HaltedUpdateInv DEF CoordinatorType, Halted
  <2> QED
    BY <2>2, <2>4, CoordinatorOnlyOK
<1>2. CASE UpdateModel
  <2>1. PICK k \in UpdateCheckpoints :
           coordinator' = [coordinator EXCEPT !.checkpoint = k]
    BY <1>2 DEF UpdateModel
  <2>2. Halted(coordinator) /\ UNCHANGED <<clients, next_active, ratesVars, flags>>
    BY <1>2 DEF UpdateModel, CanUpdate
  <2>3. k \in Checkpoint
    BY OwnerAssumption
  <2>4. coordinator' \in CoordinatorType
    BY <1>0, <2>1, <2>3 DEF CoordinatorType
  <2>5. CoordinatorInv(coordinator')
    BY <1>0, <2>1, <2>2, <2>4, HaltedUpdateInv DEF CoordinatorType, Halted
  <2> QED
    BY <2>2, <2>5, CoordinatorOnlyOK
<1>3. CASE UpdateProgress
  <2>1. PICK p \in Progresses :
           coordinator' = [coordinator EXCEPT
                             !.epoch = p.epoch, !.step = p.step,
                             !.epoch_start_data_index = p.epoch_start_data_index]
    BY <1>3 DEF UpdateProgress
  <2>2. Halted(coordinator) /\ UNCHANGED <<clients, next_active, ratesVars, flags>>
    BY <1>3 DEF UpdateProgress, CanUpdate
  <2>3. p.epoch \in Nat /\ p.step \in Nat /\ p.epoch_start_data_index \in Nat
    BY OwnerAssumption
  <2>4. coordinator' \in CoordinatorType
    BY <1>0, <2>1, <2>3 DEF CoordinatorType
  <2>5. CoordinatorInv(coordinator')
    BY <1>0, <2>1, <2>2, <2>4, HaltedUpdateInv DEF CoordinatorType, Halted
  <2> QED
    BY <2>2, <2>5, CoordinatorOnlyOK
<1>4. CASE SetFutureEpochRates
  <2>0. future_epoch_rates \in EpochRates
    BY DEF Inv, TypeOK
  <2>1. PICK e \in EarningRates \cup {future_epoch_rates.earning},
             s \in SlashingRates \cup {future_epoch_rates.slashing} :
           future_epoch_rates' = [earning |-> e, slashing |-> s]
    BY <1>4 DEF SetFutureEpochRates
  <2>2. future_epoch_rates' \in EpochRates
    BY <2>0, <2>1, OwnerAssumption DEF EpochRates
  <2> QED
    BY <1>0, <1>4, <2>2 DEF SetFutureEpochRates, StepOK, Inv, TypeOK, flags
<1>5. CASE SetPaused
  <2>1. CoordinatorInv(coordinator')
    BY <1>0, <1>5, PauseGood DEF SetPaused, GoodStep
  <2> QED
    BY <1>5, <2>1, CoordinatorOnlyOK DEF SetPaused
<1>6. CASE SetUnpaused
  <2> DEFINE c == ReadyToResume(coordinator)
  <2>1. PICK seed \in Seeds : TickInstance(Resume(c), clients, next_active + 1, seed)
    BY <1>6 DEF SetUnpaused
  <2>2. CanResume(c)
    BY <1>6 DEF SetUnpaused
  <2>3. CoordinatorInv(c)
    <3>1. CASE coordinator.run_state = "Uninitialized"
      <4>1. c = [coordinator EXCEPT !.run_state = "Paused", !.step = 1]
        BY <3>1 DEF ReadyToResume
      <4> HIDE DEF c
      <4>2. c \in CoordinatorType
        BY <1>0, <4>1 DEF CoordinatorType, RunStates
      <4> QED
        BY <1>0, <3>1, <4>1, <4>2, HaltedUpdateInv DEF CoordinatorType, Halted
    <3>2. CASE coordinator.run_state # "Uninitialized"
      BY <1>0, <3>2 DEF ReadyToResume
    <3> QED
      BY <3>1, <3>2
  <2> HIDE DEF c
  <2>4. CoordinatorInv(Resume(c))
    BY <2>2, <2>3, ResumeGood DEF GoodStep
  <2>5. next_active + 1 \in Nat
    BY <1>0
  <2> QED
    BY <1>0, <2>1, <2>4, <2>5, TickInstanceOK
<1>7. CASE TimeStep
  <2>1. CoordinatorInv(coordinator')
    BY <1>0, <1>7, TimePassesGood DEF TimeStep, GoodStep
  <2> QED
    BY <1>7, <2>1, CoordinatorOnlyOK DEF TimeStep
<1> QED
  BY <1>1, <1>2, <1>3, <1>4, <1>5, <1>6, <1>7

\* join_run keeps the registry: a client that is known is not listed again.
LEMMA JoinRunOK ==
    ASSUME Inv, JoinRun
    PROVE  StepOK
<1>0. /\ CoordinatorInv(coordinator) /\ Registry(clients) /\ next_active \in Nat
      /\ clients \in Seq(RegisteredClient)
  BY DEF Inv, TypeOK
<1>1. PICK id \in ClientIds, seed \in Seeds :
        LET known == id \in Registered
            new == [id |-> id, earned |-> 0, slashed |-> 0, active |-> next_active]
            registry == IF known THEN Rejoin(clients, id, next_active)
                                 ELSE Append(clients, new)
        IN  /\ known \/ CanPush(clients, MaxClients)
            /\ IF Halted(coordinator)
               THEN /\ clients' = registry
                    /\ UNCHANGED <<open, configured, coordinator, next_active,
                                   ratesVars, flags>>
               ELSE TickInstance(coordinator, registry, next_active, seed)
  BY DEF JoinRun
<1> DEFINE known == id \in Registered
           new == [id |-> id, earned |-> 0, slashed |-> 0, active |-> next_active]
           registry == IF known THEN Rejoin(clients, id, next_active)
                                ELSE Append(clients, new)
<1>2. Registry(registry)
  <2>1. id \in Registered \/ CanPush(clients, MaxClients)
    BY <1>1
  <2> QED
    BY <1>0, <2>1, RegistryAfterJoin
<1>3. CASE Halted(coordinator)
  <2>1. /\ clients' = registry
        /\ UNCHANGED <<coordinator, next_active, ratesVars, flags>>
    BY <1>1, <1>3
  <2> HIDE DEF registry
  <2> QED
    BY <1>2, <2>1 DEF StepOK, Inv, TypeOK, ratesVars, flags
<1>4. CASE ~Halted(coordinator)
  <2>1. TickInstance(coordinator, registry, next_active, seed)
    BY <1>1, <1>4
  <2> HIDE DEF registry
  <2> QED
    BY <1>0, <1>2, <2>1, TickInstanceOK
<1> QED
  BY <1>3, <1>4

\* What the method of an instruction leaves before tick: clients that were there,
\* the same epoch, and a run state that changes in an epoch only, or because the
\* first round starts.
MethodStep(e) ==
    /\ CoordinatorInv(e)
    /\ Within(e.clients, coordinator.clients)
    /\ \/ e.run_state = coordinator.run_state
       \/ Active(e) /\ Active(coordinator)
       \/ JustStarted(e) /\ coordinator.run_state = "Warmup"
    /\ e.run_state = "Cooldown" <=> coordinator.run_state = "Cooldown"
    /\ e.run_state = "Warmup" => e.clients = coordinator.clients
    /\ e.epoch = coordinator.epoch

\* The instructions that are a method followed by tick.  Only a checkpoint is also
\* recorded while the run is halted.
LEMMA ClientMethods ==
    ASSUME Inv,
           TickInstruction \/ WitnessInstruction \/ WarmupWitnessInstruction
             \/ HealthCheckInstruction \/ CheckpointInstruction
    PROVE  \/ \E e : \E seed \in Seeds :
                 /\ MethodStep(e) /\ TickInstance(e, clients, next_active, seed)
                 /\ Joins({})
           \/ /\ Halted(coordinator) /\ CoordinatorInv(coordinator')
              /\ UNCHANGED <<clients, next_active, ratesVars, flags, rejoined>>
              /\ coordinator'.clients = coordinator.clients
              /\ coordinator'.run_state = coordinator.run_state
<1>0. /\ CoordinatorInv(coordinator) /\ coordinator \in CoordinatorType
      /\ Registry(clients) /\ next_active \in Nat
  BY DEF Inv, TypeOK
<1>a. Within(coordinator.clients, coordinator.clients)
  BY WithinPrefix
<1>1. Registered \subseteq ClientIds
  <2>1. \A k \in DOMAIN clients : clients[k] \in RegisteredClient
    <3>1. clients \in Seq(RegisteredClient)
      BY <1>0 DEF Registry
    <3> QED
      BY <3>1, LenProperties, ElementOfSeq
  <2> QED
    BY <2>1 DEF Registered, RegisteredClient
<1>2. CASE TickInstruction
  <2>1. PICK seed \in Seeds : TickInstance(coordinator, clients, next_active, seed)
    BY <1>2 DEF TickInstruction
  <2>2. Joins({})
    BY <1>2 DEF TickInstruction
  <2>3. MethodStep(coordinator)
    BY <1>0, <1>a DEF MethodStep
  <2> QED
    BY <2>1, <2>2, <2>3
<1>3. CASE WitnessInstruction
  <2>1. PICK from \in Registered, index \in 0 .. MaxClients - 1,
             position \in 0 .. MaxClients - 1, bloom \in Blooms, seed \in Seeds :
           LET w == [from |-> from, index |-> index, position |-> position,
                     witness |-> TRUE, participants |-> bloom]
           IN  /\ CanWitness(coordinator, w)
               /\ TickInstance(WitnessEffect(coordinator, w), clients, next_active, seed)
               /\ Joins({})
    BY <1>3 DEF WitnessInstruction
  <2> DEFINE w == [from |-> from, index |-> index, position |-> position,
                   witness |-> TRUE, participants |-> bloom]
             e == WitnessEffect(coordinator, w)
             b == PushWitness(coordinator, w)
  <2>2. bloom \in SUBSET ClientIds /\ index \in Nat /\ position \in Nat
    BY OwnerAssumption
  <2>3. w \in Witness
    BY <1>1, <2>2 DEF Witness
  <2>4. CanWitness(coordinator, w) /\ TickInstance(e, clients, next_active, seed) /\ Joins({})
    BY <2>1
  <2> HIDE DEF w
  <2>5. CoordinatorInv(e)
    BY <1>0, <2>3, <2>4, WitnessGood DEF GoodStep
  <2>6. /\ b \in CoordinatorType /\ b.clients = coordinator.clients
        /\ b.run_state = coordinator.run_state /\ b.epoch = coordinator.epoch
    BY <1>0, <2>3, PushWitnessFacts, PushWitnessEpoch
  <2>7. e = b \/ e = ChangeState(b, "RoundWitness")
    BY DEF WitnessEffect
  <2> HIDE DEF b, e
  <2>8. Active(coordinator)
    BY <2>4 DEF CanWitness, Active
  <2>9. /\ e.clients = coordinator.clients /\ e.epoch = coordinator.epoch
        /\ e.run_state = coordinator.run_state \/ e.run_state = "RoundWitness"
    BY <2>6, <2>7 DEF ChangeState, CoordinatorType
  <2>10. Active(e) /\ e.run_state # "Warmup" /\ e.run_state # "Cooldown"
         /\ coordinator.run_state # "Cooldown"
    BY <2>4, <2>9 DEF CanWitness, Active
  <2>11. MethodStep(e)
    BY <1>a, <2>5, <2>8, <2>9, <2>10 DEF MethodStep
  <2> QED
    BY <2>4, <2>11
<1>4. CASE WarmupWitnessInstruction
  <2>1. PICK from \in Registered, index \in 0 .. MaxClients - 1, seed \in Seeds :
           LET w == [from |-> from, index |-> index, position |-> index,
                     witness |-> FALSE, participants |-> {}]
           IN  /\ CanWarmupWitness(coordinator, w)
               /\ TickInstance(WarmupWitness(coordinator, w, seed), clients,
                               next_active, seed)
               /\ Joins({})
    BY <1>4 DEF WarmupWitnessInstruction
  <2> DEFINE w == [from |-> from, index |-> index, position |-> index,
                   witness |-> FALSE, participants |-> {}]
             e == WarmupWitness(coordinator, w, seed)
             b == PushWitness(coordinator, w)
  <2>2. w \in Witness
    BY <1>1 DEF Witness
  <2>3. CanWarmupWitness(coordinator, w) /\ TickInstance(e, clients, next_active, seed) /\ Joins({})
    BY <2>1
  <2> HIDE DEF w
  <2>4. CoordinatorInv(e)
    BY <1>0, <2>2, <2>3, WarmupWitnessGood DEF GoodStep
  <2>5. /\ b \in CoordinatorType /\ b.clients = coordinator.clients
        /\ b.run_state = coordinator.run_state /\ b.first_round = coordinator.first_round
        /\ b.epoch = coordinator.epoch
    BY <1>0, <2>2, PushWitnessFacts, PushWitnessEpoch
  <2>6. CASE coordinator.run_state = "RoundTrain"
    <3>1. e = coordinator
      BY <2>6 DEF WarmupWitness
    <3>2. MethodStep(e)
      BY <1>0, <1>a, <3>1 DEF MethodStep
    <3> QED
      BY <2>3, <3>2
  <2>7. CASE coordinator.run_state # "RoundTrain"
    <3>1. coordinator.run_state = "Warmup" /\ coordinator.first_round
      BY <1>0, <2>3, <2>7 DEF CanWarmupWitness, CoordinatorInv, WarmupIsFresh
    <3>2. e = b \/ e = StartRoundTrain(b, seed)
      BY <2>7 DEF WarmupWitness
    <3> HIDE DEF b, e
    <3>3. /\ StartRoundTrain(b, seed).clients = b.clients
          /\ StartRoundTrain(b, seed).run_state = "RoundTrain"
          /\ StartRoundTrain(b, seed).first_round = b.first_round
          /\ StartRoundTrain(b, seed).age = 0 /\ StartRoundTrain(b, seed).epoch = b.epoch
      BY <2>5, StartsKeepClients
    <3>4. /\ e.clients = coordinator.clients /\ e.epoch = coordinator.epoch
          /\ e.run_state = coordinator.run_state \/ JustStarted(e)
      BY <2>5, <3>1, <3>2, <3>3 DEF JustStarted
    <3>5. MethodStep(e)
      BY <1>a, <2>4, <3>1, <3>4 DEF MethodStep, JustStarted
    <3> QED
      BY <2>3, <3>5
  <2> QED
    BY <2>6, <2>7
<1>5. CASE HealthCheckInstruction
  <2>1. PICK id \in ClientIds, index \in 0 .. MaxClients - 1,
             position \in 0 .. MaxClients - 1, seed \in Seeds :
           /\ CurrentRound(coordinator).height >= 2
           /\ TickInstance(HealthCheck(coordinator,
                              {[id |-> id, index |-> index, position |-> position]}),
                           clients, next_active, seed)
    BY <1>5 DEF HealthCheckInstruction, CanHealthCheck
  <2> DEFINE checks == {[id |-> id, index |-> index, position |-> position]}
             e == HealthCheck(coordinator, checks)
  <2>2. SameClients(coordinator, e)
    BY <1>0, HealthCheckSameClients
  <2>3. CoordinatorInv(e)
    BY <1>0, <2>2, SameClientsInv
  <2>4. Within(e.clients, coordinator.clients) /\ e.run_state = coordinator.run_state
    BY <1>0, <2>2, SameClientsWithin
  <2>6. e.epoch = coordinator.epoch
    BY <1>0, <2>2 DEF SameClients, CoordinatorType
  <2>7. coordinator.run_state # "Warmup"
    BY <1>0, <2>1 DEF CoordinatorInv, WarmupIsFresh
  <2>5. TickInstance(e, clients, next_active, seed) /\ Joins({})
    BY <1>5, <2>1 DEF HealthCheckInstruction
  <2> HIDE DEF e
  <2>8. MethodStep(e)
    BY <2>3, <2>4, <2>6, <2>7 DEF MethodStep
  <2> QED
    BY <2>5, <2>8
<1>6. CASE CheckpointInstruction
  <2>1. PICK repo \in Repos, seed \in Seeds :
           IF Halted(coordinator)
           THEN /\ coordinator' = RecordCheckpoint(coordinator, repo)
                /\ UNCHANGED <<open, configured, clients, next_active, ratesVars,
                               flags>>
           ELSE TickInstance(RecordCheckpoint(coordinator, repo), clients,
                             next_active, seed)
    BY <1>6 DEF CheckpointInstruction
  <2> DEFINE e == RecordCheckpoint(coordinator, repo)
  <2>2. CoordinatorInv(e)
    BY <1>0, CheckpointGood DEF GoodStep
  <2>3. /\ e.clients = coordinator.clients /\ e.run_state = coordinator.run_state
        /\ e.epoch = coordinator.epoch
    BY <1>0 DEF RecordCheckpoint, CoordinatorType
  <2>4. Joins({})
    BY <1>6 DEF CheckpointInstruction
  <2>5. CASE Halted(coordinator)
    <3>1. coordinator' = e /\ UNCHANGED <<clients, next_active, ratesVars, flags>>
      BY <2>1, <2>5
    <3> HIDE DEF e
    <3>2. rejoined' = rejoined
      BY <2>4, <2>5 DEF Joins, Halted
    <3> QED
      BY <2>2, <2>3, <2>5, <3>1, <3>2
  <2>6. CASE ~Halted(coordinator)
    <3>1. TickInstance(e, clients, next_active, seed)
      BY <2>1, <2>6
    <3> HIDE DEF e
    <3>2. MethodStep(e)
      BY <1>a, <2>2, <2>3 DEF MethodStep
    <3> QED
      BY <2>4, <3>1, <3>2
  <2> QED
    BY <2>5, <2>6
<1> QED
  BY <1>2, <1>3, <1>4, <1>5, <1>6

LEMMA ClientStepOK ==
    ASSUME Inv,
           TickInstruction \/ WitnessInstruction \/ WarmupWitnessInstruction
             \/ HealthCheckInstruction \/ CheckpointInstruction
    PROVE  StepOK
<1>1. Registry(clients) /\ next_active \in Nat
  BY DEF Inv, TypeOK
<1>2. CASE \E e : \E seed \in Seeds :
              MethodStep(e) /\ TickInstance(e, clients, next_active, seed)
  BY <1>1, <1>2, TickInstanceOK DEF MethodStep
<1>3. CASE /\ CoordinatorInv(coordinator')
           /\ UNCHANGED <<clients, next_active, ratesVars, flags>>
  BY <1>3, CoordinatorOnlyOK
<1> QED
  BY <1>2, <1>3, ClientMethods

\* A zeroed account, as created or as left by free_coordinator.
LEMMA ZeroedOK ==
    ASSUME coordinator' = ZeroedCoordinator, clients' = <<>>, next_active' = 0,
           current_epoch_rates' = NoRates, future_epoch_rates' = NoRates,
           is_warmup_first_tick' = FALSE, is_training_first_tick' = FALSE
    PROVE  StepOK
<1>1. Registry(<<>>)
  BY SizesAssumption DEF Registry
<1>2. NoRates \in EpochRates
  BY DEF NoRates, EpochRates
<1> QED
  BY <1>1, <1>2, ZeroedInv DEF StepOK

LEMMA InitInv == Init => Inv
<1> SUFFICES ASSUME Init PROVE Inv
  OBVIOUS
<1>1. Registry(<<>>) /\ Len(<<>>) <= MaxClients /\ <<>> \in Seq(RegisteredClient)
  BY SizesAssumption DEF Registry
<1>2. NoRates \in EpochRates
  BY DEF NoRates, EpochRates
<1>3. CoordinatorInv(ZeroedCoordinator) /\ ZeroedCoordinator \in CoordinatorType
  BY ZeroedInv DEF CoordinatorInv
<1> QED
  BY <1>1, <1>2, <1>3 DEF Init, Inv, TypeOK

LEMMA NextInv == Inv /\ [Next]_vars => Inv'
<1> SUFFICES ASSUME Inv, [Next]_vars PROVE Inv'
  OBVIOUS
<1>1. CASE Next
  <2>1. StepOK
    <3>1. CASE InitCoordinator
      BY <3>1 DEF InitCoordinator, StepOK, Inv, TypeOK, ratesVars, flags
    <3>2. CASE FreeCoordinator
      BY <3>2, ZeroedOK DEF FreeCoordinator
    <3> QED
      BY <1>1, <3>1, <3>2, OwnerStepOK, JoinRunOK, ClientStepOK DEF Next
  <2>2. open' \in BOOLEAN /\ configured' \in BOOLEAN
    <3>0. \A c, r, active, seed :
             TickInstance(c, r, active, seed) => UNCHANGED <<open, configured>>
      BY DEF TickInstance
    <3>1. CASE InitCoordinator \/ FreeCoordinator \/ UpdateConfig
      BY <3>1 DEF InitCoordinator, FreeCoordinator, UpdateConfig, Inv, TypeOK
    <3>2. CASE \/ UpdateModel \/ UpdateProgress \/ SetFutureEpochRates \/ SetPaused
               \/ TimeStep
      BY <3>2 DEF UpdateModel, UpdateProgress, SetFutureEpochRates, SetPaused,
           TimeStep, Inv, TypeOK
    <3>3. CASE SetUnpaused \/ TickInstruction \/ JoinRun
      BY <3>0, <3>3 DEF SetUnpaused, TickInstruction, JoinRun, Inv, TypeOK
    <3>4. CASE \/ WitnessInstruction \/ WarmupWitnessInstruction
               \/ HealthCheckInstruction \/ CheckpointInstruction
      BY <3>0, <3>4 DEF WitnessInstruction, WarmupWitnessInstruction,
           HealthCheckInstruction, CheckpointInstruction, Inv, TypeOK
    <3> QED
      BY <1>1, <3>1, <3>2, <3>3, <3>4 DEF Next
  <2>3. rejoined' \in SUBSET ClientIds
    <3>1. rejoined \in SUBSET ClientIds
      BY DEF Inv, TypeOK
    <3>2. \A ids \in SUBSET ClientIds : Joins(ids) => rejoined' \in SUBSET ClientIds
      BY <3>1 DEF Joins
    <3>3. \/ UNCHANGED rejoined \/ rejoined' = {}
          \/ \E ids \in SUBSET ClientIds : Joins(ids)
      BY <1>1 DEF Next, InitCoordinator, FreeCoordinator, UpdateConfig, UpdateModel,
           UpdateProgress, SetFutureEpochRates, SetPaused, SetUnpaused,
           TickInstruction, JoinRun, WitnessInstruction, WarmupWitnessInstruction,
           HealthCheckInstruction, CheckpointInstruction, TimeStep
    <3> QED
      BY <3>1, <3>2, <3>3
  <2> QED
    BY <2>1, <2>2, <2>3 DEF StepOK, Inv, TypeOK, Registry, CoordinatorInv
<1>2. CASE UNCHANGED vars
  BY <1>2 DEF vars, ratesVars, flags, Inv, TypeOK, Registry, Registered
<1> QED
  BY <1>1, <1>2

\* The inductive invariant holds in every behaviour of the program.
THEOREM Invariance == Spec => []Inv
  BY InitInv, NextInv, PTL DEF Spec

\* The account keeps its types, and its vector of clients never overflows.
THEOREM TypeCorrect == Spec => []TypeOK
<1>1. Inv => TypeOK
  BY DEF Inv
<1> QED
  BY <1>1, Invariance, PTL

\* The coordinator on chain keeps the invariant of Coordinator, however ticks,
\* joins, pauses and updates of its configuration interleave.
THEOREM OnChainCorrect == Spec => []OnChainInvariant
<1>1. Inv => OnChainInvariant
  BY DEF Inv, OnChainInvariant
<1> QED
  BY <1>1, Invariance, PTL

-----------------------------------------------------------------------------
(* Joins.  The clients that joined for the next epoch are those whose entry in *)
(* the registry carries next_active; the counter moves when training starts.   *)

\* The inductive invariant of joins.  The flags matter: a warmup has taken its
\* rates over and has still to open the next round of joining, and an epoch that
\* trains has done both, so that the counter moves once per epoch.
JoinIInv ==
    /\ EpochInRegistryOrder
    /\ rejoined = JoinedFor(clients, next_active)
    /\ \A k \in DOMAIN clients : clients[k].active <= next_active
    /\ coordinator.run_state = "Warmup" =>
         /\ is_training_first_tick /\ ~is_warmup_first_tick
         /\ \A i \in DOMAIN coordinator.clients : coordinator.clients[i].id \in rejoined
    /\ Active(coordinator) => ~is_training_first_tick

\* What tick() needs of the coordinator and the registry that a method has left.
JoinReady(c, r, active) ==
    /\ Within(c.clients, r)
    /\ \A k \in DOMAIN r : r[k].active <= active
    /\ c.run_state = "Warmup" =>
         /\ is_training_first_tick /\ ~is_warmup_first_tick
         /\ \A i \in DOMAIN c.clients : c.clients[i].id \in JoinedFor(r, active)
    /\ Active(c) => ~is_training_first_tick \/ JustStarted(c)

\* Training starts in this instruction.
StartsTraining(c) ==
    /\ coordinator'.run_state = "RoundTrain"
    /\ c.run_state = "Warmup" \/ (Active(c) /\ is_training_first_tick)

\* A payment does not touch the order of the registry or its epochs.
LEMMA SettleKeepsJoins ==
    ASSUME NEW r, Registry(r), NEW c, NEW rates
    PROVE  LET s == Settle(r, c, rates)
           IN  /\ DOMAIN s = DOMAIN r
               /\ \A k \in DOMAIN r : s[k].id = r[k].id /\ s[k].active = r[k].active
<1>1. \A k \in DOMAIN r : r[k] \in RegisteredClient
  <2>1. r \in Seq(RegisteredClient)
    BY DEF Registry
  <2> QED
    BY <2>1, LenProperties, ElementOfSeq
<1>2. DOMAIN Settle(r, c, rates) = DOMAIN r
  BY DEF Settle
<1>3. ASSUME NEW k \in DOMAIN r
      PROVE  \E a, b : Settle(r, c, rates)[k] = [r[k] EXCEPT !.earned = a, !.slashed = b]
  <2> DEFINE fin == Merge(r, c.clients)
             exi == Merge(r, c.exited_clients)
             earns == /\ fin[k] \in DOMAIN c.clients
                      /\ fin[k] # fin[k - 1]
                      /\ c.clients[fin[k]].state = "Healthy"
             loses == /\ exi[k] \in DOMAIN c.exited_clients
                      /\ exi[k] # exi[k - 1]
                      /\ c.exited_clients[exi[k]].state = "Ejected"
             a == IF earns THEN r[k].earned + rates.earning \div Len(c.clients) ELSE r[k].earned
             b == IF loses THEN r[k].slashed + rates.slashing ELSE r[k].slashed
  <2>1. Settle(r, c, rates)[k]
          = [r[k] EXCEPT !.earned = IF earns THEN @ + rates.earning \div Len(c.clients) ELSE @,
                         !.slashed = IF loses THEN @ + rates.slashing ELSE @]
    BY <1>3 DEF Settle
  <2> HIDE DEF earns, loses
  <2>2. r[k] \in RegisteredClient
    BY <1>1, <1>3
  <2>3. Settle(r, c, rates)[k] = [r[k] EXCEPT !.earned = a, !.slashed = b]
    BY <2>1, <2>2 DEF RegisteredClient
  <2> QED
    BY <2>3
<1>4. ASSUME NEW k \in DOMAIN r
      PROVE  Settle(r, c, rates)[k].id = r[k].id /\ Settle(r, c, rates)[k].active = r[k].active
  <2>1. PICK a, b : Settle(r, c, rates)[k] = [r[k] EXCEPT !.earned = a, !.slashed = b]
    BY <1>3, <1>4
  <2>2. r[k] \in RegisteredClient
    BY <1>1, <1>4
  <2> QED
    BY <2>1, <2>2 DEF RegisteredClient
<1> QED
  BY <1>2, <1>4

\* The pending clients, in the order of the registry, that a new epoch admits.
LEMMA AdmittedWithin ==
    ASSUME NEW r, Registry(r), NEW active \in Nat
    PROVE  LET a == Admitted(ActiveIds(r, active))
               list == [i \in DOMAIN a |-> NewClient(a[i])]
           IN  /\ Within(list, r)
               /\ \A i \in DOMAIN list : list[i].id \in JoinedFor(r, active)
<1> DEFINE K == {k \in DOMAIN r : r[k].active = active}
           s == Retain(r, K)
           ids == ActiveIds(r, active)
           a == Admitted(ids)
           list == [i \in DOMAIN a |-> NewClient(a[i])]
<1>1. r \in Seq(RegisteredClient) /\ K \in SUBSET (DOMAIN r)
  BY DEF Registry
<1>2. \A k \in K : r[k].id \in JoinedFor(r, active)
  BY DEF JoinedFor
<1> HIDE DEF K
<1>3. /\ s \in Seq(RegisteredClient) /\ Cardinality(K) \in Nat
      /\ DOMAIN s = 1 .. Cardinality(K)
      /\ \A i \in 1 .. Cardinality(K) : Nth(K, i) \in K /\ s[i] = r[Nth(K, i)]
  BY <1>1, RetainProperties
<1>4. Within(s, r)
  BY <1>1, WithinRetained
<1>5. ids = [i \in DOMAIN s |-> s[i].id]
  BY DEF ActiveIds, K
<1>6. IsPending(ids)
  BY ActiveIdsArePending
<1> HIDE DEF s, ids
<1>7. /\ DOMAIN a \subseteq DOMAIN s
      /\ \A i \in DOMAIN a : a[i] = s[i].id
  <2> DEFINE n == IF Len(ids) <= MaxClients THEN Len(ids) ELSE MaxClients
  <2>1. ids \in Seq(ClientIds) /\ Len(ids) \in Nat /\ DOMAIN ids = 1 .. Len(ids)
        /\ MaxClients \in Nat /\ DOMAIN ids = DOMAIN s
    BY <1>5, <1>6, SizesAssumption, LenProperties DEF IsPending
  <2>2. n \in Nat /\ n <= Len(ids)
    BY <2>1
  <2>3. a = SubSeq(ids, 1, n)
    BY DEF Admitted
  <2> HIDE DEF n, a
  <2>4. DOMAIN a = 1 .. n /\ \A i \in 1 .. n : a[i] = ids[i]
    BY <2>1, <2>2, <2>3
  <2>5. 1 .. n \subseteq 1 .. Len(ids)
    BY <2>1, <2>2
  <2> QED
    BY <1>5, <2>1, <2>4, <2>5
<1> HIDE DEF a
<1>8. DOMAIN list = DOMAIN a /\ \A i \in DOMAIN a : list[i].id = a[i]
  BY DEF NewClient
<1> HIDE DEF list
<1>9. Within(list, s)
  BY <1>7, <1>8, WithinPrefix
<1>10. Within(list, r)
  BY <1>4, <1>9, WithinTransitive
<1>11. \A i \in DOMAIN list : list[i].id \in JoinedFor(r, active)
  BY <1>2, <1>3, <1>7, <1>8
<1> QED
  BY <1>10, <1>11 DEF list, a, ids

\* tick(): the epoch that it starts has the clients that joined for it, and the
\* counter moves exactly when training starts.
LEMMA TickInstanceJoins ==
    ASSUME Inv, NEW c, CoordinatorInv(c), NEW r, Registry(r),
           NEW active \in Nat, NEW seed \in Seeds,
           JoinReady(c, r, active),
           TickInstance(c, r, active, seed)
    PROVE  /\ EpochInRegistryOrder'
           /\ JoinedFor(clients', next_active')
                = IF StartsTraining(c) THEN {} ELSE JoinedFor(r, active)
           /\ \A k \in DOMAIN clients' : clients'[k].active <= next_active'
           /\ coordinator'.run_state = "Warmup" =>
                /\ is_training_first_tick' /\ ~is_warmup_first_tick'
                /\ \A i \in DOMAIN coordinator'.clients :
                      coordinator'.clients[i].id \in JoinedFor(r, active)
           /\ Active(coordinator') => ~is_training_first_tick'
           /\ current_epoch_rates' # current_epoch_rates =>
                /\ c.run_state = "WaitingForMembers" /\ c.age # 0
                /\ coordinator'.run_state = "Warmup"
<1> DEFINE pending == ActiveIds(r, active)
           t == Tick(c, pending, seed)
           d == t.st
           fw == FirstTick(c, is_warmup_first_tick)
           ft == FirstTick(c, is_training_first_tick)
           saves == t.result = "Ticked" /\ SavesRates(d, fw)
           ends == t.result = "Ticked" /\ ~saves /\ EndsJoining(d, ft)
<1>0. c \in CoordinatorType /\ CanTick(c)
  BY DEF CoordinatorInv, TickInstance
<1>1. /\ coordinator' = d
      /\ clients' = IF t.result = "Ticked" THEN r ELSE Settle(r, d, current_epoch_rates)
      /\ current_epoch_rates' = IF saves THEN future_epoch_rates ELSE current_epoch_rates
      /\ next_active' = IF ends THEN active + 1 ELSE active
      /\ is_warmup_first_tick' = (fw /\ ~saves)
      /\ is_training_first_tick' = (ft /\ ~ends)
  BY DEF TickInstance
<1>2. /\ fw <=> c.run_state = "WaitingForMembers" \/ is_warmup_first_tick
      /\ ft <=> c.run_state = "WaitingForMembers" \/ is_training_first_tick
  BY DEF FirstTick
<1>3. /\ saves <=> t.result = "Ticked" /\ d.first_round /\ d.run_state = "Warmup" /\ fw
      /\ ends <=> t.result = "Ticked" /\ ~saves /\ d.first_round /\ d.run_state = "RoundTrain" /\ ft
  BY DEF SavesRates, EndsJoining, WarmupJustStarting, TrainingJustStarting
<1>4. c.run_state \in {"WaitingForMembers", "Warmup", "RoundTrain", "RoundWitness", "Cooldown"}
  BY <1>0 DEF CanTick, Halted, CoordinatorType, RunStates
<1>5. /\ DOMAIN clients' = DOMAIN r
      /\ \A k \in DOMAIN r : clients'[k].id = r[k].id /\ clients'[k].active = r[k].active
  BY <1>1, SettleKeepsJoins
<1>6. /\ Within(c.clients, r)
      /\ \A k \in DOMAIN r : r[k].active <= active /\ r[k].active \in Nat
  <2>1. \A k \in DOMAIN r : r[k] \in RegisteredClient
    <3>1. r \in Seq(RegisteredClient)
      BY DEF Registry
    <3> QED
      BY <3>1, LenProperties, ElementOfSeq
  <2> QED
    BY <2>1 DEF JoinReady, RegisteredClient
<1>7. Within(r, clients')
  BY <1>5, WithinPrefix
<1> HIDE DEF saves, ends, fw, ft, d
<1>8. \A k \in DOMAIN clients' : clients'[k].active <= next_active'
  BY <1>1, <1>5, <1>6
<1>9. JoinedFor(clients', next_active') = IF ends THEN {} ELSE JoinedFor(r, active)
  <2>1. CASE ends
    <3>1. \A k \in DOMAIN clients' : clients'[k].active # active + 1
      BY <1>5, <1>6
    <3> QED
      BY <1>1, <2>1, <3>1 DEF JoinedFor
  <2>2. CASE ~ends
    BY <1>1, <1>5, <2>2 DEF JoinedFor
  <2> QED
    BY <2>1, <2>2
<1>10. CASE c.run_state = "WaitingForMembers"
  <2>1. t.result = "Ticked" /\ fw /\ ft
    BY <1>0, <1>2, <1>10, WaitingMoves
  <2>2. CASE d = c
    <3>1. ~saves /\ ~ends /\ ~StartsTraining(c)
      BY <1>1, <1>3, <1>10, <2>2 DEF StartsTraining
    <3>2. Within(d.clients, clients')
      BY <1>6, <1>7, <2>2, WithinTransitive
    <3> QED
      BY <1>1, <1>8, <1>9, <1>10, <2>2, <3>1, <3>2 DEF EpochInRegistryOrder, Within, Active
  <2>3. CASE /\ c.age # 0 /\ d.run_state = "Warmup" /\ d.first_round
             /\ d.clients = [i \in DOMAIN Admitted(pending) |-> NewClient(Admitted(pending)[i])]
    <3>1. saves /\ ~ends /\ ~StartsTraining(c)
      BY <1>1, <1>3, <2>1, <2>3 DEF StartsTraining
    <3>2. /\ Within(d.clients, r)
          /\ \A i \in DOMAIN d.clients : d.clients[i].id \in JoinedFor(r, active)
      BY <2>3, AdmittedWithin
    <3>3. Within(d.clients, clients')
      BY <1>7, <3>2, WithinTransitive
    <3> HIDE DEF pending
    <3>4. is_training_first_tick' /\ ~is_warmup_first_tick'
      BY <1>1, <2>1, <3>1
    <3> QED
      BY <1>1, <1>8, <1>9, <1>10, <2>3, <3>1, <3>2, <3>3, <3>4
         DEF EpochInRegistryOrder, Within, Active
  <2> QED
    BY <1>0, <1>10, <2>2, <2>3, WaitingMoves DEF d
<1>11. CASE c.run_state = "Warmup"
  <2>1. /\ Within(d.clients, c.clients)
        /\ \/ /\ t.result = "Ticked" /\ d.first_round
              /\ d.run_state \in {"Warmup", "RoundTrain"}
           \/ /\ t.result = "EpochAbandoned"
              /\ d.run_state \in {"WaitingForMembers", "Finished"}
    BY <1>11, WarmupMoves DEF d
  <2>2. ft /\ ~fw /\ \A i \in DOMAIN c.clients : c.clients[i].id \in JoinedFor(r, active)
    BY <1>2, <1>11 DEF JoinReady
  <2> HIDE DEF pending, t
  <2>3. ~saves /\ (ends <=> d.run_state = "RoundTrain") /\ (ends <=> StartsTraining(c))
    BY <1>1, <1>3, <1>11, <2>1, <2>2 DEF StartsTraining
  <2>4. Within(d.clients, clients')
    BY <1>6, <1>7, <2>1, WithinTransitive
  <2>5. \A i \in DOMAIN d.clients : d.clients[i].id \in JoinedFor(r, active)
    BY <2>1, <2>2, WithinMembers
  <2>6. Active(d) => ends
    BY <2>1, <2>3 DEF Active
  <2>7. /\ d.run_state = "Warmup" => is_training_first_tick' /\ ~is_warmup_first_tick'
        /\ Active(d) => ~is_training_first_tick'
    BY <1>1, <2>2, <2>3, <2>6
  <2>8. EpochInRegistryOrder'
    BY <1>1, <2>4 DEF EpochInRegistryOrder, Within
  <2>9. current_epoch_rates' = current_epoch_rates
    BY <1>1, <2>3
  <2> QED
    BY <1>1, <1>8, <1>9, <2>3, <2>5, <2>7, <2>8, <2>9
<1>12. CASE Active(c)
  <2>1. /\ Within(d.clients, c.clients) /\ d.run_state # "Warmup"
        /\ c.run_state = "RoundTrain" /\ c.age = 0 => d = c /\ t.result = "Ticked"
    BY <1>12, EpochMoves DEF d
  <2>2. /\ is_training_first_tick => JustStarted(c)
        /\ c.run_state # "WaitingForMembers" /\ c.run_state # "Warmup"
    BY <1>12 DEF JoinReady, Active
  <2> HIDE DEF pending, t
  <2>3. ~saves
    BY <1>3, <2>1
  <2>4. ends <=> StartsTraining(c)
    <3>1. CASE is_training_first_tick
      <4>1. JustStarted(c) /\ d = c /\ t.result = "Ticked"
        BY <2>1, <2>2, <3>1 DEF JustStarted
      <4>2. ends /\ StartsTraining(c)
        BY <1>1, <1>2, <1>3, <1>12, <2>3, <3>1, <4>1 DEF JustStarted, StartsTraining
      <4> QED
        BY <4>2
    <3>2. CASE ~is_training_first_tick
      BY <1>2, <1>3, <2>2, <3>2 DEF StartsTraining
    <3> QED
      BY <3>1, <3>2
  <2>5. Active(d) => ~is_training_first_tick'
    <3>1. CASE is_training_first_tick
      <4>1. JustStarted(c) /\ d = c
        BY <2>1, <2>2, <3>1 DEF JustStarted
      <4>2. ends
        BY <1>1, <1>12, <2>4, <3>1, <4>1 DEF JustStarted, StartsTraining
      <4> QED
        BY <1>1, <4>2
    <3>2. CASE ~is_training_first_tick
      BY <1>1, <1>2, <2>2, <3>2
    <3> QED
      BY <3>1, <3>2
  <2>6. Within(d.clients, clients')
    BY <1>6, <1>7, <2>1, WithinTransitive
  <2>7. EpochInRegistryOrder'
    BY <1>1, <2>6 DEF EpochInRegistryOrder, Within
  <2>8. current_epoch_rates' = current_epoch_rates
    BY <1>1, <2>3
  <2> QED
    BY <1>1, <1>8, <1>9, <2>1, <2>4, <2>5, <2>7, <2>8
<1> QED
  BY <1>4, <1>10, <1>11, <1>12 DEF Active

\* A method that leaves the coordinator e and the registry r is followed by tick.
\* Its clients are among those there were, and it changes the run state in an
\* epoch only, or starts the first round.
LEMMA MethodThenTick ==
    ASSUME Inv, JoinIInv, NEW e, CoordinatorInv(e), NEW r, Registry(r),
           NEW seed \in Seeds, NEW ids,
           Within(e.clients, coordinator.clients),
           \/ e.run_state = coordinator.run_state
           \/ Active(e) /\ Active(coordinator)
           \/ JustStarted(e) /\ coordinator.run_state = "Warmup",
           Within(clients, r),
           \A k \in DOMAIN r : r[k].active <= next_active,
           JoinedFor(r, next_active) = rejoined \cup ids,
           TickInstance(e, r, next_active, seed), Joins(ids)
    PROVE  /\ JoinIInv'
           /\ current_epoch_rates' # current_epoch_rates =>
                /\ e.run_state = "WaitingForMembers" /\ e.age # 0
                /\ coordinator'.run_state = "Warmup"
<1>0. next_active \in Nat
  BY DEF Inv, TypeOK
<1>1. Within(e.clients, r)
  <2>1. Within(coordinator.clients, clients)
    BY DEF JoinIInv, EpochInRegistryOrder, Within
  <2> QED
    BY <2>1, WithinTransitive
<1>2. /\ coordinator.run_state = "Warmup" =>
           /\ is_training_first_tick /\ ~is_warmup_first_tick
           /\ \A i \in DOMAIN coordinator.clients : coordinator.clients[i].id \in rejoined
      /\ Active(coordinator) => ~is_training_first_tick
  BY DEF JoinIInv
<1>3. e.run_state = "Warmup" => coordinator.run_state = "Warmup"
  BY DEF Active, JustStarted
<1>4. e.run_state = "Warmup" =>
        /\ is_training_first_tick /\ ~is_warmup_first_tick
        /\ \A i \in DOMAIN e.clients : e.clients[i].id \in JoinedFor(r, next_active)
  BY <1>2, <1>3, WithinMembers
<1>5. Active(e) => ~is_training_first_tick \/ JustStarted(e)
  BY <1>2 DEF Active
<1>6. JoinReady(e, r, next_active)
  BY <1>1, <1>4, <1>5 DEF JoinReady
<1>7. StartsTraining(e) <=> /\ coordinator.run_state = "Warmup"
                            /\ coordinator'.run_state = "RoundTrain"
  BY <1>2, <1>3 DEF StartsTraining, Active, JustStarted
<1>8. /\ EpochInRegistryOrder'
      /\ JoinedFor(clients', next_active')
           = IF StartsTraining(e) THEN {} ELSE JoinedFor(r, next_active)
      /\ \A k \in DOMAIN clients' : clients'[k].active <= next_active'
      /\ coordinator'.run_state = "Warmup" =>
           /\ is_training_first_tick' /\ ~is_warmup_first_tick'
           /\ \A i \in DOMAIN coordinator'.clients :
                 coordinator'.clients[i].id \in JoinedFor(r, next_active)
      /\ Active(coordinator') => ~is_training_first_tick'
      /\ current_epoch_rates' # current_epoch_rates =>
           /\ e.run_state = "WaitingForMembers" /\ e.age # 0
           /\ coordinator'.run_state = "Warmup"
  BY <1>0, <1>6, TickInstanceJoins
<1>9. rejoined' = IF StartsTraining(e) THEN {} ELSE JoinedFor(r, next_active)
  BY <1>7 DEF Joins
<1>10. coordinator'.run_state = "Warmup" => rejoined' = JoinedFor(r, next_active)
  BY <1>7, <1>9
<1>11. rejoined' = JoinedFor(clients, next_active)'
  BY <1>8, <1>9 DEF JoinedFor
<1>12. Active(coordinator)' => ~is_training_first_tick'
  BY <1>8 DEF Active
<1> QED
  BY <1>8, <1>10, <1>11, <1>12 DEF JoinIInv

\* A method of the coordinator, and nothing else, followed by tick.
LEMMA OnlyMethodThenTick ==
    ASSUME Inv, JoinIInv, NEW e, CoordinatorInv(e), NEW seed \in Seeds,
           Within(e.clients, coordinator.clients),
           \/ e.run_state = coordinator.run_state
           \/ Active(e) /\ Active(coordinator)
           \/ JustStarted(e) /\ coordinator.run_state = "Warmup",
           TickInstance(e, clients, next_active, seed), Joins({})
    PROVE  /\ JoinIInv'
           /\ current_epoch_rates' # current_epoch_rates =>
                /\ coordinator.run_state = "WaitingForMembers"
                /\ coordinator'.run_state = "Warmup"
<1>1. Registry(clients) /\ Within(clients, clients)
  BY WithinPrefix DEF Inv
<1>2. /\ \A k \in DOMAIN clients : clients[k].active <= next_active
      /\ JoinedFor(clients, next_active) = rejoined \cup {}
  BY DEF JoinIInv
<1>3. e.run_state = "WaitingForMembers" => coordinator.run_state = "WaitingForMembers"
  BY DEF Active, JustStarted
<1> QED
  BY <1>1, <1>2, <1>3, MethodThenTick

\* The coordinator alone changes, and stays in its state or halts.
LEMMA CoordinatorAloneJoins ==
    ASSUME JoinIInv, UNCHANGED <<clients, next_active, flags, rejoined>>,
           Within(coordinator'.clients, coordinator.clients),
           coordinator'.run_state = coordinator.run_state \/ coordinator'.run_state = "Paused"
    PROVE  JoinIInv'
<1>1. Within(coordinator'.clients, clients)
  <2>1. Within(coordinator.clients, clients)
    BY DEF JoinIInv, EpochInRegistryOrder, Within
  <2> QED
    BY <2>1, WithinTransitive
<1>2. EpochInRegistryOrder'
  BY <1>1 DEF EpochInRegistryOrder, Within
<1>3. /\ coordinator'.run_state = "Warmup" => coordinator.run_state = "Warmup"
      /\ Active(coordinator)' => Active(coordinator)
  BY DEF Active
<1>4. \A i \in DOMAIN coordinator'.clients :
         \E j \in DOMAIN coordinator.clients :
            coordinator.clients[j].id = coordinator'.clients[i].id
  BY WithinMembers
<1>5. rejoined' = JoinedFor(clients, next_active)'
  BY DEF JoinIInv, JoinedFor
<1> QED
  BY <1>2, <1>3, <1>4, <1>5 DEF JoinIInv, flags

LEMMA OwnerStepJoins ==
    ASSUME Inv, JoinIInv,
           UpdateConfig \/ UpdateModel \/ UpdateProgress \/ SetFutureEpochRates
             \/ SetPaused \/ TimeStep
    PROVE  JoinIInv' /\ UNCHANGED current_epoch_rates
<1>0. coordinator \in CoordinatorType
  BY DEF Inv, TypeOK
<1>1. UNCHANGED <<clients, next_active, flags, rejoined, current_epoch_rates>>
  BY DEF UpdateConfig, UpdateModel, UpdateProgress, SetFutureEpochRates, SetPaused,
     TimeStep, ratesVars
<1>2. CASE \/ UpdateConfig \/ UpdateModel \/ UpdateProgress \/ SetFutureEpochRates \/ TimeStep
  <2>1. /\ coordinator'.clients = coordinator.clients
        /\ coordinator'.run_state = coordinator.run_state
    BY <1>0, <1>2 DEF UpdateConfig, UpdateModel, UpdateProgress, SetFutureEpochRates,
       TimeStep, TimePasses, CoordinatorType
  <2>2. Within(coordinator'.clients, coordinator.clients)
    BY <2>1, WithinPrefix
  <2> QED
    BY <1>1, <2>1, <2>2, CoordinatorAloneJoins
<1>3. CASE SetPaused
  <2> DEFINE w == WithdrawAll(coordinator)
             p == [ChangeState(w, "Paused") EXCEPT !.cold_start_epoch = TRUE]
             q == [coordinator EXCEPT !.pending_pause = TRUE]
  <2>1. coordinator' = IF Active(coordinator) THEN q ELSE p
    BY <1>3 DEF SetPaused, Pause
  <2>2. SameClients(coordinator, w)
    BY <1>0, WithdrawAllSameClients
  <2>3. w \in CoordinatorType /\ Within(w.clients, coordinator.clients)
    BY <1>0, <2>2, SameClientsWithin DEF SameClients, CoordinatorType
  <2> HIDE DEF w
  <2>4. p.clients = w.clients /\ p.run_state = "Paused"
    BY <2>3 DEF ChangeState, CoordinatorType
  <2>5. q.clients = coordinator.clients /\ q.run_state = coordinator.run_state
    BY <1>0 DEF CoordinatorType
  <2>6. Within(coordinator.clients, coordinator.clients)
    BY WithinPrefix
  <2> HIDE DEF p, q
  <2>7. /\ Within(coordinator'.clients, coordinator.clients)
        /\ coordinator'.run_state = coordinator.run_state \/ coordinator'.run_state = "Paused"
    BY <2>1, <2>3, <2>4, <2>5, <2>6
  <2> QED
    BY <1>1, <2>7, CoordinatorAloneJoins
<1> QED
  BY <1>1, <1>2, <1>3

\* The coordinator that set_paused(false) passes to tick().
LEMMA Resumed ==
    ASSUME Inv, SetUnpaused
    PROVE  LET e == Resume(ReadyToResume(coordinator))
           IN  /\ CoordinatorInv(e)
               /\ e.clients = coordinator.clients /\ e.epoch = coordinator.epoch
               /\ e.run_state \in {"WaitingForMembers", "Finished"} /\ e.age = 0
               /\ coordinator.run_state \in {"Uninitialized", "Paused"}
<1>0. coordinator \in CoordinatorType /\ CoordinatorInv(coordinator)
  BY DEF Inv, TypeOK
<1> DEFINE c == ReadyToResume(coordinator)
           e == Resume(c)
<1>1. CanResume(c)
  BY DEF SetUnpaused
<1>2. /\ CoordinatorInv(c) /\ c.clients = coordinator.clients /\ c.epoch = coordinator.epoch
      /\ coordinator.run_state \in {"Uninitialized", "Paused"}
  <2>1. CASE coordinator.run_state = "Uninitialized"
    <3>1. c = [coordinator EXCEPT !.run_state = "Paused", !.step = 1]
      BY <2>1 DEF ReadyToResume
    <3> HIDE DEF c
    <3>2. c \in CoordinatorType
      BY <1>0, <3>1 DEF CoordinatorType, RunStates
    <3> QED
      BY <1>0, <2>1, <3>1, <3>2, HaltedUpdateInv DEF CoordinatorType, Halted
  <2>2. CASE coordinator.run_state # "Uninitialized"
    BY <1>0, <1>1, <2>2 DEF ReadyToResume, CanResume
  <2> QED
    BY <2>1, <2>2
<1> HIDE DEF c
<1>3. CoordinatorInv(e)
  BY <1>1, <1>2, ResumeGood DEF GoodStep
<1>4. c \in CoordinatorType
  BY <1>2 DEF CoordinatorInv
<1>5. /\ e.clients = c.clients /\ e.age = 0 /\ e.epoch = c.epoch
      /\ e.run_state \in {"WaitingForMembers", "Finished"}
  BY <1>4, StartsKeepClients DEF Resume
<1> QED
  BY <1>2, <1>3, <1>5 DEF c

\* Resuming opens a new round of joining, for which nobody has joined yet.
LEMMA SetUnpausedJoins ==
    ASSUME Inv, JoinIInv, SetUnpaused
    PROVE  JoinIInv' /\ UNCHANGED current_epoch_rates
<1>0. /\ coordinator \in CoordinatorType /\ CoordinatorInv(coordinator)
      /\ Registry(clients) /\ next_active \in Nat
  BY DEF Inv, TypeOK
<1> DEFINE e == Resume(ReadyToResume(coordinator))
<1>1. PICK seed \in Seeds : TickInstance(e, clients, next_active + 1, seed)
  BY DEF SetUnpaused
<1>2. rejoined' = {}
  BY DEF SetUnpaused
<1>4. CoordinatorInv(e)
  BY Resumed
<1>6. /\ e.clients = coordinator.clients /\ e.age = 0
      /\ e.run_state \in {"WaitingForMembers", "Finished"}
  BY Resumed
<1> HIDE DEF e
<1>7. next_active + 1 \in Nat
  BY <1>0
<1>8. \A k \in DOMAIN clients : clients[k].active \in Nat /\ clients[k].active <= next_active
  <2>1. \A k \in DOMAIN clients : clients[k] \in RegisteredClient
    <3>1. clients \in Seq(RegisteredClient)
      BY <1>0 DEF Registry
    <3> QED
      BY <3>1, LenProperties, ElementOfSeq
  <2> QED
    BY <2>1 DEF JoinIInv, RegisteredClient
<1>9. \A k \in DOMAIN clients : /\ clients[k].active <= next_active + 1
                                /\ clients[k].active # next_active + 1
  BY <1>0, <1>8
<1>10. JoinedFor(clients, next_active + 1) = {}
  BY <1>9 DEF JoinedFor
<1>11. Within(e.clients, clients)
  BY <1>6 DEF JoinIInv, EpochInRegistryOrder, Within
<1>12. JoinReady(e, clients, next_active + 1) /\ ~StartsTraining(e)
  BY <1>6, <1>9, <1>11 DEF JoinReady, StartsTraining, Active
<1>13. /\ EpochInRegistryOrder'
       /\ JoinedFor(clients', next_active') = {}
       /\ \A k \in DOMAIN clients' : clients'[k].active <= next_active'
       /\ coordinator'.run_state = "Warmup" =>
            /\ is_training_first_tick' /\ ~is_warmup_first_tick'
            /\ \A i \in DOMAIN coordinator'.clients :
                  coordinator'.clients[i].id \in {}
       /\ Active(coordinator') => ~is_training_first_tick'
       /\ current_epoch_rates' # current_epoch_rates => e.age # 0
  BY <1>0, <1>1, <1>4, <1>7, <1>10, <1>12, TickInstanceJoins
<1>14. rejoined' = JoinedFor(clients, next_active)'
  BY <1>2, <1>13 DEF JoinedFor
<1>15. Active(coordinator)' => ~is_training_first_tick'
  BY <1>13 DEF Active
<1> QED
  BY <1>2, <1>6, <1>13, <1>14, <1>15 DEF JoinIInv

\* join_run: whoever joins is active for the next epoch, known or not.
LEMMA JoinRunJoins ==
    ASSUME Inv, JoinIInv, JoinRun
    PROVE  /\ JoinIInv'
           /\ current_epoch_rates' # current_epoch_rates =>
                /\ coordinator.run_state = "WaitingForMembers"
                /\ coordinator'.run_state = "Warmup"
<1>0. /\ CoordinatorInv(coordinator) /\ Registry(clients) /\ next_active \in Nat
      /\ clients \in Seq(RegisteredClient) /\ coordinator \in CoordinatorType
  BY DEF Inv, TypeOK
<1>1. Len(clients) \in Nat /\ DOMAIN clients = 1 .. Len(clients)
  BY <1>0, LenProperties
<1>2. \A k \in DOMAIN clients : clients[k] \in RegisteredClient
  BY <1>0, <1>1, ElementOfSeq
<1>3. PICK id \in ClientIds, seed \in Seeds :
        LET known == id \in Registered
            new == [id |-> id, earned |-> 0, slashed |-> 0, active |-> next_active]
            registry == IF known THEN Rejoin(clients, id, next_active)
                                 ELSE Append(clients, new)
        IN  /\ known \/ CanPush(clients, MaxClients)
            /\ IF Halted(coordinator)
               THEN /\ clients' = registry
                    /\ UNCHANGED <<open, configured, coordinator, next_active,
                                   ratesVars, flags>>
               ELSE TickInstance(coordinator, registry, next_active, seed)
            /\ Joins({id})
  BY DEF JoinRun
<1> DEFINE known == id \in Registered
           new == [id |-> id, earned |-> 0, slashed |-> 0, active |-> next_active]
           registry == IF known THEN Rejoin(clients, id, next_active)
                                ELSE Append(clients, new)
<1>4. /\ Registry(registry) /\ Within(clients, registry)
      /\ \A k \in DOMAIN registry : registry[k].active <= next_active
      /\ JoinedFor(registry, next_active) = JoinedFor(clients, next_active) \cup {id}
  <2>1. \A k \in DOMAIN clients : clients[k].active <= next_active
    BY DEF JoinIInv
  <2>2. id \in Registered \/ CanPush(clients, MaxClients)
    BY <1>3
  <2> QED
    BY <1>0, <2>1, <2>2, RegistryAfterJoin
<1>5. Joins({id})
  BY <1>3
<1>6. rejoined = JoinedFor(clients, next_active)
  BY DEF JoinIInv
<1>7. CASE ~Halted(coordinator)
  <2>1. TickInstance(coordinator, registry, next_active, seed)
    BY <1>3, <1>7
  <2> HIDE DEF registry
  <2>2. Within(coordinator.clients, coordinator.clients)
    BY WithinPrefix
  <2> QED
    BY <1>0, <1>4, <1>5, <1>6, <2>1, <2>2, MethodThenTick
<1>8. CASE Halted(coordinator)
  <2>1. /\ clients' = registry
        /\ UNCHANGED <<coordinator, next_active, ratesVars, flags>>
    BY <1>3, <1>8
  <2> HIDE DEF registry
  <2>2. coordinator.run_state # "Warmup" /\ ~Active(coordinator)
    BY <1>8 DEF Halted, Active
  <2>3. rejoined' = rejoined \cup {id}
    BY <1>5, <2>2 DEF Joins
  <2>4. Within(coordinator.clients, registry)
    <3>1. Within(coordinator.clients, clients)
      BY DEF JoinIInv, EpochInRegistryOrder, Within
    <3> QED
      BY <1>4, <3>1, WithinTransitive
  <2>5. EpochInRegistryOrder'
    BY <2>1, <2>4 DEF EpochInRegistryOrder, Within
  <2>6. rejoined' = JoinedFor(clients, next_active)'
    BY <1>4, <1>6, <2>1, <2>3 DEF JoinedFor
  <2>7. Active(coordinator)' = Active(coordinator)
    BY <2>1 DEF Active
  <2> QED
    BY <1>4, <2>1, <2>2, <2>5, <2>6, <2>7 DEF JoinIInv, ratesVars
<1> QED
  BY <1>7, <1>8

LEMMA ClientStepJoins ==
    ASSUME Inv, JoinIInv,
           TickInstruction \/ WitnessInstruction \/ WarmupWitnessInstruction
             \/ HealthCheckInstruction \/ CheckpointInstruction
    PROVE  /\ JoinIInv'
           /\ current_epoch_rates' # current_epoch_rates =>
                /\ coordinator.run_state = "WaitingForMembers"
                /\ coordinator'.run_state = "Warmup"
<1>1. CASE \E e : \E seed \in Seeds :
              /\ MethodStep(e) /\ TickInstance(e, clients, next_active, seed)
              /\ Joins({})
  BY <1>1, OnlyMethodThenTick DEF MethodStep
<1>2. CASE /\ Halted(coordinator)
           /\ UNCHANGED <<clients, next_active, ratesVars, flags, rejoined>>
           /\ coordinator'.clients = coordinator.clients
           /\ coordinator'.run_state = coordinator.run_state
  <2>1. Within(coordinator'.clients, coordinator.clients)
    BY <1>2, WithinPrefix
  <2> QED
    BY <1>2, <2>1, CoordinatorAloneJoins DEF ratesVars
<1> QED
  BY <1>1, <1>2, ClientMethods

\* A zeroed account has no clients and runs no epoch.
ZeroedAccountJoins(c, r) ==
    Within(c.clients, r) /\ c.run_state = "Uninitialized" /\ DOMAIN c.clients = {}

LEMMA ZeroedJoins == ZeroedAccountJoins(ZeroedCoordinator, <<>>)
<1> DEFINE g == CHOOSE g \in Configs : TRUE
           k == [kind |-> "Ephemeral", repo |-> CHOOSE r \in Repos : TRUE]
           c == FreshCoordinator(g, k, "Uninitialized")
<1>1. c.clients = <<>> /\ c.run_state = "Uninitialized"
  BY DEF FreshCoordinator
<1>2. ZeroedCoordinator = [c EXCEPT !.step = 0, !.first_round = FALSE]
  BY DEF ZeroedCoordinator
<1>3. ZeroedCoordinator.clients = <<>> /\ ZeroedCoordinator.run_state = "Uninitialized"
  BY <1>2 DEF FreshCoordinator
<1>4. DOMAIN ZeroedCoordinator.clients = {}
  BY <1>3
<1>5. Within(ZeroedCoordinator.clients, <<>>)
  BY <1>3, WithinPrefix
<1> QED
  BY <1>3, <1>4, <1>5 DEF ZeroedAccountJoins

LEMMA InitJoins == Init => JoinIInv
<1> SUFFICES ASSUME Init PROVE JoinIInv
  OBVIOUS
<1>1. clients = <<>> /\ coordinator = ZeroedCoordinator /\ rejoined = {}
  BY DEF Init
<1>2. ZeroedAccountJoins(coordinator, clients)
  BY <1>1, ZeroedJoins
<1>3. DOMAIN clients = {}
  BY <1>1
<1>4. rejoined = JoinedFor(clients, next_active)
  BY <1>1, <1>3 DEF JoinedFor
<1>5. EpochInRegistryOrder /\ coordinator.run_state = "Uninitialized"
  BY <1>2 DEF EpochInRegistryOrder, Within, ZeroedAccountJoins
<1> QED
  BY <1>3, <1>4, <1>5 DEF JoinIInv, Active

\* Every instruction keeps the invariant of joins, and takes rates over only when
\* the members of an epoch have been found.
LEMMA NextJoins ==
    ASSUME Inv, JoinIInv, [Next]_vars
    PROVE  /\ JoinIInv'
           /\ open' /\ current_epoch_rates' # current_epoch_rates =>
                /\ coordinator.run_state = "WaitingForMembers"
                /\ coordinator'.run_state = "Warmup"
<1>1. CASE InitCoordinator \/ UNCHANGED vars
  <2>1. UNCHANGED <<coordinator, clients, next_active, ratesVars, flags, rejoined>>
    BY <1>1 DEF InitCoordinator, vars
  <2> QED
    BY <2>1 DEF JoinIInv, EpochInRegistryOrder, JoinedFor, Active, ratesVars, flags
<1>2. CASE FreeCoordinator
  <2>1. coordinator' = ZeroedCoordinator /\ clients' = <<>> /\ rejoined' = {} /\ ~open'
    BY <1>2 DEF FreeCoordinator
  <2>2. ZeroedAccountJoins(coordinator', clients')
    BY <2>1, ZeroedJoins
  <2>3. DOMAIN clients' = {}
    BY <2>1
  <2>4. rejoined' = JoinedFor(clients, next_active)'
    BY <2>1, <2>3 DEF JoinedFor
  <2>5. EpochInRegistryOrder' /\ coordinator'.run_state = "Uninitialized"
    BY <2>2 DEF EpochInRegistryOrder, Within, ZeroedAccountJoins
  <2> QED
    BY <2>1, <2>3, <2>4, <2>5 DEF JoinIInv, Active
<1> QED
  BY <1>1, <1>2, OwnerStepJoins, SetUnpausedJoins, JoinRunJoins, ClientStepJoins DEF Next

LEMMA JoinInvariance == Spec => []JoinIInv
<1>1. Inv /\ JoinIInv /\ [Next]_vars => JoinIInv'
  BY NextJoins
<1> QED
  BY <1>1, InitJoins, Invariance, PTL DEF Spec

\* An epoch has the clients that joined for it, in the order of the registry: no
\* join is lost or counts for two epochs, whatever the order of instructions.
THEOREM EpochCorrect == Spec => []EpochFromRegistry
<1>1. JoinIInv => EpochFromRegistry
  BY DEF JoinIInv, JoinedFor, EpochFromRegistry, JoinsCount
<1> QED
  BY <1>1, JoinInvariance, PTL

\* The rates of an epoch are taken over when its warmup starts and never later:
\* this is what is_warmup_first_tick is for.
THEOREM RatesFixed == Spec => RatesFixedInEpoch
<1>1. Inv /\ JoinIInv /\ [Next]_vars =>
        [open' /\ current_epoch_rates' # current_epoch_rates =>
           /\ coordinator.run_state = "WaitingForMembers"
           /\ coordinator'.run_state = "Warmup"]_vars
  BY NextJoins
<1> QED
  BY <1>1, Invariance, JoinInvariance, PTL DEF Spec, RatesFixedInEpoch

-----------------------------------------------------------------------------
(* Payments.  Merge is a recursive function: that it exists, and what it finds, *)
(* is shown by taking the smallest prefix of the registry for which it fails.   *)

\* The single pass over the registry and a list, up to entry n.
Passes(met, r, list, n) ==
    met = [k \in 0 .. n |->
             IF k = 0 THEN 0
             ELSE IF /\ met[k - 1] < Len(list)
                     /\ r[k].id = list[met[k - 1] + 1].id
                  THEN met[k - 1] + 1
                  ELSE met[k - 1]]

LEMMA PassExists ==
    ASSUME NEW r, NEW list
    PROVE  \A n \in Nat : \E met : Passes(met, r, list, n)
<1> DEFINE Bad == {n \in Nat : ~ \E met : Passes(met, r, list, n)}
<1> SUFFICES ASSUME Bad # {} PROVE FALSE
  OBVIOUS
<1>1. PICK n \in Bad : \A m \in Bad : n <= m
  <2> Bad \in SUBSET Nat
    OBVIOUS
  <2> HIDE DEF Bad
  <2> QED
    BY LeastNatural
<1>2. CASE n = 0
  <2> DEFINE met == [k \in 0 .. 0 |-> 0]
  <2>1. Passes(met, r, list, 0)
    BY DEF Passes
  <2> QED
    BY <1>1, <1>2, <2>1
<1>3. CASE n # 0
  <2>1. n - 1 \in Nat /\ n - 1 \notin Bad /\ n \in Nat
    BY <1>1, <1>3
  <2>2. PICK old : Passes(old, r, list, n - 1)
    BY <2>1
  <2> DEFINE last == IF /\ old[n - 1] < Len(list)
                        /\ r[n].id = list[old[n - 1] + 1].id
                     THEN old[n - 1] + 1
                     ELSE old[n - 1]
             met == [k \in 0 .. n |-> IF k = n THEN last ELSE old[k]]
  <2>3. /\ DOMAIN met = 0 .. n /\ met[n] = last
        /\ \A k \in 0 .. n - 1 : met[k] = old[k] /\ k \in 0 .. n
    BY <2>1
  <2> HIDE DEF met
  <2>4. ASSUME NEW k \in 0 .. n
        PROVE  met[k] = IF k = 0 THEN 0
                        ELSE IF /\ met[k - 1] < Len(list)
                                /\ r[k].id = list[met[k - 1] + 1].id
                             THEN met[k - 1] + 1
                             ELSE met[k - 1]
    <3>1. CASE k = n
      <4>1. met[n - 1] = old[n - 1] /\ n # 0
        BY <1>3, <2>1, <2>3
      <4> QED
        BY <2>3, <3>1, <4>1
    <3>2. CASE k # n
      <4>1. k \in 0 .. n - 1 /\ (k # 0 => k - 1 \in 0 .. n - 1)
        BY <2>1, <2>4, <3>2
      <4>2. old[k] = IF k = 0 THEN 0
                     ELSE IF /\ old[k - 1] < Len(list)
                             /\ r[k].id = list[old[k - 1] + 1].id
                          THEN old[k - 1] + 1
                          ELSE old[k - 1]
        BY <2>2, <4>1 DEF Passes
      <4>3. met[k] = old[k] /\ (k # 0 => met[k - 1] = old[k - 1])
        BY <2>3, <4>1
      <4> QED
        BY <4>2, <4>3
    <3> QED
      BY <3>1, <3>2
  <2>5. met = [k \in 0 .. n |-> met[k]]
    BY <2>3 DEF met
  <2>6. Passes(met, r, list, n)
    BY <2>4, <2>5 DEF Passes
  <2> QED
    BY <1>1, <2>6
<1> QED
  BY <1>2, <1>3

\* Merge is that pass over the whole registry.
LEMMA MergePasses ==
    ASSUME NEW r, Len(r) \in Nat, NEW list
    PROVE  Passes(Merge(r, list), r, list, Len(r))
<1>1. \E met : Passes(met, r, list, Len(r))
  BY PassExists
<1>2. Merge(r, list) = CHOOSE met : Passes(met, r, list, Len(r))
  BY DEF Merge, Passes
<1> QED
  BY <1>1, <1>2

\* A pass, entry by entry.
LEMMA PassSteps ==
    ASSUME NEW m, NEW r, NEW list, NEW n \in Nat, Passes(m, r, list, n)
    PROVE  /\ m[0] = 0
           /\ \A k \in 1 .. n : m[k] = IF /\ m[k - 1] < Len(list)
                                           /\ r[k].id = list[m[k - 1] + 1].id
                                        THEN m[k - 1] + 1
                                        ELSE m[k - 1]
<1>1. \A k \in 0 .. n :
         m[k] = IF k = 0 THEN 0
                ELSE IF /\ m[k - 1] < Len(list)
                        /\ r[k].id = list[m[k - 1] + 1].id
                     THEN m[k - 1] + 1
                     ELSE m[k - 1]
  BY DEF Passes
<1>2. 0 \in 0 .. n /\ \A k \in 1 .. n : k \in 0 .. n /\ k # 0
  OBVIOUS
<1> QED
  BY <1>1, <1>2

\* A list in the order of the registry is met entry by entry: nobody is missed.
LEMMA MergeMeets ==
    ASSUME NEW r, Registry(r), NEW list \in Seq(Client),
           NEW f \in [DOMAIN list -> DOMAIN r],
           \A i \in DOMAIN f : r[f[i]].id = list[i].id,
           \A i, j \in DOMAIN f : i < j => f[i] < f[j]
    PROVE  \A k \in 0 .. Len(r) :
              /\ Merge(r, list)[k] \in 0 .. Len(list)
              /\ \A i \in 1 .. Len(list) : f[i] <= k <=> i <= Merge(r, list)[k]
<1> DEFINE m == Merge(r, list)
           Good(k) == /\ m[k] \in 0 .. Len(list)
                      /\ \A i \in 1 .. Len(list) : f[i] <= k <=> i <= m[k]
           Bad == {k \in 0 .. Len(r) : ~Good(k)}
<1>0. /\ Len(r) \in Nat /\ DOMAIN r = 1 .. Len(r)
      /\ Len(list) \in Nat /\ DOMAIN list = 1 .. Len(list)
  BY LenProperties DEF Registry
<1>1. /\ m[0] = 0
      /\ \A k \in 1 .. Len(r) : m[k] = IF /\ m[k - 1] < Len(list)
                                          /\ r[k].id = list[m[k - 1] + 1].id
                                       THEN m[k - 1] + 1
                                       ELSE m[k - 1]
  <2>1. Passes(m, r, list, Len(r))
    BY <1>0, MergePasses
  <2> HIDE DEF m
  <2> QED
    BY <1>0, <2>1, PassSteps
<1> HIDE DEF m
<1>2. /\ \A i \in 1 .. Len(list) : f[i] \in 1 .. Len(r) /\ f[i] \in Nat /\ r[f[i]].id = list[i].id
      /\ \A i, j \in 1 .. Len(list) : i < j => f[i] < f[j]
  <2> HIDE DEF Good, Bad
  <2>1. DOMAIN f = 1 .. Len(list)
    BY <1>0
  <2>2. \A i \in 1 .. Len(list) : f[i] \in 1 .. Len(r)
    BY <1>0
  <2>3. \A i \in 1 .. Len(list) : f[i] \in Nat
    BY <1>0, <2>2
  <2>4. \A i \in 1 .. Len(list) : r[f[i]].id = list[i].id
    BY <2>1
  <2>5. \A i, j \in 1 .. Len(list) : i < j => f[i] < f[j]
    BY <2>1
  <2> QED
    BY <2>2, <2>3, <2>4, <2>5
<1>3. \A i, j \in 1 .. Len(r) : r[i].id = r[j].id => i = j
  BY <1>0 DEF Registry
<1> SUFFICES ASSUME Bad # {} PROVE FALSE
  BY DEF m
<1>4. PICK k \in Bad : \A x \in Bad : k <= x
  <2> Bad \in SUBSET Nat
    BY <1>0
  <2> HIDE DEF Bad
  <2> QED
    BY LeastNatural
<1>5. k \in 0 .. Len(r) /\ ~Good(k) /\ k \in Nat
  BY <1>0, <1>4
<1>6. k # 0
  <2>1. Good(0)
    BY <1>0, <1>1, <1>2
  <2> QED
    BY <1>5, <2>1
<1>7. k - 1 \in 0 .. Len(r) /\ k \in 1 .. Len(r)
  BY <1>0, <1>5, <1>6
<1>8. Good(k - 1)
  <2>1. k - 1 \notin Bad
    BY <1>4, <1>5
  <2> QED
    BY <1>7, <2>1
<1>9. /\ m[k - 1] \in 0 .. Len(list) /\ m[k - 1] \in Nat
      /\ \A i \in 1 .. Len(list) : f[i] <= k - 1 <=> i <= m[k - 1]
  BY <1>0, <1>8
<1> DEFINE a == m[k - 1]
<1> HIDE DEF a
<1>10. a \in Nat /\ a <= Len(list) /\ \A i \in 1 .. Len(list) : f[i] <= k - 1 <=> i <= a
  BY <1>0, <1>9 DEF a
<1>11. CASE a < Len(list) /\ r[k].id = list[a + 1].id
  <2>1. m[k] = a + 1
    BY <1>1, <1>7, <1>11 DEF a
  <2>2. a + 1 \in 1 .. Len(list)
    BY <1>0, <1>10, <1>11
  <2>3. f[a + 1] = k
    BY <1>2, <1>3, <1>7, <1>11, <2>2
  <2>4. ASSUME NEW i \in 1 .. Len(list) PROVE f[i] <= k <=> i <= a + 1
    <3>1. i < a + 1 => f[i] < k
      BY <1>2, <2>2, <2>3, <2>4
    <3>2. a + 1 < i => k < f[i]
      BY <1>2, <2>2, <2>3, <2>4
    <3>3. i = a + 1 => f[i] = k
      BY <2>3
    <3>4. i \in Nat /\ f[i] \in Nat
      BY <1>0, <1>2, <2>4
    <3> QED
      BY <1>5, <1>10, <3>1, <3>2, <3>3, <3>4
  <2>5. Good(k)
    BY <1>0, <2>1, <2>2, <2>4
  <2> QED
    BY <1>5, <2>5
<1>12. CASE ~(a < Len(list) /\ r[k].id = list[a + 1].id)
  <2>1. m[k] = a
    BY <1>1, <1>7, <1>12 DEF a
  <2>2. ASSUME NEW i \in 1 .. Len(list) PROVE f[i] # k
    <3> SUFFICES ASSUME f[i] = k PROVE FALSE
      OBVIOUS
    <3>1. i \in Nat /\ ~(f[i] <= k - 1)
      BY <1>0, <1>5, <2>2
    <3>2. ~(i <= a)
      BY <1>10, <2>2, <3>1
    <3>3. a < Len(list) /\ a + 1 \in 1 .. Len(list)
      BY <1>0, <1>10, <2>2, <3>1, <3>2
    <3>4. i # a + 1
      BY <1>2, <1>12, <2>2, <3>3
    <3>5. f[a + 1] < k /\ f[a + 1] \in Nat
      BY <1>2, <1>10, <2>2, <3>1, <3>2, <3>3, <3>4
    <3>6. f[a + 1] <= k - 1
      BY <1>5, <3>5
    <3>7. a + 1 <= a
      BY <1>10, <3>3, <3>6
    <3> QED
      BY <1>10, <3>7
  <2>3. ASSUME NEW i \in 1 .. Len(list) PROVE f[i] <= k <=> i <= a
    <3>1. f[i] \in Nat /\ f[i] # k
      BY <1>2, <2>2, <2>3
    <3>2. f[i] <= k <=> f[i] <= k - 1
      BY <1>5, <3>1
    <3> QED
      BY <1>10, <2>3, <3>2
  <2>4. Good(k)
    BY <1>0, <1>10, <2>1, <2>3
  <2> QED
    BY <1>5, <2>4
<1> QED
  BY <1>11, <1>12

\* The pass stops at exactly those clients of the registry that are in the list.
LEMMA MergeFinds ==
    ASSUME NEW r, Registry(r), NEW list \in Seq(Client), Within(list, r),
           NEW k \in DOMAIN r
    PROVE  LET a == Merge(r, list)[k - 1]
               b == Merge(r, list)[k]
           IN  /\ b # a => b \in DOMAIN list /\ list[b].id = r[k].id
               /\ \A i \in DOMAIN list : list[i].id = r[k].id => b # a /\ i = b
<1> DEFINE m == Merge(r, list)
           a == m[k - 1]
           b == m[k]
<1>0. /\ Len(r) \in Nat /\ DOMAIN r = 1 .. Len(r)
      /\ Len(list) \in Nat /\ DOMAIN list = 1 .. Len(list)
  BY LenProperties DEF Registry
<1>1. PICK f \in [DOMAIN list -> DOMAIN r] :
         /\ \A i \in DOMAIN f : r[f[i]].id = list[i].id
         /\ \A i, j \in DOMAIN f : i < j => f[i] < f[j]
  BY DEF Within
<1>2. k \in 1 .. Len(r) /\ k \in 0 .. Len(r) /\ k - 1 \in 0 .. Len(r) /\ k \in Nat
  BY <1>0
<1>3. b = IF a < Len(list) /\ r[k].id = list[a + 1].id THEN a + 1 ELSE a
  <2>1. \A x \in 1 .. Len(r) : m[x] = IF /\ m[x - 1] < Len(list)
                                         /\ r[x].id = list[m[x - 1] + 1].id
                                      THEN m[x - 1] + 1
                                      ELSE m[x - 1]
    <3>1. Passes(m, r, list, Len(r))
      BY <1>0, MergePasses
    <3> HIDE DEF m
    <3> QED
      BY <1>0, <3>1, PassSteps
  <2> HIDE DEF m
  <2> QED
    BY <1>2, <2>1
<1>4. \A x \in 0 .. Len(r) :
         /\ m[x] \in 0 .. Len(list)
         /\ \A i \in 1 .. Len(list) : f[i] <= x <=> i <= m[x]
  BY <1>1, MergeMeets
<1> HIDE DEF m
<1>5. /\ a \in Nat /\ b \in Nat
      /\ \A i \in 1 .. Len(list) : /\ f[i] <= k <=> i <= b
                                   /\ f[i] <= k - 1 <=> i <= a
  BY <1>0, <1>2, <1>4
<1>6. b # a => b \in DOMAIN list /\ list[b].id = r[k].id
  BY <1>0, <1>3, <1>5
<1>7. ASSUME NEW i \in DOMAIN list, list[i].id = r[k].id PROVE b # a /\ i = b
  <2>1. f[i] = k
    BY <1>0, <1>1, <1>2, <1>7 DEF Registry
  <2>2. i <= b /\ ~(i <= a) /\ i \in Nat
    BY <1>0, <1>2, <1>5, <1>7, <2>1
  <2>3. b # a
    BY <2>2
  <2>4. b \in DOMAIN list /\ list[b].id = r[k].id
    BY <1>6, <2>3
  <2>5. f[b] = k
    BY <1>0, <1>1, <1>2, <2>4 DEF Registry
  <2>6. ~(i < b)
    BY <1>1, <1>2, <1>7, <2>1, <2>4, <2>5
  <2> QED
    BY <1>5, <2>2, <2>3, <2>6
<1> QED
  BY <1>6, <1>7 DEF m

\* Who finished the epoch healthy, and what the client id is due at its end.
Finishers(d) == {i \in DOMAIN d.clients : d.clients[i].state = "Healthy"}

Due(d, id, rates, ended) ==
    IF ended /\ \E i \in Finishers(d) : d.clients[i].id = id
    THEN rates.earning \div Cardinality(Finishers(d))
    ELSE 0

\* The end of an epoch pays what is due.  The code divides by the number of
\* clients in the list: that is the number of finishers as all of them are
\* healthy, unless a pause has withdrawn them all.
LEMMA SettlePays ==
    ASSUME NEW r, Registry(r), NEW d \in CoordinatorType, NEW rates \in EpochRates,
           Within(d.clients, r),
           \/ \A i \in DOMAIN d.clients : d.clients[i].state = "Healthy"
           \/ \A i \in DOMAIN d.clients : d.clients[i].state = "Withdrawn",
           NEW k \in DOMAIN r
    PROVE  Settle(r, d, rates)[k].earned = r[k].earned + Due(d, r[k].id, rates, TRUE)
<1> DEFINE list == d.clients
           n == Len(list)
           fin == Merge(r, list)
           exi == Merge(r, d.exited_clients)
           earns == /\ fin[k] \in DOMAIN list
                    /\ fin[k] # fin[k - 1]
                    /\ list[fin[k]].state = "Healthy"
           loses == /\ exi[k] \in DOMAIN d.exited_clients
                    /\ exi[k] # exi[k - 1]
                    /\ d.exited_clients[exi[k]].state = "Ejected"
<1>1. list \in Seq(Client) /\ n \in Nat /\ DOMAIN list = 1 .. n
  BY ClientOfList
<1>2. rates.earning \in Nat
  BY DEF EpochRates
<1>3. r[k] \in RegisteredClient /\ r[k].earned \in Nat
  <2>1. r \in Seq(RegisteredClient)
    BY DEF Registry
  <2>2. r[k] \in RegisteredClient
    BY <2>1, LenProperties, ElementOfSeq
  <2> QED
    BY <2>2 DEF RegisteredClient
<1>4. Settle(r, d, rates)[k]
        = [r[k] EXCEPT !.earned = IF earns THEN @ + rates.earning \div n ELSE @,
                       !.slashed = IF loses THEN @ + rates.slashing ELSE @]
  BY DEF Settle
<1>5. /\ fin[k] # fin[k - 1] => fin[k] \in DOMAIN list /\ list[fin[k]].id = r[k].id
      /\ \A i \in DOMAIN list : list[i].id = r[k].id => fin[k] # fin[k - 1] /\ i = fin[k]
  BY <1>1, MergeFinds
<1>6. earns <=> \E i \in Finishers(d) : list[i].id = r[k].id
  BY <1>5 DEF Finishers
<1> HIDE DEF earns, loses, fin, exi
<1>7. Settle(r, d, rates)[k].earned
        = IF earns THEN r[k].earned + rates.earning \div n ELSE r[k].earned
  <2> DEFINE x == IF earns THEN r[k].earned + rates.earning \div n ELSE r[k].earned
             y == IF loses THEN r[k].slashed + rates.slashing ELSE r[k].slashed
  <2>1. Settle(r, d, rates)[k] = [r[k] EXCEPT !.earned = x, !.slashed = y]
    BY <1>3, <1>4 DEF RegisteredClient
  <2> HIDE DEF x, y
  <2>2. Settle(r, d, rates)[k].earned = x
    BY <1>3, <2>1 DEF RegisteredClient
  <2> QED
    BY <2>2 DEF x
<1>8. earns => Cardinality(Finishers(d)) = n
  <2> SUFFICES ASSUME earns PROVE Cardinality(Finishers(d)) = n
    OBVIOUS
  <2>1. \E i \in DOMAIN list : list[i].state = "Healthy"
    BY <1>6 DEF Finishers
  <2>2. \A i \in DOMAIN list : list[i].state = "Healthy"
    BY <2>1
  <2>3. Finishers(d) = 1 .. n
    BY <1>1, <2>2 DEF Finishers
  <2> QED
    BY <1>1, <2>3, CountedInterval
<1>9. CASE earns
  BY <1>6, <1>7, <1>8, <1>9 DEF Due
<1>10. CASE ~earns
  BY <1>3, <1>6, <1>7, <1>10 DEF Due
<1> QED
  BY <1>9, <1>10

\* A warmup has healthy clients only: on chain nobody can be dropped in it, since
\* a health check needs two rounds before.  So no warmup is abandoned, which would
\* pay its clients for an epoch that was not trained.
HealthyWarmup(c) ==
    c.run_state = "Warmup" => \A i \in DOMAIN c.clients : c.clients[i].state = "Healthy"

\* tick() pays at the end of an epoch, and only then.
LEMMA TickInstancePays ==
    ASSUME Inv, NEW e, CoordinatorInv(e), NEW r, Registry(r),
           NEW active \in Nat, NEW seed \in Seeds,
           Within(e.clients, r), HealthyWarmup(e),
           TickInstance(e, r, active, seed)
    PROVE  /\ HealthyWarmup(coordinator')
           /\ \A k \in DOMAIN r :
                 clients'[k].earned
                   = r[k].earned + Due(coordinator', r[k].id, current_epoch_rates,
                                       /\ coordinator'.epoch # e.epoch
                                       /\ e.run_state = "Cooldown")
<1> DEFINE pending == ActiveIds(r, active)
           t == Tick(e, pending, seed)
           d == t.st
<1>0. e \in CoordinatorType /\ CanTick(e)
  BY DEF CoordinatorInv, TickInstance
<1>1. /\ coordinator' = d
      /\ clients' = IF t.result = "Ticked" THEN r ELSE Settle(r, d, current_epoch_rates)
  BY DEF TickInstance
<1>2. CoordinatorInv(d)
  BY <1>0, ActiveIdsArePending, TickGood DEF GoodStep
<1>3. d \in CoordinatorType /\ current_epoch_rates \in EpochRates
  BY <1>2 DEF CoordinatorInv, Inv, TypeOK
<1>4. e.run_state \in {"WaitingForMembers", "Warmup", "RoundTrain", "RoundWitness", "Cooldown"}
  BY <1>0 DEF CanTick, Halted, CoordinatorType, RunStates
<1>5. \A k \in DOMAIN r : r[k].earned \in Nat
  <2>1. r \in Seq(RegisteredClient)
    BY DEF Registry
  <2>2. \A k \in DOMAIN r : r[k] \in RegisteredClient
    BY <2>1, LenProperties, ElementOfSeq
  <2> QED
    BY <2>2 DEF RegisteredClient
<1>6. ASSUME t.result = "Ticked",
             ~(d.epoch # e.epoch /\ e.run_state = "Cooldown")
      PROVE  \A k \in DOMAIN r :
                clients'[k].earned
                  = r[k].earned + Due(coordinator', r[k].id, current_epoch_rates,
                                      /\ coordinator'.epoch # e.epoch
                                      /\ e.run_state = "Cooldown")
  <2> HIDE DEF d, t
  <2>1. clients' = r
    BY <1>1, <1>6
  <2>2. \A id : Due(coordinator', id, current_epoch_rates,
                    coordinator'.epoch # e.epoch /\ e.run_state = "Cooldown") = 0
    BY <1>1, <1>6 DEF Due
  <2>3. \A k \in DOMAIN r : r[k].earned + 0 = r[k].earned
    BY <1>5
  <2> QED
    BY <2>1, <2>2, <2>3
<1>7. CASE e.run_state = "WaitingForMembers"
  <2>1. /\ t.result = "Ticked"
        /\ \/ d = e
           \/ d.clients = [i \in DOMAIN Admitted(pending) |-> NewClient(Admitted(pending)[i])]
    BY <1>0, <1>7, WaitingMoves
  <2>2. HealthyWarmup(d)
    BY <1>7, <2>1 DEF HealthyWarmup, NewClient
  <2> QED
    BY <1>1, <1>6, <1>7, <2>1, <2>2
<1>8. CASE e.run_state = "Warmup"
  <2>1. /\ t.result = "Ticked"
        /\ d.run_state = "Warmup" => \A i \in DOMAIN d.clients : d.clients[i].state = "Healthy"
    BY <1>8, WarmupMoves DEF HealthyWarmup
  <2> QED
    BY <1>1, <1>6, <1>8, <2>1 DEF HealthyWarmup
<1>9. CASE Active(e)
  <2>1. /\ d.run_state # "Warmup"
        /\ e.run_state # "Cooldown" => t.result = "Ticked"
        /\ e.run_state = "Cooldown" =>
             \/ d = e /\ t.result = "Ticked"
             \/ CheckTimeout(e, e.config.cooldown_time) /\ t = TickCooldown(e)
    BY <1>9, EpochMoves
  <2>2. HealthyWarmup(coordinator')
    BY <1>1, <2>1 DEF HealthyWarmup
  <2>3. CASE t.result = "Ticked" /\ ~(d.epoch # e.epoch /\ e.run_state = "Cooldown")
    BY <1>6, <2>2, <2>3
  <2>4. CASE /\ e.run_state = "Cooldown"
             /\ CheckTimeout(e, e.config.cooldown_time) /\ t = TickCooldown(e)
    <3>1. /\ Within(d.clients, e.clients) /\ t.result = "EpochEnd" /\ d.epoch = e.epoch + 1
          /\ \/ \A i \in DOMAIN d.clients : d.clients[i].state = "Healthy"
             \/ \A i \in DOMAIN d.clients : d.clients[i].state = "Withdrawn"
      BY <2>4, CooldownEnds
    <3>2. e.epoch \in Nat
      BY <1>0 DEF CoordinatorType
    <3> HIDE DEF d, t
    <3>3. d.epoch # e.epoch /\ Within(d.clients, r)
      BY <3>1, <3>2, WithinTransitive
    <3>4. clients' = Settle(r, d, current_epoch_rates)
      BY <1>1, <3>1
    <3>5. \A k \in DOMAIN r : Settle(r, d, current_epoch_rates)[k].earned
                                = r[k].earned + Due(d, r[k].id, current_epoch_rates, TRUE)
      BY <1>3, <3>1, <3>3, SettlePays
    <3>6. \A id : Due(d, id, current_epoch_rates, d.epoch # e.epoch /\ e.run_state = "Cooldown")
                    = Due(d, id, current_epoch_rates, TRUE)
      BY <2>4, <3>3 DEF Due
    <3> QED
      BY <1>1, <2>2, <3>4, <3>5, <3>6
  <2> QED
    BY <2>1, <2>3, <2>4
<1> QED
  BY <1>4, <1>7, <1>8, <1>9 DEF Active

\* A step pays what is due in it.
StepPays ==
    \A k \in DOMAIN clients :
       clients'[k].earned - clients[k].earned
         = Due(coordinator', clients[k].id, current_epoch_rates,
               coordinator'.epoch # coordinator.epoch /\ coordinator.run_state = "Cooldown")

\* The registry keeps what was earned, and no epoch ends.
LEMMA NothingPaid ==
    ASSUME Inv, \A k \in DOMAIN clients : clients'[k].earned = clients[k].earned,
           ~(coordinator'.epoch # coordinator.epoch /\ coordinator.run_state = "Cooldown")
    PROVE  StepPays
<1>1. \A k \in DOMAIN clients : clients[k].earned \in Nat
  <2>1. clients \in Seq(RegisteredClient)
    BY DEF Inv, TypeOK
  <2>2. \A k \in DOMAIN clients : clients[k] \in RegisteredClient
    BY <2>1, LenProperties, ElementOfSeq
  <2> QED
    BY <2>2 DEF RegisteredClient
<1>2. \A id : Due(coordinator', id, current_epoch_rates,
                  coordinator'.epoch # coordinator.epoch /\ coordinator.run_state = "Cooldown") = 0
  BY DEF Due
<1> QED
  BY <1>1, <1>2 DEF StepPays

\* What is due is a number: nothing is divided by zero.
LEMMA DueType ==
    ASSUME NEW d \in CoordinatorType, NEW id, NEW rates \in EpochRates, NEW ended
    PROVE  Due(d, id, rates, ended) \in Nat
<1> DEFINE F == Finishers(d)
           n == Cardinality(F)
<1>1. Len(d.clients) \in Nat /\ DOMAIN d.clients = 1 .. Len(d.clients)
  BY ClientOfList
<1>2. F \in SUBSET (1 .. Len(d.clients))
  BY <1>1 DEF Finishers
<1> HIDE DEF F
<1>3. IsFiniteSet(F) /\ n \in Nat
  BY <1>1, <1>2, PositionsFinite
<1>4. F # {} => n # 0
  BY <1>3, FS_EmptySet
<1>5. rates.earning \in Nat
  BY DEF EpochRates
<1> HIDE DEF n
<1>6. F # {} => rates.earning \div n \in Nat
  BY <1>3, <1>4, <1>5
<1> QED
  BY <1>6 DEF Due, F, n

\* A method and tick.
LEMMA MethodPays ==
    ASSUME Inv, JoinIInv, NEW e, CoordinatorInv(e), NEW r, Registry(r),
           NEW active \in Nat, NEW seed \in Seeds,
           Within(e.clients, coordinator.clients), HealthyWarmup(e),
           e.epoch = coordinator.epoch,
           e.run_state = "Cooldown" <=> coordinator.run_state = "Cooldown",
           Within(clients, r),
           \A k \in DOMAIN clients : /\ k \in DOMAIN r /\ r[k].id = clients[k].id
                                     /\ r[k].earned = clients[k].earned,
           TickInstance(e, r, active, seed)
    PROVE  StepPays /\ HealthyWarmup(coordinator')
<1>1. Within(e.clients, r)
  <2>1. Within(coordinator.clients, clients)
    BY DEF JoinIInv, EpochInRegistryOrder, Within
  <2> QED
    BY <2>1, WithinTransitive
<1> DEFINE ended == coordinator'.epoch # e.epoch /\ e.run_state = "Cooldown"
<1>2. /\ HealthyWarmup(coordinator')
      /\ \A k \in DOMAIN r :
            clients'[k].earned
              = r[k].earned + Due(coordinator', r[k].id, current_epoch_rates, ended)
  BY <1>1, TickInstancePays
<1>3. ended <=> coordinator'.epoch # coordinator.epoch /\ coordinator.run_state = "Cooldown"
  OBVIOUS
<1>4. \A k \in DOMAIN clients : clients[k].earned \in Nat
  <2>1. clients \in Seq(RegisteredClient)
    BY DEF Inv, TypeOK
  <2>2. \A k \in DOMAIN clients : clients[k] \in RegisteredClient
    BY <2>1, LenProperties, ElementOfSeq
  <2> QED
    BY <2>2 DEF RegisteredClient
<1>5. CASE ended
  <2>1. \A id : Due(coordinator', id, current_epoch_rates, ended)
                  = Due(coordinator', id, current_epoch_rates,
                        coordinator'.epoch # coordinator.epoch
                          /\ coordinator.run_state = "Cooldown")
    BY <1>3, <1>5 DEF Due
  <2>2. current_epoch_rates \in EpochRates /\ coordinator' \in CoordinatorType
    BY TickInstanceOK DEF Inv, TypeOK, StepOK, CoordinatorInv
  <2>3. \A id : Due(coordinator', id, current_epoch_rates, ended) \in Nat
    BY <2>2, DueType
  <2> HIDE DEF ended
  <2> QED
    BY <1>2, <1>4, <2>1, <2>3 DEF StepPays
<1>6. CASE ~ended
  <2>1. \A id : Due(coordinator', id, current_epoch_rates, ended) = 0
    BY <1>6 DEF Due
  <2>2. \A k \in DOMAIN clients : clients'[k].earned = clients[k].earned
    BY <1>2, <1>4, <2>1
  <2> QED
    BY <1>2, <1>3, <1>6, <2>2, NothingPaid
<1> QED
  BY <1>5, <1>6

\* The owner's instructions other than set_paused(false), and time.
LEMMA OwnerStepPays ==
    ASSUME Inv, HealthyWarmup(coordinator),
           UpdateConfig \/ UpdateModel \/ UpdateProgress \/ SetFutureEpochRates
             \/ SetPaused \/ TimeStep
    PROVE  StepPays /\ HealthyWarmup(coordinator')
<1>0. coordinator \in CoordinatorType
  BY DEF Inv, TypeOK
<1>1. clients' = clients
  BY DEF UpdateConfig, UpdateModel, UpdateProgress, SetFutureEpochRates, SetPaused, TimeStep
<1>2. CASE UpdateConfig \/ UpdateModel \/ UpdateProgress
  <2>1. /\ Halted(coordinator)
        /\ coordinator'.run_state = coordinator.run_state
    BY <1>0, <1>2 DEF UpdateConfig, UpdateModel, UpdateProgress, CanUpdate, CoordinatorType
  <2>2. coordinator.run_state # "Cooldown" /\ coordinator'.run_state # "Warmup"
    BY <2>1 DEF Halted
  <2> QED
    BY <1>1, <2>2, NothingPaid DEF HealthyWarmup
<1>3. CASE SetFutureEpochRates \/ TimeStep
  <2>1. /\ coordinator'.run_state = coordinator.run_state
        /\ coordinator'.clients = coordinator.clients /\ coordinator'.epoch = coordinator.epoch
    BY <1>0, <1>3 DEF SetFutureEpochRates, TimeStep, TimePasses, CoordinatorType
  <2> QED
    BY <1>1, <2>1, NothingPaid DEF HealthyWarmup
<1>4. CASE SetPaused
  <2> DEFINE w == WithdrawAll(coordinator)
             p == [ChangeState(w, "Paused") EXCEPT !.cold_start_epoch = TRUE]
             q == [coordinator EXCEPT !.pending_pause = TRUE]
  <2>1. coordinator' = IF Active(coordinator) THEN q ELSE p
    BY <1>4 DEF SetPaused, Pause
  <2>2. SameClients(coordinator, w)
    BY <1>0, WithdrawAllSameClients
  <2>3. w \in CoordinatorType
    BY <1>0, <2>2 DEF SameClients, CoordinatorType
  <2> HIDE DEF w
  <2>4. p.run_state = "Paused"
    BY <2>3 DEF ChangeState, CoordinatorType
  <2>5. q.run_state = coordinator.run_state /\ q.epoch = coordinator.epoch
    BY <1>0 DEF CoordinatorType
  <2> HIDE DEF p, q
  <2>6. /\ coordinator'.run_state # "Warmup"
        /\ coordinator.run_state = "Cooldown" => coordinator'.epoch = coordinator.epoch
    BY <2>1, <2>4, <2>5 DEF Active
  <2> QED
    BY <1>1, <2>6, NothingPaid DEF HealthyWarmup
<1> QED
  BY <1>2, <1>3, <1>4

LEMMA SetUnpausedPays ==
    ASSUME Inv, JoinIInv, SetUnpaused
    PROVE  StepPays /\ HealthyWarmup(coordinator')
<1>0. Registry(clients) /\ next_active \in Nat
  BY DEF Inv, TypeOK
<1> DEFINE e == Resume(ReadyToResume(coordinator))
<1>1. PICK seed \in Seeds : TickInstance(e, clients, next_active + 1, seed)
  BY DEF SetUnpaused
<1>2. /\ CoordinatorInv(e) /\ e.clients = coordinator.clients /\ e.epoch = coordinator.epoch
      /\ e.run_state \in {"WaitingForMembers", "Finished"}
      /\ coordinator.run_state \in {"Uninitialized", "Paused"}
  BY Resumed
<1> HIDE DEF e
<1>3. HealthyWarmup(e) /\ (e.run_state = "Cooldown" <=> coordinator.run_state = "Cooldown")
  BY <1>2 DEF HealthyWarmup
<1>4. Within(e.clients, coordinator.clients) /\ Within(clients, clients)
  BY <1>2, WithinPrefix
<1>5. next_active + 1 \in Nat
  BY <1>0
<1> QED
  BY <1>0, <1>1, <1>2, <1>3, <1>4, <1>5, MethodPays

LEMMA JoinRunPays ==
    ASSUME Inv, JoinIInv, HealthyWarmup(coordinator), JoinRun
    PROVE  StepPays /\ HealthyWarmup(coordinator')
<1>0. CoordinatorInv(coordinator) /\ Registry(clients) /\ next_active \in Nat
  BY DEF Inv, TypeOK
<1>1. PICK id \in ClientIds, seed \in Seeds :
        LET known == id \in Registered
            new == [id |-> id, earned |-> 0, slashed |-> 0, active |-> next_active]
            registry == IF known THEN Rejoin(clients, id, next_active)
                                 ELSE Append(clients, new)
        IN  /\ known \/ CanPush(clients, MaxClients)
            /\ IF Halted(coordinator)
               THEN /\ clients' = registry
                    /\ UNCHANGED <<open, configured, coordinator, next_active,
                                   ratesVars, flags>>
               ELSE TickInstance(coordinator, registry, next_active, seed)
  BY DEF JoinRun
<1> DEFINE known == id \in Registered
           new == [id |-> id, earned |-> 0, slashed |-> 0, active |-> next_active]
           registry == IF known THEN Rejoin(clients, id, next_active)
                                ELSE Append(clients, new)
<1>2. /\ Registry(registry) /\ Within(clients, registry)
      /\ \A k \in DOMAIN clients :
            /\ k \in DOMAIN registry /\ registry[k].id = clients[k].id
            /\ registry[k].earned = clients[k].earned
  <2>1. id \in Registered \/ CanPush(clients, MaxClients)
    BY <1>1
  <2> QED
    BY <1>0, <2>1, RegistryAfterJoin
<1>3. CASE Halted(coordinator)
  <2>1. clients' = registry /\ coordinator' = coordinator
    BY <1>1, <1>3
  <2> HIDE DEF registry
  <2> QED
    BY <1>2, <2>1, NothingPaid
<1>4. CASE ~Halted(coordinator)
  <2>1. TickInstance(coordinator, registry, next_active, seed)
    BY <1>1, <1>4
  <2> HIDE DEF registry
  <2>2. Within(coordinator.clients, coordinator.clients)
    BY WithinPrefix
  <2> QED
    BY <1>0, <1>2, <2>1, <2>2, MethodPays
<1> QED
  BY <1>3, <1>4

LEMMA ClientStepPays ==
    ASSUME Inv, JoinIInv, HealthyWarmup(coordinator),
           TickInstruction \/ WitnessInstruction \/ WarmupWitnessInstruction
             \/ HealthCheckInstruction \/ CheckpointInstruction
    PROVE  StepPays /\ HealthyWarmup(coordinator')
<1>0. Registry(clients) /\ next_active \in Nat /\ Within(clients, clients)
  BY WithinPrefix DEF Inv, TypeOK
<1>1. CASE \E e : \E seed \in Seeds :
              MethodStep(e) /\ TickInstance(e, clients, next_active, seed)
  <2>1. PICK e : \E seed \in Seeds :
                    MethodStep(e) /\ TickInstance(e, clients, next_active, seed)
    BY <1>1
  <2>2. PICK seed \in Seeds : MethodStep(e) /\ TickInstance(e, clients, next_active, seed)
    BY <2>1
  <2>3. /\ CoordinatorInv(e) /\ Within(e.clients, coordinator.clients)
        /\ e.run_state = "Cooldown" <=> coordinator.run_state = "Cooldown"
        /\ e.epoch = coordinator.epoch
    BY <2>2 DEF MethodStep
  <2>4. HealthyWarmup(e)
    <3>1. e.run_state = "Warmup" =>
             coordinator.run_state = "Warmup" /\ e.clients = coordinator.clients
      BY <2>2 DEF MethodStep, Active, JustStarted
    <3> QED
      BY <3>1 DEF HealthyWarmup
  <2> QED
    BY <1>0, <2>2, <2>3, <2>4, MethodPays
<1>2. CASE /\ Halted(coordinator) /\ clients' = clients
           /\ coordinator'.run_state = coordinator.run_state
  <2>1. coordinator.run_state # "Cooldown" /\ coordinator'.run_state # "Warmup"
    BY <1>2 DEF Halted
  <2> QED
    BY <1>2, <2>1, NothingPaid DEF HealthyWarmup
<1> QED
  BY <1>1, <1>2, ClientMethods

LEMMA NextPays ==
    ASSUME Inv, JoinIInv, HealthyWarmup(coordinator), [Next]_vars
    PROVE  (open' => StepPays) /\ HealthyWarmup(coordinator')
<1>1. CASE InitCoordinator \/ UNCHANGED vars
  <2>1. UNCHANGED <<coordinator, clients>>
    BY <1>1 DEF InitCoordinator, vars
  <2> QED
    BY <2>1, NothingPaid
<1>2. CASE FreeCoordinator
  <2>1. coordinator' = ZeroedCoordinator /\ ~open'
    BY <1>2 DEF FreeCoordinator
  <2>2. coordinator'.run_state = "Uninitialized"
    BY <2>1, ZeroedJoins DEF ZeroedAccountJoins
  <2> QED
    BY <2>1, <2>2 DEF HealthyWarmup
<1> QED
  BY <1>1, <1>2, OwnerStepPays, SetUnpausedPays, JoinRunPays, ClientStepPays DEF Next

LEMMA WarmupInvariance == Spec => []HealthyWarmup(coordinator)
<1>1. Init => HealthyWarmup(coordinator)
  <2> SUFFICES ASSUME Init PROVE HealthyWarmup(coordinator)
    OBVIOUS
  <2>1. coordinator = ZeroedCoordinator
    BY DEF Init
  <2> QED
    BY <2>1, ZeroedJoins DEF ZeroedAccountJoins, HealthyWarmup
<1>2. /\ Inv /\ JoinIInv /\ HealthyWarmup(coordinator) /\ [Next]_vars
      => HealthyWarmup(coordinator)'
  <2> SUFFICES ASSUME Inv, JoinIInv, HealthyWarmup(coordinator), [Next]_vars
               PROVE  HealthyWarmup(coordinator)'
    OBVIOUS
  <2>1. HealthyWarmup(coordinator')
    BY NextPays
  <2> QED
    BY <2>1 DEF HealthyWarmup
<1> QED
  BY <1>1, <1>2, Invariance, JoinInvariance, PTL DEF Spec

\* The end of an epoch pays each client that finished it healthy the same share of
\* the rate, once, and no other step pays anybody: the single pass of tick() over
\* the registry and the epoch meets every finisher, and a warmup, whose end would
\* also pay, is never abandoned on chain.
THEOREM FinishersPaid == Spec => FinishersPaidOnce
<1> DEFINE Paid == open' /\ open =>
             \A k \in DOMAIN clients :
               LET finishers == {i \in DOMAIN coordinator'.clients :
                                   coordinator'.clients[i].state = "Healthy"}
                   finished == \E i \in finishers :
                                  coordinator'.clients[i].id = clients[k].id
                   ended == coordinator'.epoch # coordinator.epoch
                              /\ coordinator.run_state = "Cooldown"
               IN  clients'[k].earned - clients[k].earned =
                     IF ended /\ finished
                     THEN current_epoch_rates.earning \div Cardinality(finishers)
                     ELSE 0
<1>1. Inv /\ JoinIInv /\ HealthyWarmup(coordinator) /\ [Next]_vars => [Paid]_vars
  <2> SUFFICES ASSUME Inv, JoinIInv, HealthyWarmup(coordinator), [Next]_vars
               PROVE  Paid
    OBVIOUS
  <2>1. open' => StepPays
    BY NextPays
  <2> QED
    BY <2>1 DEF StepPays, Due, Finishers
<1>2. [][Paid]_vars => FinishersPaidOnce
  BY DEF FinishersPaidOnce
<1> HIDE DEF Paid
<1> QED
  BY <1>1, <1>2, Invariance, JoinInvariance, WarmupInvariance, PTL DEF Spec
=============================================================================
