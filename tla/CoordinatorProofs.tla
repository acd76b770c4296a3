-------------------------- MODULE CoordinatorProofs -------------------------
(***************************************************************************)
(* The coordinator is correct for every number of clients, witnesses and   *)
(* stored rounds, every valid configuration and every shuffle: its type,   *)
(* the safety properties of Coordinator and the refinement of              *)
(* TrainingLedger all follow from CoordinatorInv, which CoordinatorOpsProofs *)
(* shows every method to preserve; the stored rounds have RingIInv.        *)
(***************************************************************************)
EXTENDS Coordinator, CoordinatorOpsProofs, TLAPS

LEMMA PendingClientsArePending ==
    ASSUME NEW pending \in PendingClients \cup {<<>>}
    PROVE  IsPending(pending)
<1>1. CASE pending = <<>>
  BY <1>1 DEF IsPending
<1>2. CASE pending \in PendingClients
  <2>1. PICK n \in 0 .. Cardinality(ClientIds) :
           /\ pending \in [1 .. n -> ClientIds]
           /\ \A i, j \in 1 .. n : pending[i] = pending[j] => i = j
    BY <1>2 DEF PendingClients
  <2>2. n \in Nat
    OBVIOUS
  <2>3. pending \in Seq(ClientIds) /\ DOMAIN pending = 1 .. n
    BY <2>1, <2>2
  <2> QED
    BY <2>1, <2>3 DEF IsPending
<1> QED
  BY <1>1, <1>2

LEMMA InitInv == Init => Inv
<1> SUFFICES ASSUME Init PROVE Inv
  OBVIOUS
<1>1. PICK g \in Configs, ckpt \in InitialCheckpoints :
         coordinator = FreshCoordinator(g, ckpt, "WaitingForMembers")
  BY DEF Init
<1>2. ckpt \in Checkpoint
  BY InputsAssumption
<1>3. CoordinatorInv(coordinator)
  BY <1>1, <1>2, FreshInv DEF RunStates
<1> QED
  BY <1>3 DEF Init, Inv

\* Every step is the effect of one method, and so a good step.
LEMMA NextGood ==
    ASSUME Inv, Next
    PROVE  GoodStep(coordinator, coordinator')
<1>0. CoordinatorInv(coordinator) /\ coordinator \in CoordinatorType
  BY DEF Inv, CoordinatorInv
<1>1. CASE TickStep
  <2>1. PICK pending \in PendingClients \cup {<<>>}, seed \in Seeds :
           /\ CanTick(coordinator)
           /\ coordinator' = Tick(coordinator, pending, seed).st
    BY <1>1 DEF TickStep, Becomes
  <2> QED
    BY <1>0, <2>1, PendingClientsArePending, TickGood
<1>2. CASE WarmupWitnessStep
  <2>1. PICK from \in ClientIds, index \in 0 .. MaxClients - 1, seed \in Seeds :
           LET w == [from |-> from, index |-> index, position |-> index,
                     witness |-> FALSE, participants |-> {}]
           IN  /\ CanWarmupWitness(coordinator, w)
               /\ coordinator' = WarmupWitness(coordinator, w, seed)
    BY <1>2 DEF WarmupWitnessStep, Becomes
  <2>2. [from |-> from, index |-> index, position |-> index,
         witness |-> FALSE, participants |-> {}] \in Witness
    BY DEF Witness
  <2> QED
    BY <1>0, <2>1, <2>2, WarmupWitnessGood
<1>3. CASE WitnessStep
  <2>1. PICK from \in ClientIds, index \in 0 .. MaxClients - 1,
             position \in 0 .. MaxClients - 1, bloom \in Blooms :
           LET w == [from |-> from, index |-> index, position |-> position,
                     witness |-> TRUE, participants |-> bloom]
           IN  /\ CanWitness(coordinator, w)
               /\ coordinator' = WitnessEffect(coordinator, w)
    BY <1>3 DEF WitnessStep, Becomes
  <2>2. bloom \in SUBSET ClientIds /\ index \in Nat /\ position \in Nat
    BY InputsAssumption
  <2>3. [from |-> from, index |-> index, position |-> position,
         witness |-> TRUE, participants |-> bloom] \in Witness
    BY <2>2 DEF Witness
  <2> QED
    BY <1>0, <2>1, <2>3, WitnessGood
<1>4. CASE HealthCheckStep
  <2>1. PICK checks : coordinator' = HealthCheck(coordinator, checks)
    BY <1>4 DEF HealthCheckStep, Becomes
  <2>2. SameClients(coordinator, coordinator')
    BY <1>0, <2>1, HealthCheckSameClients
  <2> QED
    BY <1>0, <2>2, SameClientsInv, SameClientsLedger DEF GoodStep
<1>5. CASE CheckpointStep
  <2>1. PICK repo \in Repos : coordinator' = RecordCheckpoint(coordinator, repo)
    BY <1>5 DEF CheckpointStep, Becomes
  <2> QED
    BY <1>0, <2>1, CheckpointGood
<1>6. CASE WithdrawStep
  <2>1. PICK index \in 0 .. MaxClients - 1 : coordinator' = Withdraw(coordinator, index)
    BY <1>6 DEF WithdrawStep, Becomes
  <2>2. SameClients(coordinator, coordinator')
    BY <1>0, <2>1, WithdrawSameClients
  <2> QED
    BY <1>0, <2>2, SameClientsInv, SameClientsLedger DEF GoodStep
<1>7. CASE PauseStep
  BY <1>0, <1>7, PauseGood DEF PauseStep, Becomes
<1>8. CASE PauseFailsStep
  <2>1. SameClients(coordinator, coordinator')
    BY <1>0, <1>8, WithdrawAllSameClients DEF PauseFailsStep, Becomes
  <2> QED
    BY <1>0, <2>1, SameClientsInv, SameClientsLedger DEF GoodStep
<1>9. CASE ResumeStep
  BY <1>0, <1>9, ResumeGood DEF ResumeStep, Becomes
<1>10. CASE TimeStep
  BY <1>0, <1>10, TimePassesGood DEF TimeStep, Becomes
<1> QED
  BY <1>1, <1>2, <1>3, <1>4, <1>5, <1>6, <1>7, <1>8, <1>9, <1>10 DEF Next

\* The ghost variable keeps its type.
LEMMA RostersType ==
    ASSUME Inv, Next, coordinator' \in CoordinatorType
    PROVE  rosters' \in [RoundSlots -> SUBSET ClientIds]
<1>1. /\ coordinator'.rounds_head \in RoundSlots
      /\ Ids(coordinator'.clients) \in SUBSET ClientIds
  <2>1. \A i \in DOMAIN coordinator'.clients : coordinator'.clients[i] \in Client
    BY ClientOfList
  <2> QED
    BY <2>1 DEF CoordinatorType, Ids, Client
<1>2. Becomes(coordinator')
  BY ZenonT(30) DEF Next, TickStep, WarmupWitnessStep, WitnessStep, HealthCheckStep,
       CheckpointStep, WithdrawStep, PauseStep, PauseFailsStep, ResumeStep,
       TimeStep, Becomes
<1> QED
  BY <1>1, <1>2 DEF Becomes, Inv

LEMMA NextInv == Inv /\ [Next]_vars => Inv'
<1> SUFFICES ASSUME Inv, [Next]_vars PROVE Inv'
  OBVIOUS
<1>1. CASE Next
  <2>1. CoordinatorInv(coordinator')
    BY <1>1, NextGood DEF GoodStep
  <2>2. rosters' \in [RoundSlots -> SUBSET ClientIds]
    BY <1>1, <2>1, RostersType DEF CoordinatorInv
  <2> QED
    BY <2>1, <2>2 DEF Inv
<1>2. CASE UNCHANGED vars
  BY <1>2 DEF vars, Inv
<1> QED
  BY <1>1, <1>2

\* The inductive invariant holds in every behaviour of the coordinator.
THEOREM Invariance == Spec => []Inv
  BY InitInv, NextInv, PTL DEF Spec

\* Every field of Coordinator<T> keeps its type through every method.
THEOREM TypeCorrect == Spec => []TypeOK
<1>1. Inv => TypeOK
  BY DEF Inv, CoordinatorInv, TypeOK
<1> QED
  BY <1>1, Invariance, PTL

\* No stale request to pause outlives the epoch in which it was made.
THEOREM PendingPauseCorrect == Spec => []PendingPauseIsActive
<1>1. Inv => PendingPauseIsActive
  BY DEF Inv, CoordinatorInv, PendingPauseIsActive
<1> QED
  BY <1>1, Invariance, PTL

\* The witnesses of an open round are verified, and one per sender.
THEOREM WitnessesCorrect == Spec => []WitnessesInPlace
<1>1. Inv => WitnessesInPlace
  BY DEF Inv, CoordinatorInv, WitnessesInPlace
<1> QED
  BY <1>1, Invariance, PTL

\* No training round goes on once all the witnesses it waits for have reported.
THEOREM OpenRoundCorrect == Spec => []OpenRoundIsShortOfWitnesses
<1>1. Inv => OpenRoundIsShortOfWitnesses
  BY DEF Inv, CoordinatorInv, OpenRoundIsShortOfWitnesses
<1> QED
  BY <1>1, Invariance, PTL

\* Moving a client to the exited ones never overflows their vector, and no
\* client is listed twice in an epoch.
THEOREM RosterCorrect == Spec => []EpochRosterFits
<1>1. Inv => EpochRosterFits
  BY DEF Inv, CoordinatorInv, EpochRosterFits
<1> QED
  BY <1>1, Invariance, PTL

\* A round follows another one only if that one had a quorum of witnesses.
THEOREM QuorumCorrect == Spec => []PreviousRoundWitnessed
<1>1. Inv => PreviousRoundWitnessed
  BY DEF Inv, CoordinatorInv, PreviousRoundWitnessed
<1> QED
  BY <1>1, Invariance, PTL

\* The last step of an epoch cannot be missed.
THEOREM LastStepCorrect == Spec => []LastStepAhead
<1>1. Inv => LastStepAhead
  BY DEF Inv, CoordinatorInv, LastStepAhead
<1> QED
  BY <1>1, Invariance, PTL

-----------------------------------------------------------------------------
(* Refinement of the training ledger. *)

LEMMA LedgerInitial == Init => Ledger!LedgerInit
<1> SUFFICES ASSUME Init PROVE Ledger!LedgerInit
  OBVIOUS
<1>1. PICK g \in Configs, ckpt \in InitialCheckpoints :
         coordinator = FreshCoordinator(g, ckpt, "WaitingForMembers")
  BY DEF Init
<1>2. /\ coordinator.run_state = "WaitingForMembers" /\ coordinator.config = g
      /\ coordinator.step = 1 /\ coordinator.epoch_start_data_index = 0
  BY <1>1 DEF FreshCoordinator
<1>3. InRound(coordinator) = FALSE /\ LedgerIndex(coordinator) = 0
  BY <1>2 DEF InRound, LedgerIndex
<1> QED
  BY <1>2, <1>3 DEF Ledger!LedgerInit

LEMMA LedgerNextStep ==
    ASSUME Inv, [Next]_vars
    PROVE  [Ledger!LedgerNext]_(Ledger!ledgerVars)
<1>1. CASE Next
  <2>1. LedgerStep(coordinator, coordinator')
    BY <1>1, NextGood DEF GoodStep
  <2>2. InRound(coordinator') \in BOOLEAN /\ InRound(coordinator) \in BOOLEAN
    BY DEF InRound
  <2> QED
    BY <2>1, <2>2 DEF LedgerStep, Ledger!LedgerNext, Ledger!ledgerVars,
       Ledger!BeginStep, Ledger!CompleteStep, Ledger!StepAllowed, StepAllowed,
       Ledger!BatchSize, BatchSize
<1>2. CASE UNCHANGED vars
  BY <1>2 DEF vars, Ledger!ledgerVars
<1> QED
  BY <1>1, <1>2

\* Steps are trained in order, on contiguous batches, and never beyond
\* total_steps: the coordinator implements the training ledger.
THEOREM LedgerCorrect == Spec => KeepsLedger
  BY LedgerInitial, LedgerNextStep, Invariance, PTL DEF Spec, KeepsLedger, Ledger!LedgerSpec

-----------------------------------------------------------------------------
(* The stored rounds.  A round is stored with the number of its clients only: *)
(* they are the clients that are still there and the last ones that left.     *)

\* The clients of a round with n clients are ids.
Remembers(c, n, ids) ==
    LET here == Len(c.clients)
        left == Len(c.exited_clients)
    IN  /\ here <= n /\ n - here <= left
        /\ ids = {c.clients[i].id : i \in DOMAIN c.clients}
                   \cup {c.exited_clients[j].id : j \in left - (n - here) + 1 .. left}

\* The slot of the round before the current one, by so many.
Slot(head, back) == (head + NumStoredRounds - back) % NumStoredRounds

RoundsRemembered(c, ros) ==
    \A back \in 0 .. NumStoredRounds - 1 :
       back <= CurrentRound(c).height =>
         LET slot == Slot(c.rounds_head, back)
         IN  /\ c.rounds[slot].height = CurrentRound(c).height - back
             /\ Remembers(c, c.rounds[slot].clients_len, ros[slot])

\* The inductive invariant of the ring.
RingIInv == Active(coordinator) => RoundsRemembered(coordinator, rosters)

\* The ring is as long as NumStoredRounds: slots count down and wrap around once.
LEMMA SlotFacts ==
    ASSUME NEW h \in RoundSlots, NEW back \in 0 .. NumStoredRounds - 1
    PROVE  /\ Slot(h, back) = IF back <= h THEN h - back ELSE h + NumStoredRounds - back
           /\ Slot(h, back) \in RoundSlots
<1> DEFINE N == NumStoredRounds
<1>1. N \in Nat /\ N > 1 /\ h \in Nat /\ h < N /\ back \in Nat /\ back < N
  BY SizesAssumption DEF RoundSlots
<1>2. CASE back <= h
  <2>1. h - back \in Nat /\ h - back < N /\ h + N - back = N + (h - back)
    BY <1>1, <1>2
  <2>2. \A k \in Nat : k < N => (N + k) % N = k
    BY <1>1
  <2>3. Slot(h, back) = h - back
    BY <2>1, <2>2 DEF Slot
  <2> QED
    BY <1>1, <1>2, <2>1, <2>3 DEF RoundSlots
<1>3. CASE back > h
  <2>1. h + N - back \in Nat /\ h + N - back < N
    BY <1>1, <1>3
  <2>2. \A k \in Nat : k < N => k % N = k
    BY <1>1
  <2>3. Slot(h, back) = h + N - back
    BY <2>1, <2>2 DEF Slot
  <2> QED
    BY <1>1, <1>3, <2>1, <2>3 DEF RoundSlots
<1> QED
  BY <1>1, <1>2, <1>3

\* The slots as seen from the next one.
LEMMA RingTurns ==
    ASSUME NEW h \in RoundSlots, NEW g, g = (h + 1) % NumStoredRounds,
           NEW back \in 1 .. NumStoredRounds - 1
    PROVE  /\ Slot(g, back) = Slot(h, back - 1) /\ Slot(g, back) # g
           /\ Slot(g, back) \in RoundSlots /\ g \in RoundSlots
<1>1. /\ NumStoredRounds \in Nat /\ NumStoredRounds > 1
      /\ h \in Nat /\ h < NumStoredRounds
  BY SizesAssumption DEF RoundSlots
<1>2. /\ g \in RoundSlots
      /\ g = 0 => h = NumStoredRounds - 1
      /\ g # 0 => g = h + 1
  BY NextSlot
<1>3. back \in 0 .. NumStoredRounds - 1 /\ back - 1 \in 0 .. NumStoredRounds - 1
  BY <1>1
<1>4. /\ Slot(g, back) = IF back <= g THEN g - back ELSE g + NumStoredRounds - back
      /\ Slot(g, back) \in RoundSlots
  BY <1>2, <1>3, SlotFacts
<1>5. Slot(h, back - 1) = IF back - 1 <= h THEN h - (back - 1)
                                           ELSE h + NumStoredRounds - (back - 1)
  BY <1>3, SlotFacts
<1>6. g \in Nat /\ back \in Nat /\ back >= 1 /\ back < NumStoredRounds
  BY <1>1, <1>2 DEF RoundSlots
<1>7. CASE g = 0
  BY <1>1, <1>2, <1>4, <1>5, <1>6, <1>7
<1>8. CASE g # 0
  BY <1>1, <1>2, <1>4, <1>5, <1>6, <1>8
<1> QED
  BY <1>7, <1>8

\* The same lists of clients and the same rounds, but for states and witnesses.
LEMMA SameRing ==
    ASSUME NEW c \in CoordinatorType, NEW d, NEW ros, RoundsRemembered(c, ros),
           d.rounds_head = c.rounds_head,
           \A s \in RoundSlots : /\ d.rounds[s].height = c.rounds[s].height
                                 /\ d.rounds[s].clients_len = c.rounds[s].clients_len,
           Len(d.clients) = Len(c.clients), DOMAIN d.clients = DOMAIN c.clients,
           \A i \in DOMAIN c.clients : d.clients[i].id = c.clients[i].id,
           d.exited_clients = c.exited_clients
    PROVE  RoundsRemembered(d, ros)
<1>1. c.rounds_head \in RoundSlots
  BY DEF CoordinatorType
<1>2. CurrentRound(d).height = CurrentRound(c).height
  BY <1>1 DEF CurrentRound
<1>3. {d.clients[i].id : i \in DOMAIN d.clients} = {c.clients[i].id : i \in DOMAIN c.clients}
  OBVIOUS
<1>4. \A n, ids : Remembers(c, n, ids) => Remembers(d, n, ids)
  BY <1>3 DEF Remembers
<1>5. \A back \in 0 .. NumStoredRounds - 1 : Slot(c.rounds_head, back) \in RoundSlots
  BY <1>1, SlotFacts
<1> QED
  BY <1>2, <1>4, <1>5 DEF RoundsRemembered

\* Whoever leaves is the last that left, in every round that knew it.
LEMMA MovedRemembers ==
    ASSUME NEW c \in CoordinatorType, NEW height \in Nat, NEW n \in Nat, NEW ids,
           Remembers(c, n, ids)
    PROVE  Remembers(MoveClientsToExited(c, height), n, ids)
<1> DEFINE m == MoveClientsToExited(c, height)
           a == Len(c.clients)
           x == Len(c.exited_clients)
           b == Len(m.clients)
           y == Len(m.exited_clients)
           from == x - (n - a) + 1
<1>1. /\ m \in CoordinatorType /\ b + y = a + x /\ b <= a
      /\ \A j \in 1 .. x : m.exited_clients[j] = c.exited_clients[j]
      /\ {c.clients[k].id : k \in DOMAIN c.clients}
           = {m.clients[i].id : i \in DOMAIN m.clients}
               \cup {m.exited_clients[j].id : j \in x + 1 .. y}
  BY MoveClientsFacts
<1> HIDE DEF m
<1>2. a \in Nat /\ x \in Nat /\ b \in Nat /\ y \in Nat
  <2>1. \A e \in CoordinatorType : Len(e.clients) \in Nat /\ Len(e.exited_clients) \in Nat
    BY LenProperties DEF CoordinatorType
  <2> QED
    BY <1>1, <2>1
<1>3. /\ a <= n /\ n - a <= x
      /\ ids = {c.clients[i].id : i \in DOMAIN c.clients}
                 \cup {c.exited_clients[j].id : j \in from .. x}
  BY DEF Remembers
<1> HIDE DEF a, x, b, y
<1>4. /\ b <= n /\ n - b <= y /\ y - (n - b) + 1 = from
      /\ from \in Nat /\ from >= 1 /\ from <= x + 1 /\ x <= y
  BY <1>1, <1>2, <1>3
<1>5. {m.exited_clients[j].id : j \in from .. y}
        = {c.exited_clients[j].id : j \in from .. x} \cup {m.exited_clients[j].id : j \in x + 1 .. y}
  <2>1. \A j \in from .. y : j \in from .. x \/ j \in x + 1 .. y
    BY <1>2, <1>4
  <2>2. \A j \in from .. x : j \in from .. y /\ j \in 1 .. x
    BY <1>2, <1>4
  <2>3. \A j \in x + 1 .. y : j \in from .. y
    BY <1>2, <1>4
  <2> HIDE DEF from
  <2>4. \A j \in from .. x : m.exited_clients[j] = c.exited_clients[j]
    BY <1>1, <2>2
  <2> QED
    BY <2>1, <2>2, <2>3, <2>4
<1>6. ids = {m.clients[i].id : i \in DOMAIN m.clients}
              \cup {m.exited_clients[j].id : j \in from .. y}
  <2> HIDE DEF from
  <2> QED
    BY <1>1, <1>3, <1>5
<1>7. b <= n /\ n - b <= y
      /\ ids = {m.clients[i].id : i \in DOMAIN m.clients}
                 \cup {m.exited_clients[j].id : j \in y - (n - b) + 1 .. y}
  BY <1>4, <1>6
<1> QED
  BY <1>7 DEF Remembers, b, y, m

\* move_clients_to_exited leaves the rounds alone.
LEMMA MovedRing ==
    ASSUME NEW c \in CoordinatorType, NEW height \in Nat, NEW ros, RoundsRemembered(c, ros)
    PROVE  RoundsRemembered(MoveClientsToExited(c, height), ros)
<1> DEFINE m == MoveClientsToExited(c, height)
<1>1. m = [c EXCEPT !.clients = m.clients, !.exited_clients = m.exited_clients]
  BY MoveClientsFacts
<1>2. \A n \in Nat : \A ids : Remembers(c, n, ids) => Remembers(m, n, ids)
  BY MovedRemembers
<1> HIDE DEF m
<1>3. m.rounds = c.rounds /\ m.rounds_head = c.rounds_head /\ CurrentRound(m) = CurrentRound(c)
  BY <1>1 DEF CoordinatorType, CurrentRound
<1>4. c.rounds_head \in RoundSlots /\ \A s \in RoundSlots : c.rounds[s].clients_len \in Nat
  BY DEF CoordinatorType, Round
<1>5. \A back \in 0 .. NumStoredRounds - 1 :
         /\ Slot(c.rounds_head, back) \in RoundSlots
         /\ c.rounds[Slot(c.rounds_head, back)].clients_len \in Nat
  BY <1>4, SlotFacts
<1>6. RoundsRemembered(m, ros)
  BY <1>2, <1>3, <1>5 DEF RoundsRemembered
<1> QED
  BY <1>6 DEF m

\* The ring that start_round_train leaves.
LEMMA StartedRing ==
    ASSUME NEW c \in CoordinatorType, NEW seed
    PROVE  LET d == StartRoundTrain(c, seed)
               head == IF c.first_round THEN 0 ELSE (c.rounds_head + 1) % NumStoredRounds
           IN  /\ d.run_state = "RoundTrain" /\ d.rounds_head = head /\ head \in RoundSlots
               /\ d.clients = c.clients /\ d.exited_clients = c.exited_clients
               /\ d.rounds[head].height
                    = IF c.first_round THEN 0 ELSE CurrentRound(c).height + 1
               /\ d.rounds[head].clients_len = Len(c.clients)
               /\ \A s \in RoundSlots \ {head} : d.rounds[s] = c.rounds[s]
<1> DEFINE prev == CurrentRound(c)
           head == IF c.first_round THEN 0 ELSE (c.rounds_head + 1) % NumStoredRounds
           round == [witnesses |-> <<>>,
                     data_index |-> IF c.first_round THEN c.epoch_start_data_index
                                    ELSE NextDataIndex(c, prev),
                     random_seed |-> seed,
                     height |-> IF c.first_round THEN 0 ELSE prev.height + 1,
                     clients_len |-> Len(c.clients)]
           d == StartRoundTrain(c, seed)
<1>1. d = [c EXCEPT !.rounds[head] = round, !.rounds_head = head,
                    !.run_state = "RoundTrain", !.age = 0]
  BY DEF StartRoundTrain, ChangeState
<1>2. /\ round.clients_len = Len(c.clients)
      /\ round.height = IF c.first_round THEN 0 ELSE prev.height + 1
  OBVIOUS
<1>3. head \in RoundSlots
  BY SMTT(30), NextSlot, SizesAssumption DEF RoundSlots, CoordinatorType
<1> HIDE DEF d, round, head
<1>4. /\ d.run_state = "RoundTrain" /\ d.rounds_head = head
      /\ d.clients = c.clients /\ d.exited_clients = c.exited_clients
      /\ d.rounds = [c.rounds EXCEPT ![head] = round]
  BY <1>1 DEF CoordinatorType
<1>5. DOMAIN c.rounds = RoundSlots
  BY DEF CoordinatorType
<1>6. d.rounds[head] = round /\ \A s \in RoundSlots \ {head} : d.rounds[s] = c.rounds[s]
  BY <1>3, <1>4, <1>5
<1> QED
  BY <1>2, <1>3, <1>4, <1>6 DEF d, head

\* A new round is remembered as it starts; the one that its slot held is older than
\* the ring, and the others are one further back.
LEMMA StartRemembers ==
    ASSUME NEW c \in CoordinatorType, NEW seed, NEW ros \in [RoundSlots -> SUBSET ClientIds],
           c.first_round \/ RoundsRemembered(c, ros)
    PROVE  LET d == StartRoundTrain(c, seed)
           IN  RoundsRemembered(d, [ros EXCEPT ![d.rounds_head] = Ids(d.clients)])
<1> DEFINE d == StartRoundTrain(c, seed)
           head == IF c.first_round THEN 0 ELSE (c.rounds_head + 1) % NumStoredRounds
           new == [ros EXCEPT ![d.rounds_head] = Ids(d.clients)]
           top == IF c.first_round THEN 0 ELSE CurrentRound(c).height + 1
<1>1. /\ d.rounds_head = head /\ head \in RoundSlots
      /\ d.clients = c.clients /\ d.exited_clients = c.exited_clients
      /\ d.rounds[head].height = top
      /\ d.rounds[head].clients_len = Len(c.clients)
      /\ \A s \in RoundSlots \ {head} : d.rounds[s] = c.rounds[s]
  BY StartedRing
<1>a. ~c.first_round => head = (c.rounds_head + 1) % NumStoredRounds
  OBVIOUS
<1>b. c.first_round => top = 0
  OBVIOUS
<1>c. ~c.first_round => top = CurrentRound(c).height + 1
  OBVIOUS
<1> HIDE DEF d, head, top
<1>2. new[head] = Ids(c.clients) /\ \A s \in RoundSlots \ {head} : new[s] = ros[s]
  BY <1>1
<1>3. /\ Len(c.clients) \in Nat /\ Len(c.exited_clients) \in Nat
      /\ CurrentRound(c).height \in Nat /\ c.rounds_head \in RoundSlots
  BY ClientOfList, CurrentRoundType, LenProperties DEF CoordinatorType, Round
<1>4. Remembers(d, Len(c.clients), Ids(c.clients))
  <2>1. {c.exited_clients[j].id :
           j \in Len(c.exited_clients) - (Len(c.clients) - Len(c.clients)) + 1
                   .. Len(c.exited_clients)} = {}
    <3>1. Len(c.exited_clients) - (Len(c.clients) - Len(c.clients)) + 1
            .. Len(c.exited_clients) = {}
      BY <1>3
    <3> QED
      BY <3>1
  <2> QED
    BY <1>1, <1>3, <2>1 DEF Remembers, Ids
<1>5. \A n, ids : Remembers(c, n, ids) => Remembers(d, n, ids)
  BY <1>1 DEF Remembers
<1>6. CurrentRound(d).height = top /\ top \in Nat
  BY <1>1, <1>3, <1>b, <1>c DEF CurrentRound
<1>7. Slot(head, 0) = head
  <2>1. 0 \in 0 .. NumStoredRounds - 1 /\ head \in Nat
    BY <1>1, SizesAssumption DEF RoundSlots
  <2>2. Slot(head, 0) = IF 0 <= head THEN head - 0 ELSE head + NumStoredRounds - 0
    BY <1>1, <2>1, SlotFacts
  <2> QED
    BY <2>1, <2>2
<1> HIDE DEF new
<1>8. ASSUME NEW back \in 0 .. NumStoredRounds - 1, back <= top
      PROVE  /\ d.rounds[Slot(head, back)].height = top - back
             /\ Remembers(d, d.rounds[Slot(head, back)].clients_len, new[Slot(head, back)])
  <2>1. CASE back = 0
    BY <1>1, <1>2, <1>4, <1>6, <1>7, <2>1
  <2>2. CASE back # 0
    <3>1. NumStoredRounds \in Nat /\ back \in Nat
      BY SizesAssumption
    <3>2. ~c.first_round /\ top = CurrentRound(c).height + 1
      BY <1>b, <1>c, <1>8, <2>2, <3>1
    <3>3. /\ back \in 1 .. NumStoredRounds - 1 /\ back - 1 \in 0 .. NumStoredRounds - 1
          /\ back - 1 <= CurrentRound(c).height
          /\ CurrentRound(c).height - (back - 1) = top - back
      BY <1>3, <1>8, <2>2, <3>1, <3>2
    <3> DEFINE s == Slot(head, back)
    <3>4. s = Slot(c.rounds_head, back - 1) /\ s # head /\ s \in RoundSlots
      BY <1>3, <1>a, <3>2, <3>3, RingTurns
    <3> HIDE DEF s
    <3>5. /\ c.rounds[s].height = CurrentRound(c).height - (back - 1)
          /\ Remembers(c, c.rounds[s].clients_len, ros[s])
      BY <3>2, <3>3, <3>4 DEF RoundsRemembered
    <3>6. d.rounds[s] = c.rounds[s] /\ new[s] = ros[s]
      BY <1>1, <1>2, <3>4
    <3> QED
      BY <1>5, <3>3, <3>5, <3>6 DEF s
  <2> QED
    BY <2>1, <2>2
<1>9. RoundsRemembered(d, new)
  BY <1>1, <1>6, <1>8 DEF RoundsRemembered
<1> QED
  BY <1>9 DEF d, new

\* What the ghost records for a coordinator that becomes d.
Recorded(c, d, ros) ==
    IF d.run_state = "RoundTrain" /\ c.run_state # "RoundTrain"
    THEN [ros EXCEPT ![d.rounds_head] = Ids(d.clients)]
    ELSE ros

\* d keeps the ring, if it is in an epoch.
RingKept(c, d, ros) == Active(d) => RoundsRemembered(d, Recorded(c, d, ros))

\* The end of a round: clients leave, and the next round or the cooldown starts.
LEMMA RoundWitnessRing ==
    ASSUME NEW c, CoordinatorInv(c), c.run_state = "RoundWitness", NEW seed,
           NEW ros \in [RoundSlots -> SUBSET ClientIds], RoundsRemembered(c, ros)
    PROVE  RingKept(c, TickRoundWitness(c, seed).st, ros)
<1>0. c \in CoordinatorType /\ CurrentRound(c) \in Round /\ CurrentRound(c).height \in Nat
  BY CurrentRoundType DEF CoordinatorInv, Round
<1>1. CASE ~CheckTimeout(c, c.config.round_witness_time)
  <2>1. TickRoundWitness(c, seed).st = c
    BY <1>1 DEF TickRoundWitness, Ticked
  <2>2. Recorded(c, c, ros) = ros
    BY DEF Recorded
  <2> QED
    BY <2>1, <2>2 DEF RingKept
<1>2. CASE CheckTimeout(c, c.config.round_witness_time)
  <2> DEFINE e == [c EXCEPT !.first_round = FALSE, !.step = c.step + 1]
             moved == MoveClientsToExited(e, CurrentRound(c).height)
             next == SetLastStep(moved)
             w == WithdrawAll(moved)
             n == Len(CurrentRound(c).witnesses)
             d == IF n = 0 THEN StartCooldown(w)
                  ELSE IF EpochMustEnd(next, n) THEN StartCooldown(next)
                  ELSE StartRoundTrain(next, seed)
  <2>1. TickRoundWitness(c, seed).st = d
    <3>1. e = [c EXCEPT !.first_round = FALSE, !.step = @ + 1]
      BY <1>0 DEF CoordinatorType
    <3> HIDE DEF e
    <3> QED
      BY <1>2, <3>1 DEF TickRoundWitness, Ticked
  <2>2. /\ e \in CoordinatorType /\ e.clients = c.clients /\ e.exited_clients = c.exited_clients
        /\ e.rounds = c.rounds /\ e.rounds_head = c.rounds_head
    <3>1. \A k \in Nat :
             LET x == [c EXCEPT !.first_round = FALSE, !.step = k]
             IN  /\ x \in CoordinatorType /\ x.clients = c.clients
                 /\ x.exited_clients = c.exited_clients
                 /\ x.rounds = c.rounds /\ x.rounds_head = c.rounds_head
      BY <1>0 DEF CoordinatorType
    <3>2. c.step + 1 \in Nat
      BY <1>0 DEF CoordinatorType
    <3> QED
      BY <3>1, <3>2
  <2> HIDE DEF e
  <2>3. RoundsRemembered(e, ros)
    BY SMTT(30), <1>0, <2>2, SameRing
  <2>4. moved \in CoordinatorType /\ RoundsRemembered(moved, ros)
    BY <1>0, <2>2, <2>3, MovedRing, MoveClientsFacts
  <2> HIDE DEF moved
  <2>5. /\ next \in CoordinatorType
        /\ next.clients = moved.clients /\ next.exited_clients = moved.exited_clients
        /\ next.rounds = moved.rounds /\ next.rounds_head = moved.rounds_head
    BY <2>4, SetLastStepFacts
  <2>6. SameClients(moved, w)
    BY <2>4, WithdrawAllSameClients
  <2>7. /\ w \in CoordinatorType /\ Len(w.clients) = Len(moved.clients)
        /\ DOMAIN w.clients = DOMAIN moved.clients
        /\ \A i \in DOMAIN moved.clients : w.clients[i].id = moved.clients[i].id
        /\ w.exited_clients = moved.exited_clients
        /\ w.rounds = moved.rounds /\ w.rounds_head = moved.rounds_head
    BY <2>4, <2>6 DEF SameClients, CoordinatorType
  <2> HIDE DEF next, w, n
  <2>8. RoundsRemembered(next, ros)
    BY <2>4, <2>5, SameRing
  <2>9. RoundsRemembered(w, ros)
    BY <2>4, <2>7, SameRing
  <2>10. \A x \in CoordinatorType :
            RoundsRemembered(x, ros) =>
              /\ RoundsRemembered(StartCooldown(x), ros)
              /\ StartCooldown(x).run_state = "Cooldown"
    <3> SUFFICES ASSUME NEW x \in CoordinatorType, RoundsRemembered(x, ros)
                 PROVE  /\ RoundsRemembered(StartCooldown(x), ros)
                        /\ StartCooldown(x).run_state = "Cooldown"
      OBVIOUS
    <3>1. LET y == StartCooldown(x)
          IN  /\ y.run_state = "Cooldown" /\ y.rounds_head = x.rounds_head
              /\ y.clients = x.clients /\ y.exited_clients = x.exited_clients
              /\ y.rounds = [x.rounds EXCEPT ![x.rounds_head].witnesses = <<>>]
      BY DEF StartCooldown, ChangeState, CoordinatorType
    <3>2. x.rounds \in [RoundSlots -> Round] /\ x.rounds_head \in RoundSlots
      BY DEF CoordinatorType
    <3> DEFINE y == StartCooldown(x)
    <3>3. \A s \in RoundSlots : /\ y.rounds[s].height = x.rounds[s].height
                                /\ y.rounds[s].clients_len = x.rounds[s].clients_len
      BY <3>1, <3>2 DEF Round
    <3> HIDE DEF y
    <3>a. /\ y.rounds_head = x.rounds_head /\ y.exited_clients = x.exited_clients
          /\ Len(y.clients) = Len(x.clients) /\ DOMAIN y.clients = DOMAIN x.clients
          /\ \A i \in DOMAIN x.clients : y.clients[i].id = x.clients[i].id
      BY <3>1 DEF y
    <3>4. RoundsRemembered(y, ros)
      BY <3>3, <3>a, SameRing
    <3> QED
      BY <3>1, <3>4 DEF y
  <2>11. CASE d = StartCooldown(w) \/ d = StartCooldown(next)
    <3>1. RoundsRemembered(d, ros) /\ d.run_state = "Cooldown"
      BY <2>5, <2>7, <2>8, <2>9, <2>10, <2>11
    <3> HIDE DEF d
    <3> QED
      BY <2>1, <3>1 DEF RingKept, Recorded
  <2>12. CASE d = StartRoundTrain(next, seed)
    <3>1. /\ RoundsRemembered(d, [ros EXCEPT ![d.rounds_head] = Ids(d.clients)])
          /\ d.run_state = "RoundTrain"
      <4>1. LET x == StartRoundTrain(next, seed)
            IN  RoundsRemembered(x, [ros EXCEPT ![x.rounds_head] = Ids(x.clients)])
        BY <2>5, <2>8, StartRemembers
      <4>2. StartRoundTrain(next, seed).run_state = "RoundTrain"
        BY <2>5, StartedRing
      <4> QED
        BY <2>12, <4>1, <4>2
    <3> HIDE DEF d
    <3> QED
      BY <2>1, <3>1 DEF RingKept, Recorded
  <2> QED
    BY <2>11, <2>12
<1> QED
  BY <1>1, <1>2

\* The first round of an epoch takes the first slot.
LEMMA FirstRoundRing ==
    ASSUME NEW c \in CoordinatorType, c.run_state # "RoundTrain",
           NEW x \in CoordinatorType, x.first_round, NEW seed,
           NEW ros \in [RoundSlots -> SUBSET ClientIds]
    PROVE  RingKept(c, StartRoundTrain(x, seed), ros)
<1> DEFINE d == StartRoundTrain(x, seed)
<1>1. /\ RoundsRemembered(d, [ros EXCEPT ![d.rounds_head] = Ids(d.clients)])
      /\ d.run_state = "RoundTrain"
  BY StartRemembers, StartedRing
<1> HIDE DEF d
<1>2. RingKept(c, d, ros)
  BY <1>1 DEF RingKept, Recorded
<1> QED
  BY <1>2 DEF d

\* tick, by run state.
LEMMA TickRing ==
    ASSUME NEW c, CoordinatorInv(c), CanTick(c), NEW pending, NEW seed,
           NEW ros \in [RoundSlots -> SUBSET ClientIds],
           Active(c) => RoundsRemembered(c, ros)
    PROVE  RingKept(c, Tick(c, pending, seed).st, ros)
<1>0. c \in CoordinatorType
  BY DEF CoordinatorInv
<1>1. c.run_state \in {"WaitingForMembers", "Warmup", "RoundTrain", "RoundWitness", "Cooldown"}
  BY <1>0 DEF CanTick, Halted, CoordinatorType, RunStates
<1>a. RingKept(c, c, ros)
  BY DEF RingKept, Recorded
<1>2. CASE c.run_state = "WaitingForMembers"
  <2> DEFINE d == Tick(c, pending, seed).st
  <2>1. d = c \/ d.run_state = "Warmup"
    <3>1. \/ d = c
          \/ /\ c.age # 0
             /\ d.run_state = "Warmup" /\ d.first_round
             /\ d.clients = [i \in DOMAIN Admitted(pending) |-> NewClient(Admitted(pending)[i])]
      BY <1>0, <1>2, WaitingMoves
    <3> HIDE DEF d
    <3> QED
      BY <3>1
  <2> HIDE DEF d
  <2>2. RingKept(c, d, ros)
    BY <1>a, <2>1 DEF RingKept, Active
  <2> QED
    BY <2>2 DEF d
<1>3. CASE c.run_state = "Warmup"
  <2>1. Tick(c, pending, seed) = TickWarmup(c, seed)
    BY <1>3 DEF Tick
  <2>2. c.first_round
    BY <1>3 DEF CoordinatorInv, WarmupIsFresh
  <2> DEFINE d == TickWarmup(c, seed).st
  <2>3. CASE CheckTimeout(c, c.config.warmup_time)
    <3> DEFINE s == StartRoundTrain(c, seed)
    <3>1. RingKept(c, s, ros)
      BY <1>0, <1>3, <2>2, FirstRoundRing
    <3>2. \/ TickWarmup(c, seed) = Ticked(s)
          \/ TickWarmup(c, seed) = [st |-> StartWaitingForMembers(s), result |-> "EpochAbandoned"]
      BY <2>3 DEF TickWarmup
    <3>3. \/ TickWarmup(c, seed).result = "Ticked"
          \/ TickWarmup(c, seed).st.run_state \in {"WaitingForMembers", "Finished"}
      BY <1>3, <2>1, WarmupMoves
    <3> HIDE DEF s
    <3>4. d = s \/ d.run_state \in {"WaitingForMembers", "Finished"}
      BY <3>2, <3>3 DEF Ticked
    <3> HIDE DEF d
    <3>5. RingKept(c, d, ros)
      BY <3>1, <3>4 DEF RingKept, Active
    <3> QED
      BY <2>1, <3>5 DEF d
  <2>4. CASE ~CheckTimeout(c, c.config.warmup_time)
    <3> DEFINE m == MoveClientsToExited(c, 0)
    <3>1. m \in CoordinatorType /\ m.run_state = "Warmup"
      BY <1>0, <1>3, MovedWithin
    <3>2. d = m \/ d = StartWaitingForMembers(m)
      BY <2>4 DEF TickWarmup, Ticked
    <3> HIDE DEF m, d
    <3>3. d.run_state \in {"Warmup", "WaitingForMembers", "Finished"}
      BY <3>1, <3>2, StartsKeepClients
    <3>4. RingKept(c, d, ros)
      BY <3>3 DEF RingKept, Active
    <3> QED
      BY <2>1, <3>4 DEF d
  <2> QED
    BY <2>3, <2>4
<1>4. CASE c.run_state = "RoundTrain"
  <2> DEFINE d == Tick(c, pending, seed).st
             e == ChangeState(c, "RoundWitness")
  <2>1. d = c \/ d = e
    BY <1>4 DEF Tick, TickRoundTrain, Ticked
  <2>2. /\ e.clients = c.clients /\ e.exited_clients = c.exited_clients
        /\ e.rounds = c.rounds /\ e.rounds_head = c.rounds_head /\ e.run_state = "RoundWitness"
    BY <1>0 DEF ChangeState, CoordinatorType
  <2> HIDE DEF e, d
  <2>3. RoundsRemembered(e, ros)
    BY <1>0, <1>4, <2>2, SameRing DEF Active
  <2>4. RingKept(c, d, ros)
    BY <1>a, <2>1, <2>2, <2>3 DEF RingKept, Recorded
  <2> QED
    BY <2>4 DEF d
<1>5. CASE c.run_state = "RoundWitness"
  <2>1. RoundsRemembered(c, ros)
    BY <1>5 DEF Active
  <2>2. Tick(c, pending, seed) = TickRoundWitness(c, seed)
    BY <1>5 DEF Tick
  <2> QED
    BY <1>5, <2>1, <2>2, RoundWitnessRing
<1>6. CASE c.run_state = "Cooldown"
  <2> DEFINE d == Tick(c, pending, seed).st
  <2>1. Tick(c, pending, seed) = TickCooldown(c)
    BY <1>6 DEF Tick
  <2>2. CASE CheckTimeout(c, c.config.cooldown_time)
    <3>1. d.run_state \in {"WaitingForMembers", "Finished", "Paused"}
      BY <1>6, <2>1, <2>2, CooldownEnds
    <3> HIDE DEF d
    <3>2. RingKept(c, d, ros)
      BY <3>1 DEF RingKept, Active
    <3> QED
      BY <3>2 DEF d
  <2>3. CASE ~CheckTimeout(c, c.config.cooldown_time)
    <3>1. d = c
      BY <2>1, <2>3 DEF TickCooldown, Ticked
    <3> QED
      BY <1>a, <3>1
  <2> QED
    BY <2>2, <2>3
<1> QED
  BY <1>1, <1>2, <1>3, <1>4, <1>5, <1>6

\* The methods that leave the lists and the rounds alone, but for states of clients,
\* witnesses and the run state.
LEMMA MethodRing ==
    ASSUME NEW c \in CoordinatorType, NEW d, NEW ros, Active(c) => RoundsRemembered(c, ros),
           Active(d) => Active(c),
           d.run_state = "RoundTrain" => c.run_state = "RoundTrain",
           d.rounds_head = c.rounds_head,
           \A s \in RoundSlots : /\ d.rounds[s].height = c.rounds[s].height
                                 /\ d.rounds[s].clients_len = c.rounds[s].clients_len,
           Len(d.clients) = Len(c.clients), DOMAIN d.clients = DOMAIN c.clients,
           \A i \in DOMAIN c.clients : d.clients[i].id = c.clients[i].id,
           d.exited_clients = c.exited_clients
    PROVE  RingKept(c, d, ros)
<1>1. Recorded(c, d, ros) = ros
  BY DEF Recorded
<1>2. Active(d) => RoundsRemembered(d, ros)
  BY SameRing
<1> QED
  BY <1>1, <1>2 DEF RingKept

\* Those that change nothing but the states of clients.
LEMMA SameClientsRing ==
    ASSUME NEW c \in CoordinatorType, NEW d, NEW ros, Active(c) => RoundsRemembered(c, ros),
           SameClients(c, d)
    PROVE  RingKept(c, d, ros)
<1>1. /\ d.run_state = c.run_state /\ d.rounds = c.rounds /\ d.rounds_head = c.rounds_head
      /\ d.exited_clients = c.exited_clients
      /\ Len(d.clients) = Len(c.clients) /\ DOMAIN d.clients = DOMAIN c.clients
      /\ \A i \in DOMAIN c.clients : d.clients[i].id = c.clients[i].id
  BY DEF SameClients, CoordinatorType
<1> QED
  BY <1>1, MethodRing DEF Active

\* A witness is added to the current round.
LEMMA PushWitnessRing ==
    ASSUME NEW c \in CoordinatorType, NEW w \in Witness
    PROVE  LET d == PushWitness(c, w)
           IN  /\ d.rounds_head = c.rounds_head
               /\ \A s \in RoundSlots : /\ d.rounds[s].height = c.rounds[s].height
                                        /\ d.rounds[s].clients_len = c.rounds[s].clients_len
<1> DEFINE d == PushWitness(c, w)
           h == c.rounds_head
           ws == Append(c.rounds[h].witnesses, w)
<1>1. c.rounds \in [RoundSlots -> Round] /\ h \in RoundSlots
  BY DEF CoordinatorType
<1>2. d.rounds_head = h /\ d.rounds = [c.rounds EXCEPT ![h] = [c.rounds[h] EXCEPT !.witnesses = ws]]
  BY <1>1 DEF PushWitness, CoordinatorType, Round
<1> HIDE DEF ws, d
<1>3. \A s \in RoundSlots : /\ d.rounds[s].height = c.rounds[s].height
                            /\ d.rounds[s].clients_len = c.rounds[s].clients_len
  BY <1>1, <1>2 DEF Round
<1> QED
  BY <1>2, <1>3 DEF d

\* Every method keeps the ring.
LEMMA NextRing ==
    ASSUME Inv, RingIInv, Next
    PROVE  RingIInv'
<1>0. /\ CoordinatorInv(coordinator) /\ coordinator \in CoordinatorType
      /\ rosters \in [RoundSlots -> SUBSET ClientIds]
      /\ Active(coordinator) => RoundsRemembered(coordinator, rosters)
  BY DEF Inv, CoordinatorInv, RingIInv
<1> SUFFICES RingKept(coordinator, coordinator', rosters)
  <2>1. rosters' = Recorded(coordinator, coordinator', rosters)
    BY ZenonT(30) DEF Next, TickStep, WarmupWitnessStep, WitnessStep, HealthCheckStep, CheckpointStep,
       WithdrawStep, PauseStep, PauseFailsStep, ResumeStep, TimeStep, Becomes, Recorded
  <2> QED
    BY <2>1 DEF RingKept, RingIInv, Active, RoundsRemembered, Remembers, CurrentRound
<1>1. CASE TickStep
  <2>1. PICK pending, seed : /\ CanTick(coordinator)
                             /\ coordinator' = Tick(coordinator, pending, seed).st
    BY <1>1 DEF TickStep, Becomes
  <2> QED
    BY <1>0, <2>1, TickRing
<1>2. CASE WarmupWitnessStep
  <2>1. PICK from \in ClientIds, index \in 0 .. MaxClients - 1, seed \in Seeds :
           LET w == [from |-> from, index |-> index, position |-> index,
                     witness |-> FALSE, participants |-> {}]
           IN  /\ CanWarmupWitness(coordinator, w)
               /\ coordinator' = WarmupWitness(coordinator, w, seed)
    BY <1>2 DEF WarmupWitnessStep, Becomes
  <2> DEFINE w == [from |-> from, index |-> index, position |-> index,
                   witness |-> FALSE, participants |-> {}]
             b == PushWitness(coordinator, w)
  <2>2. w \in Witness
    BY DEF Witness
  <2>3. CanWarmupWitness(coordinator, w) /\ coordinator' = WarmupWitness(coordinator, w, seed)
    BY <2>1
  <2> HIDE DEF w
  <2>4. /\ b \in CoordinatorType /\ b.clients = coordinator.clients
        /\ b.run_state = coordinator.run_state /\ b.first_round = coordinator.first_round
        /\ b.exited_clients = coordinator.exited_clients
    BY <1>0, <2>2, PushWitnessFacts
  <2>5. CASE coordinator.run_state = "RoundTrain"
    <3>1. coordinator' = coordinator
      BY <2>3, <2>5 DEF WarmupWitness
    <3> QED
      BY <1>0, <3>1, MethodRing
  <2>6. CASE coordinator.run_state # "RoundTrain"
    <3>1. coordinator.run_state = "Warmup" /\ coordinator.first_round
      BY <1>0, <2>3, <2>6 DEF CanWarmupWitness, CoordinatorInv, WarmupIsFresh
    <3>2. coordinator' = b \/ coordinator' = StartRoundTrain(b, seed)
      BY <2>3, <2>6 DEF WarmupWitness
    <3> HIDE DEF b
    <3>3. RingKept(coordinator, StartRoundTrain(b, seed), rosters)
      BY <1>0, <2>4, <2>6, <3>1, FirstRoundRing
    <3>4. RingKept(coordinator, b, rosters)
      BY <2>4, <3>1 DEF RingKept, Active
    <3> QED
      BY <3>2, <3>3, <3>4
  <2> QED
    BY <2>5, <2>6
<1>3. CASE WitnessStep
  <2>1. PICK from \in ClientIds, index \in 0 .. MaxClients - 1,
             position \in 0 .. MaxClients - 1, bloom \in Blooms :
           LET w == [from |-> from, index |-> index, position |-> position,
                     witness |-> TRUE, participants |-> bloom]
           IN  /\ CanWitness(coordinator, w)
               /\ coordinator' = WitnessEffect(coordinator, w)
    BY <1>3 DEF WitnessStep, Becomes
  <2> DEFINE w == [from |-> from, index |-> index, position |-> position,
                   witness |-> TRUE, participants |-> bloom]
             b == PushWitness(coordinator, w)
             e == ChangeState(b, "RoundWitness")
  <2>2. bloom \in SUBSET ClientIds /\ index \in Nat /\ position \in Nat
    BY InputsAssumption
  <2>3. w \in Witness
    BY <2>2 DEF Witness
  <2>4. CanWitness(coordinator, w) /\ coordinator' = WitnessEffect(coordinator, w)
    BY <2>1
  <2> HIDE DEF w
  <2>5. /\ b \in CoordinatorType /\ b.clients = coordinator.clients
        /\ b.run_state = coordinator.run_state
        /\ b.exited_clients = coordinator.exited_clients
    BY <1>0, <2>3, PushWitnessFacts
  <2>6. /\ b.rounds_head = coordinator.rounds_head
        /\ \A s \in RoundSlots :
              /\ b.rounds[s].height = coordinator.rounds[s].height
              /\ b.rounds[s].clients_len = coordinator.rounds[s].clients_len
    BY <1>0, <2>3, PushWitnessRing
  <2>7. coordinator' = b \/ coordinator' = e
    BY <2>4 DEF WitnessEffect
  <2> HIDE DEF b
  <2>8. /\ e.clients = b.clients /\ e.exited_clients = b.exited_clients
        /\ e.rounds = b.rounds /\ e.rounds_head = b.rounds_head /\ e.run_state = "RoundWitness"
    BY <2>5 DEF ChangeState, CoordinatorType
  <2> HIDE DEF e
  <2>9. coordinator.run_state \in {"RoundTrain", "RoundWitness"}
    BY <2>4 DEF CanWitness
  <2>10. RingKept(coordinator, b, rosters)
    BY <1>0, <2>5, <2>6, <2>9, MethodRing DEF Active
  <2>11. RingKept(coordinator, e, rosters)
    BY <1>0, <2>5, <2>6, <2>8, <2>9, MethodRing DEF Active
  <2> QED
    BY <2>7, <2>10, <2>11
<1>4. CASE HealthCheckStep
  <2>1. PICK checks : coordinator' = HealthCheck(coordinator, checks)
    BY <1>4 DEF HealthCheckStep, Becomes
  <2> QED
    BY <1>0, <2>1, HealthCheckSameClients, SameClientsRing
<1>5. CASE CheckpointStep
  <2>1. PICK repo \in Repos : coordinator' = RecordCheckpoint(coordinator, repo)
    BY <1>5 DEF CheckpointStep, Becomes
  <2>2. /\ coordinator'.clients = coordinator.clients
        /\ coordinator'.exited_clients = coordinator.exited_clients
        /\ coordinator'.rounds = coordinator.rounds
        /\ coordinator'.rounds_head = coordinator.rounds_head
        /\ coordinator'.run_state = coordinator.run_state
    BY <1>0, <2>1 DEF RecordCheckpoint, CoordinatorType
  <2> QED
    BY <1>0, <2>2, MethodRing DEF Active
<1>6. CASE WithdrawStep
  <2>1. PICK index \in 0 .. MaxClients - 1 : coordinator' = Withdraw(coordinator, index)
    BY <1>6 DEF WithdrawStep, Becomes
  <2> QED
    BY <1>0, <2>1, WithdrawSameClients, SameClientsRing
<1>7. CASE PauseStep
  <2>1. coordinator' = Pause(coordinator)
    BY <1>7 DEF PauseStep, Becomes
  <2>2. CASE Active(coordinator)
    <3>1. coordinator' = [coordinator EXCEPT !.pending_pause = TRUE]
      BY <2>1, <2>2 DEF Pause
    <3>2. /\ coordinator'.clients = coordinator.clients
          /\ coordinator'.exited_clients = coordinator.exited_clients
          /\ coordinator'.rounds = coordinator.rounds
          /\ coordinator'.rounds_head = coordinator.rounds_head
          /\ coordinator'.run_state = coordinator.run_state
      BY <1>0, <3>1 DEF CoordinatorType
    <3> QED
      BY <1>0, <3>2, MethodRing DEF Active
  <2>3. CASE ~Active(coordinator)
    <3> DEFINE w == WithdrawAll(coordinator)
    <3>1. coordinator' = [ChangeState(w, "Paused") EXCEPT !.cold_start_epoch = TRUE]
      BY <2>1, <2>3 DEF Pause
    <3>2. w \in CoordinatorType
      BY ZenonT(30), <1>0, WithdrawAllSameClients DEF SameClients, CoordinatorType
    <3> HIDE DEF w
    <3>3. coordinator'.run_state = "Paused"
      BY <3>1, <3>2 DEF ChangeState, CoordinatorType
    <3> QED
      BY <3>3 DEF RingKept, Active
  <2> QED
    BY <2>2, <2>3
<1>8. CASE PauseFailsStep
  <2>1. SameClients(coordinator, coordinator')
    BY <1>0, <1>8, WithdrawAllSameClients DEF PauseFailsStep, Becomes
  <2> QED
    BY <1>0, <2>1, SameClientsRing
<1>9. CASE ResumeStep
  <2>1. coordinator' = StartWaitingForMembers(coordinator)
    BY <1>9 DEF ResumeStep, Becomes, Resume
  <2>2. coordinator'.run_state \in {"WaitingForMembers", "Finished"}
    BY <1>0, <2>1, StartsKeepClients
  <2> QED
    BY <2>2 DEF RingKept, Active
<1>10. CASE TimeStep
  <2>1. coordinator' = TimePasses(coordinator)
    BY <1>10 DEF TimeStep, Becomes
  <2>2. /\ coordinator'.clients = coordinator.clients
        /\ coordinator'.exited_clients = coordinator.exited_clients
        /\ coordinator'.rounds = coordinator.rounds
        /\ coordinator'.rounds_head = coordinator.rounds_head
        /\ coordinator'.run_state = coordinator.run_state
    BY <1>0, <2>1 DEF TimePasses, CoordinatorType
  <2> QED
    BY <1>0, <2>2, MethodRing DEF Active
<1> QED
  BY <1>1, <1>2, <1>3, <1>4, <1>5, <1>6, <1>7, <1>8, <1>9, <1>10 DEF Next

\* The stored rounds are remembered throughout.
LEMMA RingInvariance == Spec => []RingIInv
<1>1. Init => RingIInv
  BY DEF Init, FreshCoordinator, RingIInv, Active
<1>2. Inv /\ RingIInv /\ [Next]_vars => RingIInv'
  <2>1. UNCHANGED vars /\ RingIInv => RingIInv'
    BY DEF vars, RingIInv, Active, RoundsRemembered, Remembers, CurrentRound
  <2> QED
    BY <2>1, NextRing
<1> QED
  BY <1>1, <1>2, Invariance, PTL DEF Spec

\* What get_client_at_historical_index finds for a round that is remembered.
LEMMA FoundInHistory ==
    ASSUME NEW c \in CoordinatorType, NEW n \in Nat, NEW ids, Remembers(c, n, ids)
    PROVE  LET found == {i \in 0 .. n - 1 : HasHistoricalClient(c, i, n)}
           IN  /\ found = 0 .. n - 1
               /\ {HistoricalClient(c, i, n).id : i \in found} = ids
<1> DEFINE here == Len(c.clients)
           left == Len(c.exited_clients)
           from == left - (n - here) + 1
<1>1. /\ here \in Nat /\ left \in Nat /\ DOMAIN c.clients = 1 .. here
  BY ClientOfList, LenProperties DEF CoordinatorType
<1>2. /\ here <= n /\ n - here <= left
      /\ ids = {c.clients[i].id : i \in DOMAIN c.clients}
                 \cup {c.exited_clients[j].id : j \in from .. left}
  BY DEF Remembers
<1>3. \A i \in 0 .. n - 1 : HasHistoricalClient(c, i, n)
  <2>1. \A i \in 0 .. n - 1 :
           HasHistoricalClient(c, i, n) <=> i < here \/ (i < n /\ n - i <= left)
    BY DEF HasHistoricalClient, Has
  <2> HIDE DEF here, left
  <2> QED
    BY <1>1, <1>2, <2>1
<1>4. {i \in 0 .. n - 1 : HasHistoricalClient(c, i, n)} = 0 .. n - 1
  BY <1>3
<1>5. \A i \in 0 .. n - 1 :
         HistoricalClient(c, i, n) = IF i < here THEN c.clients[i + 1]
                                     ELSE c.exited_clients[left - (n - i - 1)]
  BY DEF HistoricalClient, Has, At
<1> HIDE DEF here, left
<1>6. \A i \in 0 .. n - 1 : /\ i < here => i + 1 \in 1 .. here
                            /\ ~(i < here) => left - (n - i - 1) \in from .. left
  BY <1>1, <1>2
<1>7. \A k \in 1 .. here : k - 1 \in 0 .. n - 1 /\ k - 1 < here /\ (k - 1) + 1 = k
  BY <1>1, <1>2
<1>8. \A j \in from .. left : LET i == n - 1 - (left - j)
                              IN  /\ i \in 0 .. n - 1 /\ ~(i < here)
                                  /\ left - (n - i - 1) = j
  BY <1>1, <1>2
<1> HIDE DEF from
<1>9. \A i \in 0 .. n - 1 : HistoricalClient(c, i, n).id \in ids
  BY <1>1, <1>2, <1>5, <1>6
<1>10. ASSUME NEW id \in ids PROVE \E i \in 0 .. n - 1 : HistoricalClient(c, i, n).id = id
  <2>1. CASE \E k \in 1 .. here : id = c.clients[k].id
    <3>1. PICK k \in 1 .. here : id = c.clients[k].id
      BY <2>1
    <3>2. HistoricalClient(c, k - 1, n) = c.clients[(k - 1) + 1] /\ (k - 1) + 1 = k
      BY <1>5, <1>7
    <3> QED
      BY <1>7, <3>1, <3>2
  <2>2. CASE \E j \in from .. left : id = c.exited_clients[j].id
    <3>1. PICK j \in from .. left : id = c.exited_clients[j].id
      BY <2>2
    <3> DEFINE i == n - 1 - (left - j)
    <3>2. i \in 0 .. n - 1 /\ ~(i < here) /\ left - (n - i - 1) = j
      BY <1>8
    <3> HIDE DEF i
    <3>3. HistoricalClient(c, i, n) = c.exited_clients[j]
      BY <1>5, <3>2
    <3> QED
      BY <3>1, <3>2, <3>3
  <2> QED
    BY <1>1, <1>2, <2>1, <2>2
<1> QED
  BY <1>4, <1>9, <1>10

\* get_client_at_historical_index finds, for every stored round of an epoch, exactly
\* the clients that started it, however many left since and in whichever order.
THEOREM HistoryCorrect == Spec => []HistoricalClientsComplete
<1>1. Inv /\ RingIInv => HistoricalClientsComplete
  <2> SUFFICES ASSUME Inv, RingIInv, Active(coordinator),
                      NEW back \in 0 .. NumStoredRounds - 1,
                      back <= CurrentRound(coordinator).height
               PROVE  LET head == coordinator.rounds_head
                          slot == (head + NumStoredRounds - back) % NumStoredRounds
                          round == coordinator.rounds[slot]
                          found == {i \in 0 .. round.clients_len - 1 :
                                      HasHistoricalClient(coordinator, i, round.clients_len)}
                      IN  /\ round.height = CurrentRound(coordinator).height - back
                          /\ found = 0 .. round.clients_len - 1
                          /\ {HistoricalClient(coordinator, i, round.clients_len).id :
                                i \in found} = rosters[slot]
    BY DEF HistoricalClientsComplete
  <2> DEFINE slot == Slot(coordinator.rounds_head, back)
             n == coordinator.rounds[slot].clients_len
  <2>1. coordinator \in CoordinatorType
    BY DEF Inv, CoordinatorInv
  <2>2. /\ coordinator.rounds[slot].height = CurrentRound(coordinator).height - back
        /\ Remembers(coordinator, n, rosters[slot])
    BY DEF RingIInv, RoundsRemembered
  <2>3. n \in Nat
    <3>1. coordinator.rounds_head \in RoundSlots
      BY <2>1 DEF CoordinatorType
    <3>2. slot \in RoundSlots
      BY <3>1, SlotFacts
    <3> HIDE DEF slot
    <3> QED
      BY <2>1, <3>2 DEF CoordinatorType, Round
  <2>4. slot = (coordinator.rounds_head + NumStoredRounds - back) % NumStoredRounds
    BY DEF Slot
  <2> HIDE DEF slot
  <2>5. LET found == {i \in 0 .. n - 1 : HasHistoricalClient(coordinator, i, n)}
        IN  /\ found = 0 .. n - 1
            /\ {HistoricalClient(coordinator, i, n).id : i \in found} = rosters[slot]
    BY <2>1, <2>2, <2>3, FoundInHistory
  <2> QED
    BY <2>2, <2>4, <2>5
<1> QED
  BY <1>1, Invariance, RingInvariance, PTL
=============================================================================
