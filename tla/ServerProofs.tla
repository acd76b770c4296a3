---------------------------- MODULE ServerProofs ----------------------------
(***************************************************************************)
(* Proofs about the centralized server: what ServerInv and                 *)
(* AdmitsRightClients say holds for any number of clients, any             *)
(* configurations and any number of crashes and pauses.                    *)
(*                                                                         *)
(* The server does not keep CoordinatorInv: a coordinator that was loaded  *)
(* from a file lists the default client several times, and a run that had  *)
(* finished waits for members again.  The facts about the methods of the   *)
(* coordinator are therefore stated from its type alone, with what they do *)
(* to the step, to its data and to the list of clients.                    *)
(***************************************************************************)
EXTENDS CentralizedServer, CoordinatorOpsProofs

-----------------------------------------------------------------------------
(* The index of the first sequence of every step. *)

\* What FirstIndexOf recurs on.
Indexes(g) ==
    CHOOSE first : first = [s \in Nat |->
        IF s <= 1 THEN 0
        ELSE first[s - 1] + BatchSize(g, first[s - 1] * SeqLen)]

\* The index of a step from that of the step before.
Following(g, index) == index + BatchSize(g, index * SeqLen)

\* The first n steps have their indexes in f.
IndexesUpTo(f, g, n) ==
    f = [s \in 0 .. n |-> IF s <= 1 THEN 0 ELSE Following(g, f[s - 1])]

\* The indexes of the first n steps exist.
LEMMA IndexesExist ==
    ASSUME NEW g
    PROVE  \A n \in Nat : \E f : IndexesUpTo(f, g, n)
<1> DEFINE Bad == {n \in Nat : ~ \E f : IndexesUpTo(f, g, n)}
<1> SUFFICES ASSUME Bad # {} PROVE FALSE
  OBVIOUS
<1>1. PICK n \in Bad : \A m \in Bad : n <= m
  <2> Bad \in SUBSET Nat
    OBVIOUS
  <2> HIDE DEF Bad
  <2> QED
    BY LeastNatural
<1>2. CASE n = 0
  <2> DEFINE f == [s \in 0 .. 0 |-> 0]
  <2>1. \A s \in 0 .. 0 : s <= 1
    OBVIOUS
  <2>2. IndexesUpTo(f, g, 0)
    BY <2>1 DEF IndexesUpTo
  <2> QED
    BY <1>1, <1>2, <2>2
<1>3. CASE n # 0
  <2>1. n - 1 \in Nat /\ n - 1 \notin Bad /\ n \in Nat
    BY <1>1, <1>3
  <2>2. PICK h : IndexesUpTo(h, g, n - 1)
    BY <2>1
  <2> DEFINE f == [s \in 0 .. n |-> IF s <= 1 THEN 0 ELSE Following(g, h[s - 1])]
  <2>3. ASSUME NEW s \in 0 .. n, ~(s <= 1)
        PROVE  f[s - 1] = h[s - 1]
    <3>1. s - 1 \in 0 .. n - 1 /\ s - 1 \in 0 .. n
      BY <2>1, <2>3
    <3>2. h[s - 1] = IF s - 1 <= 1 THEN 0 ELSE Following(g, h[s - 1 - 1])
      BY <3>1, <2>2 DEF IndexesUpTo
    <3> QED
      BY <3>1, <3>2
  <2>4. IndexesUpTo(f, g, n)
    <3>1. \A s \in 0 .. n : f[s] = IF s <= 1 THEN 0 ELSE Following(g, f[s - 1])
      BY <2>3
    <3>2. f = [s \in 0 .. n |-> f[s]]
      OBVIOUS
    <3> HIDE DEF f
    <3> QED
      BY <3>1, <3>2 DEF IndexesUpTo
  <2> QED
    BY <1>1, <2>1, <2>4
<1> QED
  BY <1>2, <1>3

\* They do not depend on how many steps are looked at.
LEMMA IndexesAgree ==
    ASSUME NEW g, NEW n \in Nat, NEW m \in Nat, NEW f, NEW h,
           IndexesUpTo(f, g, n), IndexesUpTo(h, g, m)
    PROVE  \A s \in Nat : s <= n /\ s <= m => f[s] = h[s]
<1> DEFINE Bad == {s \in Nat : s <= n /\ s <= m /\ f[s] # h[s]}
<1> SUFFICES ASSUME Bad # {} PROVE FALSE
  OBVIOUS
<1>1. PICK s \in Bad : \A r \in Bad : s <= r
  <2> Bad \in SUBSET Nat
    OBVIOUS
  <2> HIDE DEF Bad
  <2> QED
    BY LeastNatural
<1>2. s \in Nat /\ s \in 0 .. n /\ s \in 0 .. m /\ f[s] # h[s]
  OBVIOUS
<1>3. /\ f[s] = IF s <= 1 THEN 0 ELSE Following(g, f[s - 1])
      /\ h[s] = IF s <= 1 THEN 0 ELSE Following(g, h[s - 1])
  BY <1>2 DEF IndexesUpTo
<1>4. CASE s <= 1
  BY <1>2, <1>3, <1>4
<1>5. CASE ~(s <= 1)
  <2>1. s - 1 \in Nat /\ s - 1 <= n /\ s - 1 <= m /\ ~(s <= s - 1)
    BY <1>2, <1>5
  <2>2. f[s - 1] = h[s - 1]
    BY <1>1, <2>1
  <2> QED
    BY <1>2, <1>3, <1>5, <2>2
<1> QED
  BY <1>4, <1>5

\* FirstIndexOf satisfies its recursion.
LEMMA IndexesUnfold ==
    ASSUME NEW g
    PROVE  \A s \in Nat :
              Indexes(g)[s] = IF s <= 1 THEN 0 ELSE Following(g, Indexes(g)[s - 1])
<1> DEFINE part(n) == CHOOSE f : IndexesUpTo(f, g, n)
           whole == [s \in Nat |-> part(s)[s]]
<1>1. \A n \in Nat : IndexesUpTo(part(n), g, n)
  BY IndexesExist
<1> HIDE DEF part
<1>2. ASSUME NEW s \in Nat
      PROVE  whole[s] = IF s <= 1 THEN 0 ELSE Following(g, whole[s - 1])
  <2>1. s \in 0 .. s
    OBVIOUS
  <2>2. part(s)[s] = IF s <= 1 THEN 0 ELSE Following(g, part(s)[s - 1])
    BY <1>1, <2>1 DEF IndexesUpTo
  <2>3. CASE s <= 1
    BY <2>2, <2>3
  <2>4. CASE ~(s <= 1)
    <3>1. s - 1 \in Nat /\ s - 1 <= s /\ s - 1 <= s - 1
      BY <2>4
    <3>2. part(s)[s - 1] = part(s - 1)[s - 1]
      BY <1>1, <3>1, IndexesAgree
    <3> QED
      BY <2>2, <2>4, <3>1, <3>2
  <2> QED
    BY <2>3, <2>4
<1>3. whole = [s \in Nat |-> whole[s]]
  OBVIOUS
<1> HIDE DEF whole
<1>4. whole = [s \in Nat |-> IF s <= 1 THEN 0 ELSE Following(g, whole[s - 1])]
  BY <1>2, <1>3
<1>5. Indexes(g) = CHOOSE first : first = [s \in Nat |->
                       IF s <= 1 THEN 0 ELSE Following(g, first[s - 1])]
  BY DEF Indexes, Following
<1>6. Indexes(g) = [s \in Nat |->
                       IF s <= 1 THEN 0 ELSE Following(g, Indexes(g)[s - 1])]
  BY <1>4, <1>5
<1> QED
  BY <1>6

\* The first step starts at 0, and every other one where the batch before it ended.
LEMMA FirstIndexFacts ==
    ASSUME NEW g
    PROVE  /\ FirstIndexOf(g, 1) = 0
           /\ \A s \in Nat \ {0} : FirstIndexOf(g, s + 1) = Following(g, FirstIndexOf(g, s))
<1>1. \A s : FirstIndexOf(g, s) = Indexes(g)[s]
  BY DEF FirstIndexOf, Indexes
<1>2. FirstIndexOf(g, 1) = 0
  BY <1>1, IndexesUnfold
<1>3. ASSUME NEW s \in Nat \ {0}
      PROVE  FirstIndexOf(g, s + 1) = Following(g, FirstIndexOf(g, s))
  <2>1. s + 1 \in Nat /\ ~(s + 1 <= 1) /\ s + 1 - 1 = s
    OBVIOUS
  <2>2. Indexes(g)[s + 1] = Following(g, Indexes(g)[s])
    BY <2>1, IndexesUnfold
  <2> QED
    BY <1>1, <2>2
<1> QED
  BY <1>2, <1>3

\* It reads the batch sizes of the configuration and nothing else.
LEMMA FirstIndexSame ==
    ASSUME NEW g, NEW h, \A x : BatchSize(g, x) = BatchSize(h, x)
    PROVE  \A s \in Nat \ {0} : FirstIndexOf(g, s) = FirstIndexOf(h, s)
<1> DEFINE Bad == {s \in Nat : s # 0 /\ FirstIndexOf(g, s) # FirstIndexOf(h, s)}
<1> SUFFICES ASSUME Bad # {} PROVE FALSE
  OBVIOUS
<1>1. PICK s \in Bad : \A r \in Bad : s <= r
  <2> Bad \in SUBSET Nat
    OBVIOUS
  <2> HIDE DEF Bad
  <2> QED
    BY LeastNatural
<1>2. s # 1
  BY <1>1, FirstIndexFacts
<1>3. s - 1 \in Nat \ {0} /\ s - 1 + 1 = s /\ ~(s <= s - 1)
  BY <1>1, <1>2
<1>4. FirstIndexOf(g, s - 1) = FirstIndexOf(h, s - 1)
  BY <1>1, <1>3
<1> DEFINE p == s - 1
<1>5. /\ FirstIndexOf(g, p + 1) = Following(g, FirstIndexOf(g, p))
      /\ FirstIndexOf(h, p + 1) = Following(h, FirstIndexOf(h, p))
  BY <1>3, FirstIndexFacts
<1>6. Following(g, FirstIndexOf(g, p)) = Following(h, FirstIndexOf(h, p))
  BY <1>4 DEF Following
<1> QED
  BY <1>1, <1>3, <1>5, <1>6

-----------------------------------------------------------------------------
(* What the methods keep of a coordinator. *)

\* A warmup begins an epoch.
FreshWarmup(c) == c.run_state = "Warmup" => c.first_round

\* No client but the default one is listed twice.
OncePerClient(c) ==
    \A i, j \in DOMAIN c.clients :
       c.clients[i].id = c.clients[j].id /\ c.clients[i].id # NoIdentity => i = j

\* A method that makes d of c trains nothing, or completes the step of c.
Kept(c, d) ==
    /\ d \in CoordinatorType
    /\ d.config = c.config
    /\ FreshWarmup(d)
    /\ \/ d.step = c.step /\ LedgerIndex(d) = LedgerIndex(c)
       \/ d.step = c.step + 1 /\ LedgerIndex(d) = Following(c.config, LedgerIndex(c))
    /\ OncePerClient(c) => OncePerClient(d)

\* A list that stands in order in another one lists nobody twice either.
LEMMA OnceWithin ==
    ASSUME NEW c \in CoordinatorType, NEW d \in CoordinatorType,
           Within(d.clients, c.clients), OncePerClient(c)
    PROVE  OncePerClient(d)
<1>1. PICK f \in [DOMAIN d.clients -> DOMAIN c.clients] :
         /\ \A i \in DOMAIN f : c.clients[f[i]].id = d.clients[i].id
         /\ \A i, j \in DOMAIN f : i < j => f[i] < f[j]
  BY DEF Within
<1>2. /\ DOMAIN d.clients = 1 .. Len(d.clients) /\ Len(d.clients) \in Nat
      /\ DOMAIN c.clients = 1 .. Len(c.clients) /\ Len(c.clients) \in Nat
  BY ClientOfList
<1> SUFFICES ASSUME NEW i \in DOMAIN d.clients, NEW j \in DOMAIN d.clients,
                    d.clients[i].id = d.clients[j].id, d.clients[i].id # NoIdentity
             PROVE  i = j
  BY DEF OncePerClient
<1>3. /\ f[i] \in DOMAIN c.clients /\ f[j] \in DOMAIN c.clients
      /\ c.clients[f[i]].id = c.clients[f[j]].id /\ c.clients[f[i]].id # NoIdentity
  BY <1>1
<1>4. f[i] = f[j]
  BY <1>3 DEF OncePerClient
<1>5. ~(i < j) /\ ~(j < i)
  <2>1. f[i] \in Int /\ ~(f[i] < f[j]) /\ ~(f[j] < f[i])
    BY <1>2, <1>3, <1>4
  <2> QED
    BY <1>1, <2>1
<1> QED
  BY <1>2, <1>5

\* A method that neither starts nor ends a step.
LEMMA KeptWithin ==
    ASSUME NEW c \in CoordinatorType, NEW d \in CoordinatorType,
           d.config = c.config, d.step = c.step, LedgerIndex(d) = LedgerIndex(c),
           FreshWarmup(d), Within(d.clients, c.clients)
    PROVE  Kept(c, d)
  BY OnceWithin DEF Kept

\* One that leaves the phase and the rounds alone.
LEMMA KeptInPhase ==
    ASSUME NEW c \in CoordinatorType, FreshWarmup(c), NEW d \in CoordinatorType,
           d.config = c.config, d.step = c.step, d.run_state = c.run_state,
           d.first_round = c.first_round,
           d.epoch_start_data_index = c.epoch_start_data_index,
           CurrentRound(d).data_index = CurrentRound(c).data_index,
           Within(d.clients, c.clients)
    PROVE  Kept(c, d)
<1>1. LedgerIndex(d) = LedgerIndex(c)
  BY LedgerStutter DEF LedgerStep, LedgerIndex, InRound, NextDataIndex
<1>2. FreshWarmup(d)
  BY DEF FreshWarmup
<1> QED
  BY <1>1, <1>2, KeptWithin

LEMMA KeptUnchanged ==
    ASSUME NEW c \in CoordinatorType, FreshWarmup(c)
    PROVE  Kept(c, c)
<1>1. Within(c.clients, c.clients)
  BY WithinPrefix
<1> QED
  BY <1>1, KeptInPhase

\* One that changes states of clients only.
LEMMA KeptSameClients ==
    ASSUME NEW c \in CoordinatorType, FreshWarmup(c), NEW d, SameClients(c, d)
    PROVE  Kept(c, d)
<1>1. /\ d \in CoordinatorType
      /\ d.config = c.config /\ d.step = c.step /\ d.run_state = c.run_state
      /\ d.first_round = c.first_round
      /\ d.epoch_start_data_index = c.epoch_start_data_index
      /\ d.rounds = c.rounds /\ d.rounds_head = c.rounds_head
  BY DEF SameClients, CoordinatorType
<1>2. CurrentRound(d).data_index = CurrentRound(c).data_index
  BY <1>1 DEF CurrentRound
<1>3. Within(d.clients, c.clients)
  BY SameClientsWithin
<1> QED
  BY <1>1, <1>2, <1>3, KeptInPhase

\* start_round_train, whoever is there.
LEMMA StartRoundTrainFacts ==
    ASSUME NEW c \in CoordinatorType, NEW seed \in Seeds
    PROVE  LET d == StartRoundTrain(c, seed)
           IN  /\ d \in CoordinatorType
               /\ d.run_state = "RoundTrain"
               /\ d.config = c.config /\ d.step = c.step
               /\ d.clients = c.clients /\ d.exited_clients = c.exited_clients
               /\ d.epoch_start_data_index = c.epoch_start_data_index
               /\ CurrentRound(d).data_index =
                    IF c.first_round THEN c.epoch_start_data_index
                    ELSE NextDataIndex(c, CurrentRound(c))
<1> DEFINE prev == CurrentRound(c)
           head == IF c.first_round THEN 0
                   ELSE (c.rounds_head + 1) % NumStoredRounds
           index == IF c.first_round THEN c.epoch_start_data_index
                    ELSE NextDataIndex(c, prev)
           round == [witnesses |-> <<>>, data_index |-> index, random_seed |-> seed,
                     height |-> IF c.first_round THEN 0 ELSE prev.height + 1,
                     clients_len |-> Len(c.clients)]
           d == StartRoundTrain(c, seed)
<1>1. /\ prev \in Round /\ c.rounds_head \in RoundSlots /\ c.epoch_start_data_index \in Nat
      /\ c.rounds \in [RoundSlots -> Round]
  BY CurrentRoundType DEF CoordinatorType
<1>2. head \in RoundSlots
  BY <1>1, NextSlot, SizesAssumption DEF RoundSlots
<1>3. NextDataIndex(c, prev) \in Nat /\ Len(c.clients) \in Nat /\ prev.height \in Nat
  BY <1>1, NextDataIndexType, ClientOfList DEF Round
<1>4. round \in Round /\ round.data_index = index
  <2>1. <<>> \in Seq(Witness)
    OBVIOUS
  <2> QED
    BY <1>1, <1>3, <2>1 DEF Round
<1>5. d = [c EXCEPT !.rounds[head] = round, !.rounds_head = head,
                    !.run_state = "RoundTrain", !.age = 0]
  BY DEF StartRoundTrain, ChangeState
<1> HIDE DEF d, round, head
<1>6. d \in CoordinatorType
  BY <1>2, <1>4, <1>5 DEF CoordinatorType, RunStates
<1>7. /\ d.run_state = "RoundTrain" /\ d.config = c.config /\ d.step = c.step
      /\ d.clients = c.clients /\ d.exited_clients = c.exited_clients
      /\ d.epoch_start_data_index = c.epoch_start_data_index
      /\ d.rounds_head = head /\ d.rounds = [c.rounds EXCEPT ![head] = round]
  BY <1>5 DEF CoordinatorType
<1>8. CurrentRound(d) = round
  BY <1>1, <1>2, <1>7 DEF CurrentRound
<1> QED
  BY <1>4, <1>6, <1>7, <1>8 DEF d

\* start_waiting_for_members.
LEMMA StartWaitingFacts ==
    ASSUME NEW c \in CoordinatorType
    PROVE  LET d == StartWaitingForMembers(c)
           IN  /\ d \in CoordinatorType
               /\ d.run_state \in {"WaitingForMembers", "Finished"}
               /\ d.config = c.config /\ d.step = c.step
               /\ d.clients = c.clients /\ d.exited_clients = c.exited_clients
               /\ d.epoch_start_data_index = c.epoch_start_data_index
<1> DEFINE state == IF c.step < c.config.total_steps THEN "WaitingForMembers"
                                                     ELSE "Finished"
<1>1. StartWaitingForMembers(c) = ChangeState(c, state)
  BY DEF StartWaitingForMembers
<1>2. state \in RunStates /\ state \in {"WaitingForMembers", "Finished"}
  BY DEF RunStates
<1> HIDE DEF state
<1> QED
  BY <1>1, <1>2, ChangeStateFacts

\* start_cooldown.
LEMMA StartCooldownFacts ==
    ASSUME NEW c \in CoordinatorType
    PROVE  LET d == StartCooldown(c)
           IN  /\ d \in CoordinatorType
               /\ d.run_state = "Cooldown"
               /\ d.config = c.config /\ d.step = c.step
               /\ d.clients = c.clients
               /\ CurrentRound(d).data_index = CurrentRound(c).data_index
<1> DEFINE d == StartCooldown(c)
           head == c.rounds_head
           round == [CurrentRound(c) EXCEPT !.witnesses = <<>>]
<1>1. d = [c EXCEPT !.rounds = [c.rounds EXCEPT ![head] = round],
                    !.run_state = "Cooldown", !.age = 0]
  BY DEF StartCooldown, ChangeState, CurrentRound, CoordinatorType
<1>2. CurrentRound(c) \in Round /\ head \in RoundSlots /\ c.rounds \in [RoundSlots -> Round]
  BY CurrentRoundType DEF CoordinatorType
<1>3. round \in Round /\ round.data_index = CurrentRound(c).data_index
  <2>1. <<>> \in Seq(Witness)
    OBVIOUS
  <2> QED
    BY <1>2, <2>1 DEF Round
<1> HIDE DEF d, round
<1>4. d \in CoordinatorType
  BY <1>1, <1>2, <1>3 DEF CoordinatorType, RunStates
<1>5. /\ d.run_state = "Cooldown" /\ d.config = c.config /\ d.step = c.step
      /\ d.clients = c.clients
      /\ d.rounds = [c.rounds EXCEPT ![head] = round] /\ d.rounds_head = head
  BY <1>1 DEF CoordinatorType
<1>6. CurrentRound(d) = round
  BY <1>2, <1>5 DEF CurrentRound
<1> QED
  BY <1>3, <1>4, <1>5, <1>6 DEF d

\* move_clients_to_exited touches the two lists of clients only.
LEMMA MovedFacts ==
    ASSUME NEW c \in CoordinatorType, NEW height \in Nat
    PROVE  LET m == MoveClientsToExited(c, height)
           IN  /\ m \in CoordinatorType /\ Within(m.clients, c.clients)
               /\ m.run_state = c.run_state /\ m.config = c.config /\ m.step = c.step
               /\ m.rounds = c.rounds /\ m.rounds_head = c.rounds_head
               /\ m.first_round = c.first_round /\ m.pending_pause = c.pending_pause
               /\ m.epoch_start_data_index = c.epoch_start_data_index
               /\ m.checkpoint = c.checkpoint
               /\ CurrentRound(m) = CurrentRound(c)
<1> DEFINE m == MoveClientsToExited(c, height)
<1>1. /\ m \in CoordinatorType
      /\ m = [c EXCEPT !.clients = m.clients, !.exited_clients = m.exited_clients]
  BY MoveClientsFacts
<1>2. Within(m.clients, c.clients)
  BY MovedWithin
<1> HIDE DEF m
<1>3. /\ m.run_state = c.run_state /\ m.config = c.config /\ m.step = c.step
      /\ m.rounds = c.rounds /\ m.rounds_head = c.rounds_head
      /\ m.first_round = c.first_round /\ m.pending_pause = c.pending_pause
      /\ m.epoch_start_data_index = c.epoch_start_data_index
      /\ m.checkpoint = c.checkpoint
  BY <1>1 DEF CoordinatorType
<1>4. CurrentRound(m) = CurrentRound(c)
  BY <1>3 DEF CurrentRound
<1> QED
  BY <1>1, <1>2, <1>3, <1>4 DEF m

-----------------------------------------------------------------------------
(* tick, by run state. *)

\* Between two epochs nothing is being trained.
Idle(c) == c.run_state \in {"WaitingForMembers", "Paused"}

\* A tick keeps the steps and their data; it ends an epoch from its cooldown; and one
\* that reports nothing leaves an idle coordinator alone.
TickKept(c, t) ==
    /\ Kept(c, t.st)
    /\ t.result = "EpochEnd" =>
          c.run_state = "Cooldown" /\ t.st.run_state \in {"WaitingForMembers", "Paused", "Finished"}
    /\ t.result \notin {"EpochEnd", "EpochAbandoned"} /\ Idle(t.st) => t.st = c
    /\ t.st.run_state = "Warmup" => c.run_state \in {"WaitingForMembers", "Warmup"}

LEMMA UnchangedTick ==
    ASSUME NEW c \in CoordinatorType, FreshWarmup(c)
    PROVE  TickKept(c, Ticked(c))
<1>1. Ticked(c).st = c /\ Ticked(c).result = "Ticked"
  BY DEF Ticked
<1>2. Kept(c, c)
  BY KeptUnchanged
<1> HIDE DEF TickKept
<1>3. c.run_state = "Warmup" => c.run_state \in {"WaitingForMembers", "Warmup"}
  OBVIOUS
<1> QED
  BY <1>1, <1>2, <1>3 DEF TickKept

\* The first pending clients are admitted, all of them if they fit.
LEMMA AdmittedPrefix ==
    ASSUME NEW waiting, IsPending(waiting)
    PROVE  /\ \A i \in DOMAIN Admitted(waiting) :
                 i \in DOMAIN waiting /\ Admitted(waiting)[i] = waiting[i]
           /\ Len(waiting) <= MaxClients => DOMAIN Admitted(waiting) = DOMAIN waiting
<1> DEFINE n == IF Len(waiting) <= MaxClients THEN Len(waiting) ELSE MaxClients
<1>1. waiting \in Seq(ClientIds) /\ Len(waiting) \in Nat /\ MaxClients \in Nat
      /\ DOMAIN waiting = 1 .. Len(waiting)
  BY SizesAssumption, LenProperties DEF IsPending
<1>2. n \in Nat /\ n <= Len(waiting) /\ n <= MaxClients
      /\ (n = Len(waiting) \/ n = MaxClients)
  BY <1>1
<1>2a. Len(waiting) <= MaxClients => n = Len(waiting)
  OBVIOUS
<1>3. Admitted(waiting) = SubSeq(waiting, 1, n)
  BY SMTT(30) DEF Admitted
<1> HIDE DEF n
<1>4. ASSUME NEW i \in 1 .. n PROVE i \in 1 .. Len(waiting)
  <2>1. ASSUME NEW k \in Nat, NEW l \in Nat, k <= l, NEW j \in 1 .. k
        PROVE  j \in 1 .. l
    BY <2>1
  <2> QED
    BY <1>1, <1>2, <2>1
<1>5. ASSUME NEW i \in 1 .. n PROVE waiting[i] \in ClientIds
  BY <1>1, <1>4, ElementOfSeq
<1>6. /\ SubSeq(waiting, 1, n) \in Seq(ClientIds)
      /\ Len(SubSeq(waiting, 1, n)) = IF 1 <= n THEN n - 1 + 1 ELSE 0
      /\ \A i \in 1 .. n - 1 + 1 : SubSeq(waiting, 1, n)[i] = waiting[1 + i - 1]
  <2>1. n \in Int /\ 1 \in Int
    BY <1>2
  <2> QED
    BY <1>5, <2>1, SubSeqProperties
<1>7. Len(SubSeq(waiting, 1, n)) = n
  BY <1>2, <1>6
<1>8. DOMAIN SubSeq(waiting, 1, n) = 1 .. n
  BY <1>6, <1>7, LenProperties
<1>9. ASSUME NEW i \in 1 .. n PROVE SubSeq(waiting, 1, n)[i] = waiting[i]
  <2>1. i \in 1 .. n - 1 + 1 /\ 1 + i - 1 = i
    BY <1>2
  <2> QED
    BY <1>6, <2>1
<1> QED
  BY <1>1, <1>2a, <1>3, <1>4, <1>8, <1>9

\* The clients that stay in the list were healthy.
LEMMA MovedAreHealthy ==
    ASSUME NEW c \in CoordinatorType, NEW height \in Nat
    PROVE  LET m == MoveClientsToExited(c, height)
           IN  \A k \in DOMAIN m.clients :
                  \E l \in DOMAIN c.clients :
                     c.clients[l].state = "Healthy" /\ c.clients[l].id = m.clients[k].id
<1> DEFINE H == {i \in DOMAIN c.clients : c.clients[i].state = "Healthy"}
           kept == Retain(c.clients, H)
<1>1. MoveClientsToExited(c, height).clients = kept
  BY DEF MoveClientsToExited, CoordinatorType
<1>2. c.clients \in Seq(Client) /\ H \in SUBSET (DOMAIN c.clients)
      /\ \A i \in H : i \in DOMAIN c.clients /\ c.clients[i].state = "Healthy"
  BY ClientOfList
<1> HIDE DEF H
<1>3. /\ DOMAIN kept = 1 .. Cardinality(H)
      /\ \A i \in 1 .. Cardinality(H) : Nth(H, i) \in H /\ kept[i] = c.clients[Nth(H, i)]
  BY <1>2, RetainProperties
<1> HIDE DEF kept
<1>4. ASSUME NEW k \in DOMAIN kept
      PROVE  \E l \in DOMAIN c.clients :
                c.clients[l].state = "Healthy" /\ c.clients[l].id = kept[k].id
  BY <1>2, <1>3
<1> QED
  BY <1>1, <1>4

\* The clients that are admitted, and the checkpoint they start from: a checkpoint that
\* stays with the peers names one of them that was listed before and healthy.
LEMMA TickWaitingKept ==
    ASSUME NEW c \in CoordinatorType, c.run_state = "WaitingForMembers",
           NEW waiting, IsPending(waiting)
    PROVE  LET t == TickWaitingForMembers(c, waiting)
           IN  /\ TickKept(c, t)
               /\ t.st.run_state = "Warmup" =>
                    /\ \A i \in DOMAIN t.st.clients :
                          \E j \in DOMAIN waiting : t.st.clients[i].id = waiting[j]
                    /\ t.st.checkpoint.kind = "P2P" /\ Len(waiting) <= MaxClients =>
                          \E i \in DOMAIN t.st.clients, k \in DOMAIN c.clients :
                             /\ t.st.clients[i].state = "Healthy"
                             /\ c.clients[k].state = "Healthy"
                             /\ t.st.clients[i].id = c.clients[k].id
                             /\ \E j \in DOMAIN waiting : t.st.clients[i].id = waiting[j]
<1>0. CurrentRound(c) \in Round /\ CurrentRound(c).height \in Nat /\ FreshWarmup(c)
  BY CurrentRoundType DEF Round, FreshWarmup
<1> DEFINE begins == /\ Len(waiting) >= c.config.init_min_clients
                     /\ CheckTimeout(c, c.config.waiting_for_members_extra_time)
<1>1. CASE ~begins
  <2>1. TickWaitingForMembers(c, waiting) = Ticked(c)
    BY <1>1 DEF TickWaitingForMembers
  <2>2. Ticked(c).st.run_state # "Warmup"
    BY DEF Ticked
  <2> QED
    BY <1>0, <2>1, <2>2, UnchangedTick
<1>2. CASE begins
  <2> DEFINE moved == MoveClientsToExited(c, CurrentRound(c).height)
             ckpt == CheckpointForEpoch(c, moved.clients, waiting)
             adm == Admitted(waiting)
             cl == [i \in DOMAIN adm |-> NewClient(adm[i])]
             zero == [r \in RoundSlots |-> ZeroRound]
             d == [c EXCEPT !.checkpoint = ckpt, !.rounds = zero, !.rounds_head = 0,
                      !.exited_clients = <<>>, !.last_step = 0,
                      !.first_round = TRUE, !.start_step = c.step,
                      !.epoch_age = 0, !.clients = cl,
                      !.run_state = "Warmup", !.age = 0]
  <2>1. TickWaitingForMembers(c, waiting) = Ticked(d)
    BY <1>2 DEF TickWaitingForMembers, ChangeState
  <2>2. ckpt \in Checkpoint
    <3>1. c.checkpoint \in Checkpoint
      BY DEF CoordinatorType
    <3>2. ckpt \in {c.checkpoint, [c.checkpoint EXCEPT !.kind = "Hub"]}
      BY DEF CheckpointForEpoch
    <3> HIDE DEF ckpt
    <3> QED
      BY <3>1, <3>2 DEF Checkpoint
  <2>3. /\ adm \in Seq(ClientIds) /\ Len(adm) <= MaxClients
        /\ \A i, j \in DOMAIN adm : adm[i] = adm[j] => i = j
    BY AdmittedFacts
  <2>3a. /\ \A i \in DOMAIN adm : i \in DOMAIN waiting /\ adm[i] = waiting[i]
         /\ Len(waiting) <= MaxClients => DOMAIN adm = DOMAIN waiting
    BY AdmittedPrefix
  <2>4. /\ Len(adm) \in Nat /\ DOMAIN adm = 1 .. Len(adm)
        /\ \A i \in DOMAIN adm : adm[i] \in ClientIds
    BY <2>3, ElementOfSeq, LenProperties
  <2>5. \A id \in ClientIds : /\ NewClient(id) \in Client /\ NewClient(id).id = id
                              /\ NewClient(id).state = "Healthy"
    BY DEF NewClient, Client, ClientStates
  <2>5a. ckpt.kind = "P2P" =>
            \E k \in DOMAIN moved.clients, j \in DOMAIN waiting :
               moved.clients[k].id = waiting[j]
    <3> SUFFICES ASSUME \A k \in DOMAIN moved.clients :
                           \A j \in DOMAIN waiting : moved.clients[k].id # waiting[j]
                 PROVE  ckpt.kind # "P2P"
      OBVIOUS
    <3>1. c.checkpoint \in Checkpoint
      BY DEF CoordinatorType
    <3> HIDE DEF moved
    <3>2. ckpt = IF c.checkpoint.kind = "P2P" THEN [c.checkpoint EXCEPT !.kind = "Hub"]
                                              ELSE c.checkpoint
      BY DEF CheckpointForEpoch
    <3> HIDE DEF ckpt
    <3> QED
      BY <3>1, <3>2 DEF Checkpoint
  <2>5b. \A k \in DOMAIN moved.clients :
            \E l \in DOMAIN c.clients :
               c.clients[l].state = "Healthy" /\ c.clients[l].id = moved.clients[k].id
    BY <1>0, MovedAreHealthy
  <2> HIDE DEF adm, moved, ckpt
  <2>6. /\ cl \in Seq(Client) /\ Len(cl) = Len(adm) /\ DOMAIN cl = DOMAIN adm
        /\ \A i \in DOMAIN adm : cl[i].id = adm[i] /\ cl[i].state = "Healthy"
    <3>1. cl \in [1 .. Len(adm) -> Client]
      BY <2>4, <2>5
    <3> QED
      BY <3>1, <2>4, <2>5
  <2>7. zero \in [RoundSlots -> Round] /\ 0 \in RoundSlots
    <3>1. ZeroRound \in Round
      <4>1. <<>> \in Seq(Witness)
        OBVIOUS
      <4> QED
        BY <4>1, SizesAssumption DEF ZeroRound, Round
    <3>2. 0 \in RoundSlots
      BY SizesAssumption DEF RoundSlots
    <3> QED
      BY <3>1, <3>2
  <2> HIDE DEF cl, zero
  <2>8. d \in CoordinatorType
    <3>1. <<>> \in Seq(Client)
      OBVIOUS
    <3> QED
      BY <3>1, <2>2, <2>6, <2>7 DEF CoordinatorType, RunStates
  <2>9. /\ d.run_state = "Warmup" /\ d.config = c.config /\ d.step = c.step
        /\ d.clients = cl /\ d.first_round = TRUE /\ d.checkpoint = ckpt
        /\ d.epoch_start_data_index = c.epoch_start_data_index
    BY DEF CoordinatorType
  <2> HIDE DEF d
  <2>10. OncePerClient(d)
    BY <2>3, <2>6, <2>9 DEF OncePerClient
  <2>11. LedgerIndex(d) = LedgerIndex(c)
    BY <2>9 DEF LedgerIndex, InRound
  <2>12. Kept(c, d)
    BY <2>8, <2>9, <2>10, <2>11 DEF Kept, FreshWarmup
  <2>13. Ticked(d).st = d /\ Ticked(d).result = "Ticked"
    BY DEF Ticked
  <2>14. TickKept(c, Ticked(d))
    BY <2>9, <2>12, <2>13 DEF TickKept, Idle
  <2>15. \A i \in DOMAIN d.clients :
            \E j \in DOMAIN waiting : d.clients[i].id = waiting[j]
    BY <2>3a, <2>6, <2>9
  <2>16. ASSUME d.checkpoint.kind = "P2P", Len(waiting) <= MaxClients
         PROVE  \E i \in DOMAIN d.clients, k \in DOMAIN c.clients :
                   /\ d.clients[i].state = "Healthy" /\ c.clients[k].state = "Healthy"
                   /\ d.clients[i].id = c.clients[k].id
                   /\ \E j \in DOMAIN waiting : d.clients[i].id = waiting[j]
    <3>1. PICK k \in DOMAIN moved.clients, j \in DOMAIN waiting :
             moved.clients[k].id = waiting[j]
      BY <2>5a, <2>9, <2>16
    <3>2. PICK l \in DOMAIN c.clients :
             c.clients[l].state = "Healthy" /\ c.clients[l].id = moved.clients[k].id
      BY <2>5b
    <3>3. j \in DOMAIN d.clients /\ d.clients[j].id = waiting[j] /\ d.clients[j].state = "Healthy"
      BY <2>3a, <2>6, <2>9, <2>16
    <3> QED
      BY <3>1, <3>2, <3>3
  <2> QED
    BY <2>1, <2>13, <2>14, <2>15, <2>16
<1> QED
  BY <1>1, <1>2

\* A warmup is given up, goes on, or becomes the first round.
LEMMA TickWarmupKept ==
    ASSUME NEW c \in CoordinatorType, c.run_state = "Warmup", FreshWarmup(c),
           NEW seed \in Seeds
    PROVE  TickKept(c, TickWarmup(c, seed))
<1> DEFINE next == IF CheckTimeout(c, c.config.warmup_time)
                   THEN StartRoundTrain(c, seed) ELSE MoveClientsToExited(c, 0)
           over == StartWaitingForMembers(next)
<1>0. c.first_round /\ LedgerIndex(c) = c.epoch_start_data_index
  BY DEF FreshWarmup, LedgerIndex, InRound
<1>1. /\ next \in CoordinatorType /\ next.run_state \in {"Warmup", "RoundTrain"}
      /\ next.config = c.config /\ next.step = c.step
      /\ next.epoch_start_data_index = c.epoch_start_data_index
      /\ LedgerIndex(next) = LedgerIndex(c)
      /\ FreshWarmup(next)
      /\ Within(next.clients, c.clients)
  <2>1. CASE CheckTimeout(c, c.config.warmup_time)
    <3> DEFINE d == StartRoundTrain(c, seed)
    <3>1. /\ d \in CoordinatorType /\ d.run_state = "RoundTrain"
          /\ d.config = c.config /\ d.step = c.step /\ d.clients = c.clients
          /\ d.epoch_start_data_index = c.epoch_start_data_index
          /\ CurrentRound(d).data_index = c.epoch_start_data_index
      BY <1>0, StartRoundTrainFacts
    <3> HIDE DEF d
    <3>2. LedgerIndex(d) = LedgerIndex(c) /\ FreshWarmup(d)
      BY <1>0, <3>1 DEF LedgerIndex, InRound, FreshWarmup
    <3>3. Within(d.clients, c.clients)
      BY <3>1, WithinPrefix
    <3>4. next = d
      BY <2>1 DEF d
    <3> QED
      BY <3>1, <3>2, <3>3, <3>4
  <2>2. CASE ~CheckTimeout(c, c.config.warmup_time)
    <3> DEFINE m == MoveClientsToExited(c, 0)
    <3>1. /\ m \in CoordinatorType /\ Within(m.clients, c.clients)
          /\ m.run_state = c.run_state /\ m.config = c.config /\ m.step = c.step
          /\ m.first_round = c.first_round
          /\ m.epoch_start_data_index = c.epoch_start_data_index
      BY MovedFacts
    <3>2. next = m
      BY <2>2
    <3> HIDE DEF m, next
    <3>3. LedgerIndex(m) = LedgerIndex(c) /\ FreshWarmup(m)
      BY <1>0, <3>1 DEF LedgerIndex, InRound, FreshWarmup
    <3> QED
      BY <3>1, <3>2, <3>3
  <2> QED
    BY <2>1, <2>2
<1>2. TickWarmup(c, seed) = IF Len(next.clients) < c.config.min_clients
                            THEN [st |-> over, result |-> "EpochAbandoned"]
                            ELSE Ticked(next)
  BY DEF TickWarmup
<1> HIDE DEF next
<1>3. /\ over \in CoordinatorType /\ over.run_state \in {"WaitingForMembers", "Finished"}
      /\ over.config = next.config /\ over.step = next.step
      /\ over.clients = next.clients
      /\ over.epoch_start_data_index = next.epoch_start_data_index
  BY <1>1, StartWaitingFacts
<1> HIDE DEF over
<1>4. CASE Len(next.clients) < c.config.min_clients
  <2>1. LedgerIndex(over) = LedgerIndex(c) /\ FreshWarmup(over)
    BY <1>0, <1>1, <1>3 DEF LedgerIndex, InRound, FreshWarmup
  <2>2. Kept(c, over)
    BY <1>1, <1>3, <2>1, KeptWithin
  <2>3. TickWarmup(c, seed).st = over /\ TickWarmup(c, seed).result = "EpochAbandoned"
    BY <1>2, <1>4
  <2> QED
    BY <1>3, <2>2, <2>3 DEF TickKept
<1>5. CASE ~(Len(next.clients) < c.config.min_clients)
  <2>1. Kept(c, next)
    BY <1>1, KeptWithin
  <2>2. TickWarmup(c, seed).st = next /\ TickWarmup(c, seed).result = "Ticked"
    BY <1>2, <1>5 DEF Ticked
  <2> QED
    BY <1>1, <2>1, <2>2 DEF TickKept, Idle
<1> QED
  BY <1>4, <1>5

\* The training of a round goes on or ends.
LEMMA TickRoundTrainKept ==
    ASSUME NEW c \in CoordinatorType, c.run_state = "RoundTrain"
    PROVE  TickKept(c, TickRoundTrain(c))
<1>0. FreshWarmup(c)
  BY DEF FreshWarmup
<1> DEFINE d == ChangeState(c, "RoundWitness")
<1>1. TickRoundTrain(c) \in {Ticked(c), Ticked(d)}
  BY DEF TickRoundTrain
<1>2. /\ d \in CoordinatorType /\ d.run_state = "RoundWitness"
      /\ d.config = c.config /\ d.step = c.step /\ d.clients = c.clients
      /\ CurrentRound(d) = CurrentRound(c)
  <2>1. "RoundWitness" \in RunStates
    BY DEF RunStates
  <2> QED
    BY <2>1, ChangeStateFacts
<1> HIDE DEF d
<1>3. LedgerIndex(d) = LedgerIndex(c) /\ FreshWarmup(d)
  BY <1>2 DEF LedgerIndex, InRound, FreshWarmup
<1>4. Kept(c, d)
  BY <1>2, <1>3, WithinPrefix, KeptWithin
<1>5. TickKept(c, Ticked(d))
  <2>1. Ticked(d).st = d /\ Ticked(d).result = "Ticked"
    BY DEF Ticked
  <2> QED
    BY <1>2, <1>4, <2>1 DEF TickKept, Idle
<1> QED
  BY <1>0, <1>1, <1>5, UnchangedTick

\* A round that ends completes its step, whether another round or the cooldown
\* follows, and the data index moves on with the step.
LEMMA TickRoundWitnessKept ==
    ASSUME NEW c \in CoordinatorType, c.run_state = "RoundWitness", NEW seed \in Seeds
    PROVE  TickKept(c, TickRoundWitness(c, seed))
<1>0. /\ CurrentRound(c) \in Round /\ c.step \in Nat /\ CurrentRound(c).height \in Nat
      /\ FreshWarmup(c)
      /\ LedgerIndex(c) = CurrentRound(c).data_index
  BY CurrentRoundType DEF CoordinatorType, Round, FreshWarmup, LedgerIndex, InRound
<1>1. CASE ~CheckTimeout(c, c.config.round_witness_time)
  <2>1. TickRoundWitness(c, seed) = Ticked(c)
    BY <1>1 DEF TickRoundWitness
  <2> QED
    BY <1>0, <2>1, UnchangedTick
<1>2. CASE CheckTimeout(c, c.config.round_witness_time)
  <2> DEFINE n == Len(CurrentRound(c).witnesses)
             b == [c EXCEPT !.first_round = FALSE, !.step = @ + 1]
             h == CurrentRound(c).height
             moved == MoveClientsToExited(b, h)
             next == SetLastStep(moved)
             all == WithdrawAll(moved)
             d == IF n = 0 THEN StartCooldown(all)
                  ELSE IF EpochMustEnd(next, n) THEN StartCooldown(next)
                  ELSE StartRoundTrain(next, seed)
  <2>1. TickRoundWitness(c, seed) = Ticked(d)
    BY <1>2 DEF TickRoundWitness
  \* A list of clients, and the round that ends, with the next step.
  <2> DEFINE Ends(e) == /\ e \in CoordinatorType /\ e.config = c.config
                        /\ e.step = c.step + 1 /\ e.first_round = FALSE
                        /\ CurrentRound(e) = CurrentRound(c)
                        /\ Within(e.clients, c.clients)
  <2>2. /\ b \in CoordinatorType /\ b.step = c.step + 1 /\ b.first_round = FALSE
        /\ b.config = c.config /\ b.rounds = c.rounds /\ b.rounds_head = c.rounds_head
        /\ b.clients = c.clients
    <3>1. b = [c EXCEPT !.first_round = FALSE, !.step = c.step + 1]
      BY DEF CoordinatorType
    <3>2. c.step + 1 \in Nat
      BY <1>0
    <3> HIDE DEF b
    <3>3. b \in CoordinatorType
      BY <3>1, <3>2 DEF CoordinatorType
    <3> QED
      BY <3>1, <3>3 DEF CoordinatorType
  <2> HIDE DEF b, n
  <2>3. Ends(moved)
    <3>1. CurrentRound(b) = CurrentRound(c)
      BY <2>2 DEF CurrentRound
    <3> QED
      BY <1>0, <2>2, <3>1, MovedFacts
  <2> HIDE DEF moved
  <2>4. Ends(next)
    <3>1. /\ next \in CoordinatorType /\ next.config = moved.config /\ next.step = moved.step
          /\ next.clients = moved.clients /\ next.rounds = moved.rounds
          /\ next.rounds_head = moved.rounds_head /\ next.first_round = moved.first_round
      BY <2>3, SetLastStepFacts
    <3>2. CurrentRound(next) = CurrentRound(moved)
      BY <3>1 DEF CurrentRound
    <3> HIDE DEF next
    <3> QED
      BY <2>3, <3>1, <3>2
  <2>5. Ends(all)
    <3>1. SameClients(moved, all)
      BY <2>3, WithdrawAllSameClients
    <3> HIDE DEF all
    <3>2. /\ all \in CoordinatorType /\ all.config = moved.config /\ all.step = moved.step
          /\ all.rounds = moved.rounds /\ all.rounds_head = moved.rounds_head
          /\ all.first_round = moved.first_round
      BY <2>3, <3>1 DEF SameClients, CoordinatorType
    <3>3. CurrentRound(all) = CurrentRound(moved)
      BY <3>2 DEF CurrentRound
    <3>4. Within(all.clients, c.clients)
      <4>1. Within(all.clients, moved.clients) /\ Within(moved.clients, c.clients)
        BY <2>3, <3>1, SameClientsWithin
      <4> QED
        BY <4>1, WithinTransitive
    <3> QED
      BY <2>3, <3>2, <3>3, <3>4
  <2> HIDE DEF next, all
  <2>6. ASSUME NEW e, Ends(e), d = StartCooldown(e)
        PROVE  Kept(c, d) /\ d.run_state = "Cooldown"
    <3>1. /\ d \in CoordinatorType /\ d.run_state = "Cooldown"
          /\ d.config = c.config /\ d.step = c.step + 1
          /\ d.clients = e.clients
          /\ CurrentRound(d).data_index = CurrentRound(c).data_index
      BY <2>6, StartCooldownFacts
    <3> HIDE DEF d
    <3>2. LedgerIndex(d) = Following(c.config, LedgerIndex(c)) /\ FreshWarmup(d)
      BY <1>0, <3>1 DEF LedgerIndex, InRound, FreshWarmup, NextDataIndex, Following
    <3>3. OncePerClient(c) => OncePerClient(d)
      BY <2>6, <3>1, OnceWithin
    <3> QED
      BY <3>1, <3>2, <3>3 DEF Kept
  <2>7. ASSUME d = StartRoundTrain(next, seed)
        PROVE  Kept(c, d) /\ d.run_state = "RoundTrain"
    <3>1. /\ d \in CoordinatorType /\ d.run_state = "RoundTrain"
          /\ d.config = next.config /\ d.step = next.step
          /\ d.clients = next.clients
          /\ CurrentRound(d).data_index = NextDataIndex(next, CurrentRound(next))
      BY <2>4, <2>7, StartRoundTrainFacts
    <3> HIDE DEF d
    <3>2. LedgerIndex(d) = Following(c.config, LedgerIndex(c)) /\ FreshWarmup(d)
      BY <1>0, <2>4, <3>1 DEF LedgerIndex, InRound, FreshWarmup, NextDataIndex, Following
    <3>3. OncePerClient(c) => OncePerClient(d)
      BY <2>4, <3>1, OnceWithin
    <3> QED
      BY <2>4, <3>1, <3>2, <3>3 DEF Kept
  <2>8. Kept(c, d) /\ d.run_state \in {"Cooldown", "RoundTrain"}
    <3>1. d = StartCooldown(all) \/ d = StartCooldown(next) \/ d = StartRoundTrain(next, seed)
      OBVIOUS
    <3> HIDE DEF d, Ends
    <3> QED
      BY <2>4, <2>5, <2>6, <2>7, <3>1
  <2> HIDE DEF d
  <2>9. Ticked(d).st = d /\ Ticked(d).result = "Ticked"
    BY DEF Ticked
  <2> QED
    BY <2>1, <2>8, <2>9 DEF TickKept, Idle
<1> QED
  BY <1>1, <1>2

\* The end of a cooldown keeps the index of the next step for the next epoch.
LEMMA TickCooldownKept ==
    ASSUME NEW c \in CoordinatorType, c.run_state = "Cooldown"
    PROVE  TickKept(c, TickCooldown(c))
<1>0. /\ CurrentRound(c) \in Round /\ CurrentRound(c).height \in Nat
      /\ c.epoch \in Nat /\ c.checkpoint \in Checkpoint /\ FreshWarmup(c)
      /\ LedgerIndex(c) = NextDataIndex(c, CurrentRound(c))
  BY CurrentRoundType DEF CoordinatorType, Round, FreshWarmup, LedgerIndex, InRound
<1>1. CASE ~CheckTimeout(c, c.config.cooldown_time)
  <2>1. TickCooldown(c) = Ticked(c)
    BY <1>1 DEF TickCooldown
  <2> QED
    BY <1>0, <2>1, UnchangedTick
<1>2. CASE CheckTimeout(c, c.config.cooldown_time)
  <2> DEFINE x == NextDataIndex(c, CurrentRound(c))
             b == [c EXCEPT
                     !.epoch_start_data_index = x,
                     !.epoch = @ + 1,
                     !.checkpoint.kind = IF @ \in {"Hub", "Dummy"} THEN "P2P"
                                                                   ELSE @]
             moved == MoveClientsToExited(b, CurrentRound(c).height)
             w == WithdrawAll(moved)
             s == StartWaitingForMembers(moved)
             p == [ChangeState(w, "Paused") EXCEPT
                     !.pending_pause = FALSE, !.cold_start_epoch = TRUE]
             q == [s EXCEPT !.cold_start_epoch = FALSE]
             d == IF c.pending_pause THEN p ELSE q
  <2>1. TickCooldown(c) = [st |-> d, result |-> "EpochEnd"]
    BY <1>2 DEF TickCooldown
  <2>2. /\ b \in CoordinatorType /\ b.epoch_start_data_index = x
        /\ b.config = c.config /\ b.step = c.step /\ b.clients = c.clients
    <3>1. x \in Nat
      BY <1>0, NextDataIndexType
    <3> DEFINE k == [c.checkpoint EXCEPT
                       !.kind = IF @ \in {"Hub", "Dummy"} THEN "P2P" ELSE @]
    <3>2. k \in Checkpoint
      BY <1>0 DEF Checkpoint
    <3>3. b = [c EXCEPT !.epoch_start_data_index = x, !.epoch = c.epoch + 1,
                        !.checkpoint = k]
      BY <1>0 DEF CoordinatorType
    <3>4. c.epoch + 1 \in Nat
      BY <1>0
    <3> HIDE DEF b, k, x
    <3>5. b \in CoordinatorType
      BY <1>0, <3>1, <3>2, <3>3, <3>4 DEF CoordinatorType
    <3> QED
      BY <1>0, <3>3, <3>5 DEF CoordinatorType
  <2> HIDE DEF b, x
  <2> DEFINE Ends(e) == /\ e \in CoordinatorType /\ e.config = c.config
                        /\ e.step = c.step /\ e.epoch_start_data_index = x
                        /\ Within(e.clients, c.clients)
  <2>3. Ends(moved)
    BY <1>0, <2>2, MovedFacts
  <2> HIDE DEF moved
  <2>4. Ends(w)
    <3>1. SameClients(moved, w)
      BY <2>3, WithdrawAllSameClients
    <3> HIDE DEF w
    <3>2. /\ w \in CoordinatorType /\ w.config = moved.config /\ w.step = moved.step
          /\ w.epoch_start_data_index = moved.epoch_start_data_index
      BY <2>3, <3>1 DEF SameClients, CoordinatorType
    <3>3. Within(w.clients, c.clients)
      <4>1. Within(w.clients, moved.clients) /\ Within(moved.clients, c.clients)
        BY <2>3, <3>1, SameClientsWithin
      <4> QED
        BY <4>1, WithinTransitive
    <3> QED
      BY <2>3, <3>2, <3>3
  <2> HIDE DEF w
  <2>5. Ends(p) /\ p.run_state = "Paused"
    <3>1. /\ p \in CoordinatorType /\ p.run_state = "Paused" /\ p.config = w.config
          /\ p.step = w.step /\ p.epoch_start_data_index = w.epoch_start_data_index
          /\ p.clients = w.clients
      BY <2>4 DEF ChangeState, CoordinatorType, RunStates
    <3> HIDE DEF p
    <3> QED
      BY <2>4, <3>1
  <2>6. Ends(q) /\ q.run_state \in {"WaitingForMembers", "Finished"}
    <3>1. /\ s \in CoordinatorType /\ s.run_state \in {"WaitingForMembers", "Finished"}
          /\ s.config = moved.config /\ s.step = moved.step /\ s.clients = moved.clients
          /\ s.epoch_start_data_index = moved.epoch_start_data_index
      BY <2>3, StartWaitingFacts
    <3> HIDE DEF s
    <3>2. /\ q \in CoordinatorType /\ q.run_state = s.run_state /\ q.config = s.config
          /\ q.step = s.step /\ q.epoch_start_data_index = s.epoch_start_data_index
          /\ q.clients = s.clients
      BY <3>1 DEF CoordinatorType
    <3> HIDE DEF q
    <3> QED
      BY <2>3, <3>1, <3>2
  <2>7. Ends(d) /\ d.run_state \in {"WaitingForMembers", "Paused", "Finished"}
    <3>1. d = p \/ d = q
      OBVIOUS
    <3> HIDE DEF d, p, q, Ends
    <3> QED
      BY <2>5, <2>6, <3>1
  <2> HIDE DEF d
  <2>8. LedgerIndex(d) = LedgerIndex(c) /\ FreshWarmup(d)
    BY <1>0, <2>7 DEF LedgerIndex, InRound, FreshWarmup, x
  <2>9. Kept(c, d)
    BY <2>7, <2>8, KeptWithin
  <2>10. TickCooldown(c).st = d /\ TickCooldown(c).result = "EpochEnd"
    BY <2>1
  <2> QED
    BY <2>7, <2>9, <2>10 DEF TickKept
<1> QED
  BY <1>1, <1>2

\* on_tick ticks a coordinator that is not halted.
LEMMA TickStepKept ==
    ASSUME NEW c \in CoordinatorType, FreshWarmup(c),
           NEW waiting, IsPending(waiting), NEW seed \in Seeds
    PROVE  TickKept(c, IF CanTick(c) THEN Tick(c, waiting, seed) ELSE Ticked(c))
<1>1. CASE ~CanTick(c)
  BY <1>1, UnchangedTick
<1>2. CASE CanTick(c)
  <2>1. c.run_state \in {"WaitingForMembers", "Warmup", "RoundTrain", "RoundWitness",
                         "Cooldown"}
    BY <1>2 DEF CoordinatorType, RunStates, CanTick, Halted
  <2>2. CASE c.run_state = "WaitingForMembers"
    BY <1>2, <2>2, TickWaitingKept DEF Tick
  <2>3. CASE c.run_state = "Warmup"
    BY <1>2, <2>3, TickWarmupKept DEF Tick
  <2>4. CASE c.run_state = "RoundTrain"
    BY <1>2, <2>4, TickRoundTrainKept DEF Tick
  <2>5. CASE c.run_state = "RoundWitness"
    BY <1>2, <2>5, TickRoundWitnessKept DEF Tick
  <2>6. CASE c.run_state = "Cooldown"
    BY <1>2, <2>6, TickCooldownKept DEF Tick
  <2> QED
    BY <2>1, <2>2, <2>3, <2>4, <2>5, <2>6
<1> QED
  BY <1>1, <1>2

-----------------------------------------------------------------------------
(* The other methods that the server calls. *)

\* A method other than tick makes nobody healthy of an idle coordinator who was not,
\* and admits nobody.
Listens(c, d) ==
    /\ Kept(c, d)
    /\ d.exited_clients = c.exited_clients
    /\ Idle(d) => \/ HealthyIds(d.clients) = {}
                  \/ Idle(c) /\ HealthyIds(d.clients) \subseteq HealthyIds(c.clients)
    /\ d.run_state = "Warmup" => c.run_state = "Warmup"

LEMMA UnchangedListens ==
    ASSUME NEW c \in CoordinatorType, FreshWarmup(c)
    PROVE  Listens(c, c)
  BY KeptUnchanged DEF Listens

\* A method that changes states of clients, none of them to Healthy.
LEMMA SameClientsListens ==
    ASSUME NEW c \in CoordinatorType, FreshWarmup(c), NEW d, SameClients(c, d),
           \A i \in DOMAIN c.clients :
              d.clients[i].state = "Healthy" => c.clients[i].state = "Healthy"
    PROVE  Listens(c, d)
<1>1. Kept(c, d)
  BY KeptSameClients
<1>2. d.exited_clients = c.exited_clients /\ d.run_state = c.run_state
  BY DEF SameClients, CoordinatorType
<1>3. HealthyIds(d.clients) \subseteq HealthyIds(c.clients)
  BY DEF HealthyIds, SameClients
<1> QED
  BY <1>1, <1>2, <1>3 DEF Listens, Idle

LEMMA WitnessListens ==
    ASSUME NEW c \in CoordinatorType, NEW w \in Witness, CanWitness(c, w)
    PROVE  Listens(c, WitnessEffect(c, w))
<1> DEFINE d == PushWitness(c, w)
           e == ChangeState(d, "RoundWitness")
<1>0. c.run_state \in {"RoundWitness", "RoundTrain"}
  BY DEF CanWitness
<1>1. /\ d \in CoordinatorType /\ d.run_state = c.run_state /\ d.config = c.config
      /\ d.step = c.step /\ d.clients = c.clients /\ d.exited_clients = c.exited_clients
      /\ CurrentRound(d).data_index = CurrentRound(c).data_index
  BY PushWitnessFacts
<1>2. WitnessEffect(c, w) \in {d, e}
  BY DEF WitnessEffect
<1> HIDE DEF d
<1>3. /\ e \in CoordinatorType /\ e.run_state = "RoundWitness" /\ e.config = d.config
      /\ e.step = d.step /\ e.clients = d.clients /\ e.exited_clients = d.exited_clients
      /\ CurrentRound(e) = CurrentRound(d)
  <2>1. "RoundWitness" \in RunStates
    BY DEF RunStates
  <2> QED
    BY <1>1, <2>1, ChangeStateFacts
<1> HIDE DEF e
<1>4. ASSUME NEW f \in {d, e} PROVE Listens(c, f)
  <2>1. /\ f \in CoordinatorType /\ f.run_state \in {"RoundWitness", "RoundTrain"}
        /\ f.config = c.config
        /\ f.step = c.step /\ f.clients = c.clients /\ f.exited_clients = c.exited_clients
        /\ CurrentRound(f).data_index = CurrentRound(c).data_index
    BY <1>0, <1>1, <1>3
  <2>2. LedgerIndex(f) = LedgerIndex(c) /\ FreshWarmup(f)
    BY <1>0, <2>1 DEF LedgerIndex, InRound, FreshWarmup
  <2>3. Within(f.clients, c.clients)
    BY <2>1, WithinPrefix
  <2>4. Kept(c, f)
    BY <2>1, <2>2, <2>3, KeptWithin
  <2> QED
    BY <2>1, <2>4 DEF Listens, Idle
<1> QED
  BY <1>2, <1>4

LEMMA WarmupWitnessListens ==
    ASSUME NEW c \in CoordinatorType, FreshWarmup(c), NEW w \in Witness,
           CanWarmupWitness(c, w), NEW seed \in Seeds
    PROVE  Listens(c, WarmupWitness(c, w, seed))
<1>1. CASE c.run_state = "RoundTrain"
  BY <1>1, UnchangedListens DEF WarmupWitness
<1>2. CASE c.run_state # "RoundTrain"
  <2> DEFINE d == PushWitness(c, w)
             e == StartRoundTrain(d, seed)
  <2>0. c.run_state = "Warmup" /\ c.first_round
    BY <1>2 DEF CanWarmupWitness, FreshWarmup
  <2>1. /\ d \in CoordinatorType /\ d.run_state = c.run_state /\ d.config = c.config
        /\ d.step = c.step /\ d.clients = c.clients /\ d.exited_clients = c.exited_clients
        /\ d.first_round = c.first_round
        /\ d.epoch_start_data_index = c.epoch_start_data_index
    BY PushWitnessFacts
  <2>2. WarmupWitness(c, w, seed) \in {d, e}
    BY <1>2 DEF WarmupWitness
  <2> HIDE DEF d
  <2>3. /\ e \in CoordinatorType /\ e.run_state = "RoundTrain" /\ e.config = d.config
        /\ e.step = d.step /\ e.clients = d.clients /\ e.exited_clients = d.exited_clients
        /\ CurrentRound(e).data_index = d.epoch_start_data_index
    BY <2>0, <2>1, StartRoundTrainFacts
  <2> HIDE DEF e
  <2>4. ASSUME NEW f \in {d, e} PROVE Listens(c, f)
    <3>1. /\ f \in CoordinatorType /\ f.run_state \in {"Warmup", "RoundTrain"}
          /\ f.config = c.config
          /\ f.step = c.step /\ f.clients = c.clients /\ f.exited_clients = c.exited_clients
      BY <2>0, <2>1, <2>3
    <3>2. LedgerIndex(f) = LedgerIndex(c) /\ FreshWarmup(f)
      BY <2>0, <2>1, <2>3 DEF LedgerIndex, InRound, FreshWarmup
    <3>3. Within(f.clients, c.clients)
      BY <3>1, WithinPrefix
    <3>4. Kept(c, f)
      BY <3>1, <3>2, <3>3, KeptWithin
    <3> QED
      BY <2>0, <3>1, <3>4 DEF Listens, Idle
  <2> QED
    BY <2>2, <2>4
<1> QED
  BY <1>1, <1>2

LEMMA HealthCheckListens ==
    ASSUME NEW c \in CoordinatorType, FreshWarmup(c), NEW checks
    PROVE  Listens(c, HealthCheck(c, checks))
<1> DEFINE d == HealthCheck(c, checks)
<1>1. SameClients(c, d)
  BY HealthCheckSameClients
<1>2. d.clients = [i \in DOMAIN c.clients |->
                     IF /\ c.clients[i].state = "Healthy"
                        /\ \E k \in checks : k.index + 1 = i
                     THEN [c.clients[i] EXCEPT !.state = "Dropped"]
                     ELSE c.clients[i]]
  BY DEF HealthCheck, CoordinatorType
<1> HIDE DEF d
<1>3. \A i \in DOMAIN c.clients :
         d.clients[i].state = "Healthy" => c.clients[i].state = "Healthy"
  BY <1>2
<1> QED
  BY <1>1, <1>3, SameClientsListens DEF d

LEMMA CheckpointListens ==
    ASSUME NEW c \in CoordinatorType, FreshWarmup(c), NEW repo \in Repos
    PROVE  Listens(c, RecordCheckpoint(c, repo))
<1> DEFINE d == [c EXCEPT !.checkpoint.repo = repo]
           k == [c.checkpoint EXCEPT !.repo = repo]
<1>1. c.checkpoint \in Checkpoint
  BY DEF CoordinatorType
<1>2. k \in Checkpoint
  BY <1>1 DEF Checkpoint
<1>3. d = [c EXCEPT !.checkpoint = k]
  BY <1>1 DEF CoordinatorType
<1>4. RecordCheckpoint(c, repo) \in {c, d}
  BY DEF RecordCheckpoint
<1> HIDE DEF k, d
<1>5. d \in CoordinatorType
  BY <1>1, <1>2, <1>3 DEF CoordinatorType
<1>6. /\ d.run_state = c.run_state /\ d.config = c.config /\ d.step = c.step
      /\ d.clients = c.clients /\ d.exited_clients = c.exited_clients
      /\ d.rounds = c.rounds /\ d.rounds_head = c.rounds_head
      /\ d.first_round = c.first_round
      /\ d.epoch_start_data_index = c.epoch_start_data_index
  BY <1>3 DEF CoordinatorType
<1>7. CurrentRound(d).data_index = CurrentRound(c).data_index /\ Within(d.clients, c.clients)
  BY <1>6, WithinPrefix DEF CurrentRound
<1>8. Kept(c, d)
  BY <1>5, <1>6, <1>7, KeptInPhase
<1>9. Listens(c, d)
  BY <1>6, <1>8 DEF Listens, Idle
<1> QED
  BY <1>4, <1>9, UnchangedListens

\* Time passes for every coordinator alike.
LEMMA TimePassesFacts ==
    ASSUME NEW c \in CoordinatorType, FreshWarmup(c)
    PROVE  LET d == TimePasses(c)
           IN  /\ Kept(c, d)
               /\ d.run_state = c.run_state /\ d.clients = c.clients
               /\ d.exited_clients = c.exited_clients /\ FreshWarmup(d)
<1> DEFINE d == TimePasses(c)
<1>1. c.age \in Nat /\ c.epoch_age \in Nat
  BY DEF CoordinatorType
<1>2. Older(c.age) \in Nat /\ Older(c.epoch_age) \in Nat
  BY <1>1 DEF Older
<1>3. d = [c EXCEPT !.age = Older(c.age), !.epoch_age = Older(c.epoch_age)]
  BY <1>1 DEF TimePasses, CoordinatorType
<1> HIDE DEF d
<1>4. d \in CoordinatorType
  BY <1>1, <1>2, <1>3 DEF CoordinatorType
<1>5. /\ d.run_state = c.run_state /\ d.config = c.config /\ d.step = c.step
      /\ d.clients = c.clients /\ d.exited_clients = c.exited_clients
      /\ d.rounds = c.rounds /\ d.rounds_head = c.rounds_head
      /\ d.first_round = c.first_round
      /\ d.epoch_start_data_index = c.epoch_start_data_index
  BY <1>3 DEF CoordinatorType
<1>6. CurrentRound(d).data_index = CurrentRound(c).data_index /\ Within(d.clients, c.clients)
  BY <1>5, WithinPrefix DEF CurrentRound
<1>7. Kept(c, d)
  BY <1>4, <1>5, <1>6, KeptInPhase
<1> QED
  BY <1>5, <1>7 DEF FreshWarmup, d

\* A disconnection: the client is healthy no more, wherever it stands in the list.
LEMMA DisconnectListens ==
    ASSUME NEW c \in CoordinatorType, FreshWarmup(c), NEW from
    PROVE  LET d == Disconnect(c, from)
           IN  /\ Listens(c, d)
               /\ d.run_state = c.run_state
               /\ HealthyIds(d.clients) \subseteq HealthyIds(c.clients)
               /\ WithdrawOnDisconnect /\ OncePerClient(c) /\ from # NoIdentity =>
                     from \notin HealthyIds(d.clients)
<1> DEFINE at == {i \in DOMAIN c.clients : c.clients[i].id = from}
           d == Disconnect(c, from)
<1>0. DOMAIN c.clients = 1 .. Len(c.clients) /\ Len(c.clients) \in Nat
      /\ \A i \in DOMAIN c.clients : c.clients[i] \in Client
  BY ClientOfList
<1>1. CASE ~(WithdrawOnDisconnect /\ at # {})
  <2>1. d = c
    BY <1>1 DEF Disconnect
  <2>2. WithdrawOnDisconnect => from \notin HealthyIds(c.clients)
    BY <1>1 DEF HealthyIds
  <2> QED
    BY <2>1, <2>2, UnchangedListens
<1>2. CASE WithdrawOnDisconnect /\ at # {}
  <2> DEFINE first == CHOOSE i \in at : \A j \in at : i <= j
             index == first - 1
  <2>1. first \in at
    <3>1. at \in SUBSET Nat
      BY <1>0
    <3> HIDE DEF at
    <3>2. \E i \in at : \A j \in at : i <= j
      BY <1>2, <3>1, LeastNatural
    <3> QED
      BY <3>2
  <2>2. d = IF CanWithdraw(c, index) THEN Withdraw(c, index) ELSE c
    BY <1>2 DEF Disconnect
  <2> HIDE DEF first, d
  <2>3. /\ first \in DOMAIN c.clients /\ c.clients[first].id = from
        /\ index \in Nat /\ index + 1 = first /\ index < Len(c.clients)
    BY <1>0, <2>1
  <2> HIDE DEF index
  <2>4. CASE ~CanWithdraw(c, index)
    <3>1. d = c
      BY <2>2, <2>4
    <3>2. c.clients[first].state # "Healthy"
      BY <2>3, <2>4 DEF CanWithdraw, Has, At
    <3>3. OncePerClient(c) /\ from # NoIdentity => from \notin HealthyIds(c.clients)
      BY <2>3, <3>2 DEF OncePerClient, HealthyIds
    <3> QED
      BY <3>1, <3>3, UnchangedListens DEF d
  <2>5. CASE CanWithdraw(c, index)
    <3>1. d = Withdraw(c, index)
      BY <2>2, <2>5
    <3>2. SameClients(c, d)
      BY <2>3, <3>1, WithdrawSameClients
    <3>3. d.clients = [c.clients EXCEPT ![first].state = "Withdrawn"]
      BY <2>3, <3>1 DEF Withdraw, CoordinatorType
    <3>4. /\ \A i \in DOMAIN c.clients : i # first => d.clients[i] = c.clients[i]
          /\ d.clients[first].state = "Withdrawn"
      BY <1>0, <2>3, <3>3 DEF Client
    <3>5. \A i \in DOMAIN c.clients :
             d.clients[i].state = "Healthy" => c.clients[i].state = "Healthy"
      BY <3>4
    <3>6. Listens(c, d)
      BY <3>2, <3>5, SameClientsListens
    <3>7. d.run_state = c.run_state
      BY <3>2 DEF SameClients, CoordinatorType
    <3>8. /\ DOMAIN d.clients = DOMAIN c.clients
          /\ \A i \in DOMAIN c.clients : d.clients[i].id = c.clients[i].id
      BY <3>2 DEF SameClients
    <3>9. HealthyIds(d.clients) \subseteq HealthyIds(c.clients)
      BY <3>5, <3>8 DEF HealthyIds
    <3>10. OncePerClient(c) /\ from # NoIdentity => from \notin HealthyIds(d.clients)
      BY <2>3, <3>4, <3>8 DEF OncePerClient, HealthyIds
    <3> QED
      BY <3>6, <3>7, <3>9, <3>10 DEF d
  <2> QED
    BY <2>4, <2>5
<1> QED
  BY <1>1, <1>2

\* What the pause key makes of a coordinator.
Pressed(c) ==
    IF c.run_state = "Paused" THEN Resume(c)
    ELSE IF CanPause(c) THEN Pause(c)
    ELSE IF PauseFails(c) THEN WithdrawAll(c)
    ELSE c

\* withdraw_all makes nobody healthy, and leaves nobody healthy if it succeeds.
LEMMA WithdrawAllStates ==
    ASSUME NEW c \in CoordinatorType
    PROVE  LET d == WithdrawAll(c)
           IN  /\ \A i \in DOMAIN c.clients :
                     d.clients[i].state = "Healthy" => c.clients[i].state = "Healthy"
               /\ CanWithdrawAll(c) => HealthyIds(d.clients) = {}
<1> DEFINE d == WithdrawAll(c)
<1>0. DOMAIN c.clients = 1 .. Len(c.clients) /\ Len(c.clients) \in Nat
      /\ \A i \in DOMAIN c.clients : c.clients[i] \in Client
  BY ClientOfList
<1>1. d.clients = [i \in DOMAIN c.clients |->
                     IF \A j \in 1 .. i : c.clients[j].state = "Healthy"
                     THEN [c.clients[i] EXCEPT !.state = "Withdrawn"]
                     ELSE c.clients[i]]
  BY DEF WithdrawAll, CoordinatorType
<1> HIDE DEF d
<1>2. \A i \in DOMAIN c.clients : i \in 1 .. i
  BY <1>0
<1>3. ASSUME NEW i \in DOMAIN c.clients, d.clients[i].state = "Healthy"
      PROVE  c.clients[i].state = "Healthy"
  BY <1>1, <1>2, <1>3
<1>4. ASSUME CanWithdrawAll(c), NEW i \in DOMAIN d.clients
      PROVE  d.clients[i].state = "Withdrawn"
  <2>1. i \in DOMAIN c.clients /\ \A j \in 1 .. i : j \in DOMAIN c.clients
    BY <1>0, <1>1
  <2>2. \A j \in 1 .. i : c.clients[j].state = "Healthy"
    BY <1>4, <2>1 DEF CanWithdrawAll
  <2>3. d.clients[i] = [c.clients[i] EXCEPT !.state = "Withdrawn"]
    BY <1>1, <2>1, <2>2
  <2> QED
    BY <1>0, <2>1, <2>3 DEF Client
<1>5. CanWithdrawAll(c) => HealthyIds(d.clients) = {}
  BY <1>4 DEF HealthyIds
<1> QED
  BY <1>3, <1>5 DEF d

LEMMA PressedListens ==
    ASSUME NEW c \in CoordinatorType, FreshWarmup(c)
    PROVE  /\ Listens(c, Pressed(c))
           /\ Active(Pressed(c)) => Active(c)
<1> DEFINE w == WithdrawAll(c)
<1>1. /\ SameClients(c, w)
      /\ \A i \in DOMAIN c.clients :
            w.clients[i].state = "Healthy" => c.clients[i].state = "Healthy"
      /\ CanWithdrawAll(c) => HealthyIds(w.clients) = {}
  BY WithdrawAllSameClients, WithdrawAllStates
<1>2. Listens(c, w)
  <2> HIDE DEF w
  <2> QED
    BY <1>1, SameClientsListens
<1>3. w.run_state = c.run_state /\ w \in CoordinatorType
  <2> HIDE DEF w
  <2> QED
    BY <1>1 DEF SameClients, CoordinatorType
<1>4. CASE c.run_state = "Paused"
  <2> DEFINE d == StartWaitingForMembers(c)
  <2>1. Pressed(c) = d
    BY <1>4 DEF Pressed, Resume
  <2>2. /\ d \in CoordinatorType /\ d.run_state \in {"WaitingForMembers", "Finished"}
        /\ d.config = c.config /\ d.step = c.step
        /\ d.clients = c.clients /\ d.exited_clients = c.exited_clients
        /\ d.epoch_start_data_index = c.epoch_start_data_index
    BY StartWaitingFacts
  <2> HIDE DEF d
  <2>3. LedgerIndex(d) = LedgerIndex(c) /\ FreshWarmup(d)
    BY <1>4, <2>2 DEF LedgerIndex, InRound, FreshWarmup
  <2>4. Within(d.clients, c.clients)
    BY <2>2, WithinPrefix
  <2>5. Kept(c, d)
    BY <2>2, <2>3, <2>4, KeptWithin
  <2> QED
    BY <1>4, <2>1, <2>2, <2>5 DEF Listens, Idle, Active
<1>5. CASE c.run_state # "Paused" /\ CanPause(c) /\ Active(c)
  <2> DEFINE d == [c EXCEPT !.pending_pause = TRUE]
  <2>1. Pressed(c) = d
    BY <1>5 DEF Pressed, Pause
  <2>2. /\ d \in CoordinatorType
        /\ d.run_state = c.run_state /\ d.config = c.config /\ d.step = c.step
        /\ d.clients = c.clients /\ d.exited_clients = c.exited_clients
        /\ d.rounds = c.rounds /\ d.rounds_head = c.rounds_head
        /\ d.first_round = c.first_round
        /\ d.epoch_start_data_index = c.epoch_start_data_index
    BY DEF CoordinatorType
  <2> HIDE DEF d
  <2>3. CurrentRound(d).data_index = CurrentRound(c).data_index /\ Within(d.clients, c.clients)
    BY <2>2, WithinPrefix DEF CurrentRound
  <2>4. Kept(c, d)
    BY <2>2, <2>3, KeptInPhase
  <2> QED
    BY <1>5, <2>1, <2>2, <2>4 DEF Listens, Idle
<1>6. CASE c.run_state # "Paused" /\ CanPause(c) /\ ~Active(c)
  <2> DEFINE d == [ChangeState(w, "Paused") EXCEPT !.cold_start_epoch = TRUE]
  <2>1. Pressed(c) = d
    BY <1>6 DEF Pressed, Pause
  <2>2. CanWithdrawAll(c) /\ c.run_state \notin {"RoundTrain", "RoundWitness", "Cooldown"}
    BY <1>6 DEF CanPause, Active
  <2> HIDE DEF w
  <2>3. /\ d \in CoordinatorType /\ d.run_state = "Paused"
        /\ d.config = w.config /\ d.step = w.step
        /\ d.clients = w.clients /\ d.exited_clients = w.exited_clients
        /\ d.epoch_start_data_index = w.epoch_start_data_index
    BY <1>3 DEF ChangeState, CoordinatorType, RunStates
  <2> HIDE DEF d
  <2>4. /\ w.config = c.config /\ w.step = c.step /\ w.exited_clients = c.exited_clients
        /\ w.epoch_start_data_index = c.epoch_start_data_index
    BY <1>1 DEF SameClients, CoordinatorType
  <2>5. LedgerIndex(d) = LedgerIndex(c) /\ FreshWarmup(d)
    BY <2>2, <2>3, <2>4 DEF LedgerIndex, InRound, FreshWarmup
  <2>6. Within(d.clients, c.clients)
    BY <1>1, <2>3, SameClientsWithin
  <2>7. Kept(c, d)
    BY <2>3, <2>4, <2>5, <2>6, KeptWithin
  <2>8. HealthyIds(d.clients) = {}
    BY <1>1, <2>2, <2>3
  <2>9. ~Active(d) /\ d.run_state # "Warmup"
    BY <2>3 DEF Active
  <2> QED
    BY <2>1, <2>3, <2>4, <2>7, <2>8, <2>9 DEF Listens
<1>7. CASE c.run_state # "Paused" /\ ~CanPause(c)
  <2>1. Pressed(c) \in {w, c}
    BY <1>7 DEF Pressed
  <2>2. Listens(c, c)
    BY UnchangedListens
  <2>3. Active(w) = Active(c)
    BY <1>3 DEF Active
  <2> HIDE DEF w
  <2> QED
    BY <1>2, <2>1, <2>2, <2>3
<1> QED
  BY <1>4, <1>5, <1>6, <1>7

-----------------------------------------------------------------------------
(* What the server itself does to a coordinator. *)

\* The configuration g, had its warmup time not been overridden.
WithWarmup(g, time) == [g EXCEPT !.warmup_time = time]

\* The data of the step that c is at, or trains next, is where its number says.
LedgerKept(c) == c.step >= 1 /\ LedgerIndex(c) = FirstIndexOf(c.config, c.step)

\* What is kept of a coordinator, given the warmup time of the file it came from.
Sound(c, time) ==
    /\ c \in CoordinatorType
    /\ LedgerKept(c)
    /\ FreshWarmup(c)
    /\ OncePerClient(c)
    /\ WithWarmup(c.config, time) \in ServerConfigs

\* Every method keeps it.
LEMMA KeptSound ==
    ASSUME NEW c, NEW time, Sound(c, time), NEW d, Kept(c, d)
    PROVE  Sound(d, time)
<1>1. /\ c \in CoordinatorType /\ LedgerKept(c) /\ OncePerClient(c)
      /\ WithWarmup(c.config, time) \in ServerConfigs
  BY DEF Sound
<1>2. /\ d \in CoordinatorType /\ FreshWarmup(d) /\ OncePerClient(d) /\ d.config = c.config
      /\ \/ d.step = c.step /\ LedgerIndex(d) = LedgerIndex(c)
         \/ d.step = c.step + 1 /\ LedgerIndex(d) = Following(c.config, LedgerIndex(c))
  BY <1>1 DEF Kept
<1>3. c.step \in Nat \ {0}
  BY <1>1 DEF LedgerKept, CoordinatorType
<1>4. LedgerIndex(c) = FirstIndexOf(c.config, c.step)
  BY <1>1 DEF LedgerKept
<1> DEFINE g == c.config
           n == c.step
<1>5. FirstIndexOf(g, n + 1) = Following(g, FirstIndexOf(g, n))
  BY <1>3, FirstIndexFacts
<1>6. d.step >= 1 /\ LedgerIndex(d) = FirstIndexOf(c.config, d.step)
  BY <1>2, <1>3, <1>4, <1>5
<1>7. LedgerKept(d)
  BY <1>2, <1>6 DEF LedgerKept
<1> QED
  BY <1>1, <1>2, <1>7 DEF Sound

\* The data does not depend on the warmup time.
LEMMA WarmupTimeAlone ==
    ASSUME NEW c \in CoordinatorType, NEW g \in Configs, NEW time,
           g = WithWarmup(c.config, time)
    PROVE  /\ [c EXCEPT !.config = g] \in CoordinatorType
           /\ LedgerKept(c) => LedgerKept([c EXCEPT !.config = g])
<1> DEFINE d == [c EXCEPT !.config = g]
<1>1. /\ d \in CoordinatorType /\ d.config = g /\ d.step = c.step
      /\ d.run_state = c.run_state /\ d.rounds = c.rounds /\ d.rounds_head = c.rounds_head
      /\ d.epoch_start_data_index = c.epoch_start_data_index
  BY DEF CoordinatorType
<1>2. c.config \in ConfigType
  BY ConfigsAssumption DEF CoordinatorType
<1>3. /\ g.global_batch_size_start = c.config.global_batch_size_start
      /\ g.global_batch_size_end = c.config.global_batch_size_end
      /\ g.global_batch_size_warmup_tokens = c.config.global_batch_size_warmup_tokens
  BY <1>2 DEF WithWarmup, ConfigType
<1> HIDE DEF d
<1>4. \A x : BatchSize(g, x) = BatchSize(c.config, x)
  BY <1>3 DEF BatchSize
<1>5. LedgerIndex(d) = LedgerIndex(c)
  <2>1. CurrentRound(d) = CurrentRound(c)
    BY <1>1 DEF CurrentRound
  <2>2. NextDataIndex(d, CurrentRound(d)) = NextDataIndex(c, CurrentRound(c))
    BY <1>1, <1>4, <2>1 DEF NextDataIndex
  <2> QED
    BY <1>1, <2>1, <2>2 DEF LedgerIndex, InRound
<1>6. ASSUME LedgerKept(c)
      PROVE  LedgerKept(d)
  <2>1. c.step \in Nat \ {0} /\ LedgerIndex(c) = FirstIndexOf(c.config, c.step)
    BY <1>6 DEF LedgerKept, CoordinatorType
  <2>2. \A s \in Nat \ {0} : FirstIndexOf(g, s) = FirstIndexOf(c.config, s)
    <3> DEFINE h == c.config
    <3> HIDE DEF h
    <3>1. \A x : BatchSize(g, x) = BatchSize(h, x)
      BY <1>4 DEF h
    <3>2. \A s \in Nat \ {0} : FirstIndexOf(g, s) = FirstIndexOf(h, s)
      BY <3>1, FirstIndexSame
    <3> QED
      BY <3>2 DEF h
  <2>3. FirstIndexOf(g, c.step) = FirstIndexOf(c.config, c.step)
    BY <2>1, <2>2
  <2> QED
    BY <1>1, <1>5, <2>1, <2>3 DEF LedgerKept
<1> QED
  BY <1>1, <1>6 DEF d

\* post_state_change, given the warmup time of the file.
Posted(c, time) ==
    IF Active(c) THEN [c EXCEPT !.config.warmup_time = time] ELSE c

\* It touches the warmup time only, and is what ends its override.
LEMMA PostedSound ==
    ASSUME NEW c, NEW time, Sound(c, time)
    PROVE  LET d == Posted(c, time)
           IN  /\ Sound(d, time)
               /\ Active(d) => d.config.warmup_time = time
               /\ d.run_state = c.run_state /\ d.clients = c.clients
               /\ d.exited_clients = c.exited_clients /\ d.checkpoint = c.checkpoint
<1>1. c \in CoordinatorType /\ WithWarmup(c.config, time) \in ServerConfigs
  BY DEF Sound
<1>2. CASE ~Active(c)
  BY <1>2 DEF Posted
<1>3. CASE Active(c)
  <2> DEFINE g == WithWarmup(c.config, time)
             d == [c EXCEPT !.config = g]
  <2>1. Posted(c, time) = d
    BY <1>1, <1>3 DEF Posted, WithWarmup, CoordinatorType
  <2>2. g \in Configs
    BY <1>1, ServerAssumption
  <2>3. d \in CoordinatorType /\ (LedgerKept(c) => LedgerKept(d))
    BY <1>1, <2>2, WarmupTimeAlone
  <2>4. /\ d.run_state = c.run_state /\ d.clients = c.clients /\ d.config = g
        /\ d.exited_clients = c.exited_clients /\ d.checkpoint = c.checkpoint
        /\ d.first_round = c.first_round
    BY <1>1 DEF CoordinatorType
  <2> HIDE DEF d
  <2>5. c.config \in ConfigType
    BY <1>1, ConfigsAssumption DEF CoordinatorType
  <2>6. g.warmup_time = time /\ WithWarmup(g, time) = g
    BY <2>5 DEF WithWarmup, ConfigType
  <2> HIDE DEF g
  <2>7. FreshWarmup(d) /\ OncePerClient(d)
    BY <2>4 DEF Sound, FreshWarmup, OncePerClient
  <2>8. Sound(d, time)
    BY <1>1, <2>3, <2>4, <2>6, <2>7 DEF Sound, g
  <2> QED
    BY <2>1, <2>4, <2>6, <2>8
<1> QED
  BY <1>2, <1>3

\* reset_ephemeral forgets the clients and nothing of what was trained.
LEMMA ResetFacts ==
    ASSUME NEW c \in CoordinatorType
    PROVE  LET d == ResetEphemeral(c)
           IN  /\ d \in CoordinatorType /\ d.run_state = "WaitingForMembers"
               /\ d.config = c.config
               /\ c.run_state \in {"WaitingForMembers", "Paused", "Finished"} /\ LedgerKept(c)
                     => LedgerKept(d)
               /\ \A i \in DOMAIN d.clients : d.clients[i].id = NoIdentity
<1> DEFINE d == ResetEphemeral(c)
           here == [i \in DOMAIN c.clients |-> DefaultClient]
           gone == [i \in DOMAIN c.exited_clients |-> DefaultClient]
<1>1. DefaultClient \in Client /\ DefaultClient.id = NoIdentity
  BY ServerAssumption DEF DefaultClient, NewClient, Client, ClientStates
<1> HIDE DEF DefaultClient
<1>2. c.clients \in Seq(Client) /\ c.exited_clients \in Seq(Client)
  BY DEF CoordinatorType
<1>3. here \in Seq(Client) /\ gone \in Seq(Client)
  BY <1>1, <1>2
<1>4. d = [c EXCEPT !.run_state = "WaitingForMembers", !.clients = here,
                    !.exited_clients = gone]
  BY DEF ResetEphemeral
<1>5. \A i \in DOMAIN here : here[i].id = NoIdentity
  BY <1>1
<1> HIDE DEF here, gone, d
<1>6. /\ d \in CoordinatorType /\ d.run_state = "WaitingForMembers"
      /\ d.config = c.config /\ d.step = c.step /\ d.clients = here
      /\ d.epoch_start_data_index = c.epoch_start_data_index
  BY <1>3, <1>4 DEF CoordinatorType, RunStates
<1>7. ASSUME c.run_state \in {"WaitingForMembers", "Paused", "Finished"}, LedgerKept(c)
      PROVE  LedgerKept(d)
  <2>1. /\ LedgerIndex(c) = c.epoch_start_data_index
        /\ LedgerIndex(d) = d.epoch_start_data_index
    BY <1>6, <1>7 DEF LedgerIndex, InRound
  <2> QED
    BY <1>6, <1>7, <2>1 DEF LedgerKept
<1> QED
  BY <1>5, <1>6, <1>7 DEF d

\* A server that starts from a file.
LEMMA StartedSound ==
    ASSUME NEW c \in CoordinatorType, c.run_state = "WaitingForMembers", LedgerKept(c),
           c.config \in ServerConfigs, NEW t \in InitWarmupTimes
    PROVE  LET d == Started(c, t)
           IN  /\ Sound(d, c.config.warmup_time)
               /\ d.run_state = "WaitingForMembers"
               /\ HealthyIds(d.clients) \subseteq {NoIdentity}
<1> DEFINE r == ResetEphemeral(c)
           d == Started(c, t)
           g == WithWarmup(c.config, t)
<1>1. /\ r \in CoordinatorType /\ r.run_state = "WaitingForMembers"
      /\ r.config = c.config /\ LedgerKept(r)
      /\ \A i \in DOMAIN r.clients : r.clients[i].id = NoIdentity
  BY ResetFacts
<1> HIDE DEF r
<1>2. g \in Configs
  BY ServerAssumption DEF WithWarmup
<1>3. d = [r EXCEPT !.config = g]
  BY <1>1 DEF Started, WithWarmup, CoordinatorType, r
<1> HIDE DEF d
<1>4. g = WithWarmup(r.config, t)
  BY <1>1
<1>5. c.config \in ConfigType
  BY ConfigsAssumption DEF CoordinatorType
<1>6. WithWarmup(g, c.config.warmup_time) = c.config
  BY <1>5 DEF WithWarmup, ConfigType
<1> HIDE DEF g
<1>7. d \in CoordinatorType /\ LedgerKept(d)
  BY <1>1, <1>2, <1>3, <1>4, WarmupTimeAlone
<1>8. d.config = g /\ d.run_state = "WaitingForMembers" /\ d.clients = r.clients
  BY <1>1, <1>3 DEF CoordinatorType
<1>9. FreshWarmup(d) /\ OncePerClient(d) /\ HealthyIds(d.clients) \subseteq {NoIdentity}
  BY <1>1, <1>8 DEF FreshWarmup, OncePerClient, HealthyIds
<1>10. Sound(d, c.config.warmup_time)
  BY <1>6, <1>7, <1>8, <1>9 DEF Sound
<1> QED
  BY <1>8, <1>9, <1>10 DEF d

\* The pending clients, in whichever order the HashSet is iterated.
LEMMA OrderingsArePending ==
    ASSUME NEW S \in SUBSET Peers, NEW order \in Orderings(S)
    PROVE  /\ IsPending(order) /\ Len(order) = Cardinality(S)
           /\ \A i \in DOMAIN order : order[i] \in S
<1>1. IsFiniteSet(S)
  BY ServerAssumption, FS_Subset
<1>2. Cardinality(S) \in Nat
  BY <1>1, FS_CardinalityType
<1>3. /\ order \in [1 .. Cardinality(S) -> S]
      /\ \A i, j \in DOMAIN order : order[i] = order[j] => i = j
  BY DEF Orderings
<1>4. S \subseteq ClientIds
  BY ServerAssumption
<1>5. order = [i \in 1 .. Cardinality(S) |-> order[i]] /\ \A i \in 1 .. Cardinality(S) : order[i] \in ClientIds
  BY <1>3, <1>4
<1>6. order \in Seq(ClientIds) /\ Len(order) = Cardinality(S)
  BY <1>2, <1>5, FunctionToSeq
<1> QED
  BY <1>3, <1>6 DEF IsPending

-----------------------------------------------------------------------------
(* The inductive invariant. *)

\* The file holds an epoch boundary and the configuration it was started with.
FileSound ==
    /\ file \in CoordinatorType
    /\ file.run_state = "WaitingForMembers"
    /\ LedgerKept(file)
    /\ file.config \in ServerConfigs

\* Once training has begun the warmup time is that of the file again.
OverrideEnds ==
    Active(coordinator) => coordinator.config.warmup_time = original_warmup_time

\* Who left and is still pending is among those that the next tick kicks.
LeaversAreKicked == left \cap pending \subseteq Unhealthy(coordinator.exited_clients)

\* Between two epochs, whoever is listed as healthy has been there since the last one.
HealthyStayed ==
    WithdrawOnDisconnect /\ Idle(coordinator) =>
        HealthyIds(coordinator.clients) \ {NoIdentity} \subseteq stayed

ServerIInv ==
    /\ NotificationsTypeOK
    /\ pending \in SUBSET Peers
    /\ Sound(coordinator, original_warmup_time)
    /\ FileSound
    /\ OverrideEnds
    /\ LeaversAreKicked
    /\ HealthyStayed

\* It implies the invariant that the run checks.
LEMMA ServerIInvImplies ==
    ASSUME ServerIInv
    PROVE  ServerInv
<1>1. coordinator \in CoordinatorType /\ LedgerKept(coordinator)
  BY DEF ServerIInv, Sound
<1>2. ServerTypeOK
  BY <1>1 DEF ServerIInv, FileSound, ServerTypeOK
<1>3. DataFollowsSteps
  BY <1>1 DEF DataFollowsSteps, LedgerKept, LedgerIndex, InRound
<1>4. OverrideNotSaved
  BY DEF ServerIInv, FileSound, OverrideNotSaved
<1> QED
  BY <1>2, <1>3, <1>4 DEF ServerInv

LEMMA ServerStarts ==
    ASSUME ServerInit
    PROVE  ServerIInv
<1>1. PICK g \in ServerConfigs, t \in InitWarmupTimes :
         /\ NotificationsInit
         /\ coordinator = Started(FreshCoordinator(g, ServerCheckpoint, "WaitingForMembers"), t)
         /\ original_warmup_time = g.warmup_time
         /\ file = FreshCoordinator(g, ServerCheckpoint, "WaitingForMembers")
         /\ pending = {} /\ left = {}
  BY DEF ServerInit
<1> DEFINE c == FreshCoordinator(g, ServerCheckpoint, "WaitingForMembers")
<1>2. /\ c \in CoordinatorType /\ c.run_state = "WaitingForMembers" /\ c.config = g
      /\ c.step = 1 /\ c.epoch_start_data_index = 0
  <2>1. g \in Configs /\ ServerCheckpoint \in Checkpoint
    BY ServerAssumption
  <2>2. ZeroRound \in Round
    BY SizesAssumption DEF ZeroRound, Round
  <2>3. [r \in RoundSlots |-> ZeroRound] \in [RoundSlots -> Round] /\ 0 \in RoundSlots
    BY <2>2, SizesAssumption DEF RoundSlots
  <2> QED
    BY <2>1, <2>3 DEF FreshCoordinator, CoordinatorType, RunStates
<1> HIDE DEF c
<1>3. LedgerKept(c)
  BY <1>2, FirstIndexFacts DEF LedgerKept, LedgerIndex, InRound
<1>4. /\ Sound(Started(c, t), c.config.warmup_time)
      /\ Started(c, t).run_state = "WaitingForMembers"
      /\ HealthyIds(Started(c, t).clients) \subseteq {NoIdentity}
  BY <1>2, <1>3, StartedSound
<1>5. file = c /\ coordinator = Started(c, t) /\ original_warmup_time = c.config.warmup_time
  BY <1>1, <1>2 DEF c
<1>6. Sound(coordinator, original_warmup_time) /\ FileSound
  BY <1>2, <1>3, <1>4, <1>5 DEF FileSound
<1>7. OverrideEnds /\ LeaversAreKicked /\ HealthyStayed
  BY <1>1, <1>4, <1>5 DEF OverrideEnds, Active, LeaversAreKicked, HealthyStayed
<1>8. NotificationsTypeOK
  BY <1>1, TcpAssumption DEF NotificationsInit, NotificationsTypeOK
<1> QED
  BY <1>1, <1>6, <1>7, <1>8 DEF ServerIInv

\* The queues keep their types.
LEMMA SessionsTyped ==
    ASSUME NotificationsTypeOK, SessionStep
    PROVE  NotificationsTypeOK'
<1>1. PICK p \in Peers :
         \/ SessionOpens(p)
         \/ \E msg \in Messages : MessageArrives(p, msg)
         \/ SessionCloses(p)
         \/ SessionAborts(p)
  BY DEF SessionStep
<1>2. sessions[p] \in 0 .. MaxConnections /\ MaxConnections \in Nat
  BY TcpAssumption DEF NotificationsTypeOK
<1>3. CASE SessionOpens(p)
  BY <1>2, <1>3 DEF SessionOpens, NotificationsTypeOK
<1>4. ASSUME NEW msg \in Messages, MessageArrives(p, msg)
      PROVE  NotificationsTypeOK'
  <2>1. [from |-> p, msg |-> msg] \in [from : Peers, msg : Messages]
    OBVIOUS
  <2>2. Append(incoming, [from |-> p, msg |-> msg]) \in Seq([from : Peers, msg : Messages])
    BY <2>1, AppendToSequence DEF NotificationsTypeOK
  <2> QED
    BY <1>4, <2>2 DEF MessageArrives, NotificationsTypeOK
<1>5. CASE SessionCloses(p)
  <2>1. Append(disconnected, p) \in Seq(Peers)
    BY AppendToSequence DEF NotificationsTypeOK
  <2>2. [sessions EXCEPT ![p] = sessions[p] - 1] \in [Peers -> 0 .. MaxConnections]
    BY <1>2, <1>5 DEF SessionCloses, NotificationsTypeOK
  <2> QED
    BY <1>5, <2>1, <2>2 DEF SessionCloses, NotificationsTypeOK
<1>6. CASE SessionAborts(p)
  BY <1>2, <1>6 DEF SessionAborts, NotificationsTypeOK
<1> QED
  BY <1>1, <1>3, <1>4, <1>5, <1>6

\* A message or a join that makes the coordinator d.
LEMMA HeardKeeps ==
    ASSUME ServerIInv, NEW d, Listens(coordinator, d),
           coordinator' = PostStateChange(d),
           original_warmup_time' = original_warmup_time, file' = file, stayed' = stayed,
           pending' \in SUBSET Peers, left' \cap pending' \subseteq left \cap pending,
           NotificationsTypeOK'
    PROVE  ServerIInv'
<1> DEFINE e == Posted(d, original_warmup_time)
<1>1. coordinator' = e
  BY DEF PostStateChange, Posted
<1>2. /\ Sound(coordinator, original_warmup_time) /\ FileSound /\ OverrideEnds
      /\ LeaversAreKicked /\ HealthyStayed
  BY DEF ServerIInv
<1>3. Kept(coordinator, d)
  BY DEF Listens
<1>4. Sound(d, original_warmup_time)
  BY <1>2, <1>3, KeptSound
<1>5. /\ Sound(e, original_warmup_time)
      /\ Active(e) => e.config.warmup_time = original_warmup_time
      /\ e.run_state = d.run_state /\ e.clients = d.clients
      /\ e.exited_clients = d.exited_clients
  BY <1>4, PostedSound
<1> HIDE DEF e
<1>6. Sound(coordinator, original_warmup_time)' /\ OverrideEnds'
  BY <1>1, <1>5 DEF OverrideEnds
<1>7. FileSound'
  BY <1>2 DEF FileSound
<1>8. LeaversAreKicked'
  <2>1. coordinator'.exited_clients = coordinator.exited_clients
    BY <1>1, <1>5 DEF Listens
  <2> QED
    BY <1>2, <2>1 DEF LeaversAreKicked
<1>9. HealthyStayed'
  BY <1>1, <1>2, <1>5 DEF HealthyStayed, Listens, Idle
<1> QED
  BY <1>6, <1>7, <1>8, <1>9 DEF ServerIInv

\* An event that makes the coordinator d and is not followed by post_state_change.
LEMMA SilentlyKeeps ==
    ASSUME ServerIInv, NEW d, Listens(coordinator, d), coordinator' = d,
           Active(d) => Active(coordinator),
           original_warmup_time' = original_warmup_time, file' = file,
           WithdrawOnDisconnect =>
              HealthyIds(d.clients) \cap stayed \subseteq stayed',
           pending' \subseteq pending, left' = left, NotificationsTypeOK'
    PROVE  ServerIInv'
<1>1. /\ Sound(coordinator, original_warmup_time) /\ FileSound /\ OverrideEnds
      /\ LeaversAreKicked /\ HealthyStayed /\ pending \in SUBSET Peers
  BY DEF ServerIInv
<1>2. Kept(coordinator, d)
  BY DEF Listens
<1>3. Sound(d, original_warmup_time)
  BY <1>1, <1>2, KeptSound
<1>4. FileSound'
  BY <1>1 DEF FileSound
<1>5. OverrideEnds'
  BY <1>1, <1>2 DEF OverrideEnds, Kept
<1>6. LeaversAreKicked'
  BY <1>1 DEF LeaversAreKicked, Listens
<1>7. HealthyStayed'
  BY <1>1 DEF HealthyStayed, Listens
<1> QED
  BY <1>1, <1>3, <1>4, <1>5, <1>6, <1>7 DEF ServerIInv

\* on_tick, for an order of the pending clients, a seed and a clock; with it, what it
\* admits when it starts an epoch.
LEMMA TickKeeps ==
    ASSUME ServerIInv, OnTick
    PROVE  ServerIInv' /\ (EpochStarts => P2PHasHolder /\ UnhealthyMustRejoin)
<1> DEFINE waiting == KickUnhealthyClients(coordinator, pending)
<1>0. /\ NotificationsTypeOK /\ pending \in SUBSET Peers
      /\ Sound(coordinator, original_warmup_time) /\ FileSound /\ OverrideEnds
      /\ LeaversAreKicked /\ HealthyStayed
  BY DEF ServerIInv
<1>1. PICK order \in Orderings(waiting), seed \in Seeds,
           before \in {coordinator, TimePasses(coordinator)} :
         LET ticked == IF CanTick(before) THEN Tick(before, order, seed)
                                          ELSE Ticked(before)
             c == ticked.st
         IN  /\ pending' = KickUnhealthyClients(coordinator, pending)
             /\ coordinator' = PostStateChange(c)
             /\ file' = IF ticked.result = "EpochEnd"
                        THEN SavedState(before, c) ELSE file
             /\ stayed' = IF ticked.result \in {"EpochEnd", "EpochAbandoned"}
                          THEN HealthyIds(c.clients)
                          ELSE IF c.run_state \in {"WaitingForMembers", "Paused"}
                          THEN stayed ELSE {}
             /\ left' = left \cup (Unhealthy(c.exited_clients) \
                                   Unhealthy(before.exited_clients))
             /\ UNCHANGED <<original_warmup_time, interventions, notificationVars>>
  BY DEF OnTick
<1> DEFINE ticked == IF CanTick(before) THEN Tick(before, order, seed) ELSE Ticked(before)
           c == ticked.st
           e == Posted(c, original_warmup_time)
<1>2. /\ pending' = waiting
      /\ coordinator' = e
      /\ ticked.result = "EpochEnd" => file' = ResetEphemeral(c)
      /\ ticked.result # "EpochEnd" => file' = file
      /\ ticked.result \in {"EpochEnd", "EpochAbandoned"} => stayed' = HealthyIds(c.clients)
      /\ ticked.result \notin {"EpochEnd", "EpochAbandoned"} /\ Idle(c) => stayed' = stayed
      /\ left' = left \cup (Unhealthy(c.exited_clients) \ Unhealthy(before.exited_clients))
      /\ original_warmup_time' = original_warmup_time
      /\ sessions' = sessions /\ incoming' = incoming /\ disconnected' = disconnected
  BY <1>1 DEF SavedState, PostStateChange, Posted, Idle, notificationVars
<1>3. waiting \in SUBSET Peers /\ waiting = pending \ Unhealthy(coordinator.exited_clients)
  BY <1>0 DEF KickUnhealthyClients
<1>4. /\ IsPending(order) /\ Len(order) = Cardinality(waiting)
      /\ \A i \in DOMAIN order : order[i] \in waiting
  BY <1>3, OrderingsArePending
<1> HIDE DEF waiting
<1>5. coordinator \in CoordinatorType /\ FreshWarmup(coordinator)
  BY <1>0 DEF Sound
<1>6. /\ Kept(coordinator, before) /\ before.run_state = coordinator.run_state
      /\ before.clients = coordinator.clients
      /\ before.exited_clients = coordinator.exited_clients
  BY <1>1, <1>5, TimePassesFacts, KeptUnchanged
<1>7. /\ Sound(before, original_warmup_time) /\ before.config = coordinator.config
      /\ before \in CoordinatorType /\ FreshWarmup(before)
  BY <1>0, <1>6, KeptSound DEF Kept, Sound
<1>8. TickKept(before, ticked)
  BY <1>4, <1>7, TickStepKept
<1>9. /\ Kept(before, c)
      /\ ticked.result = "EpochEnd" =>
            /\ before.run_state = "Cooldown"
            /\ c.run_state \in {"WaitingForMembers", "Paused", "Finished"}
      /\ ticked.result \notin {"EpochEnd", "EpochAbandoned"} /\ Idle(c) => c = before
      /\ c.run_state = "Warmup" => before.run_state \in {"WaitingForMembers", "Warmup"}
  <2> HIDE DEF ticked
  <2> QED
    BY <1>8 DEF TickKept
<1>10. before.run_state = "WaitingForMembers" => ticked = TickWaitingForMembers(before, order)
  BY DEF CanTick, Halted, Tick
<1> HIDE DEF ticked
<1>11. Sound(c, original_warmup_time)
  BY <1>7, <1>9, KeptSound
<1>12. /\ Sound(e, original_warmup_time)
       /\ Active(e) => e.config.warmup_time = original_warmup_time
       /\ e.run_state = c.run_state /\ e.clients = c.clients
       /\ e.exited_clients = c.exited_clients /\ e.checkpoint = c.checkpoint
  BY <1>11, PostedSound
<1> HIDE DEF c, e
<1>13. Sound(coordinator, original_warmup_time)' /\ OverrideEnds'
  BY <1>2, <1>12 DEF OverrideEnds
<1>14. FileSound'
  <2>1. CASE ticked.result # "EpochEnd"
    BY <1>0, <1>2, <2>1 DEF FileSound
  <2>2. CASE ticked.result = "EpochEnd"
    <3>1. /\ before.run_state = "Cooldown"
          /\ c.run_state \in {"WaitingForMembers", "Paused", "Finished"}
      BY <1>9, <2>2
    <3>2. c \in CoordinatorType /\ LedgerKept(c) /\ c.config = coordinator.config
      BY <1>7, <1>9, <1>11 DEF Sound, Kept
    <3>3. /\ ResetEphemeral(c) \in CoordinatorType /\ LedgerKept(ResetEphemeral(c))
          /\ ResetEphemeral(c).run_state = "WaitingForMembers"
          /\ ResetEphemeral(c).config = c.config
      BY <3>1, <3>2, ResetFacts
    <3>4. coordinator.config.warmup_time = original_warmup_time
      BY <1>0, <1>6, <3>1 DEF OverrideEnds, Active
    <3>5. coordinator.config \in ConfigType
      BY <1>5, ConfigsAssumption DEF CoordinatorType
    <3>6. WithWarmup(coordinator.config, original_warmup_time) = coordinator.config
      BY <3>4, <3>5 DEF WithWarmup, ConfigType
    <3>7. c.config \in ServerConfigs
      BY <1>0, <3>2, <3>6 DEF Sound
    <3> QED
      BY <1>2, <2>2, <3>3, <3>7 DEF FileSound
  <2> QED
    BY <2>1, <2>2
<1>15. left \cap waiting = {}
  BY <1>0, <1>3 DEF LeaversAreKicked
<1>16. LeaversAreKicked'
  BY <1>2, <1>12, <1>15 DEF LeaversAreKicked
<1>17. HealthyStayed'
  <2>1. CASE ticked.result \in {"EpochEnd", "EpochAbandoned"}
    BY <1>2, <1>12, <2>1 DEF HealthyStayed
  <2>2. CASE ticked.result \notin {"EpochEnd", "EpochAbandoned"} /\ Idle(c)
    BY <1>0, <1>2, <1>6, <1>9, <1>12, <2>2 DEF HealthyStayed, Idle
  <2>3. CASE ~Idle(c)
    BY <1>2, <1>12, <2>3 DEF HealthyStayed, Idle
  <2> QED
    BY <2>1, <2>2, <2>3
<1>18. ServerIInv'
  <2>1. NotificationsTypeOK'
    BY <1>0, <1>2 DEF NotificationsTypeOK
  <2> QED
    BY <1>2, <1>3, <1>13, <1>14, <1>16, <1>17, <2>1 DEF ServerIInv
<1>19. ASSUME EpochStarts
       PROVE  P2PHasHolder /\ UnhealthyMustRejoin
  <2>1. before.run_state = "WaitingForMembers" /\ c.run_state = "Warmup"
    BY <1>2, <1>6, <1>12, <1>19 DEF EpochStarts
  <2> DEFINE t == TickWaitingForMembers(before, order)
  <2>2. c = t.st
    BY <1>10, <2>1 DEF c
  <2>3. t.st.run_state = "Warmup" =>
          /\ \A i \in DOMAIN t.st.clients :
                \E j \in DOMAIN order : t.st.clients[i].id = order[j]
          /\ t.st.checkpoint.kind = "P2P" /\ Len(order) <= MaxClients =>
                \E i \in DOMAIN t.st.clients, k \in DOMAIN before.clients :
                   /\ t.st.clients[i].state = "Healthy"
                   /\ before.clients[k].state = "Healthy"
                   /\ t.st.clients[i].id = before.clients[k].id
                   /\ \E j \in DOMAIN order : t.st.clients[i].id = order[j]
    BY SMTT(30), <1>4, <1>7, <2>1, TickWaitingKept
  <2> HIDE DEF t
  <2>4. /\ \A i \in DOMAIN c.clients : c.clients[i].id \in waiting
        /\ c.checkpoint.kind = "P2P" /\ Len(order) <= MaxClients =>
              \E i \in DOMAIN c.clients, k \in DOMAIN coordinator.clients :
                 /\ c.clients[i].state = "Healthy"
                 /\ coordinator.clients[k].state = "Healthy"
                 /\ c.clients[i].id = coordinator.clients[k].id
    BY <1>4, <1>6, <2>1, <2>2, <2>3
  <2>5. UnhealthyMustRejoin
    BY <1>2, <1>12, <1>15, <2>4 DEF UnhealthyMustRejoin, HealthyIds
  <2>6. ASSUME WithdrawOnDisconnect, Cardinality(pending') <= MaxClients,
               coordinator'.checkpoint.kind = "P2P"
        PROVE  HealthyIds(coordinator'.clients) \cap stayed # {}
    <3>1. PICK i \in DOMAIN c.clients, k \in DOMAIN coordinator.clients :
             /\ c.clients[i].state = "Healthy"
             /\ coordinator.clients[k].state = "Healthy"
             /\ c.clients[i].id = coordinator.clients[k].id
      BY <1>2, <1>4, <1>12, <2>4, <2>6
    <3>2. c.clients[i].id # NoIdentity
      BY <1>3, <2>4, ServerAssumption
    <3>3. c.clients[i].id \in HealthyIds(coordinator.clients) \ {NoIdentity}
      BY <3>1, <3>2 DEF HealthyIds
    <3>4. HealthyIds(coordinator.clients) \ {NoIdentity} \subseteq stayed
      BY <1>0, <1>6, <2>1, <2>6 DEF HealthyStayed, Idle
    <3>5. c.clients[i].id \in HealthyIds(coordinator'.clients)
      BY <1>2, <1>12, <3>1 DEF HealthyIds
    <3> QED
      BY <3>3, <3>4, <3>5
  <2> QED
    BY <2>5, <2>6 DEF P2PHasHolder
<1> QED
  BY <1>18, <1>19

\* A server that starts again has lost its connections and its ghosts, not its data.
LEMMA RestartKeeps ==
    ASSUME ServerIInv, Restart
    PROVE  ServerIInv'
<1>1. PICK t \in InitWarmupTimes :
         /\ sessions' = [p \in Peers |-> 0]
         /\ incoming' = <<>> /\ disconnected' = <<>>
         /\ coordinator' = Started(file, t)
         /\ original_warmup_time' = file.config.warmup_time
         /\ pending' = {} /\ left' = {} /\ file' = file
  BY DEF Restart
<1>2. /\ file \in CoordinatorType /\ file.run_state = "WaitingForMembers"
      /\ LedgerKept(file) /\ file.config \in ServerConfigs
  BY DEF ServerIInv, FileSound
<1>3. /\ Sound(Started(file, t), file.config.warmup_time)
      /\ Started(file, t).run_state = "WaitingForMembers"
      /\ HealthyIds(Started(file, t).clients) \subseteq {NoIdentity}
  BY <1>2, StartedSound
<1>4. NotificationsTypeOK'
  BY <1>1, TcpAssumption DEF NotificationsTypeOK
<1>5. OverrideEnds' /\ LeaversAreKicked' /\ HealthyStayed'
  BY <1>1, <1>3 DEF OverrideEnds, Active, LeaversAreKicked, HealthyStayed
<1>6. FileSound'
  BY <1>1, <1>2 DEF FileSound
<1> QED
  BY <1>1, <1>3, <1>4, <1>5, <1>6 DEF ServerIInv

\* An event other than a tick admits nobody.
NobodyAdmitted == coordinator'.run_state = "Warmup" => coordinator.run_state = "Warmup"

\* A handler that makes the coordinator d of a message and changes nothing else.
LEMMA HandledKeeps ==
    ASSUME ServerIInv, NEW d, Listens(coordinator, d), Handled(d)
    PROVE  ServerIInv' /\ NobodyAdmitted
<1>1. /\ coordinator' = PostStateChange(d)
      /\ pending' = pending /\ original_warmup_time' = original_warmup_time
      /\ file' = file /\ stayed' = stayed /\ left' = left
      /\ sessions' = sessions /\ incoming' = incoming /\ disconnected' = disconnected
  BY DEF Handled, notificationVars
<1>2. /\ pending' \in SUBSET Peers /\ left' \cap pending' \subseteq left \cap pending
      /\ NotificationsTypeOK'
  BY <1>1 DEF ServerIInv, NotificationsTypeOK
<1>3. ServerIInv'
  BY <1>1, <1>2, HeardKeeps
<1>4. Sound(d, original_warmup_time)
  BY KeptSound DEF ServerIInv, Listens
<1>5. coordinator'.run_state = d.run_state
  BY <1>1, <1>4, PostedSound DEF Posted, PostStateChange
<1> QED
  BY <1>3, <1>5 DEF NobodyAdmitted, Listens

\* Every step keeps the invariant, and only a tick admits anybody.
LEMMA ServerStepKeeps ==
    ASSUME ServerIInv, ServerNext
    PROVE  ServerIInv' /\ (EpochStarts => P2PHasHolder /\ UnhealthyMustRejoin)
<1>0. /\ NotificationsTypeOK /\ pending \in SUBSET Peers
      /\ Sound(coordinator, original_warmup_time)
      /\ coordinator \in CoordinatorType /\ FreshWarmup(coordinator)
      /\ OncePerClient(coordinator)
  BY DEF ServerIInv, Sound
<1>1. NobodyAdmitted => ~EpochStarts
  BY DEF NobodyAdmitted, EpochStarts
<1>2. ASSUME NEW from \in Peers
      PROVE  from \in ClientIds /\ from # NoIdentity
  BY ServerAssumption
<1>3. CASE SessionStep /\ UNCHANGED appVars
  <2>1. NotificationsTypeOK'
    BY <1>0, <1>3, SessionsTyped
  <2>2. ServerIInv'
    BY <1>3, <2>1 DEF appVars, ServerIInv, FileSound, OverrideEnds, LeaversAreKicked,
                      HealthyStayed
  <2>3. NobodyAdmitted
    BY <1>3 DEF appVars, NobodyAdmitted
  <2> QED
    BY <1>1, <2>2, <2>3
<1>4. CASE OnDisconnect
  <2>1. PICK from \in Peers :
           /\ TakeDisconnection(from)
           /\ pending' = pending \ {from}
           /\ coordinator' = Disconnect(coordinator, from)
           /\ stayed' = stayed \ {from}
           /\ UNCHANGED <<original_warmup_time, file, interventions, left>>
    BY <1>4 DEF OnDisconnect
  <2> DEFINE d == Disconnect(coordinator, from)
  <2>2. /\ Listens(coordinator, d) /\ d.run_state = coordinator.run_state
        /\ WithdrawOnDisconnect /\ OncePerClient(coordinator) /\ from # NoIdentity =>
              from \notin HealthyIds(d.clients)
    BY <1>0, DisconnectListens
  <2> HIDE DEF d
  <2>3. Active(d) => Active(coordinator)
    BY <2>2 DEF Active
  <2>4. WithdrawOnDisconnect => HealthyIds(d.clients) \cap stayed \subseteq stayed'
    BY <1>0, <1>2, <2>1, <2>2
  <2>5. NotificationsTypeOK'
    <3>1. Tail(disconnected) \in Seq(Peers)
      BY <1>0, <2>1, TailOfSequence DEF TakeDisconnection, NotificationsTypeOK
    <3> QED
      BY <1>0, <2>1, <3>1 DEF TakeDisconnection, NotificationsTypeOK
  <2>6. /\ coordinator' = d /\ pending' \subseteq pending /\ left' = left
        /\ original_warmup_time' = original_warmup_time /\ file' = file
    BY <2>1 DEF d
  <2>7. ServerIInv'
    BY <2>2, <2>3, <2>4, <2>5, <2>6, SilentlyKeeps
  <2>8. NobodyAdmitted
    BY <2>2, <2>6 DEF NobodyAdmitted
  <2> QED
    BY <1>1, <2>7, <2>8
<1>5. CASE OnJoin
  <2>1. PICK from \in Peers, known \in BOOLEAN :
           /\ TakeMessage(from, "Join")
           /\ pending' = IF known THEN pending \cup {from} ELSE pending
           /\ left' = IF known THEN left \ {from} ELSE left
           /\ coordinator' = PostStateChange(coordinator)
           /\ UNCHANGED <<original_warmup_time, file, interventions, stayed>>
    BY <1>5 DEF OnJoin
  <2>2. Listens(coordinator, coordinator)
    BY <1>0, UnchangedListens
  <2>3. NotificationsTypeOK'
    <3>1. Tail(incoming) \in Seq([from : Peers, msg : Messages])
      BY <1>0, <2>1, TailOfSequence DEF TakeMessage, NotificationsTypeOK
    <3> QED
      BY <1>0, <2>1, <3>1 DEF TakeMessage, NotificationsTypeOK
  <2>4. pending' \in SUBSET Peers /\ left' \cap pending' \subseteq left \cap pending
    BY <1>0, <2>1
  <2>5. ServerIInv'
    BY <2>1, <2>2, <2>3, <2>4, HeardKeeps
  <2>6. coordinator'.run_state = coordinator.run_state
    BY <1>0, <2>1, PostedSound DEF Posted, PostStateChange
  <2> QED
    BY <1>1, <2>5, <2>6 DEF NobodyAdmitted
<1>6. CASE OnWitness
  <2>1. PICK from \in Peers, index \in 0 .. MaxClients - 1,
             position \in 0 .. MaxClients - 1, bloom \in ServerBlooms :
           LET w == [from |-> from, index |-> index, position |-> position,
                     witness |-> TRUE, participants |-> bloom]
           IN  CanWitness(coordinator, w) /\ Handled(WitnessEffect(coordinator, w))
    BY <1>6 DEF OnWitness
  <2> DEFINE w == [from |-> from, index |-> index, position |-> position,
                   witness |-> TRUE, participants |-> bloom]
  <2>2. index \in Nat /\ position \in Nat
    BY SizesAssumption
  <2>3. from \in ClientIds /\ bloom \in SUBSET ClientIds
    BY ServerAssumption
  <2>4. w \in Witness
    BY <2>2, <2>3 DEF Witness
  <2>5. CanWitness(coordinator, w) /\ Handled(WitnessEffect(coordinator, w))
    BY <2>1
  <2> HIDE DEF w
  <2>6. Listens(coordinator, WitnessEffect(coordinator, w))
    BY <1>0, <2>4, <2>5, WitnessListens
  <2> QED
    BY <1>1, <2>5, <2>6, HandledKeeps
<1>7. CASE OnWarmupWitness
  <2>1. PICK from \in Peers, index \in 0 .. MaxClients - 1, seed \in Seeds :
           LET w == [from |-> from, index |-> index, position |-> index,
                     witness |-> FALSE, participants |-> {}]
           IN  /\ CanWarmupWitness(coordinator, w)
               /\ Handled(WarmupWitness(coordinator, w, seed))
    BY <1>7 DEF OnWarmupWitness
  <2> DEFINE w == [from |-> from, index |-> index, position |-> index,
                   witness |-> FALSE, participants |-> {}]
  <2>2. index \in Nat
    BY SizesAssumption
  <2>3. w \in Witness
    BY <1>2, <2>2 DEF Witness
  <2>4. CanWarmupWitness(coordinator, w) /\ Handled(WarmupWitness(coordinator, w, seed))
    BY <2>1
  <2> HIDE DEF w
  <2>5. Listens(coordinator, WarmupWitness(coordinator, w, seed))
    BY <1>0, <2>3, <2>4, WarmupWitnessListens
  <2> QED
    BY <1>1, <2>4, <2>5, HandledKeeps
<1>8. CASE OnHealthCheck
  <2>1. \E check : Handled(HealthCheck(coordinator, {check}))
    BY <1>8 DEF OnHealthCheck
  <2>2. PICK check : Handled(HealthCheck(coordinator, {check}))
    BY <2>1
  <2>3. Listens(coordinator, HealthCheck(coordinator, {check}))
    BY <1>0, HealthCheckListens
  <2> QED
    BY <1>1, <2>2, <2>3, HandledKeeps
<1>9. CASE OnCheckpoint
  <2>1. PICK repo \in Repos : Handled(RecordCheckpoint(coordinator, repo))
    BY <1>9 DEF OnCheckpoint
  <2>2. Listens(coordinator, RecordCheckpoint(coordinator, repo))
    BY <1>0, CheckpointListens
  <2> QED
    BY <1>1, <2>1, <2>2, HandledKeeps
<1>10. CASE OnTick
  BY <1>10, TickKeeps
<1>11. CASE OnPause
  <2> DEFINE d == Pressed(coordinator)
  <2>1. /\ coordinator' = d
        /\ pending' = pending /\ original_warmup_time' = original_warmup_time
        /\ file' = file /\ stayed' = stayed /\ left' = left
        /\ sessions' = sessions /\ incoming' = incoming /\ disconnected' = disconnected
    BY <1>11 DEF OnPause, Pressed, notificationVars
  <2>2. Listens(coordinator, d) /\ (Active(d) => Active(coordinator))
    BY <1>0, PressedListens
  <2> HIDE DEF d
  <2>3. NotificationsTypeOK'
    BY <1>0, <2>1 DEF NotificationsTypeOK
  <2>4. ServerIInv'
    BY <2>1, <2>2, <2>3, SilentlyKeeps
  <2>5. NobodyAdmitted
    BY <2>1, <2>2 DEF NobodyAdmitted, Listens
  <2> QED
    BY <1>1, <2>4, <2>5
<1>12. CASE Restart
  <2>1. ServerIInv'
    BY <1>12, RestartKeeps
  <2>2. coordinator'.run_state = "WaitingForMembers"
    BY <1>12, StartedSound DEF Restart, ServerIInv, FileSound
  <2> QED
    BY <2>1, <2>2 DEF EpochStarts
<1> QED
  BY <1>3, <1>4, <1>5, <1>6, <1>7, <1>8, <1>9, <1>10, <1>11, <1>12 DEF ServerNext

LEMMA ServerStutters ==
    ASSUME ServerIInv, UNCHANGED serverVars
    PROVE  ServerIInv'
  BY DEF ServerIInv, serverVars, appVars, notificationVars, NotificationsTypeOK, FileSound,
         OverrideEnds, LeaversAreKicked, HealthyStayed

\* Whenever the server crashes and starts again from its file, its steps get the data
\* and the configuration that they would have had without the crash: App::new gives a
\* coordinator whose next batch follows from the number of its step, for any number of
\* clients, configurations, pauses and crashes.
THEOREM ServerSafety == ServerSpec => []ServerInv
<1>1. ServerInit => ServerIInv
  BY ServerStarts
<1>2. ServerIInv /\ [ServerNext]_serverVars => ServerIInv'
  BY ServerStepKeeps, ServerStutters
<1>3. ServerIInv => ServerInv
  BY ServerIInvImplies
<1> QED
  BY <1>1, <1>2, <1>3, PTL DEF ServerSpec

\* An epoch that starts with a checkpoint among the peers has a client that was there
\* when the last one ended and has not been gone since, and nobody is admitted by a join
\* from before it left: on_tick cleans pending_clients before the tick.
THEOREM AdmissionSafety == ServerSpec => AdmitsRightClients
<1>1. ServerInit => ServerIInv
  BY ServerStarts
<1>2. ServerIInv /\ [ServerNext]_serverVars => ServerIInv'
  BY ServerStepKeeps, ServerStutters
<1>3. ServerIInv /\ [ServerNext]_serverVars =>
         [EpochStarts => P2PHasHolder /\ UnhealthyMustRejoin]_serverVars
  BY ServerStepKeeps
<1> QED
  BY <1>1, <1>2, <1>3, PTL DEF ServerSpec, AdmitsRightClients
=============================================================================
