------------------------ MODULE CoordinatorOpsProofs ------------------------
(***************************************************************************)
(* Facts about the methods of Coordinator<T>, for every coordinator: they  *)
(* preserve its type, and what each does to the parts of the inductive     *)
(* invariant and to the list of clients.                                   *)
(***************************************************************************)
EXTENDS CoordinatorOps, DataProofs

\* What CoordinatorConfig::check guarantees.
LEMMA ConfigFacts ==
    ASSUME NEW g \in Configs
    PROVE  /\ g \in ConfigType
           /\ g.min_clients \in Nat \ {0}
           /\ g.init_min_clients \in Nat
           /\ g.init_min_clients >= g.min_clients
           /\ g.init_min_clients <= MaxClients
           /\ g.witness_nodes \in Nat
           /\ g.witness_nodes <= g.min_clients
           /\ g.total_steps \in Nat
           /\ g.global_batch_size_start \in Nat
           /\ g.global_batch_size_end \in Nat
           /\ g.global_batch_size_end >= g.global_batch_size_start
           /\ g.global_batch_size_warmup_tokens \in Nat
  BY ConfigsAssumption DEF ConfigType, ConfigCheck

\* A batch size is a natural number.
LEMMA BatchSizeType ==
    ASSUME NEW g \in Configs, NEW tokens \in Nat
    PROVE  BatchSize(g, tokens) \in Nat
<1> DEFINE w == g.global_batch_size_warmup_tokens
           a == g.global_batch_size_start
           rise == g.global_batch_size_end - g.global_batch_size_start
<1>1. w \in Nat /\ a \in Nat /\ rise \in Nat
  BY ConfigFacts
<1>2. CASE tokens >= w
  BY <1>2, ConfigFacts DEF BatchSize
<1>3. CASE ~(tokens >= w)
  <2> HIDE DEF w, a, rise
  <2>1. a * w \in Nat /\ rise * tokens \in Nat
    BY <1>1
  <2> DEFINE p == a * w
             q == rise * tokens
  <2> HIDE DEF p, q
  <2>2. p \in Nat /\ q \in Nat
    BY <2>1 DEF p, q
  <2>3. 2 * (p + q) + w \in Nat /\ 2 * w \in Nat \ {0}
    BY <1>1, <1>3, <2>2
  <2>4. ASSUME NEW x \in Nat, NEW y \in Nat \ {0} PROVE x \div y \in Nat
    OBVIOUS
  <2>5. (2 * (p + q) + w) \div (2 * w) \in Nat
    BY <2>3, <2>4
  <2>6. BatchSize(g, tokens) = (2 * (p + q) + w) \div (2 * w)
    BY <1>3 DEF BatchSize, p, q, w, a, rise
  <2> QED
    BY <2>5, <2>6
<1> QED
  BY <1>2, <1>3

LEMMA NextDataIndexType ==
    ASSUME NEW c \in CoordinatorType, NEW r \in Round
    PROVE  NextDataIndex(c, r) \in Nat
<1>1. r.data_index \in Nat /\ c.config \in Configs
  BY DEF Round, CoordinatorType
<1>2. r.data_index * SeqLen \in Nat
  BY <1>1, SizesAssumption
<1> QED
  BY <1>1, <1>2, BatchSizeType DEF NextDataIndex

LEMMA CurrentRoundType ==
    ASSUME NEW c \in CoordinatorType
    PROVE  CurrentRound(c) \in Round
  BY DEF CoordinatorType, CurrentRound

-----------------------------------------------------------------------------
(* move_clients_to_exited *)

\* The clients that stay are the healthy ones; nobody is lost or listed twice.
LEMMA MoveClientsFacts ==
    ASSUME NEW c \in CoordinatorType, NEW height \in Nat
    PROVE  LET m == MoveClientsToExited(c, height)
           IN  /\ m \in CoordinatorType
               /\ m = [c EXCEPT !.clients = m.clients,
                                !.exited_clients = m.exited_clients]
               /\ \A i \in DOMAIN m.clients : m.clients[i].state = "Healthy"
               /\ Len(m.clients) + Len(m.exited_clients)
                    = Len(c.clients) + Len(c.exited_clients)
               /\ EachListedOnce(c) => EachListedOnce(m)
               /\ Len(m.clients) <= Len(c.clients)
               /\ \A j \in 1 .. Len(c.exited_clients) :
                     m.exited_clients[j] = c.exited_clients[j]
               /\ {c.clients[k].id : k \in DOMAIN c.clients}
                    = {m.clients[i].id : i \in DOMAIN m.clients}
                        \cup {m.exited_clients[j].id :
                                 j \in Len(c.exited_clients) + 1 .. Len(m.exited_clients)}
<1> DEFINE s == c.clients
           H == {i \in DOMAIN s : s[i].state = "Healthy"}
           U == (DOMAIN s) \ H
           K == Retain(s, H)
           L == Retain(s, U)
           E == [i \in DOMAIN L |-> [L[i] EXCEPT !.exited_height = height]]
           m == MoveClientsToExited(c, height)
<1>1. s = c.clients /\ s \in Seq(Client) /\ c.exited_clients \in Seq(Client)
  BY DEF CoordinatorType
<1>2. /\ H \in SUBSET (DOMAIN s) /\ U \in SUBSET (DOMAIN s) /\ H \cap U = {}
      /\ \A i \in H : s[i].state = "Healthy"
  OBVIOUS
<1>2a. U = (DOMAIN s) \ H
  OBVIOUS
<1>3. m = [c EXCEPT !.clients = K, !.exited_clients = c.exited_clients \o E]
  BY DEF MoveClientsToExited
<1> HIDE DEF m, H, U, s
<1>4. /\ K \in Seq(Client) /\ Len(K) = Cardinality(H) /\ Cardinality(H) \in Nat
      /\ DOMAIN K = 1 .. Cardinality(H)
      /\ \A i \in 1 .. Cardinality(H) : Nth(H, i) \in H /\ K[i] = s[Nth(H, i)]
      /\ \A i, j \in 1 .. Cardinality(H) : Nth(H, i) = Nth(H, j) => i = j
  BY <1>1, <1>2, RetainProperties
<1>5. /\ L \in Seq(Client) /\ Len(L) = Cardinality(U) /\ Cardinality(U) \in Nat
      /\ DOMAIN L = 1 .. Cardinality(U)
      /\ \A i \in 1 .. Cardinality(U) : Nth(U, i) \in U /\ L[i] = s[Nth(U, i)]
      /\ \A i, j \in 1 .. Cardinality(U) : Nth(U, i) = Nth(U, j) => i = j
  BY <1>1, <1>2, RetainProperties
<1>6. Len(K) + Len(L) = Len(s)
  BY <1>1, <1>2, <1>2a, RetainSplits
<1> HIDE DEF K, L
<1>7. \A i \in 1 .. Cardinality(U) :
         /\ [L[i] EXCEPT !.exited_height = height] \in Client
         /\ [L[i] EXCEPT !.exited_height = height].id = L[i].id
  <2>1. \A i \in 1 .. Cardinality(U) : L[i] \in Client
    BY <1>5, ElementOfSeq
  <2> QED
    BY <2>1 DEF Client
<1>8. E \in [1 .. Cardinality(U) -> Client]
  BY <1>5, <1>7
<1>9. E \in Seq(Client) /\ Len(E) = Cardinality(U) /\ DOMAIN E = 1 .. Cardinality(U)
  BY <1>5, <1>8
<1>10. \A i \in 1 .. Cardinality(U) : E[i].id = s[Nth(U, i)].id
  BY <1>5, <1>7
<1> HIDE DEF E
<1> DEFINE X == c.exited_clients
           Y == X \o E
<1>11. /\ Y \in Seq(Client)
       /\ Len(Y) = Len(X) + Len(E)
       /\ \A i \in 1 .. Len(X) + Len(E) :
             Y[i] = IF i <= Len(X) THEN X[i] ELSE E[i - Len(X)]
  BY <1>1, <1>9, ConcatProperties
<1>12. DOMAIN Y = 1 .. Len(X) + Len(E) /\ Len(X) \in Nat /\ DOMAIN X = 1 .. Len(X)
  BY <1>1, <1>11, LenProperties
<1> HIDE DEF Y
<1>13. m.clients = K /\ m.exited_clients = Y
       /\ m = [c EXCEPT !.clients = m.clients, !.exited_clients = m.exited_clients]
       /\ m \in CoordinatorType
  <2>1. m = [c EXCEPT !.clients = K, !.exited_clients = Y]
    BY <1>3 DEF Y
  <2> QED
    BY <2>1, <1>4, <1>11 DEF CoordinatorType
<1>14. \A i \in DOMAIN m.clients : m.clients[i].state = "Healthy"
  BY <1>2, <1>4, <1>13
<1>15. Len(m.clients) + Len(m.exited_clients) = Len(c.clients) + Len(c.exited_clients)
  <2>1. Len(m.clients) = Cardinality(H) /\ Len(m.exited_clients) = Len(X) + Cardinality(U)
    BY <1>4, <1>9, <1>11, <1>13
  <2>2. Len(c.clients) = Cardinality(H) + Cardinality(U)
    BY <1>1, <1>4, <1>5, <1>6
  <2> QED
    BY <2>1, <2>2, <1>4, <1>5, <1>12
<1>16. ASSUME EachListedOnce(c) PROVE EachListedOnce(m)
  <2>0. /\ \A i, j \in DOMAIN s : s[i].id = s[j].id => i = j
        /\ \A i, j \in DOMAIN X : X[i].id = X[j].id => i = j
        /\ \A i \in DOMAIN s, j \in DOMAIN X : s[i].id # X[j].id
    BY <1>1, <1>16 DEF EachListedOnce
  <2>1. \A i, j \in DOMAIN K : K[i].id = K[j].id => i = j
    BY <2>0, <1>2, <1>4
  <2>2. \A i, j \in DOMAIN E : E[i].id = E[j].id => i = j
    BY <2>0, <1>2, <1>5, <1>9, <1>10
  <2>3. \A i \in DOMAIN K, j \in DOMAIN E : K[i].id # E[j].id
    BY <2>0, <1>2, <1>4, <1>5, <1>9, <1>10
  <2>4. \A i \in DOMAIN K, j \in DOMAIN X : K[i].id # X[j].id
    BY <2>0, <1>2, <1>4
  <2>5. \A i \in DOMAIN E, j \in DOMAIN X : E[i].id # X[j].id
    BY <2>0, <1>2, <1>5, <1>9, <1>10
  <2>6. \A i \in DOMAIN Y : \/ i \in DOMAIN X /\ Y[i] = X[i]
                            \/ i - Len(X) \in DOMAIN E /\ Y[i] = E[i - Len(X)]
    <3>1. Len(E) \in Nat /\ DOMAIN E = 1 .. Len(E)
      BY <1>9, LenProperties
    <3> QED
      BY <3>1, <1>11, <1>12
  <2>7. \A i \in DOMAIN K, j \in DOMAIN Y : K[i].id # Y[j].id
    BY <2>3, <2>4, <2>6
  <2>8. ASSUME NEW i \in DOMAIN Y, NEW j \in DOMAIN Y, Y[i].id = Y[j].id
        PROVE  i = j
    <3>1. i \in Int /\ j \in Int /\ Len(X) \in Int
      BY <1>12, <1>9, <1>5
    <3>2. CASE i \in DOMAIN X /\ Y[i] = X[i]
      BY <3>1, <3>2, <2>6, <2>8, <2>0, <2>5
    <3>3. CASE i - Len(X) \in DOMAIN E /\ Y[i] = E[i - Len(X)]
      <4>1. j - Len(X) \in DOMAIN E /\ Y[j] = E[j - Len(X)]
        BY <3>3, <2>6, <2>8, <2>5
      <4>2. i - Len(X) = j - Len(X)
        BY <3>3, <4>1, <2>2, <2>8
      <4> QED
        BY <3>1, <4>2
    <3> QED
      BY <3>2, <3>3, <2>6
  <2> QED
    BY <1>13, <2>1, <2>7, <2>8 DEF EachListedOnce
<1>17. /\ Len(m.clients) <= Len(c.clients)
       /\ \A j \in 1 .. Len(X) : m.exited_clients[j] = X[j]
  BY <1>1, <1>4, <1>5, <1>6, <1>9, <1>11, <1>12, <1>13
<1>18. {c.clients[k].id : k \in DOMAIN c.clients}
         = {m.clients[i].id : i \in DOMAIN m.clients}
             \cup {m.exited_clients[j].id : j \in Len(X) + 1 .. Len(m.exited_clients)}
  <2>1. \A j \in 1 .. Cardinality(U) : Y[Len(X) + j] = E[j]
    BY <1>5, <1>9, <1>11, <1>12
  <2>2. \A j \in Len(X) + 1 .. Len(Y) : j - Len(X) \in 1 .. Cardinality(U)
                                         /\ Len(X) + (j - Len(X)) = j
    BY <1>5, <1>9, <1>11, <1>12
  <2>3. \A j \in 1 .. Cardinality(U) : Len(X) + j \in Len(X) + 1 .. Len(Y)
    BY <1>5, <1>9, <1>11, <1>12
  <2>4. Len(s) \in Nat /\ H \in SUBSET (1 .. Len(s)) /\ U \in SUBSET (1 .. Len(s))
    BY <1>1, <1>2, LenProperties
  <2>5. /\ \A k \in H : \E i \in 1 .. Cardinality(H) : Nth(H, i) = k
        /\ \A k \in U : \E i \in 1 .. Cardinality(U) : Nth(U, i) = k
    BY <2>4, NthOnto
  <2>6. ASSUME NEW k \in DOMAIN s
        PROVE  \/ \E i \in DOMAIN K : K[i].id = s[k].id
               \/ \E j \in Len(X) + 1 .. Len(Y) : Y[j].id = s[k].id
    <3>1. CASE k \in H
      BY <1>4, <2>5, <3>1
    <3>2. CASE k \in U
      BY <1>10, <2>1, <2>3, <2>5, <3>2
    <3> QED
      BY <1>2a, <3>1, <3>2
  <2>7. \A i \in DOMAIN K : \E k \in DOMAIN s : s[k].id = K[i].id
    BY <1>2, <1>4
  <2>8. ASSUME NEW j \in Len(X) + 1 .. Len(Y)
        PROVE  \E k \in DOMAIN s : s[k].id = Y[j].id
    <3>1. Y[j] = E[j - Len(X)] /\ j - Len(X) \in 1 .. Cardinality(U)
      BY <2>1, <2>2
    <3> QED
      BY <1>2, <1>5, <1>10, <3>1
  <2> HIDE DEF X
  <2> DEFINE A == {s[k].id : k \in DOMAIN s}
             B == {K[i].id : i \in DOMAIN K}
             D == {Y[j].id : j \in Len(X) + 1 .. Len(Y)}
  <2>9. A \subseteq B \cup D
    BY <2>6, Zenon
  <2>10. B \subseteq A
    BY <2>7, Zenon
  <2>11. D \subseteq A
    BY <2>8, Zenon
  <2>12. A = B \cup D
    <3> HIDE DEF A, B, D
    <3> QED
      BY <2>9, <2>10, <2>11
  <2>13. {c.clients[k].id : k \in DOMAIN c.clients} = A
    BY <1>1, Zenon
  <2>14. {m.clients[i].id : i \in DOMAIN m.clients} = B
    BY <1>13, Zenon
  <2>15. {m.exited_clients[j].id : j \in Len(X) + 1 .. Len(m.exited_clients)} = D
    BY <1>13, Zenon
  <2> HIDE DEF A, B, D
  <2> QED
    BY <2>12, <2>13, <2>14, <2>15, Zenon
<1> QED
  BY <1>13, <1>14, <1>15, <1>16, <1>17, <1>18 DEF m

-----------------------------------------------------------------------------
(* Methods that change nothing but the states of clients. *)

\* d is c, except for the states of its clients.
SameClients(c, d) ==
    /\ d = [c EXCEPT !.clients = d.clients]
    /\ d.clients \in Seq(Client)
    /\ DOMAIN d.clients = DOMAIN c.clients
    /\ Len(d.clients) = Len(c.clients)
    /\ \A i \in DOMAIN c.clients : d.clients[i].id = c.clients[i].id

\* An element of the client list is a client.
LEMMA ClientOfList ==
    ASSUME NEW c \in CoordinatorType
    PROVE  /\ c.clients \in Seq(Client)
           /\ Len(c.clients) \in Nat
           /\ DOMAIN c.clients = 1 .. Len(c.clients)
           /\ \A i \in DOMAIN c.clients :
                 c.clients[i] \in Client
<1>1. c.clients \in Seq(Client)
  BY DEF CoordinatorType
<1> QED
  BY <1>1, ElementOfSeq, LenProperties

\* An element of a list of witnesses is a witness.
LEMMA WitnessOfList ==
    ASSUME NEW ws \in Seq(Witness)
    PROVE  /\ Len(ws) \in Nat
           /\ DOMAIN ws = 1 .. Len(ws)
           /\ \A i \in DOMAIN ws : ws[i] \in Witness /\ ws[i].index \in Nat
<1>1. Len(ws) \in Nat /\ DOMAIN ws = 1 .. Len(ws)
  BY LenProperties
<1>2. \A i \in DOMAIN ws : ws[i] \in Witness
  BY <1>1, ElementOfSeq
<1> QED
  BY <1>1, <1>2 DEF Witness

\* A list with the same identities, position by position.
LEMMA StatesOnly ==
    ASSUME NEW c \in CoordinatorType,
           NEW s \in [1 .. Len(c.clients) -> Client],
           \A i \in DOMAIN c.clients : s[i].id = c.clients[i].id
    PROVE  SameClients(c, [c EXCEPT !.clients = s])
<1> DEFINE d == [c EXCEPT !.clients = s]
<1>1. /\ Len(c.clients) \in Nat /\ DOMAIN c.clients = 1 .. Len(c.clients)
  BY ClientOfList
<1>2. s \in Seq(Client) /\ Len(s) = Len(c.clients) /\ DOMAIN s = DOMAIN c.clients
  BY <1>1
<1>3. d.clients = s
  BY DEF CoordinatorType
<1> QED
  BY <1>2, <1>3 DEF SameClients

LEMMA WithdrawAllSameClients ==
    ASSUME NEW c \in CoordinatorType
    PROVE  SameClients(c, WithdrawAll(c))
<1> DEFINE s == [i \in DOMAIN c.clients |->
                    IF \A j \in 1 .. i : c.clients[j].state = "Healthy"
                    THEN [c.clients[i] EXCEPT !.state = "Withdrawn"]
                    ELSE c.clients[i]]
<1>1. /\ DOMAIN c.clients = 1 .. Len(c.clients)
      /\ \A i \in DOMAIN c.clients : c.clients[i] \in Client
  BY ClientOfList
<1>2. \A x \in Client : /\ [x EXCEPT !.state = "Withdrawn"] \in Client
                        /\ [x EXCEPT !.state = "Withdrawn"].id = x.id
  BY DEF Client, ClientStates
<1>3. /\ s \in [1 .. Len(c.clients) -> Client]
      /\ \A i \in DOMAIN c.clients : s[i].id = c.clients[i].id
  BY <1>1, <1>2
<1> HIDE DEF s
<1>4. SameClients(c, [c EXCEPT !.clients = s])
  BY <1>3, StatesOnly
<1> QED
  BY <1>4 DEF WithdrawAll, s

LEMMA WithdrawSameClients ==
    ASSUME NEW c \in CoordinatorType, NEW index \in Nat
    PROVE  SameClients(c, Withdraw(c, index))
<1> DEFINE s == [c.clients EXCEPT ![index + 1].state = "Withdrawn"]
<1>1. /\ DOMAIN c.clients = 1 .. Len(c.clients)
      /\ \A i \in DOMAIN c.clients : c.clients[i] \in Client
      /\ c.clients \in [1 .. Len(c.clients) -> Client]
  BY ClientOfList
<1>2. \A x \in Client : /\ [x EXCEPT !.state = "Withdrawn"] \in Client
                        /\ [x EXCEPT !.state = "Withdrawn"].id = x.id
  BY DEF Client, ClientStates
<1>3. /\ s \in [1 .. Len(c.clients) -> Client]
      /\ \A i \in DOMAIN c.clients : s[i].id = c.clients[i].id
  BY <1>1, <1>2
<1> HIDE DEF s
<1>4. SameClients(c, [c EXCEPT !.clients = s])
  BY <1>3, StatesOnly
<1> QED
  BY <1>4 DEF Withdraw, s, CoordinatorType

LEMMA HealthCheckSameClients ==
    ASSUME NEW c \in CoordinatorType, NEW checks
    PROVE  SameClients(c, HealthCheck(c, checks))
<1> DEFINE s == [i \in DOMAIN c.clients |->
                    IF /\ c.clients[i].state = "Healthy"
                       /\ \E k \in checks : k.index + 1 = i
                    THEN [c.clients[i] EXCEPT !.state = "Dropped"]
                    ELSE c.clients[i]]
<1>1. /\ DOMAIN c.clients = 1 .. Len(c.clients)
      /\ \A i \in DOMAIN c.clients : c.clients[i] \in Client
  BY ClientOfList
<1>2. \A x \in Client : /\ [x EXCEPT !.state = "Dropped"] \in Client
                        /\ [x EXCEPT !.state = "Dropped"].id = x.id
  BY DEF Client, ClientStates
<1>3. /\ s \in [1 .. Len(c.clients) -> Client]
      /\ \A i \in DOMAIN c.clients : s[i].id = c.clients[i].id
  BY <1>1, <1>2
<1> HIDE DEF s
<1>4. SameClients(c, [c EXCEPT !.clients = s])
  BY <1>3, StatesOnly
<1> QED
  BY <1>4 DEF HealthCheck, s

\* No part of the invariant reads the state of a client.
LEMMA SameClientsInv ==
    ASSUME NEW c, CoordinatorInv(c), NEW d, SameClients(c, d)
    PROVE  CoordinatorInv(d)
<1>1. c \in CoordinatorType /\ d = [c EXCEPT !.clients = d.clients]
      /\ d.clients \in Seq(Client)
  BY DEF CoordinatorInv, SameClients
<1>2. d \in CoordinatorType
  BY <1>1 DEF CoordinatorType
<1>3. /\ d.run_state = c.run_state /\ d.pending_pause = c.pending_pause
      /\ d.config = c.config /\ d.step = c.step /\ d.rounds = c.rounds
      /\ d.rounds_head = c.rounds_head /\ d.first_round = c.first_round
      /\ d.last_step = c.last_step /\ d.exited_clients = c.exited_clients
  BY <1>1 DEF CoordinatorType
<1>4. /\ Len(d.clients) = Len(c.clients) /\ DOMAIN d.clients = DOMAIN c.clients
      /\ \A i \in DOMAIN c.clients : d.clients[i].id = c.clients[i].id
      /\ Len(c.clients) \in Nat /\ DOMAIN c.clients = 1 .. Len(c.clients)
  BY <1>1, ClientOfList DEF SameClients
<1>5. CurrentRound(d) = CurrentRound(c) /\ PreviousRound(d) = PreviousRound(c)
  BY <1>3 DEF CurrentRound, PreviousRound
<1>6. ASSUME NEW id, NEW index \in Nat, VerifyClient(c, id, index)
      PROVE  VerifyClient(d, id, index)
  <2>1. index < Len(c.clients) /\ c.clients[index + 1].id = id
    BY <1>6 DEF VerifyClient, Has, At
  <2>2. index + 1 \in DOMAIN c.clients
    BY <2>1, <1>4
  <2> QED
    BY <2>1, <2>2, <1>4 DEF VerifyClient, Has, At
<1>7. WitnessesVerified(d)
  <2>1. SUFFICES ASSUME InRound(d) PROVE WitnessesVerified(d)
    BY DEF WitnessesVerified
  <2>2. InRound(c) /\ WitnessesVerified(c)
    BY <2>1, <1>3 DEF InRound, CoordinatorInv
  <2> DEFINE ws == CurrentRound(c).witnesses
  <2>3. ws \in Seq(Witness)
    BY <1>1, CurrentRoundType DEF Round
  <2>4. \A i \in DOMAIN ws : ws[i].index \in Nat
    BY <2>3, WitnessOfList
  <2>5. \A i \in DOMAIN ws : VerifyWitness(c, ws[i]) => VerifyWitness(d, ws[i])
    BY <2>4, <1>3, <1>5, <1>6 DEF VerifyWitness, IsWitnessPosition
  <2> QED
    BY <2>2, <2>5, <1>4, <1>5 DEF WitnessesVerified
<1>8. ShortOfWitnesses(d)
  BY <1>3, <1>4, <1>5 DEF CoordinatorInv, ShortOfWitnesses, WitnessNodes
<1>9. RosterFits(d)
  <2>1. RosterFits(c)
    BY DEF CoordinatorInv
  <2>2. EachListedOnce(d)
    BY <2>1, <1>3, <1>4 DEF RosterFits, EachListedOnce
  <2> QED
    BY <2>1, <2>2, <1>3, <1>4 DEF RosterFits
<1>10. FollowsQuorum(d)
  BY <1>3, <1>5 DEF CoordinatorInv, FollowsQuorum, HasPreviousRound, WitnessQuorum, Active
<1>11. PauseInEpoch(d) /\ LastStepClose(d) /\ StepsRemain(d)
  BY <1>3 DEF CoordinatorInv, PauseInEpoch, LastStepClose, StepsRemain, Active,
       InRound, LastStepSet
<1>12. WarmupIsFresh(d)
  BY <1>3, <1>4, <1>5 DEF CoordinatorInv, WarmupIsFresh
<1> QED
  BY <1>2, <1>7, <1>8, <1>9, <1>10, <1>11, <1>12 DEF CoordinatorInv

-----------------------------------------------------------------------------
(* The training ledger, as a relation between two coordinators. *)

LedgerStep(c, d) ==
    /\ d.config = c.config
    /\ \/ /\ d.step = c.step
          /\ LedgerIndex(d) = LedgerIndex(c)
          /\ InRound(d) = InRound(c)
       \/ /\ ~InRound(c) /\ InRound(d)
          /\ StepAllowed(c.config, c.step)
          /\ d.step = c.step
          /\ LedgerIndex(d) = LedgerIndex(c)
       \/ /\ InRound(c)
          /\ d.step = c.step + 1
          /\ LedgerIndex(d)
               = LedgerIndex(c) + BatchSize(c.config, LedgerIndex(c) * SeqLen)
          /\ InRound(d) => StepAllowed(d.config, d.step)

\* A step that changes neither the phase nor the rounds leaves the ledger.
LEMMA LedgerStutter ==
    ASSUME NEW c, NEW d, d.config = c.config, d.step = c.step,
           d.run_state = c.run_state,
           d.epoch_start_data_index = c.epoch_start_data_index,
           CurrentRound(d).data_index = CurrentRound(c).data_index
    PROVE  LedgerStep(c, d)
<1>1. InRound(d) = InRound(c) /\ NextDataIndex(d, CurrentRound(d)) = NextDataIndex(c, CurrentRound(c))
  BY DEF InRound, NextDataIndex
<1> QED
  BY <1>1 DEF LedgerStep, LedgerIndex

LEMMA SameClientsLedger ==
    ASSUME NEW c \in CoordinatorType, NEW d, SameClients(c, d)
    PROVE  LedgerStep(c, d)
<1>1. /\ d.config = c.config /\ d.step = c.step /\ d.run_state = c.run_state
      /\ d.epoch_start_data_index = c.epoch_start_data_index
      /\ d.rounds = c.rounds /\ d.rounds_head = c.rounds_head
  BY DEF SameClients, CoordinatorType
<1>2. CurrentRound(d) = CurrentRound(c)
  BY <1>1 DEF CurrentRound
<1> QED
  BY <1>1, <1>2, LedgerStutter

-----------------------------------------------------------------------------
(* The invariant, part by part. *)

\* Outside of warmup and rounds, most of the invariant says nothing.
LEMMA IdleInv ==
    ASSUME NEW d \in CoordinatorType,
           d.run_state \notin {"Warmup", "RoundTrain", "RoundWitness"},
           PauseInEpoch(d), RosterFits(d), FollowsQuorum(d), StepsRemain(d)
    PROVE  CoordinatorInv(d)
  BY DEF CoordinatorInv, WitnessesVerified, ShortOfWitnesses, LastStepClose,
       WarmupIsFresh, InRound

\* FollowsQuorum reads the rounds and, in an epoch, the configuration.
LEMMA FollowsQuorumCarries ==
    ASSUME NEW c, NEW d, FollowsQuorum(c), Active(d) => Active(c),
           d.config = c.config, d.rounds_head = c.rounds_head,
           CurrentRound(d).height = CurrentRound(c).height,
           PreviousRound(d) = PreviousRound(c)
    PROVE  FollowsQuorum(d)
  BY DEF FollowsQuorum, HasPreviousRound, WitnessQuorum

\* RosterFits reads the two client lists only.
LEMMA RosterFitsCarries ==
    ASSUME NEW c, NEW d, RosterFits(c),
           d.clients = c.clients, d.exited_clients = c.exited_clients
    PROVE  RosterFits(d)
<1>1. EachListedOnce(d)
  BY DEF RosterFits, EachListedOnce
<1> QED
  BY <1>1 DEF RosterFits

LEMMA WitnessNodesType ==
    ASSUME NEW c \in CoordinatorType
    PROVE  /\ WitnessNodes(c) \in Nat
           /\ Len(c.clients) > 0 => WitnessNodes(c) > 0
<1>1. c.config.witness_nodes \in Nat /\ Len(c.clients) \in Nat
  BY ConfigFacts, ClientOfList DEF CoordinatorType
<1> QED
  BY <1>1, SizesAssumption DEF WitnessNodes

\* The slot after a slot of the ring is another slot.
LEMMA NextSlot ==
    ASSUME NEW h \in RoundSlots
    PROVE  /\ (h + 1) % NumStoredRounds \in RoundSlots
           /\ (h + 1) % NumStoredRounds = 0 => h = NumStoredRounds - 1
           /\ (h + 1) % NumStoredRounds # 0 => (h + 1) % NumStoredRounds = h + 1
<1>1. NumStoredRounds \in Nat /\ NumStoredRounds > 1 /\ h \in Nat /\ h < NumStoredRounds
  BY SizesAssumption DEF RoundSlots
<1>2. CASE h + 1 = NumStoredRounds
  <2>1. NumStoredRounds % NumStoredRounds = 0
    BY <1>1
  <2> QED
    BY <1>1, <1>2, <2>1 DEF RoundSlots
<1>3. CASE h + 1 < NumStoredRounds
  <2>1. (h + 1) % NumStoredRounds = h + 1
    BY <1>1, <1>3
  <2> QED
    BY <1>1, <1>3, <2>1 DEF RoundSlots
<1> QED
  BY <1>1, <1>2, <1>3

\* start_round_train opens a round that satisfies the invariant, if the
\* clients are enough and the round before it had a quorum of witnesses.
LEMMA StartRoundTrainInv ==
    ASSUME NEW c \in CoordinatorType, NEW seed \in Seeds,
           RosterFits(c),
           Len(c.clients) >= c.config.min_clients,
           LastStepSet(c) => c.step < c.last_step /\ c.last_step <= c.step + 2,
           LET n == Len(CurrentRound(c).witnesses)
           IN  c.first_round \/ (n > 0 /\ n >= WitnessQuorum(c, n))
    PROVE  LET d == StartRoundTrain(c, seed)
           IN  /\ CoordinatorInv(d)
               /\ d.run_state = "RoundTrain"
               /\ d.config = c.config /\ d.step = c.step
               /\ d.clients = c.clients /\ d.exited_clients = c.exited_clients
               /\ d.epoch_start_data_index = c.epoch_start_data_index
               /\ d.pending_pause = c.pending_pause
               /\ CurrentRound(d).height = 0 \/ ~c.first_round
               /\ CurrentRound(d).data_index =
                    IF c.first_round THEN c.epoch_start_data_index
                    ELSE NextDataIndex(c, CurrentRound(c))
<1> DEFINE prev == CurrentRound(c)
           head == IF c.first_round THEN 0
                   ELSE (c.rounds_head + 1) % NumStoredRounds
           round == [witnesses |-> <<>>,
                     data_index |-> IF c.first_round THEN c.epoch_start_data_index
                                    ELSE NextDataIndex(c, prev),
                     random_seed |-> seed,
                     height |-> IF c.first_round THEN 0 ELSE prev.height + 1,
                     clients_len |-> Len(c.clients)]
           d == StartRoundTrain(c, seed)
<1>1. /\ prev \in Round /\ c.rounds_head \in RoundSlots /\ c.epoch_start_data_index \in Nat
      /\ c.config \in Configs /\ c.rounds \in [RoundSlots -> Round]
  BY CurrentRoundType DEF CoordinatorType
<1>2. head \in RoundSlots
  BY <1>1, NextSlot, SizesAssumption DEF RoundSlots
<1>3. NextDataIndex(c, prev) \in Nat /\ Len(c.clients) \in Nat /\ prev.height \in Nat
  BY <1>1, NextDataIndexType, ClientOfList DEF Round
<1>4. round \in Round
  <2>1. <<>> \in Seq(Witness)
    OBVIOUS
  <2> QED
    BY <1>1, <1>3, <2>1 DEF Round
<1>5. d = [c EXCEPT !.rounds[head] = round, !.rounds_head = head,
                    !.run_state = "RoundTrain", !.age = 0]
  BY DEF StartRoundTrain, ChangeState
<1>6. /\ round.witnesses = <<>> /\ round.clients_len = Len(c.clients)
      /\ round.height = IF c.first_round THEN 0 ELSE prev.height + 1
      /\ round.data_index = IF c.first_round THEN c.epoch_start_data_index
                            ELSE NextDataIndex(c, prev)
  OBVIOUS
<1>6a. /\ c.first_round => head = 0
       /\ ~c.first_round => head = (c.rounds_head + 1) % NumStoredRounds
  OBVIOUS
<1> HIDE DEF d, round, head
<1>7. d \in CoordinatorType
  BY <1>2, <1>4, <1>5 DEF CoordinatorType, RunStates
<1>8. /\ d.run_state = "RoundTrain" /\ d.config = c.config /\ d.step = c.step
      /\ d.clients = c.clients /\ d.exited_clients = c.exited_clients
      /\ d.epoch_start_data_index = c.epoch_start_data_index
      /\ d.pending_pause = c.pending_pause /\ d.last_step = c.last_step
      /\ d.rounds_head = head /\ d.rounds = [c.rounds EXCEPT ![head] = round]
  BY <1>5 DEF CoordinatorType
<1>9. CurrentRound(d) = round
  BY <1>1, <1>2, <1>8 DEF CurrentRound
<1>10. Len(c.clients) > 0
  BY <1>1, <1>3, ConfigFacts
<1>11. WitnessesVerified(d)
  BY <1>6, <1>8, <1>9 DEF WitnessesVerified
<1>12. ShortOfWitnesses(d)
  <2>1. WitnessNodes(d) > 0
    BY <1>7, <1>8, <1>10, WitnessNodesType
  <2> QED
    BY <2>1, <1>6, <1>9 DEF ShortOfWitnesses
<1>13. FollowsQuorum(d)
  <2>1. CASE c.first_round
    BY <2>1, <1>6, <1>9 DEF FollowsQuorum
  <2>2. CASE ~c.first_round
    <3>1. PreviousRound(d) = prev
      <4>1. CASE head = 0
        <5>1. c.rounds_head = NumStoredRounds - 1 /\ NumStoredRounds - 1 # head
          BY <1>1, <1>6a, <2>2, <4>1, NextSlot, SizesAssumption
        <5> QED
          BY <5>1, <4>1, <1>1, <1>8 DEF PreviousRound, CurrentRound
      <4>2. CASE head # 0
        <5>1. head = c.rounds_head + 1 /\ c.rounds_head \in Int
          BY <1>1, <1>6a, <2>2, <4>2, NextSlot DEF RoundSlots
        <5>2. head - 1 = c.rounds_head /\ head # c.rounds_head
          BY <5>1
        <5> QED
          BY <5>2, <4>2, <1>1, <1>8 DEF PreviousRound, CurrentRound
      <4> QED
        BY <4>1, <4>2
    <3>2. round.height = prev.height + 1
      BY <1>6, <2>2
    <3>3. \A n : WitnessQuorum(d, n) = WitnessQuorum(c, n)
      BY <1>8 DEF WitnessQuorum
    <3>4. HasPreviousRound(d)
      BY <3>2, <1>3, <1>9 DEF HasPreviousRound
    <3>5. Len(prev.witnesses) > 0
          /\ Len(prev.witnesses) >= WitnessQuorum(c, Len(prev.witnesses))
      BY <2>2
    <3> QED
      BY <3>1, <3>2, <3>3, <3>4, <3>5, <1>3, <1>9 DEF FollowsQuorum
  <2> QED
    BY <2>1, <2>2
<1>14. RosterFits(d)
  BY <1>8, RosterFitsCarries
<1>15. PauseInEpoch(d) /\ LastStepClose(d) /\ WarmupIsFresh(d) /\ StepsRemain(d)
  BY <1>8 DEF PauseInEpoch, Active, LastStepClose, LastStepSet, WarmupIsFresh, StepsRemain
<1>16. CoordinatorInv(d)
  BY <1>7, <1>11, <1>12, <1>13, <1>14, <1>15 DEF CoordinatorInv
<1> QED
  BY <1>6, <1>8, <1>9, <1>16 DEF d

\* Moving clients keeps the roster and leaves everything else.
LEMMA MoveClientsCarries ==
    ASSUME NEW c \in CoordinatorType, NEW height \in Nat, RosterFits(c)
    PROVE  LET m == MoveClientsToExited(c, height)
           IN  /\ m \in CoordinatorType
               /\ RosterFits(m)
               /\ m.run_state = c.run_state /\ m.pending_pause = c.pending_pause
               /\ m.config = c.config /\ m.step = c.step
               /\ m.rounds = c.rounds /\ m.rounds_head = c.rounds_head
               /\ m.first_round = c.first_round /\ m.last_step = c.last_step
               /\ m.epoch_age = c.epoch_age
               /\ m.epoch_start_data_index = c.epoch_start_data_index
               /\ CurrentRound(m) = CurrentRound(c)
               /\ PreviousRound(m) = PreviousRound(c)
<1> DEFINE m == MoveClientsToExited(c, height)
<1>1. /\ m \in CoordinatorType
      /\ m = [c EXCEPT !.clients = m.clients, !.exited_clients = m.exited_clients]
      /\ Len(m.clients) + Len(m.exited_clients)
            = Len(c.clients) + Len(c.exited_clients)
      /\ EachListedOnce(c) => EachListedOnce(m)
  BY MoveClientsFacts
<1> HIDE DEF m
<1>2. RosterFits(m)
  BY <1>1 DEF RosterFits
<1>3. /\ m.run_state = c.run_state /\ m.pending_pause = c.pending_pause
      /\ m.config = c.config /\ m.step = c.step
      /\ m.rounds = c.rounds /\ m.rounds_head = c.rounds_head
      /\ m.first_round = c.first_round /\ m.last_step = c.last_step
      /\ m.epoch_age = c.epoch_age
      /\ m.epoch_start_data_index = c.epoch_start_data_index
  BY <1>1 DEF CoordinatorType
<1>4. CurrentRound(m) = CurrentRound(c) /\ PreviousRound(m) = PreviousRound(c)
  BY <1>3 DEF CurrentRound, PreviousRound
<1> QED
  BY SMTT(30), <1>1, <1>2, <1>3, <1>4 DEF m

\* start_waiting_for_members from a state that is out of every round.
LEMMA StartWaitingForMembersInv ==
    ASSUME NEW c \in CoordinatorType, RosterFits(c), FollowsQuorum(c),
           c.pending_pause = FALSE
    PROVE  LET d == StartWaitingForMembers(c)
           IN  /\ CoordinatorInv(d)
               /\ d.config = c.config /\ d.step = c.step
               /\ d.run_state \in {"WaitingForMembers", "Finished"}
               /\ d.epoch_start_data_index = c.epoch_start_data_index
               /\ d.cold_start_epoch = c.cold_start_epoch
<1> DEFINE d == StartWaitingForMembers(c)
           state == IF c.step < c.config.total_steps THEN "WaitingForMembers"
                                                     ELSE "Finished"
<1>1. d = [c EXCEPT !.run_state = state, !.age = 0]
  BY DEF StartWaitingForMembers, ChangeState
<1>2. /\ state \in {"WaitingForMembers", "Finished"}
      /\ state = "WaitingForMembers" => c.step < c.config.total_steps
  OBVIOUS
<1> HIDE DEF d, state
<1>3. d \in CoordinatorType
  BY <1>1, <1>2 DEF CoordinatorType, RunStates
<1>4. /\ d.run_state = state /\ d.config = c.config /\ d.step = c.step
      /\ d.epoch_start_data_index = c.epoch_start_data_index
      /\ d.cold_start_epoch = c.cold_start_epoch
      /\ d.pending_pause = FALSE
      /\ d.clients = c.clients /\ d.exited_clients = c.exited_clients
      /\ d.rounds = c.rounds /\ d.rounds_head = c.rounds_head
  BY <1>1 DEF CoordinatorType
<1>5. CurrentRound(d) = CurrentRound(c) /\ PreviousRound(d) = PreviousRound(c)
  BY <1>4 DEF CurrentRound, PreviousRound
<1>6. FollowsQuorum(d) /\ RosterFits(d)
  BY <1>2, <1>4, <1>5, FollowsQuorumCarries, RosterFitsCarries DEF Active
<1>7. PauseInEpoch(d) /\ StepsRemain(d)
  BY <1>2, <1>4 DEF PauseInEpoch, StepsRemain, StepAllowed
<1>8. CoordinatorInv(d)
  BY <1>2, <1>3, <1>4, <1>6, <1>7, IdleInv
<1> QED
  BY <1>2, <1>4, <1>8 DEF d

\* start_cooldown clears the witnesses of the current round, not of the
\* previous one.
LEMMA StartCooldownInv ==
    ASSUME NEW c \in CoordinatorType, RosterFits(c), FollowsQuorum(c),
           c.run_state = "RoundWitness"
    PROVE  LET d == StartCooldown(c)
           IN  /\ CoordinatorInv(d)
               /\ d.run_state = "Cooldown"
               /\ d.config = c.config /\ d.step = c.step
               /\ CurrentRound(d).data_index = CurrentRound(c).data_index
<1> DEFINE d == StartCooldown(c)
           head == c.rounds_head
           round == [CurrentRound(c) EXCEPT !.witnesses = <<>>]
<1>1. d = [c EXCEPT !.rounds = [c.rounds EXCEPT ![head] = round],
                    !.run_state = "Cooldown", !.age = 0]
  BY DEF StartCooldown, ChangeState, CurrentRound, CoordinatorType
<1>2. CurrentRound(c) \in Round /\ head \in RoundSlots /\ c.rounds \in [RoundSlots -> Round]
  BY CurrentRoundType DEF CoordinatorType
<1>3. /\ round \in Round /\ round.height = CurrentRound(c).height
      /\ round.data_index = CurrentRound(c).data_index
  <2>1. <<>> \in Seq(Witness)
    OBVIOUS
  <2> QED
    BY <1>2, <2>1 DEF Round
<1> HIDE DEF d, round
<1>4. d \in CoordinatorType
  BY <1>1, <1>2, <1>3 DEF CoordinatorType, RunStates
<1>5. /\ d.run_state = "Cooldown" /\ d.config = c.config /\ d.step = c.step
      /\ d.clients = c.clients /\ d.exited_clients = c.exited_clients
      /\ d.rounds = [c.rounds EXCEPT ![head] = round] /\ d.rounds_head = head
  BY <1>1 DEF CoordinatorType
<1>6. CurrentRound(d) = round
  BY <1>2, <1>5 DEF CurrentRound
<1>7. PreviousRound(d) = PreviousRound(c)
  <2>1. NumStoredRounds - 1 \in RoundSlots /\ NumStoredRounds - 1 # 0
    BY SizesAssumption DEF RoundSlots
  <2>2. head # 0 => head - 1 \in RoundSlots /\ head - 1 # head
    BY <1>2, SizesAssumption DEF RoundSlots
  <2> QED
    BY <2>1, <2>2, <1>2, <1>5 DEF PreviousRound
<1>8. FollowsQuorum(d) /\ RosterFits(d)
  BY <1>3, <1>5, <1>6, <1>7, FollowsQuorumCarries, RosterFitsCarries DEF Active
<1>9. PauseInEpoch(d) /\ StepsRemain(d)
  BY <1>5 DEF PauseInEpoch, Active, StepsRemain
<1>10. CoordinatorInv(d)
  BY <1>4, <1>5, <1>8, <1>9, IdleInv
<1> QED
  BY <1>3, <1>5, <1>6, <1>10 DEF d

-----------------------------------------------------------------------------
(* tick *)

\* What a method may do to a coordinator that satisfies the invariant.
GoodStep(c, d) == CoordinatorInv(d) /\ LedgerStep(c, d)

LEMMA UnchangedIsGood ==
    ASSUME NEW c, CoordinatorInv(c)
    PROVE  GoodStep(c, c)
  BY DEF GoodStep, LedgerStep

\* A list of pending clients, each once.
IsPending(pending) ==
    /\ pending \in Seq(ClientIds)
    /\ \A i, j \in DOMAIN pending : pending[i] = pending[j] => i = j

LEMMA AdmittedFacts ==
    ASSUME NEW pending, IsPending(pending)
    PROVE  /\ Admitted(pending) \in Seq(ClientIds)
           /\ Len(Admitted(pending)) <= MaxClients
           /\ Len(Admitted(pending)) = Len(pending) \/ Len(Admitted(pending)) = MaxClients
           /\ \A i, j \in DOMAIN Admitted(pending) :
                 Admitted(pending)[i] = Admitted(pending)[j] => i = j
<1> DEFINE n == IF Len(pending) <= MaxClients THEN Len(pending) ELSE MaxClients
<1>1. pending \in Seq(ClientIds) /\ Len(pending) \in Nat /\ MaxClients \in Nat
      /\ DOMAIN pending = 1 .. Len(pending)
  BY SizesAssumption, LenProperties DEF IsPending
<1>2. n \in Nat /\ n <= Len(pending) /\ n <= MaxClients
      /\ (n = Len(pending) \/ n = MaxClients)
  BY SMTT(30), <1>1
<1>2a. ASSUME NEW i \in 1 .. n PROVE i \in 1 .. Len(pending)
  <2>1. ASSUME NEW k \in Nat, NEW l \in Nat, k <= l, NEW j \in 1 .. k
        PROVE  j \in 1 .. l
    BY <2>1
  <2> HIDE DEF n
  <2> QED
    BY <1>1, <1>2, <2>1
<1>3. Admitted(pending) = SubSeq(pending, 1, n)
  BY DEF Admitted
<1> HIDE DEF n
<1>4. /\ SubSeq(pending, 1, n) \in Seq(ClientIds)
      /\ Len(SubSeq(pending, 1, n)) = n
      /\ DOMAIN SubSeq(pending, 1, n) = 1 .. n
      /\ \A i \in 1 .. n : SubSeq(pending, 1, n)[i] = pending[i]
  <2>1. ASSUME NEW i \in 1 .. n PROVE pending[i] \in ClientIds
    BY <1>1, <1>2a, ElementOfSeq
  <2>2. n \in Int /\ 1 \in Int
    BY <1>2
  <2>3. /\ SubSeq(pending, 1, n) \in Seq(ClientIds)
        /\ Len(SubSeq(pending, 1, n)) = IF 1 <= n THEN n - 1 + 1 ELSE 0
        /\ \A i \in 1 .. n - 1 + 1 : SubSeq(pending, 1, n)[i] = pending[1 + i - 1]
    BY <2>1, <2>2, SubSeqProperties
  <2>4. Len(SubSeq(pending, 1, n)) = n
    BY <2>3, <1>2
  <2>5. DOMAIN SubSeq(pending, 1, n) = 1 .. n
    BY <2>3, <2>4, LenProperties
  <2>6. ASSUME NEW i \in 1 .. n PROVE SubSeq(pending, 1, n)[i] = pending[i]
    <3>1. i \in 1 .. n - 1 + 1 /\ 1 + i - 1 = i
      BY <1>2
    <3> QED
      BY <3>1, <2>3
  <2> QED
    BY <2>3, <2>4, <2>5, <2>6
<1>5. \A i, j \in DOMAIN pending : pending[i] = pending[j] => i = j
  BY DEF IsPending
<1>6. \A i \in 1 .. n : i \in DOMAIN pending
  BY <1>1, <1>2a
<1>7. \A i, j \in 1 .. n :
         SubSeq(pending, 1, n)[i] = SubSeq(pending, 1, n)[j] => i = j
  BY <1>4, <1>5, <1>6
<1> QED
  BY SMTT(30), <1>2, <1>3, <1>4, <1>7

LEMMA TickWaitingForMembersGood ==
    ASSUME NEW c, CoordinatorInv(c), c.run_state = "WaitingForMembers",
           NEW pending, IsPending(pending)
    PROVE  GoodStep(c, TickWaitingForMembers(c, pending).st)
<1>0. c \in CoordinatorType /\ CurrentRound(c) \in Round
  BY CurrentRoundType DEF CoordinatorInv
<1>1. CASE ~(/\ Len(pending) >= c.config.init_min_clients
             /\ CheckTimeout(c, c.config.waiting_for_members_extra_time))
  <2>1. TickWaitingForMembers(c, pending).st = c
    BY <1>1 DEF TickWaitingForMembers, Ticked
  <2> QED
    BY <2>1, UnchangedIsGood
<1>2. CASE /\ Len(pending) >= c.config.init_min_clients
           /\ CheckTimeout(c, c.config.waiting_for_members_extra_time)
  <2> DEFINE moved == MoveClientsToExited(c, CurrentRound(c).height)
             ckpt == CheckpointForEpoch(c, moved.clients, pending)
             adm == Admitted(pending)
             cl == [i \in DOMAIN adm |-> NewClient(adm[i])]
             zero == [r \in RoundSlots |-> ZeroRound]
             d == TickWaitingForMembers(c, pending).st
  <2>1. d = [c EXCEPT !.checkpoint = ckpt, !.rounds = zero, !.rounds_head = 0,
                      !.exited_clients = <<>>, !.last_step = 0,
                      !.first_round = TRUE, !.start_step = c.step,
                      !.epoch_age = 0, !.clients = cl,
                      !.run_state = "Warmup", !.age = 0]
    BY <1>2 DEF TickWaitingForMembers, Ticked, ChangeState
  <2>2. ckpt \in Checkpoint
    <3>1. c.checkpoint \in Checkpoint
      BY <1>0 DEF CoordinatorType
    <3>2. ckpt \in {c.checkpoint, [c.checkpoint EXCEPT !.kind = "Hub"]}
      BY DEF CheckpointForEpoch
    <3> HIDE DEF ckpt
    <3> QED
      BY <3>1, <3>2 DEF Checkpoint
  <2>3. /\ adm \in Seq(ClientIds) /\ Len(adm) <= MaxClients
        /\ Len(adm) = Len(pending) \/ Len(adm) = MaxClients
        /\ \A i, j \in DOMAIN adm : adm[i] = adm[j] => i = j
    BY AdmittedFacts
  <2>4. /\ Len(adm) \in Nat /\ DOMAIN adm = 1 .. Len(adm)
        /\ \A i \in DOMAIN adm : adm[i] \in ClientIds
    BY <2>3, ElementOfSeq, LenProperties
  <2>5. \A id \in ClientIds : NewClient(id) \in Client /\ NewClient(id).id = id
    BY DEF NewClient, Client, ClientStates
  <2> HIDE DEF adm
  <2>6. /\ cl \in Seq(Client) /\ Len(cl) = Len(adm) /\ DOMAIN cl = 1 .. Len(adm)
        /\ \A i \in 1 .. Len(adm) : cl[i].id = adm[i]
    <3>1. cl \in [1 .. Len(adm) -> Client]
      BY <2>4, <2>5
    <3> QED
      BY <3>1, <2>4, <2>5
  <2>7. zero \in [RoundSlots -> Round] /\ 0 \in RoundSlots /\ zero[0] = ZeroRound
    <3>1. ZeroRound \in Round
      <4>1. <<>> \in Seq(Witness)
        OBVIOUS
      <4> QED
        BY <4>1, SizesAssumption DEF ZeroRound, Round
    <3>2. 0 \in RoundSlots
      BY SizesAssumption DEF RoundSlots
    <3> QED
      BY <3>1, <3>2
  <2> HIDE DEF cl, zero, ckpt, d, moved
  <2>8. d \in CoordinatorType
    <3>1. <<>> \in Seq(Client)
      OBVIOUS
    <3> QED
      BY <3>1, <2>1, <2>2, <2>6, <2>7, <1>0 DEF CoordinatorType, RunStates
  <2>9. /\ d.run_state = "Warmup" /\ d.config = c.config /\ d.step = c.step
        /\ d.pending_pause = c.pending_pause
        /\ d.clients = cl /\ d.exited_clients = <<>> /\ d.last_step = 0
        /\ d.first_round = TRUE /\ d.rounds = zero /\ d.rounds_head = 0
        /\ d.epoch_start_data_index = c.epoch_start_data_index
    BY <2>1, <1>0 DEF CoordinatorType
  <2>10. CurrentRound(d) = ZeroRound /\ ZeroRound.height = 0
    BY <2>7, <2>9 DEF CurrentRound, ZeroRound
  <2>11. Len(cl) >= c.config.min_clients
    <3>1. c.config \in Configs
      BY <1>0 DEF CoordinatorType
    <3>2. Len(pending) \in Nat
      BY LenProperties DEF IsPending
    <3> QED
      BY <3>1, <3>2, <1>2, <2>3, <2>4, <2>6, ConfigFacts, SizesAssumption
  <2>12. RosterFits(d)
    <3>1. EachListedOnce(d)
      BY <2>3, <2>4, <2>6, <2>9 DEF EachListedOnce
    <3> QED
      BY <3>1, <2>3, <2>4, <2>6, <2>9 DEF RosterFits
  <2>13. WarmupIsFresh(d) /\ FollowsQuorum(d)
    BY <2>9, <2>10, <2>11 DEF WarmupIsFresh, FollowsQuorum
  <2>14. PauseInEpoch(d) /\ StepsRemain(d)
    <3>1. PauseInEpoch(c) /\ StepsRemain(c)
      BY DEF CoordinatorInv
    <3> QED
      BY <3>1, <2>9 DEF PauseInEpoch, Active, StepsRemain
  <2>15. WitnessesVerified(d) /\ ShortOfWitnesses(d) /\ LastStepClose(d)
    BY <2>9 DEF WitnessesVerified, ShortOfWitnesses, LastStepClose, InRound
  <2>16. LedgerStep(c, d)
    BY <2>9 DEF LedgerStep, LedgerIndex, InRound
  <2> QED
    BY <2>8, <2>12, <2>13, <2>14, <2>15, <2>16 DEF GoodStep, CoordinatorInv, d
<1> QED
  BY <1>1, <1>2

LEMMA TickWarmupGood ==
    ASSUME NEW c, CoordinatorInv(c), c.run_state = "Warmup", NEW seed \in Seeds
    PROVE  GoodStep(c, TickWarmup(c, seed).st)
<1>0. /\ c \in CoordinatorType /\ RosterFits(c) /\ FollowsQuorum(c)
      /\ WarmupIsFresh(c) /\ StepsRemain(c) /\ PauseInEpoch(c)
  BY DEF CoordinatorInv
<1>1. /\ c.first_round /\ c.last_step = 0 /\ Len(c.clients) >= c.config.min_clients
      /\ CurrentRound(c).height = 0 /\ StepAllowed(c.config, c.step)
      /\ c.pending_pause = FALSE
  <2>1. c.pending_pause \in BOOLEAN
    BY <1>0 DEF CoordinatorType
  <2> QED
    BY <2>1, <1>0 DEF WarmupIsFresh, StepsRemain, PauseInEpoch, Active
<1>2. CASE CheckTimeout(c, c.config.warmup_time)
  <2> DEFINE d == StartRoundTrain(c, seed)
  <2>1. /\ CoordinatorInv(d) /\ d.run_state = "RoundTrain"
        /\ d.config = c.config /\ d.step = c.step /\ d.clients = c.clients
        /\ d.epoch_start_data_index = c.epoch_start_data_index
        /\ CurrentRound(d).data_index = c.epoch_start_data_index
    <3>1. LastStepSet(c) => c.step < c.last_step /\ c.last_step <= c.step + 2
      BY <1>1 DEF LastStepSet
    <3>2. LET n == Len(CurrentRound(c).witnesses)
          IN  c.first_round \/ (n > 0 /\ n >= WitnessQuorum(c, n))
      BY <1>1
    <3>3. LET e == StartRoundTrain(c, seed)
          IN  /\ CoordinatorInv(e) /\ e.run_state = "RoundTrain"
              /\ e.config = c.config /\ e.step = c.step /\ e.clients = c.clients
              /\ e.epoch_start_data_index = c.epoch_start_data_index
              /\ CurrentRound(e).data_index =
                    IF c.first_round THEN c.epoch_start_data_index
                    ELSE NextDataIndex(c, CurrentRound(c))
      <4>1. c \in CoordinatorType /\ RosterFits(c) /\ Len(c.clients) >= c.config.min_clients
        BY <1>0, <1>1
      <4> QED
        BY <3>1, <3>2, <4>1, StartRoundTrainInv
    <3> QED
      BY <3>3, <1>1
  <2>2. TickWarmup(c, seed).st = d
    <3>1. ~(Len(c.clients) < c.config.min_clients)
      BY <1>0, <1>1, ClientOfList, ConfigFacts DEF CoordinatorType
    <3> HIDE DEF d
    <3> QED
      BY <1>2, <2>1, <3>1 DEF TickWarmup, Ticked, d
  <2> HIDE DEF d
  <2>3. LedgerStep(c, d)
    BY <2>1, <1>1 DEF LedgerStep, LedgerIndex, InRound
  <2> QED
    BY <2>1, <2>2, <2>3 DEF GoodStep
<1>3. CASE ~CheckTimeout(c, c.config.warmup_time)
  <2> DEFINE m == MoveClientsToExited(c, 0)
  <2>1. /\ m \in CoordinatorType /\ RosterFits(m) /\ m.run_state = c.run_state
        /\ m.pending_pause = c.pending_pause /\ m.config = c.config
        /\ m.step = c.step /\ m.rounds = c.rounds /\ m.rounds_head = c.rounds_head
        /\ m.first_round = c.first_round /\ m.last_step = c.last_step
        /\ m.epoch_start_data_index = c.epoch_start_data_index
        /\ CurrentRound(m) = CurrentRound(c) /\ PreviousRound(m) = PreviousRound(c)
    BY <1>0, MoveClientsCarries
  <2> HIDE DEF m
  <2>2. FollowsQuorum(m)
    BY <1>0, <2>1, FollowsQuorumCarries DEF Active
  <2>3. CASE Len(m.clients) < c.config.min_clients
    <3> DEFINE d == StartWaitingForMembers(m)
    <3>1. TickWarmup(c, seed).st = d
      BY <1>3, <2>3 DEF TickWarmup, m
    <3>2. /\ CoordinatorInv(d) /\ d.config = m.config /\ d.step = m.step
          /\ d.run_state \in {"WaitingForMembers", "Finished"}
          /\ d.epoch_start_data_index = m.epoch_start_data_index
      BY <1>1, <2>1, <2>2, StartWaitingForMembersInv
    <3> HIDE DEF d
    <3>3. LedgerStep(c, d)
      BY <3>2, <2>1 DEF LedgerStep, LedgerIndex, InRound
    <3> QED
      BY <3>1, <3>2, <3>3 DEF GoodStep
  <2>4. CASE ~(Len(m.clients) < c.config.min_clients)
    <3>1. TickWarmup(c, seed).st = m
      BY <1>3, <2>4 DEF TickWarmup, Ticked, m
    <3>2. Len(m.clients) >= m.config.min_clients
      <4>1. Len(m.clients) \in Nat /\ m.config.min_clients \in Nat
        BY <2>1, ClientOfList, ConfigFacts DEF CoordinatorType
      <4> QED
        BY <4>1, <2>1, <2>4
    <3>3. WarmupIsFresh(m) /\ PauseInEpoch(m) /\ StepsRemain(m)
      BY <3>2, <2>1, <1>1 DEF WarmupIsFresh, PauseInEpoch, StepsRemain
    <3>4. WitnessesVerified(m) /\ ShortOfWitnesses(m) /\ LastStepClose(m)
      BY <2>1 DEF WitnessesVerified, ShortOfWitnesses, LastStepClose, InRound
    <3>5. LedgerStep(c, m)
      BY <2>1, LedgerStutter
    <3> QED
      BY <3>1, <3>3, <3>4, <3>5, <2>1, <2>2 DEF GoodStep, CoordinatorInv
  <2> QED
    BY <2>3, <2>4
<1> QED
  BY <1>2, <1>3

\* A step to another phase that keeps clients, rounds and counters.
LEMMA ChangeStateFacts ==
    ASSUME NEW c \in CoordinatorType, NEW state \in RunStates
    PROVE  LET d == ChangeState(c, state)
           IN  /\ d \in CoordinatorType
               /\ d.run_state = state /\ d.pending_pause = c.pending_pause
               /\ d.config = c.config /\ d.step = c.step
               /\ d.clients = c.clients /\ d.exited_clients = c.exited_clients
               /\ d.rounds = c.rounds /\ d.rounds_head = c.rounds_head
               /\ d.first_round = c.first_round /\ d.last_step = c.last_step
               /\ d.epoch_start_data_index = c.epoch_start_data_index
               /\ CurrentRound(d) = CurrentRound(c)
               /\ PreviousRound(d) = PreviousRound(c)
  BY DEF ChangeState, CoordinatorType, CurrentRound, PreviousRound

\* A training round that becomes a witness round is still in order.
LEMMA ToRoundWitness ==
    ASSUME NEW c \in CoordinatorType, c.run_state = "RoundTrain",
           WitnessesVerified(c), RosterFits(c), FollowsQuorum(c), LastStepClose(c)
    PROVE  GoodStep(c, ChangeState(c, "RoundWitness"))
<1> DEFINE d == ChangeState(c, "RoundWitness")
<1>1. /\ d \in CoordinatorType /\ d.run_state = "RoundWitness"
      /\ d.config = c.config /\ d.step = c.step
      /\ d.clients = c.clients /\ d.exited_clients = c.exited_clients
      /\ d.rounds = c.rounds /\ d.rounds_head = c.rounds_head
      /\ d.last_step = c.last_step
      /\ CurrentRound(d) = CurrentRound(c) /\ PreviousRound(d) = PreviousRound(c)
  <2>1. "RoundWitness" \in RunStates
    BY DEF RunStates
  <2> QED
    BY <2>1, ChangeStateFacts
<1> HIDE DEF d
<1>2. \A w : VerifyWitness(d, w) <=> VerifyWitness(c, w)
  BY <1>1 DEF VerifyWitness, VerifyClient, IsWitnessPosition
<1>3. WitnessesVerified(d)
  BY <1>1, <1>2 DEF WitnessesVerified, InRound
<1>4. FollowsQuorum(d) /\ RosterFits(d)
  BY <1>1, FollowsQuorumCarries, RosterFitsCarries DEF Active
<1>5. /\ PauseInEpoch(d) /\ ShortOfWitnesses(d) /\ LastStepClose(d)
      /\ WarmupIsFresh(d) /\ StepsRemain(d)
  BY <1>1 DEF PauseInEpoch, Active, ShortOfWitnesses, LastStepClose, LastStepSet,
       WarmupIsFresh, StepsRemain, InRound
<1>6. LedgerStep(c, d)
  BY <1>1 DEF LedgerStep, LedgerIndex, InRound
<1> QED
  BY <1>1, <1>3, <1>4, <1>5, <1>6 DEF GoodStep, CoordinatorInv, d

LEMMA TickRoundTrainGood ==
    ASSUME NEW c, CoordinatorInv(c), c.run_state = "RoundTrain"
    PROVE  GoodStep(c, TickRoundTrain(c).st)
<1>1. TickRoundTrain(c).st \in {c, ChangeState(c, "RoundWitness")}
  BY DEF TickRoundTrain, Ticked
<1>2. GoodStep(c, ChangeState(c, "RoundWitness"))
  BY ToRoundWitness DEF CoordinatorInv
<1> QED
  BY <1>1, <1>2, UnchangedIsGood

\* The last step is set two steps ahead, once.
LEMMA SetLastStepFacts ==
    ASSUME NEW c \in CoordinatorType
    PROVE  LET d == SetLastStep(c)
           IN  /\ d \in CoordinatorType
               /\ d.pending_pause = c.pending_pause /\ d.run_state = c.run_state
               /\ d.config = c.config /\ d.step = c.step
               /\ d.clients = c.clients /\ d.exited_clients = c.exited_clients
               /\ d.rounds = c.rounds /\ d.rounds_head = c.rounds_head
               /\ d.first_round = c.first_round
               /\ d.epoch_start_data_index = c.epoch_start_data_index
               /\ \/ d.last_step = c.last_step
                  \/ d.last_step = c.step + 2
<1>1. c.step \in Nat
  BY DEF CoordinatorType
<1>2. CASE SetLastStep(c) = c
  BY <1>2
<1>3. CASE SetLastStep(c) = [c EXCEPT !.last_step = c.step + 2]
  <2> DEFINE d == [c EXCEPT !.last_step = c.step + 2]
  <2>1. c.step + 2 \in Nat
    BY <1>1
  <2>2. d \in CoordinatorType
    BY <2>1 DEF CoordinatorType
  <2>3. /\ d.pending_pause = c.pending_pause /\ d.run_state = c.run_state
        /\ d.config = c.config /\ d.step = c.step
        /\ d.clients = c.clients /\ d.exited_clients = c.exited_clients
        /\ d.rounds = c.rounds /\ d.rounds_head = c.rounds_head
        /\ d.first_round = c.first_round
        /\ d.epoch_start_data_index = c.epoch_start_data_index
        /\ d.last_step = c.step + 2
    BY DEF CoordinatorType
  <2> QED
    BY <1>3, <2>2, <2>3
<1> QED
  BY <1>2, <1>3 DEF SetLastStep

LEMMA TickRoundWitnessGood ==
    ASSUME NEW c, CoordinatorInv(c), c.run_state = "RoundWitness", NEW seed \in Seeds
    PROVE  GoodStep(c, TickRoundWitness(c, seed).st)
<1>0. /\ c \in CoordinatorType /\ RosterFits(c) /\ FollowsQuorum(c)
      /\ LastStepClose(c) /\ CurrentRound(c) \in Round
      /\ c.step \in Nat /\ c.last_step \in Nat /\ c.config \in Configs
  BY CurrentRoundType DEF CoordinatorInv, CoordinatorType
<1>1. CASE ~CheckTimeout(c, c.config.round_witness_time)
  <2>1. TickRoundWitness(c, seed).st = c
    BY <1>1 DEF TickRoundWitness, Ticked
  <2> QED
    BY <2>1, UnchangedIsGood
<1>2. CASE CheckTimeout(c, c.config.round_witness_time)
  <2> DEFINE n == Len(CurrentRound(c).witnesses)
             b == [c EXCEPT !.first_round = FALSE, !.step = @ + 1]
             h == CurrentRound(c).height
             moved == MoveClientsToExited(b, h)
             next == SetLastStep(moved)
             d == TickRoundWitness(c, seed).st
  <2>1. d = IF n = 0 THEN StartCooldown(WithdrawAll(moved))
            ELSE IF EpochMustEnd(next, n) THEN StartCooldown(next)
            ELSE StartRoundTrain(next, seed)
    BY <1>2 DEF TickRoundWitness, Ticked
  <2>2. /\ b \in CoordinatorType /\ b.step = c.step + 1 /\ b.first_round = FALSE
        /\ b.run_state = c.run_state /\ b.pending_pause = c.pending_pause
        /\ b.config = c.config /\ b.rounds = c.rounds /\ b.rounds_head = c.rounds_head
        /\ b.last_step = c.last_step /\ b.clients = c.clients
        /\ b.exited_clients = c.exited_clients
        /\ b.epoch_start_data_index = c.epoch_start_data_index
    <3>1. b = [c EXCEPT !.first_round = FALSE, !.step = c.step + 1]
      BY <1>0 DEF CoordinatorType
    <3>2. c.step + 1 \in Nat
      BY <1>0
    <3> HIDE DEF b
    <3>3. b \in CoordinatorType
      BY <1>0, <3>1, <3>2 DEF CoordinatorType
    <3> QED
      BY <1>0, <3>1, <3>3 DEF CoordinatorType
  <2>3. h \in Nat /\ n \in Nat
    BY <1>0, WitnessOfList DEF Round
  <2> HIDE DEF b, h, n, d
  <2>4. CurrentRound(b) = CurrentRound(c) /\ PreviousRound(b) = PreviousRound(c)
    BY <2>2 DEF CurrentRound, PreviousRound
  <2>5. RosterFits(b) /\ FollowsQuorum(b)
    BY <1>0, <2>2, <2>4, RosterFitsCarries, FollowsQuorumCarries DEF Active
  <2>6. /\ moved \in CoordinatorType /\ RosterFits(moved)
        /\ moved.run_state = "RoundWitness" /\ moved.config = c.config /\ moved.step = c.step + 1
        /\ moved.rounds = c.rounds /\ moved.rounds_head = c.rounds_head
        /\ moved.first_round = FALSE /\ moved.last_step = c.last_step
        /\ CurrentRound(moved) = CurrentRound(c)
        /\ PreviousRound(moved) = PreviousRound(c)
    BY <2>2, <2>3, <2>4, <2>5, MoveClientsCarries
  <2> HIDE DEF moved
  <2>7. FollowsQuorum(moved)
    BY <1>0, <2>6, FollowsQuorumCarries DEF Active
  <2>8. InRound(c) /\ LedgerIndex(c) = CurrentRound(c).data_index
    BY DEF InRound, LedgerIndex
  \* An epoch that cools down has completed its step.
  <2>9. ASSUME NEW e \in CoordinatorType, RosterFits(e), FollowsQuorum(e),
               e.run_state = "RoundWitness",
               e.config = c.config, e.step = c.step + 1,
               CurrentRound(e) = CurrentRound(c), d = StartCooldown(e)
        PROVE  GoodStep(c, d)
    <3>1. /\ CoordinatorInv(d) /\ d.run_state = "Cooldown"
          /\ d.config = c.config /\ d.step = c.step + 1
          /\ CurrentRound(d).data_index = CurrentRound(c).data_index
      BY <2>9, StartCooldownInv
    <3>2. /\ ~InRound(d)
          /\ LedgerIndex(d) = CurrentRound(c).data_index
                + BatchSize(c.config, CurrentRound(c).data_index * SeqLen)
      BY <3>1 DEF InRound, LedgerIndex, NextDataIndex
    <3> QED
      BY <3>1, <3>2, <2>8 DEF GoodStep, LedgerStep
  <2>10. CASE n = 0
    <3> DEFINE e == WithdrawAll(moved)
    <3>1. SameClients(moved, e)
      BY <2>6, WithdrawAllSameClients
    <3> HIDE DEF e
    <3>2. /\ e \in CoordinatorType /\ e.config = moved.config /\ e.step = moved.step
          /\ e.run_state = moved.run_state
          /\ e.rounds = moved.rounds /\ e.rounds_head = moved.rounds_head
          /\ e.exited_clients = moved.exited_clients
      BY <3>1, <2>6 DEF SameClients, CoordinatorType
    <3>3. CurrentRound(e) = CurrentRound(moved) /\ PreviousRound(e) = PreviousRound(moved)
      BY <3>2 DEF CurrentRound, PreviousRound
    <3>4. FollowsQuorum(e)
      BY <2>7, <3>2, <3>3, FollowsQuorumCarries DEF Active
    <3>5. RosterFits(e)
      <4>1. EachListedOnce(e)
        BY <2>6, <3>1, <3>2 DEF RosterFits, EachListedOnce, SameClients
      <4>2. Len(e.clients) = Len(moved.clients)
        BY <3>1 DEF SameClients
      <4> QED
        BY <2>6, <3>2, <4>1, <4>2 DEF RosterFits
    <3>6. d = StartCooldown(e)
      BY <2>1, <2>10 DEF e
    <3> QED
      BY <2>6, <2>9, <3>2, <3>3, <3>4, <3>5, <3>6 DEF d
  <2>11. /\ next \in CoordinatorType
         /\ next.run_state = "RoundWitness"
         /\ next.config = c.config /\ next.step = c.step + 1
         /\ next.rounds = c.rounds /\ next.rounds_head = c.rounds_head
         /\ next.first_round = FALSE
         /\ next.clients = moved.clients /\ next.exited_clients = moved.exited_clients
         /\ next.last_step = c.last_step \/ next.last_step = c.step + 3
    <3>1. c.step + 1 + 2 = c.step + 3
      BY <1>0
    <3> QED
      BY <3>1, <2>6, SetLastStepFacts
  <2> HIDE DEF next
  <2>12. CurrentRound(next) = CurrentRound(c) /\ PreviousRound(next) = PreviousRound(c)
    BY <2>11 DEF CurrentRound, PreviousRound
  <2>13. RosterFits(next) /\ FollowsQuorum(next)
    BY <1>0, <2>6, <2>11, <2>12, RosterFitsCarries, FollowsQuorumCarries DEF Active
  <2>14. CASE n # 0 /\ EpochMustEnd(next, n)
    <3>1. d = StartCooldown(next)
      BY <2>1, <2>14
    <3> QED
      BY <2>9, <2>11, <2>12, <2>13, <3>1 DEF d
  <2>15. CASE n # 0 /\ ~EpochMustEnd(next, n)
    <3>1. d = StartRoundTrain(next, seed)
      BY <2>1, <2>15
    <3>2. /\ ~(LastStepSet(next) /\ next.step = next.last_step)
          /\ ~(Len(next.clients) < next.config.min_clients)
          /\ ~(n < WitnessQuorum(next, n))
          /\ ~(next.step >= next.config.total_steps)
      BY <2>15 DEF EpochMustEnd
    <3>3. Len(next.clients) >= next.config.min_clients
      <4>1. Len(next.clients) \in Nat /\ next.config.min_clients \in Nat
        BY <1>0, <2>11, ClientOfList, ConfigFacts
      <4> QED
        BY <3>2, <4>1
    <3>4. LastStepSet(next) => next.step < next.last_step /\ next.last_step <= next.step + 2
      <4>1. InRound(c) /\ (c.last_step # 0 => c.step < c.last_step /\ c.last_step <= c.step + 2)
        BY <1>0, <2>8 DEF LastStepClose, LastStepSet
      <4> QED
        BY <4>1, <3>2, <2>11, <1>0 DEF LastStepSet
    <3>5. n > 0 /\ n >= WitnessQuorum(next, n)
      <4>1. WitnessQuorum(next, n) \in Nat
        <5>1. next.config.witness_nodes \in Nat
          BY <1>0, <2>11, ConfigFacts
        <5> DEFINE w == IF next.config.witness_nodes = 0 THEN n
                                                         ELSE next.config.witness_nodes
        <5>2. w \in Nat
          BY <2>3, <5>1
        <5>3. WitnessQuorum(next, n) = CASE w <= 2 -> w
                                         [] w = 3  -> 2
                                         [] w > 3  -> (2 * w) \div 3
          BY DEF WitnessQuorum
        <5> HIDE DEF w
        <5> QED
          BY <5>2, <5>3
      <4> QED
        BY <4>1, <3>2, <2>3, <2>15
    <3>6. LET k == Len(CurrentRound(next).witnesses)
          IN  next.first_round \/ (k > 0 /\ k >= WitnessQuorum(next, k))
      BY <3>5, <2>12 DEF n
    <3>7. /\ CoordinatorInv(d) /\ d.run_state = "RoundTrain"
          /\ d.config = next.config /\ d.step = next.step
          /\ CurrentRound(d).data_index =
                IF next.first_round THEN next.epoch_start_data_index
                ELSE NextDataIndex(next, CurrentRound(next))
      BY <3>1, <3>3, <3>4, <3>6, <2>11, <2>13, StartRoundTrainInv
    <3>8. /\ InRound(d)
          /\ LedgerIndex(d) = CurrentRound(c).data_index
                + BatchSize(c.config, CurrentRound(c).data_index * SeqLen)
      BY <3>7, <2>11, <2>12 DEF InRound, LedgerIndex, NextDataIndex
    <3>9. StepAllowed(d.config, d.step)
      <4>1. c.config.total_steps \in Nat
        BY <1>0, ConfigFacts
      <4> QED
        BY <4>1, <3>2, <3>7, <2>11, <1>0 DEF StepAllowed
    <3> QED
      BY <3>7, <3>8, <3>9, <2>8, <2>11 DEF GoodStep, LedgerStep, d
  <2> QED
    BY <2>10, <2>14, <2>15
<1> QED
  BY <1>1, <1>2

\* A coordinator that is paused, its clients withdrawn, in any phase.
LEMMA ToPaused ==
    ASSUME NEW c \in CoordinatorType, RosterFits(c), FollowsQuorum(c),
           NEW d, d = [ChangeState(WithdrawAll(c), "Paused") EXCEPT
                          !.pending_pause = FALSE, !.cold_start_epoch = TRUE]
    PROVE  /\ CoordinatorInv(d)
           /\ d.run_state = "Paused" /\ d.config = c.config /\ d.step = c.step
           /\ d.epoch_start_data_index = c.epoch_start_data_index
<1> DEFINE e == WithdrawAll(c)
<1>1. SameClients(c, e)
  BY WithdrawAllSameClients
<1> HIDE DEF e
<1>2. /\ e \in CoordinatorType /\ e.config = c.config /\ e.step = c.step
      /\ e.rounds = c.rounds /\ e.rounds_head = c.rounds_head
      /\ e.exited_clients = c.exited_clients
      /\ e.epoch_start_data_index = c.epoch_start_data_index
  BY <1>1 DEF SameClients, CoordinatorType
<1>3. d = [e EXCEPT !.run_state = "Paused", !.age = 0,
                    !.pending_pause = FALSE, !.cold_start_epoch = TRUE]
  BY DEF ChangeState, e
<1>4. /\ d \in CoordinatorType /\ d.run_state = "Paused" /\ d.pending_pause = FALSE
      /\ d.config = c.config /\ d.step = c.step
      /\ d.rounds = c.rounds /\ d.rounds_head = c.rounds_head
      /\ d.clients = e.clients /\ d.exited_clients = c.exited_clients
      /\ d.epoch_start_data_index = c.epoch_start_data_index
  <2>1. d \in CoordinatorType
    <3> DEFINE y == ChangeState(e, "Paused")
    <3>1. y \in CoordinatorType
      <4>1. "Paused" \in RunStates
        BY DEF RunStates
      <4> QED
        BY <4>1, <1>2, ChangeStateFacts
    <3>2. d = [y EXCEPT !.pending_pause = FALSE, !.cold_start_epoch = TRUE]
      BY DEF e
    <3> HIDE DEF y
    <3> QED
      BY <3>1, <3>2 DEF CoordinatorType
  <2>2. /\ d.run_state = "Paused" /\ d.pending_pause = FALSE
        /\ d.config = e.config /\ d.step = e.step
        /\ d.rounds = e.rounds /\ d.rounds_head = e.rounds_head
        /\ d.clients = e.clients /\ d.exited_clients = e.exited_clients
        /\ d.epoch_start_data_index = e.epoch_start_data_index
    BY <1>2, <1>3 DEF CoordinatorType
  <2> QED
    BY <2>1, <2>2, <1>2
<1>5. CurrentRound(d) = CurrentRound(c) /\ PreviousRound(d) = PreviousRound(c)
  BY <1>4 DEF CurrentRound, PreviousRound
<1>6. FollowsQuorum(d)
  BY <1>4, <1>5, FollowsQuorumCarries DEF Active
<1>7. RosterFits(d)
  <2>1. EachListedOnce(d)
    BY <1>1, <1>4 DEF RosterFits, EachListedOnce, SameClients
  <2>2. Len(d.clients) = Len(c.clients)
    BY <1>1, <1>4 DEF SameClients
  <2> QED
    BY <1>4, <2>1, <2>2 DEF RosterFits
<1>8. PauseInEpoch(d) /\ StepsRemain(d)
  BY <1>4 DEF PauseInEpoch, StepsRemain
<1> QED
  BY <1>4, <1>6, <1>7, <1>8, IdleInv

LEMMA TickCooldownGood ==
    ASSUME NEW c, CoordinatorInv(c), c.run_state = "Cooldown"
    PROVE  GoodStep(c, TickCooldown(c).st)
<1>0. /\ c \in CoordinatorType /\ RosterFits(c) /\ FollowsQuorum(c)
      /\ CurrentRound(c) \in Round /\ c.epoch \in Nat /\ c.checkpoint \in Checkpoint
      /\ c.pending_pause \in BOOLEAN
  BY CurrentRoundType DEF CoordinatorInv, CoordinatorType
<1>1. CASE ~CheckTimeout(c, c.config.cooldown_time)
  <2>1. TickCooldown(c).st = c
    BY <1>1 DEF TickCooldown, Ticked
  <2> QED
    BY <2>1, UnchangedIsGood
<1>2. CASE CheckTimeout(c, c.config.cooldown_time)
  <2> DEFINE x == NextDataIndex(c, CurrentRound(c))
             b == [c EXCEPT
                     !.epoch_start_data_index = x,
                     !.epoch = @ + 1,
                     !.checkpoint.kind = IF @ \in {"Hub", "Dummy"} THEN "P2P"
                                                                   ELSE @]
             h == CurrentRound(c).height
             moved == MoveClientsToExited(b, h)
             d == TickCooldown(c).st
  <2>1. d = IF c.pending_pause
            THEN [ChangeState(WithdrawAll(moved), "Paused") EXCEPT
                    !.pending_pause = FALSE, !.cold_start_epoch = TRUE]
            ELSE [StartWaitingForMembers(moved) EXCEPT !.cold_start_epoch = FALSE]
    BY <1>2 DEF TickCooldown
  <2>2. /\ b \in CoordinatorType /\ b.epoch_start_data_index = x
        /\ b.pending_pause = c.pending_pause
        /\ b.config = c.config /\ b.step = c.step
        /\ b.rounds = c.rounds /\ b.rounds_head = c.rounds_head
        /\ b.clients = c.clients /\ b.exited_clients = c.exited_clients
    <3>1. x \in Nat
      BY <1>0, NextDataIndexType
    <3> DEFINE k == [c.checkpoint EXCEPT
                       !.kind = IF @ \in {"Hub", "Dummy"} THEN "P2P" ELSE @]
    <3>2. k \in Checkpoint
      BY <1>0 DEF Checkpoint
    <3>3. b = [c EXCEPT !.epoch_start_data_index = x, !.epoch = c.epoch + 1,
                        !.checkpoint = k]
      BY <1>0 DEF CoordinatorType
    <3>4. c.epoch + 1 \in Nat
      BY <1>0
    <3> HIDE DEF b, k, x
    <3>5. b \in CoordinatorType
      BY <1>0, <3>1, <3>2, <3>3, <3>4 DEF CoordinatorType
    <3> QED
      BY <1>0, <3>3, <3>5 DEF CoordinatorType
  <2>3. h \in Nat
    BY <1>0 DEF Round
  <2> HIDE DEF b, h, x, d
  <2>4. CurrentRound(b) = CurrentRound(c) /\ PreviousRound(b) = PreviousRound(c)
    BY <2>2 DEF CurrentRound, PreviousRound
  <2>5. RosterFits(b)
    BY <1>0, <2>2, RosterFitsCarries
  <2>6. /\ moved \in CoordinatorType /\ RosterFits(moved)
        /\ moved.pending_pause = c.pending_pause
        /\ moved.config = c.config /\ moved.step = c.step
        /\ moved.rounds_head = c.rounds_head
        /\ moved.epoch_start_data_index = x
        /\ CurrentRound(moved) = CurrentRound(c)
        /\ PreviousRound(moved) = PreviousRound(c)
    BY <2>2, <2>3, <2>4, <2>5, MoveClientsCarries
  <2> HIDE DEF moved
  <2>7. FollowsQuorum(moved)
    BY <1>0, <2>6, FollowsQuorumCarries DEF Active
  <2>8. /\ CoordinatorInv(d) /\ d.config = c.config /\ d.step = c.step
        /\ d.epoch_start_data_index = x
        /\ d.run_state \in {"Paused", "WaitingForMembers", "Finished"}
    <3>1. CASE c.pending_pause = TRUE
      <4>1. d = [ChangeState(WithdrawAll(moved), "Paused") EXCEPT
                    !.pending_pause = FALSE, !.cold_start_epoch = TRUE]
        BY <2>1, <3>1
      <4> QED
        BY <4>1, <2>6, <2>7, ToPaused
    <3>2. CASE c.pending_pause = FALSE
      <4> DEFINE e == StartWaitingForMembers(moved)
      <4>1. d = [e EXCEPT !.cold_start_epoch = FALSE]
        BY <2>1, <3>2
      <4>2. /\ CoordinatorInv(e) /\ e.config = c.config /\ e.step = c.step
            /\ e.run_state \in {"WaitingForMembers", "Finished"}
            /\ e.epoch_start_data_index = x
        BY <2>6, <2>7, <3>2, StartWaitingForMembersInv
      <4> HIDE DEF e
      <4>3. e \in CoordinatorType
        BY <4>2 DEF CoordinatorInv
      <4>4. /\ d \in CoordinatorType /\ d.run_state = e.run_state
            /\ d.config = e.config /\ d.step = e.step
            /\ d.pending_pause = e.pending_pause
            /\ d.epoch_start_data_index = e.epoch_start_data_index
            /\ d.clients = e.clients /\ d.exited_clients = e.exited_clients
            /\ d.rounds = e.rounds /\ d.rounds_head = e.rounds_head
        BY <4>1, <4>3 DEF CoordinatorType
      <4>5. CurrentRound(d) = CurrentRound(e) /\ PreviousRound(d) = PreviousRound(e)
        BY <4>4 DEF CurrentRound, PreviousRound
      <4>6. RosterFits(d) /\ FollowsQuorum(d)
        BY <4>2, <4>4, <4>5, RosterFitsCarries, FollowsQuorumCarries DEF CoordinatorInv, Active
      <4>7. PauseInEpoch(d) /\ StepsRemain(d)
        BY <4>2, <4>4 DEF CoordinatorInv, PauseInEpoch, StepsRemain, Active
      <4>8. CoordinatorInv(d)
        BY <4>2, <4>4, <4>6, <4>7, IdleInv
      <4> QED
        BY <4>2, <4>4, <4>8
    <3> QED
      BY <3>1, <3>2, <1>0
  <2>9. LedgerStep(c, d)
    BY <2>8 DEF LedgerStep, LedgerIndex, InRound, x
  <2> QED
    BY <2>8, <2>9 DEF GoodStep, d
<1> QED
  BY <1>1, <1>2

\* tick keeps the invariant and the ledger.
LEMMA TickGood ==
    ASSUME NEW c, CoordinatorInv(c), CanTick(c),
           NEW pending, IsPending(pending), NEW seed \in Seeds
    PROVE  GoodStep(c, Tick(c, pending, seed).st)
<1>1. c.run_state \in {"WaitingForMembers", "Warmup", "RoundTrain", "RoundWitness",
                       "Cooldown"}
  BY DEF CoordinatorInv, CoordinatorType, RunStates, CanTick, Halted
<1>2. CASE c.run_state = "WaitingForMembers"
  BY <1>2, TickWaitingForMembersGood DEF Tick
<1>3. CASE c.run_state = "Warmup"
  BY <1>3, TickWarmupGood DEF Tick
<1>4. CASE c.run_state = "RoundTrain"
  BY <1>4, TickRoundTrainGood DEF Tick
<1>5. CASE c.run_state = "RoundWitness"
  BY <1>5, TickRoundWitnessGood DEF Tick
<1>6. CASE c.run_state = "Cooldown"
  BY <1>6, TickCooldownGood DEF Tick
<1> QED
  BY <1>1, <1>2, <1>3, <1>4, <1>5, <1>6

-----------------------------------------------------------------------------
(* The other methods. *)

LEMMA PushWitnessFacts ==
    ASSUME NEW c \in CoordinatorType, NEW w \in Witness
    PROVE  LET d == PushWitness(c, w)
               ws == CurrentRound(c).witnesses
           IN  /\ d \in CoordinatorType
               /\ d.run_state = c.run_state /\ d.pending_pause = c.pending_pause
               /\ d.config = c.config /\ d.step = c.step
               /\ d.clients = c.clients /\ d.exited_clients = c.exited_clients
               /\ d.rounds_head = c.rounds_head
               /\ d.first_round = c.first_round /\ d.last_step = c.last_step
               /\ d.epoch_start_data_index = c.epoch_start_data_index
               /\ CurrentRound(d) = [CurrentRound(c) EXCEPT !.witnesses = Append(ws, w)]
               /\ CurrentRound(d).witnesses = Append(ws, w)
               /\ CurrentRound(d).height = CurrentRound(c).height
               /\ CurrentRound(d).data_index = CurrentRound(c).data_index
               /\ CurrentRound(d).random_seed = CurrentRound(c).random_seed
               /\ CurrentRound(d).clients_len = CurrentRound(c).clients_len
               /\ PreviousRound(d) = PreviousRound(c)
<1> DEFINE d == PushWitness(c, w)
           head == c.rounds_head
           ws == CurrentRound(c).witnesses
           round == [CurrentRound(c) EXCEPT !.witnesses = Append(ws, w)]
<1>1. CurrentRound(c) \in Round /\ head \in RoundSlots /\ c.rounds \in [RoundSlots -> Round]
  BY CurrentRoundType DEF CoordinatorType
<1>2. d = [c EXCEPT !.rounds = [c.rounds EXCEPT ![head] = round]]
  BY <1>1 DEF PushWitness, CurrentRound, CoordinatorType
<1>3. ws \in Seq(Witness)
  BY <1>1 DEF Round
<1>3a. Append(ws, w) \in Seq(Witness)
  BY <1>3, AppendProperties
<1>4. /\ round \in Round /\ round.witnesses = Append(ws, w)
      /\ round.height = CurrentRound(c).height
      /\ round.data_index = CurrentRound(c).data_index
      /\ round.random_seed = CurrentRound(c).random_seed
      /\ round.clients_len = CurrentRound(c).clients_len
  <2> DEFINE a == Append(ws, w)
  <2> HIDE DEF a
  <2>1. a \in Seq(Witness) /\ round = [CurrentRound(c) EXCEPT !.witnesses = a]
    BY <1>3a DEF a
  <2> HIDE DEF round
  <2>2. /\ round \in Round /\ round.witnesses = a
        /\ round.height = CurrentRound(c).height
        /\ round.data_index = CurrentRound(c).data_index
        /\ round.random_seed = CurrentRound(c).random_seed
        /\ round.clients_len = CurrentRound(c).clients_len
    BY <2>1, <1>1 DEF Round
  <2> QED
    BY <2>2 DEF a
<1> HIDE DEF d, round
<1>5. d \in CoordinatorType
  BY <1>1, <1>2, <1>4 DEF CoordinatorType
<1>6. /\ d.run_state = c.run_state /\ d.pending_pause = c.pending_pause
      /\ d.config = c.config /\ d.step = c.step
      /\ d.clients = c.clients /\ d.exited_clients = c.exited_clients
      /\ d.rounds = [c.rounds EXCEPT ![head] = round] /\ d.rounds_head = head
      /\ d.first_round = c.first_round /\ d.last_step = c.last_step
      /\ d.epoch_start_data_index = c.epoch_start_data_index
  BY <1>2 DEF CoordinatorType
<1>7. CurrentRound(d) = round
  BY <1>1, <1>6 DEF CurrentRound
<1>8. PreviousRound(d) = PreviousRound(c)
  <2>1. NumStoredRounds - 1 \in RoundSlots /\ NumStoredRounds - 1 # 0
    BY SizesAssumption DEF RoundSlots
  <2>2. head # 0 => head - 1 \in RoundSlots /\ head - 1 # head
    BY <1>1, SizesAssumption DEF RoundSlots
  <2> QED
    BY <2>1, <2>2, <1>1, <1>6 DEF PreviousRound
<1>9. CurrentRound(d) = [CurrentRound(c) EXCEPT !.witnesses = Append(ws, w)]
  BY <1>7 DEF round
<1> QED
  BY <1>4, <1>5, <1>6, <1>7, <1>8, <1>9 DEF d

\* An accepted witness is verified, and is the first one of its sender.
LEMMA WitnessGood ==
    ASSUME NEW c, CoordinatorInv(c), NEW w \in Witness, CanWitness(c, w)
    PROVE  GoodStep(c, WitnessEffect(c, w))
<1> DEFINE d == PushWitness(c, w)
           ws == CurrentRound(c).witnesses
           xs == CurrentRound(d).witnesses
<1>0. /\ c \in CoordinatorType /\ WitnessesVerified(c) /\ InRound(c)
      /\ CurrentRound(c) \in Round /\ RosterFits(c) /\ FollowsQuorum(c)
      /\ LastStepClose(c)
  BY CurrentRoundType DEF CoordinatorInv, CanWitness, InRound
<1>1. /\ d \in CoordinatorType
      /\ d.run_state = c.run_state /\ d.pending_pause = c.pending_pause
      /\ d.config = c.config /\ d.step = c.step
      /\ d.clients = c.clients /\ d.exited_clients = c.exited_clients
      /\ d.rounds_head = c.rounds_head /\ d.last_step = c.last_step
      /\ d.epoch_start_data_index = c.epoch_start_data_index
      /\ xs = Append(ws, w)
      /\ CurrentRound(d).height = CurrentRound(c).height
      /\ CurrentRound(d).data_index = CurrentRound(c).data_index
      /\ CurrentRound(d).random_seed = CurrentRound(c).random_seed
      /\ CurrentRound(d).clients_len = CurrentRound(c).clients_len
      /\ PreviousRound(d) = PreviousRound(c)
  BY <1>0, PushWitnessFacts
<1> HIDE DEF d
<1>2. /\ ws \in Seq(Witness) /\ Len(ws) \in Nat /\ DOMAIN ws = 1 .. Len(ws)
      /\ \A i \in DOMAIN ws : ws[i] \in Witness /\ ws[i].index \in Nat
  <2>1. ws \in Seq(Witness)
    BY <1>0 DEF Round
  <2> QED
    BY <2>1, WitnessOfList
<1>3. /\ Append(ws, w) \in Seq(Witness)
      /\ Len(Append(ws, w)) = Len(ws) + 1
      /\ \A i \in 1 .. Len(ws) : Append(ws, w)[i] = ws[i]
      /\ Append(ws, w)[Len(ws) + 1] = w
  BY <1>2, AppendProperties
<1>4. DOMAIN xs = 1 .. Len(ws) + 1 /\ Len(xs) = Len(ws) + 1
      /\ (\A i \in DOMAIN ws : xs[i] = ws[i]) /\ xs[Len(ws) + 1] = w
  <2>1. DOMAIN Append(ws, w) = 1 .. Len(Append(ws, w))
    BY <1>3, LenProperties
  <2> QED
    BY <1>1, <1>2, <1>3, <2>1
<1> HIDE DEF ws, xs
<1>5. \A i \in DOMAIN xs : i \in DOMAIN ws \/ i = Len(ws) + 1
  BY <1>2, <1>4
<1>6. \A v : VerifyWitness(d, v) <=> VerifyWitness(c, v)
  BY <1>1 DEF VerifyWitness, VerifyClient, IsWitnessPosition, Position
<1>7. /\ VerifyWitness(c, w)
      /\ \A i \in DOMAIN ws : ~VerifyClient(c, w.from, ws[i].index)
  BY DEF CanWitness, IsDuplicateWitness, ws
<1>8. /\ CurrentRound(c).clients_len = Len(c.clients)
      /\ \A i \in DOMAIN ws : VerifyWitness(c, ws[i])
      /\ \A i, j \in DOMAIN ws : ws[i].from = ws[j].from => i = j
  BY <1>0 DEF WitnessesVerified, ws
<1>9. \A i \in DOMAIN ws : ws[i].from # w.from
  BY <1>7, <1>8 DEF VerifyWitness
<1>10. WitnessesVerified(d)
  <2>1. \A i \in DOMAIN xs : VerifyWitness(d, xs[i])
    BY <1>4, <1>5, <1>6, <1>7, <1>8
  <2>2. \A i, j \in DOMAIN xs : xs[i].from = xs[j].from => i = j
    BY <1>4, <1>5, <1>8, <1>9
  <2> QED
    BY <2>1, <2>2, <1>1, <1>8 DEF WitnessesVerified, xs
<1>11. RosterFits(d) /\ FollowsQuorum(d)
  BY <1>0, <1>1, RosterFitsCarries, FollowsQuorumCarries DEF Active
<1>12. LastStepClose(d)
  BY <1>0, <1>1 DEF LastStepClose, LastStepSet, InRound
<1>13. LedgerStep(c, d)
  BY <1>1, LedgerStutter
<1>14. CASE Len(xs) = WitnessNodes(c) /\ c.run_state # "RoundWitness"
  <2>1. WitnessEffect(c, w) = ChangeState(d, "RoundWitness")
    BY <1>14 DEF WitnessEffect, d, xs
  <2>2. d.run_state = "RoundTrain"
    BY <1>0, <1>1, <1>14 DEF InRound
  <2>3. GoodStep(d, ChangeState(d, "RoundWitness"))
    BY <1>1, <1>10, <1>11, <1>12, <2>2, ToRoundWitness
  <2> DEFINE e == ChangeState(d, "RoundWitness")
  <2>4. e.run_state = "RoundWitness" /\ CurrentRound(e) = CurrentRound(d)
        /\ e.config = d.config /\ e.step = d.step
    <3>1. "RoundWitness" \in RunStates
      BY DEF RunStates
    <3> QED
      BY <3>1, <1>1, ChangeStateFacts
  <2> HIDE DEF e
  <2>5. LedgerStep(c, e)
    BY <2>2, <2>4, <1>1 DEF LedgerStep, LedgerIndex, InRound
  <2> QED
    BY <2>1, <2>3, <2>5 DEF GoodStep, e
<1>15. CASE ~(Len(xs) = WitnessNodes(c) /\ c.run_state # "RoundWitness")
  <2>1. WitnessEffect(c, w) = d
    BY <1>15 DEF WitnessEffect, d, xs
  <2>2. ShortOfWitnesses(d)
    <3>1. SUFFICES ASSUME d.run_state = "RoundTrain" PROVE Len(xs) < WitnessNodes(d)
      BY DEF ShortOfWitnesses, xs
    <3>2. WitnessNodes(d) = WitnessNodes(c) /\ WitnessNodes(c) \in Nat
      BY <1>0, <1>1, WitnessNodesType DEF WitnessNodes
    <3>3. Len(ws) < WitnessNodes(c)
      BY <3>1, <1>1 DEF CoordinatorInv, ShortOfWitnesses, ws
    <3>4. Len(xs) # WitnessNodes(c)
      BY <3>1, <1>1, <1>15
    <3> QED
      BY <3>2, <3>3, <3>4, <1>2, <1>4
  <2>3. PauseInEpoch(d) /\ WarmupIsFresh(d) /\ StepsRemain(d)
    BY <1>0, <1>1 DEF PauseInEpoch, Active, WarmupIsFresh, StepsRemain, InRound
  <2> QED
    BY <2>1, <2>2, <2>3, <1>1, <1>10, <1>11, <1>12, <1>13 DEF GoodStep, CoordinatorInv
<1> QED
  BY <1>14, <1>15

\* A step that changes fields no part of the invariant reads.
LEMMA CarriesInv ==
    ASSUME NEW c, CoordinatorInv(c), NEW d \in CoordinatorType,
           d.run_state = c.run_state, d.config = c.config, d.step = c.step,
           d.clients = c.clients, d.exited_clients = c.exited_clients,
           d.rounds = c.rounds, d.rounds_head = c.rounds_head,
           d.first_round = c.first_round, d.last_step = c.last_step,
           d.epoch_start_data_index = c.epoch_start_data_index,
           d.pending_pause => Active(c)
    PROVE  GoodStep(c, d)
<1>1. CurrentRound(d) = CurrentRound(c) /\ PreviousRound(d) = PreviousRound(c)
  BY DEF CurrentRound, PreviousRound
<1>2. \A v : VerifyWitness(d, v) <=> VerifyWitness(c, v)
  BY <1>1 DEF VerifyWitness, VerifyClient, IsWitnessPosition
<1>3. WitnessesVerified(d)
  BY <1>1, <1>2 DEF CoordinatorInv, WitnessesVerified, InRound
<1>4. RosterFits(d) /\ FollowsQuorum(d)
  BY <1>1, RosterFitsCarries, FollowsQuorumCarries DEF CoordinatorInv, Active
<1>5. ShortOfWitnesses(d)
  BY <1>1 DEF CoordinatorInv, ShortOfWitnesses, WitnessNodes
<1>6. PauseInEpoch(d) /\ LastStepClose(d) /\ WarmupIsFresh(d) /\ StepsRemain(d)
  BY <1>1 DEF CoordinatorInv, PauseInEpoch, Active, LastStepClose, LastStepSet,
       WarmupIsFresh, StepsRemain, InRound
<1>7. LedgerStep(c, d)
  BY <1>1, LedgerStutter
<1> QED
  BY <1>3, <1>4, <1>5, <1>6, <1>7 DEF GoodStep, CoordinatorInv

LEMMA TimePassesGood ==
    ASSUME NEW c, CoordinatorInv(c)
    PROVE  GoodStep(c, TimePasses(c))
<1> DEFINE d == TimePasses(c)
<1>1. c \in CoordinatorType /\ c.age \in Nat /\ c.epoch_age \in Nat
  BY DEF CoordinatorInv, CoordinatorType
<1>2. Older(c.age) \in Nat /\ Older(c.epoch_age) \in Nat
  BY <1>1 DEF Older
<1>3. d = [c EXCEPT !.age = Older(c.age), !.epoch_age = Older(c.epoch_age)]
  BY <1>1 DEF TimePasses, CoordinatorType
<1> HIDE DEF d
<1>4. d \in CoordinatorType
  BY <1>1, <1>2, <1>3 DEF CoordinatorType
<1>5. /\ d.run_state = c.run_state /\ d.config = c.config /\ d.step = c.step
      /\ d.clients = c.clients /\ d.exited_clients = c.exited_clients
      /\ d.rounds = c.rounds /\ d.rounds_head = c.rounds_head
      /\ d.first_round = c.first_round /\ d.last_step = c.last_step
      /\ d.epoch_start_data_index = c.epoch_start_data_index
      /\ d.pending_pause = c.pending_pause
  BY <1>1, <1>3 DEF CoordinatorType
<1>6. d.pending_pause => Active(c)
  BY <1>5 DEF CoordinatorInv, PauseInEpoch
<1> QED
  BY <1>4, <1>5, <1>6, CarriesInv DEF d

LEMMA CheckpointGood ==
    ASSUME NEW c, CoordinatorInv(c), NEW repo \in Repos
    PROVE  GoodStep(c, RecordCheckpoint(c, repo))
<1> DEFINE d == [c EXCEPT !.checkpoint.repo = repo]
           k == [c.checkpoint EXCEPT !.repo = repo]
<1>1. c \in CoordinatorType /\ c.checkpoint \in Checkpoint
  BY DEF CoordinatorInv, CoordinatorType
<1>2. k \in Checkpoint
  BY <1>1 DEF Checkpoint
<1>3. d = [c EXCEPT !.checkpoint = k]
  BY <1>1 DEF CoordinatorType
<1> HIDE DEF k, d
<1>4. d \in CoordinatorType
  BY <1>1, <1>2, <1>3 DEF CoordinatorType
<1>5. /\ d.run_state = c.run_state /\ d.config = c.config /\ d.step = c.step
      /\ d.clients = c.clients /\ d.exited_clients = c.exited_clients
      /\ d.rounds = c.rounds /\ d.rounds_head = c.rounds_head
      /\ d.first_round = c.first_round /\ d.last_step = c.last_step
      /\ d.epoch_start_data_index = c.epoch_start_data_index
      /\ d.pending_pause = c.pending_pause
  BY <1>1, <1>3 DEF CoordinatorType
<1>6. d.pending_pause => Active(c)
  BY <1>5 DEF CoordinatorInv, PauseInEpoch
<1>7. GoodStep(c, d)
  BY <1>4, <1>5, <1>6, CarriesInv
<1>8. RecordCheckpoint(c, repo) \in {c, d}
  BY DEF RecordCheckpoint, d
<1> QED
  BY <1>7, <1>8, UnchangedIsGood

\* A coordinator that is not active has no pending pause.
LEMMA NoPausePending ==
    ASSUME NEW c, CoordinatorInv(c), ~Active(c)
    PROVE  c.pending_pause = FALSE
<1>1. c.pending_pause \in BOOLEAN /\ PauseInEpoch(c)
  BY DEF CoordinatorInv, CoordinatorType
<1> QED
  BY <1>1 DEF PauseInEpoch

LEMMA PauseGood ==
    ASSUME NEW c, CoordinatorInv(c), CanPause(c)
    PROVE  GoodStep(c, Pause(c))
<1>0. c \in CoordinatorType /\ RosterFits(c) /\ FollowsQuorum(c)
  BY DEF CoordinatorInv
<1>1. CASE Active(c)
  <2> DEFINE d == [c EXCEPT !.pending_pause = TRUE]
  <2>1. /\ d \in CoordinatorType
        /\ d.run_state = c.run_state /\ d.config = c.config /\ d.step = c.step
        /\ d.clients = c.clients /\ d.exited_clients = c.exited_clients
        /\ d.rounds = c.rounds /\ d.rounds_head = c.rounds_head
        /\ d.first_round = c.first_round /\ d.last_step = c.last_step
        /\ d.epoch_start_data_index = c.epoch_start_data_index
    BY <1>0 DEF CoordinatorType
  <2> HIDE DEF d
  <2>2. GoodStep(c, d)
    BY <1>1, <2>1, CarriesInv
  <2> QED
    BY <1>1, <2>2 DEF Pause, d
<1>2. CASE ~Active(c)
  <2> DEFINE e == ChangeState(WithdrawAll(c), "Paused")
             d == [e EXCEPT !.pending_pause = FALSE, !.cold_start_epoch = TRUE]
  <2>1. c.pending_pause = FALSE
    BY <1>2, NoPausePending
  <2>2. e.pending_pause = FALSE /\ e \in CoordinatorType
    <3>1. SameClients(c, WithdrawAll(c))
      BY <1>0, WithdrawAllSameClients
    <3>2. WithdrawAll(c) \in CoordinatorType /\ WithdrawAll(c).pending_pause = FALSE
      BY <1>0, <2>1, <3>1 DEF SameClients, CoordinatorType
    <3>3. "Paused" \in RunStates
      BY DEF RunStates
    <3> QED
      BY <3>2, <3>3, ChangeStateFacts
  <2>3. Pause(c) = [e EXCEPT !.cold_start_epoch = TRUE]
    BY <1>2 DEF Pause
  <2> HIDE DEF e
  <2>4. Pause(c) = d
    BY <2>2, <2>3 DEF CoordinatorType
  <2>5. /\ CoordinatorInv(d)
        /\ d.run_state = "Paused" /\ d.config = c.config /\ d.step = c.step
        /\ d.epoch_start_data_index = c.epoch_start_data_index
    BY <1>0, ToPaused DEF e
  <2> HIDE DEF d
  <2>6. LedgerStep(c, d)
    BY <1>2, <2>5 DEF LedgerStep, LedgerIndex, InRound, Active
  <2> QED
    BY <2>4, <2>5, <2>6 DEF GoodStep
<1> QED
  BY <1>1, <1>2

LEMMA ResumeGood ==
    ASSUME NEW c, CoordinatorInv(c), CanResume(c)
    PROVE  GoodStep(c, Resume(c))
<1>0. c \in CoordinatorType /\ RosterFits(c) /\ FollowsQuorum(c) /\ c.run_state = "Paused"
  BY DEF CoordinatorInv, CanResume
<1>1. c.pending_pause = FALSE
  BY <1>0, NoPausePending DEF Active
<1> DEFINE d == StartWaitingForMembers(c)
<1>2. /\ CoordinatorInv(d) /\ d.config = c.config /\ d.step = c.step
      /\ d.run_state \in {"WaitingForMembers", "Finished"}
      /\ d.epoch_start_data_index = c.epoch_start_data_index
  BY <1>0, <1>1, StartWaitingForMembersInv
<1> HIDE DEF d
<1>3. LedgerStep(c, d)
  BY <1>0, <1>2 DEF LedgerStep, LedgerIndex, InRound
<1> QED
  BY <1>2, <1>3 DEF GoodStep, Resume, d

LEMMA WarmupWitnessGood ==
    ASSUME NEW c, CoordinatorInv(c), NEW w \in Witness, CanWarmupWitness(c, w),
           NEW seed \in Seeds
    PROVE  GoodStep(c, WarmupWitness(c, w, seed))
<1>1. CASE c.run_state = "RoundTrain"
  BY <1>1, UnchangedIsGood DEF WarmupWitness
<1>2. CASE c.run_state # "RoundTrain"
  <2> DEFINE b == PushWitness(c, w)
  <2>1. /\ c.run_state = "Warmup" /\ c \in CoordinatorType /\ RosterFits(c)
        /\ FollowsQuorum(c) /\ WarmupIsFresh(c) /\ StepsRemain(c) /\ PauseInEpoch(c)
    BY <1>2 DEF CoordinatorInv, CanWarmupWitness
  <2>2. /\ c.first_round /\ c.last_step = 0 /\ Len(c.clients) >= c.config.min_clients
        /\ CurrentRound(c).height = 0 /\ StepAllowed(c.config, c.step)
    BY <2>1 DEF WarmupIsFresh, StepsRemain
  <2>3. /\ b \in CoordinatorType
        /\ b.run_state = c.run_state /\ b.pending_pause = c.pending_pause
        /\ b.config = c.config /\ b.step = c.step
        /\ b.clients = c.clients /\ b.exited_clients = c.exited_clients
        /\ b.rounds_head = c.rounds_head
        /\ b.first_round = c.first_round /\ b.last_step = c.last_step
        /\ b.epoch_start_data_index = c.epoch_start_data_index
        /\ CurrentRound(b).height = CurrentRound(c).height
        /\ CurrentRound(b).data_index = CurrentRound(c).data_index
        /\ PreviousRound(b) = PreviousRound(c)
    BY <2>1, PushWitnessFacts
  <2> HIDE DEF b
  <2>4. RosterFits(b) /\ FollowsQuorum(b)
    BY <2>1, <2>3, RosterFitsCarries, FollowsQuorumCarries DEF Active
  <2>5. CASE WarmupWitness(c, w, seed) = b
    <3>1. PauseInEpoch(b) /\ WarmupIsFresh(b) /\ StepsRemain(b)
      BY <2>1, <2>2, <2>3 DEF PauseInEpoch, Active, WarmupIsFresh, StepsRemain
    <3>2. WitnessesVerified(b) /\ ShortOfWitnesses(b) /\ LastStepClose(b)
      BY <2>1, <2>3 DEF WitnessesVerified, ShortOfWitnesses, LastStepClose, InRound
    <3>3. LedgerStep(c, b)
      BY <2>3, LedgerStutter
    <3> QED
      BY <2>3, <2>4, <2>5, <3>1, <3>2, <3>3 DEF GoodStep, CoordinatorInv
  <2>6. CASE WarmupWitness(c, w, seed) = StartRoundTrain(b, seed)
    <3> DEFINE d == StartRoundTrain(b, seed)
    <3>1. LastStepSet(b) => b.step < b.last_step /\ b.last_step <= b.step + 2
      BY <2>2, <2>3 DEF LastStepSet
    <3>2. LET n == Len(CurrentRound(b).witnesses)
          IN  b.first_round \/ (n > 0 /\ n >= WitnessQuorum(b, n))
      BY <2>2, <2>3
    <3>3. Len(b.clients) >= b.config.min_clients
      BY <2>2, <2>3
    <3>4. /\ CoordinatorInv(d) /\ d.run_state = "RoundTrain"
          /\ d.config = b.config /\ d.step = b.step
          /\ CurrentRound(d).data_index =
                IF b.first_round THEN b.epoch_start_data_index
                ELSE NextDataIndex(b, CurrentRound(b))
      BY <2>3, <2>4, <3>1, <3>2, <3>3, StartRoundTrainInv
    <3> HIDE DEF d
    <3>5. LedgerStep(c, d)
      BY <2>1, <2>2, <2>3, <3>4 DEF LedgerStep, LedgerIndex, InRound
    <3> QED
      BY <2>6, <3>4, <3>5 DEF GoodStep, d
  <2> QED
    BY <1>2, <2>5, <2>6 DEF WarmupWitness, b
<1> QED
  BY <1>1, <1>2

\* A coordinator that has not run yet satisfies the invariant.
LEMMA FreshInv ==
    ASSUME NEW g \in Configs, NEW ckpt \in Checkpoint,
           NEW state \in {"WaitingForMembers", "Uninitialized", "Paused"}
    PROVE  CoordinatorInv(FreshCoordinator(g, ckpt, state))
<1> DEFINE c == FreshCoordinator(g, ckpt, state)
           zero == [r \in RoundSlots |-> ZeroRound]
<1>1. 0 \in RoundSlots /\ 0 \in Seeds
  BY SizesAssumption DEF RoundSlots
<1>2. <<>> \in Seq(Client) /\ <<>> \in Seq(Witness)
  OBVIOUS
<1>3. ZeroRound \in Round /\ ZeroRound.height = 0
  BY <1>1, <1>2 DEF ZeroRound, Round
<1>4. zero \in [RoundSlots -> Round] /\ zero[0] = ZeroRound
  BY <1>1, <1>3
<1>5. /\ c.run_state = state /\ c.pending_pause = FALSE
      /\ c.config = g /\ c.step = 1 /\ c.clients = <<>> /\ c.exited_clients = <<>>
      /\ c.rounds = zero /\ c.rounds_head = 0
  BY DEF FreshCoordinator
<1>6. c \in CoordinatorType
  BY <1>1, <1>2, <1>4 DEF FreshCoordinator, CoordinatorType, RunStates
<1> HIDE DEF c, zero
<1>7. CurrentRound(c).height = 0
  BY <1>3, <1>4, <1>5 DEF CurrentRound
<1>8. FollowsQuorum(c)
  BY <1>7 DEF FollowsQuorum
<1>9. RosterFits(c)
  <2>1. EachListedOnce(c)
    BY <1>5 DEF EachListedOnce
  <2>2. Len(c.clients) = 0 /\ Len(c.exited_clients) = 0
    BY <1>5
  <2> QED
    BY <2>1, <2>2, SizesAssumption DEF RosterFits
<1>10. PauseInEpoch(c) /\ StepsRemain(c)
  BY <1>5 DEF PauseInEpoch, StepsRemain, StepAllowed
<1> QED
  BY <1>5, <1>6, <1>8, <1>9, <1>10, IdleInv DEF c

\* An update of a halted coordinator, whatever becomes of its configuration,
\* progress and checkpoint.
LEMMA HaltedUpdateInv ==
    ASSUME NEW c, CoordinatorInv(c), NEW d \in CoordinatorType,
           Halted(c), Halted(d), d.pending_pause = c.pending_pause,
           d.clients = c.clients, d.exited_clients = c.exited_clients,
           d.rounds = c.rounds, d.rounds_head = c.rounds_head
    PROVE  CoordinatorInv(d)
<1>1. ~Active(c) /\ ~Active(d)
  BY DEF Active, Halted
<1>2. CurrentRound(d) = CurrentRound(c) /\ PreviousRound(d) = PreviousRound(c)
  BY DEF CurrentRound, PreviousRound
<1>3. RosterFits(d) /\ PauseInEpoch(d)
  BY <1>1, RosterFitsCarries DEF CoordinatorInv, PauseInEpoch
<1>4. FollowsQuorum(d)
  BY <1>1, <1>2 DEF CoordinatorInv, FollowsQuorum, HasPreviousRound
<1>5. StepsRemain(d)
  BY DEF StepsRemain, Halted
<1> QED
  BY <1>3, <1>4, <1>5, IdleInv DEF Halted


-----------------------------------------------------------------------------
(* What the methods do to the list of clients: it keeps its order, and clients *)
(* only leave until the next epoch.                                            *)

\* The clients of list are clients of registry, in the same order.
Within(list, registry) ==
    \E f \in [DOMAIN list -> DOMAIN registry] :
       /\ \A i \in DOMAIN f : registry[f[i]].id = list[i].id
       /\ \A i, j \in DOMAIN f : i < j => f[i] < f[j]

\* A list whose identities stand at the same places in another one.
LEMMA WithinPrefix ==
    ASSUME NEW a, NEW b, DOMAIN a \subseteq DOMAIN b,
           \A i \in DOMAIN a : b[i].id = a[i].id
    PROVE  Within(a, b)
<1> DEFINE f == [i \in DOMAIN a |-> i]
<1>1. f \in [DOMAIN a -> DOMAIN b]
  OBVIOUS
<1>2. \A i \in DOMAIN f : b[f[i]].id = a[i].id
  OBVIOUS
<1>3. \A i, j \in DOMAIN f : i < j => f[i] < f[j]
  OBVIOUS
<1> HIDE DEF f
<1> QED
  BY <1>1, <1>2, <1>3 DEF Within

\* Being in order goes from one list to the next.
LEMMA WithinTransitive ==
    ASSUME NEW a, NEW b, NEW c, Within(a, b), Within(b, c)
    PROVE  Within(a, c)
<1>1. PICK f \in [DOMAIN a -> DOMAIN b] :
         /\ \A i \in DOMAIN f : b[f[i]].id = a[i].id
         /\ \A i, j \in DOMAIN f : i < j => f[i] < f[j]
  BY DEF Within
<1>2. PICK g \in [DOMAIN b -> DOMAIN c] :
         /\ \A i \in DOMAIN g : c[g[i]].id = b[i].id
         /\ \A i, j \in DOMAIN g : i < j => g[i] < g[j]
  BY DEF Within
<1> DEFINE h == [i \in DOMAIN a |-> g[f[i]]]
<1>3. h \in [DOMAIN a -> DOMAIN c]
  BY <1>1, <1>2
<1>4. \A i \in DOMAIN h : c[h[i]].id = a[i].id
  BY <1>1, <1>2
<1>5. \A i, j \in DOMAIN h : i < j => h[i] < h[j]
  BY <1>1, <1>2
<1> HIDE DEF h
<1> QED
  BY <1>3, <1>4, <1>5 DEF Within

\* retain leaves the order alone.
LEMMA WithinRetained ==
    ASSUME NEW S, NEW s \in Seq(S), NEW K \in SUBSET (DOMAIN s)
    PROVE  Within(Retain(s, K), s)
<1> DEFINE r == Retain(s, K)
           f == [i \in DOMAIN r |-> Nth(K, i)]
<1>1. /\ DOMAIN r = 1 .. Cardinality(K)
      /\ \A i \in 1 .. Cardinality(K) : Nth(K, i) \in K /\ r[i] = s[Nth(K, i)]
      /\ \A i, j \in 1 .. Cardinality(K) : i < j => Nth(K, i) < Nth(K, j)
  BY RetainProperties
<1> HIDE DEF r
<1>2. f \in [DOMAIN r -> DOMAIN s]
  BY <1>1
<1>3. \A i \in DOMAIN f : s[f[i]].id = r[i].id
  BY <1>1
<1>4. \A i, j \in DOMAIN f : i < j => f[i] < f[j]
  BY <1>1
<1> HIDE DEF f
<1>5. Within(r, s)
  BY <1>2, <1>3, <1>4 DEF Within
<1> QED
  BY <1>5 DEF r

\* Who is in a list that stands in order in another one is in that one.
LEMMA WithinMembers ==
    ASSUME NEW a, NEW b, Within(a, b), NEW i \in DOMAIN a
    PROVE  \E j \in DOMAIN b : b[j].id = a[i].id
  BY DEF Within

\* How many positions a vector has.
LEMMA CountedInterval ==
    ASSUME NEW n \in Nat
    PROVE  Cardinality(1 .. n) = n
<1>1. 1 \in Int /\ n \in Int
  OBVIOUS
<1>2. Cardinality(1 .. n) = IF 1 > n THEN 0 ELSE n - 1 + 1
  BY <1>1, FS_Interval, Zenon
<1> QED
  BY <1>2

\* The methods that change states of clients only.
LEMMA SameClientsWithin ==
    ASSUME NEW c \in CoordinatorType, NEW d, SameClients(c, d)
    PROVE  /\ Within(d.clients, c.clients)
           /\ d.run_state = c.run_state /\ d.first_round = c.first_round /\ d.age = c.age
<1>1. /\ DOMAIN d.clients = DOMAIN c.clients
      /\ \A i \in DOMAIN d.clients : c.clients[i].id = d.clients[i].id
  BY ClientOfList DEF SameClients
<1>2. d.run_state = c.run_state /\ d.first_round = c.first_round /\ d.age = c.age
  BY DEF SameClients, CoordinatorType
<1> QED
  BY <1>1, <1>2, WithinPrefix

\* What the private steps of tick do to the clients and the run state.
LEMMA StartsKeepClients ==
    ASSUME NEW c \in CoordinatorType, NEW seed
    PROVE  /\ StartRoundTrain(c, seed).clients = c.clients
           /\ StartRoundTrain(c, seed).run_state = "RoundTrain"
           /\ StartRoundTrain(c, seed).first_round = c.first_round
           /\ StartRoundTrain(c, seed).age = 0
           /\ StartRoundTrain(c, seed).epoch = c.epoch
           /\ StartCooldown(c).clients = c.clients
           /\ StartCooldown(c).run_state = "Cooldown"
           /\ StartWaitingForMembers(c).clients = c.clients
           /\ StartWaitingForMembers(c).run_state \in {"WaitingForMembers", "Finished"}
           /\ StartWaitingForMembers(c).age = 0 /\ StartWaitingForMembers(c).epoch = c.epoch
           /\ StartWaitingForMembers(c).epoch = c.epoch
<1> DEFINE Fields(d) == /\ d.clients = c.clients /\ d.first_round = c.first_round
                        /\ d.epoch = c.epoch
<1>1. \A state : LET d == ChangeState(c, state)
                 IN  Fields(d) /\ d.run_state = state /\ d.age = 0
  BY DEF ChangeState, CoordinatorType
<1>2. \A rounds, state :
         LET d == ChangeState([c EXCEPT !.rounds = rounds], state)
         IN  Fields(d) /\ d.run_state = state /\ d.age = 0
  BY DEF ChangeState, CoordinatorType
<1>3. \E rounds, head :
         StartRoundTrain(c, seed)
           = ChangeState([c EXCEPT !.rounds = rounds, !.rounds_head = head], "RoundTrain")
  <2> DEFINE prev == CurrentRound(c)
             head == IF c.first_round THEN 0 ELSE (c.rounds_head + 1) % NumStoredRounds
             round == [witnesses |-> <<>>,
                       data_index |-> IF c.first_round THEN c.epoch_start_data_index
                                      ELSE NextDataIndex(c, prev),
                       random_seed |-> seed,
                       height |-> IF c.first_round THEN 0 ELSE prev.height + 1,
                       clients_len |-> Len(c.clients)]
  <2>1. StartRoundTrain(c, seed)
          = ChangeState([c EXCEPT !.rounds[head] = round, !.rounds_head = head], "RoundTrain")
    BY DEF StartRoundTrain
  <2> HIDE DEF head, round
  <2>2. [c EXCEPT !.rounds[head] = round, !.rounds_head = head]
          = [c EXCEPT !.rounds = [c.rounds EXCEPT ![head] = round], !.rounds_head = head]
    BY DEF CoordinatorType
  <2> QED
    BY <2>1, <2>2
<1>4. \E rounds : StartCooldown(c) = ChangeState([c EXCEPT !.rounds = rounds], "Cooldown")
  BY DEF StartCooldown, CoordinatorType
<1>5. StartWaitingForMembers(c) = ChangeState(c, "WaitingForMembers")
        \/ StartWaitingForMembers(c) = ChangeState(c, "Finished")
  BY DEF StartWaitingForMembers
<1>6. Fields(StartRoundTrain(c, seed)) /\ StartRoundTrain(c, seed).run_state = "RoundTrain"
        /\ StartRoundTrain(c, seed).age = 0
  <2>1. PICK rounds, head :
           StartRoundTrain(c, seed)
             = ChangeState([c EXCEPT !.rounds = rounds, !.rounds_head = head], "RoundTrain")
    BY <1>3
  <2>2. LET d == ChangeState([c EXCEPT !.rounds = rounds, !.rounds_head = head], "RoundTrain")
        IN  Fields(d) /\ d.run_state = "RoundTrain" /\ d.age = 0
    BY DEF ChangeState, CoordinatorType
  <2> QED
    BY <2>1, <2>2
<1>7. StartCooldown(c).clients = c.clients /\ StartCooldown(c).run_state = "Cooldown"
  BY <1>2, <1>4
<1>8. /\ StartWaitingForMembers(c).clients = c.clients
      /\ StartWaitingForMembers(c).run_state \in {"WaitingForMembers", "Finished"}
      /\ StartWaitingForMembers(c).age = 0 /\ StartWaitingForMembers(c).epoch = c.epoch
  BY <1>1, <1>5
<1> QED
  BY <1>6, <1>7, <1>8

\* The first round of an epoch, before time has passed.
JustStarted(c) == c.run_state = "RoundTrain" /\ c.first_round /\ c.age = 0

LEMMA PushWitnessEpoch ==
    ASSUME NEW c \in CoordinatorType, NEW w
    PROVE  PushWitness(c, w).epoch = c.epoch
  BY DEF PushWitness, CoordinatorType

\* Clients that leave do not change the order of those that stay.
LEMMA MovedWithin ==
    ASSUME NEW c \in CoordinatorType, NEW height \in Nat
    PROVE  LET m == MoveClientsToExited(c, height)
           IN  /\ m \in CoordinatorType /\ Within(m.clients, c.clients)
               /\ m.run_state = c.run_state /\ m.first_round = c.first_round
               /\ \A k \in DOMAIN m.clients : m.clients[k].state = "Healthy"
               /\ (\A k \in DOMAIN c.clients : c.clients[k].state = "Healthy")
                    => Len(m.clients) = Len(c.clients)
<1> DEFINE m == MoveClientsToExited(c, height)
           H == {i \in DOMAIN c.clients : c.clients[i].state = "Healthy"}
<1>0. Len(c.clients) \in Nat /\ DOMAIN c.clients = 1 .. Len(c.clients)
  BY SMTT(30), ClientOfList
<1>1. m \in CoordinatorType /\ m = [c EXCEPT !.clients = m.clients, !.exited_clients = m.exited_clients]
  BY MoveClientsFacts
<1>2. m.clients = Retain(c.clients, H)
  BY DEF MoveClientsToExited, CoordinatorType
<1> HIDE DEF m
<1>3. m.run_state = c.run_state /\ m.first_round = c.first_round
  BY <1>1 DEF CoordinatorType
<1>4. c.clients \in Seq(Client) /\ H \in SUBSET (DOMAIN c.clients)
  BY ClientOfList
<1>10. (\A k \in DOMAIN c.clients : c.clients[k].state = "Healthy") => H = 1 .. Len(c.clients)
  BY <1>0
<1> HIDE DEF H
<1>5. Within(m.clients, c.clients)
  BY <1>2, <1>4, WithinRetained
<1>6. \A k \in DOMAIN m.clients : m.clients[k].state = "Healthy"
  BY MoveClientsFacts DEF m
<1>7. Len(m.clients) = Cardinality(H)
  BY <1>2, <1>4, RetainProperties
<1>8. Cardinality(1 .. Len(c.clients)) = Len(c.clients)
  BY <1>0, CountedInterval
<1>9. (\A k \in DOMAIN c.clients : c.clients[k].state = "Healthy")
        => Len(m.clients) = Len(c.clients)
  BY <1>10, <1>7, <1>8
<1> QED
  BY <1>1, <1>3, <1>5, <1>6, <1>9 DEF m

\* The end of a cooldown: the healthy clients stay, and are the finishers of
\* the epoch unless a pause withdraws them.
LEMMA CooldownEnds ==
    ASSUME NEW c, CoordinatorInv(c), c.run_state = "Cooldown",
           CheckTimeout(c, c.config.cooldown_time)
    PROVE  LET t == TickCooldown(c)
           IN  /\ Within(t.st.clients, c.clients)
               /\ t.result = "EpochEnd"
               /\ t.st.run_state \in {"WaitingForMembers", "Finished", "Paused"}
               /\ t.st.epoch = c.epoch + 1
               /\ \/ \A i \in DOMAIN t.st.clients : t.st.clients[i].state = "Healthy"
                  \/ \A i \in DOMAIN t.st.clients : t.st.clients[i].state = "Withdrawn"
<1>0. c \in CoordinatorType /\ CurrentRound(c) \in Round /\ CurrentRound(c).height \in Nat
  BY CurrentRoundType DEF CoordinatorInv, Round
<1> DEFINE index == NextDataIndex(c, CurrentRound(c))
           kind == IF c.checkpoint.kind \in {"Hub", "Dummy"} THEN "P2P" ELSE c.checkpoint.kind
           ckpt == [c.checkpoint EXCEPT !.kind = kind]
           e == [c EXCEPT !.epoch_start_data_index = index, !.epoch = c.epoch + 1,
                          !.checkpoint = ckpt]
           moved == MoveClientsToExited(e, CurrentRound(c).height)
           w == WithdrawAll(moved)
           p == [ChangeState(w, "Paused") EXCEPT !.pending_pause = FALSE,
                                                 !.cold_start_epoch = TRUE]
           s == StartWaitingForMembers(moved)
           q == [s EXCEPT !.cold_start_epoch = FALSE]
           d == IF c.pending_pause THEN p ELSE q
<1>1. TickCooldown(c) = [st |-> d, result |-> "EpochEnd"]
  <2>1. e = [c EXCEPT !.epoch_start_data_index = NextDataIndex(c, CurrentRound(c)),
                      !.epoch = @ + 1,
                      !.checkpoint.kind = IF @ \in {"Hub", "Dummy"} THEN "P2P" ELSE @]
    BY <1>0 DEF CoordinatorType, Checkpoint
  <2> HIDE DEF e
  <2> QED
    BY <2>1 DEF TickCooldown
<1>2. index \in Nat /\ c.epoch \in Nat /\ ckpt \in Checkpoint
  BY <1>0, NextDataIndexType DEF CoordinatorType, Checkpoint
<1> HIDE DEF index, ckpt
<1>3. e \in CoordinatorType /\ e.clients = c.clients /\ e.epoch = c.epoch + 1
  <2>1. \A k \in Nat :
           LET x == [c EXCEPT !.epoch_start_data_index = index, !.epoch = k, !.checkpoint = ckpt]
           IN  x \in CoordinatorType /\ x.clients = c.clients /\ x.epoch = k
    BY <1>0, <1>2 DEF CoordinatorType
  <2>2. c.epoch + 1 \in Nat
    BY <1>2
  <2> QED
    BY <2>1, <2>2
<1> HIDE DEF e
<1>4. /\ moved \in CoordinatorType /\ Within(moved.clients, c.clients)
      /\ \A i \in DOMAIN moved.clients : moved.clients[i].state = "Healthy"
  BY <1>0, <1>3, MovedWithin, MoveClientsFacts
<1>5. moved.epoch = c.epoch + 1
  <2>1. moved = [e EXCEPT !.clients = moved.clients, !.exited_clients = moved.exited_clients]
    BY <1>0, <1>3, MoveClientsFacts
  <2> QED
    BY <1>3, <2>1 DEF CoordinatorType
<1> HIDE DEF moved
<1>6. /\ w \in CoordinatorType /\ Within(w.clients, moved.clients) /\ w.epoch = moved.epoch
      /\ w.clients = [i \in DOMAIN moved.clients |->
                        IF \A j \in 1 .. i : moved.clients[j].state = "Healthy"
                        THEN [moved.clients[i] EXCEPT !.state = "Withdrawn"]
                        ELSE moved.clients[i]]
  <2>1. SameClients(moved, w)
    BY <1>4, WithdrawAllSameClients
  <2>2. w \in CoordinatorType /\ w.epoch = moved.epoch
    BY <1>4, <2>1 DEF SameClients, CoordinatorType
  <2> QED
    BY <1>4, <2>1, <2>2, SameClientsWithin DEF WithdrawAll, CoordinatorType
<1>7. \A i \in DOMAIN w.clients : w.clients[i].state = "Withdrawn"
  <2>1. /\ DOMAIN w.clients = DOMAIN moved.clients
        /\ DOMAIN moved.clients = 1 .. Len(moved.clients) /\ Len(moved.clients) \in Nat
        /\ \A i \in DOMAIN moved.clients : moved.clients[i] \in Client
    BY <1>4, <1>6, ClientOfList
  <2> SUFFICES ASSUME NEW i \in DOMAIN moved.clients PROVE w.clients[i].state = "Withdrawn"
    BY <2>1
  <2>2. \A j \in 1 .. i : moved.clients[j].state = "Healthy"
    BY <1>4, <2>1
  <2>3. w.clients[i] = [moved.clients[i] EXCEPT !.state = "Withdrawn"]
    BY <1>6, <2>2
  <2> QED
    BY <2>1, <2>3 DEF Client
<1> HIDE DEF w
<1>8. p.clients = w.clients /\ p.run_state = "Paused" /\ p.epoch = w.epoch
  BY <1>6 DEF ChangeState, CoordinatorType
<1>9. /\ q.clients = moved.clients /\ q.run_state \in {"WaitingForMembers", "Finished"}
      /\ q.epoch = moved.epoch
  BY <1>4 DEF StartWaitingForMembers, ChangeState, CoordinatorType
<1> HIDE DEF p, q
<1>10. Within(w.clients, c.clients)
  BY <1>4, <1>6, WithinTransitive
<1>11. CASE c.pending_pause
  <2>1. d = p
    BY <1>11
  <2>2. /\ d.clients = w.clients /\ d.run_state = "Paused" /\ d.epoch = c.epoch + 1
        /\ TickCooldown(c).st = d /\ TickCooldown(c).result = "EpochEnd"
    BY <1>1, <1>5, <1>6, <1>8, <2>1
  <2> HIDE DEF d
  <2>3. \A i \in DOMAIN d.clients : d.clients[i].state = "Withdrawn"
    BY <1>7, <2>2
  <2> QED
    BY <1>10, <2>2, <2>3
<1>12. CASE ~c.pending_pause
  BY <1>1, <1>4, <1>5, <1>9, <1>12
<1> QED
  BY <1>11, <1>12

\* A tick of a coordinator that waits for members: it waits on, or admits the
\* pending clients once it has waited for some time.
LEMMA WaitingMoves ==
    ASSUME NEW c \in CoordinatorType, c.run_state = "WaitingForMembers",
           NEW pending, NEW seed
    PROVE  LET t == Tick(c, pending, seed)
           IN  /\ t.result = "Ticked"
               /\ \/ t.st = c
                  \/ /\ c.age # 0
                     /\ t.st.run_state = "Warmup" /\ t.st.first_round
                     /\ t.st.clients = [i \in DOMAIN Admitted(pending) |->
                                          NewClient(Admitted(pending)[i])]
<1> DEFINE list == [i \in DOMAIN Admitted(pending) |-> NewClient(Admitted(pending)[i])]
           begins == /\ Len(pending) >= c.config.init_min_clients
                     /\ CheckTimeout(c, c.config.waiting_for_members_extra_time)
           moved == MoveClientsToExited(c, CurrentRound(c).height)
           k == CheckpointForEpoch(c, moved.clients, pending)
           zero == [r \in RoundSlots |-> ZeroRound]
           e == [c EXCEPT !.checkpoint = k, !.rounds = zero, !.rounds_head = 0,
                          !.exited_clients = <<>>, !.last_step = 0,
                          !.first_round = TRUE, !.start_step = c.step,
                          !.epoch_age = 0, !.clients = list]
<1>1. Tick(c, pending, seed)
        = IF begins THEN Ticked(ChangeState(e, "Warmup")) ELSE Ticked(c)
  <2>1. Tick(c, pending, seed) = TickWaitingForMembers(c, pending)
    BY DEF Tick
  <2> QED
    BY <2>1 DEF TickWaitingForMembers
<1>2. begins => c.age # 0
  BY DEF CheckTimeout
<1> HIDE DEF begins, list, k, zero
<1>3. LET d == ChangeState(e, "Warmup")
      IN  d.run_state = "Warmup" /\ d.first_round /\ d.clients = list
  BY DEF ChangeState, CoordinatorType
<1> HIDE DEF e
<1>4. \A d : Ticked(d).st = d /\ Ticked(d).result = "Ticked"
  BY DEF Ticked
<1> QED
  BY <1>1, <1>2, <1>3, <1>4 DEF list

\* A tick of a warmup: it goes on, trains the first round or is abandoned.
LEMMA WarmupMoves ==
    ASSUME NEW c, CoordinatorInv(c), c.run_state = "Warmup", NEW pending, NEW seed
    PROVE  LET t == Tick(c, pending, seed)
           IN  /\ Within(t.st.clients, c.clients)
               /\ \/ /\ t.result = "Ticked" /\ t.st.first_round
                     /\ t.st.run_state \in {"Warmup", "RoundTrain"}
                  \/ /\ t.result = "EpochAbandoned"
                     /\ t.st.run_state \in {"WaitingForMembers", "Finished"}
               /\ t.st.run_state = "Warmup" =>
                    \A i \in DOMAIN t.st.clients : t.st.clients[i].state = "Healthy"
               /\ (\A i \in DOMAIN c.clients : c.clients[i].state = "Healthy")
                    => t.result = "Ticked"
<1>0. c \in CoordinatorType /\ c.first_round /\ Len(c.clients) >= c.config.min_clients
  BY DEF CoordinatorInv, WarmupIsFresh
<1>1. Tick(c, pending, seed) = TickWarmup(c, seed)
  BY DEF Tick
<1>2. CASE CheckTimeout(c, c.config.warmup_time)
  <2> DEFINE d == StartRoundTrain(c, seed)
  <2>1. d.clients = c.clients /\ d.run_state = "RoundTrain" /\ d.first_round
    BY <1>0, StartsKeepClients
  <2>2. Len(c.clients) \in Nat /\ c.config.min_clients \in Nat
    BY <1>0, ClientOfList, ConfigFacts DEF CoordinatorType
  <2> HIDE DEF d
  <2>3. TickWarmup(c, seed) = IF Len(d.clients) < c.config.min_clients
                              THEN [st |-> StartWaitingForMembers(d), result |-> "EpochAbandoned"]
                              ELSE Ticked(d)
    BY <1>2 DEF TickWarmup, d
  <2>4. TickWarmup(c, seed) = Ticked(d)
    BY <1>0, <2>1, <2>2, <2>3
  <2>5. Within(d.clients, c.clients)
    BY <2>1, WithinPrefix
  <2> QED
    BY <1>1, <2>1, <2>4, <2>5 DEF Ticked
<1>3. CASE ~CheckTimeout(c, c.config.warmup_time)
  <2> DEFINE m == MoveClientsToExited(c, 0)
             w == StartWaitingForMembers(m)
  <2>1. /\ m \in CoordinatorType /\ Within(m.clients, c.clients)
        /\ m.run_state = "Warmup" /\ m.first_round
        /\ \A i \in DOMAIN m.clients : m.clients[i].state = "Healthy"
        /\ (\A i \in DOMAIN c.clients : c.clients[i].state = "Healthy")
             => Len(m.clients) = Len(c.clients)
    BY <1>0, MovedWithin
  <2>2. TickWarmup(c, seed) = IF Len(m.clients) < c.config.min_clients
                              THEN [st |-> w, result |-> "EpochAbandoned"]
                              ELSE Ticked(m)
    BY <1>3 DEF TickWarmup
  <2> HIDE DEF m
  <2>3. w.clients = m.clients /\ w.run_state \in {"WaitingForMembers", "Finished"}
    BY <2>1, StartsKeepClients
  <2> HIDE DEF w
  <2>4. CASE Len(m.clients) < c.config.min_clients
    <3>1. ~(\A i \in DOMAIN c.clients : c.clients[i].state = "Healthy")
      <4>1. Len(c.clients) \in Nat /\ c.config.min_clients \in Nat
        BY <1>0, ClientOfList, ConfigFacts DEF CoordinatorType
      <4> QED
        BY <1>0, <2>1, <2>4, <4>1
    <3> QED
      BY <1>1, <2>1, <2>2, <2>3, <2>4, <3>1
  <2>5. CASE ~(Len(m.clients) < c.config.min_clients)
    BY <1>1, <2>1, <2>2, <2>5 DEF Ticked
  <2> QED
    BY <2>4, <2>5
<1> QED
  BY <1>2, <1>3

\* A tick in an epoch: clients only leave, and a round that has just started,
\* or a round of witnesses that has just started, stays.
LEMMA EpochMoves ==
    ASSUME NEW c, CoordinatorInv(c), Active(c), NEW pending, NEW seed
    PROVE  LET t == Tick(c, pending, seed)
           IN  /\ Within(t.st.clients, c.clients)
               /\ t.st.run_state # "Warmup"
               /\ c.run_state = "RoundTrain" /\ c.age = 0 => t.st = c /\ t.result = "Ticked"
               /\ c.run_state # "Cooldown" => t.result = "Ticked"
               /\ c.run_state = "Cooldown" =>
                    \/ t.st = c /\ t.result = "Ticked"
                    \/ CheckTimeout(c, c.config.cooldown_time) /\ t = TickCooldown(c)
<1>0. c \in CoordinatorType /\ CurrentRound(c) \in Round /\ CurrentRound(c).height \in Nat
  BY CurrentRoundType DEF CoordinatorInv, Round
<1>a. Within(c.clients, c.clients)
  BY WithinPrefix
<1>1. CASE c.run_state = "RoundTrain"
  <2>1. Tick(c, pending, seed) = TickRoundTrain(c)
    BY <1>1 DEF Tick
  <2>2. CASE CheckTimeout(c, c.config.max_round_train_time)
    <3> DEFINE d == ChangeState(c, "RoundWitness")
    <3>1. d.clients = c.clients /\ d.run_state = "RoundWitness" /\ c.age # 0
      BY <1>0, <2>2 DEF ChangeState, CoordinatorType, CheckTimeout
    <3>2. Tick(c, pending, seed) = [st |-> d, result |-> "Ticked"]
      BY <2>1, <2>2 DEF TickRoundTrain, Ticked
    <3> HIDE DEF d
    <3> QED
      BY <1>1, <1>a, <3>1, <3>2
  <2>3. CASE ~CheckTimeout(c, c.config.max_round_train_time)
    BY <1>1, <1>a, <2>1, <2>3 DEF TickRoundTrain, Ticked
  <2> QED
    BY <2>2, <2>3
<1>2. CASE c.run_state = "RoundWitness"
  <2>1. Tick(c, pending, seed) = TickRoundWitness(c, seed)
    BY <1>2 DEF Tick
  <2>2. CASE ~CheckTimeout(c, c.config.round_witness_time)
    BY <1>2, <1>a, <2>1, <2>2 DEF TickRoundWitness, Ticked
  <2>3. CASE CheckTimeout(c, c.config.round_witness_time)
    <3> DEFINE e == [c EXCEPT !.first_round = FALSE, !.step = c.step + 1]
               moved == MoveClientsToExited(e, CurrentRound(c).height)
               next == SetLastStep(moved)
               w == WithdrawAll(moved)
               n == Len(CurrentRound(c).witnesses)
               d == IF n = 0 THEN StartCooldown(w)
                    ELSE IF EpochMustEnd(next, n) THEN StartCooldown(next)
                    ELSE StartRoundTrain(next, seed)
    <3>1. TickRoundWitness(c, seed) = Ticked(d)
      <4>1. e = [c EXCEPT !.first_round = FALSE, !.step = @ + 1]
        BY <1>0 DEF CoordinatorType
      <4> HIDE DEF e
      <4> QED
        BY <2>3, <4>1 DEF TickRoundWitness
    <3>2. e \in CoordinatorType /\ e.clients = c.clients
      <4>1. \A k \in Nat :
               LET x == [c EXCEPT !.first_round = FALSE, !.step = k]
               IN  x \in CoordinatorType /\ x.clients = c.clients
        BY <1>0 DEF CoordinatorType
      <4>2. c.step + 1 \in Nat
        BY <1>0 DEF CoordinatorType
      <4> QED
        BY <4>1, <4>2
    <3> HIDE DEF e
    <3>3. moved \in CoordinatorType /\ Within(moved.clients, c.clients)
      BY <1>0, <3>2, MovedWithin
    <3> HIDE DEF moved
    <3>4. next \in CoordinatorType /\ next.clients = moved.clients
      BY <3>3, SetLastStepFacts
    <3>5. w \in CoordinatorType /\ Within(w.clients, moved.clients)
      <4>1. SameClients(moved, w)
        BY <3>3, WithdrawAllSameClients
      <4>2. w \in CoordinatorType
        BY <3>3, <4>1 DEF SameClients, CoordinatorType
      <4> QED
        BY <3>3, <4>1, <4>2, SameClientsWithin
    <3> HIDE DEF next, w, n
    <3>6. Within(w.clients, c.clients) /\ Within(next.clients, c.clients)
      BY <3>3, <3>4, <3>5, WithinTransitive
    <3>7. /\ StartCooldown(w).clients = w.clients /\ StartCooldown(w).run_state = "Cooldown"
          /\ StartCooldown(next).clients = next.clients
          /\ StartCooldown(next).run_state = "Cooldown"
          /\ StartRoundTrain(next, seed).clients = next.clients
          /\ StartRoundTrain(next, seed).run_state = "RoundTrain"
      BY <3>4, <3>5, StartsKeepClients
    <3>8. Within(d.clients, c.clients) /\ d.run_state # "Warmup"
      BY <3>6, <3>7
    <3> HIDE DEF d
    <3> QED
      BY <1>2, <2>1, <3>1, <3>8 DEF Ticked
  <2> QED
    BY <2>2, <2>3
<1>3. CASE c.run_state = "Cooldown"
  <2>1. Tick(c, pending, seed) = TickCooldown(c)
    BY <1>3 DEF Tick
  <2>2. CASE ~CheckTimeout(c, c.config.cooldown_time)
    BY <1>3, <1>a, <2>1, <2>2 DEF TickCooldown, Ticked
  <2>3. CASE CheckTimeout(c, c.config.cooldown_time)
    <3>1. LET t == TickCooldown(c)
          IN  Within(t.st.clients, c.clients) /\ t.st.run_state # "Warmup"
      BY <1>3, <2>3, CooldownEnds
    <3> QED
      BY <1>3, <2>1, <2>3, <3>1
  <2> QED
    BY <2>2, <2>3
<1> QED
  BY <1>1, <1>2, <1>3 DEF Active
=============================================================================
