---------------------------- MODULE TasksProofs ----------------------------
(***************************************************************************)
(* What the tasks and the algorithms of a run do, proved for every value   *)
(* of their constants: the indices of an evaluation are handed out once    *)
(* and come back (EvaluationsCorrect), the ranks of a model stay in step   *)
(* at their barrier (ThreadsStayInStep), the run manager runs the newest   *)
(* image it may (ManagerSafety), the loop of FixedVec::retain leaves the   *)
(* vector that it should (SlotsCorrect), everyone and every sample has one *)
(* place in a round (SelectionCorrect), a batch is dealt to the trainers   *)
(* of a client without loss (TrainBatchCorrect) and the learning rates     *)
(* follow their schedules (LearningRateCorrect).                           *)
(***************************************************************************)
EXTENDS ModelTasks, LocalTrainer, RunManager, FixedVecSlots, DataSelection,
        TrainBatch, DataProofs, Integers, FiniteSets, FiniteSetTheorems

-----------------------------------------------------------------------------
(* The evaluations. *)

\* The trainers that are in a run of the evaluation task.
Evaluating == {t \in EvalTrainers : worker[t].at = "eval"}

\* Two positions that one trainer never gets to from the other.
Apart(d, e) == \A k \in Int : d # e + k * NumEvalTrainers

\* A trainer gets from position e to position d.
Behind(e, d) == \E k \in Nat \ {0} : d = e + k * NumEvalTrainers

\* Every position that is held, in next_indices or by a trainer, is of a class of its own.
HeldApart ==
  /\ \A i, j \in 1 .. Len(indices) : i # j => Apart(indices[i], indices[j])
  /\ \A t \in Evaluating, i \in 1 .. Len(indices) : Apart(worker[t].doc, indices[i])
  /\ \A t, u \in Evaluating : t # u => Apart(worker[t].doc, worker[u].doc)

\* What was evaluated is behind a position that is held.
EvaluatedBehind ==
  \A n \in 1 .. Len(evaluated) :
    \/ \E i \in 1 .. Len(indices) : Behind(evaluated[n], indices[i])
    \/ \E t \in Evaluating : Behind(evaluated[n], worker[t].doc)

\* No index is lost: it is in the list or with a trainer.
IndicesHeld == Len(indices) + Cardinality(Evaluating) = NumEvalTrainers

EvalIInv ==
  /\ EvalTypeOK
  /\ IndicesHeld
  /\ HeldApart
  /\ EvaluatedBehind
  /\ EvaluatedOnce
  /\ OnePrompt
  /\ \A t \in EvalTrainers : worker[t].at = "prompt" => prompt.running
  /\ evals = "NotRunning" => \A t \in EvalTrainers : worker[t].at = "idle"

\* The number of trainers is a natural number.
LEMMA NumEvalTrainersNat == NumEvalTrainers \in Nat
BY EvalAssumption, FS_CardinalityType DEF NumEvalTrainers

\* Stepping by the number of trainers stays in the class.
LEMMA ApartStep ==
  ASSUME NEW d \in Nat, NEW e \in Nat, Apart(d, e)
  PROVE  Apart(d + NumEvalTrainers, e) /\ Apart(e, d)
<1>1. ASSUME NEW k \in Int, d + NumEvalTrainers = e + k * NumEvalTrainers PROVE FALSE
  <2>1. d = e + (k - 1) * NumEvalTrainers
    BY <1>1, NumEvalTrainersNat
  <2>2. k - 1 \in Int
    OBVIOUS
  <2>3. QED
    BY <2>1, <2>2 DEF Apart
<1>2. ASSUME NEW k \in Int, e = d + k * NumEvalTrainers PROVE FALSE
  <2>1. d = e + (-k) * NumEvalTrainers
    BY <1>2, NumEvalTrainersNat
  <2>2. -k \in Int
    OBVIOUS
  <2>3. QED
    BY <2>1, <2>2 DEF Apart
<1>3. QED
  BY <1>1, <1>2 DEF Apart

\* A trainer that goes on leaves behind it what was behind it, and its own position.
LEMMA BehindStep ==
  ASSUME NEW d \in Nat, NEW e \in Nat
  PROVE  /\ Behind(e, d) => Behind(e, d + NumEvalTrainers)
         /\ Behind(d, d + NumEvalTrainers)
         /\ Behind(e, d) => ~Apart(d, e)
         /\ NumEvalTrainers # 0 => ~Behind(d, d)
<1>1. ASSUME NEW k \in Nat \ {0}, d = e + k * NumEvalTrainers
      PROVE  Behind(e, d + NumEvalTrainers)
  <2>1. d + NumEvalTrainers = e + (k + 1) * NumEvalTrainers
    BY <1>1, NumEvalTrainersNat
  <2>2. k + 1 \in Nat \ {0}
    OBVIOUS
  <2>3. QED
    BY <2>1, <2>2 DEF Behind
<1>2. Behind(d, d + NumEvalTrainers)
  <2>1. d + NumEvalTrainers = d + 1 * NumEvalTrainers
    BY NumEvalTrainersNat
  <2>2. QED
    BY <2>1 DEF Behind
<1>3. Behind(e, d) => ~Apart(d, e)
  BY DEF Behind, Apart
<1>4. ASSUME NEW k \in Nat \ {0}, d = d + k * NumEvalTrainers, NumEvalTrainers # 0
      PROVE  FALSE
  <2>1. k * NumEvalTrainers >= 1
    BY <1>4, NumEvalTrainersNat
  <2>2. QED
    BY <1>4, <2>1, NumEvalTrainersNat
<1>5. QED
  BY <1>1, <1>2, <1>3, <1>4 DEF Behind

\* Indices below the number of trainers are of different classes.
LEMMA SmallApart ==
  ASSUME NEW d \in Nat, NEW e \in Nat, d # e, d < NumEvalTrainers, e < NumEvalTrainers
  PROVE  Apart(d, e)
<1> SUFFICES ASSUME NEW k \in Int, d = e + k * NumEvalTrainers PROVE FALSE
  BY DEF Apart
<1>1. CASE k = 0
  BY <1>1, NumEvalTrainersNat
<1>2. CASE k >= 1
  <2>1. k * NumEvalTrainers >= NumEvalTrainers
    BY <1>2, NumEvalTrainersNat
  <2>2. k * NumEvalTrainers \in Int
    BY NumEvalTrainersNat
  <2>3. QED
    BY <2>1, <2>2, NumEvalTrainersNat
<1>3. CASE k <= -1
  <2>1. k * NumEvalTrainers <= -NumEvalTrainers
    BY <1>3, NumEvalTrainersNat
  <2>2. k * NumEvalTrainers \in Int
    BY NumEvalTrainersNat
  <2>3. QED
    BY <2>1, <2>2, NumEvalTrainersNat
<1>4. QED
  BY <1>1, <1>2, <1>3

Workers == [at : WorkerStates, doc : Nat, left : 0 .. EvalLimit]

\* The types of the evaluations, one by one.
LEMMA EvalTypes ==
  ASSUME EvalTypeOK
  PROVE  /\ worker \in [EvalTrainers -> Workers]
         /\ \A t \in EvalTrainers : worker[t].doc \in Nat
         /\ indices \in Seq(Nat) /\ Len(indices) \in Nat
         /\ \A i \in 1 .. Len(indices) : indices[i] \in Nat
         /\ evaluated \in Seq(Nat) /\ Len(evaluated) \in Nat
         /\ \A i \in 1 .. Len(evaluated) : evaluated[i] \in Nat
         /\ Idle \in Workers
         /\ IsFiniteSet(Evaluating) /\ Cardinality(Evaluating) \in Nat
<1>1. worker \in [EvalTrainers -> Workers]
  BY DEF EvalTypeOK, Workers
<1>2. \A t \in EvalTrainers : worker[t].doc \in Nat
  BY <1>1 DEF Workers
<1>3. indices \in Seq(Nat) /\ evaluated \in Seq(Nat)
  BY DEF EvalTypeOK
<1>4. 0 \in 0 .. EvalLimit
  BY EvalAssumption
<1>5. Idle \in Workers
  BY <1>4 DEF Idle, Workers, WorkerStates
<1>6. IsFiniteSet(Evaluating) /\ Cardinality(Evaluating) \in Nat
  BY EvalAssumption, FS_Subset, FS_CardinalityType DEF Evaluating
<1>7. QED
  BY <1>1, <1>2, <1>3, <1>5, <1>6, Elements

\* All indices are in the list at first, one for each trainer.
LEMMA EvalInitially == EvalInit => EvalIInv
<1> SUFFICES ASSUME EvalInit PROVE EvalIInv
  OBVIOUS
<1>0. NumEvalTrainers \in Nat
  BY NumEvalTrainersNat
<1>1. \A t \in EvalTrainers : worker[t].at = "idle"
  BY DEF EvalInit, Idle
<1>2. /\ indices \in Seq(Nat) /\ Len(indices) = NumEvalTrainers
      /\ \A i \in 1 .. NumEvalTrainers : indices[i] = i - 1
  <2>1. indices = [i \in 1 .. NumEvalTrainers |-> i - 1]
    BY DEF EvalInit
  <2>2. \A i \in 1 .. NumEvalTrainers : i - 1 \in Nat
    BY <1>0
  <2>3. QED
    BY <1>0, <2>1, <2>2
<1>3. EvalTypeOK
  <2>1. Idle \in [at : WorkerStates, doc : Nat, left : 0 .. EvalLimit] /\ 0 \in 0 .. EvalPauses /\ 0 \in 0 .. PromptBuffer
    BY EvalAssumption DEF Idle, WorkerStates
  <2>2. worker \in [EvalTrainers -> [at : WorkerStates, doc : Nat, left : 0 .. EvalLimit]]
    BY <2>1 DEF EvalInit
  <2>3. prompt \in [running : BOOLEAN, tokens : 0 .. PromptBuffer]
    BY <2>1 DEF EvalInit
  <2>4. evaluated \in Seq(Nat)
    BY DEF EvalInit
  <2>5. QED
    BY <1>2, <2>1, <2>2, <2>3, <2>4 DEF EvalInit, EvalTypeOK
<1>4. Evaluating = {}
  BY <1>1 DEF Evaluating
<1>5. IndicesHeld
  BY <1>0, <1>2, <1>4, FS_EmptySet DEF IndicesHeld
<1>6. \A i, j \in 1 .. Len(indices) : i # j => Apart(indices[i], indices[j])
  <2> SUFFICES ASSUME NEW i \in 1 .. NumEvalTrainers, NEW j \in 1 .. NumEvalTrainers, i # j
               PROVE  Apart(i - 1, j - 1)
    BY <1>2
  <2>1. i - 1 \in Nat /\ j - 1 \in Nat /\ i - 1 # j - 1 /\ i - 1 < NumEvalTrainers /\ j - 1 < NumEvalTrainers
    BY <1>0
  <2>2. QED
    BY <2>1, SmallApart
<1>7. HeldApart
  BY <1>4, <1>6 DEF HeldApart
<1>8. EvaluatedBehind /\ EvaluatedOnce
  BY DEF EvalInit, EvaluatedBehind, EvaluatedOnce
<1>9. OnePrompt
  BY <1>1 DEF OnePrompt
<1>10. QED
  BY <1>1, <1>3, <1>5, <1>7, <1>8, <1>9 DEF EvalIInv

\* A step of a trainer that is in no run, and comes into none, holds what it held.
LEMMA SameHeld ==
  ASSUME EvalIInv, indices' = indices, evaluated' = evaluated,
         \A t \in EvalTrainers : worker'[t].at = "eval" <=> worker[t].at = "eval",
         \A t \in EvalTrainers : worker[t].at = "eval" => worker'[t].doc = worker[t].doc
  PROVE  IndicesHeld' /\ HeldApart' /\ EvaluatedBehind' /\ EvaluatedOnce'
<1>1. Evaluating' = Evaluating
  BY DEF Evaluating
<1>2. \A t \in Evaluating : worker'[t].doc = worker[t].doc
  BY DEF Evaluating
<1>3. IndicesHeld'
  BY <1>1 DEF EvalIInv, IndicesHeld
<1>4. HeldApart'
  BY <1>1, <1>2 DEF EvalIInv, HeldApart, Apart
<1>5. EvaluatedBehind'
  BY <1>1, <1>2 DEF EvalIInv, EvaluatedBehind, Behind
<1>6. QED
  BY <1>3, <1>4, <1>5 DEF EvalIInv, EvaluatedOnce

\* A sequence without its last element.
LEMMA FrontOfSequence ==
  ASSUME NEW S, NEW s \in Seq(S), NEW n \in Nat, Len(s) = n + 1
  PROVE  /\ SubSeq(s, 1, n) \in Seq(S) /\ Len(SubSeq(s, 1, n)) = n
         /\ \A i \in 1 .. n : SubSeq(s, 1, n)[i] = s[i]
<1>1. \A i \in 1 .. n : s[i] \in S
  BY Elements
<1>2. /\ SubSeq(s, 1, n) \in Seq(S)
      /\ Len(SubSeq(s, 1, n)) = IF 1 <= n THEN n - 1 + 1 ELSE 0
      /\ \A i \in 1 .. n - 1 + 1 : SubSeq(s, 1, n)[i] = s[1 + i - 1]
  BY <1>1, SubSeqProperties
<1>3. n - 1 + 1 = n /\ \A i \in 1 .. n : 1 + i - 1 = i
  OBVIOUS
<1>4. QED
  BY <1>2, <1>3

\* One more element in front.
LEMMA InFrontOfSequence ==
  ASSUME NEW S, NEW s \in Seq(S), NEW e \in S
  PROVE  /\ <<e>> \o s \in Seq(S) /\ Len(<<e>> \o s) = Len(s) + 1
         /\ (<<e>> \o s)[1] = e
         /\ \A i \in 2 .. Len(s) + 1 : i - 1 \in 1 .. Len(s) /\ (<<e>> \o s)[i] = s[i - 1]
OBVIOUS

\* A worker goes to its next state; the others stay.
LEMMA GoesTo ==
  ASSUME EvalTypeOK, NEW t \in EvalTrainers, NEW at \in WorkerStates, Goes(t, at)
  PROVE  /\ worker' \in [EvalTrainers -> Workers]
         /\ worker'[t].at = at
         /\ \A u \in EvalTrainers \ {t} : worker'[u] = worker[u]
<1> DEFINE w == [Idle EXCEPT !.at = at]
<1>1. worker \in [EvalTrainers -> Workers] /\ Idle \in Workers
  BY EvalTypes
<1>2. w \in Workers /\ w.at = at
  BY <1>1 DEF Workers, Idle
<1>3. worker' = [worker EXCEPT ![t] = w]
  BY DEF Goes
<1> HIDE DEF w
<1>4. QED
  BY <1>1, <1>2, <1>3

\* A trainer takes the last index of the list.
LEMMA PickEvalKeeps ==
  ASSUME EvalIInv, NEW t \in EvalTrainers, PickEval(t)
  PROVE  EvalIInv'
<1> DEFINE L == Len(indices)
           d == indices[L]
           w == [at |-> "eval", doc |-> d, left |-> EvalLimit]
<1>1. /\ worker[t].at = "pick" /\ indices # <<>>
      /\ worker' = [worker EXCEPT ![t] = w]
      /\ indices' = SubSeq(indices, 1, L - 1)
      /\ UNCHANGED <<loading, permit, evals, pauses, prompt, evaluated>>
  BY DEF PickEval
<1>2. /\ worker \in [EvalTrainers -> Workers]
      /\ \A u \in EvalTrainers : worker[u].doc \in Nat
      /\ indices \in Seq(Nat) /\ L \in Nat
      /\ \A i \in 1 .. L : indices[i] \in Nat
      /\ \A n \in 1 .. Len(evaluated) : evaluated[n] \in Nat
      /\ IsFiniteSet(Evaluating) /\ Cardinality(Evaluating) \in Nat
  BY EvalTypes DEF EvalIInv
<1>3. L >= 1 /\ L \in 1 .. L /\ d \in Nat
  <2>1. L >= 1
    BY <1>1, <1>2
  <2>2. QED
    BY <1>2, <2>1
<1>4. w \in Workers /\ w.at = "eval" /\ w.doc = d
  <2>1. EvalLimit \in 0 .. EvalLimit
    BY EvalAssumption
  <2>2. QED
    BY <1>3, <2>1 DEF Workers, WorkerStates
<1> HIDE DEF w
<1>5. /\ worker' \in [EvalTrainers -> Workers] /\ worker'[t] = w
      /\ \A u \in EvalTrainers \ {t} : worker'[u] = worker[u]
  BY <1>1, <1>2, <1>4
<1>6. /\ indices' \in Seq(Nat) /\ Len(indices') = L - 1
      /\ \A i \in 1 .. L - 1 : indices'[i] = indices[i]
  <2>1. L - 1 \in Nat /\ Len(indices) = (L - 1) + 1
    BY <1>2, <1>3
  <2>2. QED
    BY <1>1, <1>2, <2>1, FrontOfSequence
<1>7. t \notin Evaluating /\ Evaluating' = Evaluating \union {t}
  BY <1>1, <1>4, <1>5 DEF Evaluating
<1>8. Cardinality(Evaluating') = Cardinality(Evaluating) + 1
  BY <1>2, <1>7, FS_AddElement
<1>9. \A u \in Evaluating : worker'[u] = worker[u] /\ u \in EvalTrainers /\ worker[u].doc \in Nat
  BY <1>2, <1>5, <1>7 DEF Evaluating
<1>10. IndicesHeld'
  BY <1>2, <1>3, <1>6, <1>8, NumEvalTrainersNat DEF EvalIInv, IndicesHeld
<1>11. \A i \in 1 .. L - 1 : i \in 1 .. L /\ i # L
  BY <1>2
<1> HIDE DEF d
<1>12. HeldApart'
  <2>1. /\ \A i, j \in 1 .. L : i # j => Apart(indices[i], indices[j])
        /\ \A u \in Evaluating, i \in 1 .. L : Apart(worker[u].doc, indices[i])
        /\ \A u, v \in Evaluating : u # v => Apart(worker[u].doc, worker[v].doc)
    BY DEF EvalIInv, HeldApart
  <2>2. d = indices[L]
    BY DEF d
  <2>3. \A i, j \in 1 .. L - 1 : i # j => Apart(indices'[i], indices'[j])
    BY <1>6, <1>11, <2>1
  <2>4. \A i \in 1 .. L - 1 : Apart(d, indices[i])
    BY <1>3, <1>11, <2>1, <2>2
  <2>5. \A u \in Evaluating', i \in 1 .. L - 1 : Apart(worker'[u].doc, indices'[i])
    BY <1>4, <1>5, <1>6, <1>7, <1>9, <1>11, <2>1, <2>4
  <2>6. \A u \in Evaluating : Apart(worker[u].doc, d) /\ Apart(d, worker[u].doc)
    BY <1>3, <1>9, <2>1, <2>2, ApartStep
  <2>7. \A u, v \in Evaluating' : u # v => Apart(worker'[u].doc, worker'[v].doc)
    BY <1>4, <1>5, <1>7, <1>9, <2>1, <2>6
  <2>8. QED
    BY <1>6, <2>3, <2>5, <2>7 DEF HeldApart, Apart
<1>13. EvaluatedBehind'
  <2> SUFFICES ASSUME NEW n \in 1 .. Len(evaluated)
               PROVE  \/ \E i \in 1 .. L - 1 : Behind(evaluated[n], indices'[i])
                      \/ \E u \in Evaluating' : Behind(evaluated[n], worker'[u].doc)
    BY ZenonT(30), <1>1, <1>6 DEF EvaluatedBehind, Behind
  <2>1. CASE \E i \in 1 .. L : Behind(evaluated[n], indices[i])
    <3>1. PICK i \in 1 .. L : Behind(evaluated[n], indices[i])
      BY <2>1
    <3>2. i \in 1 .. L - 1 \/ i = L
      BY <1>2
    <3>3. QED
      BY <1>4, <1>5, <1>6, <1>7, <3>1, <3>2 DEF d
  <2>2. CASE \E u \in Evaluating : Behind(evaluated[n], worker[u].doc)
    BY <1>7, <1>9, <2>2
  <2>3. QED
    BY <2>1, <2>2 DEF EvalIInv, EvaluatedBehind
<1>14. EvalTypeOK'
  BY <1>1, <1>5, <1>6 DEF EvalIInv, EvalTypeOK, Workers
<1>15. \A u \in EvalTrainers : worker'[u].at = "prompt" => worker[u].at = "prompt"
  BY <1>4, <1>5
<1>16. OnePrompt' /\ EvaluatedOnce' /\ \A u \in EvalTrainers : worker'[u].at = "prompt" => prompt'.running
  BY <1>1, <1>15 DEF EvalIInv, OnePrompt, EvaluatedOnce
<1>17. evals' # "NotRunning"
  BY <1>1 DEF EvalIInv
<1>18. QED
  BY <1>10, <1>12, <1>13, <1>14, <1>16, <1>17 DEF EvalIInv

\* A document is evaluated, and the trainer goes on by the number of trainers.
LEMMA EvaluateDocKeeps ==
  ASSUME EvalIInv, NEW t \in EvalTrainers, EvaluateDoc(t)
  PROVE  EvalIInv'
<1> DEFINE d == worker[t].doc
           w == [worker[t] EXCEPT !.doc = @ + NumEvalTrainers, !.left = @ - 1]
<1>1. /\ worker[t].at = "eval" /\ worker[t].left > 0
      /\ evaluated' = Append(evaluated, d)
      /\ worker' = [worker EXCEPT ![t].doc = @ + NumEvalTrainers, ![t].left = @ - 1]
      /\ UNCHANGED <<loading, permit, evals, pauses, indices, prompt>>
  BY DEF EvaluateDoc
<1>2. /\ worker \in [EvalTrainers -> Workers]
      /\ \A u \in EvalTrainers : worker[u].doc \in Nat
      /\ indices \in Seq(Nat)
      /\ \A i \in 1 .. Len(indices) : indices[i] \in Nat
      /\ evaluated \in Seq(Nat) /\ Len(evaluated) \in Nat
      /\ \A n \in 1 .. Len(evaluated) : evaluated[n] \in Nat
      /\ IsFiniteSet(Evaluating) /\ Cardinality(Evaluating) \in Nat
      /\ NumEvalTrainers \in Nat
  BY EvalTypes, NumEvalTrainersNat DEF EvalIInv
<1>3. w \in Workers /\ w.at = "eval" /\ w.doc = d + NumEvalTrainers /\ d \in Nat
  <2>1. worker[t] \in Workers
    BY <1>2
  <2>2. worker[t].left - 1 \in 0 .. EvalLimit /\ d + NumEvalTrainers \in Nat
    BY SMTT(30), <1>1, <1>2, <2>1, EvalAssumption DEF Workers
  <2>3. QED
    BY <1>1, <1>2, <2>1, <2>2 DEF Workers
<1>4. worker' = [worker EXCEPT ![t] = w]
  BY <1>1, <1>2 DEF Workers
<1> HIDE DEF w, d
<1>5. /\ worker' \in [EvalTrainers -> Workers] /\ worker'[t] = w
      /\ \A u \in EvalTrainers \ {t} : worker'[u] = worker[u]
  BY <1>2, <1>3, <1>4
<1>6. Evaluating' = Evaluating /\ t \in Evaluating
  BY <1>1, <1>3, <1>5 DEF Evaluating
<1>7. d = worker[t].doc
  BY DEF d
<1>8. \A u \in Evaluating : u \in EvalTrainers /\ worker[u].doc \in Nat /\ (u # t => worker'[u] = worker[u])
  BY <1>2, <1>5 DEF Evaluating
<1>9. /\ \A i, j \in 1 .. Len(indices) : i # j => Apart(indices[i], indices[j])
      /\ \A u \in Evaluating, i \in 1 .. Len(indices) : Apart(worker[u].doc, indices[i])
      /\ \A u, v \in Evaluating : u # v => Apart(worker[u].doc, worker[v].doc)
  BY DEF EvalIInv, HeldApart
<1>10. HeldApart'
  <2>1. \A i \in 1 .. Len(indices) : Apart(d + NumEvalTrainers, indices[i])
    BY <1>2, <1>3, <1>6, <1>7, <1>9, ApartStep
  <2>2. \A u \in Evaluating, i \in 1 .. Len(indices) : Apart(worker'[u].doc, indices[i])
    BY <1>3, <1>5, <1>8, <1>9, <2>1
  <2>3. \A u \in Evaluating : u # t => Apart(d + NumEvalTrainers, worker[u].doc)
    BY <1>3, <1>6, <1>7, <1>8, <1>9, ApartStep
  <2>4. \A u \in Evaluating : u # t => Apart(worker[u].doc, d + NumEvalTrainers)
    <3>1. d + NumEvalTrainers \in Nat
      BY <1>2, <1>3
    <3>2. QED
      BY <1>8, <2>3, <3>1, ApartStep
  <2>5. \A u, v \in Evaluating : u # v => Apart(worker'[u].doc, worker'[v].doc)
    BY <1>3, <1>5, <1>8, <1>9, <2>3, <2>4
  <2>6. NumEvalTrainers' = NumEvalTrainers /\ indices' = indices
    BY <1>1 DEF NumEvalTrainers
  <2>7. \A i, j \in 1 .. Len(indices') : i # j => Apart(indices[i], indices[j])'
    BY <1>9, <2>6 DEF Apart
  <2>8. \A u \in Evaluating', i \in 1 .. Len(indices') : Apart(worker[u].doc, indices[i])'
    BY <1>6, <2>2, <2>6 DEF Apart
  <2>9. \A u, v \in Evaluating' : u # v => Apart(worker[u].doc, worker[v].doc)'
    BY <1>6, <2>5, <2>6 DEF Apart
  <2>10. QED
    BY <2>7, <2>8, <2>9 DEF HeldApart
<1>11. /\ evaluated' \in Seq(Nat) /\ Len(evaluated') = Len(evaluated) + 1
       /\ \A n \in 1 .. Len(evaluated) : evaluated'[n] = evaluated[n]
       /\ evaluated'[Len(evaluated) + 1] = d
  BY <1>1, <1>2, <1>3 DEF d
<1>12. \A n \in 1 .. Len(evaluated') : n \in 1 .. Len(evaluated) \/ n = Len(evaluated) + 1
  BY <1>2, <1>11
<1>13. EvaluatedBehind'
  <2> SUFFICES ASSUME NEW n \in 1 .. Len(evaluated')
               PROVE  \/ \E i \in 1 .. Len(indices) : Behind(evaluated'[n], indices[i])
                      \/ \E u \in Evaluating : Behind(evaluated'[n], worker'[u].doc)
    BY <1>1, <1>6 DEF EvaluatedBehind, Behind
  <2>1. CASE n = Len(evaluated) + 1
    <3>1. Behind(d, d + NumEvalTrainers)
      BY <1>3, BehindStep
    <3>2. QED
      BY <1>3, <1>5, <1>6, <1>11, <2>1, <3>1
  <2>2. CASE n \in 1 .. Len(evaluated)
    <3>1. evaluated'[n] = evaluated[n] /\ evaluated[n] \in Nat
      BY <1>2, <1>11, <2>2
    <3>2. CASE \E i \in 1 .. Len(indices) : Behind(evaluated[n], indices[i])
      BY <3>1, <3>2
    <3>3. CASE \E u \in Evaluating : Behind(evaluated[n], worker[u].doc)
      <4>1. PICK u \in Evaluating : Behind(evaluated[n], worker[u].doc)
        BY <3>3
      <4>2. CASE u = t
        <5>1. Behind(evaluated[n], d + NumEvalTrainers)
          BY <1>3, <1>7, <3>1, <4>1, <4>2, BehindStep
        <5>2. QED
          BY <1>3, <1>5, <1>6, <3>1, <5>1
      <4>3. CASE u # t
        BY <1>8, <3>1, <4>1, <4>3
      <4>4. QED
        BY <4>2, <4>3
    <3>4. QED
      BY <2>2, <3>2, <3>3 DEF EvalIInv, EvaluatedBehind
  <2>3. QED
    BY <1>12, <2>1, <2>2
<1>14. ASSUME NEW n \in 1 .. Len(evaluated), evaluated[n] = d PROVE FALSE
  <2>1. NumEvalTrainers # 0
    BY EvalAssumption, FS_EmptySet DEF NumEvalTrainers
  <2>2. ASSUME NEW i \in 1 .. Len(indices), Behind(d, indices[i]) PROVE FALSE
    <3>1. Apart(d, indices[i]) /\ indices[i] \in Nat
      BY <1>2, <1>6, <1>7, <1>9
    <3>2. Apart(indices[i], d)
      BY <1>3, <3>1, ApartStep
    <3>3. QED
      BY <1>3, <2>2, <3>1, <3>2, BehindStep
  <2>3. ASSUME NEW u \in Evaluating, Behind(d, worker[u].doc) PROVE FALSE
    <3>1. CASE u = t
      BY <1>3, <1>7, <2>1, <2>3, <3>1, BehindStep
    <3>2. CASE u # t
      BY <1>3, <1>6, <1>7, <1>8, <1>9, <2>3, <3>2, BehindStep
    <3>3. QED
      BY <3>1, <3>2
  <2>4. QED
    BY <1>14, <2>2, <2>3 DEF EvalIInv, EvaluatedBehind
<1>15. EvaluatedOnce'
  <2>1. DOMAIN evaluated = 1 .. Len(evaluated) /\ DOMAIN evaluated' = 1 .. Len(evaluated')
    BY <1>2, <1>11, Elements
  <2>2. \A m, n \in 1 .. Len(evaluated) : evaluated[m] = evaluated[n] => m = n
    BY <2>1 DEF EvalIInv, EvaluatedOnce
  <2>3. \A m, n \in 1 .. Len(evaluated') : evaluated'[m] = evaluated'[n] => m = n
    BY <1>11, <1>12, <1>14, <2>2
  <2>4. QED
    BY <2>1, <2>3 DEF EvaluatedOnce
<1>16. EvalTypeOK'
  BY <1>1, <1>5, <1>11 DEF EvalIInv, EvalTypeOK, Workers
<1>17. \A u \in EvalTrainers : worker'[u].at = "prompt" => worker[u].at = "prompt"
  BY <1>3, <1>5
<1>18. OnePrompt' /\ \A u \in EvalTrainers : worker'[u].at = "prompt" => prompt'.running
  BY <1>1, <1>17 DEF EvalIInv, OnePrompt
<1>19. evals' # "NotRunning" /\ IndicesHeld'
  BY <1>1, <1>6 DEF EvalIInv, IndicesHeld
<1>20. QED
  BY <1>10, <1>13, <1>15, <1>16, <1>18, <1>19 DEF EvalIInv

\* A run that ends, or is cancelled, puts its index back.
LEMMA EvalEndsKeeps ==
  ASSUME EvalIInv, NEW t \in EvalTrainers, EvalEnds(t)
  PROVE  EvalIInv'
<1> DEFINE L == Len(indices)
           d == worker[t].doc
<1>1. /\ worker[t].at = "eval" /\ Goes(t, "pick")
      /\ indices' = <<d>> \o indices
      /\ UNCHANGED <<loading, permit, evals, pauses, prompt, evaluated>>
  BY DEF EvalEnds, ReturnedIndex
<1>2. /\ \A u \in EvalTrainers : worker[u].doc \in Nat
      /\ indices \in Seq(Nat) /\ L \in Nat
      /\ \A i \in 1 .. L : indices[i] \in Nat
      /\ IsFiniteSet(Evaluating) /\ Cardinality(Evaluating) \in Nat
      /\ d \in Nat
  BY EvalTypes DEF EvalIInv
<1>3. /\ worker' \in [EvalTrainers -> Workers] /\ worker'[t].at = "pick"
      /\ \A u \in EvalTrainers \ {t} : worker'[u] = worker[u]
  BY <1>1, GoesTo DEF EvalIInv, WorkerStates
<1>4. /\ indices' \in Seq(Nat) /\ Len(indices') = L + 1
      /\ indices'[1] = d
      /\ \A i \in 2 .. L + 1 : i - 1 \in 1 .. L /\ indices'[i] = indices[i - 1]
  BY <1>1, <1>2, InFrontOfSequence
<1>5. t \in Evaluating /\ Evaluating' = Evaluating \ {t}
  BY <1>1, <1>3 DEF Evaluating
<1>6. Cardinality(Evaluating') = Cardinality(Evaluating) - 1
  BY <1>2, <1>5, FS_RemoveElement
<1>7. \A u \in Evaluating : u \in EvalTrainers /\ worker[u].doc \in Nat /\ (u # t => worker'[u] = worker[u])
  BY <1>2, <1>3 DEF Evaluating
<1>8. IndicesHeld'
  BY <1>2, <1>4, <1>6, NumEvalTrainersNat DEF EvalIInv, IndicesHeld
<1>9. d = worker[t].doc
  OBVIOUS
<1> HIDE DEF d
<1>10. HeldApart'
  <2>1. /\ \A i, j \in 1 .. L : i # j => Apart(indices[i], indices[j])
        /\ \A u \in Evaluating, i \in 1 .. L : Apart(worker[u].doc, indices[i])
        /\ \A u, v \in Evaluating : u # v => Apart(worker[u].doc, worker[v].doc)
    BY DEF EvalIInv, HeldApart
  <2>2. \A i \in 1 .. L : Apart(d, indices[i]) /\ Apart(indices[i], d)
    BY <1>2, <1>5, <1>9, <2>1, ApartStep
  <2>3. \A i \in 1 .. L + 1 : i = 1 \/ i \in 2 .. L + 1
    BY <1>2
  <2>4. \A i, j \in 2 .. L + 1 : i # j => Apart(indices'[i], indices'[j])
    <3> SUFFICES ASSUME NEW i \in 2 .. L + 1, NEW j \in 2 .. L + 1, i # j
                 PROVE  Apart(indices[i - 1], indices[j - 1])
      BY <1>4
    <3>1. i - 1 \in 1 .. L /\ j - 1 \in 1 .. L /\ i - 1 # j - 1
      BY <1>2
    <3>2. QED
      BY <2>1, <3>1
  <2>5. \A i, j \in 1 .. L + 1 : i # j => Apart(indices'[i], indices'[j])
    BY <1>4, <2>2, <2>3, <2>4
  <2>6. \A u \in Evaluating' : u # t /\ u \in Evaluating /\ worker'[u] = worker[u]
    BY <1>5, <1>7
  <2>7. \A u \in Evaluating' : Apart(worker[u].doc, d)
    BY <1>5, <1>9, <2>1, <2>6
  <2>8. \A u \in Evaluating', i \in 1 .. L + 1 : Apart(worker'[u].doc, indices'[i])
    BY <1>4, <2>1, <2>3, <2>6, <2>7
  <2>9. \A u, v \in Evaluating' : u # v => Apart(worker'[u].doc, worker'[v].doc)
    BY <2>1, <2>6
  <2>10. QED
    BY <1>4, <2>5, <2>8, <2>9 DEF HeldApart, Apart
<1>11. EvaluatedBehind'
  <2> SUFFICES ASSUME NEW n \in 1 .. Len(evaluated)
               PROVE  \/ \E i \in 1 .. L + 1 : Behind(evaluated[n], indices'[i])
                      \/ \E u \in Evaluating' : Behind(evaluated[n], worker'[u].doc)
    BY <1>1, <1>4 DEF EvaluatedBehind, Behind
  <2>1. CASE \E i \in 1 .. L : Behind(evaluated[n], indices[i])
    <3>1. PICK i \in 1 .. L : Behind(evaluated[n], indices[i])
      BY <2>1
    <3>2. i + 1 \in 2 .. L + 1 /\ i + 1 \in 1 .. L + 1 /\ (i + 1) - 1 = i
      BY <1>2
    <3>3. indices'[i + 1] = indices[i]
      BY <1>4, <3>2
    <3>4. QED
      BY <3>1, <3>2, <3>3
  <2>2. CASE \E u \in Evaluating : Behind(evaluated[n], worker[u].doc)
    <3>1. PICK u \in Evaluating : Behind(evaluated[n], worker[u].doc)
      BY <2>2
    <3>2. CASE u = t
      <4>1. 1 \in 1 .. L + 1
        BY <1>2
      <4>2. QED
        BY <1>4, <1>9, <3>1, <3>2, <4>1
    <3>3. CASE u # t
      BY <1>5, <1>7, <3>1, <3>3
    <3>4. QED
      BY <3>2, <3>3
  <2>3. QED
    BY <2>1, <2>2 DEF EvalIInv, EvaluatedBehind
<1>12. EvalTypeOK'
  BY <1>1, <1>3, <1>4 DEF EvalIInv, EvalTypeOK, Workers
<1>13. \A u \in EvalTrainers : worker'[u].at = "prompt" => worker[u].at = "prompt"
  BY <1>3
<1>14. OnePrompt' /\ EvaluatedOnce' /\ \A u \in EvalTrainers : worker'[u].at = "prompt" => prompt'.running
  BY <1>1, <1>13 DEF EvalIInv, OnePrompt, EvaluatedOnce
<1>15. evals' # "NotRunning"
  BY <1>1 DEF EvalIInv
<1>16. QED
  BY <1>8, <1>10, <1>11, <1>12, <1>14, <1>15 DEF EvalIInv

\* A step of a trainer that neither begins nor ends a run.
LEMMA GoesKeeps ==
  ASSUME EvalIInv, NEW t \in EvalTrainers, NEW at \in WorkerStates \ {"eval", "idle"}, Goes(t, at),
         worker[t].at \notin {"eval", "idle"},
         indices' = indices, evaluated' = evaluated, evals' = evals, pauses' = pauses,
         loading' = loading, permit' \in BOOLEAN,
         prompt' \in [running : BOOLEAN, tokens : 0 .. PromptBuffer],
         worker[t].at # "prompt" => (prompt.running => prompt'.running),
         at = "prompt" => ~prompt.running /\ prompt'.running
  PROVE  EvalIInv'
<1>1. /\ worker' \in [EvalTrainers -> Workers] /\ worker'[t].at = at
      /\ \A u \in EvalTrainers \ {t} : worker'[u] = worker[u]
  BY GoesTo DEF EvalIInv
<1>2. IndicesHeld' /\ HeldApart' /\ EvaluatedBehind' /\ EvaluatedOnce'
  BY <1>1, SameHeld
<1>3. EvalTypeOK'
  BY <1>1 DEF EvalIInv, EvalTypeOK, Workers
<1>4. \A u \in EvalTrainers : worker'[u].at = "prompt" => prompt'.running
  <2> SUFFICES ASSUME NEW u \in EvalTrainers, worker'[u].at = "prompt" PROVE prompt'.running
    OBVIOUS
  <2>1. CASE u = t
    BY <1>1, <2>1
  <2>2. CASE u # t
    <3>1. worker[u].at = "prompt" /\ prompt.running
      BY <1>1, <2>2 DEF EvalIInv
    <3>2. worker[t].at # "prompt"
      BY <2>2, <3>1 DEF EvalIInv, OnePrompt
    <3>3. QED
      BY <3>1, <3>2
  <2>3. QED
    BY <2>1, <2>2
<1>5. OnePrompt'
  <2> SUFFICES ASSUME NEW u \in EvalTrainers, NEW v \in EvalTrainers, u # v,
                      worker'[u].at = "prompt", worker'[v].at = "prompt"
               PROVE  FALSE
    BY DEF OnePrompt
  <2>1. worker[u].at = "prompt" \/ worker[v].at = "prompt"
    BY <1>1
  <2>2. prompt.running
    BY <2>1 DEF EvalIInv
  <2>3. at # "prompt"
    BY <2>2
  <2>4. QED
    BY <1>1, <2>3 DEF EvalIInv, OnePrompt
<1>6. evals' # "NotRunning"
  BY DEF EvalIInv
<1>7. QED
  BY <1>2, <1>3, <1>4, <1>5, <1>6 DEF EvalIInv

\* A step of the state machine, when no trainer is in a run.
LEMMA NobodyEvaluates ==
  ASSUME EvalIInv, indices' = indices, evaluated' = evaluated, prompt' = prompt,
         EvalTypeOK',
         \A t \in EvalTrainers : worker[t].at \notin {"eval", "prompt"} /\ worker'[t].at \notin {"eval", "prompt"},
         evals' = "NotRunning" => \A t \in EvalTrainers : worker'[t].at = "idle"
  PROVE  EvalIInv'
<1>1. IndicesHeld' /\ HeldApart' /\ EvaluatedBehind' /\ EvaluatedOnce'
  BY SameHeld
<1>2. OnePrompt'
  BY DEF OnePrompt
<1>3. QED
  BY <1>1, <1>2 DEF EvalIInv

\* Every step of a worker and of the machine keeps the invariant.
LEMMA EvalStep == EvalIInv /\ [EvalNext]_evalVars => EvalIInv'
<1> SUFFICES ASSUME EvalIInv, [EvalNext]_evalVars PROVE EvalIInv'
  OBVIOUS
<1>0. /\ EvalTypeOK /\ worker \in [EvalTrainers -> Workers] /\ Idle \in Workers
      /\ permit \in BOOLEAN /\ prompt \in [running : BOOLEAN, tokens : 0 .. PromptBuffer]
  BY EvalTypes DEF EvalIInv, EvalTypeOK
<1>1. CASE TasksPrepared \/ PublishTasks \/ StopEvals \/ TakeTokens \/ UNCHANGED evalVars
  <2>1. worker' = worker /\ indices' = indices /\ evaluated' = evaluated
    BY <1>1 DEF TasksPrepared, PublishTasks, StopEvals, TakeTokens, evalVars
  <2>2. prompt' \in [running : BOOLEAN, tokens : 0 .. PromptBuffer] /\ prompt'.running = prompt.running
    <3>1. 0 \in 0 .. PromptBuffer
      BY EvalAssumption
    <3>2. CASE TakeTokens
      BY <1>0, <3>1, <3>2 DEF TakeTokens
    <3>3. CASE ~TakeTokens
      BY <1>0, <1>1, <3>3 DEF TasksPrepared, PublishTasks, StopEvals, evalVars
    <3>4. QED
      BY <3>2, <3>3
  <2>3. loading' \in {"Loading", "Prepared", "Crashed", "Done", "Failed"} /\ permit' \in BOOLEAN
        /\ evals' \in {"NotRunning", "Running", "Stopping"} /\ (evals' = "NotRunning" => evals = "NotRunning")
    BY <1>0, <1>1 DEF EvalTypeOK, TasksPrepared, PublishTasks, StopEvals, TakeTokens, evalVars
  <2>4. pauses' \in 0 .. EvalPauses
    BY <1>0, <1>1, EvalAssumption DEF EvalTypeOK, TasksPrepared, PublishTasks, StopEvals, TakeTokens, evalVars
  <2>5. EvalTypeOK'
    BY <1>0, <2>1, <2>2, <2>3, <2>4 DEF EvalTypeOK
  <2>6. IndicesHeld' /\ HeldApart' /\ EvaluatedBehind' /\ EvaluatedOnce'
    BY <2>1, SameHeld
  <2>7. QED
    BY <2>1, <2>2, <2>3, <2>5, <2>6 DEF EvalIInv, OnePrompt
<1>2. CASE StartEvals \/ TrainersBack
  <2>1. indices' = indices /\ evaluated' = evaluated /\ prompt' = prompt /\ loading' = loading
        /\ permit' = permit /\ pauses' = pauses
    BY <1>2 DEF StartEvals, TrainersBack
  <2>2. \A t \in EvalTrainers : worker[t].at \notin {"eval", "prompt"}
    BY <1>2 DEF EvalIInv, StartEvals, TrainersBack
  <2>3. [Idle EXCEPT !.at = "check"] \in Workers /\ [Idle EXCEPT !.at = "check"].at = "check" /\ Idle.at = "idle"
    BY <1>0 DEF Workers, Idle, WorkerStates
  <2>4. /\ worker' \in [EvalTrainers -> Workers] /\ evals' \in {"NotRunning", "Running"}
        /\ \A t \in EvalTrainers : worker'[t].at \notin {"eval", "prompt"}
        /\ evals' = "NotRunning" => \A t \in EvalTrainers : worker'[t].at = "idle"
    BY <1>0, <1>2, <2>3 DEF StartEvals, TrainersBack
  <2>5. EvalTypeOK'
    BY <1>0, <2>1, <2>4 DEF EvalTypeOK, Workers
  <2>6. QED
    BY <2>1, <2>2, <2>4, <2>5, NobodyEvaluates
<1>3. ASSUME NEW t \in EvalTrainers, CheckTasks(t) \/ WaitEnds(t) \/ WorkerReturns(t)
      PROVE  EvalIInv'
  <2>1. /\ indices' = indices /\ evaluated' = evaluated /\ prompt' = prompt /\ loading' = loading
        /\ pauses' = pauses /\ evals' = evals /\ permit' \in BOOLEAN
        /\ worker[t].at \notin {"eval", "idle", "prompt"}
    BY <1>0, <1>3 DEF CheckTasks, WaitEnds, WorkerReturns
  <2>2. PICK at \in {"pick", "returned", "waiting", "check"} : Goes(t, at)
    BY <1>3 DEF CheckTasks, WaitEnds, WorkerReturns
  <2>3. at \in WorkerStates \ {"eval", "idle"} /\ at # "prompt"
    BY DEF WorkerStates
  <2>4. QED
    BY <1>0, <2>1, <2>2, <2>3, GoesKeeps
<1>4. ASSUME NEW t \in EvalTrainers, PickPrompt(t)
      PROVE  EvalIInv'
  <2>1. /\ indices' = indices /\ evaluated' = evaluated /\ loading' = loading
        /\ pauses' = pauses /\ evals' = evals /\ permit' = permit
        /\ worker[t].at = "pick" /\ Goes(t, "prompt") /\ ~prompt.running
        /\ prompt' = [prompt EXCEPT !.running = TRUE]
    BY <1>4 DEF PickPrompt
  <2>2. prompt' \in [running : BOOLEAN, tokens : 0 .. PromptBuffer] /\ prompt'.running
    BY <1>0, <2>1
  <2>3. "prompt" \in WorkerStates \ {"eval", "idle"}
    BY DEF WorkerStates
  <2>4. QED
    BY <1>0, <2>1, <2>2, <2>3, GoesKeeps
<1>5. ASSUME NEW t \in EvalTrainers, PromptEnds(t)
      PROVE  EvalIInv'
  <2>1. /\ indices' = indices /\ evaluated' = evaluated /\ loading' = loading
        /\ pauses' = pauses /\ evals' = evals /\ permit' = permit
        /\ worker[t].at = "prompt" /\ Goes(t, "pick")
        /\ \/ prompt' = [prompt EXCEPT !.running = FALSE]
           \/ prompt.tokens < PromptBuffer /\ prompt' = [running |-> FALSE, tokens |-> prompt.tokens + 1]
    BY <1>5 DEF PromptEnds
  <2>2. prompt.tokens < PromptBuffer => prompt.tokens + 1 \in 0 .. PromptBuffer
    BY <1>0, EvalAssumption
  <2>3. prompt' \in [running : BOOLEAN, tokens : 0 .. PromptBuffer]
    <3>1. CASE prompt' = [prompt EXCEPT !.running = FALSE]
      BY <1>0, <3>1
    <3>2. CASE prompt.tokens < PromptBuffer /\ prompt' = [running |-> FALSE, tokens |-> prompt.tokens + 1]
      BY <2>2, <3>2
    <3>3. QED
      BY <2>1, <3>1, <3>2
  <2>4. "pick" \in WorkerStates \ {"eval", "idle"}
    BY DEF WorkerStates
  <2>5. QED
    BY <1>0, <2>1, <2>3, <2>4, GoesKeeps
<1>6. QED
  BY <1>1, <1>2, <1>3, <1>4, <1>5, PickEvalKeeps, EvaluateDocKeeps, EvalEndsKeeps
     DEF EvalNext, WorkerStep

\* For any number of trainers, documents and interruptions: each trainer that looks for a
\* task finds an index (next_indices.pop().unwrap()), no document is evaluated twice in a
\* pass, and at most one trainer writes the prompt.
THEOREM EvaluationsCorrect == EvalSpec => []EvaluationInv
<1>1. ASSUME EvalIInv PROVE IndexForEveryTrainer
  <2> SUFFICES ASSUME NEW t \in EvalTrainers, worker[t].at = "pick", indices = <<>> PROVE FALSE
    BY DEF IndexForEveryTrainer
  <2>1. Len(indices) = 0
    OBVIOUS
  <2>2. /\ Cardinality(Evaluating) = Cardinality(EvalTrainers)
        /\ Evaluating \subseteq EvalTrainers /\ t \notin Evaluating
    <3>1. Cardinality(Evaluating) \in Nat
      BY <1>1, EvalTypes DEF EvalIInv
    <3>2. QED
      BY <1>1, <2>1, <3>1 DEF EvalIInv, IndicesHeld, NumEvalTrainers, Evaluating
  <2>3. QED
    BY <2>2, EvalAssumption, FS_Subset
<1>2. EvalIInv => EvaluationInv
  BY <1>1 DEF EvalIInv, EvaluationInv
<1>3. QED
  BY <1>2, EvalInitially, EvalStep, PTL DEF EvalSpec

-----------------------------------------------------------------------------
(* The threads of a trainer. *)

\* The waits that a thread has left behind since its operation began; one that is at
\* the wait of its boot is one behind.
PassedAt(at, result, nth, op, clip) ==
  IF at = "boot" THEN -1
  ELSE IF at \in {"check", "enter"} THEN nth - 1
  ELSE IF at = "forwardBackward" THEN nth
  ELSE IF at = "clip" THEN MicroBatches
  ELSE IF at = "clipped" THEN MicroBatches + 1
  ELSE IF at \in {"applied", "forward"} THEN 1
  ELSE IF at = "recv" /\ result = "done"
       THEN IF op = "Train" THEN IF clip THEN MicroBatches + 2 ELSE MicroBatches
            ELSE IF op = "Optimize" THEN 2
            ELSE IF op = "Forward" THEN 1 ELSE 0
  ELSE 0

\* The collective operations that a thread has begun since its operation began.
BegunAt(at, result, nth, op) ==
  IF at \in {"check", "enter"} \/ (at = "recv" /\ result = "cancelled") THEN nth - 1
  ELSE IF at = "forwardBackward" THEN nth
  ELSE IF at \in {"clip", "clipped"} THEN MicroBatches
  ELSE IF at \in {"forward", "extract"} THEN 1
  ELSE IF at = "recv" /\ result = "done"
       THEN IF op = "Train" THEN MicroBatches
            ELSE IF op \in {"Forward", "Extract"} THEN 1 ELSE 0
  ELSE 0

Passed(t) == PassedAt(pc[t], results[t], micro[t], operation, clips)
Begun(t) == BegunAt(pc[t], results[t], micro[t], operation)

\* The threads that the barrier has counted, and those that it has let go.
Counted == {t \in Threads : waiting[t] # "out" /\ ticket[t] = generation}
Released(t) == IF waiting[t] # "out" /\ ticket[t] # generation THEN 1 ELSE 0

\* Where a thread can be in an operation.
Places(op) ==
  IF op = "Train" THEN {"boot", "recv", "ended", "check", "enter", "forwardBackward", "clip", "clipped"}
  ELSE IF op = "Optimize" THEN {"boot", "recv", "apply", "applied"}
  ELSE IF op = "Forward" THEN {"boot", "recv", "infer", "forward"}
  ELSE IF op = "Extract" THEN {"boot", "recv", "extract"}
  ELSE {"boot", "recv"}

ThreadInPlace(t) ==
  /\ pc[t] \in Places(operation)
  /\ operation = "idle" => ~assigned[t] /\ results[t] = NoResult
  /\ assigned[t] => pc[t] \in {"boot", "recv", "ended"} /\ results[t] = NoResult
  /\ results[t] # NoResult => pc[t] = "recv"
  /\ operation # "idle" /\ pc[t] \in {"boot", "recv"} => assigned[t] \/ results[t] # NoResult
  /\ pc[t] \in {"check", "enter", "forwardBackward"} \/ results[t] = "cancelled" => micro[t] \in 1 .. MicroBatches
  /\ pc[t] \in {"clip", "clipped"} => clips
  /\ results[t] = "cancelled" => cancelled
  /\ waiting[t] # "out" => pc[t] \in WaitPoints
  /\ ticket[t] <= generation
  /\ pc[t] = "ended" => cancelled
  /\ operation = "idle" /\ cancelled => pc[t] = "recv"

TrainerTypes ==
  /\ TypeOK
  /\ assigned \in [Threads -> BOOLEAN] /\ micro \in [Threads -> Nat] /\ calls \in [Threads -> Nat]
  /\ cancelled => operation \in {"Train", "idle"} /\ (operation = "Train" => token)

\* No thread is ahead of another by more than the collective operation it is in.
CallsTogether ==
  /\ \E base \in Nat : \A t \in Threads : calls[t] = base + Begun(t)
  /\ \A t, u \in Threads : pc[t] \notin Collectives => calls[t] <= calls[u]

\* Once one thread has found the training cancelled, no other one can complete it.
NoneCompletes ==
  cancelled /\ operation = "Train" =>
    \E c \in Threads :
      /\ results[c] = "cancelled"
      /\ \A t \in Threads :
           /\ pc[t] \notin {"clip", "clipped"} /\ results[t] # "done"
           /\ calls[t] = calls[c] \/ (pc[t] = "forwardBackward" /\ calls[t] > calls[c])
           /\ pc[t] = "forwardBackward" /\ calls[t] = calls[c] => micro[t] < MicroBatches

\* The barrier counts the threads that wait at it, and lets all of them pass it as often:
\* up to the threads that came to the wait of their boot in the middle of the operation.
BarrierCounts ==
  ~cancelled =>
    /\ count = Cardinality(Counted)
    /\ operation # "idle" =>
         \E g \in Int, late \in SUBSET Threads :
           /\ \A t \in Threads : Passed(t) + Released(t) = IF t \in late THEN g - 1 ELSE g
           /\ operation = "Train" /\ late # {} /\ late # Threads => g <= 1

TrainerIInv ==
  /\ TrainerTypes
  /\ \A t \in Threads : ThreadInPlace(t)
  /\ CallsTogether
  /\ NoneCompletes
  /\ BarrierCounts
  /\ RanksInStep

\* What the assumptions say of the threads and micro batches.
LEMMA TrainerNumbers == NumThreads \in Nat /\ NumThreads >= 1 /\ MicroBatches \in Nat /\ MicroBatches >= 1
BY NumThreadsAssumption, TrainerAssumption

\* The other threads and the owner stay as they are.
OthersStay(t) ==
  /\ \A u \in Threads \ {t} :
       /\ pc'[u] = pc[u] /\ results'[u] = results[u] /\ micro'[u] = micro[u]
       /\ calls'[u] = calls[u] /\ assigned'[u] = assigned[u]
  /\ operation' = operation /\ clips' = clips /\ token' = token /\ can_do_inference' = can_do_inference

\* The types of what the threads have.
ThreadTypes ==
  /\ pc \in [Threads -> WaitPoints \cup Collectives \cup {"recv", "check", "ended"}]
  /\ results \in [Threads -> {NoResult, "done", "cancelled"}]
  /\ assigned \in [Threads -> BOOLEAN] /\ micro \in [Threads -> Nat] /\ calls \in [Threads -> Nat]

\* The types of the barrier.
BarrierTypes ==
  /\ count \in 0 .. NumThreads - 1 /\ generation \in Nat /\ cancelled \in BOOLEAN
  /\ waiting \in [Threads -> {"out", "asleep", "awake"}] /\ ticket \in [Threads -> Nat]

OwnerTypes ==
  /\ clips \in BOOLEAN /\ can_do_inference \in BOOLEAN /\ token \in BOOLEAN
  /\ operation \in Operations \cup {"idle"}

\* The types by owner: the threads, the barrier and the owner of the trainer.
LEMMA TypesSplit ==
  TrainerTypes <=> /\ ThreadTypes /\ BarrierTypes /\ OwnerTypes
                   /\ cancelled => operation \in {"Train", "idle"} /\ (operation = "Train" => token)
BY DEF TrainerTypes, TypeOK, ThreadTypes, BarrierTypes, OwnerTypes

\* The counts of passes and collective operations are numbers.
LEMMA CountsAreNumbers ==
  ASSUME TrainerTypes, NEW t \in Threads, ThreadInPlace(t)
  PROVE  Passed(t) \in Int /\ Begun(t) \in Nat /\ Released(t) \in {0, 1} /\ calls[t] \in Nat
<1>1. micro[t] \in Nat /\ calls[t] \in Nat
  BY TypesSplit DEF ThreadTypes
<1>2. Passed(t) \in Int
  BY <1>1, TrainerNumbers DEF Passed, PassedAt
<1>3. pc[t] \in {"check", "enter"} \/ (pc[t] = "recv" /\ results[t] = "cancelled") => micro[t] - 1 \in Nat
  BY <1>1, TrainerNumbers DEF ThreadInPlace
<1>4. Begun(t) \in Nat
  BY <1>1, <1>3, TrainerNumbers DEF Begun, BegunAt
<1>5. QED
  BY <1>1, <1>2, <1>4 DEF Released

\* One thread moves; what it begins is counted, and it is not behind.
LEMMA CallsKept ==
  ASSUME TrainerIInv, NEW t \in Threads, OthersStay(t), NEW k \in {0, 1},
         Begun(t)' = Begun(t) + k, calls'[t] = calls[t] + k,
         pc'[t] \notin Collectives => \A u \in Threads : calls'[t] <= calls[u]
  PROVE  CallsTogether'
<1>1. PICK base \in Nat : \A u \in Threads : calls[u] = base + Begun(u)
  BY DEF TrainerIInv, CallsTogether
<1>2. \A u \in Threads \ {t} : Begun(u)' = Begun(u) /\ calls'[u] = calls[u] /\ pc'[u] = pc[u]
  BY DEF OthersStay, Begun
<1>3. \A u \in Threads : calls[u] \in Nat /\ Begun(u) \in Nat
  BY CountsAreNumbers DEF TrainerIInv
<1>4. \A u \in Threads : calls'[u] = base + Begun(u)' /\ calls[u] <= calls'[u]
  BY <1>1, <1>2, <1>3
<1>5. \A u, v \in Threads : pc[u] \notin Collectives => calls[u] <= calls[v]
  BY DEF TrainerIInv, CallsTogether
<1>6. \A u \in Threads : calls'[u] \in Nat
  BY <1>2, <1>3
<1>7. \A u, v \in Threads : pc'[u] \notin Collectives => calls'[u] <= calls'[v]
  <2> SUFFICES ASSUME NEW u \in Threads, NEW v \in Threads, pc'[u] \notin Collectives
               PROVE  calls'[u] <= calls'[v]
    OBVIOUS
  <2>1. calls'[u] <= calls[v]
    BY <1>2, <1>5
  <2>2. QED
    BY <1>3, <1>4, <1>6, <2>1
<1>8. QED
  BY <1>4, <1>7 DEF CallsTogether

\* What keeps the other threads in place.
LEMMA OthersInPlace ==
  ASSUME TrainerIInv, NEW t \in Threads, OthersStay(t),
         cancelled' \in BOOLEAN, cancelled => cancelled', operation = "idle" => cancelled' = cancelled,
         \A u \in Threads \ {t} : waiting'[u] # "out" => waiting[u] # "out",
         \A u \in Threads \ {t} : ticket'[u] <= generation',
         ThreadInPlace(t)'
  PROVE  (\A u \in Threads : ThreadInPlace(u))'
<1> SUFFICES ASSUME NEW u \in Threads \ {t} PROVE ThreadInPlace(u)'
  OBVIOUS
<1>1. ThreadInPlace(u)
  BY DEF TrainerIInv
<1>2. /\ pc'[u] = pc[u] /\ results'[u] = results[u] /\ micro'[u] = micro[u]
      /\ calls'[u] = calls[u] /\ assigned'[u] = assigned[u]
      /\ operation' = operation /\ clips' = clips
  BY DEF OthersStay
<1>3. QED
  BY <1>1, <1>2 DEF ThreadInPlace

\* A step at no barrier.
LEMMA InnerKeeps ==
  ASSUME TrainerIInv, NEW t \in Threads, OthersStay(t), UNCHANGED barrierVars,
         ThreadTypes', ThreadInPlace(t)', NEW k \in {0, 1},
         Begun(t)' = Begun(t) + k, calls'[t] = calls[t] + k,
         pc'[t] \notin Collectives => \A u \in Threads : calls'[t] <= calls[u],
         Passed(t)' = Passed(t),
         NoneCompletes', RanksInStep'
  PROVE  TrainerIInv'
<1>1. CallsTogether'
  BY CallsKept
<1>2. (\A u \in Threads : ThreadInPlace(u))'
  <2>1. /\ cancelled' = cancelled /\ waiting' = waiting /\ ticket' = ticket /\ generation' = generation
        /\ cancelled \in BOOLEAN
    BY TypesSplit DEF barrierVars, TrainerIInv, BarrierTypes
  <2>2. \A u \in Threads : ticket[u] <= generation
    BY DEF TrainerIInv, ThreadInPlace
  <2>3. QED
    BY <2>1, <2>2, OthersInPlace
<1>3. BarrierCounts'
  <2>1. cancelled' = cancelled /\ count' = count /\ Counted' = Counted /\ operation' = operation
        /\ \A u \in Threads : Released(u)' = Released(u)
    BY DEF barrierVars, Counted, Released, OthersStay
  <2>2. \A u \in Threads : Passed(u)' = Passed(u)
    BY DEF OthersStay, Passed
  <2>3. QED
    BY <2>1, <2>2 DEF TrainerIInv, BarrierCounts
<1>4. TrainerTypes'
  <2>1. TrainerTypes
    BY DEF TrainerIInv
  <2>2. QED
    BY <2>1 DEF TrainerTypes, TypeOK, ThreadTypes, OthersStay, barrierVars
<1>5. QED
  BY <1>1, <1>2, <1>3, <1>4 DEF TrainerIInv

\* A thread that begins no collective operation leaves the ranks in step.
LEMMA InStepKept ==
  ASSUME TrainerIInv, NEW t \in Threads, OthersStay(t),
         pc'[t] \in Collectives => pc[t] \in Collectives /\ calls'[t] = calls[t]
  PROVE  RanksInStep'
BY DEF TrainerIInv, RanksInStep, OthersStay

\* A thread that neither completes nor begins leaves a cancelled training incomplete.
LEMMA IncompleteKept ==
  ASSUME TrainerIInv, NEW t \in Threads, OthersStay(t), cancelled' = cancelled,
         results[t] = "cancelled" => results'[t] = "cancelled",
         calls'[t] = calls[t],
         cancelled /\ operation = "Train" =>
           /\ pc'[t] \notin {"clip", "clipped", "forwardBackward"} /\ results'[t] # "done"
           /\ pc[t] = "forwardBackward" => \A u \in Threads : calls[t] <= calls[u]
  PROVE  NoneCompletes'
<1> SUFFICES ASSUME cancelled, operation = "Train" PROVE NoneCompletes'
  BY DEF NoneCompletes, OthersStay
<1>1. PICK c \in Threads :
        /\ results[c] = "cancelled"
        /\ \A u \in Threads :
             /\ pc[u] \notin {"clip", "clipped"} /\ results[u] # "done"
             /\ calls[u] = calls[c] \/ (pc[u] = "forwardBackward" /\ calls[u] > calls[c])
             /\ pc[u] = "forwardBackward" /\ calls[u] = calls[c] => micro[u] < MicroBatches
  BY DEF TrainerIInv, NoneCompletes
<1>2. \A u \in Threads : calls[u] \in Nat
  BY TypesSplit DEF TrainerIInv, ThreadTypes
<1>3. calls[t] = calls[c]
  BY <1>1, <1>2
<1>4. results'[c] = "cancelled" /\ \A u \in Threads : calls'[u] = calls[u]
  BY <1>1 DEF OthersStay
<1>5. QED
  BY <1>1, <1>3, <1>4 DEF NoneCompletes, OthersStay

\* A thread takes its assignment.
LEMMA ReceiveKeeps ==
  ASSUME TrainerIInv, NEW t \in Threads, Receive(t)
  PROVE  TrainerIInv'
<1>1. /\ pc[t] = "recv" /\ assigned[t] /\ assigned' = [assigned EXCEPT ![t] = FALSE]
      /\ micro' = [micro EXCEPT ![t] = 1]
      /\ UNCHANGED <<barrierVars, ownerVars>>
  BY DEF Receive
<1>2. /\ ThreadTypes /\ ThreadInPlace(t) /\ results[t] = NoResult /\ operation # "idle"
      /\ operation \in Operations
  BY <1>1, TypesSplit DEF TrainerIInv, ThreadInPlace, OwnerTypes
<1>3. waiting[t] = "out" /\ waiting' = waiting /\ ticket' = ticket /\ generation' = generation
      /\ cancelled' = cancelled /\ operation' = operation /\ clips' = clips
  BY <1>1, <1>2 DEF ThreadInPlace, WaitPoints, barrierVars, ownerVars
<1>4. Begun(t) = 0 /\ Passed(t) = 0
  BY <1>1, <1>2 DEF Begun, BegunAt, Passed, PassedAt, NoResult
<1>5. /\ micro'[t] = 1 /\ ~assigned'[t] /\ 1 \in 1 .. MicroBatches
      /\ micro' \in [Threads -> Nat] /\ assigned' \in [Threads -> BOOLEAN]
      /\ \A u \in Threads \ {t} : micro'[u] = micro[u] /\ assigned'[u] = assigned[u]
  BY <1>1, <1>2, TrainerNumbers DEF ThreadTypes
<1>6. OthersStay(t)
  <2>1. \A u \in Threads \ {t} : pc'[u] = pc[u] /\ results'[u] = results[u] /\ calls'[u] = calls[u]
    BY <1>2 DEF Receive, ThreadTypes
  <2>2. QED
    BY <1>1, <1>5, <2>1 DEF OthersStay, ownerVars
<1>7. \A u \in Threads : calls[u] \in Nat /\ calls[t] <= calls[u]
  BY <1>1, <1>2 DEF TrainerIInv, CallsTogether, ThreadTypes, Collectives
<1>8. CASE operation = "Extract"
  <2>1. /\ pc' = [pc EXCEPT ![t] = "extract"] /\ results' = results
        /\ calls' = [calls EXCEPT ![t] = @ + 1]
    BY <1>8 DEF Receive
  <2>2. /\ ThreadTypes' /\ pc'[t] = "extract" /\ results'[t] = NoResult /\ calls'[t] = calls[t] + 1
    BY <1>2, <1>5, <2>1 DEF ThreadTypes, Collectives
  <2>3. ThreadInPlace(t)'
    BY <1>2, <1>3, <1>5, <1>8, <2>2 DEF ThreadInPlace, Places, NoResult
  <2>4. Begun(t)' = Begun(t) + 1 /\ Passed(t)' = Passed(t)
    BY <1>4, <2>2 DEF Begun, BegunAt, Passed, PassedAt
  <2>5. NoneCompletes'
    BY <1>3, <1>8 DEF NoneCompletes
  <2>6. RanksInStep'
    <3>1. PICK base \in Nat : \A u \in Threads : calls[u] = base + Begun(u)
      BY DEF TrainerIInv, CallsTogether
    <3>2. \A u \in Threads : pc[u] \in Collectives => pc[u] = "extract"
      BY <1>8 DEF TrainerIInv, ThreadInPlace, Places, Collectives
    <3>3. \A u \in Threads : pc[u] = "extract" => Begun(u) = 1
      BY DEF Begun, BegunAt
    <3>4. \A u \in Threads : pc'[u] \in Collectives => calls'[u] = base + 1
      BY <1>4, <1>6, <2>2, <3>1, <3>2, <3>3 DEF OthersStay
    <3>5. QED
      BY <3>4 DEF RanksInStep
  <2>7. pc'[t] \in Collectives
    BY <2>2 DEF Collectives
  <2>8. QED
    BY <1>1, <1>6, <2>2, <2>3, <2>4, <2>5, <2>6, <2>7, InnerKeeps
<1>9. CASE operation # "Extract"
  <2>1. /\ calls' = calls
        /\ \/ operation = "Train" /\ pc' = [pc EXCEPT ![t] = "check"] /\ results' = results
           \/ operation = "Optimize" /\ pc' = [pc EXCEPT ![t] = "apply"] /\ results' = results
           \/ operation = "Forward" /\ pc' = [pc EXCEPT ![t] = "infer"] /\ results' = results
           \/ operation = "OptimizeNothing" /\ pc' = [pc EXCEPT ![t] = "recv"]
              /\ results' = [results EXCEPT ![t] = "done"]
    BY <1>2, <1>9 DEF Receive, Operations
  <2>2. /\ ThreadTypes' /\ calls'[t] = calls[t]
        /\ \/ operation = "Train" /\ pc'[t] = "check" /\ results'[t] = NoResult
           \/ operation = "Optimize" /\ pc'[t] = "apply" /\ results'[t] = NoResult
           \/ operation = "Forward" /\ pc'[t] = "infer" /\ results'[t] = NoResult
           \/ operation = "OptimizeNothing" /\ pc'[t] = "recv" /\ results'[t] = "done"
    <3>1. "check" \in WaitPoints \cup Collectives \cup {"recv", "check", "ended"}
          /\ "apply" \in WaitPoints \cup Collectives \cup {"recv", "check", "ended"}
          /\ "infer" \in WaitPoints \cup Collectives \cup {"recv", "check", "ended"}
          /\ "recv" \in WaitPoints \cup Collectives \cup {"recv", "check", "ended"}
      BY DEF WaitPoints
    <3>2. pc' \in [Threads -> WaitPoints \cup Collectives \cup {"recv", "check", "ended"}]
      BY <1>2, <2>1, <3>1 DEF ThreadTypes
    <3>3. results' \in [Threads -> {NoResult, "done", "cancelled"}]
      BY <1>2, <2>1 DEF ThreadTypes
    <3>4. QED
      BY <1>2, <1>5, <2>1, <3>2, <3>3 DEF ThreadTypes
  <2>3. ThreadInPlace(t)'
    BY <1>2, <1>3, <1>5, <2>2 DEF ThreadInPlace, Places, NoResult
  <2>4. Begun(t)' = Begun(t) + 0 /\ Passed(t)' = Passed(t)
    BY <1>3, <1>4, <1>5, <2>2 DEF Begun, BegunAt, Passed, PassedAt
  <2>5. NoneCompletes'
    BY <1>1, <1>2, <1>3, <1>6, <2>1, <2>2, IncompleteKept DEF NoResult
  <2>6. pc'[t] \notin Collectives
    BY <2>2 DEF Collectives
  <2>7. RanksInStep'
    BY <1>6, <2>6, InStepKept
  <2>8. calls'[t] = calls[t] + 0
    BY <1>7, <2>2
  <2>9. QED
    BY <1>1, <1>6, <1>7, <2>2, <2>3, <2>4, <2>5, <2>7, <2>8, InnerKeeps
<1>10. QED
  BY <1>8, <1>9

\* A thread finds that its training goes on.
LEMMA CheckKeeps ==
  ASSUME TrainerIInv, NEW t \in Threads, Check(t)
  PROVE  TrainerIInv'
<1>1. /\ pc[t] = "check" /\ ~token /\ pc' = [pc EXCEPT ![t] = "enter"]
      /\ UNCHANGED <<barrierVars, ownerVars, assigned, results, micro, calls>>
  BY DEF Check
<1>2. ThreadTypes /\ ThreadInPlace(t)
  BY TypesSplit DEF TrainerIInv
<1>3. waiting' = waiting /\ ticket' = ticket /\ generation' = generation
      /\ cancelled' = cancelled /\ operation' = operation /\ clips' = clips
  BY <1>1 DEF barrierVars, ownerVars
<1>4. operation = "Train"
  BY <1>1, <1>2 DEF ThreadInPlace, Places
<1>5. pc'[t] = "enter" /\ OthersStay(t)
  BY <1>1, <1>2 DEF ThreadTypes, OthersStay, ownerVars
<1>6. ThreadTypes'
  BY <1>1, <1>2 DEF ThreadTypes, WaitPoints
<1>7. ThreadInPlace(t)'
  BY <1>1, <1>2, <1>3, <1>4, <1>5 DEF ThreadInPlace, Places, WaitPoints, NoResult
<1>8. Begun(t)' = Begun(t) /\ Passed(t)' = Passed(t)
  BY <1>1, <1>3, <1>5 DEF Begun, BegunAt, Passed, PassedAt
<1>9. \A u \in Threads : calls[u] \in Nat /\ calls[t] <= calls[u]
  BY <1>1, <1>2 DEF TrainerIInv, CallsTogether, ThreadTypes, Collectives
<1>10. NoneCompletes'
  <2>1. ~(cancelled /\ operation = "Train")
    BY <1>1, TypesSplit DEF TrainerIInv
  <2>2. QED
    BY <1>3, <2>1 DEF NoneCompletes
<1>11. RanksInStep'
  BY <1>5, InStepKept DEF Collectives
<1>12. Begun(t)' = Begun(t) + 0 /\ calls'[t] = calls[t] + 0
  BY <1>1, <1>2, <1>8, <1>9, CountsAreNumbers DEF TrainerIInv
<1>13. QED
  BY <1>1, <1>5, <1>6, <1>7, <1>8, <1>9, <1>10, <1>11, <1>12, InnerKeeps

\* The next micro batch, the clipping or the result: by then every rank has begun the pass.
LEMMA FinishKeeps ==
  ASSUME TrainerIInv, NEW t \in Threads, FinishForwardBackward(t) \/ FinishForward(t)
  PROVE  TrainerIInv'
<1>1. /\ pc[t] \in Collectives
      /\ \A u \in Threads : calls[u] >= calls[t]
      /\ UNCHANGED <<barrierVars, ownerVars, assigned, calls>>
  BY DEF FinishForwardBackward, FinishForward, CollectiveEnds
<1>2. ThreadTypes /\ ThreadInPlace(t) /\ micro[t] \in Nat /\ results[t] = NoResult /\ ~assigned[t]
  <2>1. ThreadTypes /\ ThreadInPlace(t)
    BY TypesSplit DEF TrainerIInv
  <2>2. QED
    BY <1>1, <2>1 DEF ThreadTypes, ThreadInPlace, Collectives
<1>3. waiting' = waiting /\ ticket' = ticket /\ generation' = generation
      /\ cancelled' = cancelled /\ operation' = operation /\ clips' = clips /\ waiting[t] = "out"
  BY <1>1, <1>2 DEF barrierVars, ownerVars, ThreadInPlace, WaitPoints, Collectives
<1>4. operation # "idle"
  BY <1>1, <1>2 DEF ThreadInPlace, Places, Collectives
<1>5. \/ /\ pc[t] = "forwardBackward" /\ operation = "Train" /\ micro[t] \in 1 .. MicroBatches
         /\ \/ /\ micro[t] < MicroBatches /\ results' = results
               /\ pc' = [pc EXCEPT ![t] = "check"] /\ micro' = [micro EXCEPT ![t] = @ + 1]
            \/ /\ ~(micro[t] < MicroBatches) /\ clips /\ results' = results
               /\ pc' = [pc EXCEPT ![t] = "clip"] /\ micro' = micro
            \/ /\ ~(micro[t] < MicroBatches) /\ ~clips /\ results' = [results EXCEPT ![t] = "done"]
               /\ pc' = [pc EXCEPT ![t] = "recv"] /\ micro' = micro
      \/ /\ \/ pc[t] = "forward" /\ operation = "Forward"
            \/ pc[t] = "extract" /\ operation = "Extract"
         /\ pc' = [pc EXCEPT ![t] = "recv"] /\ results' = [results EXCEPT ![t] = "done"] /\ micro' = micro
  <2>1. CASE FinishForwardBackward(t)
    <3>1. operation = "Train" /\ micro[t] \in 1 .. MicroBatches
      BY <1>2, <2>1 DEF FinishForwardBackward, ThreadInPlace, Places
    <3>2. QED
      BY <2>1, <3>1 DEF FinishForwardBackward
  <2>2. CASE FinishForward(t)
    <3>1. \/ pc[t] = "forward" /\ operation = "Forward"
          \/ pc[t] = "extract" /\ operation = "Extract"
      BY <1>2, <2>2 DEF FinishForward, ThreadInPlace, Places
    <3>2. QED
      BY <2>2, <3>1 DEF FinishForward
  <2>3. QED
    BY <2>1, <2>2
<1>6. OthersStay(t)
  BY <1>1, <1>2, <1>5 DEF OthersStay, ownerVars, ThreadTypes
<1>7. ThreadTypes'
  <2>1. micro[t] + 1 \in Nat
    BY <1>2
  <2>2. micro' \in [Threads -> Nat]
    BY <1>2, <1>5, <2>1 DEF ThreadTypes
  <2>3. pc' \in [Threads -> WaitPoints \cup Collectives \cup {"recv", "check", "ended"}]
    BY <1>2, <1>5 DEF ThreadTypes, WaitPoints
  <2>4. results' \in [Threads -> {NoResult, "done", "cancelled"}]
    BY <1>2, <1>5 DEF ThreadTypes
  <2>5. QED
    BY <1>1, <1>2, <2>2, <2>3, <2>4 DEF ThreadTypes
<1>8. \/ /\ pc[t] = "forwardBackward" /\ operation = "Train" /\ micro[t] \in 1 .. MicroBatches
         /\ \/ micro[t] < MicroBatches /\ pc'[t] = "check" /\ micro'[t] = micro[t] + 1 /\ results'[t] = NoResult
            \/ micro[t] = MicroBatches /\ clips /\ pc'[t] = "clip" /\ results'[t] = NoResult
            \/ micro[t] = MicroBatches /\ ~clips /\ pc'[t] = "recv" /\ results'[t] = "done"
      \/ /\ \/ pc[t] = "forward" /\ operation = "Forward"
            \/ pc[t] = "extract" /\ operation = "Extract"
         /\ pc'[t] = "recv" /\ results'[t] = "done"
  <2>1. \A x : pc' = [pc EXCEPT ![t] = x] => pc'[t] = x
    BY <1>2 DEF ThreadTypes
  <2>2. \A x : results' = [results EXCEPT ![t] = x] => results'[t] = x
    BY <1>2 DEF ThreadTypes
  <2>3. \A x : micro' = [micro EXCEPT ![t] = x] => micro'[t] = x
    BY <1>2 DEF ThreadTypes
  <2>4. results' = results => results'[t] = NoResult
    BY <1>2
  <2>5. micro[t] \in 1 .. MicroBatches /\ ~(micro[t] < MicroBatches) => micro[t] = MicroBatches
    BY <1>2, TrainerNumbers
  <2>6. QED
    BY <1>5, <2>1, <2>2, <2>3, <2>4, <2>5
<1>9. ThreadInPlace(t)'
  BY <1>1, <1>2, <1>3, <1>4, <1>8, TrainerNumbers DEF ThreadInPlace, Places, NoResult
<1>10. Begun(t)' = Begun(t) /\ Passed(t)' = Passed(t)
  <2>1. CASE /\ pc[t] = "forwardBackward" /\ micro[t] < MicroBatches
             /\ pc'[t] = "check" /\ micro'[t] = micro[t] + 1
    BY <1>2, <2>1 DEF Begun, BegunAt, Passed, PassedAt
  <2>2. CASE pc[t] = "forwardBackward" /\ micro[t] = MicroBatches /\ pc'[t] = "clip"
    BY <2>2 DEF Begun, BegunAt, Passed, PassedAt
  <2>3. CASE /\ pc[t] = "forwardBackward" /\ micro[t] = MicroBatches /\ operation = "Train" /\ ~clips
             /\ pc'[t] = "recv" /\ results'[t] = "done"
    BY <1>3, <2>3 DEF Begun, BegunAt, Passed, PassedAt
  <2>4. CASE /\ \/ pc[t] = "forward" /\ operation = "Forward"
                \/ pc[t] = "extract" /\ operation = "Extract"
             /\ pc'[t] = "recv" /\ results'[t] = "done"
    BY <1>3, <2>4 DEF Begun, BegunAt, Passed, PassedAt
  <2>5. QED
    BY <1>8, <2>1, <2>2, <2>3, <2>4
<1>11. pc'[t] \notin Collectives
  BY <1>8 DEF Collectives
<1>12. RanksInStep'
  BY <1>6, <1>11, InStepKept
<1>13. \A u \in Threads : calls[u] \in Nat /\ calls[t] <= calls[u] /\ calls'[t] <= calls[u]
  BY <1>1, <1>2 DEF ThreadTypes
<1>14. NoneCompletes'
  <2>1. ASSUME cancelled, operation = "Train" PROVE pc'[t] \notin {"clip", "clipped"} /\ results'[t] # "done"
    <3>1. PICK c \in Threads :
             /\ calls[t] = calls[c] \/ (pc[t] = "forwardBackward" /\ calls[t] > calls[c])
             /\ pc[t] = "forwardBackward" /\ calls[t] = calls[c] => micro[t] < MicroBatches
      BY <2>1 DEF TrainerIInv, NoneCompletes
    <3>2. calls[t] = calls[c]
      BY <1>13, <3>1
    <3>3. pc[t] = "forwardBackward" /\ micro[t] < MicroBatches
      BY <1>8, <2>1, <3>1, <3>2
    <3>4. QED
      BY <1>8, <3>3, TrainerNumbers DEF NoResult
  <2>2. results[t] # "cancelled" /\ calls'[t] = calls[t] /\ pc'[t] # "forwardBackward"
    BY <1>1, <1>2, <1>11 DEF NoResult, Collectives
  <2>3. QED
    BY <1>3, <1>6, <1>13, <2>1, <2>2, IncompleteKept
<1>15. Begun(t)' = Begun(t) + 0 /\ calls'[t] = calls[t] + 0
  BY <1>1, <1>2, <1>10, <1>13, CountsAreNumbers DEF TrainerIInv
<1>16. QED
  BY <1>1, <1>6, <1>7, <1>9, <1>10, <1>12, <1>13, <1>14, <1>15, InnerKeeps

\* The thread that finds the token set tells the others: none of them has completed, since
\* this one has not begun the pass that they would have to have finished.
LEMMA CheckCancelledKeeps ==
  ASSUME TrainerIInv, NEW t \in Threads, CheckCancelled(t)
  PROVE  TrainerIInv'
<1>1. /\ pc[t] = "check" /\ token
      /\ cancelled' = TRUE /\ waiting' = NotifyAll /\ UNCHANGED <<count, generation, ticket>>
      /\ results' = [results EXCEPT ![t] = "cancelled"]
      /\ pc' = [pc EXCEPT ![t] = "recv"]
      /\ UNCHANGED <<ownerVars, assigned, micro, calls>>
  BY DEF CheckCancelled, Aborts, Cancel
<1>2. /\ ThreadTypes /\ BarrierTypes /\ OwnerTypes /\ ThreadInPlace(t)
      /\ operation = "Train" /\ ~assigned[t] /\ micro[t] \in 1 .. MicroBatches /\ micro[t] \in Nat
      /\ waiting[t] = "out"
  <2>1. ThreadTypes /\ BarrierTypes /\ OwnerTypes /\ ThreadInPlace(t)
    BY TypesSplit DEF TrainerIInv
  <2>2. QED
    BY <1>1, <2>1, TrainerNumbers DEF ThreadInPlace, Places, ThreadTypes, WaitPoints, BarrierTypes
<1>3. /\ pc'[t] = "recv" /\ results'[t] = "cancelled" /\ OthersStay(t)
      /\ operation' = operation /\ clips' = clips /\ token' = token
  BY <1>1, <1>2 DEF OthersStay, ThreadTypes, ownerVars
<1>4. /\ waiting' \in [Threads -> {"out", "asleep", "awake"}]
      /\ \A u \in Threads : waiting'[u] # "out" => waiting[u] # "out"
  BY <1>1, <1>2 DEF NotifyAll, BarrierTypes
<1>5. ThreadInPlace(t)'
  BY <1>1, <1>2, <1>3, <1>4 DEF ThreadInPlace, Places, NoResult
<1>6. (\A u \in Threads : ThreadInPlace(u))'
  <2>1. \A u \in Threads : ticket'[u] <= generation'
    BY <1>1 DEF TrainerIInv, ThreadInPlace
  <2>2. cancelled' \in BOOLEAN /\ (cancelled => cancelled') /\ operation # "idle"
    BY <1>1, <1>2
  <2>3. QED
    BY <1>3, <1>4, <1>5, <2>1, <2>2, OthersInPlace
<1>7. \A u \in Threads : calls[u] \in Nat /\ calls[t] <= calls[u]
  BY <1>1, <1>2 DEF TrainerIInv, CallsTogether, ThreadTypes, Collectives
<1>8. CallsTogether'
  <2>1. Begun(t) = micro[t] - 1
    BY <1>1 DEF Begun, BegunAt
  <2>2. Begun(t)' = micro[t] - 1
    BY <1>1, <1>3 DEF Begun, BegunAt
  <2>3. Begun(t)' = Begun(t) + 0 /\ calls'[t] = calls[t] + 0 /\ calls'[t] = calls[t]
    BY <1>1, <1>2, <1>7, <2>1, <2>2
  <2>4. QED
    BY <1>3, <1>7, <2>3, CallsKept
<1>9. NoneCompletes'
  <2>1. PICK base \in Nat : \A u \in Threads : calls[u] = base + Begun(u)
    BY DEF TrainerIInv, CallsTogether
  <2>2. \A u \in Threads : Begun(u) \in Nat
    BY CountsAreNumbers DEF TrainerIInv
  <2>3. Begun(t) = micro[t] - 1
    BY <1>1 DEF Begun, BegunAt
  <2> SUFFICES ASSUME NEW u \in Threads
               PROVE  /\ pc'[u] \notin {"clip", "clipped"} /\ results'[u] # "done"
                      /\ calls'[u] = calls'[t] \/ (pc'[u] = "forwardBackward" /\ calls'[u] > calls'[t])
                      /\ pc'[u] = "forwardBackward" /\ calls'[u] = calls'[t] => micro'[u] < MicroBatches
    BY <1>3 DEF NoneCompletes
  <2>4. CASE u = t
    BY <1>1, <1>3, <2>4
  <2>5. CASE u # t
    <3>1. /\ pc'[u] = pc[u] /\ results'[u] = results[u] /\ micro'[u] = micro[u]
          /\ calls'[u] = calls[u] /\ calls'[t] = calls[t] /\ ThreadInPlace(u)
      BY <1>1, <1>3, <2>5 DEF OthersStay, TrainerIInv
    <3>2. CASE pc[u] \in Collectives
      <4>1. pc[u] = "forwardBackward" /\ results[u] = NoResult
        BY <1>2, <3>1, <3>2 DEF ThreadInPlace, Places, Collectives
      <4>2. Begun(u) = micro[u]
        BY <4>1 DEF Begun, BegunAt
      <4>3. calls[u] = calls[t] => micro[u] < MicroBatches
        BY <1>2, <2>1, <2>2, <2>3, <4>2, TrainerNumbers
      <4>4. calls[u] = calls[t] \/ calls[u] > calls[t]
        BY <1>7
      <4>5. QED
        BY <3>1, <4>1, <4>3, <4>4 DEF NoResult
    <3>3. CASE pc[u] \notin Collectives
      <4>1. calls[u] = calls[t]
        BY <1>7, <3>3 DEF TrainerIInv, CallsTogether
      <4>2. Begun(u) < MicroBatches
        BY <1>2, <2>1, <2>2, <2>3, <4>1, TrainerNumbers
      <4>3. pc[u] \notin {"clip", "clipped"}
        BY <4>2, TrainerNumbers DEF Begun, BegunAt
      <4>4. results[u] # "done"
        <5>1. results[u] = "done" => pc[u] = "recv"
          BY <3>1 DEF ThreadInPlace, NoResult
        <5>2. pc[u] = "recv" /\ results[u] = "done" => Begun(u) = MicroBatches
          BY <1>2 DEF Begun, BegunAt
        <5>3. QED
          BY <4>2, <5>1, <5>2, TrainerNumbers
      <4>5. pc[u] # "forwardBackward"
        BY <3>3 DEF Collectives
      <4>6. QED
        BY <3>1, <4>1, <4>3, <4>4, <4>5
    <3>4. QED
      BY <3>2, <3>3
  <2>6. QED
    BY <2>4, <2>5
<1>10. BarrierCounts'
  BY <1>1 DEF BarrierCounts
<1>11. RanksInStep'
  BY <1>3, InStepKept DEF Collectives
<1>12. TrainerTypes'
  <2>1. ThreadTypes'
    BY <1>1, <1>2 DEF ThreadTypes
  <2>2. BarrierTypes'
    BY <1>1, <1>2, <1>4 DEF BarrierTypes
  <2>3. OwnerTypes'
    BY <1>1, <1>2 DEF OwnerTypes, ownerVars
  <2>4. operation' = "Train" /\ token'
    BY <1>1, <1>2, <1>3
  <2>5. QED
    BY <2>1, <2>2, <2>3, <2>4 DEF TrainerTypes, TypeOK, ThreadTypes, BarrierTypes, OwnerTypes
<1>13. QED
  BY <1>6, <1>8, <1>9, <1>10, <1>11, <1>12 DEF TrainerIInv

\* A thread that goes to sleep, or is woken, has done nothing else.
LEMMA WaitBlocksKeeps ==
  ASSUME TrainerIInv, NEW t \in Threads, WaitBlocks(t) \/ Spurious(t)
  PROVE  TrainerIInv'
<1>1. UNCHANGED <<ownerVars, threadVars>> /\ generation' = generation /\ cancelled' = cancelled
  BY DEF WaitBlocks, Spurious, Blocks, SleepsAgain, WakesSpuriously
<1>2. /\ ThreadTypes /\ BarrierTypes /\ OwnerTypes /\ ThreadInPlace(t)
  BY TypesSplit DEF TrainerIInv
<1>3. \/ /\ waiting[t] = "out" /\ ~cancelled /\ count + 1 < NumThreads /\ pc[t] \in WaitPoints
         /\ count' = count + 1 /\ ticket' = [ticket EXCEPT ![t] = generation]
         /\ waiting' = [waiting EXCEPT ![t] = "asleep"]
      \/ /\ waiting[t] # "out" /\ count' = count /\ ticket' = ticket
         /\ \E s \in {"asleep", "awake"} : waiting' = [waiting EXCEPT ![t] = s]
  <2>1. ~LastArrival => count + 1 < NumThreads
    BY <1>2, TrainerNumbers DEF LastArrival, BarrierTypes
  <2>2. QED
    BY <2>1 DEF WaitBlocks, Spurious, Blocks, SleepsAgain, WakesSpuriously
<1>4. /\ pc' = pc /\ results' = results /\ micro' = micro /\ calls' = calls /\ assigned' = assigned
      /\ operation' = operation /\ clips' = clips /\ token' = token /\ can_do_inference' = can_do_inference
  BY <1>1 DEF ownerVars, threadVars
<1>5. /\ waiting' \in [Threads -> {"out", "asleep", "awake"}] /\ ticket' \in [Threads -> Nat]
      /\ waiting'[t] # "out" /\ pc[t] \in WaitPoints
      /\ \A u \in Threads \ {t} : waiting'[u] = waiting[u] /\ ticket'[u] = ticket[u]
      /\ \A u \in Threads : ticket'[u] <= generation
  <2>1. waiting' \in [Threads -> {"out", "asleep", "awake"}] /\ ticket' \in [Threads -> Nat]
    BY <1>2, <1>3 DEF BarrierTypes
  <2>2. /\ waiting'[t] # "out"
        /\ \A u \in Threads \ {t} : waiting'[u] = waiting[u] /\ ticket'[u] = ticket[u]
    BY <1>2, <1>3 DEF BarrierTypes
  <2>3. pc[t] \in WaitPoints
    BY <1>2, <1>3 DEF ThreadInPlace
  <2>4. ticket'[t] <= generation
    <3>1. ticket'[t] = generation \/ ticket'[t] = ticket[t]
      BY <1>2, <1>3 DEF BarrierTypes
    <3>2. QED
      BY <1>2, <3>1 DEF BarrierTypes, ThreadInPlace
  <2>5. QED
    BY <2>1, <2>2, <2>3, <2>4 DEF TrainerIInv, ThreadInPlace
<1>6. count' \in 0 .. NumThreads - 1
  BY <1>2, <1>3, TrainerNumbers DEF BarrierTypes
<1>7. TrainerTypes'
  <2>1. TrainerTypes
    BY DEF TrainerIInv
  <2>2. QED
    BY <1>1, <1>2, <1>4, <1>5, <1>6, <2>1 DEF TrainerTypes, TypeOK, BarrierTypes
<1>8. (\A u \in Threads : ThreadInPlace(u))'
  <2>1. ThreadInPlace(t)'
    BY <1>1, <1>2, <1>4, <1>5 DEF ThreadInPlace
  <2>2. QED
    BY <1>1, <1>2, <1>4, <1>5, <2>1, OthersInPlace DEF OthersStay, BarrierTypes
<1>9. CallsTogether' /\ NoneCompletes' /\ RanksInStep'
  BY <1>1, <1>4 DEF TrainerIInv, CallsTogether, NoneCompletes, RanksInStep, Begun
<1>10. BarrierCounts'
  <2> SUFFICES ASSUME ~cancelled PROVE BarrierCounts'
    BY <1>1 DEF BarrierCounts
  <2>1. \A u \in Threads : Passed(u)' = Passed(u) /\ Released(u)' = Released(u)
    <3>1. Released(t)' = Released(t)
      BY <1>1, <1>2, <1>3, <1>5 DEF Released, BarrierTypes
    <3>2. QED
      BY <1>1, <1>4, <1>5, <3>1 DEF Passed, Released
  <2>2. count' = Cardinality(Counted')
    <3>1. CASE waiting[t] # "out" /\ count' = count /\ ticket' = ticket
      <4>1. Counted' = Counted
        BY <1>1, <1>5, <3>1 DEF Counted
      <4>2. QED
        BY <3>1, <4>1 DEF TrainerIInv, BarrierCounts
    <3>2. CASE waiting[t] = "out" /\ count' = count + 1 /\ ticket' = [ticket EXCEPT ![t] = generation]
      <4>1. t \notin Counted /\ Counted' = Counted \union {t}
        BY <1>1, <1>2, <1>5, <3>2 DEF Counted, BarrierTypes
      <4>2. IsFiniteSet(Threads) /\ Counted \subseteq Threads
        BY FS_Interval, TrainerNumbers DEF Threads, Counted
      <4>3. Cardinality(Counted') = Cardinality(Counted) + 1
        BY <4>1, <4>2, FS_Subset, FS_AddElement
      <4>4. QED
        BY <3>2, <4>3 DEF TrainerIInv, BarrierCounts
    <3>3. QED
      BY <1>3, <3>1, <3>2
  <2>3. QED
    BY <1>1, <1>4, <2>1, <2>2 DEF TrainerIInv, BarrierCounts
<1>11. QED
  BY <1>7, <1>8, <1>9, <1>10 DEF TrainerIInv

\* A wait that fails: the training is cancelled, or the thread had not booted.
LEMMA WaitFailsKeeps ==
  ASSUME TrainerIInv, NEW t \in Threads, WaitFails(t)
  PROVE  TrainerIInv'
<1>1. /\ pc[t] \in WaitPoints /\ cancelled
      /\ UNCHANGED <<ownerVars, assigned, micro, calls>>
      /\ UNCHANGED <<count, generation, cancelled, ticket>>
      /\ (waiting' = waiting /\ waiting[t] = "out") \/ waiting' = [waiting EXCEPT ![t] = "out"]
  BY DEF WaitFails, WaitReturns, Refuses, Leaves, barrierVars
<1>2. ThreadTypes /\ BarrierTypes /\ OwnerTypes /\ ThreadInPlace(t)
  BY TypesSplit DEF TrainerIInv
<1>3. operation = "Train"
  <2>1. operation \in {"Train", "idle"}
    BY <1>1, TypesSplit DEF TrainerIInv
  <2>2. QED
    BY <1>1, <1>2, <2>1 DEF ThreadInPlace, WaitPoints
<1>4. pc[t] \in {"boot", "enter"} /\ results[t] = NoResult
  <2>1. pc[t] \notin {"clip", "clipped"}
    BY <1>1, <1>3 DEF TrainerIInv, NoneCompletes
  <2>2. pc[t] \in {"boot", "enter"}
    BY <1>1, <1>2, <1>3, <2>1 DEF ThreadInPlace, Places, WaitPoints
  <2>3. QED
    BY <1>2, <2>2 DEF ThreadInPlace
<1>5. \/ pc[t] = "boot" /\ pc' = [pc EXCEPT ![t] = "ended"] /\ results' = results
      \/ pc[t] = "enter" /\ pc' = [pc EXCEPT ![t] = "recv"] /\ results' = [results EXCEPT ![t] = "cancelled"]
  BY <1>4 DEF WaitFails, Aborted
<1>6. /\ \/ pc[t] = "boot" /\ pc'[t] = "ended" /\ results'[t] = NoResult
         \/ pc[t] = "enter" /\ pc'[t] = "recv" /\ results'[t] = "cancelled"
      /\ OthersStay(t) /\ ThreadTypes'
  <2>1. \/ pc[t] = "boot" /\ pc'[t] = "ended" /\ results'[t] = NoResult
        \/ pc[t] = "enter" /\ pc'[t] = "recv" /\ results'[t] = "cancelled"
    BY <1>2, <1>4, <1>5 DEF ThreadTypes
  <2>2. OthersStay(t)
    BY <1>1, <1>2, <1>5 DEF ThreadTypes, OthersStay, ownerVars
  <2>3. ThreadTypes'
    BY <1>1, <1>2, <1>5 DEF ThreadTypes
  <2>4. QED
    BY <2>1, <2>2, <2>3
<1>7. /\ waiting' \in [Threads -> {"out", "asleep", "awake"}] /\ waiting'[t] = "out"
      /\ \A u \in Threads \ {t} : waiting'[u] = waiting[u]
  BY <1>1, <1>2 DEF BarrierTypes
<1>8. operation' = operation /\ clips' = clips /\ token' = token
  BY <1>1 DEF ownerVars
<1>9. TrainerTypes'
  <2>1. BarrierTypes'
    BY <1>1, <1>2, <1>7 DEF BarrierTypes
  <2>2. OwnerTypes'
    BY <1>1, <1>2 DEF OwnerTypes, ownerVars
  <2>3. cancelled => operation \in {"Train", "idle"} /\ (operation = "Train" => token)
    BY TypesSplit DEF TrainerIInv
  <2>4. QED
    BY <1>1, <1>6, <1>8, <2>1, <2>2, <2>3 DEF TrainerTypes, TypeOK, ThreadTypes, BarrierTypes, OwnerTypes
<1>10. ThreadInPlace(t)'
  BY <1>1, <1>2, <1>3, <1>6, <1>7, <1>8 DEF ThreadInPlace, Places, NoResult
<1>11. (\A u \in Threads : ThreadInPlace(u))'
  <2>1. \A u \in Threads : ticket'[u] <= generation'
    BY <1>1 DEF TrainerIInv, ThreadInPlace
  <2>2. cancelled' \in BOOLEAN /\ cancelled' = cancelled
    BY <1>1, <1>2 DEF BarrierTypes
  <2>3. QED
    BY <1>6, <1>7, <1>10, <2>1, <2>2, OthersInPlace
<1>12. \A u \in Threads : calls[u] \in Nat /\ calls[t] <= calls[u]
  BY <1>2, <1>4 DEF TrainerIInv, CallsTogether, ThreadTypes, Collectives
<1>13. CallsTogether'
  <2>1. Begun(t)' = Begun(t)
    BY <1>1, <1>6 DEF Begun, BegunAt, NoResult
  <2>2. Begun(t)' = Begun(t) + 0 /\ calls'[t] = calls[t] + 0 /\ calls'[t] = calls[t]
    BY <1>1, <1>2, <1>12, <2>1, CountsAreNumbers DEF TrainerIInv
  <2>3. QED
    BY <1>6, <1>12, <2>2, CallsKept
<1>14. RanksInStep'
  BY <1>6, InStepKept DEF Collectives
<1>15. NoneCompletes'
  BY <1>1, <1>4, <1>6, IncompleteKept DEF NoResult
<1>16. BarrierCounts'
  BY <1>1 DEF BarrierCounts
<1>17. QED
  BY <1>9, <1>11, <1>13, <1>14, <1>15, <1>16 DEF TrainerIInv

\* What a wait that succeeds does to the barrier: it lets one thread go that it has
\* released, or it is the last one and releases all others.
LEMMA BarrierLetsGo ==
  ASSUME TrainerIInv, NEW t \in Threads, WaitReturns(t, TRUE)
  PROVE  /\ ~cancelled /\ cancelled' = FALSE /\ BarrierTypes'
         /\ waiting'[t] = "out" /\ \A u \in Threads : waiting'[u] # "out" => waiting[u] # "out"
         /\ \A u \in Threads : ticket'[u] <= generation'
         /\ count' = Cardinality(Counted')
         /\ \/ /\ Counted = Threads \ {t} /\ Released(t) = 0 /\ Released(t)' = 0
               /\ \A u \in Threads \ {t} : Released(u) = 0 /\ Released(u)' = 1
            \/ /\ Released(t) = 1 /\ Released(t)' = 0
               /\ \A u \in Threads \ {t} : Released(u)' = Released(u)
<1>1. ~cancelled /\ (Opens(t) \/ Leaves(t)) /\ cancelled' = cancelled /\ ticket' = ticket
  <2>1. cancelled \in BOOLEAN
    BY TypesSplit DEF TrainerIInv, BarrierTypes
  <2>2. QED
    BY <2>1 DEF WaitReturns, Opens, Leaves
<1>2. /\ BarrierTypes /\ count = Cardinality(Counted)
      /\ \A u \in Threads : ticket[u] <= generation
  BY <1>1, TypesSplit DEF TrainerIInv, BarrierCounts, ThreadInPlace
<1>3. IsFiniteSet(Threads) /\ Cardinality(Threads) = NumThreads /\ Counted \subseteq Threads /\ IsFiniteSet(Counted)
  <2>1. IsFiniteSet(Threads) /\ Cardinality(Threads) = NumThreads
    <3>1. IsFiniteSet(1 .. NumThreads) /\ Cardinality(1 .. NumThreads) = IF 1 > NumThreads THEN 0 ELSE NumThreads - 1 + 1
      BY FS_Interval, TrainerNumbers
    <3>2. QED
      BY <3>1, TrainerNumbers DEF Threads
  <2>2. QED
    BY <2>1, FS_Subset DEF Counted
<1>4. CASE Opens(t)
  <2>1. /\ waiting[t] = "out" /\ count + 1 >= NumThreads /\ count' = 0 /\ generation' = generation + 1
        /\ waiting' = NotifyAll
    BY <1>4 DEF Opens, LastArrival
  <2>2. waiting' \in [Threads -> {"out", "asleep", "awake"}]
        /\ \A u \in Threads : waiting'[u] # "out" <=> waiting[u] # "out"
    BY <1>2, <2>1 DEF NotifyAll, BarrierTypes
  <2>3. Counted = Threads \ {t}
    <3>1. Counted \subseteq Threads \ {t}
      BY <2>1 DEF Counted
    <3>2. IsFiniteSet(Threads \ {t}) /\ Cardinality(Threads \ {t}) = NumThreads - 1
      BY <1>3, FS_RemoveElement
    <3>3. Cardinality(Counted) <= NumThreads - 1
      BY <3>1, <3>2, FS_Subset
    <3>4. Cardinality(Counted) = NumThreads - 1
      BY <1>2, <2>1, <3>3, TrainerNumbers DEF BarrierTypes
    <3>5. QED
      BY <3>1, <3>2, <3>4, FS_Subset
  <2>4. \A u \in Threads \ {t} : waiting[u] # "out" /\ ticket[u] = generation
    BY <2>3 DEF Counted
  <2>5. generation \in Nat /\ \A u \in Threads : ticket[u] \in Nat /\ ticket[u] # generation + 1 /\ ticket[u] <= generation + 1
    BY <1>2 DEF BarrierTypes
  <2>6. Counted' = {}
    BY <1>1, <2>1, <2>5 DEF Counted
  <2>7. count' = Cardinality(Counted')
    BY <2>1, <2>6, FS_EmptySet
  <2>8. /\ Released(t) = 0 /\ Released(t)' = 0
        /\ \A u \in Threads \ {t} : Released(u) = 0 /\ Released(u)' = 1
    BY <1>1, <2>1, <2>2, <2>4, <2>5 DEF Released
  <2>9. BarrierTypes'
    BY <1>1, <1>2, <2>1, <2>2, TrainerNumbers DEF BarrierTypes
  <2>10. QED
    BY <1>1, <1>2, <2>1, <2>2, <2>3, <2>5, <2>7, <2>8, <2>9
<1>5. CASE Leaves(t)
  <2>1. /\ waiting[t] = "awake" /\ ~MustWait(t) /\ waiting' = [waiting EXCEPT ![t] = "out"]
        /\ count' = count /\ generation' = generation
    BY <1>5 DEF Leaves
  <2>2. ticket[t] # generation
    BY <1>1, <1>2, <2>1, TrainerNumbers DEF MustWait, BarrierTypes
  <2>3. /\ waiting' \in [Threads -> {"out", "asleep", "awake"}] /\ waiting'[t] = "out"
        /\ \A u \in Threads \ {t} : waiting'[u] = waiting[u]
    BY <1>2, <2>1 DEF BarrierTypes
  <2>4. Counted' = Counted
    BY <1>1, <2>1, <2>2, <2>3 DEF Counted
  <2>5. Released(t) = 1 /\ Released(t)' = 0 /\ \A u \in Threads \ {t} : Released(u)' = Released(u)
    BY <1>1, <2>1, <2>2, <2>3 DEF Released
  <2>6. BarrierTypes'
    BY <1>1, <1>2, <2>1, <2>3 DEF BarrierTypes
  <2>7. QED
    BY <1>1, <1>2, <2>1, <2>3, <2>4, <2>5, <2>6
<1>6. QED
  BY <1>1, <1>4, <1>5

\* A thread passes a wait.
LEMMA PassKeeps ==
  ASSUME TrainerIInv, NEW t \in Threads, pc[t] \in WaitPoints, WaitReturns(t, TRUE), OthersStay(t),
         ThreadTypes', ThreadInPlace(t)', NEW k \in {0, 1},
         Begun(t)' = Begun(t) + k, calls'[t] = calls[t] + k,
         pc'[t] \notin Collectives => k = 0,
         Passed(t)' = Passed(t) + 1
  PROVE  /\ TrainerTypes' /\ (\A u \in Threads : ThreadInPlace(u))' /\ CallsTogether' /\ NoneCompletes' /\ BarrierCounts'
<1>1. /\ ~cancelled /\ cancelled' = FALSE /\ BarrierTypes'
      /\ waiting'[t] = "out" /\ \A u \in Threads : waiting'[u] # "out" => waiting[u] # "out"
      /\ \A u \in Threads : ticket'[u] <= generation'
      /\ count' = Cardinality(Counted')
      /\ \/ /\ Counted = Threads \ {t} /\ Released(t) = 0 /\ Released(t)' = 0
            /\ \A u \in Threads \ {t} : Released(u) = 0 /\ Released(u)' = 1
         \/ /\ Released(t) = 1 /\ Released(t)' = 0
            /\ \A u \in Threads \ {t} : Released(u)' = Released(u)
  BY BarrierLetsGo
<1>2. TrainerTypes /\ OwnerTypes /\ operation' = operation /\ clips' = clips
  BY TypesSplit DEF TrainerIInv, OthersStay
<1>3. TrainerTypes'
  BY <1>1, <1>2 DEF TrainerTypes, TypeOK, ThreadTypes, BarrierTypes, OwnerTypes, OthersStay
<1>4. (\A u \in Threads : ThreadInPlace(u))'
  <2>1. cancelled' \in BOOLEAN /\ (cancelled => cancelled') /\ (operation = "idle" => cancelled' = cancelled)
    <3>1. cancelled \in BOOLEAN
      BY <1>2, TypesSplit DEF BarrierTypes
    <3>2. QED
      BY <1>1, <3>1
  <2>2. \A u \in Threads \ {t} : waiting'[u] # "out" => waiting[u] # "out"
    BY <1>1
  <2>3. \A u \in Threads \ {t} : ticket'[u] <= generation'
    BY <1>1
  <2>4. QED
    BY <2>1, <2>2, <2>3, OthersInPlace
<1>5. \A u \in Threads : calls[u] \in Nat /\ calls[t] <= calls[u]
  <2>1. pc[t] \notin Collectives
    BY DEF WaitPoints, Collectives
  <2>2. QED
    BY <2>1, CountsAreNumbers DEF TrainerIInv, CallsTogether
<1>6. CallsTogether'
  <2>1. pc'[t] \notin Collectives => \A u \in Threads : calls'[t] <= calls[u]
    BY <1>5
  <2>2. QED
    BY <2>1, CallsKept
<1>7. NoneCompletes'
  BY <1>1 DEF NoneCompletes
<1>8. BarrierCounts'
  <2> SUFFICES ASSUME operation # "idle" PROVE BarrierCounts'
    BY <1>1, <1>2 DEF BarrierCounts
  <2>1. PICK g \in Int, late \in SUBSET Threads :
           /\ \A u \in Threads : Passed(u) + Released(u) = IF u \in late THEN g - 1 ELSE g
           /\ operation = "Train" /\ late # {} /\ late # Threads => g <= 1
    BY <1>1 DEF TrainerIInv, BarrierCounts
  <2>2. \A u \in Threads \ {t} : Passed(u)' = Passed(u)
    BY DEF OthersStay, Passed
  <2>3. \A u \in Threads : Passed(u) \in Int /\ Begun(u) \in Nat
    BY CountsAreNumbers DEF TrainerIInv
  <2>4. CASE /\ Released(t) = 1 /\ Released(t)' = 0
             /\ \A u \in Threads \ {t} : Released(u)' = Released(u)
    <3>1. \A u \in Threads : Passed(u)' + Released(u)' = IF u \in late THEN g - 1 ELSE g
      BY <2>1, <2>2, <2>3, <2>4
    <3>2. QED
      BY <1>1, <1>2, <2>1, <3>1 DEF BarrierCounts
  <2>5. CASE /\ Counted = Threads \ {t} /\ Released(t) = 0 /\ Released(t)' = 0
             /\ \A u \in Threads \ {t} : Released(u) = 0 /\ Released(u)' = 1
    <3>1. \A u \in Threads : Passed(u)' + Released(u)' = IF u \in late THEN (g + 1) - 1 ELSE g + 1
      BY <2>1, <2>2, <2>3, <2>5
    <3>2. \A u \in Threads : Passed(u) = IF u \in late THEN g - 1 ELSE g
      BY <2>1, <2>3, <2>5
    <3>3. \A u \in Threads : pc[u] \in WaitPoints
      BY <2>5 DEF Counted, TrainerIInv, ThreadInPlace
    <3>4. ASSUME operation = "Train", late # {}, late # Threads, ~(g + 1 <= 1) PROVE FALSE
      <4>1. g = 1
        BY <2>1, <3>4
      <4>2. PICK a \in Threads, b \in Threads : a \in late /\ b \notin late
        BY <3>4
      <4>3. Passed(a) = 0 /\ Passed(b) = 1
        BY <3>2, <4>1, <4>2
      <4>4. \A u \in Threads : pc[u] \in {"boot", "enter", "clip", "clipped"} /\ micro[u] \in Nat
        <5>1. \A u \in Threads : pc[u] \in {"boot", "enter", "clip", "clipped"}
          BY <3>3, <3>4 DEF TrainerIInv, ThreadInPlace, Places, WaitPoints
        <5>2. QED
          BY <1>2, <5>1 DEF TrainerTypes
      <4>5. Begun(a) = 0
        BY <4>3, <4>4, TrainerNumbers DEF Begun, BegunAt, Passed, PassedAt
      <4>6. Begun(b) = 1
        BY <4>3, <4>4, TrainerNumbers DEF Begun, BegunAt, Passed, PassedAt
      <4>7. PICK base \in Nat : \A u \in Threads : calls[u] = base + Begun(u)
        BY DEF TrainerIInv, CallsTogether
      <4>8. calls[b] <= calls[a]
        BY <3>3 DEF TrainerIInv, CallsTogether, WaitPoints, Collectives
      <4>9. QED
        BY <4>5, <4>6, <4>7, <4>8
    <3>5. g + 1 \in Int
      OBVIOUS
    <3>6. QED
      BY <1>1, <1>2, <3>1, <3>4, <3>5 DEF BarrierCounts
  <2>6. QED
    BY <1>1, <2>4, <2>5
<1>9. QED
  BY <1>3, <1>4, <1>6, <1>7, <1>8

\* Two threads in a pass over the model have passed the barrier as often, unless one of
\* them came late; then the other one is at most one ahead, and has not begun.
LEMMA InStepAtBarrier ==
  ASSUME TrainerTypes', (\A u \in Threads : ThreadInPlace(u))', CallsTogether', BarrierCounts', ~cancelled'
  PROVE  RanksInStep'
<1> SUFFICES ASSUME NEW u \in Threads, NEW v \in Threads, pc'[u] \in Collectives, pc'[v] \in Collectives
             PROVE  calls'[u] = calls'[v]
  BY DEF RanksInStep
<1>1. PICK base \in Nat : \A w \in Threads : calls'[w] = base + Begun(w)'
  BY DEF CallsTogether
<1>2. pc'[u] \in Places(operation') /\ pc'[v] \in Places(operation')
  BY DEF ThreadInPlace
<1>3. CASE pc'[u] # "forwardBackward"
  <2>1. pc'[v] # "forwardBackward"
    BY <1>2, <1>3 DEF Places, Collectives
  <2>2. Begun(u)' = 1 /\ Begun(v)' = 1
    BY <1>3, <2>1 DEF Begun, BegunAt, Collectives
  <2>3. QED
    BY <1>1, <2>2
<1>4. CASE pc'[u] = "forwardBackward"
  <2>1. operation' = "Train"
    BY <1>2, <1>4 DEF Places
  <2>2. pc'[v] = "forwardBackward"
    BY <1>2, <2>1 DEF Places, Collectives
  <2>3. waiting'[u] = "out" /\ waiting'[v] = "out" /\ micro'[u] \in 1 .. MicroBatches /\ micro'[v] \in 1 .. MicroBatches
    BY <1>4, <2>2 DEF ThreadInPlace, WaitPoints
  <2>4. /\ Released(u)' = 0 /\ Released(v)' = 0
        /\ Passed(u)' = micro'[u] /\ Passed(v)' = micro'[v]
        /\ Begun(u)' = micro'[u] /\ Begun(v)' = micro'[v]
    BY <1>4, <2>2, <2>3 DEF Released, Passed, PassedAt, Begun, BegunAt
  <2>5. PICK g \in Int, late \in SUBSET Threads :
          /\ \A w \in Threads : Passed(w)' + Released(w)' = IF w \in late THEN g - 1 ELSE g
          /\ operation' = "Train" /\ late # {} /\ late # Threads => g <= 1
    BY <2>1 DEF BarrierCounts
  <2>6. /\ micro'[u] = IF u \in late THEN g - 1 ELSE g
        /\ micro'[v] = IF v \in late THEN g - 1 ELSE g
    BY <2>3, <2>4, <2>5, TrainerNumbers
  <2>7. micro'[u] = micro'[v]
    <3>1. ASSUME u \in late, v \notin late PROVE FALSE
      BY <2>1, <2>3, <2>5, <2>6, <3>1, TrainerNumbers
    <3>2. ASSUME u \notin late, v \in late PROVE FALSE
      BY <2>1, <2>3, <2>5, <2>6, <3>2, TrainerNumbers
    <3>3. QED
      BY <2>6, <3>1, <3>2
  <2>8. QED
    BY <1>1, <2>4, <2>7
<1>5. QED
  BY <1>3, <1>4

\* A wait that succeeds, in the middle of an operation or at the boot.
LEMMA WaitSucceedsKeeps ==
  ASSUME TrainerIInv, NEW t \in Threads, WaitSucceeds(t)
  PROVE  TrainerIInv'
<1>1. /\ WaitReturns(t, TRUE) /\ UNCHANGED <<ownerVars, assigned, results, micro>>
      /\ \/ pc[t] = "boot" /\ pc' = [pc EXCEPT ![t] = "recv"] /\ calls' = calls
         \/ pc[t] = "enter" /\ pc' = [pc EXCEPT ![t] = "forwardBackward"] /\ calls' = [calls EXCEPT ![t] = @ + 1]
         \/ pc[t] = "clip" /\ pc' = [pc EXCEPT ![t] = "clipped"] /\ calls' = calls
         \/ pc[t] = "apply" /\ pc' = [pc EXCEPT ![t] = "applied"] /\ calls' = calls
         \/ pc[t] = "infer" /\ pc' = [pc EXCEPT ![t] = "forward"] /\ calls' = [calls EXCEPT ![t] = @ + 1]
  <2>1. DOMAIN AfterWait = {"boot", "enter", "clip", "apply", "infer"}
    BY DEF AfterWait
  <2>2. /\ AfterWait["boot"] = "recv" /\ AfterWait["enter"] = "forwardBackward" /\ AfterWait["clip"] = "clipped"
        /\ AfterWait["apply"] = "applied" /\ AfterWait["infer"] = "forward"
    BY DEF AfterWait
  <2>3. /\ pc[t] \in DOMAIN AfterWait /\ pc' = [pc EXCEPT ![t] = AfterWait[pc[t]]]
        /\ calls' = IF AfterWait[pc[t]] \in Collectives THEN [calls EXCEPT ![t] = @ + 1] ELSE calls
        /\ WaitReturns(t, TRUE) /\ UNCHANGED <<ownerVars, assigned, results, micro>>
    BY DEF WaitSucceeds
  <2>4. QED
    BY <2>1, <2>2, <2>3 DEF Collectives
<1>2. ThreadTypes /\ ThreadInPlace(t) /\ results[t] = NoResult /\ calls[t] \in Nat /\ micro[t] \in Nat
  <2>1. ThreadTypes /\ ThreadInPlace(t)
    BY TypesSplit DEF TrainerIInv
  <2>2. QED
    BY <1>1, <2>1 DEF ThreadInPlace, ThreadTypes
<1>3. /\ ~cancelled /\ cancelled' = FALSE /\ waiting'[t] = "out" /\ ticket'[t] <= generation'
  BY <1>1, BarrierLetsGo
<1>4. ThreadTypes'
  BY <1>1, <1>2 DEF ThreadTypes, WaitPoints, Collectives
<1>5. OthersStay(t)
  BY <1>1, <1>2 DEF OthersStay, ThreadTypes, ownerVars
<1>6. /\ results'[t] = NoResult /\ micro'[t] = micro[t] /\ operation' = operation /\ clips' = clips /\ assigned'[t] = assigned[t]
      /\ \/ pc[t] = "boot" /\ pc'[t] = "recv" /\ calls'[t] = calls[t]
         \/ pc[t] = "enter" /\ pc'[t] = "forwardBackward" /\ calls'[t] = calls[t] + 1
         \/ pc[t] = "clip" /\ pc'[t] = "clipped" /\ calls'[t] = calls[t]
         \/ pc[t] = "apply" /\ pc'[t] = "applied" /\ calls'[t] = calls[t]
         \/ pc[t] = "infer" /\ pc'[t] = "forward" /\ calls'[t] = calls[t] + 1
  BY <1>1, <1>2 DEF ThreadTypes, ownerVars
<1>7. ThreadInPlace(t)'
  <2>1. pc'[t] \in Places(operation')
    BY <1>2, <1>6 DEF ThreadInPlace, Places
  <2>2. QED
    BY <1>2, <1>3, <1>6, <2>1 DEF ThreadInPlace, NoResult
<1>8. Passed(t)' = Passed(t) + 1
  BY <1>2, <1>6, TrainerNumbers DEF Passed, PassedAt, NoResult
<1>9. pc[t] \in WaitPoints
  BY <1>1 DEF WaitPoints
<1>10. TrainerTypes' /\ (\A u \in Threads : ThreadInPlace(u))' /\ CallsTogether' /\ NoneCompletes' /\ BarrierCounts'
  <2>1. CASE pc[t] \in {"enter", "infer"}
    <3>1. Begun(t)' = Begun(t) + 1 /\ calls'[t] = calls[t] + 1 /\ pc'[t] \in Collectives
      BY <1>2, <1>6, <2>1, TrainerNumbers DEF Begun, BegunAt, NoResult, Collectives
    <3>2. QED
      BY <1>1, <1>4, <1>5, <1>7, <1>8, <1>9, <3>1, PassKeeps
  <2>2. CASE pc[t] \notin {"enter", "infer"}
    <3>1. Begun(t)' = Begun(t)
      BY <1>2, <1>6, <2>2, TrainerNumbers DEF Begun, BegunAt, NoResult
    <3>2. Begun(t)' = Begun(t) + 0 /\ calls'[t] = calls[t] + 0
      BY <1>2, <1>6, <2>2, <3>1, CountsAreNumbers DEF TrainerIInv
    <3>3. QED
      BY <1>1, <1>4, <1>5, <1>7, <1>8, <1>9, <3>2, PassKeeps
  <2>3. QED
    BY <2>1, <2>2
<1>11. RanksInStep'
  BY <1>3, <1>10, InStepAtBarrier
<1>12. QED
  BY <1>10, <1>11 DEF TrainerIInv

\* The last wait of a training or of an optimisation.
LEMMA WaitCompletesKeeps ==
  ASSUME TrainerIInv, NEW t \in Threads, WaitCompletes(t)
  PROVE  TrainerIInv'
<1>1. /\ WaitReturns(t, TRUE) /\ UNCHANGED <<ownerVars, assigned, micro, calls>>
      /\ pc[t] \in {"clipped", "applied"} /\ pc' = [pc EXCEPT ![t] = "recv"]
      /\ results' = [results EXCEPT ![t] = "done"]
  BY DEF WaitCompletes
<1>2. ThreadTypes /\ ThreadInPlace(t) /\ calls[t] \in Nat
  <2>1. ThreadTypes /\ ThreadInPlace(t)
    BY TypesSplit DEF TrainerIInv
  <2>2. QED
    BY <2>1 DEF ThreadTypes
<1>3. /\ ~cancelled /\ cancelled' = FALSE /\ waiting'[t] = "out" /\ ticket'[t] <= generation'
  BY <1>1, BarrierLetsGo
<1>4. ThreadTypes'
  BY <1>1, <1>2 DEF ThreadTypes
<1>5. OthersStay(t)
  BY <1>1, <1>2 DEF OthersStay, ThreadTypes, ownerVars
<1>6. /\ results'[t] = "done" /\ pc'[t] = "recv" /\ operation' = operation /\ clips' = clips
      /\ assigned'[t] = assigned[t] /\ calls'[t] = calls[t] /\ micro'[t] = micro[t]
  BY <1>1, <1>2 DEF ThreadTypes, ownerVars
<1>7. /\ operation \in {"Train", "Optimize"} /\ (pc[t] = "clipped" <=> operation = "Train")
      /\ (operation = "Train" => clips) /\ ~assigned[t]
  <2>1. operation \in Operations \cup {"idle"}
    BY TypesSplit DEF TrainerIInv, OwnerTypes
  <2>2. QED
    BY <1>1, <1>2, <2>1 DEF ThreadInPlace, Places, Operations
<1>8. ThreadInPlace(t)'
  <2>1. pc'[t] \in Places(operation') /\ operation' # "idle"
    BY <1>6, <1>7 DEF Places
  <2>2. QED
    BY <1>2, <1>3, <1>6, <1>7, <2>1 DEF ThreadInPlace, NoResult
<1>9. Passed(t)' = Passed(t) + 1
  BY <1>1, <1>6, <1>7, TrainerNumbers DEF Passed, PassedAt
<1>10. Begun(t)' = Begun(t)
  BY <1>1, <1>6, <1>7, TrainerNumbers DEF Begun, BegunAt
<1>11. Begun(t)' = Begun(t) + 0 /\ calls'[t] = calls[t] + 0
  BY <1>2, <1>6, <1>10, CountsAreNumbers DEF TrainerIInv
<1>12. pc[t] \in WaitPoints /\ pc'[t] \notin Collectives
  BY <1>1, <1>6 DEF WaitPoints, Collectives
<1>13. TrainerTypes' /\ (\A u \in Threads : ThreadInPlace(u))' /\ CallsTogether' /\ NoneCompletes' /\ BarrierCounts'
  BY <1>1, <1>4, <1>5, <1>8, <1>9, <1>11, <1>12, PassKeeps
<1>14. RanksInStep'
  BY <1>3, <1>13, InStepAtBarrier
<1>15. QED
  BY <1>13, <1>14 DEF TrainerIInv

\* The owner begins an operation: it finds every thread at the wait of its boot or
\* at recv(), and leaves nobody counted at the barrier.
LEMMA BeginKeeps ==
  ASSUME TrainerIInv, Begin
  PROVE  TrainerIInv'
<1>1. PICK op \in Operations, stop \in BOOLEAN :
        /\ operation = "idle" /\ operation' = op /\ token' = stop
        /\ assigned' = [t \in Threads |-> TRUE]
        /\ cancelled' = FALSE /\ count' = 0 /\ generation' = generation + 1
        /\ waiting' = waiting /\ ticket' = ticket
        /\ clips' = clips /\ can_do_inference' = can_do_inference /\ results' = results
        /\ pc' = pc /\ micro' = micro /\ calls' = calls
  BY DEF Begin, Reset
<1>2. ThreadTypes /\ BarrierTypes /\ OwnerTypes
  BY TypesSplit DEF TrainerIInv
<1>3. \A t \in Threads :
        /\ ThreadInPlace(t) /\ pc[t] \in {"boot", "recv"} /\ results[t] = NoResult
        /\ ticket[t] \in Nat /\ ticket[t] <= generation + 1 /\ ticket[t] # generation + 1
        /\ waiting[t] # "out" => pc[t] = "boot"
  <2>1. \A t \in Threads : ThreadInPlace(t)
    BY DEF TrainerIInv
  <2>2. \A t \in Threads : ticket[t] \in Nat /\ ticket[t] <= generation /\ generation \in Nat
    BY <1>2, <2>1 DEF ThreadInPlace, BarrierTypes
  <2>3. \A t \in Threads : ticket[t] <= generation + 1 /\ ticket[t] # generation + 1
    BY <2>2
  <2>4. \A t \in Threads : pc[t] \in {"boot", "recv"} /\ results[t] = NoResult
    BY <1>1, <2>1 DEF ThreadInPlace, Places
  <2>5. \A t \in Threads : waiting[t] # "out" => pc[t] = "boot"
    BY <2>1, <2>4 DEF ThreadInPlace, WaitPoints
  <2>6. QED
    BY <2>1, <2>2, <2>3, <2>4, <2>5
<1>4. operation' \in Operations /\ operation' # "idle"
  BY <1>1 DEF Operations
<1>5. TrainerTypes'
  <2>1. assigned' \in [Threads -> BOOLEAN] /\ generation' \in Nat /\ count' \in 0 .. NumThreads - 1
    BY <1>1, <1>2, TrainerNumbers DEF BarrierTypes
  <2>2. QED
    BY <1>1, <1>2, <2>1 DEF TrainerTypes, TypeOK, ThreadTypes, BarrierTypes, OwnerTypes
<1>6. \A t \in Threads : ThreadInPlace(t)'
  <2> SUFFICES ASSUME NEW t \in Threads PROVE ThreadInPlace(t)'
    OBVIOUS
  <2>1. pc'[t] \in Places(operation')
    BY <1>1, <1>3, <1>4 DEF Places
  <2>2. assigned'[t] /\ pc'[t] \in {"boot", "recv"} /\ results'[t] = NoResult /\ ticket'[t] <= generation'
    BY <1>1, <1>3
  <2>3. waiting'[t] # "out" => pc'[t] \in WaitPoints
    BY <1>1, <1>3 DEF WaitPoints
  <2>4. QED
    BY <1>1, <1>4, <2>1, <2>2, <2>3 DEF ThreadInPlace, NoResult
<1>7. CallsTogether'
  <2>1. \A t \in Threads : Begun(t) = 0 /\ Begun(t)' = 0
    BY <1>1, <1>3 DEF Begun, BegunAt, NoResult
  <2>2. QED
    BY <1>1, <2>1 DEF TrainerIInv, CallsTogether
<1>8. NoneCompletes' /\ RanksInStep'
  BY <1>1 DEF NoneCompletes, TrainerIInv, RanksInStep
<1>9. BarrierCounts'
  <2>1. Counted' = {}
    BY <1>1, <1>3 DEF Counted
  <2>2. count' = Cardinality(Counted')
    BY <1>1, <2>1, FS_EmptySet
  <2> DEFINE late == {t \in Threads : pc[t] = "boot" /\ waiting[t] = "out"}
  <2>3. \A t \in Threads : Passed(t)' = IF pc[t] = "boot" THEN -1 ELSE 0
    BY <1>1, <1>3 DEF Passed, PassedAt, NoResult
  <2>4. \A t \in Threads : Released(t)' = IF waiting[t] # "out" THEN 1 ELSE 0
    BY <1>1, <1>3 DEF Released
  <2>5. \A t \in Threads : Passed(t)' + Released(t)' = IF t \in late THEN 0 - 1 ELSE 0
    BY <1>3, <2>3, <2>4
  <2>6. late \in SUBSET Threads
    OBVIOUS
  <2> HIDE DEF late
  <2>7. \E g \in Int, l \in SUBSET Threads :
          /\ \A t \in Threads : Passed(t)' + Released(t)' = IF t \in l THEN g - 1 ELSE g
          /\ operation' = "Train" /\ l # {} /\ l # Threads => g <= 1
    <3>1. 0 \in Int /\ 0 <= 1
      OBVIOUS
    <3>2. QED
      BY <2>5, <2>6, <3>1
  <2>8. QED
    BY <2>2, <2>7 DEF BarrierCounts
<1>10. QED
  BY <1>5, <1>6, <1>7, <1>8, <1>9 DEF TrainerIInv

\* The cancellation of a training changes its token and nothing else.
LEMMA CancelTrainingKeeps ==
  ASSUME TrainerIInv, CancelTraining
  PROVE  TrainerIInv'
<1>1. /\ token' = TRUE /\ UNCHANGED <<barrierVars, clips, operation, requests, can_do_inference, threadVars>>
  BY DEF CancelTraining
<1>2. TrainerTypes'
  BY <1>1 DEF TrainerIInv, TrainerTypes, TypeOK, barrierVars, threadVars
<1>3. \A t \in Threads : ThreadInPlace(t)'
  BY <1>1 DEF TrainerIInv, ThreadInPlace, barrierVars, threadVars
<1>4. CallsTogether' /\ NoneCompletes' /\ RanksInStep'
  BY <1>1 DEF TrainerIInv, CallsTogether, NoneCompletes, RanksInStep, Begun, barrierVars, threadVars
<1>5. BarrierCounts'
  BY <1>1 DEF TrainerIInv, BarrierCounts, Counted, Passed, Released, barrierVars, threadVars
<1>6. QED
  BY <1>2, <1>3, <1>4, <1>5 DEF TrainerIInv

\* The owner has the result of every thread, so that all of them are at recv() and have
\* begun as many collective operations.
LEMMA ReturnKeeps ==
  ASSUME TrainerIInv, Return
  PROVE  TrainerIInv'
<1>1. /\ operation # "idle" /\ operation' = "idle" /\ results' = [t \in Threads |-> NoResult]
      /\ can_do_inference' = (can_do_inference \/ operation = "Train")
      /\ \A t \in Threads : results[t] # NoResult
      /\ UNCHANGED <<barrierVars, clips, requests, token, assigned, pc, micro, calls>>
  BY DEF Return, AllReceived
<1>2. ThreadTypes /\ BarrierTypes /\ OwnerTypes /\ \A t \in Threads : ThreadInPlace(t)
  BY TypesSplit DEF TrainerIInv
<1>3. \A t \in Threads : pc[t] = "recv" /\ ~assigned[t] /\ waiting[t] = "out" /\ ticket[t] <= generation
  BY <1>1, <1>2 DEF ThreadInPlace, WaitPoints
<1>4. TrainerTypes'
  <2>1. results' \in [Threads -> {NoResult, "done", "cancelled"}]
    BY <1>1
  <2>2. can_do_inference' \in BOOLEAN
    BY <1>1, <1>2 DEF OwnerTypes
  <2>3. QED
    BY <1>1, <1>2, <2>1, <2>2 DEF TrainerTypes, TypeOK, ThreadTypes, BarrierTypes, OwnerTypes, barrierVars
<1>5. \A t \in Threads : ThreadInPlace(t)'
  <2> SUFFICES ASSUME NEW t \in Threads PROVE ThreadInPlace(t)'
    OBVIOUS
  <2>1. pc'[t] = "recv" /\ ~assigned'[t] /\ waiting'[t] = "out" /\ results'[t] = NoResult /\ ticket'[t] <= generation'
    BY <1>1, <1>3 DEF barrierVars
  <2>2. pc'[t] \in Places(operation')
    BY <1>1, <2>1 DEF Places
  <2>3. QED
    BY <1>1, <2>1, <2>2 DEF ThreadInPlace, NoResult
<1>6. CallsTogether'
  <2>1. \A t, u \in Threads : calls[t] <= calls[u]
    BY <1>3 DEF TrainerIInv, CallsTogether, Collectives
  <2>2. \A t \in Threads : calls[t] \in Nat
    BY <1>2 DEF ThreadTypes
  <2>3. 1 \in Threads
    BY TrainerNumbers DEF Threads
  <2>4. \A t \in Threads : Begun(t)' = 0
    BY <1>1, <1>3 DEF Begun, BegunAt, NoResult
  <2>5. \A t \in Threads : calls[t] = calls[1] + 0
    BY <2>1, <2>2, <2>3
  <2>6. calls' = calls
    BY <1>1
  <2>7. QED
    BY <2>1, <2>2, <2>3, <2>4, <2>5, <2>6 DEF CallsTogether
<1>7. NoneCompletes'
  BY <1>1 DEF NoneCompletes
<1>8. RanksInStep'
  BY <1>1 DEF TrainerIInv, RanksInStep
<1>9. BarrierCounts'
  <2>1. Counted' = Counted /\ count' = count /\ cancelled' = cancelled
    BY <1>1 DEF Counted, barrierVars
  <2>2. QED
    BY <1>1, <2>1 DEF TrainerIInv, BarrierCounts
<1>10. QED
  BY <1>4, <1>5, <1>6, <1>7, <1>8, <1>9 DEF TrainerIInv

\* At first every thread comes to the wait of its boot.
LEMMA TrainerInitially == Init => TrainerIInv
<1> SUFFICES ASSUME Init PROVE TrainerIInv
  OBVIOUS
<1>1. TrainerTypes
  <2>1. BarrierTypes
    <3>1. /\ count = 0 /\ generation = 0 /\ cancelled = FALSE
          /\ waiting = [t \in Threads |-> "out"] /\ ticket = [t \in Threads |-> 0]
      BY DEF Init, InitBarrier
    <3>2. cancelled \in BOOLEAN
      BY <3>1
    <3>3. count \in 0 .. NumThreads - 1 /\ generation \in Nat
      BY <3>1, TrainerNumbers
    <3>4. waiting \in [Threads -> {"out", "asleep", "awake"}] /\ ticket \in [Threads -> Nat]
      BY <3>1
    <3>5. QED
      BY <3>2, <3>3, <3>4 DEF BarrierTypes
  <2>2. ThreadTypes
    BY DEF Init, ThreadTypes, WaitPoints
  <2>3. OwnerTypes
    BY DEF Init, OwnerTypes
  <2>4. QED
    BY <2>1, <2>2, <2>3, TypesSplit DEF Init, InitBarrier
<1>2. \A t \in Threads : ThreadInPlace(t)
  BY DEF Init, InitBarrier, ThreadInPlace, Places, NoResult
<1>3. CallsTogether
  <2>1. \A t \in Threads : Begun(t) = 0 /\ calls[t] = 0
    BY DEF Init, Begun, BegunAt, NoResult
  <2>2. \A t \in Threads : calls[t] = 0 + Begun(t)
    BY <2>1
  <2>3. QED
    BY <2>1, <2>2 DEF CallsTogether
<1>4. NoneCompletes /\ RanksInStep
  BY DEF Init, InitBarrier, NoneCompletes, RanksInStep
<1>5. BarrierCounts
  <2>1. Counted = {}
    BY DEF Init, InitBarrier, Counted
  <2>2. QED
    BY <2>1, FS_EmptySet DEF Init, InitBarrier, BarrierCounts
<1>6. QED
  BY <1>1, <1>2, <1>3, <1>4, <1>5 DEF TrainerIInv

\* Every step of the owner and of the threads keeps the invariant.
LEMMA TrainerStep == TrainerIInv /\ [Next]_vars => TrainerIInv'
<1> SUFFICES ASSUME TrainerIInv, [Next]_vars PROVE TrainerIInv'
  OBVIOUS
<1>1. CASE UNCHANGED vars
  <2>1. TrainerTypes'
    BY <1>1 DEF TrainerIInv, TrainerTypes, TypeOK, barrierVars, threadVars, ownerVars, vars
  <2>2. \A t \in Threads : ThreadInPlace(t)'
    BY <1>1 DEF TrainerIInv, ThreadInPlace, barrierVars, threadVars, ownerVars, vars
  <2>3. CallsTogether' /\ NoneCompletes' /\ RanksInStep'
    BY <1>1 DEF TrainerIInv, CallsTogether, NoneCompletes, RanksInStep, Begun, barrierVars, threadVars, ownerVars, vars
  <2>4. BarrierCounts'
    BY <1>1 DEF TrainerIInv, BarrierCounts, Counted, Passed, Released, barrierVars, threadVars, ownerVars, vars
  <2>5. QED
    BY <2>1, <2>2, <2>3, <2>4 DEF TrainerIInv
<1>2. CASE Begin
  BY <1>2, BeginKeeps
<1>3. CASE CancelTraining
  BY <1>3, CancelTrainingKeeps
<1>4. CASE Return
  BY <1>4, ReturnKeeps
<1>5. ASSUME NEW t \in Threads, Step(t) PROVE TrainerIInv'
  <2>1. CASE Receive(t)
    BY <2>1, ReceiveKeeps
  <2>2. CASE Check(t)
    BY <2>2, CheckKeeps
  <2>3. CASE CheckCancelled(t)
    BY <2>3, CheckCancelledKeeps
  <2>4. CASE WaitBlocks(t)
    BY <2>4, WaitBlocksKeeps
  <2>5. CASE WaitSucceeds(t)
    BY <2>5, WaitSucceedsKeeps
  <2>6. CASE WaitCompletes(t)
    BY <2>6, WaitCompletesKeeps
  <2>7. CASE WaitFails(t)
    BY <2>7, WaitFailsKeeps
  <2>8. CASE FinishForwardBackward(t) \/ FinishForward(t)
    BY <2>8, FinishKeeps
  <2>9. QED
    BY <1>5, <2>1, <2>2, <2>3, <2>4, <2>5, <2>6, <2>7, <2>8 DEF Step
<1>6. ASSUME NEW t \in Threads, Spurious(t) PROVE TrainerIInv'
  BY <1>6, WaitBlocksKeeps
<1>7. QED
  BY <1>1, <1>2, <1>3, <1>4, <1>5, <1>6 DEF Next

\* What the invariant says of the results: once a thread has found the training
\* cancelled, which its token allows, no thread is done with it.
LEMMA TrainerInvHolds == TrainerIInv => TrainerInv
<1> SUFFICES ASSUME TrainerIInv PROVE TrainerInv
  OBVIOUS
<1>1. ASSUME NEW t \in Threads, results[t] = "cancelled"
      PROVE  token /\ \A u \in Threads : results[u] # "done"
  <2>1. cancelled /\ operation # "idle"
    BY <1>1 DEF TrainerIInv, ThreadInPlace, NoResult
  <2>2. operation = "Train" /\ token
    BY <2>1 DEF TrainerIInv, TrainerTypes
  <2>3. QED
    BY <2>1, <2>2 DEF TrainerIInv, NoneCompletes
<1>2. \A t \in Threads : results[t] \in {NoResult, "done", "cancelled"}
  BY DEF TrainerIInv, TrainerTypes, TypeOK
<1>3. ResultsAgree
  BY <1>1, <1>2 DEF ResultsAgree
<1>4. CancelledOnRequest
  BY <1>1 DEF CancelledOnRequest
<1>5. QED
  BY <1>3, <1>4 DEF TrainerIInv, TrainerTypes, TrainerInv

\* The threads of a trainer stay in step: for every number of threads and of micro
\* batches, with spurious wake-ups and with threads that boot after the owner's first
\* operation, no rank is in a pass over the model while another one is in the pass
\* before; all threads report the same outcome, "cancelled" only if the token was.
THEOREM ThreadsStayInStep == Spec => []TrainerInv
<1>1. Spec => []TrainerIInv
  BY TrainerInitially, TrainerStep, PTL DEF Spec
<1>2. QED
  BY <1>1, TrainerInvHolds, PTL

-----------------------------------------------------------------------------
(* The run manager. *)

\* What stands after the only separator of a name.
LEMMA SecondPartOf ==
  ASSUME NEW v \in Seq(STRING), NEW word, NEW sep, word # sep, ~Contains(v, sep)
  PROVE  SecondPart(<<word, sep>> \o v, sep) = v
<1> DEFINE name == <<word, sep>> \o v
           places == {i \in DOMAIN name : name[i] = sep}
           left == (places \cup {Len(name) + 1}) \ {2}
           T == STRING \union {word, sep}
<1>0. v \in Seq(T) /\ <<word, sep>> \in Seq(T) /\ Len(<<word, sep>>) = 2 /\ Len(v) \in Nat
      /\ <<word, sep>>[1] = word /\ <<word, sep>>[2] = sep
  OBVIOUS
<1>1. /\ name \in Seq(T) /\ Len(name) = Len(v) + 2 /\ Len(v) \in Nat
      /\ DOMAIN name = 1 .. Len(v) + 2
      /\ name[1] = word /\ name[2] = sep
      /\ \A i \in 3 .. Len(v) + 2 : name[i] = v[i - 2]
  <2> DEFINE two == <<word, sep>>
  <2>1. two \in Seq(T) /\ Len(two) = 2 /\ two[1] = word /\ two[2] = sep /\ name = two \o v
    BY <1>0
  <2> HIDE DEF two, T, name
  <2>2. /\ name \in Seq(T) /\ DOMAIN name = 1 .. 2 + Len(v)
        /\ \A i \in 1 .. 2 : name[i] = two[i]
        /\ \A i \in 2 + 1 .. 2 + Len(v) : name[i] = v[i - 2]
    <3>1. /\ two \o v \in Seq(T) /\ DOMAIN (two \o v) = 1 .. Len(two) + Len(v)
          /\ \A i \in 1 .. Len(two) : (two \o v)[i] = two[i]
          /\ \A i \in Len(two) + 1 .. Len(two) + Len(v) : (two \o v)[i] = v[i - Len(two)]
      <4>1. v \in Seq(T) /\ two \in Seq(T)
        BY <1>0, <2>1 DEF T
      <4> QED BY <4>1, Concatenation
    <3> QED BY <2>1, <3>1
  <2>3. Len(name) = 2 + Len(v)
    BY <1>0, <2>2, Elements
  <2> QED BY <1>0, <2>1, <2>2, <2>3
<1> HIDE DEF name, T
<1>2. \A i \in 3 .. Len(v) + 2 : i - 2 \in 1 .. Len(v) /\ name[i] # sep
  BY <1>1 DEF Contains
<1>3. \A i \in DOMAIN name : i = 1 \/ i = 2 \/ i \in 3 .. Len(v) + 2
  BY <1>1
<1>4. 2 \in DOMAIN name
  BY <1>1
<1>5. places = {2}
  BY <1>1, <1>2, <1>3, <1>4
<1>6. left = {Len(name) + 1}
  <2>1. Len(name) + 1 # 2
    BY <1>1
  <2> QED BY <1>5, <2>1
<1>7. (CHOOSE i \in places : \A j \in places : i <= j) = 2
  <2> HIDE DEF places
  <2>1. \A i : (i \in places /\ \A j \in places : i <= j) <=> i = 2
    BY <1>5
  <2> QED BY <2>1
<1>8. (CHOOSE i \in left : \A j \in left : i <= j) = Len(name) + 1
  <2> DEFINE e == Len(name) + 1
  <2>1. left = {e} /\ e \in Nat
    BY <1>1, <1>6
  <2> HIDE DEF e, left
  <2>2. (CHOOSE i \in left : \A j \in left : i <= j) = e
    <3>1. \A i : (i \in left /\ \A j \in left : i <= j) <=> i = e
      BY <2>1
    <3> QED BY <3>1
  <2> QED BY <2>2 DEF e
<1>9. SecondPart(name, sep) = SubSeq(name, 2 + 1, Len(name) + 1 - 1)
  <2> DEFINE first == CHOOSE i \in places : \A j \in places : i <= j
             rest == (places \cup {Len(name) + 1}) \ {first}
             second == CHOOSE i \in rest : \A j \in rest : i <= j
  <2>1. SecondPart(name, sep) = SubSeq(name, first + 1, second - 1)
    BY DEF SecondPart
  <2>2. first = 2
    BY <1>7
  <2>3. rest = left
    BY <2>2
  <2> HIDE DEF first, rest, left
  <2>4. second = Len(name) + 1
    BY <1>8, <2>3
  <2> HIDE DEF second
  <2> QED BY <2>1, <2>2, <2>4
<1>10. SubSeq(name, 2 + 1, Len(name) + 1 - 1) = v
  <2>1. SubSeq(name, 2 + 1, Len(name) + 1 - 1) = SubSeq(name, 3, Len(v) + 2)
    BY <1>1
  <2>2. /\ SubSeq(name, 3, Len(v) + 2) \in Seq(T)
        /\ Len(SubSeq(name, 3, Len(v) + 2)) = Len(v)
        /\ \A i \in 1 .. Len(v) : SubSeq(name, 3, Len(v) + 2)[i] = name[i + 2]
    BY <1>1
  <2>3. \A i \in 1 .. Len(v) : name[i + 2] = v[i]
    BY <1>1
  <2> QED BY <1>0, <2>1, <2>2, <2>3
<1> QED BY <1>9, <1>10 DEF name

\* The client in a container is told the version that its image was named for.
LEMMA VersionOfImage ==
  ASSUME NEW k \in DOMAIN Versions, local \in BOOLEAN
  PROVE  ClientVersion(ImageName(Versions[k])) = Versions[k]
<1> DEFINE v == Versions[k]
<1>1. /\ v \in Seq(STRING) /\ ~Contains(v, "@")
      /\ IsDigest(v) \/ ~Contains(v, ":")
  BY VersionsAssumption, Elements DEF IsDigest
<1>2. /\ "nousresearch/psyche-client" # ":" /\ "psyche-solana-client" # ":"
      /\ "nousresearch/psyche-client" # "@"
  OBVIOUS
<1>3. ASSUME NEW word \in {"nousresearch/psyche-client", "psyche-solana-client"},
             NEW sep \in {":", "@"}
      PROVE  IsDigest(<<word, sep>> \o v) <=> IsDigest(v)
  <2> DEFINE name == <<word, sep>> \o v
  <2>1. /\ Len(name) = Len(v) + 2 /\ Len(v) \in Nat
        /\ name[1] # "sha256" /\ name[2] # "sha256"
        /\ \A i \in 3 .. Len(v) + 2 : name[i] = v[i - 2]
        /\ \A i \in 1 .. Len(v) : name[i + 2] = v[i]
    BY <1>1, <1>3
  <2> HIDE DEF name
  <2>2. \A i \in 1 .. Len(name) : i = 1 \/ i = 2 \/ (i \in 3 .. Len(v) + 2 /\ i - 2 \in 1 .. Len(v))
    BY <2>1
  <2>3. \A i \in 1 .. Len(v) : i + 2 \in 1 .. Len(name)
    BY <2>1
  <2>4. Contains(name, "sha256") => Contains(v, "sha256")
    BY <2>1, <2>2 DEF Contains
  <2>5. Contains(v, "sha256") => Contains(name, "sha256")
    BY <2>1, <2>3 DEF Contains
  <2> QED BY <2>4, <2>5 DEF IsDigest, name
<1> HIDE DEF v
<1>4. CASE IsDigest(v) /\ local
  BY <1>4 DEF ClientVersion, ImageName, v
<1>5. CASE IsDigest(v) /\ ~local
  <2>1. ImageName(v) = <<"nousresearch/psyche-client", "@">> \o v
    BY <1>5 DEF ImageName
  <2>2. IsDigest(ImageName(v))
    BY <1>3, <1>5, <2>1
  <2>3. ClientVersion(ImageName(v)) = SecondPart(ImageName(v), "@")
    BY <1>5, <2>2 DEF ClientVersion
  <2> QED BY <1>1, <1>2, <2>1, <2>3, SecondPartOf DEF v
<1>6. CASE ~IsDigest(v)
  <2>1. PICK word \in {"nousresearch/psyche-client", "psyche-solana-client"} :
          ImageName(v) = <<word, ":">> \o v
    BY <1>6 DEF ImageName
  <2>2. ~IsDigest(ImageName(v))
    BY <1>3, <1>6, <2>1
  <2>3. ClientVersion(ImageName(v)) = SecondPart(ImageName(v), ":")
    BY <2>2 DEF ClientVersion
  <2> QED BY <1>1, <1>2, <1>6, <2>1, <2>3, SecondPartOf DEF v
<1> QED BY <1>4, <1>5, <1>6

ContainerRecords ==
  [version : Seq(STRING), status : {"running", "exited", "removed"}, code : {0, 1, 10},
   client : {"starting", "waiting", "joined"}, read : 0 .. Len(Versions)]

ManagerTypes ==
  /\ wanted \in DOMAIN Versions
  /\ local \in BOOLEAN /\ listening \in BOOLEAN /\ refused \in BOOLEAN
  /\ manager \in {"killed", "failed", "returned", "fetch", "pull", "start", "logs", "wait", "remove",
                  "sleep"}
  /\ containers \in Seq(ContainerRecords)

\* An image is fetched for a version that no container was started for.
ImageIsNew ==
  manager \in {"pull", "start"} =>
    \E k \in 1 .. wanted : Newest < k /\ tag = ImageName(Versions[k])

\* There were as many versions as containers, and one more if another one is to start.
VersionsCount ==
  /\ Newest > 0 => \E k \in 1 .. wanted : Newest <= k /\ containers[Newest].version = Versions[k]
  /\ manager \in {"fetch", "sleep"} => Newest < wanted
  /\ Newest > 0 /\ containers[Newest].code = 10 => Newest < wanted

\* A client that waits has read the version in the account since its image was fetched.
WaitingRead ==
  Newest > 0 /\ containers[Newest].client = "waiting" =>
    containers[Newest].read \in 1 .. wanted /\ Newest <= containers[Newest].read

\* Only the last container may run, and only while its logs are read or the manager has ended.
OnlyNewestRuns ==
  \A c \in DOMAIN containers :
    Running(c) => c = Newest /\ manager \in {"logs", "killed", "failed", "returned"}

\* A container was started before its logs are read.
StartedBefore == manager \in {"logs", "wait", "remove"} => Newest > 0

ManagerIInv ==
  /\ ManagerTypes
  /\ ImageIsNew
  /\ VersionsCount
  /\ OnlyNewestRuns
  /\ StartedBefore
  /\ NothingRunsOn
  /\ WaitingRead

\* The container that may have changed is the last one; it keeps its version.
NewestChanges ==
  /\ containers' \in Seq(ContainerRecords) /\ Len(containers') = Len(containers)
  /\ \A c \in DOMAIN containers :
       /\ c # Newest => containers'[c] = containers[c]
       /\ containers'[c].version = containers[c].version

\* An update of the newest container changes nothing else.
LEMMA NewestChangesBy ==
  ASSUME containers \in Seq(ContainerRecords), Newest > 0, NEW r \in ContainerRecords,
         r.version = containers[Newest].version, containers' = [containers EXCEPT ![Newest] = r]
  PROVE  NewestChanges /\ containers'[Newest] = r
BY DEF NewestChanges, Newest

\* So does a change of its status.
LEMMA StatusChanges ==
  ASSUME containers \in Seq(ContainerRecords), Newest > 0, NEW s \in {"exited", "removed"},
         containers' = [containers EXCEPT ![Newest].status = s]
  PROVE  /\ NewestChanges /\ containers'[Newest].status = s
         /\ containers'[Newest].code = containers[Newest].code
         /\ containers'[Newest].client = containers[Newest].client
         /\ containers'[Newest].read = containers[Newest].read
<1> DEFINE r == [containers[Newest] EXCEPT !.status = s]
<1>1. containers[Newest] \in ContainerRecords
  BY Elements DEF Newest
<1>2. r \in ContainerRecords /\ r.version = containers[Newest].version /\ r.status = s
      /\ r.code = containers[Newest].code /\ r.client = containers[Newest].client
      /\ r.read = containers[Newest].read
  BY <1>1 DEF ContainerRecords
<1>3. containers' = [containers EXCEPT ![Newest] = r]
  OBVIOUS
<1> HIDE DEF r
<1> QED BY <1>2, <1>3, NewestChangesBy

\* A container that starts when none runs: it is of a version that had none.
LEMMA ContainerStarts ==
  ASSUME ManagerIInv, manager = "start", containers' = Append(containers, NewContainer),
         wanted' = wanted, local' = local, manager' \in {"logs", "killed"},
         listening' \in BOOLEAN, refused' = refused
  PROVE  ManagerIInv'
<1> DEFINE c == NewContainer
<1>1. ManagerTypes /\ containers \in Seq(ContainerRecords) /\ Newest \in Nat
  BY Elements DEF ManagerIInv, ManagerTypes, Newest
<1>2. PICK k \in 1 .. wanted : Newest < k /\ tag = ImageName(Versions[k])
  BY DEF ManagerIInv, ImageIsNew
<1>3. k \in DOMAIN Versions /\ wanted \in Nat /\ k \in Nat
  BY <1>1, VersionsAssumption, Elements DEF ManagerTypes
<1>4. c.version = Versions[k] /\ c.version \in Seq(STRING)
  BY <1>1, <1>2, <1>3, VersionOfImage, VersionsAssumption, Elements DEF NewContainer, ManagerTypes
<1>5. c \in ContainerRecords /\ c.code = 0 /\ c.client = "starting"
  BY <1>4, VersionsAssumption, Elements DEF NewContainer, ContainerRecords
<1> HIDE DEF c
<1>6. containers' = Append(containers, c)
  BY DEF c
<1>7. /\ containers' \in Seq(ContainerRecords) /\ Newest' = Newest + 1
      /\ DOMAIN containers' = 1 .. Newest + 1
      /\ \A i \in 1 .. Newest : containers'[i] = containers[i]
      /\ containers'[Newest + 1] = c
  BY <1>1, <1>5, <1>6, AppendToSequence DEF Newest
<1>8. \A i \in 1 .. Newest : containers[i].status # "running"
  BY <1>1, Elements DEF ManagerIInv, OnlyNewestRuns, Running, Newest
<1>9. ManagerTypes'
  BY <1>1, <1>7 DEF ManagerTypes
<1>10. ImageIsNew' /\ StartedBefore' /\ NothingRunsOn'
  BY <1>1, <1>7 DEF ImageIsNew, StartedBefore, NothingRunsOn
<1>11. VersionsCount'
  BY <1>1, <1>2, <1>3, <1>4, <1>5, <1>7 DEF VersionsCount
<1>13. WaitingRead'
  BY <1>5, <1>7 DEF WaitingRead
<1>12. OnlyNewestRuns'
  <2>1. \A i \in 1 .. Newest + 1 : i \in 1 .. Newest \/ i = Newest + 1
    BY <1>1
  <2> QED BY <1>7, <1>8, <2>1 DEF OnlyNewestRuns, Running
<1> QED BY <1>9, <1>10, <1>11, <1>12, <1>13 DEF ManagerIInv

\* The manager goes on with the containers as they are.
LEMMA ManagerGoesOn ==
  ASSUME ManagerIInv, UNCHANGED <<wanted, local, containers, listening, refused>>,
         manager' \in {"failed", "killed", "start", "wait", "remove", "fetch", "pull"},
         manager' = "start" => \/ manager \in {"pull", "start"} /\ tag' = tag
                               \/ tag' = ImageName(Versions[wanted]) /\ manager = "fetch",
         manager' = "pull" => tag' = ImageName(Versions[wanted]) /\ manager = "fetch",
         manager' = "fetch" => manager = "sleep",
         manager' \in {"wait", "remove"} =>
           Newest > 0 /\ ~Running(Newest)
  PROVE  ManagerIInv'
<1>1. ManagerTypes'
  BY DEF ManagerIInv, ManagerTypes
<1>2. wanted \in Nat \ {0} /\ Newest \in Nat /\ Newest' = Newest /\ DOMAIN containers = 1 .. Newest
  BY VersionsAssumption, Elements DEF ManagerIInv, ManagerTypes, Newest
<1>3. ImageIsNew'
  <2>1. \A k : ImageName(Versions[k])' = ImageName(Versions[k])
    BY DEF ImageName
  <2>2. CASE manager = "fetch"
    BY <1>2, <2>1, <2>2 DEF ManagerIInv, ImageIsNew, VersionsCount
  <2>3. CASE manager # "fetch"
    BY <1>2, <2>1, <2>3 DEF ManagerIInv, ImageIsNew
  <2> QED BY <2>2, <2>3
<1>4. VersionsCount'
  BY <1>2 DEF ManagerIInv, VersionsCount
<1>5. OnlyNewestRuns'
  <2>1. ASSUME NEW c \in DOMAIN containers, Running(c)
        PROVE  c = Newest /\ manager' \in {"logs", "killed", "failed", "returned"}
    <3>1. c = Newest /\ manager \in {"logs", "killed", "failed", "returned"}
      BY <2>1 DEF ManagerIInv, OnlyNewestRuns
    <3>2. manager' \notin {"start", "pull", "fetch", "wait", "remove"}
      BY <2>1, <3>1
    <3> QED BY <3>1, <3>2
  <2> QED BY <1>2, <2>1 DEF OnlyNewestRuns, Running
<1>6. StartedBefore' /\ NothingRunsOn' /\ WaitingRead'
  BY <1>2 DEF ManagerIInv, StartedBefore, NothingRunsOn, WaitingRead
<1> QED BY <1>1, <1>3, <1>4, <1>5, <1>6 DEF ManagerIInv

\* docker stop and docker rm, whether they do as they are told or not.
LEMMA StopKeeps ==
  ASSUME ManagerIInv, NEW then \in {"sleep", "returned"}, StopAndRemove(then), Newest > 0,
         UNCHANGED <<wanted, local, listening>>, manager \in {"logs", "remove"},
         then = "sleep" => manager = "remove" /\ containers[Newest].code = 10
  PROVE  ManagerIInv'
<1>1. ManagerTypes /\ containers \in Seq(ContainerRecords) /\ Newest \in Nat
      /\ DOMAIN containers = 1 .. Newest /\ wanted \in Nat
  BY VersionsAssumption, Elements DEF ManagerIInv, ManagerTypes, Newest
<1>2. /\ NewestChanges
      /\ containers'[Newest].code = containers[Newest].code
      /\ containers'[Newest].client = containers[Newest].client
      /\ containers'[Newest].read = containers[Newest].read
      /\ containers'[Newest].status = "running" => containers' = containers
      /\ manager' \in {then, "failed"} /\ refused' \in BOOLEAN
      /\ ~refused' => containers'[Newest].status # "running"
  <2>1. CASE /\ containers' = [containers EXCEPT ![Newest].status = "removed"]
             /\ manager' = then
             /\ UNCHANGED refused
    BY <1>1, <2>1, StatusChanges DEF ManagerTypes
  <2>2. CASE /\ containers' \in {containers, [containers EXCEPT ![Newest].status = "exited"]}
             /\ manager' \in {then, "failed"}
             /\ refused' = TRUE
    <3>1. CASE containers' = containers
      BY <1>1, <2>2, <3>1 DEF NewestChanges
    <3>2. CASE containers' = [containers EXCEPT ![Newest].status = "exited"]
      BY <1>1, <2>2, <3>2, StatusChanges
    <3> QED BY <2>2, <3>1, <3>2
  <2> QED BY <2>1, <2>2 DEF StopAndRemove
<1>3. Newest' = Newest /\ DOMAIN containers' = 1 .. Newest
  BY <1>1, <1>2, Elements DEF NewestChanges, Newest
<1>4. ManagerTypes'
  BY <1>1, <1>2 DEF ManagerTypes, NewestChanges
<1>5. ImageIsNew' /\ StartedBefore'
  BY <1>2 DEF ImageIsNew, StartedBefore
<1>6. VersionsCount'
  BY <1>1, <1>2, <1>3 DEF ManagerIInv, VersionsCount, NewestChanges
<1>7. OnlyNewestRuns'
  <2>1. ASSUME NEW c \in 1 .. Newest, containers'[c].status = "running"
        PROVE  c = Newest /\ manager' # "sleep"
    <3>1. containers[c].status = "running"
      BY <1>1, <1>2, <2>1 DEF NewestChanges
    <3> QED BY <1>1, <1>2, <3>1 DEF ManagerIInv, OnlyNewestRuns, Running
  <2> QED BY <1>2, <1>3, <2>1 DEF OnlyNewestRuns, Running
<1>8. NothingRunsOn'
  BY <1>2, <1>3, <1>7 DEF NothingRunsOn, OnlyNewestRuns, Running
<1>9. WaitingRead'
  BY <1>2, <1>3 DEF ManagerIInv, WaitingRead
<1> QED BY <1>4, <1>5, <1>6, <1>7, <1>8, <1>9 DEF ManagerIInv

\* The client in the last container goes on or ends.
LEMMA ClientMoves ==
  ASSUME ManagerIInv, Newest > 0, Running(Newest), NewestChanges,
         UNCHANGED <<wanted, local, manager, tag, listening, refused>>,
         containers'[Newest].code = 10 => containers[Newest].code = 10 \/ Newest < wanted,
         containers'[Newest].client = "waiting" =>
           containers'[Newest].read \in 1 .. wanted /\ Newest <= containers'[Newest].read
  PROVE  ManagerIInv'
<1>1. ManagerTypes /\ containers \in Seq(ContainerRecords) /\ Newest \in Nat
      /\ DOMAIN containers = 1 .. Newest /\ wanted \in Nat
  BY VersionsAssumption, Elements DEF ManagerIInv, ManagerTypes, Newest
<1>2. Newest' = Newest /\ DOMAIN containers' = 1 .. Newest
  BY <1>1, Elements DEF NewestChanges, Newest
<1>3. manager \in {"logs", "killed", "failed", "returned"}
  BY <1>1 DEF ManagerIInv, OnlyNewestRuns
<1>4. ManagerTypes'
  BY <1>1 DEF ManagerTypes, NewestChanges
<1>5. ImageIsNew' /\ StartedBefore'
  BY <1>2, <1>3 DEF ManagerIInv, ImageIsNew, StartedBefore
<1>6. VersionsCount'
  BY <1>1, <1>2, <1>3 DEF ManagerIInv, VersionsCount, NewestChanges
<1>7. \A c \in 1 .. Newest : containers'[c].status = "running" => containers[c].status = "running"
  BY <1>1 DEF NewestChanges, Running
<1>8. OnlyNewestRuns' /\ NothingRunsOn'
  BY <1>1, <1>2, <1>3, <1>7 DEF ManagerIInv, OnlyNewestRuns, NothingRunsOn, Running
<1>9. WaitingRead'
  BY <1>2 DEF WaitingRead
<1> QED BY <1>4, <1>5, <1>6, <1>8, <1>9 DEF ManagerIInv

\* A client that ends, with any code.
LEMMA ClientExits ==
  ASSUME ManagerIInv, Newest > 0, Running(Newest), NEW code \in {0, 1, 10}, ExitsWith(code),
         code = 10 => Newest < wanted
  PROVE  ManagerIInv'
<1> DEFINE r == [containers[Newest] EXCEPT !.status = "exited", !.code = code]
<1>1. containers \in Seq(ContainerRecords) /\ containers[Newest] \in ContainerRecords
  BY Elements DEF ManagerIInv, ManagerTypes, Newest
<1>2. r \in ContainerRecords /\ r.version = containers[Newest].version /\ r.code = code
      /\ r.client = containers[Newest].client /\ r.read = containers[Newest].read
  BY <1>1 DEF ContainerRecords
<1>3. containers' = [containers EXCEPT ![Newest] = r]
  BY DEF ExitsWith
<1> HIDE DEF r
<1>4. NewestChanges /\ containers'[Newest] = r
  BY <1>1, <1>2, <1>3, NewestChangesBy
<1>5. WaitingRead
  BY DEF ManagerIInv
<1> QED BY <1>2, <1>4, <1>5, ClientMoves DEF ExitsWith, WaitingRead

\* Every step of the run manager keeps its invariant.
LEMMA ManagerNextKeeps ==
  ASSUME ManagerIInv, ManagerNext
  PROVE  ManagerIInv'
<1>t. ManagerTypes /\ containers \in Seq(ContainerRecords) /\ wanted \in Nat \ {0} /\ Newest \in Nat
      /\ wanted \in 1 .. Len(Versions)
  BY VersionsAssumption, Elements DEF ManagerIInv, ManagerTypes, Newest
<1>1. CASE FetchTag
  BY <1>1, ManagerGoesOn DEF FetchTag, Fails
<1>2. CASE PullImage
  <2>1. manager = "pull" /\ tag' = tag /\ manager' \in {"start", "failed"}
        /\ UNCHANGED <<wanted, local, containers, listening, refused>>
    BY <1>2 DEF PullImage, Fails
  <2>2. /\ manager' \in {"failed", "killed", "start", "wait", "remove", "fetch", "pull"}
        /\ manager' = "start" => \/ manager \in {"pull", "start"} /\ tag' = tag
                                 \/ tag' = ImageName(Versions[wanted]) /\ manager = "fetch"
        /\ manager' # "pull" /\ manager' # "fetch" /\ manager' \notin {"wait", "remove"}
    BY <2>1
  <2> QED BY <2>1, <2>2, ManagerGoesOn
<1>3. CASE RunContainer
  <2>1. CASE manager' = "logs" /\ containers' = Append(containers, NewContainer) /\ listening' = TRUE
    BY <1>3, <2>1, ContainerStarts DEF RunContainer
  <2>2. CASE Fails /\ UNCHANGED <<containers, listening>>
    BY <1>3, <2>2, ManagerGoesOn DEF RunContainer, Fails
  <2> QED BY <1>3, <2>1, <2>2 DEF RunContainer
<1>4. CASE StreamLogs
  BY <1>4, ManagerGoesOn DEF StreamLogs, Fails, ManagerIInv, StartedBefore
<1>5. CASE WaitForContainer
  BY <1>5, ManagerGoesOn DEF WaitForContainer, Fails, ManagerIInv, StartedBefore
<1>6. CASE RemoveContainer
  <2>1. PICK then \in {"sleep", "returned"} :
          StopAndRemove(then) /\ (then = "sleep" => containers[Newest].code = 10)
    BY <1>6 DEF RemoveContainer
  <2>2. Newest > 0 /\ manager = "remove" /\ UNCHANGED <<wanted, local, listening>>
    BY <1>6 DEF RemoveContainer, ManagerIInv, StartedBefore
  <2> QED BY <2>1, <2>2, StopKeeps
<1>7. CASE RetryDelay
  BY <1>7, ManagerGoesOn DEF RetryDelay
<1>8. CASE Interrupt
  <2>0. UNCHANGED <<wanted, local, tag>>
    BY <1>8 DEF Interrupt
  <2>1. CASE manager = "logs" /\ StopAndRemove("returned") /\ UNCHANGED listening
    <3>1. Newest > 0
      BY <2>1 DEF ManagerIInv, StartedBefore
    <3> QED BY <2>0, <2>1, <3>1, StopKeeps
  <2>2. CASE /\ manager' = "killed" /\ containers' \in {containers} \cup
                (IF manager = "start" THEN {Append(containers, NewContainer)} ELSE {})
             /\ UNCHANGED <<listening, refused>>
    <3>1. CASE containers' = containers
      BY <2>0, <2>2, <3>1, ManagerGoesOn
    <3>2. CASE manager = "start" /\ containers' = Append(containers, NewContainer)
      BY <2>0, <2>2, <3>2, <1>t, ContainerStarts DEF ManagerTypes
    <3> QED BY <2>2, <3>1, <3>2
  <2> QED BY <1>8, <2>1, <2>2 DEF Interrupt
<1>9. CASE VersionChanges
  <2>1. /\ wanted' = wanted + 1 /\ wanted < Len(Versions)
        /\ UNCHANGED <<local, manager, tag, containers, listening, refused>>
    BY <1>9 DEF VersionChanges
  <2>2. wanted' \in DOMAIN Versions /\ \A k \in 1 .. wanted : k \in 1 .. wanted'
    BY <1>t, <2>1, VersionsAssumption, Elements
  <2>3. \A k : ImageName(Versions[k])' = ImageName(Versions[k])
    BY <2>1 DEF ImageName
  <2>4. Newest' = Newest
    BY <2>1 DEF Newest
  <2>8. WaitingRead'
    BY <1>t, <2>1, <2>2, <2>4 DEF ManagerIInv, WaitingRead
  <2>5. ManagerTypes' /\ OnlyNewestRuns' /\ StartedBefore' /\ NothingRunsOn'
    BY <2>1, <2>2, <2>4 DEF ManagerIInv, ManagerTypes, OnlyNewestRuns, StartedBefore, NothingRunsOn, Running
  <2>6. ImageIsNew'
    BY <2>1, <2>2, <2>3, <2>4 DEF ManagerIInv, ImageIsNew
  <2>7. VersionsCount'
    BY <1>t, <2>1, <2>2, <2>4 DEF ManagerIInv, VersionsCount
  <2> QED BY <2>5, <2>6, <2>7, <2>8 DEF ManagerIInv
<1>13. CASE RunHalts
  <2>1. UNCHANGED <<wanted, local, manager, tag, containers, listening, refused>>
    BY <1>13 DEF RunHalts
  <2> QED BY <2>1 DEF ManagerIInv, ManagerTypes, ImageIsNew, VersionsCount, OnlyNewestRuns,
                      StartedBefore, NothingRunsOn, WaitingRead, Newest, Running, ImageName
<1>10. CASE ClientMismatch
  <2>1. /\ Newest > 0 /\ Running(Newest) /\ ExitsWith(10)
        /\ Mismatch \/ (containers[Newest].client = "waiting" /\ VersionChanged)
    BY <1>10 DEF ClientMismatch, ClientIs
  <2>2. CASE Mismatch
    <3>1. PICK k \in 1 .. wanted : Newest <= k /\ containers[Newest].version = Versions[k]
      BY <2>1 DEF ManagerIInv, VersionsCount
    <3>2. k # wanted
      BY <2>2, <3>1 DEF Mismatch
    <3>3. Newest < wanted
      BY <1>t, <3>1, <3>2
    <3> QED BY <2>1, <3>3, ClientExits
  <2>3. CASE containers[Newest].client = "waiting" /\ VersionChanged
    <3> DEFINE k == containers[Newest].read
    <3>1. k \in 1 .. wanted /\ Newest <= k
      BY <2>1, <2>3 DEF ManagerIInv, WaitingRead
    <3>2. k # wanted
      BY <2>3 DEF VersionChanged
    <3> HIDE DEF k
    <3>3. Newest < wanted
      BY <1>t, <3>1, <3>2
    <3> QED BY <2>1, <3>3, ClientExits
  <2> QED BY <2>1, <2>2, <2>3
<1>11. CASE ClientGoesOn
  <2>0. /\ Newest > 0 /\ Running(Newest)
        /\ UNCHANGED <<wanted, local, manager, tag, listening, refused>>
    BY <1>11 DEF ClientGoesOn, ClientIs
  <2>1. PICK s \in {"waiting", "joined"}, k \in {wanted, containers[Newest].read} :
          /\ containers' = [containers EXCEPT ![Newest] =
                              [containers[Newest] EXCEPT !.client = s, !.read = k]]
          /\ s = "waiting" => k = wanted
    <3>1. containers[Newest] \in ContainerRecords
      BY <1>t, <2>0, Elements DEF Newest
    <3>2. CASE containers' = [containers EXCEPT ![Newest].client = "waiting",
                                                ![Newest].read = wanted]
      BY <1>t, <2>0, <3>1, <3>2
    <3>3. CASE containers' = [containers EXCEPT ![Newest].client = "joined"]
      <4>1. [containers[Newest] EXCEPT !.client = "joined", !.read = containers[Newest].read]
              = [containers[Newest] EXCEPT !.client = "joined"]
        BY <3>1 DEF ContainerRecords
      <4> QED BY <3>3, <4>1
    <3> QED BY <1>11, <3>2, <3>3 DEF ClientGoesOn
  <2> DEFINE r == [containers[Newest] EXCEPT !.client = s, !.read = k]
  <2>2. containers[Newest] \in ContainerRecords
    BY <1>t, <2>0, Elements DEF Newest
  <2>3. r \in ContainerRecords /\ r.version = containers[Newest].version
        /\ r.code = containers[Newest].code /\ r.client = s /\ r.read = k
    <3>1. k \in 0 .. Len(Versions)
      BY <1>t, <2>1, <2>2 DEF ContainerRecords
    <3>2. s \in {"starting", "waiting", "joined"}
      BY <2>1
    <3> QED BY <2>2, <3>1, <3>2 DEF ContainerRecords
  <2>4. containers' = [containers EXCEPT ![Newest] = r]
    BY <2>1
  <2> HIDE DEF r
  <2>5. NewestChanges /\ containers'[Newest] = r
    BY <1>t, <2>0, <2>3, <2>4, NewestChangesBy
  <2>6. Newest <= wanted
    BY <1>t, <2>0 DEF ManagerIInv, VersionsCount
  <2>7. s = "waiting" => k \in 1 .. wanted /\ Newest <= k
    BY <1>t, <2>1, <2>6
  <2> QED BY <2>0, <2>3, <2>5, <2>7, ClientMoves
<1>12. CASE ClientEnds
  <2>1. PICK code \in {0, 1} : ExitsWith(code)
    BY <1>12 DEF ClientEnds
  <2>2. Newest > 0 /\ Running(Newest)
    BY <1>12 DEF ClientEnds, ClientIs
  <2> QED BY <2>1, <2>2, ClientExits
<1> QED BY <1>1, <1>2, <1>3, <1>4, <1>5, <1>6, <1>7, <1>8, <1>9, <1>10, <1>11, <1>12, <1>13
        DEF ManagerNext, ManagerStep

\* The run is halted or not.
LEMMA HaltedIsBoolean ==
  ASSUME halted \in BOOLEAN, [ManagerNext]_managerVars
  PROVE  halted' \in BOOLEAN
<1>1. halted' = halted \/ halted' = ~halted
  BY DEF ManagerNext, ManagerStep, FetchTag, PullImage, RunContainer, StreamLogs, WaitForContainer,
         RemoveContainer, RetryDelay, Interrupt, VersionChanges, RunHalts, ClientMismatch, ExitsWith,
         ClientGoesOn, ClientEnds, managerVars
<1> QED BY <1>1

\* Whatever docker and the operator do, at most one client runs, and none does once the
\* manager has returned and docker obeyed (ManagerInv), for every history of versions.
THEOREM ManagerSafety == ManagerSpec => []ManagerInv
<1>1. ManagerInit => ManagerIInv
  <2> SUFFICES ASSUME ManagerInit PROVE ManagerIInv
    OBVIOUS
  <2>1. Newest = 0 /\ DOMAIN containers = {} /\ containers \in Seq(ContainerRecords)
    BY DEF ManagerInit, Newest
  <2>2. 1 \in DOMAIN Versions
    BY VersionsAssumption, Elements
  <2>3. ManagerTypes
    BY <2>1, <2>2 DEF ManagerInit, ManagerTypes
  <2> QED BY <2>1, <2>3 DEF ManagerInit, ManagerIInv, ImageIsNew, VersionsCount, OnlyNewestRuns, StartedBefore,
               NothingRunsOn, WaitingRead
<1>2. ManagerIInv /\ [ManagerNext]_managerVars => ManagerIInv'
  <2>1. ManagerIInv /\ ManagerNext => ManagerIInv'
    BY ManagerNextKeeps
  <2>2. ManagerIInv /\ UNCHANGED managerVars => ManagerIInv'
    BY DEF managerVars, ManagerIInv, ManagerTypes, ImageIsNew, VersionsCount, OnlyNewestRuns, StartedBefore,
               NothingRunsOn, WaitingRead, Newest, Running, ImageName
  <2> QED BY <2>1, <2>2
<1>4. ManagerInit => halted \in BOOLEAN
  BY DEF ManagerInit
<1>5. halted \in BOOLEAN /\ [ManagerNext]_managerVars => halted' \in BOOLEAN
  BY HaltedIsBoolean
<1>3. ManagerIInv /\ halted \in BOOLEAN => ManagerInv
  <2> SUFFICES ASSUME ManagerIInv, halted \in BOOLEAN PROVE ManagerInv
    OBVIOUS
  <2>1. ManagerTypes /\ containers \in Seq(ContainerRecords) /\ DOMAIN containers = 1 .. Newest
        /\ Newest \in Nat /\ wanted \in 1 .. Len(Versions) /\ Len(Versions) \in Nat
        /\ \A c \in DOMAIN containers : containers[c] \in ContainerRecords
    BY VersionsAssumption, Elements DEF ManagerIInv, ManagerTypes, Newest
  <2>3. ManagerTypeOK
    BY <2>1 DEF ManagerTypeOK, ManagerTypes, ContainerRecords, Ended
  <2>4. OneClient
    BY DEF ManagerIInv, OnlyNewestRuns, OneClient
  <2> QED BY <2>3, <2>4 DEF ManagerIInv, ManagerInv
<1> DEFINE B == halted \in BOOLEAN
<1>6. (ManagerInit => B) /\ (B /\ [ManagerNext]_managerVars => B') /\ (ManagerIInv /\ B => ManagerInv)
  BY <1>3, <1>4, <1>5
<1> HIDE DEF B
<1> QED BY <1>1, <1>2, <1>6, PTL DEF ManagerSpec

-----------------------------------------------------------------------------
(* The slots of a FixedVec. *)

SlotsTypes == data \in [Slots -> Values] /\ len \in 0 .. N /\ held \in Seq(Values)

SlotsIInv == SlotsTypes /\ SlotsInv

\* One turn of the loop of retain.
LoopTurn(K, before, read) ==
  IF read - 1 \in K
  THEN [data  |-> [before.data EXCEPT ![before.write] = before.data[read - 1]],
        write |-> before.write + 1]
  ELSE before

\* The first n turns of the loop have their outcome in f.
LoopUpTo(f, K, n) ==
  f = [read \in 0 .. n |->
         IF read = 0 THEN [data |-> data, write |-> 0] ELSE LoopTurn(K, f[read - 1], read)]

Loop(K) == CHOOSE f : LoopUpTo(f, K, len)

\* The turns can be taken one after the other.
LEMMA LoopExists ==
  ASSUME NEW K
  PROVE  \A n \in Nat : \E f : LoopUpTo(f, K, n)
<1> DEFINE Bad == {n \in Nat : ~ \E f : LoopUpTo(f, K, n)}
<1> SUFFICES ASSUME Bad # {} PROVE FALSE
  OBVIOUS
<1>1. PICK n \in Bad : \A m \in Bad : n <= m
  <2> Bad \in SUBSET Nat
    OBVIOUS
  <2> HIDE DEF Bad
  <2> QED BY LeastNatural
<1>2. CASE n = 0
  <2> DEFINE f == [r \in 0 .. 0 |-> [data |-> data, write |-> 0]]
  <2>1. \A r \in 0 .. 0 : r = 0
    OBVIOUS
  <2>2. LoopUpTo(f, K, 0)
    BY <2>1 DEF LoopUpTo
  <2> QED BY <1>1, <1>2, <2>2
<1>3. CASE n # 0
  <2>1. n - 1 \in Nat /\ n - 1 \notin Bad /\ n \in Nat
    BY <1>1, <1>3
  <2>2. PICK h : LoopUpTo(h, K, n - 1)
    BY <2>1
  <2> DEFINE f == [r \in 0 .. n |->
                     IF r = 0 THEN [data |-> data, write |-> 0] ELSE LoopTurn(K, h[r - 1], r)]
  <2>3. ASSUME NEW r \in 0 .. n, r # 0
        PROVE  f[r - 1] = h[r - 1]
    <3>1. r - 1 \in 0 .. n - 1 /\ r - 1 \in 0 .. n
      BY <2>1, <2>3
    <3>2. h[r - 1] = IF r - 1 = 0 THEN [data |-> data, write |-> 0]
                     ELSE LoopTurn(K, h[r - 1 - 1], r - 1)
      BY <3>1, <2>2 DEF LoopUpTo
    <3> QED BY <3>1, <3>2
  <2>4. LoopUpTo(f, K, n)
    <3>1. \A r \in 0 .. n :
            f[r] = IF r = 0 THEN [data |-> data, write |-> 0] ELSE LoopTurn(K, f[r - 1], r)
      BY <2>3
    <3>2. f = [r \in 0 .. n |-> f[r]]
      OBVIOUS
    <3> HIDE DEF f
    <3> QED BY <3>1, <3>2 DEF LoopUpTo
  <2> QED BY <1>1, <2>1, <2>4
<1> QED BY <1>2, <1>3

\* What retain leaves is the outcome of its last turn.
LEMMA LoopUnfolds ==
  ASSUME NEW K, len \in Nat
  PROVE  /\ RetainLoop(K) = Loop(K)[len]
         /\ Loop(K)[0] = [data |-> data, write |-> 0]
         /\ \A r \in 1 .. len : Loop(K)[r] = LoopTurn(K, Loop(K)[r - 1], r)
<1>1. LoopUpTo(Loop(K), K, len)
  BY LoopExists DEF Loop
<1>2. RetainLoop(K) = Loop(K)[len]
  BY DEF RetainLoop, Loop, LoopUpTo, LoopTurn
<1> HIDE DEF Loop
<1>3. 0 \in 0 .. len /\ \A r \in 1 .. len : r \in 0 .. len /\ r # 0
  OBVIOUS
<1> QED BY <1>1, <1>2, <1>3 DEF LoopUpTo

\* How ranks grow.
LEMMA RankGrows ==
  ASSUME NEW n \in Nat, NEW K \in SUBSET (1 .. n)
  PROVE  /\ Rank(K, 0) = 0 /\ Rank(K, n) = Cardinality(K)
         /\ \A r \in Nat : Rank(K, r) \in Nat /\ Rank(K, r) <= r
         /\ \A r \in Nat : Rank(K, r + 1) = IF r + 1 \in K THEN Rank(K, r) + 1 ELSE Rank(K, r)
<1>0. \A j \in K : j \in Nat /\ 1 <= j /\ j <= n
  OBVIOUS
<1>1. {j \in K : j <= 0} = {} /\ {j \in K : j <= n} = K
  <2>1. \A j \in K : ~(j <= 0) /\ j <= n
    BY <1>0
  <2> QED BY <2>1
<1>2. ASSUME NEW r \in Nat
      PROVE  /\ IsFiniteSet({j \in K : j <= r}) /\ Rank(K, r) \in Nat /\ Rank(K, r) <= r
  <2> DEFINE below == {j \in K : j <= r}
  <2>1. below \subseteq 1 .. r
    <3>1. \A j \in K : j <= r => j \in 1 .. r
      BY <1>0
    <3> QED BY <3>1
  <2>2. IsFiniteSet(1 .. r) /\ Cardinality(1 .. r) = r
    <3>1. IsFiniteSet(1 .. r) /\ Cardinality(1 .. r) = IF 1 > r THEN 0 ELSE r - 1 + 1
      BY FS_Interval
    <3> QED BY <3>1
  <2>3. IsFiniteSet(below) /\ Cardinality(below) <= Cardinality(1 .. r)
    BY <2>1, <2>2, FS_Subset
  <2>4. Cardinality(below) \in Nat
    BY <2>3, FS_CardinalityType
  <2> QED BY <2>2, <2>3, <2>4 DEF Rank
<1>3. ASSUME NEW r \in Nat
      PROVE  Rank(K, r + 1) = IF r + 1 \in K THEN Rank(K, r) + 1 ELSE Rank(K, r)
  <2> DEFINE below == {j \in K : j <= r}
             upto == {j \in K : j <= r + 1}
  <2>1. IsFiniteSet(below) /\ r + 1 \notin below
    BY <1>2
  <2>2. CASE r + 1 \in K
    <3>1. upto = below \union {r + 1}
      <4>1. \A j \in K : j <= r + 1 <=> j <= r \/ j = r + 1
        BY <1>0
      <4>2. r + 1 <= r + 1
        OBVIOUS
      <4> QED BY <2>2, <4>1, <4>2
    <3>2. Cardinality(upto) = Cardinality(below) + 1
      BY <2>1, <3>1, FS_AddElement
    <3> QED BY <2>2, <3>2 DEF Rank
  <2>3. CASE r + 1 \notin K
    <3>1. upto = below
      <4>1. \A j \in K : j <= r + 1 <=> j <= r \/ j = r + 1
        BY <1>0
      <4> QED BY <2>3, <4>1
    <3> QED BY <2>3, <3>1 DEF Rank
  <2> QED BY <2>2, <2>3
<1> QED BY <1>1, <1>2, <1>3, FS_EmptySet DEF Rank

\* After r turns: the elements of K before r stand in the slots of their ranks, and the
\* slots from there on are as they were, among them all that is still to be read.
LoopSound(K, r, f) ==
  LET K1 == {i + 1 : i \in K}
  IN  /\ f.write = Rank(K1, r)
      /\ f.data \in [Slots -> Values]
      /\ \A k \in K : k < r => f.data[Rank(K1, k)] = data[k]
      /\ \A i \in Slots : Rank(K1, r) <= i => f.data[i] = data[i]

\* What every turn of the loop of retain leaves.
LEMMA LoopInvariant ==
  ASSUME SlotsTypes, NEW K \in SUBSET (0 .. len - 1)
  PROVE  \A r \in 0 .. len : LoopSound(K, r, Loop(K)[r])
<1> DEFINE K1 == {i + 1 : i \in K}
           Bad == {r \in Nat : r <= len /\ ~LoopSound(K, r, Loop(K)[r])}
<1>a. len \in Nat /\ len <= N /\ N \in Nat \ {0} /\ data \in [Slots -> Values]
  BY CapacityAssumption DEF SlotsTypes
<1>b. K1 \in SUBSET (1 .. len)
  BY <1>a
<1>c. /\ Rank(K1, 0) = 0
      /\ \A r \in Nat : Rank(K1, r) \in Nat /\ Rank(K1, r) <= r
      /\ \A r \in Nat : Rank(K1, r + 1) = IF r + 1 \in K1 THEN Rank(K1, r) + 1 ELSE Rank(K1, r)
  <2> HIDE DEF K1
  <2> QED BY SMTT(30), <1>a, <1>b, RankGrows
<1>d. /\ Loop(K)[0] = [data |-> data, write |-> 0]
      /\ \A r \in 1 .. len : Loop(K)[r] = LoopTurn(K, Loop(K)[r - 1], r)
  BY <1>a, LoopUnfolds
<1>e. \A k \in K : k \in Nat /\ k < len /\ k + 1 \in K1
  BY <1>a
<1>f. \A r \in Nat : r + 1 \in K1 <=> r \in K
  BY <1>e
<1>g. ASSUME NEW r \in Nat, NEW f
      PROVE  LoopSound(K, r, f) <=>
               /\ f.write = Rank(K1, r)
               /\ f.data \in [Slots -> Values]
               /\ \A k \in K : k < r => f.data[Rank(K1, k)] = data[k]
               /\ \A i \in Slots : Rank(K1, r) <= i => f.data[i] = data[i]
  BY DEF LoopSound
<1> SUFFICES ASSUME Bad # {} PROVE FALSE
  BY <1>a
<1>1. PICK r \in Bad : \A m \in Bad : r <= m
  <2> Bad \in SUBSET Nat
    OBVIOUS
  <2> HIDE DEF Bad
  <2> QED BY LeastNatural
<1> HIDE DEF K1
<1>2. CASE r = 0
  <2> DEFINE f == Loop(K)[0]
  <2>1. f.write = 0 /\ f.data = data
    BY <1>d
  <2>2. \A k \in K : ~(k < 0)
    BY <1>e
  <2> HIDE DEF f
  <2>3. /\ f.write = Rank(K1, 0)
        /\ f.data \in [Slots -> Values]
        /\ \A k \in K : k < 0 => f.data[Rank(K1, k)] = data[k]
        /\ \A i \in Slots : Rank(K1, 0) <= i => f.data[i] = data[i]
    BY <1>a, <1>c, <2>1, <2>2
  <2>4. LoopSound(K, 0, f)
    BY <1>g, <2>3
  <2> QED BY <1>1, <1>2, <2>4 DEF f
<1>3. CASE r # 0
  <2> DEFINE q == r - 1
             g == Loop(K)[q]
             f == Loop(K)[r]
  <2>1. q \in Nat /\ r = q + 1 /\ r \in 1 .. len /\ q < len /\ q \notin Bad /\ r \in Nat
    BY <1>1, <1>3, <1>a
  <2>2. LoopSound(K, q, g)
    BY <1>a, <2>1
  <2>3. f = LoopTurn(K, g, r)
    BY <1>d, <2>1
  <2>4. ~LoopSound(K, r, f)
    BY <1>1
  <2> HIDE DEF q, g, f
  <2>5. /\ g.write = Rank(K1, q) /\ g.data \in [Slots -> Values]
        /\ \A k \in K : k < q => g.data[Rank(K1, k)] = data[k]
        /\ \A i \in Slots : Rank(K1, q) <= i => g.data[i] = data[i]
    BY <1>g, <2>1, <2>2
  <2>6. Rank(K1, q) \in Nat /\ Rank(K1, q) <= q /\ q \in Slots /\ Rank(K1, q) \in Slots
    <3>1. Rank(K1, q) \in Nat /\ Rank(K1, q) <= q
      BY <1>c, <2>1
    <3>2. q < N
      BY <1>a, <2>1
    <3> QED BY <1>a, <2>1, <3>1, <3>2 DEF Slots
  <2>7. CASE q \in K
    <3>1. Rank(K1, r) = Rank(K1, q) + 1
      BY <1>c, <1>f, <2>1, <2>7
    <3> DEFINE w == Rank(K1, q)
    <3>2. f.data = [g.data EXCEPT ![w] = g.data[q]] /\ f.write = w + 1
      <4>1. f = [data |-> [g.data EXCEPT ![g.write] = g.data[r - 1]], write |-> g.write + 1]
        BY <2>1, <2>3, <2>7 DEF LoopTurn
      <4>2. r - 1 = q
        BY <2>1
      <4> QED BY <2>5, <4>1, <4>2
    <3>3. g.data[q] = data[q] /\ data[q] \in Values
      BY <1>a, <2>5, <2>6
    <3>w. w \in Nat /\ w \in Slots
      BY <2>6
    <3> HIDE DEF w
    <3>4. f.data \in [Slots -> Values] /\ f.data[w] = data[q]
          /\ \A i \in Slots : i # w => f.data[i] = g.data[i]
      BY <2>5, <3>2, <3>3, <3>w
    <3>5. ASSUME NEW k \in K, k < r
          PROVE  f.data[Rank(K1, k)] = data[k]
      <4>1. CASE k = q
        BY <3>4, <4>1 DEF w
      <4>2. CASE k # q
        <5>1. k \in Nat /\ k < q
          BY <1>e, <2>1, <3>5, <4>2
        <5>2. Rank(K1, k) < Rank(K1, k + 1)
          BY <1>c, <1>e, <5>1
        <5>3. k + 1 <= q
          BY <2>1, <5>1
        <5>4. Rank(K1, k + 1) <= w
          <6>1. {j \in K1 : j <= k + 1} \subseteq {j \in K1 : j <= q}
            <7>1. \A j \in K1 : j \in Nat
              BY <1>b
            <7>2. \A j \in K1 : j <= k + 1 => j <= q
              BY <2>1, <5>1, <5>3, <7>1
            <7> QED BY <7>2
          <6>2. IsFiniteSet({j \in K1 : j <= q})
            BY <1>a, <1>b, PositionsFinite
          <6> QED BY <6>1, <6>2, FS_Subset DEF Rank, w
        <5>5. Rank(K1, k) \in Slots /\ Rank(K1, k) # w
          <6>1. Rank(K1, k) \in Nat /\ Rank(K1, k + 1) \in Nat
            BY <1>c, <5>1
          <6>2. Rank(K1, k) < w
            BY <3>w, <5>2, <5>4, <6>1
          <6>3. w <= N - 1
            BY <1>a, <3>w DEF Slots
          <6> QED BY <1>a, <3>w, <6>1, <6>2, <6>3 DEF Slots
        <5> QED BY <2>5, <3>4, <3>5, <5>1, <5>5
      <4> QED BY <4>1, <4>2
    <3>6. \A i \in Slots : Rank(K1, r) <= i => f.data[i] = data[i]
      <4>1. \A i \in Slots : w + 1 <= i => w <= i /\ i # w
        BY <3>w, <1>a DEF Slots
      <4> QED BY <2>5, <3>1, <3>4, <4>1 DEF w
    <3>7. f.write = Rank(K1, r)
      BY <3>1, <3>2 DEF w
    <3>8. LoopSound(K, r, f)
      BY <1>g, <2>1, <3>4, <3>5, <3>6, <3>7
    <3> QED BY <2>4, <3>8
  <2>8. CASE q \notin K
    <3>1. Rank(K1, r) = Rank(K1, q)
      BY <1>c, <1>f, <2>1, <2>8
    <3>2. f = g
      BY <2>1, <2>3, <2>8 DEF LoopTurn
    <3>3. \A k \in K : k < r => k < q
      BY <1>e, <2>1, <2>8
    <3> QED BY <1>g, <2>1, <2>4, <2>5, <3>1, <3>2, <3>3
  <2> QED BY <2>7, <2>8
<1> QED BY <1>2, <1>3

\* retain: the loop and the clearing leave what Retain says.
LEMMA RetainStepKeeps ==
  ASSUME SlotsIInv, RetainStep
  PROVE  SlotsIInv'
<1>1. PICK K \in SUBSET (0 .. len - 1) :
        /\ data' = ZeroedOut(RetainLoop(K).data, RetainLoop(K).write)
        /\ len' = RetainLoop(K).write
        /\ held' = Retain(held, {i + 1 : i \in K})
  BY DEF RetainStep
<1> DEFINE K1 == {i + 1 : i \in K}
           f == RetainLoop(K)
<1>2. /\ SlotsTypes /\ len \in Nat /\ len <= N /\ N \in Nat \ {0} /\ data \in [Slots -> Values]
      /\ held \in Seq(Values) /\ len = Len(held) /\ Default \in Values
      /\ \A i \in 0 .. len - 1 : data[i] = At(held, i)
      /\ \A i \in Slots : i >= len => data[i] = Default
  BY CapacityAssumption DEF SlotsIInv, SlotsTypes, SlotsInv, HoldsSequence, UnusedSlotsCleared
<1>3. K1 \in SUBSET (1 .. len) /\ DOMAIN held = 1 .. len
  BY <1>2, Elements
<1>4. \A n \in K1 : n - 1 \in K /\ n - 1 \in Nat /\ n - 1 < len /\ n \in Nat /\ n = n - 1 + 1
  BY <1>2
<1>5. LoopSound(K, len, f)
  BY <1>2, LoopInvariant, LoopUnfolds
<1>6. /\ f.write = Rank(K1, len) /\ f.data \in [Slots -> Values]
      /\ \A k \in K : k < len => f.data[Rank(K1, k)] = data[k]
      /\ \A i \in Slots : Rank(K1, len) <= i => f.data[i] = data[i]
  BY <1>5 DEF LoopSound
<1> HIDE DEF K1, f
<1>7. /\ Rank(K1, len) = Cardinality(K1)
      /\ \A r \in Nat : Rank(K1, r) \in Nat /\ Rank(K1, r) <= r
      /\ \A r \in Nat : Rank(K1, r + 1) = IF r + 1 \in K1 THEN Rank(K1, r) + 1 ELSE Rank(K1, r)
  BY <1>2, <1>3, RankGrows
<1>8. /\ held' \in Seq(Values) /\ Len(held') = Cardinality(K1)
      /\ \A i \in 1 .. Cardinality(K1) : Nth(K1, i) \in K1 /\ held'[i] = held[Nth(K1, i)]
  <2>1. held' = Retain(held, K1) /\ K1 \in SUBSET (DOMAIN held)
    BY <1>1, <1>3 DEF K1
  <2> QED BY <1>2, <2>1, RetainProperties
<1>9. len' = Cardinality(K1) /\ len' \in Nat /\ len' <= len /\ f.write = len'
  BY <1>1, <1>2, <1>6, <1>7 DEF f
<1>10. /\ data' \in [Slots -> Values]
       /\ \A i \in Slots : data'[i] = IF len' <= i /\ i < len THEN Default ELSE f.data[i]
  BY <1>1, <1>2, <1>6, <1>9 DEF ZeroedOut, f
<1>11. ASSUME NEW i \in 0 .. len' - 1
       PROVE  data'[i] = At(held', i)
  <2> DEFINE n == Nth(K1, i + 1)
  <2>1. i \in Nat /\ i + 1 \in 1 .. Cardinality(K1) /\ i \in Slots /\ ~(len' <= i)
    BY <1>2, <1>9, <1>11 DEF Slots
  <2>2. n \in K1 /\ Rank(K1, n) = i + 1
    BY <1>2, <1>3, <2>1, NthProperties
  <2>3. held'[i + 1] = held[n]
    BY <1>8, <2>1
  <2> DEFINE k == n - 1
  <2> HIDE DEF n
  <2>4. k \in K /\ k \in Nat /\ k < len /\ n = k + 1
    BY <1>4, <2>2
  <2> HIDE DEF k
  <2>5. Rank(K1, k) = i
    <3>1. Rank(K1, k + 1) = Rank(K1, k) + 1 /\ Rank(K1, k) \in Nat
      BY <1>7, <2>2, <2>4
    <3> QED BY <2>1, <2>2, <2>4, <3>1
  <2>6. f.data[i] = data[k]
    BY <1>6, <2>4, <2>5
  <2>7. data[k] = held[n]
    BY <1>2, <2>4 DEF At
  <2> QED BY <1>10, <2>1, <2>3, <2>6, <2>7 DEF At
<1>12. ASSUME NEW i \in Slots, i >= len'
       PROVE  data'[i] = Default
  <2>1. CASE i < len
    BY <1>2, <1>9, <1>10, <1>12, <2>1 DEF Slots
  <2>2. CASE ~(i < len)
    <3>1. i \in Nat /\ i >= len
      BY <1>2, <2>2 DEF Slots
    <3>2. Rank(K1, len) <= i
      BY <1>2, <1>6, <1>9, <3>1
    <3> QED BY <1>2, <1>6, <1>10, <2>2, <3>1, <3>2
  <2> QED BY <2>1, <2>2
<1>13. len' \in 0 .. N /\ len' = Len(held')
  BY <1>2, <1>8, <1>9
<1> QED BY <1>8, <1>10, <1>11, <1>12, <1>13
        DEF SlotsIInv, SlotsTypes, SlotsInv, HoldsSequence, UnusedSlotsCleared

\* The other calls.
LEMMA SlotsStep ==
  ASSUME SlotsIInv, SlotsNext
  PROVE  SlotsIInv'
<1>t. /\ len \in Nat /\ len <= N /\ N \in Nat \ {0} /\ data \in [Slots -> Values]
      /\ held \in Seq(Values) /\ len = Len(held) /\ Default \in Values
      /\ \A i \in 0 .. len - 1 : data[i] = held[i + 1]
      /\ \A i \in Slots : i >= len => data[i] = Default
  BY CapacityAssumption DEF SlotsIInv, SlotsTypes, SlotsInv, HoldsSequence, UnusedSlotsCleared, At
<1>s. \A i \in Slots : i \in Nat /\ i < N
  BY <1>t DEF Slots
<1>e. \A i \in DOMAIN held : held[i] \in Values
  BY <1>t, Elements
<1>q. ASSUME data' \in [Slots -> Values], len' \in 0 .. N, held' \in Seq(Values), len' = Len(held'),
             \A i \in 0 .. len' - 1 : data'[i] = held'[i + 1],
             \A i \in Slots : i >= len' => data'[i] = Default
      PROVE  SlotsIInv'
  BY <1>q DEF SlotsIInv, SlotsTypes, SlotsInv, HoldsSequence, UnusedSlotsCleared, At
<1>1. CASE Push
  <2>1. PICK value \in Values : /\ len < N /\ data' = [data EXCEPT ![len] = value]
                                /\ len' = len + 1 /\ held' = Append(held, value)
    BY <1>1 DEF Push
  <2>2. len \in Slots
    BY <1>t, <2>1 DEF Slots
  <2>3. data' \in [Slots -> Values] /\ \A i \in Slots : data'[i] = IF i = len THEN value ELSE data[i]
    BY <1>t, <2>1, <2>2
  <2>4. /\ held' \in Seq(Values) /\ Len(held') = len + 1
        /\ \A i \in 1 .. len : held'[i] = held[i]
        /\ held'[len + 1] = value
    BY <1>t, <2>1, AppendToSequence
  <2>5. ASSUME NEW i \in 0 .. len' - 1 PROVE data'[i] = held'[i + 1]
    <3>1. i \in Slots /\ (i = len \/ (i \in 0 .. len - 1 /\ i + 1 \in 1 .. len))
      BY <1>t, <2>1 DEF Slots
    <3> QED BY <1>t, <2>3, <2>4, <3>1
  <2>6. \A i \in Slots : i >= len' => data'[i] = Default
    BY <1>t, <1>s, <2>1, <2>3
  <2>7. len' \in 0 .. N /\ len' = Len(held')
    BY <1>t, <2>1, <2>4
  <2> QED BY <1>q, <2>3, <2>4, <2>5, <2>6, <2>7
<1>2. CASE Pop
  <2>1. /\ len > 0 /\ data' = [data EXCEPT ![len - 1] = Default]
        /\ len' = len - 1 /\ held' = SubSeq(held, 1, Len(held) - 1)
    BY <1>2 DEF Pop, Front
  <2>2. len - 1 \in Slots
    BY <1>t, <2>1 DEF Slots
  <2>3. data' \in [Slots -> Values]
        /\ \A i \in Slots : data'[i] = IF i = len - 1 THEN Default ELSE data[i]
    BY <1>t, <2>1, <2>2
  <2>4. held' \in Seq(Values) /\ Len(held') = len - 1 /\ \A i \in 1 .. len - 1 : held'[i] = held[i]
    BY <1>t, <2>1
  <2>5. ASSUME NEW i \in 0 .. len' - 1 PROVE data'[i] = held'[i + 1]
    <3>1. i \in Slots /\ i # len - 1 /\ i \in 0 .. len - 1 /\ i + 1 \in 1 .. len - 1
      BY <1>t, <2>1 DEF Slots
    <3> QED BY <1>t, <2>3, <2>4, <3>1
  <2>6. \A i \in Slots : i >= len' => data'[i] = Default
    <3>1. \A i \in Slots : i >= len - 1 => i = len - 1 \/ i >= len
      BY <1>t, <1>s, <2>1
    <3> QED BY <1>t, <2>1, <2>3, <3>1
  <2>7. len' \in 0 .. N /\ len' = Len(held')
    BY <1>t, <2>1, <2>4
  <2> QED BY <1>q, <2>3, <2>4, <2>5, <2>6, <2>7
<1>3. CASE Clear
  <2>1. data' \in [Slots -> Values] /\ \A i \in Slots : data'[i] = IF i < len THEN Default ELSE data[i]
    BY <1>t, <1>3 DEF Clear
  <2>2. len' = 0 /\ held' = <<>> /\ Len(held') = 0 /\ held' \in Seq(Values)
    BY <1>3 DEF Clear
  <2>3. \A i \in Slots : i < len \/ i >= len
    BY <1>t, <1>s
  <2>4. \A i \in Slots : data'[i] = Default
    BY <1>t, <2>1, <2>3
  <2>5. 0 .. len' - 1 = {} /\ len' \in 0 .. N
    BY <1>t, <2>2
  <2> QED BY <1>q, <2>1, <2>2, <2>4, <2>5
<1>4. CASE Extend
  <2>1. PICK a \in Values, b \in Values :
          LET fits == SubSeq(<<a, b>>, 1, IF N - len < 2 THEN N - len ELSE 2)
          IN  /\ data' = [i \in Slots |->
                            IF len <= i /\ i < len + Len(fits) THEN fits[i - len + 1] ELSE data[i]]
              /\ len' = len + Len(fits)
              /\ held' = held \o fits
    BY <1>4 DEF Extend
  <2> DEFINE m == IF N - len < 2 THEN N - len ELSE 2
             fits == SubSeq(<<a, b>>, 1, m)
  <2>2. m \in 0 .. 2 /\ len + m <= N
    BY <1>t
  <2>3. fits \in Seq(Values) /\ Len(fits) = m
    <3>1. <<a, b>> \in Seq(Values) /\ Len(<<a, b>>) = 2
      OBVIOUS
    <3> DEFINE two == <<a, b>>
    <3>2. two \in Seq(Values) /\ Len(two) = 2 /\ fits = SubSeq(two, 1, m)
      BY <3>1
    <3> HIDE DEF m, two, fits
    <3> QED BY <2>2, <3>2
  <2>d. data' = [i \in Slots |->
                   IF len <= i /\ i < len + m THEN fits[i - len + 1] ELSE data[i]]
    BY <2>1, <2>3
  <2>h. len' = len + m /\ held' = held \o fits
    BY <2>1, <2>3
  <2> HIDE DEF m, fits
  <2>4. \A j \in 1 .. m : fits[j] \in Values
    BY <2>2, <2>3, Elements
  <2>5. /\ held' \in Seq(Values) /\ Len(held') = len + m
        /\ \A i \in 1 .. len : held'[i] = held[i]
        /\ \A i \in len + 1 .. len + m : held'[i] = fits[i - len]
    BY <1>t, <2>2, <2>3, <2>h, Concatenation, Elements
  <2>6. data' \in [Slots -> Values]
        /\ \A i \in Slots : data'[i] = IF len <= i /\ i < len + m THEN fits[i - len + 1] ELSE data[i]
    <3>1. \A i \in Slots : len <= i /\ i < len + m => i - len + 1 \in 1 .. m
      BY <1>t, <1>s, <2>2
    <3> QED BY <1>t, <2>4, <2>d, <3>1
  <2>7. ASSUME NEW i \in 0 .. len' - 1 PROVE data'[i] = held'[i + 1]
    <3>1. i \in Slots /\ i \in Nat /\ i < len + m
      BY <1>t, <2>2, <2>h DEF Slots
    <3>2. CASE len <= i
      <4>1. i + 1 \in len + 1 .. len + m /\ (i + 1) - len = i - len + 1
        BY <1>t, <2>2, <3>1, <3>2
      <4>2. held'[i + 1] = fits[(i + 1) - len]
        BY <2>5, <4>1
      <4>3. data'[i] = fits[i - len + 1]
        BY <2>6, <3>1, <3>2
      <4> QED BY <4>1, <4>2, <4>3
    <3>3. CASE ~(len <= i)
      <4>1. i \in 0 .. len - 1 /\ i + 1 \in 1 .. len
        BY <1>t, <3>1, <3>3
      <4> QED BY <1>t, <2>5, <2>6, <3>1, <3>3, <4>1
    <3> QED BY <3>2, <3>3
  <2>8. \A i \in Slots : i >= len' => data'[i] = Default
    <3>1. \A i \in Slots : i >= len + m => ~(i < len + m) /\ i >= len
      BY <1>t, <1>s, <2>2
    <3> QED BY <1>t, <2>6, <2>h, <3>1
  <2>9. len' \in 0 .. N /\ len' = Len(held')
    BY <1>t, <2>2, <2>5, <2>h
  <2> QED BY <1>q, <2>5, <2>6, <2>7, <2>8, <2>9
<1>5. CASE RemoveElement
  <2>1. PICK place \in Slots : /\ place < len /\ data' = ShiftDown(place) /\ len' = len - 1
                               /\ held' = RemoveAt(held, place + 1)
    BY <1>5 DEF RemoveElement
  <2>2. place \in Nat /\ len - 1 \in Nat
    BY <1>s, <1>t, <2>1
  <2>3. data' \in [Slots -> Values]
        /\ \A i \in Slots : data'[i] = IF place <= i /\ i < len - 1 THEN data[i + 1]
                                       ELSE IF i = len - 1 THEN Default ELSE data[i]
    <3>1. \A i \in Slots : place <= i /\ i < len - 1 => i + 1 \in Slots
      BY <1>t, <1>s, <2>2 DEF Slots
    <3> QED BY <1>t, <2>1, <3>1 DEF ShiftDown
  <2>4. /\ held' \in Seq(Values) /\ Len(held') = len - 1
        /\ \A i \in 1 .. place : held'[i] = held[i]
        /\ \A i \in place + 1 .. len - 1 : held'[i] = held[i + 1]
    <3> DEFINE p == SubSeq(held, 1, place)
               s == SubSeq(held, place + 2, len)
    <3>1. p \in Seq(Values) /\ Len(p) = place /\ \A i \in 1 .. place : p[i] = held[i]
      BY <1>t, <2>1, <2>2
    <3>2. s \in Seq(Values) /\ Len(s) = len - 1 - place
          /\ \A i \in 1 .. len - 1 - place : s[i] = held[i + place + 1]
      BY <1>t, <2>1, <2>2
    <3>3. held' = p \o s
      <4>1. (place + 1) - 1 = place /\ place + 1 + 1 = place + 2
        BY <2>2
      <4>2. held' = SubSeq(held, 1, (place + 1) - 1) \o SubSeq(held, place + 1 + 1, Len(held))
        BY <2>1 DEF RemoveAt
      <4> QED BY <1>t, <4>1, <4>2
    <3> HIDE DEF p, s
    <3>4. /\ held' \in Seq(Values) /\ DOMAIN held' = 1 .. Len(p) + Len(s)
          /\ \A i \in 1 .. Len(p) : held'[i] = p[i]
          /\ \A i \in Len(p) + 1 .. Len(p) + Len(s) : held'[i] = s[i - Len(p)]
      BY ZenonT(30), <3>1, <3>2, <3>3, Concatenation
    <3>5. Len(p) + Len(s) = len - 1
      BY <1>t, <2>2, <3>1, <3>2
    <3>6. Len(held') = len - 1
      BY <2>2, <3>4, <3>5, Elements
    <3>7. ASSUME NEW i \in place + 1 .. len - 1 PROVE held'[i] = held[i + 1]
      <4>1. i - place \in 1 .. len - 1 - place /\ i - place + place + 1 = i + 1
        BY <1>t, <2>2
      <4>2. held'[i] = s[i - place]
        BY <3>1, <3>4, <3>5
      <4> QED BY <3>2, <4>1, <4>2
    <3> QED BY <3>1, <3>4, <3>6, <3>7
  <2>5. ASSUME NEW i \in 0 .. len' - 1 PROVE data'[i] = held'[i + 1]
    <3>1. i \in Slots /\ i \in Nat /\ i < len - 1
      BY <1>t, <2>1 DEF Slots
    <3>2. CASE place <= i
      <4>1. i + 1 \in 0 .. len - 1 /\ i + 1 \in place + 1 .. len - 1
        BY <1>t, <2>2, <3>1, <3>2
      <4>2. data[i + 1] = held[i + 1 + 1]
        BY <1>t, <4>1
      <4> QED BY <2>3, <2>4, <3>1, <3>2, <4>1, <4>2
    <3>3. CASE ~(place <= i)
      <4>1. i \in 0 .. len - 1 /\ i + 1 \in 1 .. place /\ i # len - 1
        BY <1>t, <2>2, <3>1, <3>3
      <4> QED BY <1>t, <2>3, <2>4, <3>1, <3>3, <4>1
    <3> QED BY <3>2, <3>3
  <2>6. \A i \in Slots : i >= len' => data'[i] = Default
    <3>1. \A i \in Slots : i >= len - 1 => ~(i < len - 1) /\ (i = len - 1 \/ i >= len)
      BY <1>t, <1>s, <2>2
    <3> QED BY <1>t, <2>1, <2>3, <3>1
  <2>7. len' \in 0 .. N /\ len' = Len(held')
    <3>1. len' = len - 1
      BY <2>1
    <3> QED BY <1>t, <2>2, <2>4, <3>1
  <2> QED BY <1>q, <2>3, <2>4, <2>5, <2>6, <2>7
<1>6. CASE Insert
  <2>1. PICK place \in Slots, element \in Values :
          /\ len < N /\ place <= len /\ data' = [ShiftUp(place) EXCEPT ![place] = element]
          /\ len' = len + 1
          /\ held' = InsertAt(held, place + 1, element)
    BY <1>6 DEF Insert
  <2>2. place \in Nat
    BY <1>s
  <2>3. data' \in [Slots -> Values]
        /\ \A i \in Slots : data'[i] = IF i = place THEN element
                                       ELSE IF place < i /\ i <= len THEN data[i - 1] ELSE data[i]
    <3>1. \A i \in Slots : place < i /\ i <= len => i - 1 \in Slots
      BY <1>t, <1>s, <2>2 DEF Slots
    <3> DEFINE up == ShiftUp(place)
    <3>2. up \in [Slots -> Values]
          /\ \A i \in Slots : up[i] = IF place < i /\ i <= len THEN data[i - 1] ELSE data[i]
      BY <1>t, <3>1 DEF ShiftUp
    <3> HIDE DEF up
    <3>3. data' = [up EXCEPT ![place] = element]
      BY <2>1 DEF up
    <3> QED BY <3>2, <3>3
  <2>4. /\ held' \in Seq(Values) /\ Len(held') = len + 1
        /\ \A i \in 1 .. place : held'[i] = held[i]
        /\ held'[place + 1] = element
        /\ \A i \in place + 2 .. len + 1 : held'[i] = held[i - 1]
    <3> DEFINE p == SubSeq(held, 1, place)
               s == SubSeq(held, place + 1, len)
               pe == Append(p, element)
    <3>1. p \in Seq(Values) /\ Len(p) = place /\ \A i \in 1 .. place : p[i] = held[i]
      BY <1>t, <2>1, <2>2
    <3>2. s \in Seq(Values) /\ Len(s) = len - place
          /\ \A i \in 1 .. len - place : s[i] = held[i + place]
      BY <1>t, <2>1, <2>2
    <3>3. held' = pe \o s
      <4>1. (place + 1) - 1 = place
        BY <2>2
      <4>2. held' = p \o <<element>> \o s
        <5>1. held' = SubSeq(held, 1, (place + 1) - 1) \o <<element>> \o SubSeq(held, place + 1, Len(held))
          BY <2>1 DEF InsertAt
        <5> QED BY <1>t, <4>1, <5>1
      <4>3. p \o <<element>> = Append(p, element)
        <5> HIDE DEF p
        <5> QED BY <3>1
      <4> QED BY <4>2, <4>3
    <3>4. pe \in Seq(Values) /\ Len(pe) = place + 1 /\ (\A i \in 1 .. place : pe[i] = held[i])
          /\ pe[place + 1] = element
      <4> HIDE DEF p
      <4> QED BY <2>2, <3>1, AppendToSequence
    <3> HIDE DEF p, s, pe
    <3>5. /\ held' \in Seq(Values) /\ DOMAIN held' = 1 .. Len(pe) + Len(s)
          /\ \A i \in 1 .. Len(pe) : held'[i] = pe[i]
          /\ \A i \in Len(pe) + 1 .. Len(pe) + Len(s) : held'[i] = s[i - Len(pe)]
      BY SMTT(30), <3>2, <3>3, <3>4, Concatenation
    <3>6. Len(pe) + Len(s) = len + 1 /\ Len(held') = len + 1
      <4>1. Len(pe) + Len(s) = len + 1
        <5>1. Len(pe) = place + 1 /\ Len(s) = len - place /\ len \in Nat /\ place \in Nat
          BY <1>t, <2>2, <3>2, <3>4
        <5> QED BY ONLY <5>1
      <4> QED BY <1>t, <3>5, <4>1, Elements
    <3>7. ASSUME NEW i \in place + 2 .. len + 1 PROVE held'[i] = held[i - 1]
      <4>1. i - (place + 1) \in 1 .. len - place /\ i - (place + 1) + place = i - 1
        BY <1>t, <2>2
      <4>2. i \in Len(pe) + 1 .. Len(pe) + Len(s)
        BY <1>t, <2>2, <3>4, <3>6
      <4>3. held'[i] = s[i - (place + 1)]
        BY <3>4, <3>5, <4>2
      <4> QED BY <3>2, <4>1, <4>3
    <3>8. (\A i \in 1 .. place : i \in 1 .. place + 1) /\ place + 1 \in 1 .. place + 1
      BY <2>2
    <3> QED BY <3>4, <3>5, <3>6, <3>7, <3>8
  <2>5. ASSUME NEW i \in 0 .. len' - 1 PROVE data'[i] = held'[i + 1]
    <3>1. i \in Slots /\ i \in Nat /\ i <= len
      BY <1>t, <2>1 DEF Slots
    <3>2. CASE i = place
      BY <2>3, <2>4, <3>1, <3>2
    <3>3. CASE place < i
      <4>1. i - 1 \in 0 .. len - 1 /\ i + 1 \in place + 2 .. len + 1 /\ i + 1 - 1 = i - 1 + 1
            /\ i # place
        BY <1>t, <2>2, <3>1, <3>3
      <4>2. data[i - 1] = held[i - 1 + 1]
        BY <1>t, <4>1
      <4>3. data'[i] = data[i - 1]
        BY <2>3, <3>1, <3>3, <4>1
      <4>4. held'[i + 1] = held[i + 1 - 1]
        BY <2>4, <4>1
      <4> QED BY <4>1, <4>2, <4>3, <4>4
    <3>4. CASE i < place
      <4>1. i \in 0 .. len - 1 /\ i + 1 \in 1 .. place /\ ~(place < i) /\ i # place
        BY <1>t, <2>1, <2>2, <3>1, <3>4
      <4> QED BY <1>t, <2>3, <2>4, <3>1, <4>1
    <3> QED BY <2>2, <3>1, <3>2, <3>3, <3>4
  <2>6. \A i \in Slots : i >= len' => data'[i] = Default
    <3>1. \A i \in Slots : i >= len + 1 => ~(i <= len) /\ i # place /\ i >= len
      BY <1>t, <1>s, <2>1, <2>2
    <3> QED BY <1>t, <2>1, <2>3, <3>1
  <2>7. len' \in 0 .. N /\ len' = Len(held')
    BY <1>t, <2>1, <2>4
  <2> QED BY <1>q, <2>3, <2>4, <2>5, <2>6, <2>7
<1>7. CASE RetainStep
  BY <1>7, RetainStepKeeps
<1> QED BY <1>1, <1>2, <1>3, <1>4, <1>5, <1>6, <1>7 DEF SlotsNext

\* Whatever calls are made, the slots of a FixedVec hold the sequence that the same calls
\* leave, and the unused ones are zeroed out (SlotsInv), for every capacity and every
\* type of elements.
THEOREM SlotsCorrect == SlotsSpec => []SlotsInv
<1>1. SlotsInit => SlotsIInv
  <2> SUFFICES ASSUME SlotsInit PROVE SlotsIInv
    OBVIOUS
  <2>1. /\ data \in [Slots -> Values] /\ len = 0 /\ held = <<>> /\ held \in Seq(Values)
        /\ Len(held) = 0 /\ \A i \in Slots : data[i] = Default
    BY CapacityAssumption DEF SlotsInit
  <2>2. len \in 0 .. N /\ 0 .. len - 1 = {}
    BY <2>1, CapacityAssumption
  <2> QED BY <2>1, <2>2 DEF SlotsIInv, SlotsTypes, SlotsInv, HoldsSequence, UnusedSlotsCleared
<1>2. SlotsIInv /\ [SlotsNext]_slotsVars => SlotsIInv'
  <2>1. SlotsIInv /\ SlotsNext => SlotsIInv'
    BY SlotsStep
  <2>2. SlotsIInv /\ UNCHANGED slotsVars => SlotsIInv'
    BY DEF slotsVars, SlotsIInv, SlotsTypes, SlotsInv, HoldsSequence, UnusedSlotsCleared
  <2> QED BY <2>1, <2>2
<1>3. SlotsIInv => SlotsInv
  BY DEF SlotsIInv
<1> QED BY <1>1, <1>2, <1>3, PTL DEF SlotsSpec

-----------------------------------------------------------------------------
(* Committees and data. *)

\* Division with rest.
LEMMA DivMod ==
  ASSUME NEW x \in Nat, NEW t \in Nat \ {0}
  PROVE  /\ x \div t \in Nat /\ x % t \in 0 .. t - 1
         /\ x = t * (x \div t) + (x % t)
OBVIOUS

\* The rest of less than twice the divisor.
LEMMA ModOnce ==
  ASSUME NEW t \in Nat \ {0}, NEW x \in Nat, x < 2 * t
  PROVE  x % t = IF x < t THEN x ELSE x - t
<1> DEFINE q == x \div t
<1>1. q \in Nat /\ x % t \in 0 .. t - 1 /\ x = t * q + (x % t)
  BY DivMod
<1> HIDE DEF q
<1>2. q = 0 \/ q = 1
  <2>1. ASSUME q >= 2 PROVE FALSE
    <3>1. t * q >= t * 2
      BY <1>1, <2>1
    <3> QED BY <1>1, <3>1
  <2> QED BY <1>1, <2>1
<1> QED BY <1>1, <1>2

\* The larger one of two.
LEMMA MaxOfTwo ==
  ASSUME NEW a \in Int, NEW b \in Int
  PROVE  Max({a, b}) = IF a >= b THEN a ELSE b
BY DEF Max

SelectionRecords ==
  [total : 1 .. MaxNodes, ties : 0 .. MaxNodes, percent : Percents, witnesses : 0 .. MaxNodes,
   verifiers : Nat]

FlipOf(c, pivot) == (pivot + selection.total - c) % selection.total

\* Flipping twice is nothing.
LEMMA FlipTwice ==
  ASSUME selection \in SelectionRecords, NEW pivot \in Nodes, NEW c \in Nodes
  PROVE  FlipOf(c, pivot) \in Nodes /\ FlipOf(FlipOf(c, pivot), pivot) = c
<1> DEFINE t == selection.total
           f == FlipOf(c, pivot)
<1>1. t \in Nat \ {0}
  BY DataSelectionAssumption DEF SelectionRecords
<1>2. c \in Nat /\ c < t /\ pivot \in Nat /\ pivot < t /\ Nodes = 0 .. t - 1
  BY <1>1 DEF Nodes
<1>3. \A d \in 0 .. t - 1 : FlipOf(d, pivot) = IF pivot < d THEN pivot + t - d ELSE pivot - d
  <2> SUFFICES ASSUME NEW d \in 0 .. t - 1
               PROVE  FlipOf(d, pivot) = IF pivot < d THEN pivot + t - d ELSE pivot - d
    OBVIOUS
  <2> DEFINE x == pivot + t - d
  <2> HIDE DEF t
  <2>1. x \in Nat /\ x < 2 * t /\ (x < t <=> pivot < d) /\ x - t = pivot - d
    BY <1>1, <1>2
  <2>2. x % t = IF x < t THEN x ELSE x - t
    <3> HIDE DEF x
    <3> QED BY <1>1, <2>1, ModOnce
  <2>3. FlipOf(d, pivot) = x % t
    BY DEF FlipOf, t
  <2> HIDE DEF x
  <2>4. FlipOf(d, pivot) = IF pivot < d THEN x ELSE pivot - d
    BY <2>1, <2>2, <2>3
  <2> QED BY <2>4 DEF x
<1> HIDE DEF t
<1>4. f \in 0 .. t - 1 /\ f = IF pivot < c THEN pivot + t - c ELSE pivot - c
  BY <1>1, <1>2, <1>3
<1>5. FlipOf(f, pivot) = IF pivot < f THEN pivot + t - f ELSE pivot - f
  BY <1>3, <1>4
<1> HIDE DEF f
<1>6. FlipOf(f, pivot) = c
  BY <1>1, <1>2, <1>4, <1>5
<1> QED BY <1>2, <1>4, <1>6 DEF f

\* A round of swap-or-not that is done twice is nothing, whatever its hashes are.
LEMMA SwappedTwice ==
  ASSUME selection \in SelectionRecords, NEW pivot \in Nodes, NEW bits \in SUBSET Nodes,
         NEW c \in Nodes
  PROVE  /\ Swapped(c, pivot, bits) \in Nodes
         /\ Swapped(Swapped(c, pivot, bits), pivot, bits) = c
<1> DEFINE f == FlipOf(c, pivot)
<1>1. f \in Nodes /\ FlipOf(f, pivot) = c
  BY FlipTwice
<1>2. \A d : Swapped(d, pivot, bits) = IF BitOf(bits, d, FlipOf(d, pivot)) THEN FlipOf(d, pivot) ELSE d
  BY DEF Swapped, FlipOf
<1>3. BitOf(bits, c, f) <=> BitOf(bits, f, c)
  <2>1. {c, f} = {f, c}
    OBVIOUS
  <2> QED BY <2>1 DEF BitOf
<1> HIDE DEF f
<1>4. CASE BitOf(bits, c, f)
  <2>1. Swapped(c, pivot, bits) = f
    BY <1>2, <1>4 DEF f
  <2>2. Swapped(f, pivot, bits) = c
    BY <1>1, <1>2, <1>3, <1>4
  <2> QED BY <1>1, <2>1, <2>2
<1>5. CASE ~BitOf(bits, c, f)
  <2>1. Swapped(c, pivot, bits) = c
    BY <1>2, <1>5 DEF f
  <2> QED BY <2>1
<1> QED BY <1>4, <1>5

\* Every client has a position, every position one client.
Seating ==
  /\ seats \in [Nodes -> Nodes]
  /\ \A i, j \in Nodes : seats[i] = seats[j] => i = j
  /\ \A p \in Nodes : \E i \in Nodes : seats[i] = p

\* A round of the shuffle keeps it so.
LEMMA SwapKeepsSeating ==
  ASSUME selection \in SelectionRecords, Seating, NEW pivot \in Nodes, NEW bits \in SUBSET Nodes,
         selection' = selection, seats' = [i \in Nodes |-> Swapped(seats[i], pivot, bits)]
  PROVE  Seating'
<1>0. Nodes' = Nodes
  BY DEF Nodes
<1>1. \A c \in Nodes : /\ Swapped(c, pivot, bits) \in Nodes
                       /\ Swapped(Swapped(c, pivot, bits), pivot, bits) = c
  BY SwappedTwice
<1> DEFINE sw(c) == Swapped(c, pivot, bits)
<1>2. \A c \in Nodes : sw(c) \in Nodes /\ sw(sw(c)) = c
  BY <1>1
<1>3. seats' = [i \in Nodes |-> sw(seats[i])]
  OBVIOUS
<1> HIDE DEF sw
<1>4. seats' \in [Nodes -> Nodes] /\ \A i \in Nodes : seats[i] \in Nodes /\ seats'[i] = sw(seats[i])
  BY <1>2, <1>3 DEF Seating
<1>5. ASSUME NEW i \in Nodes, NEW j \in Nodes, seats'[i] = seats'[j] PROVE i = j
  <2>1. seats[i] = sw(seats'[i]) /\ seats[j] = sw(seats'[j])
    BY <1>2, <1>4
  <2>2. seats[i] = seats[j]
    BY <1>5, <2>1
  <2> QED BY <2>2 DEF Seating
<1>6. ASSUME NEW p \in Nodes PROVE \E i \in Nodes : seats'[i] = p
  <2>1. PICK i \in Nodes : seats[i] = sw(p)
    BY <1>2 DEF Seating
  <2>2. seats'[i] = p
    BY <1>2, <1>4, <2>1
  <2> QED BY <2>2
<1> QED BY <1>0, <1>4, <1>5, <1>6 DEF Seating

\* As many clients have a position of P as P has positions.
LEMMA SeatsCounted ==
  ASSUME selection \in SelectionRecords, Seating, NEW P \in SUBSET Nodes
  PROVE  Cardinality({i \in Nodes : seats[i] \in P}) = Cardinality(P)
<1> DEFINE D == {i \in Nodes : seats[i] \in P}
           f == [i \in D |-> seats[i]]
<1>1. f \in [D -> P]
  OBVIOUS
<1>2. \A i, j \in D : f[i] = f[j] => i = j
  BY DEF Seating
<1>3. \A p \in P : \E i \in D : f[i] = p
  BY DEF Seating
<1> HIDE DEF f, D
<1>4. f \in Bijection(D, P)
  BY <1>1, <1>2, <1>3 DEF Bijection, Injection, IsInjective, Surjection
<1>5. ExistsBijection(D, P)
  BY <1>4 DEF ExistsBijection
<1>6. IsFiniteSet(D)
  <2>1. IsFiniteSet(Nodes)
    <3>1. selection.total \in Int
      BY DataSelectionAssumption DEF SelectionRecords
    <3> QED BY <3>1, FS_Interval DEF Nodes
  <2> QED BY <2>1, FS_Subset DEF D
<1> QED BY <1>5, <1>6, FS_Bijection DEF D

\* How many numbers an interval has.
LEMMA IntervalSize ==
  ASSUME NEW a \in Nat, NEW b \in Nat, a <= b
  PROVE  Cardinality(a .. b - 1) = b - a
<1>1. Cardinality(a .. b - 1) = IF a > b - 1 THEN 0 ELSE b - 1 - a + 1
  BY FS_Interval
<1> QED BY <1>1

\* What CommitteeSelection::new has checked.
SelectionChecked ==
  /\ selection.ties <= selection.total
  /\ selection.verifiers <= selection.total - selection.ties
  /\ selection.witnesses <= selection.total

\* The committees are intervals of positions.
LEMMA CommitteePositions ==
  ASSUME selection \in SelectionRecords, NEW p \in Nodes
  PROVE  LET a == selection.ties
             b == selection.ties + selection.verifiers
         IN  /\ CommitteeAt(p) = "TieBreaker" <=> p \in 0 .. a - 1
             /\ CommitteeAt(p) = "Verifier" <=> p \in a .. b - 1
             /\ CommitteeAt(p) = "Trainer" <=> p >= a /\ p >= b
<1>1. /\ p \in Nat /\ selection.ties \in Nat /\ selection.verifiers \in Nat
  BY DataSelectionAssumption DEF SelectionRecords, Nodes
<1> QED BY <1>1 DEF CommitteeAt

\* The committees are filled.
LEMMA CommitteesAreFilled ==
  ASSUME selection \in SelectionRecords, Seating, SelectionChecked
  PROVE  /\ Cardinality(Seated("TieBreaker")) = selection.ties
         /\ Cardinality(Seated("Verifier")) = selection.verifiers
         /\ Cardinality(Seated("Trainer")) = NumTrainerNodes
<1> DEFINE n == selection.total
           a == selection.ties
           b == selection.ties + selection.verifiers
<1>1. n \in Nat /\ a \in Nat /\ b \in Nat /\ selection.verifiers \in Nat /\ a <= b /\ b <= n
      /\ Nodes = 0 .. n - 1 /\ b - a = selection.verifiers
      /\ n - b = n - a - selection.verifiers
  BY DataSelectionAssumption DEF SelectionRecords, Nodes, SelectionChecked
<1>2. \A p \in Nodes : /\ CommitteeAt(p) = "TieBreaker" <=> p \in 0 .. a - 1
                       /\ CommitteeAt(p) = "Verifier" <=> p \in a .. b - 1
                       /\ CommitteeAt(p) = "Trainer" <=> p >= a /\ p >= b
  BY CommitteePositions
<1>i. \A i \in Nodes : seats[i] \in Nodes
  BY DEF Seating
<1> HIDE DEF n, a, b
<1>3. \A p \in Nodes : CommitteeAt(p) = "Trainer" <=> p \in b .. n - 1
  BY <1>1, <1>2
<1>4. 0 .. a - 1 \in SUBSET Nodes /\ a .. b - 1 \in SUBSET Nodes /\ b .. n - 1 \in SUBSET Nodes
  BY <1>1
<1>5. /\ Cardinality({i \in Nodes : seats[i] \in 0 .. a - 1}) = Cardinality(0 .. a - 1)
      /\ Cardinality({i \in Nodes : seats[i] \in a .. b - 1}) = Cardinality(a .. b - 1)
      /\ Cardinality({i \in Nodes : seats[i] \in b .. n - 1}) = Cardinality(b .. n - 1)
  BY <1>4, SeatsCounted
<1>6. /\ Cardinality(0 .. a - 1) = a - 0 /\ Cardinality(a .. b - 1) = b - a
      /\ Cardinality(b .. n - 1) = n - b
  BY <1>1, IntervalSize
<1>7. /\ Seated("TieBreaker") = {i \in Nodes : seats[i] \in 0 .. a - 1}
      /\ Seated("Verifier") = {i \in Nodes : seats[i] \in a .. b - 1}
      /\ Seated("Trainer") = {i \in Nodes : seats[i] \in b .. n - 1}
  BY <1>2, <1>3, <1>i DEF Seated
<1>8. /\ Cardinality(Seated("TieBreaker")) = a - 0 /\ Cardinality(Seated("Verifier")) = b - a
      /\ Cardinality(Seated("Trainer")) = n - b
  BY <1>5, <1>6, <1>7
<1>9. NumTrainerNodes = n - a - selection.verifiers
  BY DEF NumTrainerNodes, n, a
<1> QED BY <1>1, <1>8, <1>9 DEF a

\* There are as many witnesses as asked for, or as there may be.
LEMMA WitnessesAreFilled ==
  ASSUME selection \in SelectionRecords, Seating, SelectionChecked
  PROVE  Cardinality({i \in Nodes : WitnessAt(seats[i])}) =
           IF selection.witnesses = 0 THEN Min({MaxWitnesses, selection.total})
           ELSE selection.witnesses
<1> DEFINE n == selection.total
           w == IF selection.witnesses = 0 THEN MaxWitnesses ELSE selection.witnesses
           m == IF w <= n THEN w ELSE n
<1>1. n \in Nat /\ w \in Nat /\ Nodes = 0 .. n - 1 /\ MaxWitnesses \in Nat
  BY DataSelectionAssumption DEF SelectionRecords, Nodes
<1>2. Min({MaxWitnesses, n}) = IF MaxWitnesses <= n THEN MaxWitnesses ELSE n
  BY <1>1 DEF Min
<1>3. m = IF selection.witnesses = 0 THEN Min({MaxWitnesses, n}) ELSE selection.witnesses
  BY <1>1, <1>2 DEF SelectionChecked
<1>i. \A i \in Nodes : seats[i] \in Nodes
  BY DEF Seating
<1>4. \A p \in Nodes : WitnessAt(p) <=> p < w
  BY DEF WitnessAt
<1> HIDE DEF n, w
<1>5. m \in Nat /\ 0 .. m - 1 \in SUBSET Nodes /\ \A p \in Nodes : p < w <=> p \in 0 .. m - 1
  BY <1>1
<1> HIDE DEF m
<1>6. {i \in Nodes : WitnessAt(seats[i])} = {i \in Nodes : seats[i] \in 0 .. m - 1}
  BY <1>4, <1>5, <1>i
<1>7. Cardinality({i \in Nodes : seats[i] \in 0 .. m - 1}) = Cardinality(0 .. m - 1)
  BY <1>5, SeatsCounted
<1>8. Cardinality(0 .. m - 1) = m - 0
  BY <1>5, IntervalSize
<1>9. Cardinality({i \in Nodes : WitnessAt(seats[i])}) = m
  <2>1. m - 0 = m
    BY <1>5
  <2> DEFINE W == {i \in Nodes : WitnessAt(seats[i])}
             V == {i \in Nodes : seats[i] \in 0 .. m - 1}
             I == 0 .. m - 1
  <2>2. W = V /\ Cardinality(V) = Cardinality(I) /\ Cardinality(I) = m
    BY <1>6, <1>7, <1>8, <2>1
  <2> HIDE DEF W, V, I
  <2>3. Cardinality(W) = m
    BY <2>2
  <2> QED BY <2>3 DEF W
<1> QED BY <1>3, <1>9 DEF n

\* What a trainer gets is a number of samples.
LEMMA NodeSizeType ==
  ASSUME TotalSize \in Nat, NEW n \in Nat \ {0}, NEW i \in Nat
  PROVE  /\ NodeSize(i, n) \in Nat
         /\ NodeSize(i, n) = (TotalSize \div n) + (IF i < TotalSize % n THEN 1 ELSE 0)
<1>1. TotalSize \div n \in Nat /\ TotalSize % n \in Nat
  BY DivMod
<1> QED BY <1>1 DEF NodeSize

\* The samples before a trainer grow by what each trainer gets.
LEMMA BeforeGrows ==
  ASSUME TotalSize \in Nat, NEW n \in Nat \ {0}
  PROVE  /\ Before(0, n) = 0
         /\ \A i \in Nat : Before(i, n) \in Int /\ Before(i + 1, n) = Before(i, n) + NodeSize(i, n)
<1> DEFINE G(i) == [k \in 0 .. i - 1 |-> NodeSize(k, n)]
<1>0. \A k \in Nat : NodeSize(k, n) \in Nat
  BY NodeSizeType
<1>1. \A i \in Nat : G(i) \in [0 .. i - 1 -> Int] /\ IsFiniteSet(0 .. i - 1)
  <2> SUFFICES ASSUME NEW i \in Nat PROVE G(i) \in [0 .. i - 1 -> Int] /\ IsFiniteSet(0 .. i - 1)
    OBVIOUS
  <2>1. \A k \in 0 .. i - 1 : k \in Nat
    OBVIOUS
  <2>2. \A k \in 0 .. i - 1 : NodeSize(k, n) \in Int
    BY <1>0, <2>1
  <2>3. IsFiniteSet(0 .. i - 1)
    BY FS_Interval
  <2> QED BY <2>2, <2>3
<1>2. \A i \in Nat : Before(i, n) = SumFunction(G(i))
  BY DEF Before
<1>3. \A i \in Nat : SumFunction(G(i)) = Sums(G(i), 0 .. i - 1)[0 .. i - 1]
  <2> SUFFICES ASSUME NEW i \in Nat
               PROVE  SumFunction(G(i)) = Sums(G(i), 0 .. i - 1)[0 .. i - 1]
    OBVIOUS
  <2>1. DOMAIN G(i) = 0 .. i - 1
    OBVIOUS
  <2> HIDE DEF G
  <2> QED BY <2>1, SumIsLastSum DEF SumFunction
<1>4. Before(0, n) = 0
  <2>1. 0 .. 0 - 1 = {}
    OBVIOUS
  <2>2. 0 \in Nat
    OBVIOUS
  <2> HIDE DEF G
  <2>3. Before(0, n) = Sums(G(0), {})[{}]
    BY <1>2, <1>3, <2>1, <2>2
  <2>4. IsFiniteSet({}) /\ {} \in SUBSET {}
    BY FS_EmptySet
  <2>5. Sums(G(0), {})[{}] = 0
    BY <2>4, SumsUnfold
  <2> QED BY <2>3, <2>5
<1>5. ASSUME NEW i \in Nat
      PROVE  Before(i, n) \in Int /\ Before(i + 1, n) = Before(i, n) + NodeSize(i, n)
  <2> DEFINE D == 0 .. (i + 1) - 1
             E == 0 .. i - 1
             F == G(i + 1)
             H == G(i)
  <2>1. i \in D /\ D \ {i} = E /\ E \in SUBSET D /\ i + 1 \in Nat /\ D \in SUBSET D /\ E \in SUBSET E
    OBVIOUS
  <2>2. F[i] = NodeSize(i, n) /\ \A x \in E : F[x] = H[x]
    OBVIOUS
  <2>3. F \in [D -> Int] /\ H \in [E -> Int] /\ IsFiniteSet(D) /\ IsFiniteSet(E)
    <3> HIDE DEF G
    <3> QED BY <1>1, <2>1
  <2>4. Before(i + 1, n) = Sums(F, D)[D] /\ Before(i, n) = Sums(H, E)[E]
    <3> HIDE DEF G
    <3> QED BY <1>2, <1>3, <2>1
  <2> HIDE DEF D, E, F, H, G
  <2>5. Sums(F, D)[D] = F[i] + Sums(F, D)[D \ {i}]
    <3>1. \A s \in SUBSET D : \A x \in s : Sums(F, D)[s] = F[x] + Sums(F, D)[s \ {x}]
      BY ONLY <2>3, SumsRemove
    <3> QED BY ONLY <2>1, <3>1
  <2>6. Sums(F, D)[E] = Sums(H, E)[E]
    <3>1. \A x \in E : F[x] = H[x]
      BY <2>2
    <3>3. IsFiniteSet(D) /\ E \in SUBSET D
      BY <2>1, <2>3
    <3> QED BY <3>1, <3>3, SumsOfPart
  <2>7. Sums(H, E)[E] \in Int
    BY <2>1, <2>3, SumsType
  <2>8. NodeSize(i, n) \in Nat
    BY <1>0
  <2>9. Before(i + 1, n) = NodeSize(i, n) + Before(i, n)
    BY <2>1, <2>2, <2>4, <2>5, <2>6
  <2> QED BY <2>4, <2>7, <2>8, <2>9
<1> QED BY <1>4, <1>5

\* The samples before a trainer, without the sum; in the end there are all of them.
LEMMA BeforeClosed ==
  ASSUME TotalSize \in Nat, NEW n \in Nat \ {0}
  PROVE  /\ \A i \in Nat : Before(i, n) \in Nat
         /\ Before(0, n) = 0 /\ Before(n, n) = TotalSize
         /\ \A i, j \in Nat : i <= j => Before(i, n) <= Before(j, n)
         /\ \A i \in Nat : Before(i + 1, n) = Before(i, n) + NodeSize(i, n)
<1> DEFINE q == TotalSize \div n
           r == TotalSize % n
           C(i) == i * q + (IF i < r THEN i ELSE r)
<1>1. q \in Nat /\ r \in 0 .. n - 1 /\ TotalSize = n * q + r
  BY DivMod
<1>2. \A i \in Nat : NodeSize(i, n) = q + (IF i < r THEN 1 ELSE 0)
  BY NodeSizeType
<1>3. Before(0, n) = 0
  BY BeforeGrows
<1>4. \A i \in Nat : Before(i, n) \in Int /\ Before(i + 1, n) = Before(i, n) + NodeSize(i, n)
  BY BeforeGrows
<1> HIDE DEF q, r
<1>5. C(0) = 0 /\ C(n) = n * q + r /\ \A i \in Nat : i * q \in Nat /\ C(i) \in Nat
  <2>1. \A i \in Nat : i * q \in Nat
    BY <1>1
  <2>2. 0 * q = 0
    BY <1>1
  <2> QED BY <1>1, <2>1, <2>2
<1>6. ASSUME NEW i \in Nat
      PROVE  C(i + 1) = C(i) + (q + (IF i < r THEN 1 ELSE 0))
  <2>1. (i + 1) * q = i * q + q
    BY <1>1
  <2> DEFINE x == i * q
             y == (i + 1) * q
  <2>2. x \in Nat /\ y = x + q
    BY <1>5, <2>1
  <2>3. C(i) = x + (IF i < r THEN i ELSE r) /\ C(i + 1) = y + (IF i + 1 < r THEN i + 1 ELSE r)
    OBVIOUS
  <2> HIDE DEF x, y, C
  <2> QED BY <1>1, <2>2, <2>3
<1> HIDE DEF C
<1>7. \A i \in Nat : Before(i, n) = C(i)
  <2> DEFINE Bad == {i \in Nat : Before(i, n) # C(i)}
  <2> SUFFICES ASSUME Bad # {} PROVE FALSE
    OBVIOUS
  <2>1. PICK i \in Bad : \A m \in Bad : i <= m
    <3> Bad \in SUBSET Nat
      OBVIOUS
    <3> HIDE DEF Bad
    <3> QED BY LeastNatural
  <2>2. i # 0 /\ i \in Nat
    BY <1>3, <1>5
  <2> DEFINE k == i - 1
  <2>3. k \in Nat /\ k + 1 = i /\ ~(i <= k)
    BY <2>2
  <2>4. Before(k, n) = C(k)
    BY <2>1, <2>3
  <2>5. Before(k + 1, n) = C(k + 1)
    <3> HIDE DEF k
    <3> QED BY <1>2, <1>4, <1>6, <2>3, <2>4
  <2>6. Before(i, n) = C(i)
    BY <2>3, <2>5
  <2> QED BY <2>6
<1>8. ASSUME NEW i \in Nat, NEW j \in Nat, i <= j PROVE C(i) <= C(j)
  <2> DEFINE d == j - i
             x == i * q
             y == d * q
             z == j * q
  <2>1. d \in Nat /\ j = i + d
    BY <1>8
  <2>2. x \in Nat /\ y \in Nat /\ z \in Nat
    <3> HIDE DEF d
    <3> QED BY <1>5, <2>1
  <2>3. z = x + y
    <3>1. \A a, b \in Nat : (a + b) * q = a * q + b * q
      BY <1>1
    <3> HIDE DEF d
    <3> QED BY <2>1, <3>1
  <2>4. C(i) = x + (IF i < r THEN i ELSE r) /\ C(j) = z + (IF j < r THEN j ELSE r)
    BY DEF C
  <2> HIDE DEF x, y, z, d
  <2> QED BY <1>1, <1>8, <2>2, <2>3, <2>4
<1> QED BY <1>1, <1>3, <1>4, <1>5, <1>7, <1>8

\* The batch sizes of the configuration.
SizesSound ==
  /\ sizes.first \in Nat /\ sizes.last \in Nat /\ sizes.warmup \in Nat
  /\ sizes.first <= sizes.last

\* The size of a round is a number of samples, while it grows too.
LEMMA RoundBatchSizeType ==
  ASSUME SizesSound, NEW tokens \in Nat
  PROVE  RoundBatchSize(tokens) \in Nat
<1> DEFINE a == sizes.first
           b == sizes.last - sizes.first
           w == sizes.warmup
           x == a * w
           y == b * tokens
<1>1. a \in Nat /\ b \in Nat /\ w \in Nat /\ sizes.last \in Nat
  BY DEF SizesSound
<1>2. \A u, v \in Nat : u * v \in Nat /\ (2 * u) * v = 2 * (u * v)
  OBVIOUS
<1>3. x \in Nat /\ y \in Nat
  <2> HIDE DEF a, b, w
  <2> QED BY <1>1, <1>2
<1>4. 2 * sizes.first * sizes.warmup = 2 * x /\ 2 * (sizes.last - sizes.first) * tokens = 2 * y
  <2>1. (2 * a) * w = 2 * x /\ (2 * b) * tokens = 2 * y
    <3> HIDE DEF a, b, w
    <3> QED BY <1>1, <1>2
  <2> QED BY <2>1
<1> DEFINE num == 2 * x + 2 * y + w
<1>5. RoundBatchSize(tokens) = IF tokens >= w THEN sizes.last ELSE num \div (2 * w)
  BY <1>4 DEF RoundBatchSize
<1> HIDE DEF a, b, x, y, w
<1>6. num \in Nat
  BY <1>1, <1>3
<1> HIDE DEF num
<1>7. ASSUME ~(tokens >= w) PROVE num \div (2 * w) \in Nat
  <2>1. 2 * w \in Nat \ {0}
    BY <1>1, <1>7
  <2> QED BY <1>6, <2>1, DivMod
<1> QED BY <1>1, <1>5, <1>7

\* Everyone is a trainer, and the order has everyone once.
OrderSound ==
  /\ selection.ties = 0 /\ selection.verifiers = 0
  /\ order \in Seq(Nodes) /\ Len(order) = selection.total
  /\ \A i, j \in 1 .. selection.total : order[i] = order[j] => i = j
  /\ \A p \in Nodes : \E i \in 1 .. selection.total : order[i] = p

IntervalAt(i, n) ==
  [start |-> index + Before(i, n), end |-> index + Before(i + 1, n) - 1, node |-> order[i + 1]]

DataPlaces(n) == {k \in 0 .. n - 1 : NodeSize(k, n) > 0}

\* The data of a round, by the places of the trainers.
LEMMA DataByPlace ==
  ASSUME TotalSize \in Nat, index \in Nat, NEW n \in Nat \ {0}
  PROVE  \A i \in DataPlaces(n) :
           LET a == IntervalAt(i, n)
           IN  /\ i \in Nat /\ i + 1 <= n
               /\ a.start = index + Before(i, n)
               /\ a.end = index + Before(i + 1, n) - 1
               /\ a.start \in index .. a.end /\ a.end < index + TotalSize
               /\ Before(i, n) < TotalSize
               /\ a.end - a.start = NodeSize(i, n) - 1
<1> SUFFICES ASSUME NEW i \in DataPlaces(n)
             PROVE  LET a == IntervalAt(i, n)
                    IN  /\ i \in Nat /\ i + 1 <= n
                        /\ a.start = index + Before(i, n)
                        /\ a.end = index + Before(i + 1, n) - 1
                        /\ a.start \in index .. a.end /\ a.end < index + TotalSize
                        /\ Before(i, n) < TotalSize
                        /\ a.end - a.start = NodeSize(i, n) - 1
  OBVIOUS
<1>1. i \in Nat /\ i + 1 \in Nat /\ i + 1 <= n /\ NodeSize(i, n) > 0
  BY DEF DataPlaces
<1> DEFINE u == Before(i, n)
           v == Before(i + 1, n)
           z == NodeSize(i, n)
           a == IntervalAt(i, n)
<1>2. u \in Nat /\ v \in Nat /\ v = u + z /\ v <= Before(n, n) /\ Before(n, n) = TotalSize
  BY <1>1, BeforeClosed
<1>3. z \in Nat /\ z > 0
  BY <1>1, NodeSizeType
<1>4. a.start = index + u /\ a.end = index + v - 1
  BY DEF IntervalAt
<1> HIDE DEF u, v, z, a
<1>5. /\ a.start \in index .. a.end /\ a.end < index + TotalSize
      /\ u < TotalSize /\ a.end - a.start = z - 1
  BY <1>2, <1>3, <1>4
<1> QED BY <1>1, <1>4, <1>5 DEF u, v, z, a

\* Every sample of the round is of one place.
LEMMA PlaceOfSample ==
  ASSUME TotalSize \in Nat, NEW n \in Nat \ {0}, NEW d \in 0 .. TotalSize - 1
  PROVE  /\ \E i \in DataPlaces(n) : Before(i, n) <= d /\ d < Before(i + 1, n)
         /\ \A i, j \in DataPlaces(n) :
              /\ Before(i, n) <= d /\ d < Before(i + 1, n)
              /\ Before(j, n) <= d /\ d < Before(j + 1, n)
              => i = j
<1> DEFINE B(i) == Before(i, n)
<1>1. /\ \A i \in Nat : B(i) \in Nat
      /\ B(0) = 0 /\ B(n) = TotalSize
      /\ \A i, j \in Nat : i <= j => B(i) <= B(j)
      /\ \A i \in Nat : B(i + 1) = B(i) + NodeSize(i, n)
  BY BeforeClosed
<1>2. \A i \in Nat : NodeSize(i, n) \in Nat
  BY NodeSizeType
<1>3. \A i \in DataPlaces(n) : i \in Nat /\ i + 1 \in Nat
  BY DEF DataPlaces
<1> HIDE DEF B
<1>4. \E i \in DataPlaces(n) : B(i) <= d /\ d < B(i + 1)
  <2> DEFINE T == {i \in Nat : d < B(i + 1)}
  <2>1. n - 1 \in Nat /\ (n - 1) + 1 = n /\ d < TotalSize
    OBVIOUS
  <2>2. T # {} /\ T \in SUBSET Nat /\ n - 1 \in T
    BY <1>1, <2>1
  <2>3. PICK i \in T : \A m \in T : i <= m
    <3> HIDE DEF T
    <3> QED BY <2>2, LeastNatural
  <2>4. i \in Nat /\ d < B(i + 1) /\ i <= n - 1
    BY <2>2, <2>3
  <2>5. B(i) <= d
    <3>1. CASE i = 0
      BY <1>1, <3>1
    <3>2. CASE i # 0
      <4> DEFINE k == i - 1
      <4>1. k \in Nat /\ k + 1 = i /\ ~(i <= k)
        BY <2>4, <3>2
      <4>2. k \notin T
        BY <2>3, <4>1
      <4>3. ~(d < B(i))
        BY <4>1, <4>2
      <4>4. B(i) \in Nat
        BY <1>1, <2>4
      <4> QED BY <4>3, <4>4
    <3> QED BY <3>1, <3>2
  <2>6. NodeSize(i, n) > 0
    <3>1. B(i) \in Nat /\ B(i + 1) = B(i) + NodeSize(i, n) /\ NodeSize(i, n) \in Nat
      BY <1>1, <1>2, <2>4
    <3> QED BY <2>4, <2>5, <3>1
  <2>7. i \in DataPlaces(n)
    BY <2>4, <2>6 DEF DataPlaces
  <2> QED BY <2>4, <2>5, <2>7
<1>5. ASSUME NEW i \in DataPlaces(n), NEW j \in DataPlaces(n), i < j,
             d < B(i + 1), B(j) <= d
      PROVE  FALSE
  <2>1. i + 1 <= j /\ i + 1 \in Nat /\ j \in Nat
    BY <1>3, <1>5
  <2>2. B(i + 1) <= B(j) /\ B(i + 1) \in Nat /\ B(j) \in Nat
    BY <1>1, <2>1
  <2> QED BY <1>5, <2>2
<1>6. ASSUME NEW i \in DataPlaces(n), NEW j \in DataPlaces(n),
             B(i) <= d, d < B(i + 1), B(j) <= d, d < B(j + 1)
      PROVE  i = j
  <2>1. ~(i < j) /\ ~(j < i)
    BY <1>5, <1>6
  <2> QED BY <1>3, <2>1
<1> QED BY <1>4, <1>6 DEF B

\* A round gets data without a gap and without an overlap, in shares that differ by
\* at most a sample, and the batches that are waited for are these.
LEMMA DataAssignedOnce ==
  ASSUME selection \in SelectionRecords, OrderSound, TotalSize \in Nat, index \in Nat
  PROVE  AssignedOnce /\ BatchIdsAgree
<1> DEFINE n == selection.total
<1>1. n \in Nat \ {0} /\ Len(order) = n /\ NumTrainerNodes = n
  BY DataSelectionAssumption DEF SelectionRecords, OrderSound, NumTrainerNodes
<1>2. AssignData = {IntervalAt(i, n) : i \in DataPlaces(n)}
  BY <1>1 DEF AssignData, IntervalAt, DataPlaces
<1> DEFINE Ids == {[start |-> index + Before(i, n), end |-> index + Before(i + 1, n) - 1] :
                     i \in {k \in 0 .. n - 1 : NodeSize(k, n) > 0 /\ Before(k, n) < TotalSize}}
<1>3. BatchIdsForRound = Ids
  BY <1>1 DEF BatchIdsForRound
<1> HIDE DEF n
<1>4. \A i \in DataPlaces(n) :
        /\ i \in Nat /\ i + 1 <= n
        /\ IntervalAt(i, n).start = index + Before(i, n)
        /\ IntervalAt(i, n).end = index + Before(i + 1, n) - 1
        /\ IntervalAt(i, n).start \in index .. IntervalAt(i, n).end
        /\ IntervalAt(i, n).end < index + TotalSize
        /\ Before(i, n) < TotalSize
        /\ IntervalAt(i, n).end - IntervalAt(i, n).start = NodeSize(i, n) - 1
  BY <1>1, DataByPlace
<1>5. ASSUME NEW d \in index .. index + TotalSize - 1
      PROVE  Cardinality({a \in AssignData : d \in a.start .. a.end}) = 1
  <2> DEFINE e == d - index
             Of(i) == Before(i, n) <= e /\ e < Before(i + 1, n)
  <2>1. e \in 0 .. TotalSize - 1
    OBVIOUS
  <2>2. /\ \E i \in DataPlaces(n) : Of(i)
        /\ \A i, j \in DataPlaces(n) : Of(i) /\ Of(j) => i = j
    <3> HIDE DEF e
    <3>1. /\ \E i \in DataPlaces(n) : Before(i, n) <= e /\ e < Before(i + 1, n)
          /\ \A i, j \in DataPlaces(n) :
               /\ Before(i, n) <= e /\ e < Before(i + 1, n)
               /\ Before(j, n) <= e /\ e < Before(j + 1, n)
               => i = j
      BY <1>1, <2>1, PlaceOfSample
    <3> QED BY <3>1
  <2>3. ASSUME NEW i \in DataPlaces(n)
        PROVE  d \in IntervalAt(i, n).start .. IntervalAt(i, n).end <=> Of(i)
    <3> DEFINE u == Before(i, n)
               v == Before(i + 1, n)
    <3>1. u \in Nat /\ v \in Nat
      <4>1. i \in Nat /\ i + 1 \in Nat
        BY <1>4
      <4> QED BY <1>1, <4>1, BeforeClosed
    <3>2. IntervalAt(i, n).start = index + u /\ IntervalAt(i, n).end = index + v - 1
      BY <1>4
    <3> HIDE DEF u, v
    <3>3. d \in index + u .. index + v - 1 <=> u <= d - index /\ d - index < v
      BY <3>1
    <3> QED BY <3>2, <3>3 DEF u, v
  <2> HIDE DEF Of
  <2>4. PICK i \in DataPlaces(n) : Of(i)
    BY <2>2
  <2>5. {a \in AssignData : d \in a.start .. a.end} = {IntervalAt(i, n)}
    <3>1. IntervalAt(i, n) \in AssignData /\ d \in IntervalAt(i, n).start .. IntervalAt(i, n).end
      BY <1>2, <2>3, <2>4
    <3>2. ASSUME NEW a \in AssignData, d \in a.start .. a.end PROVE a = IntervalAt(i, n)
      <4>1. PICK j \in DataPlaces(n) : a = IntervalAt(j, n)
        BY <1>2
      <4>2. Of(j)
        BY <2>3, <3>2, <4>1
      <4>3. j = i
        BY <2>2, <2>4, <4>2
      <4> QED BY <4>1, <4>3
    <3> QED BY <3>1, <3>2
  <2> QED BY <2>5, FS_Singleton
<1>6. ASSUME NEW a \in AssignData
      PROVE  /\ a.start \in index .. a.end /\ a.end < index + TotalSize
             /\ \A b \in AssignData : a.end - a.start <= b.end - b.start + 1
  <2>1. PICK i \in DataPlaces(n) : a = IntervalAt(i, n)
    BY <1>2
  <2>2. a.start \in index .. a.end /\ a.end < index + TotalSize /\ a.end - a.start = NodeSize(i, n) - 1
    BY <1>4, <2>1
  <2>3. ASSUME NEW b \in AssignData PROVE a.end - a.start <= b.end - b.start + 1
    <3>1. PICK j \in DataPlaces(n) : b = IntervalAt(j, n)
      BY <1>2
    <3>2. b.end - b.start = NodeSize(j, n) - 1
      BY <1>4, <3>1
    <3>3. NodeSize(i, n) \in Nat /\ NodeSize(j, n) \in Nat /\ NodeSize(i, n) <= NodeSize(j, n) + 1
      <4>1. i \in Nat /\ j \in Nat
        BY <1>4
      <4>2. /\ NodeSize(i, n) = (TotalSize \div n) + (IF i < TotalSize % n THEN 1 ELSE 0)
            /\ NodeSize(j, n) = (TotalSize \div n) + (IF j < TotalSize % n THEN 1 ELSE 0)
            /\ NodeSize(i, n) \in Nat /\ NodeSize(j, n) \in Nat
        BY <1>1, <4>1, NodeSizeType
      <4>3. TotalSize \div n \in Nat
        BY <1>1, DivMod
      <4> DEFINE q == TotalSize \div n
                 x == IF i < TotalSize % n THEN 1 ELSE 0
                 y == IF j < TotalSize % n THEN 1 ELSE 0
      <4>4. x \in 0 .. 1 /\ y \in 0 .. 1
        OBVIOUS
      <4>5. NodeSize(i, n) = q + x /\ NodeSize(j, n) = q + y /\ q \in Nat
        BY <4>2, <4>3
      <4> HIDE DEF q, x, y
      <4> QED BY <4>2, <4>4, <4>5
    <3> DEFINE s == NodeSize(i, n)
               t == NodeSize(j, n)
               da == a.end - a.start
               db == b.end - b.start
    <3>4. da = s - 1 /\ db = t - 1 /\ s \in Nat /\ t \in Nat /\ s <= t + 1
      BY <2>2, <3>2, <3>3
    <3> HIDE DEF s, t, da, db
    <3>5. da <= db + 1
      BY <3>4
    <3> QED BY <3>5 DEF da, db
  <2> QED BY <2>2, <2>3
<1>7. AssignedOnce
  BY <1>5, <1>6 DEF AssignedOnce
<1>8. Ids = {[start |-> a.start, end |-> a.end] : a \in AssignData}
  <2> DEFINE R(i) == [start |-> index + Before(i, n), end |-> index + Before(i + 1, n) - 1]
  <2>1. {k \in 0 .. n - 1 : NodeSize(k, n) > 0 /\ Before(k, n) < TotalSize} = DataPlaces(n)
    <3>1. \A k \in 0 .. n - 1 : NodeSize(k, n) > 0 => Before(k, n) < TotalSize
      BY <1>4 DEF DataPlaces
    <3> QED BY <3>1 DEF DataPlaces
  <2>2. Ids = {R(i) : i \in DataPlaces(n)}
    BY <2>1
  <2>3. \A i \in DataPlaces(n) : [start |-> IntervalAt(i, n).start, end |-> IntervalAt(i, n).end] = R(i)
    BY <1>4
  <2> HIDE DEF R, Ids
  <2> QED BY <1>2, <2>2, <2>3
<1>9. BatchIdsAgree
  BY <1>3, <1>8 DEF BatchIdsAgree
<1> QED BY <1>7, <1>9

-----------------------------------------------------------------------------
(* The data of a step that a run is set back to. *)

\* The partial function that get_data_index_for_step computes, up to n.
IndexesUpTo(g, n) ==
  g = [s \in 0 .. n |-> IF s = 0 THEN 0 ELSE g[s - 1] + RoundBatchSize(g[s - 1] * TokensOf)]

\* It exists, however far.
LEMMA IndexesExistUpTo == \A n \in Nat : \E g : IndexesUpTo(g, n)
<1> DEFINE Bad == {n \in Nat : ~ \E g : IndexesUpTo(g, n)}
<1> SUFFICES ASSUME Bad # {} PROVE FALSE
  OBVIOUS
<1>1. PICK n \in Bad : \A m \in Bad : n <= m
  <2> Bad \in SUBSET Nat
    OBVIOUS
  <2> HIDE DEF Bad
  <2> QED BY LeastNatural
<1>2. CASE n = 0
  <2> DEFINE g == [s \in 0 .. 0 |-> 0]
  <2>1. \A s \in 0 .. 0 : s = 0
    OBVIOUS
  <2>2. IndexesUpTo(g, 0)
    BY <2>1 DEF IndexesUpTo
  <2> QED BY <1>1, <1>2, <2>2
<1>3. CASE n # 0
  <2>1. n - 1 \in Nat /\ n - 1 \notin Bad /\ n \in Nat
    BY <1>1, <1>3
  <2>2. PICK h : IndexesUpTo(h, n - 1)
    BY <2>1
  <2> DEFINE step_(x) == x + RoundBatchSize(x * TokensOf)
             g == [s \in 0 .. n |-> IF s = 0 THEN 0 ELSE step_(h[s - 1])]
  <2>3. ASSUME NEW s \in 0 .. n, s # 0
        PROVE  g[s - 1] = h[s - 1]
    <3>1. s - 1 \in 0 .. n - 1 /\ s - 1 \in 0 .. n
      BY <2>1, <2>3
    <3>2. h[s - 1] = IF s - 1 = 0 THEN 0 ELSE step_(h[s - 1 - 1])
      BY <3>1, <2>2 DEF IndexesUpTo
    <3> HIDE DEF step_
    <3> QED BY <3>1, <3>2
  <2>4. IndexesUpTo(g, n)
    <3>1. \A s \in 0 .. n : g[s] = IF s = 0 THEN 0 ELSE step_(g[s - 1])
      <4> HIDE DEF step_
      <4> QED BY <2>3
    <3>2. g = [s \in 0 .. n |-> g[s]]
      OBVIOUS
    <3> HIDE DEF g
    <3> QED BY <3>1, <3>2 DEF IndexesUpTo
  <2> QED BY <1>1, <2>1, <2>4
<1> QED BY <1>2, <1>3

\* The next step's data follows the step's.
LEMMA DataIndexGrows ==
  ASSUME step \in 1 .. SelectionSteps, step < SelectionSteps, DataIndexForStep(step) = index
  PROVE  DataIndexForStep(step + 1) = index + TotalSize
<1> DEFINE g == CHOOSE g : IndexesUpTo(g, SelectionSteps)
<1>0. SelectionSteps \in Nat /\ step \in Nat /\ 1 <= step /\ step \in 0 .. SelectionSteps
      /\ step - 1 \in 0 .. SelectionSteps /\ 0 \in 0 .. SelectionSteps /\ step # 0
  BY DataSelectionAssumption
<1>1. IndexesUpTo(g, SelectionSteps)
  BY <1>0, IndexesExistUpTo
<1>2. \A target : DataIndexForStep(target) =
        IF target <= 1 \/ target > SelectionSteps THEN 0 ELSE g[StepsBefore(target)]
  BY DEF DataIndexForStep, IndexesUpTo
<1> HIDE DEF g
<1>3. g[0] = 0 /\ g[step] = g[step - 1] + RoundBatchSize(g[step - 1] * TokensOf)
  BY <1>0, <1>1 DEF IndexesUpTo
<1>4. index = g[step - 1]
  <2>1. CASE step = 1
    BY <1>2, <1>3, <2>1
  <2>2. CASE step # 1
    BY <1>0, <1>2, <2>2 DEF StepsBefore
  <2> QED BY <2>1, <2>2
<1>5. DataIndexForStep(step + 1) = g[step]
  <2>1. ~(step + 1 <= 1) /\ ~(step + 1 > SelectionSteps) /\ (step + 1) - 1 = step
    BY <1>0
  <2> QED BY <1>2, <2>1 DEF StepsBefore
<1> QED BY <1>3, <1>4, <1>5 DEF TotalSize

-----------------------------------------------------------------------------
(* The invariant. *)

Pickings == {"new", "invalid", "committee", "witness", "order", "assigned"}

SelectionTypes ==
  /\ selection \in SelectionRecords
  /\ picking \in Pickings
  /\ turn \in 0 .. Max({MaxNodes, ShuffleRounds})
  /\ step \in 1 .. SelectionSteps /\ index \in Nat

\* What the computation has come to.
PickingSound ==
  /\ picking \notin {"new", "invalid"} => SelectionChecked
  /\ picking \in {"order", "assigned"} => OrderSound
  /\ picking = "order" => turn <= selection.total
  /\ picking = "assigned" => SizesSound /\ DataIndexForStep(step) = index
  /\ picking # "assigned" => step = 1 /\ index = 0

SelectionIInv == SelectionTypes /\ Seating /\ PickingSound

\* The constants, and how many turns there are at most.
LEMMA SelectionBounds ==
  /\ MaxNodes \in Nat \ {0} /\ ShuffleRounds \in Nat \ {0}
  /\ SelectionSteps \in Nat \ {0} /\ TokensOf \in Nat \ {0} /\ MaxRoundBatch \in Nat \ {0}
  /\ Percents \subseteq Nat /\ WarmupTokens \subseteq Nat
  /\ Max({MaxNodes, ShuffleRounds}) \in Nat
  /\ MaxNodes <= Max({MaxNodes, ShuffleRounds}) /\ ShuffleRounds <= Max({MaxNodes, ShuffleRounds})
<1>1. /\ MaxNodes \in Nat \ {0} /\ ShuffleRounds \in Nat \ {0}
      /\ SelectionSteps \in Nat \ {0} /\ TokensOf \in Nat \ {0} /\ MaxRoundBatch \in Nat \ {0}
      /\ Percents \subseteq Nat /\ WarmupTokens \subseteq Nat
  BY DataSelectionAssumption
<1>2. Max({MaxNodes, ShuffleRounds}) = IF MaxNodes >= ShuffleRounds THEN MaxNodes ELSE ShuffleRounds
  BY <1>1, MaxOfTwo
<1> QED BY <1>1, <1>2

\* Who sits where they came from is seated.
LEMMA IdentitySeats ==
  ASSUME seats = [i \in Nodes |-> i]
  PROVE  Seating
BY DEF Seating

\* The invariant holds before anything is computed.
LEMMA SelectionStarts == SelectionInit => SelectionIInv
<1> SUFFICES ASSUME SelectionInit PROVE SelectionIInv
  OBVIOUS
<1>1. SelectionTypes
  <2>1. selection \in SelectionRecords
    BY DEF SelectionInit, SelectionRecords
  <2> QED BY <2>1, SelectionBounds DEF SelectionInit, SelectionTypes, Pickings
<1>2. Seating
  BY IdentitySeats DEF SelectionInit
<1>3. PickingSound
  BY DEF SelectionInit, PickingSound
<1> QED BY <1>1, <1>2, <1>3 DEF SelectionIInv

\* What CommitteeSelection::new lets through is checked.
LEMMA CheckedByNew ==
  ASSUME selection \in SelectionRecords, ~InvalidSelection,
         selection' = [selection EXCEPT !.verifiers =
                               ((selection.total - selection.ties) * selection.percent) \div 100]
  PROVE  selection' \in SelectionRecords /\ SelectionChecked' /\ Nodes' = Nodes
<1> DEFINE m == selection.total - selection.ties
           p == selection.percent
           v == (m * p) \div 100
<1>1. /\ selection.total \in 1 .. MaxNodes /\ selection.ties \in 0 .. MaxNodes
      /\ p \in Percents /\ p \in Nat /\ selection.witnesses \in 0 .. MaxNodes
  BY SelectionBounds DEF SelectionRecords
<1>2. m \in Nat /\ p <= 100 /\ selection.ties <= selection.total /\ selection.witnesses <= selection.total
  BY <1>1, SelectionBounds DEF InvalidSelection
<1>3. selection' = [selection EXCEPT !.verifiers = v]
  OBVIOUS
<1>4. v \in Nat /\ v <= m
  <2> HIDE DEF m, p
  <2> DEFINE x == m * p
  <2>1. x \in Nat
    BY <1>1, <1>2
  <2>2. x <= m * 100
    <3> DEFINE r == 100 - p
    <3>1. r \in Nat /\ p + r = 100
      BY <1>1, <1>2
    <3>2. m * r \in Nat /\ m * (p + r) = m * p + m * r
      <4> HIDE DEF r
      <4> QED BY <1>1, <1>2, <3>1
    <3>3. m * 100 = x + m * r
      BY <3>1, <3>2
    <3> HIDE DEF r, x
    <3> QED BY <2>1, <3>2, <3>3
  <2> HIDE DEF x
  <2>3. x \div 100 \in Nat /\ x = 100 * (x \div 100) + (x % 100) /\ x % 100 \in 0 .. 99
    BY <2>1
  <2>4. x \div 100 <= m
    BY <1>2, <2>1, <2>2, <2>3
  <2> QED BY <2>3, <2>4 DEF x
<1> HIDE DEF v
<1>5. selection' \in SelectionRecords
  BY <1>3, <1>4 DEF SelectionRecords
<1>6. /\ selection'.total = selection.total /\ selection'.ties = selection.ties
      /\ selection'.witnesses = selection.witnesses /\ selection'.verifiers = v
  BY <1>3, <1>4 DEF SelectionRecords
<1> QED BY <1>2, <1>4, <1>5, <1>6 DEF SelectionChecked, Nodes

\* Without tie breakers and verifiers everyone is a trainer.
LEMMA AllTrain ==
  ASSUME selection \in SelectionRecords, Seating, selection.ties = 0, selection.verifiers = 0
  PROVE  Seated("Trainer") = Nodes
<1>1. \A i \in Nodes : seats[i] \in Nodes
  BY DEF Seating
<1>2. \A p \in Nodes : p \in Nat
  BY DEF Nodes
<1>3. \A p \in Nodes : CommitteeAt(p) = "Trainer"
  BY <1>2 DEF CommitteeAt
<1> QED BY <1>1, <1>3 DEF Seated

\* The trainers by their index have everyone once.
LEMMA TrainersListed ==
  ASSUME selection \in SelectionRecords, Seating, SelectionChecked,
         Seated("TieBreaker") = {}, Seated("Verifier") = {},
         NEW o, o = Retain([i \in 1 .. selection.total |-> i - 1],
                       {i \in 1 .. selection.total : i - 1 \in Seated("Trainer")})
  PROVE  /\ selection.ties = 0 /\ selection.verifiers = 0
         /\ o \in Seq(Nodes) /\ Len(o) = selection.total
         /\ \A i, j \in 1 .. selection.total : o[i] = o[j] => i = j
         /\ \A p \in Nodes : \E i \in 1 .. selection.total : o[i] = p
<1> DEFINE n == selection.total
           s == [i \in 1 .. n |-> i - 1]
           K == 1 .. n
<1>0. n \in Nat /\ Nodes = 0 .. n - 1 /\ n > 0
  BY SelectionBounds DEF SelectionRecords, Nodes
<1>1. selection.ties = 0 /\ selection.verifiers = 0
  BY CommitteesAreFilled, FS_EmptySet
<1>2. Seated("Trainer") = Nodes
  BY <1>1, AllTrain
<1>3. {i \in 1 .. n : i - 1 \in Seated("Trainer")} = K
  BY <1>0, <1>2
<1>4. o = Retain(s, K)
  BY <1>3
<1> HIDE DEF n
<1>5. s \in Seq(Nodes) /\ Len(s) = n /\ DOMAIN s = K /\ \A i \in K : s[i] = i - 1
  BY <1>0
<1>6. Cardinality(K) = n
  <2>1. Cardinality(1 .. n) = IF 1 > n THEN 0 ELSE n - 1 + 1
    BY <1>0, FS_Interval
  <2> QED BY <1>0, <2>1
<1>7. K \in SUBSET (DOMAIN s) /\ K \in SUBSET (1 .. n)
  BY <1>5
<1>8. \A p \in K : \E i \in 1 .. Cardinality(K) : Nth(K, i) = p
  BY <1>0, <1>7, NthOnto
<1> HIDE DEF s, K
<1>9. /\ Retain(s, K) \in Seq(Nodes) /\ Len(Retain(s, K)) = Cardinality(K)
      /\ \A i \in 1 .. Cardinality(K) : Nth(K, i) \in K /\ Retain(s, K)[i] = s[Nth(K, i)]
      /\ \A i, j \in 1 .. Cardinality(K) : Nth(K, i) = Nth(K, j) => i = j
  BY <1>5, <1>7, RetainProperties
<1>10. /\ o \in Seq(Nodes) /\ Len(o) = n
       /\ \A i \in 1 .. n : Nth(K, i) \in K /\ o[i] = Nth(K, i) - 1
       /\ \A i, j \in 1 .. n : Nth(K, i) = Nth(K, j) => i = j
       /\ \A p \in K : \E i \in 1 .. n : Nth(K, i) = p
  BY ZenonT(30), <1>4, <1>5, <1>6, <1>8, <1>9
<1>11. \A k \in K : k \in Nat
  BY DEF K
<1>12. ASSUME NEW i \in 1 .. n, NEW j \in 1 .. n, o[i] = o[j] PROVE i = j
  <2>1. Nth(K, i) - 1 = Nth(K, j) - 1 /\ Nth(K, i) \in Nat /\ Nth(K, j) \in Nat
    BY <1>10, <1>11, <1>12
  <2>2. Nth(K, i) = Nth(K, j)
    BY <2>1
  <2> QED BY <1>10, <2>2
<1>13. ASSUME NEW p \in Nodes PROVE \E i \in 1 .. n : o[i] = p
  <2>1. p \in Nat /\ p + 1 \in K /\ (p + 1) - 1 = p
    BY <1>0 DEF K
  <2>2. PICK i \in 1 .. n : Nth(K, i) = p + 1
    BY <1>10, <2>1
  <2>3. o[i] = p
    BY <1>10, <2>1, <2>2
  <2> QED BY <2>3
<1> QED BY <1>1, <1>10, <1>12, <1>13 DEF n

\* An exchange keeps everyone once in the order.
LEMMA ExchangeKeepsOrder ==
  ASSUME selection \in SelectionRecords, OrderSound, selection' = selection,
         NEW k \in 1 .. selection.total, NEW l \in 1 .. selection.total,
         order' = Exchanged(k, l)
  PROVE  OrderSound'
<1> DEFINE n == selection.total
<1>0. n \in Nat /\ Nodes' = Nodes /\ selection'.total = n
      /\ selection'.ties = 0 /\ selection'.verifiers = 0
  BY SelectionBounds DEF SelectionRecords, Nodes, OrderSound
<1>1. /\ order \in Seq(Nodes) /\ Len(order) = n /\ DOMAIN order = 1 .. n
      /\ \A i, j \in 1 .. n : order[i] = order[j] => i = j
      /\ \A p \in Nodes : \E i \in 1 .. n : order[i] = p
  BY <1>0 DEF OrderSound
<1>2. k \in 1 .. n /\ l \in 1 .. n
  OBVIOUS
<1> HIDE DEF n
<1>3. order' = [order EXCEPT ![k] = order[l], ![l] = order[k]]
  BY DEF Exchanged
<1>4. order[k] \in Nodes /\ order[l] \in Nodes
  BY <1>1, <1>2
<1>5. /\ order' \in Seq(Nodes) /\ Len(order') = n
      /\ \A i \in 1 .. n : order'[i] = IF i = l THEN order[k] ELSE IF i = k THEN order[l] ELSE order[i]
  <2>1. order \in [1 .. n -> Nodes]
    BY <1>0, <1>1
  <2>2. order' \in [1 .. n -> Nodes]
    BY <1>3, <1>4, <2>1
  <2>3. \A i \in 1 .. n : order'[i] = IF i = l THEN order[k] ELSE IF i = k THEN order[l] ELSE order[i]
    BY <1>2, <1>3, <2>1
  <2>4. order' \in Seq(Nodes) /\ Len(order') = n
    BY <1>0, <2>2
  <2> QED BY <2>3, <2>4
<1>6. ASSUME NEW i \in 1 .. n, NEW j \in 1 .. n, order'[i] = order'[j] PROVE i = j
  BY SMTT(30), <1>1, <1>2, <1>5, <1>6
<1>7. ASSUME NEW p \in Nodes PROVE \E i \in 1 .. n : order'[i] = p
  <2>1. PICK i \in 1 .. n : order[i] = p
    BY <1>1
  <2>2. CASE i = k
    BY <1>2, <1>5, <2>1, <2>2
  <2>3. CASE i = l
    <3>1. order'[k] = p
      BY <1>2, <1>5, <2>1, <2>3
    <3> QED BY <1>2, <3>1
  <2>4. CASE i # k /\ i # l
    BY <1>5, <2>1, <2>4
  <2> QED BY <2>2, <2>3, <2>4
<1> QED BY <1>0, <1>5, <1>6, <1>7 DEF OrderSound

\* Every step of the computation keeps the invariant.
LEMMA SelectionStep == SelectionIInv /\ [SelectionNext]_selectionVars => SelectionIInv'
<1> SUFFICES ASSUME SelectionIInv, [SelectionNext]_selectionVars PROVE SelectionIInv'
  OBVIOUS
<1>0. /\ SelectionTypes /\ Seating /\ PickingSound /\ selection \in SelectionRecords
      /\ selection.total \in Nat /\ selection.total <= MaxNodes /\ selection.total > 0
  BY SelectionBounds DEF SelectionIInv, SelectionTypes, SelectionRecords
<1>1. CASE NewSelection
  <2>1. Nodes' = Nodes /\ selection' \in SelectionRecords /\ (picking' # "invalid" => SelectionChecked')
    <3>1. CASE InvalidSelection
      BY <1>0, <1>1, <3>1 DEF NewSelection, Nodes
    <3>2. CASE ~InvalidSelection
      <4>1. selection' = [selection EXCEPT !.verifiers =
                               ((selection.total - selection.ties) * selection.percent) \div 100]
        BY <1>1, <3>2 DEF NewSelection
      <4> QED BY <1>0, <3>2, <4>1, CheckedByNew
    <3> QED BY <3>1, <3>2
  <2>2. UNCHANGED <<turn, seats, order, sizes, step, index>> /\ picking' \in {"invalid", "committee", "witness"}
        /\ picking = "new"
    BY <1>1 DEF NewSelection, Salts
  <2>3. SelectionTypes'
    BY <1>0, <2>1, <2>2 DEF SelectionTypes, Pickings, SelectionRecords
  <2>4. Seating'
    BY <1>0, <2>1, <2>2 DEF Seating
  <2>5. PickingSound'
    BY <1>0, <2>1, <2>2 DEF PickingSound
  <2> QED BY <2>3, <2>4, <2>5 DEF SelectionIInv
<1>2. CASE Shuffled
  <2>1. /\ picking = "committee" /\ picking' = "order" /\ turn' = Len(order')
        /\ UNCHANGED <<selection, seats, sizes, step, index>>
        /\ Seated("TieBreaker") = {} /\ Seated("Verifier") = {}
        /\ order' = Retain([i \in 1 .. selection.total |-> i - 1],
                       {i \in 1 .. selection.total : i - 1 \in Seated("Trainer")})
    BY <1>2 DEF Shuffled
  <2>2. Nodes' = Nodes /\ SelectionChecked /\ SelectionChecked'
    BY <1>0, <2>1 DEF Nodes, PickingSound, SelectionChecked
  <2>3. /\ selection.ties = 0 /\ selection.verifiers = 0
        /\ order' \in Seq(Nodes) /\ Len(order') = selection.total
        /\ \A i, j \in 1 .. selection.total : order'[i] = order'[j] => i = j
        /\ \A p \in Nodes : \E i \in 1 .. selection.total : order'[i] = p
    BY <1>0, <2>1, <2>2, TrainersListed
  <2>4. OrderSound'
    BY <2>1, <2>2, <2>3 DEF OrderSound
  <2>5. SelectionTypes'
    <3>1. turn' \in 0 .. Max({MaxNodes, ShuffleRounds})
      BY <1>0, <2>1, <2>3, SelectionBounds
    <3> QED BY <1>0, <2>1, <3>1 DEF SelectionTypes, Pickings, SelectionRecords
  <2>6. Seating'
    BY <1>0, <2>1, <2>2 DEF Seating
  <2>7. PickingSound'
    BY <1>0, <2>1, <2>2, <2>3, <2>4 DEF PickingSound
  <2> QED BY <2>5, <2>6, <2>7 DEF SelectionIInv
<1>3. CASE ShuffleItem
  <2>1. PICK j \in 1 .. turn : order' = Exchanged(turn, j)
    BY <1>3 DEF ShuffleItem
  <2>2. picking = "order" /\ turn > 1 /\ turn' = turn - 1
        /\ UNCHANGED <<selection, picking, seats, sizes, step, index>>
    BY <1>3 DEF ShuffleItem
  <2>3. OrderSound /\ turn <= selection.total /\ turn \in Nat /\ SelectionChecked
    BY <1>0, <2>2, SelectionBounds DEF PickingSound, SelectionTypes
  <2>4. turn \in 1 .. selection.total /\ j \in 1 .. selection.total
    BY <1>0, <2>2, <2>3
  <2>5. OrderSound'
    BY <1>0, <2>1, <2>2, <2>3, <2>4, ExchangeKeepsOrder
  <2>6. Nodes' = Nodes /\ SelectionChecked'
    BY <2>2, <2>3 DEF Nodes, SelectionChecked
  <2>7. SelectionTypes'
    BY <1>0, <2>2, <2>3, SelectionBounds DEF SelectionTypes, Pickings, SelectionRecords
  <2>8. Seating'
    BY <1>0, <2>2, <2>6 DEF Seating
  <2>9. PickingSound'
    BY <1>0, <2>2, <2>3, <2>5, <2>6 DEF PickingSound
  <2> QED BY <2>7, <2>8, <2>9 DEF SelectionIInv
<1>4. CASE Ordered
  <2>1. /\ picking = "order" /\ picking' = "assigned" /\ seats' = [i \in Nodes |-> i]
        /\ sizes' \in [first : 1 .. MaxRoundBatch, last : 1 .. MaxRoundBatch, warmup : WarmupTokens]
        /\ sizes'.first <= sizes'.last
        /\ UNCHANGED <<selection, turn, order, step, index>>
    BY <1>4 DEF Ordered
  <2>2. OrderSound /\ SelectionChecked /\ step = 1 /\ index = 0
    BY <1>0, <2>1 DEF PickingSound
  <2>3. Nodes' = Nodes
    BY <2>1 DEF Nodes
  <2>4. OrderSound' /\ SelectionChecked'
    BY <2>1, <2>2, <2>3 DEF OrderSound, SelectionChecked
  <2>5. SizesSound'
    <3>1. /\ sizes'.first \in 1 .. MaxRoundBatch /\ sizes'.last \in 1 .. MaxRoundBatch
          /\ sizes'.warmup \in WarmupTokens
      BY <2>1
    <3>2. sizes'.first \in Nat /\ sizes'.last \in Nat
      BY <3>1, SelectionBounds
    <3>3. sizes'.warmup \in Nat
      BY <3>1, SelectionBounds
    <3> QED BY <2>1, <3>2, <3>3 DEF SizesSound
  <2>6. DataIndexForStep(step)' = index'
    BY <2>1, <2>2 DEF DataIndexForStep
  <2>7. SelectionTypes'
    BY <1>0, <2>1 DEF SelectionTypes, Pickings, SelectionRecords
  <2>8. Seating'
    BY <2>1, <2>3 DEF Seating
  <2>9. PickingSound'
    BY <2>1, <2>4, <2>5, <2>6 DEF PickingSound
  <2> QED BY <2>7, <2>8, <2>9 DEF SelectionIInv
<1>5. CASE NextRoundData
  <2>1. /\ picking = "assigned" /\ step < SelectionSteps /\ index' = index + TotalSize
        /\ step' = step + 1 /\ UNCHANGED <<selection, picking, turn, seats, order, sizes>>
    BY <1>5 DEF NextRoundData
  <2>2. /\ OrderSound /\ SelectionChecked /\ SizesSound /\ DataIndexForStep(step) = index
        /\ step \in 1 .. SelectionSteps /\ index \in Nat
    BY <1>0, <2>1 DEF PickingSound, SelectionTypes
  <2>3. Nodes' = Nodes
    BY <2>1 DEF Nodes
  <2>4. OrderSound' /\ SelectionChecked' /\ SizesSound'
    BY <2>1, <2>2, <2>3 DEF OrderSound, SelectionChecked, SizesSound
  <2>5. TotalSize \in Nat
    <3>1. index * TokensOf \in Nat
      BY <2>2, SelectionBounds
    <3> QED BY <2>2, <3>1, RoundBatchSizeType DEF TotalSize
  <2>6. DataIndexForStep(step)' = index'
    <3>1. DataIndexForStep(step + 1) = index + TotalSize
      BY <2>1, <2>2, DataIndexGrows
    <3>2. DataIndexForStep(step)' = DataIndexForStep(step + 1)
      BY <2>1 DEF DataIndexForStep, RoundBatchSize, StepsBefore
    <3> QED BY <2>1, <3>1, <3>2
  <2>7. SelectionTypes'
    <3>1. index' \in Nat /\ step' \in 1 .. SelectionSteps
      BY <2>1, <2>2, <2>5, SelectionBounds
    <3> QED BY <1>0, <2>1, <3>1 DEF SelectionTypes, Pickings, SelectionRecords
  <2>8. Seating'
    BY <1>0, <2>1, <2>3 DEF Seating
  <2>9. PickingSound'
    BY <2>1, <2>4, <2>6 DEF PickingSound
  <2> QED BY <2>7, <2>8, <2>9 DEF SelectionIInv
<1>6. CASE \E salt \in Salts : SwapOrNot(salt)
  <2>1. PICK salt \in Salts : SwapOrNot(salt)
    BY <1>6
  <2>2. PICK pivot \in Nodes, bits \in SUBSET Nodes :
          seats' = [i \in Nodes |-> Swapped(seats[i], pivot, bits)]
    BY <2>1 DEF SwapOrNot
  <2>3. /\ picking \in {"committee", "witness"} /\ turn < ShuffleRounds /\ turn' = turn + 1
        /\ UNCHANGED <<selection, picking, order, sizes, step, index>>
    BY <2>1 DEF SwapOrNot, Salts
  <2>4. Seating'
    BY <1>0, <2>2, <2>3, SwapKeepsSeating
  <2>5. SelectionTypes'
    <3>1. turn' \in 0 .. Max({MaxNodes, ShuffleRounds})
      BY <1>0, <2>3, SelectionBounds DEF SelectionTypes
    <3> QED BY <1>0, <2>3, <3>1 DEF SelectionTypes, Pickings, SelectionRecords
  <2>6. PickingSound'
    BY <1>0, <2>3 DEF PickingSound, SelectionChecked
  <2> QED BY <2>4, <2>5, <2>6 DEF SelectionIInv
<1>7. CASE UNCHANGED selectionVars
  <2>1. UNCHANGED <<selection, picking, turn, seats, order, sizes, step, index>>
    BY <1>7 DEF selectionVars
  <2>2. Nodes' = Nodes
    BY <2>1 DEF Nodes
  <2>3. SelectionTypes'
    BY <1>0, <2>1 DEF SelectionTypes, SelectionRecords
  <2>4. Seating'
    BY <1>0, <2>1, <2>2 DEF Seating
  <2>5. PickingSound'
    <3>1. DataIndexForStep(step)' = DataIndexForStep(step)
      BY <2>1 DEF DataIndexForStep, RoundBatchSize, StepsBefore
    <3> QED BY <1>0, <2>1, <2>2, <3>1 DEF PickingSound, SelectionChecked, OrderSound, SizesSound
  <2> QED BY <2>3, <2>4, <2>5 DEF SelectionIInv
<1> QED BY <1>1, <1>2, <1>3, <1>4, <1>5, <1>6, <1>7 DEF SelectionNext

\* The invariant implies what the run checks.
LEMMA SelectionImplied == SelectionIInv => SelectionInv
<1> SUFFICES ASSUME SelectionIInv PROVE SelectionInv
  OBVIOUS
<1>0. SelectionTypes /\ Seating /\ PickingSound /\ selection \in SelectionRecords
  BY DEF SelectionIInv, SelectionTypes
<1>1. OneSeatEach
  BY <1>0 DEF OneSeatEach, IsInjective, Seating
<1>2. SelectionTypeOK
  <2>1. ASSUME picking \in {"order", "assigned"}
        PROVE  ToSet(order) = Seated("Trainer") /\ IsInjective(order)
    <3>1. OrderSound
      BY <1>0, <2>1 DEF PickingSound
    <3>2. Seated("Trainer") = Nodes
      BY <1>0, <3>1, AllTrain DEF OrderSound
    <3>3. DOMAIN order = 1 .. selection.total /\ \A i \in DOMAIN order : order[i] \in Nodes
      BY <3>1 DEF OrderSound
    <3>4. ToSet(order) = Nodes
      BY <3>1, <3>3 DEF OrderSound, ToSet
    <3>5. IsInjective(order)
      BY <3>1, <3>3 DEF OrderSound, IsInjective
    <3> QED BY <3>2, <3>4, <3>5
  <2> QED BY <1>0, <2>1 DEF SelectionTypeOK, SelectionTypes, Pickings, Seating
<1>3. CommitteesFilled
  <2>1. ASSUME picking \in Salts PROVE SelectionChecked
    BY <1>0, <2>1 DEF PickingSound, Salts
  <2>2. ASSUME picking = "committee"
        PROVE  /\ Cardinality(Seated("TieBreaker")) = selection.ties
               /\ Cardinality(Seated("Verifier")) = selection.verifiers
               /\ Cardinality(Seated("Trainer")) = NumTrainerNodes
    BY <1>0, <2>1, <2>2, CommitteesAreFilled DEF Salts
  <2>3. ASSUME picking = "witness"
        PROVE  Cardinality({i \in Nodes : WitnessAt(seats[i])}) =
                 IF selection.witnesses = 0 THEN Min({MaxWitnesses, selection.total})
                 ELSE selection.witnesses
    BY <1>0, <2>1, <2>3, WitnessesAreFilled DEF Salts
  <2> QED BY <2>2, <2>3 DEF CommitteesFilled
<1>4. AssignedOnce /\ BatchIdsAgree
  <2>1. CASE picking # "assigned"
    BY <2>1 DEF AssignedOnce, BatchIdsAgree
  <2>2. CASE picking = "assigned"
    <3>1. OrderSound /\ SizesSound /\ index \in Nat
      BY <1>0, <2>2 DEF PickingSound, SelectionTypes
    <3>2. TotalSize \in Nat
      <4>1. index * TokensOf \in Nat
        BY <3>1, SelectionBounds
      <4> QED BY <3>1, <4>1, RoundBatchSizeType DEF TotalSize
    <3> QED BY <1>0, <3>1, <3>2, DataAssignedOnce
  <2> QED BY <2>1, <2>2
<1>5. RestartsWithSameData
  BY <1>0 DEF RestartsWithSameData, PickingSound
<1> QED BY <1>1, <1>2, <1>3, <1>4, <1>5 DEF SelectionInv

\* Whatever the hashes and the random numbers are, for every number of clients, rounds
\* of the shuffle and batch sizes: swap-or-not seats every client once, the committees
\* and the witnesses are as many as asked for, every sample of a round is assigned to
\* one trainer in shares that differ by at most one, the batches that are waited for are
\* the ones assigned, and a run set back to a step has the data it had there
\* (committee_selection.rs, swap_or_not.rs, deterministic_shuffle.rs, data_selection.rs).
THEOREM SelectionCorrect == SelectionSpec => []SelectionInv
<1>1. SelectionInit => SelectionIInv
  BY SelectionStarts
<1>2. SelectionIInv /\ [SelectionNext]_selectionVars => SelectionIInv'
  BY SelectionStep
<1>3. SelectionIInv => SelectionInv
  BY SelectionImplied
<1> QED BY <1>1, <1>2, <1>3, PTL DEF SelectionSpec


-----------------------------------------------------------------------------
(* The batch of a client's trainers. *)

\* Products of naturals grow with their factors.
LEMMA TimesGrows ==
  ASSUME NEW a \in Nat, NEW b \in Nat, NEW c \in Nat, a <= b
  PROVE  a * c \in Nat /\ b * c \in Nat /\ a * c <= b * c
<1>1. PICK d \in Nat : b = a + d
  <2>1. b - a \in Nat /\ b = a + (b - a)
    OBVIOUS
  <2> QED BY <2>1
<1>2. b * c = a * c + d * c /\ d * c \in Nat /\ a * c \in Nat
  BY <1>1
<1> QED BY <1>2

\* And a product that is not greater has a factor that is not greater.
LEMMA TimesShrinks ==
  ASSUME NEW a \in Nat, NEW b \in Nat, NEW c \in Nat \ {0}, a * c <= b * c
  PROVE  a <= b
<1> SUFFICES ASSUME b < a PROVE FALSE
  OBVIOUS
<1>1. b + 1 <= a /\ b + 1 \in Nat /\ c \in Nat
  OBVIOUS
<1>2. (b + 1) * c <= a * c
  BY <1>1, TimesGrows
<1>3. (b + 1) * c = b * c + c /\ b * c \in Nat /\ a * c \in Nat
  OBVIOUS
<1> QED BY <1>2, <1>3

\* A division that is rounded up.
LEMMA CeilDivFacts ==
  ASSUME NEW a \in Nat, NEW b \in Nat \ {0}
  PROVE  /\ CeilDiv(a, b) \in Nat
         /\ CeilDiv(a, b) * b \in Nat
         /\ a <= CeilDiv(a, b) * b /\ CeilDiv(a, b) * b < a + b
         /\ a > 0 => CeilDiv(a, b) > 0
<1> DEFINE y == (a + b) - 1
           c == y \div b
           p == c * b
<1>1. y \in Nat
  OBVIOUS
<1>2. c \in Nat /\ y = b * c + (y % b) /\ y % b \in 0 .. b - 1
  <2> HIDE DEF y
  <2> QED BY <1>1
<1>3. CeilDiv(a, b) = c
  BY DEF CeilDiv
<1>4. p = b * c /\ p \in Nat
  <2> HIDE DEF c
  <2> QED BY <1>2
<1> HIDE DEF p
<1>5. p <= y /\ y < p + b
  <2> DEFINE z == y % b
  <2>1. y = p + z /\ z \in 0 .. b - 1
    BY <1>2, <1>4
  <2> HIDE DEF z, y
  <2> QED BY <1>1, <1>4, <2>1
<1>6. a <= p /\ p < a + b
  <2>1. y + 1 = a + b
    OBVIOUS
  <2> HIDE DEF y
  <2> QED BY <1>1, <1>4, <1>5, <2>1
<1>7. a > 0 => c > 0
  <2> SUFFICES ASSUME a > 0, c = 0 PROVE FALSE
    BY <1>2
  <2>1. p = 0
    <3>1. c * b = 0
      <4> HIDE DEF c
      <4> QED OBVIOUS
    <3> QED BY <3>1 DEF p
  <2> QED BY <1>6, <2>1
<1> HIDE DEF c
<1> QED BY <1>2, <1>3, <1>4, <1>6, <1>7 DEF p

\* It is the least number of parts that hold everything.
LEMMA CeilDivLeast ==
  ASSUME NEW a \in Nat, NEW b \in Nat \ {0}, NEW k \in Nat, a <= k * b
  PROVE  CeilDiv(a, b) <= k
<1> DEFINE c == CeilDiv(a, b)
<1>1. c \in Nat /\ c * b \in Nat /\ c * b < a + b
  BY CeilDivFacts
<1> HIDE DEF c
<1> SUFFICES ASSUME k < c PROVE FALSE
  BY <1>1 DEF c
<1>2. k + 1 <= c /\ k + 1 \in Nat /\ b \in Nat
  BY <1>1
<1>3. (k + 1) * b <= c * b
  BY <1>1, <1>2, TimesGrows
<1>4. (k + 1) * b = k * b + b /\ k * b \in Nat
  OBVIOUS
<1> QED BY <1>1, <1>3, <1>4

\* Cut into as many even parts as there are parts of size m, it has that many parts.
LEMMA EvenParts ==
  ASSUME NEW n \in Nat \ {0}, NEW m \in Nat \ {0},
         NEW steps, steps = CeilDiv(n, m),
         NEW size, size = CeilDiv(n, steps)
  PROVE  /\ steps \in Nat \ {0} /\ size \in Nat \ {0} /\ CeilDiv(n, size) = steps
         /\ n % m = 0 => size = m
<1>1. steps \in Nat \ {0} /\ n <= steps * m /\ steps * m < n + m
  BY CeilDivFacts
<1>2. size \in Nat \ {0} /\ n <= size * steps
  <2>1. n \in Nat /\ n > 0
    OBVIOUS
  <2>2. /\ CeilDiv(n, steps) \in Nat /\ n <= CeilDiv(n, steps) * steps
        /\ n > 0 => CeilDiv(n, steps) > 0
    BY <1>1, <2>1, CeilDivFacts
  <2> QED BY <2>1, <2>2
<1>3. size <= m
  <2>1. n <= m * steps
    BY <1>1
  <2> QED BY <1>1, <2>1, CeilDivLeast
<1>4. CeilDiv(n, size) <= steps
  <2>1. n <= steps * size
    BY <1>1, <1>2
  <2> QED BY <1>1, <1>2, <2>1, CeilDivLeast
<1>5. steps <= CeilDiv(n, size)
  <2> DEFINE c == CeilDiv(n, size)
  <2>1. c \in Nat /\ n <= c * size /\ c * size \in Nat
    BY <1>2, CeilDivFacts
  <2> HIDE DEF c
  <2>2. size * c <= m * c
    BY <1>2, <1>3, <2>1, TimesGrows
  <2>3. size * c = c * size /\ m * c = c * m /\ c * m \in Nat
    BY <1>2, <2>1
  <2>4. n <= c * m
    BY <2>1, <2>2, <2>3
  <2>5. CeilDiv(n, m) <= c
    BY <2>1, <2>4, CeilDivLeast
  <2> QED BY <2>5 DEF c
<1>6. CeilDiv(n, size) = steps
  <2>1. CeilDiv(n, size) \in Nat
    BY <1>2, CeilDivFacts
  <2> QED BY <1>1, <1>4, <1>5, <2>1
<1>7. ASSUME n % m = 0 PROVE size = m
  <2> DEFINE k == n \div m
  <2>1. k \in Nat /\ n = m * k
    <3>1. n \div m \in Nat /\ n = m * (n \div m) + (n % m)
      OBVIOUS
    <3> QED BY <1>7, <3>1
  <2> HIDE DEF k
  <2>2. steps <= k
    <3>1. n <= k * m
      BY <2>1
    <3> QED BY <2>1, <3>1, CeilDivLeast
  <2>3. m * k <= size * k
    <3>1. steps * size <= k * size
      BY <1>1, <1>2, <2>1, <2>2, TimesGrows
    <3>2. size * steps = steps * size /\ k * size = size * k /\ size * k \in Nat
          /\ steps * size \in Nat
      BY <1>1, <1>2, <2>1
    <3> QED BY <1>2, <2>1, <3>1, <3>2
  <2>4. k # 0
    BY <2>1
  <2>5. m <= size
    BY <1>2, <2>1, <2>3, <2>4, TimesShrinks
  <2> QED BY <1>2, <1>3, <2>5
<1> QED BY <1>1, <1>2, <1>6, <1>7

\* One more time.
LEMMA TimesNext ==
  ASSUME NEW a \in Nat, NEW c \in Nat
  PROVE  a * c \in Nat /\ (a + 1) * c = a * c + c
OBVIOUS

\* A slice of a sequence.
LEMMA SliceFacts ==
  ASSUME NEW s \in Seq(Nat), NEW a \in Nat, NEW e \in Nat, a < e, e <= Len(s)
  PROVE  /\ SubSeq(s, a + 1, e) \in Seq(Nat) /\ Len(SubSeq(s, a + 1, e)) = e - a
         /\ \A k \in 1 .. e - a : a + k \in 1 .. Len(s) /\ SubSeq(s, a + 1, e)[k] = s[a + k]
<1> DEFINE b == a + 1
           S == SubSeq(s, b, e)
<1>1. b \in Int /\ e \in Int /\ \A i \in b .. e : s[i] \in Nat
  OBVIOUS
<1>2. b <= e /\ (e - b) + 1 = e - a
  OBVIOUS
<1>3. \A k \in 1 .. e - a : (b + k) - 1 = a + k /\ a + k \in 1 .. Len(s)
  OBVIOUS
<1> HIDE DEF b
<1>4. /\ S \in Seq(Nat) /\ Len(S) = IF b <= e THEN (e - b) + 1 ELSE 0
      /\ \A k \in 1 .. (e - b) + 1 : S[k] = s[(b + k) - 1]
  BY <1>1, SubSeqProperties
<1> HIDE DEF S
<1>5. S \in Seq(Nat) /\ Len(S) = e - a /\ \A k \in 1 .. e - a : a + k \in 1 .. Len(s) /\ S[k] = s[a + k]
  BY <1>2, <1>3, <1>4
<1> QED BY <1>5 DEF S, b

\* The chunks of a sequence: where each one begins, its length and its elements.
LEMMA ChunksFacts ==
  ASSUME NEW s \in Seq(Nat), NEW size \in Nat \ {0}
  PROVE  /\ ChunksOf(s, size) \in Seq(Seq(Nat))
         /\ Len(ChunksOf(s, size)) = CeilDiv(Len(s), size)
         /\ \A i \in 1 .. CeilDiv(Len(s), size) :
              LET chunk == ChunksOf(s, size)[i]
                  start == (i - 1) * size
              IN  /\ start \in Nat /\ start < Len(s)
                  /\ chunk \in Seq(Nat)
                  /\ Len(chunk) = IF start + size > Len(s) THEN Len(s) - start ELSE size
                  /\ \A k \in 1 .. Len(chunk) : start + k \in 1 .. Len(s) /\ chunk[k] = s[start + k]
<1> DEFINE n == Len(s)
           m == CeilDiv(n, size)
           C == ChunksOf(s, size)
<1>1. n \in Nat /\ m \in Nat /\ m * size \in Nat /\ m * size < n + size
  <2>1. n \in Nat
    OBVIOUS
  <2> HIDE DEF n
  <2> QED BY <2>1, CeilDivFacts
<1>2. C = [i \in 1 .. m |-> SubSeq(s, (i - 1) * size + 1, IF i * size > n THEN n ELSE i * size)]
  BY DEF ChunksOf
<1> HIDE DEF m, C
<1>3. ASSUME NEW i \in 1 .. m
      PROVE  /\ (i - 1) * size \in Nat /\ (i - 1) * size < n
             /\ C[i] \in Seq(Nat)
             /\ Len(C[i]) = IF (i - 1) * size + size > n THEN n - (i - 1) * size ELSE size
             /\ \A k \in 1 .. Len(C[i]) :
                  (i - 1) * size + k \in 1 .. n /\ C[i][k] = s[(i - 1) * size + k]
  <2> DEFINE x == (i - 1) * size
             e == IF x + size > n THEN n ELSE x + size
  <2>1. x \in Nat /\ i * size = x + size
    <3>1. i - 1 \in Nat /\ size \in Nat /\ i = (i - 1) + 1
      BY <1>1
    <3> DEFINE j == i - 1
    <3>2. j \in Nat /\ i = j + 1
      BY <3>1
    <3> HIDE DEF j
    <3>3. j * size \in Nat /\ i * size = j * size + size
      BY <3>2
    <3> QED BY <3>3 DEF j
  <2>2. i * size <= m * size
    BY <1>1, TimesGrows
  <2>3. C[i] = SubSeq(s, x + 1, e)
    BY <1>2, <2>1
  <2> HIDE DEF x
  <2>4. x < n
    BY <1>1, <2>1, <2>2
  <2>5. e \in Nat /\ x < e /\ e <= n /\ e - x = IF x + size > n THEN n - x ELSE size
    BY <1>1, <2>1, <2>4
  <2> HIDE DEF e
  <2>6. /\ SubSeq(s, x + 1, e) \in Seq(Nat) /\ Len(SubSeq(s, x + 1, e)) = e - x
        /\ \A k \in 1 .. e - x : x + k \in 1 .. n /\ SubSeq(s, x + 1, e)[k] = s[x + k]
    BY <1>1, <2>1, <2>5, SliceFacts
  <2>7. /\ C[i] \in Seq(Nat) /\ Len(C[i]) = e - x
        /\ \A k \in 1 .. Len(C[i]) : x + k \in 1 .. n /\ C[i][k] = s[x + k]
    BY <2>3, <2>6
  <2>8. Len(C[i]) = IF x + size > n THEN n - x ELSE size
    BY <2>5, <2>7
  <2> QED BY <2>1, <2>4, <2>7, <2>8 DEF x
<1>4. C \in Seq(Seq(Nat)) /\ Len(C) = m
  <2>1. C = [i \in 1 .. m |-> C[i]] /\ \A i \in 1 .. m : C[i] \in Seq(Nat)
    BY <1>2, <1>3
  <2>2. C \in [1 .. m -> Seq(Nat)]
    BY <2>1
  <2> QED BY <1>1, <2>2, FunctionToSeq
<1> QED BY <1>3, <1>4 DEF m, C

\* The elements of the chunks are the elements of the sequence.
LEMMA ChunksCover ==
  ASSUME NEW s \in Seq(Nat), NEW size \in Nat \ {0}
  PROVE  /\ \A i \in 1 .. CeilDiv(Len(s), size) : ToSet(ChunksOf(s, size)[i]) \subseteq ToSet(s)
         /\ UNION {ToSet(ChunksOf(s, size)[i]) : i \in 1 .. CeilDiv(Len(s), size)} = ToSet(s)
<1> DEFINE n == Len(s)
           m == CeilDiv(n, size)
           C == ChunksOf(s, size)
<1>1. \A i \in 1 .. m :
        /\ (i - 1) * size \in Nat /\ (i - 1) * size < n
        /\ C[i] \in Seq(Nat)
        /\ Len(C[i]) = IF (i - 1) * size + size > n THEN n - (i - 1) * size ELSE size
        /\ \A k \in 1 .. Len(C[i]) :
             (i - 1) * size + k \in 1 .. n /\ C[i][k] = s[(i - 1) * size + k]
  BY ChunksFacts
<1>2. n \in Nat /\ m \in Nat /\ n <= m * size /\ m * size \in Nat
  <2>1. n \in Nat
    OBVIOUS
  <2> HIDE DEF n
  <2> QED BY <2>1, CeilDivFacts
<1> HIDE DEF m, C
<1>3. ASSUME NEW i \in 1 .. m PROVE ToSet(C[i]) \subseteq ToSet(s)
  <2> SUFFICES ASSUME NEW k \in DOMAIN C[i] PROVE C[i][k] \in ToSet(s)
    BY DEF ToSet
  <2>1. k \in 1 .. Len(C[i])
    BY SMTT(30), <1>1
  <2>2. (i - 1) * size + k \in DOMAIN s /\ C[i][k] = s[(i - 1) * size + k]
    BY SMTT(30), <1>1, <2>1
  <2> QED BY <2>2 DEF ToSet
<1>4. ASSUME NEW p \in 1 .. n PROVE \E i \in 1 .. m : s[p] \in ToSet(C[i])
  <2> DEFINE i == CeilDiv(p, size)
             x == (i - 1) * size
             k == p - x
  <2>1. i \in Nat \ {0} /\ i * size \in Nat /\ p <= i * size /\ i * size < p + size
    <3>1. p \in Nat /\ p > 0
      OBVIOUS
    <3>2. /\ CeilDiv(p, size) \in Nat /\ CeilDiv(p, size) * size \in Nat
          /\ p <= CeilDiv(p, size) * size /\ CeilDiv(p, size) * size < p + size
          /\ p > 0 => CeilDiv(p, size) > 0
      BY <3>1, CeilDivFacts
    <3> QED BY <3>1, <3>2
  <2>2. i <= m
    <3>1. p <= m * size
      BY <1>2
    <3> QED BY <1>2, <3>1, CeilDivLeast
  <2> HIDE DEF i
  <2>3. x \in Nat /\ i * size = x + size
    <3> DEFINE j == i - 1
    <3>1. j \in Nat /\ i = j + 1
      BY <2>1
    <3> HIDE DEF j
    <3>2. j * size \in Nat /\ i * size = j * size + size
      BY <3>1
    <3> QED BY <3>2 DEF j
  <2>4. i \in 1 .. m
    BY <1>2, <2>1, <2>2
  <2>5. x < n /\ Len(C[i]) = IF x + size > n THEN n - x ELSE size
    BY <1>1, <2>4
  <2>6. \A h \in 1 .. Len(C[i]) : C[i][h] = s[x + h]
    BY <1>1, <2>4
  <2> HIDE DEF x
  <2>7. k \in 1 .. Len(C[i]) /\ x + k = p
    BY <1>2, <2>1, <2>3, <2>5
  <2>8. C[i][k] = s[p] /\ k \in DOMAIN C[i]
    BY SMTT(30), <1>1, <2>4, <2>6, <2>7
  <2> QED BY <2>4, <2>8 DEF ToSet
<1>5. UNION {ToSet(C[i]) : i \in 1 .. m} = ToSet(s)
  <2>1. \A z \in ToSet(s) : \E i \in 1 .. m : z \in ToSet(C[i])
    BY SMTT(30), <1>4 DEF ToSet
  <2> QED BY <1>3, <2>1
<1> QED BY <1>3, <1>5 DEF m, C

\* Every trainer has a part of the samples.
DealtParts(s, T, D) ==
  \A t \in 1 .. T : D[t] \in Seq(Nat) /\ D[t] # <<>> /\ ToSet(D[t]) \subseteq ToSet(s)

\* Each of T trainers has q samples in a row, and the first r one more of the rest.
DealtLayout(s, T, q, r, D) ==
  \A t \in 1 .. T :
    /\ Len(D[t]) = IF t <= r THEN q + 1 ELSE q
    /\ \A k \in 1 .. q : D[t][k] = s[(t - 1) * q + k]
    /\ t <= r => D[t][q + 1] = s[T * q + t]

\* The batch is dealt to as many trainers as there are, each with a part of its own; when
\* no more is left over than one for each of the first, nothing of it is lost.
LEMMA DealtFacts ==
  ASSUME NEW s \in Seq(Nat), NEW T \in Nat \ {0}, T <= Len(s),
         NEW q, q = Len(s) \div T, NEW r, r = Len(s) % T,
         NEW D, D = Dealt(s, T)
  PROVE  /\ q \in Nat \ {0} /\ r \in 0 .. T - 1 /\ Len(s) = T * q + r
         /\ DealtParts(s, T, D)
         /\ r <= q => DealtLayout(s, T, q, r, D)
<1> DEFINE n == Len(s)
           C == ChunksOf(s, q)
           m == CeilDiv(n, q)
<1>1. n \in Nat /\ q \in Nat /\ r \in 0 .. T - 1 /\ n = T * q + r
  OBVIOUS
<1>2. q \in Nat \ {0} /\ T * q \in Nat
  <2>1. q = 0 => T * q = 0
    OBVIOUS
  <2> QED BY <1>1, <2>1
<1>3. /\ C \in Seq(Seq(Nat)) /\ Len(C) = m
      /\ \A i \in 1 .. m :
           /\ (i - 1) * q \in Nat /\ (i - 1) * q < n
           /\ C[i] \in Seq(Nat)
           /\ Len(C[i]) = IF (i - 1) * q + q > n THEN n - (i - 1) * q ELSE q
           /\ \A k \in 1 .. Len(C[i]) : (i - 1) * q + k \in 1 .. n /\ C[i][k] = s[(i - 1) * q + k]
  BY <1>2, ChunksFacts
<1>4. \A i \in 1 .. m : ToSet(C[i]) \subseteq ToSet(s)
  BY <1>2, ChunksCover
<1>5. m \in Nat /\ n <= m * q /\ m * q < n + q /\ m * q \in Nat
  BY <1>1, <1>2, CeilDivFacts
<1>6. D = IF m = T + 1
          THEN [i \in 1 .. T |-> IF i <= Len(C[m]) THEN Append(C[i], C[m][i]) ELSE C[i]]
          ELSE SubSeq(C, 1, T)
  BY <1>3 DEF Dealt, Last
<1> HIDE DEF m, C
<1>7. T <= m
  <2>1. T * q <= m * q
    BY <1>1, <1>2, <1>5
  <2> QED BY <1>2, <1>5, <2>1, TimesShrinks
<1>8. \A i \in 1 .. T : i \in 1 .. m
  BY <1>5, <1>7
<1>9. ASSUME NEW i \in 1 .. T
      PROVE  /\ C[i] \in Seq(Nat) /\ Len(C[i]) = q /\ ToSet(C[i]) \subseteq ToSet(s)
             /\ \A k \in 1 .. q : C[i][k] = s[(i - 1) * q + k]
  <2> DEFINE j == i - 1
             x == j * q
  <2>1. j \in Nat /\ i = j + 1 /\ i <= T
    OBVIOUS
  <2>2. x \in Nat /\ i * q = x + q
    <3> HIDE DEF j
    <3>1. j * q \in Nat /\ (j + 1) * q = j * q + q
      BY <1>2, <2>1, TimesNext
    <3> QED BY <2>1, <3>1
  <2>3. i * q <= T * q
    BY <1>2, TimesGrows
  <2>4. Len(C[i]) = IF x + q > n THEN n - x ELSE q
    BY <1>3, <1>8
  <2> HIDE DEF x
  <2>5. Len(C[i]) = q
    BY SMTT(30), <1>1, <1>2, <2>2, <2>3, <2>4
  <2> QED BY <1>3, <1>4, <1>8, <2>5
<1>10. CASE m # T + 1
  <2>1. D = SubSeq(C, 1, T) /\ \A i \in 1 .. T : D[i] = C[i]
    <3>1. D = SubSeq(C, 1, T)
      BY <1>6, <1>10
    <3>2. 1 \in 1 .. Len(C) + 1 /\ T \in 0 .. Len(C)
      <4>1. Len(C) = m
        BY <1>3
      <4> QED BY <1>5, <1>7, <4>1
    <3>3. ASSUME NEW i \in 1 .. T PROVE SubSeq(C, 1, T)[i] = C[i]
      <4>1. C \in Seq(Seq(Nat))
        BY <1>3
      <4>2. i \in 1 .. (T - 1) + 1 /\ (1 + i) - 1 = i
        OBVIOUS
      <4> QED BY <3>2, <4>1, <4>2, SubSeqProperties
    <3> QED BY <3>1, <3>3
  <2>2. ASSUME r <= q PROVE r = 0
    <3> SUFFICES ASSUME r # 0 PROVE FALSE
      OBVIOUS
    <3>0. T \in Nat /\ T + 1 \in Nat /\ q \in Nat
      BY <1>2
    <3>1. (T + 1) * q = T * q + q /\ T + 1 \in Nat
      BY ONLY <3>0, TimesNext
    <3>2. m <= T + 1
      <4>1. n <= (T + 1) * q
        BY <1>1, <1>2, <2>2, <3>1
      <4> QED BY <1>1, <1>2, <3>1, <4>1, CeilDivLeast DEF m
    <3>3. m = T
      BY <1>5, <1>7, <1>10, <3>2
    <3> QED BY <1>1, <1>2, <1>5, <3>3
  <2>3. \A t \in 1 .. T : D[t] \in Seq(Nat) /\ D[t] # <<>> /\ ToSet(D[t]) \subseteq ToSet(s)
    <3> SUFFICES ASSUME NEW t \in 1 .. T
                 PROVE  D[t] \in Seq(Nat) /\ D[t] # <<>> /\ ToSet(D[t]) \subseteq ToSet(s)
      OBVIOUS
    <3>1. C[t] \in Seq(Nat) /\ Len(C[t]) # 0 /\ ToSet(C[t]) \subseteq ToSet(s)
      BY <1>2, <1>9
    <3>2. C[t] # <<>>
      BY <3>1
    <3> QED BY <2>1, <3>1, <3>2
  <2>4. ASSUME r <= q, NEW t \in 1 .. T
        PROVE  /\ Len(D[t]) = IF t <= r THEN q + 1 ELSE q
               /\ \A k \in 1 .. q : D[t][k] = s[(t - 1) * q + k]
               /\ t <= r => D[t][q + 1] = s[T * q + t]
    <3>1. ~(t <= r)
      BY <2>2, <2>4
    <3> QED BY ZenonT(30), <1>9, <2>1, <3>1
  <2> QED BY <1>1, <1>2, <2>3, <2>4 DEF DealtLayout, DealtParts
<1>11. CASE m = T + 1
  <2> DEFINE x == C[m]
  <2>1. (T + 1) * q = T * q + q /\ (m - 1) * q = T * q /\ m \in 1 .. m
    <3>1. m - 1 = T
      BY <1>11
    <3>2. (m - 1) * q = T * q
      BY <3>1
    <3>3. (T + 1) * q = T * q + q
      BY <1>2, TimesNext
    <3> QED BY <1>5, <1>11, <3>2, <3>3
  <2>2. /\ x \in Seq(Nat) /\ T * q < n
        /\ Len(x) = IF T * q + q > n THEN n - T * q ELSE q
        /\ \A k \in 1 .. Len(x) : T * q + k \in 1 .. n /\ x[k] = s[T * q + k]
    <3> DEFINE y == (m - 1) * q
    <3>1. /\ x \in Seq(Nat) /\ y < n
          /\ Len(x) = IF y + q > n THEN n - y ELSE q
          /\ \A k \in 1 .. Len(x) : y + k \in 1 .. n /\ x[k] = s[y + k]
      BY <1>3, <2>1, Zenon
    <3>2. y = T * q
      BY <2>1
    <3> QED BY <3>1, <3>2, Zenon
  <2>3. ToSet(x) \subseteq ToSet(s)
    BY <1>4, <2>1
  <2>4. Len(x) = r /\ r <= q
    <3>1. n <= T * q + q
      BY <1>5, <1>11, <2>1
    <3>2. n = T * q + r
      BY <1>1
    <3> DEFINE y == T * q
    <3>3. y \in Nat /\ n = y + r /\ n <= y + q /\ Len(x) = IF y + q > n THEN n - y ELSE q
      BY <1>2, <2>2, <3>1, <3>2
    <3>4. q \in Nat /\ r \in Nat /\ n \in Nat
      BY <1>1, <1>2
    <3> HIDE DEF y, n
    <3> QED BY ONLY <3>3, <3>4
  <2>5. \A t \in 1 .. T : D[t] = IF t <= r THEN Append(C[t], x[t]) ELSE C[t]
    BY <1>6, <1>11, <2>4
  <2> HIDE DEF x
  <2>6. ASSUME NEW t \in 1 .. T
        PROVE  /\ D[t] \in Seq(Nat) /\ D[t] # <<>> /\ ToSet(D[t]) \subseteq ToSet(s)
               /\ Len(D[t]) = IF t <= r THEN q + 1 ELSE q
               /\ \A k \in 1 .. q : D[t][k] = s[(t - 1) * q + k]
               /\ t <= r => D[t][q + 1] = s[T * q + t]
    <3>1. /\ C[t] \in Seq(Nat) /\ Len(C[t]) = q /\ ToSet(C[t]) \subseteq ToSet(s)
          /\ \A k \in 1 .. q : C[t][k] = s[(t - 1) * q + k]
      BY <1>9
    <3>2. CASE t <= r
      <4>1. t \in 1 .. Len(x) /\ x[t] \in Nat /\ x[t] = s[T * q + t] /\ x[t] \in ToSet(s)
        <5>0. r \in Nat /\ t \in Nat /\ t >= 1
          BY <1>1
        <5>1. t \in 1 .. Len(x)
          BY ONLY <2>4, <3>2, <5>0
        <5>2. x[t] \in Nat /\ x[t] = s[T * q + t] /\ t \in DOMAIN x
          BY ONLY SMTT(30), <2>2, <5>1
        <5> QED BY ONLY <2>3, <5>1, <5>2 DEF ToSet
      <4> DEFINE a == x[t]
      <4>2. D[t] = Append(C[t], a)
        BY <2>5, <3>2
      <4>3. a \in Nat /\ a = s[T * q + t] /\ a \in ToSet(s)
        BY <4>1
      <4> HIDE DEF a
      <4>4. /\ D[t] \in Seq(Nat) /\ Len(D[t]) = q + 1 /\ D[t][q + 1] = a
            /\ \A k \in 1 .. q : D[t][k] = C[t][k]
        <5> DEFINE c == C[t]
        <5>1. c \in Seq(Nat) /\ Len(c) = q /\ D[t] = Append(c, a)
          BY ONLY <3>1, <4>2
        <5> HIDE DEF c
        <5>2. /\ Append(c, a) \in Seq(Nat) /\ Len(Append(c, a)) = Len(c) + 1
              /\ \A i \in 1 .. Len(c) : Append(c, a)[i] = c[i]
              /\ Append(c, a)[Len(c) + 1] = a
          BY ONLY SMTT(30), <4>3, <5>1, AppendToSequence
        <5>3. /\ D[t] \in Seq(Nat) /\ Len(D[t]) = q + 1 /\ D[t][q + 1] = a
              /\ \A k \in 1 .. q : D[t][k] = c[k]
          BY ONLY <5>1, <5>2
        <5> QED BY <5>3 DEF c
      <4>5. D[t] # <<>>
        BY SMTT(30), <1>2, <4>4
      <4>6. ToSet(D[t]) \subseteq ToSet(s)
        <5> SUFFICES ASSUME NEW k \in DOMAIN D[t] PROVE D[t][k] \in ToSet(s)
          BY DEF ToSet
        <5>1. CASE k = q + 1
          BY <4>3, <4>4, <5>1
        <5>2. CASE k # q + 1
          <6>1. k \in 1 .. q /\ k \in DOMAIN C[t]
            <7>1. k \in 1 .. q + 1
              BY ONLY <1>2, <4>4
            <7> QED BY ONLY <1>2, <3>1, <5>2, <7>1
          <6> QED BY <3>1, <4>4, <6>1 DEF ToSet
        <5> QED BY <5>1, <5>2
      <4> QED BY <3>1, <3>2, <4>3, <4>4, <4>5, <4>6
    <3>3. CASE ~(t <= r)
      <4>1. D[t] = C[t]
        BY <2>5, <3>3
      <4>2. C[t] # <<>>
        BY <1>2, <3>1
      <4> QED BY <3>1, <3>3, <4>1, <4>2
    <3> QED BY <3>2, <3>3
  <2> QED BY <1>1, <1>2, <2>6 DEF DealtLayout, DealtParts
<1> QED BY <1>10, <1>11

\* The types of a batch and of its setup.
TrainTypes ==
  /\ trainers \in 1 .. MaxTrainers /\ micro_batch_size \in Nat \ {0} /\ fp32 \in BOOLEAN
  /\ outcome \in {"none", "dealt", "panicked", "crashed", "mismatched"} /\ mixed \in BOOLEAN
  /\ trainSamples \in Seq(Nat) /\ Len(trainSamples) <= MaxSamples
  /\ \A i \in 1 .. Len(trainSamples) : trainSamples[i] = i
  /\ nextMicro \in [TrainerIds -> Nat \ {0}]
  /\ gradient \in [TrainerIds -> SUBSET ToSet(trainSamples)]
  /\ buffer \in [TrainerIds -> SUBSET ToSet(trainSamples)]
  /\ accumulates \in [TrainerIds -> BOOLEAN]
  /\ progress \in [TrainerIds -> {"training", "reducing", "reduced"}]

\* What is dealt comes from the samples of the batch.
PartsSound ==
  outcome = "dealt" => trainers <= Len(trainSamples) /\ parts = Dealt(trainSamples, trainers)

\* What a trainer that trains has in its gradients: the samples of its micro batches so
\* far, in one place of the two.
TrainsSoFar(t) ==
  progress[t] = "training" =>
    /\ IF accumulates[t] THEN gradient[t] = {} ELSE buffer[t] = {}
    /\ gradient[t] \cup buffer[t] =
         UNION {ToSet(InputChunks(parts[t])[k]) : k \in 1 .. nextMicro[t] - 1}
    /\ nextMicro[t] <= AccumSteps(parts[t]) + 1

\* What it brings into the reduction, and has after it.
ReducesAll(t) ==
  /\ progress[t] = "reducing" =>
       gradient[t] = ToSet(parts[t]) /\ (accumulates[t] => buffer[t] = ToSet(parts[t]))
  /\ progress[t] = "reduced" =>
       gradient[t] = IF accumulates[t] THEN ToSet(parts[t])
                     ELSE UNION {ToSet(parts[u]) : u \in TrainerIds}

GradientsHeld == outcome = "dealt" => \A t \in TrainerIds : TrainsSoFar(t) /\ ReducesAll(t)

\* The inductive invariant.
TrainBatchIInv == TrainTypes /\ PartsSound /\ LengthsOfSamples /\ GradientsHeld

\* The part of a trainer and its micro batches.
LEMMA PartFacts ==
  ASSUME TrainTypes, PartsSound, outcome = "dealt", NEW t \in TrainerIds
  PROVE  /\ parts[t] \in Seq(Nat) /\ ToSet(parts[t]) \subseteq ToSet(trainSamples)
         /\ AccumSteps(parts[t]) \in Nat \ {0}
         /\ Len(InputChunks(parts[t])) = AccumSteps(parts[t])
         /\ \A k \in 1 .. AccumSteps(parts[t]) :
              ToSet(InputChunks(parts[t])[k]) \subseteq ToSet(parts[t])
         /\ UNION {ToSet(InputChunks(parts[t])[k]) : k \in 1 .. AccumSteps(parts[t])} =
              ToSet(parts[t])
         /\ Len(parts[t]) % micro_batch_size = 0 =>
              InputChunks(parts[t]) = LengthChunks(parts[t])
<1>1. /\ trainSamples \in Seq(Nat) /\ trainers \in Nat \ {0} /\ trainers <= Len(trainSamples)
      /\ micro_batch_size \in Nat \ {0} /\ parts = Dealt(trainSamples, trainers) /\ t \in 1 .. trainers
  BY TrainBatchAssumption DEF TrainTypes, PartsSound, TrainerIds
<1> DEFINE s == parts[t]
           n == Len(s)
           m == micro_batch_size
           steps == CeilDiv(n, m)
           size == CeilDiv(n, steps)
<1>2. s \in Seq(Nat) /\ s # <<>> /\ ToSet(s) \subseteq ToSet(trainSamples)
  <2> DEFINE q == Len(trainSamples) \div trainers
             r == Len(trainSamples) % trainers
  <2>1. q = Len(trainSamples) \div trainers /\ r = Len(trainSamples) % trainers
    OBVIOUS
  <2> HIDE DEF q, r
  <2>2. DealtParts(trainSamples, trainers, parts)
    BY ONLY <1>1, <2>1, DealtFacts
  <2> QED BY <1>1, <2>2 DEF DealtParts
<1> HIDE DEF s
<1>3. n \in Nat \ {0}
  BY <1>2
<1> HIDE DEF n
<1>4. /\ steps \in Nat \ {0} /\ size \in Nat \ {0} /\ CeilDiv(n, size) = steps
      /\ n % m = 0 => size = m
  <2>1. steps = CeilDiv(n, m) /\ size = CeilDiv(n, steps) /\ m \in Nat \ {0}
    BY <1>1
  <2> HIDE DEF steps, size, m
  <2> QED BY <1>3, <2>1, EvenParts
<1>5. AccumSteps(s) = steps /\ InputChunks(s) = ChunksOf(s, size) /\ LengthChunks(s) = ChunksOf(s, m)
  BY DEF AccumSteps, InputChunks, LengthChunks, n
<1> HIDE DEF steps, size
<1>6. Len(ChunksOf(s, size)) = CeilDiv(Len(s), size)
  BY <1>2, <1>4, ChunksFacts
<1>7. /\ \A i \in 1 .. CeilDiv(Len(s), size) : ToSet(ChunksOf(s, size)[i]) \subseteq ToSet(s)
      /\ UNION {ToSet(ChunksOf(s, size)[i]) : i \in 1 .. CeilDiv(Len(s), size)} = ToSet(s)
  BY <1>2, <1>4, ChunksCover
<1>8. CeilDiv(Len(s), size) = steps /\ (Len(s) % micro_batch_size = 0 => size = m)
  BY <1>4 DEF n
<1>9. /\ s \in Seq(Nat) /\ ToSet(s) \subseteq ToSet(trainSamples)
      /\ AccumSteps(s) \in Nat \ {0} /\ Len(InputChunks(s)) = AccumSteps(s)
      /\ \A k \in 1 .. AccumSteps(s) : ToSet(InputChunks(s)[k]) \subseteq ToSet(s)
      /\ UNION {ToSet(InputChunks(s)[k]) : k \in 1 .. AccumSteps(s)} = ToSet(s)
      /\ Len(s) % micro_batch_size = 0 => InputChunks(s) = LengthChunks(s)
  BY <1>2, <1>4, <1>5, <1>6, <1>7, <1>8
<1> QED BY <1>9 DEF s

\* Before the first batch there is nothing in the gradients.
LEMMA TrainBatchStarts == TrainBatchInit => TrainBatchIInv
<1> SUFFICES ASSUME TrainBatchInit PROVE TrainBatchIInv
  OBVIOUS
<1>1. <<>> \in Seq(Nat) /\ Len(<<>>) = 0
  OBVIOUS
<1>2. trainers \in 1 .. MaxTrainers /\ micro_batch_size \in Nat \ {0} /\ trainSamples = <<>> /\ outcome = "none"
  BY TrainBatchAssumption DEF TrainBatchInit
<1>3. trainSamples \in Seq(Nat) /\ Len(trainSamples) <= MaxSamples /\ \A i \in 1 .. Len(trainSamples) : trainSamples[i] = i
  BY <1>1, <1>2, TrainBatchAssumption
<1>4. TrainTypes
  <2>1. /\ nextMicro \in [TrainerIds -> Nat \ {0}]
        /\ gradient \in [TrainerIds -> SUBSET ToSet(trainSamples)]
        /\ buffer \in [TrainerIds -> SUBSET ToSet(trainSamples)]
        /\ accumulates \in [TrainerIds -> BOOLEAN]
        /\ progress \in [TrainerIds -> {"training", "reducing", "reduced"}]
    BY DEF TrainBatchInit
  <2>2. fp32 \in BOOLEAN /\ mixed \in BOOLEAN
    BY DEF TrainBatchInit
  <2> QED BY <1>2, <1>3, <2>1, <2>2 DEF TrainTypes
<1> QED BY <1>2, <1>4 DEF TrainBatchIInv, PartsSound, LengthsOfSamples, GradientsHeld

\* A batch is dealt, or there is none for some trainer.
LEMMA BatchDealt ==
  ASSUME TrainBatchIInv, Deal
  PROVE  TrainBatchIInv'
<1>0. TrainTypes
  BY DEF TrainBatchIInv
<1>1. PICK n \in 1 .. MaxSamples :
        /\ trainSamples' = [i \in 1 .. n |-> i]
        /\ IF n < trainers
           THEN outcome' = "panicked" /\ UNCHANGED <<parts, accumulates, progress>>
           ELSE /\ outcome' = "dealt"
                /\ parts' = Dealt(trainSamples', trainers)
                /\ accumulates' = [t \in TrainerIds |->
                                     accumulates[t] \/ (fp32 /\ AccumSteps(parts'[t]) # 1)]
                /\ progress' = [t \in TrainerIds |-> "training"]
  BY DEF Deal
<1>2. /\ nextMicro' = [t \in TrainerIds |-> 1] /\ mixed' = FALSE
      /\ gradient' = [t \in TrainerIds |-> {}] /\ buffer' = [t \in TrainerIds |-> {}]
      /\ trainers' = trainers /\ micro_batch_size' = micro_batch_size /\ fp32' = fp32
      /\ TrainerIds' = TrainerIds
  BY DEF Deal, setupVars, TrainerIds
<1>3. n \in Nat /\ n <= MaxSamples /\ trainers \in Nat \ {0} /\ micro_batch_size \in Nat \ {0}
  BY <1>0, TrainBatchAssumption DEF TrainTypes
<1>4. trainSamples' \in Seq(Nat) /\ Len(trainSamples') = n /\ \A i \in 1 .. Len(trainSamples') : trainSamples'[i] = i
  BY <1>1, <1>3, FunctionToSeq
<1>5. accumulates' \in [TrainerIds -> BOOLEAN] /\ outcome' \in {"dealt", "panicked"}
      /\ progress' \in [TrainerIds -> {"training", "reducing", "reduced"}]
  BY <1>0, <1>1 DEF TrainTypes
<1>6. TrainTypes'
  <2>1. /\ nextMicro' \in [TrainerIds -> Nat \ {0}]
        /\ gradient' \in [TrainerIds -> SUBSET ToSet(trainSamples')]
        /\ buffer' \in [TrainerIds -> SUBSET ToSet(trainSamples')]
    BY <1>2
  <2>2. trainers' \in 1 .. MaxTrainers /\ fp32' \in BOOLEAN /\ mixed' \in BOOLEAN
    BY <1>0, <1>2 DEF TrainTypes
  <2>3. trainSamples' \in Seq(Nat) /\ Len(trainSamples') <= MaxSamples /\ \A i \in 1 .. Len(trainSamples') : trainSamples'[i] = i
    BY <1>3, <1>4
  <2> QED BY <1>2, <1>3, <1>5, <2>1, <2>2, <2>3 DEF TrainTypes
<1>7. PartsSound'
  BY <1>1, <1>2, <1>3, <1>4 DEF PartsSound
<1>8. LengthsOfSamples'
  BY <1>2 DEF LengthsOfSamples
<1>9. ASSUME outcome' = "dealt", NEW t \in TrainerIds PROVE TrainsSoFar(t)' /\ ReducesAll(t)'
  <2>1. ~(n < trainers) /\ progress'[t] = "training" /\ parts' = Dealt(trainSamples', trainers)
    BY <1>1, <1>9
  <2>2. nextMicro'[t] = 1 /\ gradient'[t] = {} /\ buffer'[t] = {}
    BY <1>2
  <2>3. AccumSteps(parts[t])' \in Nat
    <3>1. trainers <= Len(trainSamples') /\ t \in 1 .. trainers
      BY <1>3, <1>4, <2>1 DEF TrainerIds
    <3>2. parts'[t] \in Seq(Nat)
      <4>1. DealtParts(trainSamples', trainers, parts')
        BY <1>3, <1>4, <2>1, <3>1, DealtFacts
      <4> QED BY <3>1, <4>1 DEF DealtParts
    <3>3. Len(parts'[t]) \in Nat
      BY <3>2
    <3>4. CeilDiv(Len(parts'[t]), micro_batch_size) \in Nat
      BY <1>3, <3>3, CeilDivFacts
    <3> QED BY <1>2, <3>4 DEF AccumSteps
  <2>4. 1 .. nextMicro'[t] - 1 = {}
    BY <2>2
  <2>5. UNION {ToSet(InputChunks(parts[t])[k])' : k \in 1 .. nextMicro'[t] - 1} = {}
    BY <2>4
  <2>6. TrainsSoFar(t)'
    BY <2>2, <2>3, <2>5 DEF TrainsSoFar
  <2> QED BY <2>1, <2>6 DEF ReducesAll
<1>10. GradientsHeld'
  BY <1>2, <1>9 DEF GradientsHeld
<1> QED BY <1>6, <1>7, <1>8, <1>10 DEF TrainBatchIInv

\* The union of some sets and one more.
LEMMA UnionNext ==
  ASSUME NEW c, NEW A, NEW B, NEW j, B = A \cup {j}
  PROVE  UNION {ToSet(c[k]) : k \in B} = (UNION {ToSet(c[k]) : k \in A}) \cup ToSet(c[j])
<1>1. \A x : x \in UNION {ToSet(c[k]) : k \in B} <=> \E k \in B : x \in ToSet(c[k])
  OBVIOUS
<1>2. \A x : x \in UNION {ToSet(c[k]) : k \in A} <=> \E k \in A : x \in ToSet(c[k])
  OBVIOUS
<1> DEFINE more == UNION {ToSet(c[k]) : k \in B}
           less == UNION {ToSet(c[k]) : k \in A}
           last == ToSet(c[j])
<1>3. \A x : x \in more <=> (x \in less \/ x \in last)
  BY <1>1, <1>2
<1> HIDE DEF more, less, last
<1>4. more = less \cup last
  BY ONLY <1>3
<1> QED BY <1>4 DEF more, less, last

\* A micro batch more is in the gradients.
LEMMA MicroBatchTrained ==
  ASSUME TrainBatchIInv, NEW t \in TrainerIds, MicroBatch(t)
  PROVE  TrainBatchIInv'
<1>0. TrainTypes /\ PartsSound /\ LengthsOfSamples /\ GradientsHeld
  BY DEF TrainBatchIInv
<1> DEFINE rows == InputChunks(parts[t])[nextMicro[t]]
           g == gradient[t] \cup ToSet(rows)
           newGradient == IF accumulates[t] THEN {} ELSE g
           newBuffer == IF accumulates[t] THEN buffer[t] \cup g ELSE buffer[t]
<1>1. /\ outcome = "dealt" /\ progress[t] = "training" /\ nextMicro[t] <= AccumSteps(parts[t])
      /\ mixed' = (mixed \/ rows # LengthChunks(parts[t])[nextMicro[t]])
      /\ gradient' = [gradient EXCEPT ![t] = newGradient]
      /\ buffer' = [buffer EXCEPT ![t] = newBuffer]
      /\ nextMicro' = [nextMicro EXCEPT ![t] = nextMicro[t] + 1]
      /\ UNCHANGED <<trainers, micro_batch_size, fp32, trainSamples, outcome, parts, accumulates, progress>>
  BY DEF MicroBatch, Accumulated, setupVars
<1>2. /\ parts[t] \in Seq(Nat) /\ ToSet(parts[t]) \subseteq ToSet(trainSamples)
      /\ AccumSteps(parts[t]) \in Nat \ {0}
      /\ \A k \in 1 .. AccumSteps(parts[t]) :
           ToSet(InputChunks(parts[t])[k]) \subseteq ToSet(parts[t])
      /\ Len(parts[t]) % micro_batch_size = 0 => InputChunks(parts[t]) = LengthChunks(parts[t])
  BY <1>0, <1>1, PartFacts
<1>3. nextMicro[t] \in Nat \ {0} /\ nextMicro[t] \in 1 .. AccumSteps(parts[t])
  BY <1>0, <1>1, <1>2 DEF TrainTypes
<1>4. ToSet(rows) \subseteq ToSet(trainSamples)
  BY <1>2, <1>3
<1>5. gradient[t] \subseteq ToSet(trainSamples) /\ buffer[t] \subseteq ToSet(trainSamples)
  BY <1>0 DEF TrainTypes
<1>6. /\ IF accumulates[t] THEN gradient[t] = {} ELSE buffer[t] = {}
      /\ gradient[t] \cup buffer[t] =
           UNION {ToSet(InputChunks(parts[t])[k]) : k \in 1 .. nextMicro[t] - 1}
  BY <1>0, <1>1 DEF GradientsHeld, TrainsSoFar
<1>7. /\ IF accumulates[t] THEN newGradient = {} ELSE newBuffer = {}
      /\ newGradient \cup newBuffer = (gradient[t] \cup buffer[t]) \cup ToSet(rows)
      /\ newGradient \subseteq ToSet(trainSamples) /\ newBuffer \subseteq ToSet(trainSamples)
  BY <1>4, <1>5, <1>6
<1>8. \A k : k \in 1 .. (nextMicro[t] + 1) - 1 <=> (k \in 1 .. nextMicro[t] - 1 \/ k = nextMicro[t])
  BY <1>3
<1>9. newGradient \cup newBuffer =
        UNION {ToSet(InputChunks(parts[t])[k]) : k \in 1 .. (nextMicro[t] + 1) - 1}
  <2> DEFINE c == InputChunks(parts[t])
             A == 1 .. nextMicro[t] - 1
             B == 1 .. (nextMicro[t] + 1) - 1
             j == nextMicro[t]
             before == gradient[t] \cup buffer[t]
             holds == newGradient \cup newBuffer
  <2>1. B = A \cup {j}
    BY <1>8
  <2>2. before = UNION {ToSet(c[k]) : k \in A} /\ holds = before \cup ToSet(c[j])
    BY <1>6, <1>7
  <2> HIDE DEF c, A, B, j, before, holds
  <2>3. UNION {ToSet(c[k]) : k \in B} = (UNION {ToSet(c[k]) : k \in A}) \cup ToSet(c[j])
    BY ONLY <2>1, UnionNext
  <2> DEFINE more == UNION {ToSet(c[k]) : k \in B}
             less == UNION {ToSet(c[k]) : k \in A}
             last == ToSet(c[j])
  <2>4. holds = UNION {ToSet(c[k]) : k \in B}
    <3>1. before = less /\ holds = before \cup last /\ more = less \cup last
      BY ONLY <2>2, <2>3 DEF more, less, last
    <3> HIDE DEF more, less, last
    <3>2. holds = more
      BY ONLY <3>1
    <3> QED BY <3>2 DEF more
  <2> QED BY <2>4 DEF c, B, holds
<1> HIDE DEF newGradient, newBuffer, g, rows
<1>10. TrainerIds' = TrainerIds /\ AccumSteps(parts[t])' = AccumSteps(parts[t])
  BY <1>1 DEF TrainerIds, AccumSteps
<1>11. TrainTypes'
  BY <1>0, <1>1, <1>3, <1>7, <1>10 DEF TrainTypes
<1>12. PartsSound'
  BY <1>0, <1>1 DEF PartsSound
<1>13. LengthsOfSamples'
  <2> SUFFICES ASSUME \A u \in TrainerIds : Len(parts[u]) % micro_batch_size = 0 PROVE ~mixed'
    BY <1>1, <1>10 DEF LengthsOfSamples
  <2>1. ~mixed
    BY <1>0, <1>1 DEF LengthsOfSamples
  <2>2. rows = LengthChunks(parts[t])[nextMicro[t]]
    BY <1>2 DEF rows
  <2> QED BY <1>1, <2>1, <2>2
<1>14. ASSUME NEW u \in TrainerIds PROVE TrainsSoFar(u)' /\ ReducesAll(u)'
  <2>1. CASE u = t
    <3>1. nextMicro'[t] = nextMicro[t] + 1 /\ gradient'[t] = newGradient /\ buffer'[t] = newBuffer
      BY <1>0, <1>1 DEF TrainTypes
    <3>2. InputChunks(parts[t])' = InputChunks(parts[t])
      BY <1>1, <1>10 DEF InputChunks
    <3>3. TrainsSoFar(t)'
      <4>1. nextMicro'[t] <= AccumSteps(parts[t])' + 1
        BY <1>2, <1>3, <1>10, <3>1
      <4>2. (gradient[t] \cup buffer[t])' =
              UNION {ToSet(InputChunks(parts[t])[k])' : k \in 1 .. nextMicro'[t] - 1}
        BY <1>9, <3>1, <3>2 DEF ToSet
      <4> QED BY <1>1, <1>7, <3>1, <4>1, <4>2 DEF TrainsSoFar
    <3> QED BY <1>1, <2>1, <3>3 DEF ReducesAll
  <2>2. CASE u # t
    <3>1. nextMicro'[u] = nextMicro[u] /\ gradient'[u] = gradient[u] /\ buffer'[u] = buffer[u]
      BY <1>0, <1>1, <2>2 DEF TrainTypes
    <3>2. TrainsSoFar(u) /\ ReducesAll(u)
      BY <1>0, <1>1 DEF GradientsHeld
    <3>3. InputChunks(parts[u])' = InputChunks(parts[u]) /\ AccumSteps(parts[u])' = AccumSteps(parts[u])
      BY <1>1 DEF InputChunks, AccumSteps
    <3>4. TrainsSoFar(u)'
      BY <1>1, <3>1, <3>2, <3>3 DEF TrainsSoFar, ToSet
    <3>5. ReducesAll(u)'
      BY <1>1, <1>10, <3>1, <3>2 DEF ReducesAll
    <3> QED BY <3>4, <3>5
  <2> QED BY <2>1, <2>2
<1>15. GradientsHeld'
  BY <1>10, <1>14 DEF GradientsHeld
<1> QED BY <1>11, <1>12, <1>13, <1>15 DEF TrainBatchIInv

\* The micro batches are over: the gradient is back in the parameters.
LEMMA TrainerDone ==
  ASSUME TrainBatchIInv, NEW t \in TrainerIds, MicroBatchesDone(t)
  PROVE  TrainBatchIInv'
<1>0. TrainTypes /\ PartsSound /\ LengthsOfSamples /\ GradientsHeld
  BY DEF TrainBatchIInv
<1> DEFINE newGradient == IF accumulates[t] THEN buffer[t] ELSE gradient[t]
           stage == IF trainers = 1 THEN "reduced" ELSE "reducing"
<1>1. /\ outcome = "dealt" /\ progress[t] = "training" /\ nextMicro[t] > AccumSteps(parts[t])
      /\ gradient' = [gradient EXCEPT ![t] = newGradient]
      /\ progress' = [progress EXCEPT ![t] = stage]
      /\ UNCHANGED <<trainers, micro_batch_size, fp32, trainSamples, outcome, parts, mixed, nextMicro, buffer,
                     accumulates>>
  BY DEF MicroBatchesDone, setupVars
<1>2. /\ AccumSteps(parts[t]) \in Nat \ {0}
      /\ UNION {ToSet(InputChunks(parts[t])[k]) : k \in 1 .. AccumSteps(parts[t])} = ToSet(parts[t])
  BY <1>0, <1>1, PartFacts
<1>3. /\ IF accumulates[t] THEN gradient[t] = {} ELSE buffer[t] = {}
      /\ gradient[t] \cup buffer[t] =
           UNION {ToSet(InputChunks(parts[t])[k]) : k \in 1 .. nextMicro[t] - 1}
      /\ nextMicro[t] <= AccumSteps(parts[t]) + 1 /\ nextMicro[t] \in Nat
  BY <1>0, <1>1 DEF GradientsHeld, TrainsSoFar, TrainTypes
<1>4. nextMicro[t] - 1 = AccumSteps(parts[t])
  BY <1>1, <1>2, <1>3
<1>5. gradient[t] \cup buffer[t] = ToSet(parts[t])
  BY <1>2, <1>3, <1>4
<1>6. newGradient = ToSet(parts[t]) /\ newGradient \subseteq ToSet(trainSamples)
  <2>1. newGradient = gradient[t] \cup buffer[t]
    BY <1>3
  <2>2. gradient[t] \subseteq ToSet(trainSamples) /\ buffer[t] \subseteq ToSet(trainSamples)
    BY <1>0 DEF TrainTypes
  <2> QED BY <1>5, <2>1, <2>2
<1> HIDE DEF newGradient
<1>7. TrainerIds' = TrainerIds
  BY <1>1 DEF TrainerIds
<1>8. TrainTypes'
  BY <1>0, <1>1, <1>6, <1>7 DEF TrainTypes
<1>9. PartsSound' /\ LengthsOfSamples'
  BY <1>0, <1>1, <1>7 DEF PartsSound, LengthsOfSamples
<1>10. ASSUME NEW u \in TrainerIds PROVE TrainsSoFar(u)' /\ ReducesAll(u)'
  <2>1. CASE u = t
    <3>1. progress'[t] = stage /\ gradient'[t] = newGradient
      BY <1>0, <1>1 DEF TrainTypes
    <3>2. progress'[t] = "reduced" => TrainerIds = {t}
      BY <3>1, TrainBatchAssumption DEF TrainerIds
    <3>3. progress'[t] = "reduced" => newGradient = UNION {ToSet(parts[v]) : v \in TrainerIds}
      BY <1>6, <3>2
    <3>4. progress'[t] \in {"reduced", "reducing"}
      BY <3>1
    <3>5. TrainsSoFar(t)'
      BY <3>4 DEF TrainsSoFar
    <3>6. ReducesAll(t)'
      <4>1. accumulates[t] => buffer[t] = ToSet(parts[t])
        BY <1>6 DEF newGradient
      <4> QED BY <1>1, <1>6, <1>7, <3>1, <3>3, <4>1 DEF ReducesAll
    <3> QED BY <2>1, <3>5, <3>6
  <2>2. CASE u # t
    <3>1. progress'[u] = progress[u] /\ gradient'[u] = gradient[u]
      BY <1>0, <1>1, <2>2 DEF TrainTypes
    <3>2. TrainsSoFar(u) /\ ReducesAll(u)
      BY <1>0, <1>1 DEF GradientsHeld
    <3>3. InputChunks(parts[u])' = InputChunks(parts[u]) /\ AccumSteps(parts[u])' = AccumSteps(parts[u])
      BY <1>1 DEF InputChunks, AccumSteps
    <3>4. TrainsSoFar(u)'
      BY <1>1, <3>1, <3>2, <3>3 DEF TrainsSoFar, ToSet
    <3>5. ReducesAll(u)'
      BY <1>1, <1>7, <3>1, <3>2 DEF ReducesAll
    <3> QED BY <3>4, <3>5
  <2> QED BY <2>1, <2>2
<1>11. GradientsHeld'
  BY <1>7, <1>10 DEF GradientsHeld
<1> QED BY <1>8, <1>9, <1>11 DEF TrainBatchIInv

\* The gradients are averaged.
LEMMA BatchReduced ==
  ASSUME TrainBatchIInv, ReduceGradients
  PROVE  TrainBatchIInv'
<1>0. TrainTypes /\ PartsSound /\ LengthsOfSamples /\ GradientsHeld
  BY DEF TrainBatchIInv
<1>1. /\ \A t \in TrainerIds : progress[t] = "reducing"
      /\ gradient' = [t \in TrainerIds |-> ReducedGradient(t)]
      /\ buffer' = [t \in TrainerIds |-> IF accumulates[t] THEN AllContributions ELSE buffer[t]]
      /\ progress' = [t \in TrainerIds |-> "reduced"] /\ outcome = "dealt"
      /\ UNCHANGED <<trainers, micro_batch_size, fp32, trainSamples, outcome, parts, mixed, nextMicro, accumulates>>
  BY DEF ReduceGradients, setupVars
<1>2. TrainerIds' = TrainerIds
  BY <1>1 DEF TrainerIds
<1>3. \A t \in TrainerIds : gradient[t] \subseteq ToSet(trainSamples) /\ buffer[t] \subseteq ToSet(trainSamples)
  BY <1>0 DEF TrainTypes
<1>4. AllContributions \subseteq ToSet(trainSamples)
  BY <1>3 DEF AllContributions, Contribution
<1>5. \A t \in TrainerIds : ReducedGradient(t) \subseteq ToSet(trainSamples)
  BY <1>3, <1>4 DEF ReducedGradient
<1>6. TrainTypes'
  <2>1. /\ gradient' \in [TrainerIds -> SUBSET ToSet(trainSamples)]
        /\ buffer' \in [TrainerIds -> SUBSET ToSet(trainSamples)]
        /\ progress' \in [TrainerIds -> {"training", "reducing", "reduced"}]
    BY <1>1, <1>3, <1>4, <1>5
  <2> QED BY <1>0, <1>1, <1>2, <2>1 DEF TrainTypes
<1>7. PartsSound' /\ LengthsOfSamples'
  BY <1>0, <1>1, <1>2 DEF PartsSound, LengthsOfSamples
<1>a. AllContributions = UNION {ToSet(parts[u]) : u \in TrainerIds}
  <2>1. \A u \in TrainerIds : Contribution(u) = ToSet(parts[u])
    BY <1>0, <1>1 DEF GradientsHeld, ReducesAll, Contribution
  <2> QED BY <2>1 DEF AllContributions
<1>8. ASSUME NEW t \in TrainerIds PROVE TrainsSoFar(t)' /\ ReducesAll(t)'
  <2>1. progress'[t] = "reduced" /\ gradient'[t] = ReducedGradient(t)
    BY <1>1
  <2>2. gradient[t] = ToSet(parts[t])
    BY <1>0, <1>1 DEF GradientsHeld, ReducesAll
  <2>3. TrainsSoFar(t)'
    BY <2>1 DEF TrainsSoFar
  <2>4. ReducesAll(t)'
    BY <1>1, <1>2, <1>a, <2>1, <2>2 DEF ReducesAll, ReducedGradient
  <2> QED BY <2>3, <2>4
<1>9. GradientsHeld'
  BY <1>1, <1>2, <1>8 DEF GradientsHeld
<1> QED BY <1>6, <1>7, <1>9 DEF TrainBatchIInv

\* The task ends, or its collective calls do not match.
LEMMA BatchFails ==
  ASSUME TrainBatchIInv, ReduceMismatched \/ \E t \in TrainerIds : TrainerFails(t)
  PROVE  TrainBatchIInv'
<1>1. /\ outcome' \in {"crashed", "mismatched"}
      /\ trainers' = trainers /\ micro_batch_size' = micro_batch_size /\ fp32' = fp32
      /\ trainSamples' = trainSamples /\ parts' = parts /\ mixed' = mixed
      /\ nextMicro' = nextMicro /\ gradient' = gradient /\ buffer' = buffer
      /\ accumulates' = accumulates /\ progress' = progress
  BY DEF ReduceMismatched, TrainerFails, setupVars
<1>2. TrainTypes'
  BY <1>1 DEF TrainBatchIInv, TrainTypes, TrainerIds
<1> QED BY <1>1, <1>2 DEF TrainBatchIInv, PartsSound, LengthsOfSamples, GradientsHeld

\* Every step keeps the invariant.
LEMMA TrainBatchStep == TrainBatchIInv /\ [TrainBatchNext]_trainBatchVars => TrainBatchIInv'
<1> SUFFICES ASSUME TrainBatchIInv, [TrainBatchNext]_trainBatchVars PROVE TrainBatchIInv'
  OBVIOUS
<1>1. CASE UNCHANGED trainBatchVars
  <2>1. /\ trainers' = trainers /\ micro_batch_size' = micro_batch_size /\ fp32' = fp32
        /\ trainSamples' = trainSamples /\ outcome' = outcome /\ parts' = parts /\ mixed' = mixed
        /\ nextMicro' = nextMicro /\ gradient' = gradient /\ buffer' = buffer
        /\ accumulates' = accumulates /\ progress' = progress
    BY <1>1 DEF trainBatchVars, setupVars
  <2>2. TrainTypes' /\ PartsSound' /\ LengthsOfSamples' /\ TrainerIds' = TrainerIds
    BY <2>1 DEF TrainBatchIInv, TrainTypes, PartsSound, LengthsOfSamples, TrainerIds
  <2>3. ASSUME outcome = "dealt", NEW t \in TrainerIds PROVE TrainsSoFar(t)' /\ ReducesAll(t)'
    <3>1. InputChunks(parts[t])' = InputChunks(parts[t]) /\ AccumSteps(parts[t])' = AccumSteps(parts[t])
      BY <2>1 DEF InputChunks, AccumSteps
    <3>2. TrainsSoFar(t) /\ ReducesAll(t)
      BY <2>3 DEF TrainBatchIInv, GradientsHeld
    <3> QED BY <2>1, <2>2, <3>1, <3>2 DEF TrainsSoFar, ReducesAll, ToSet
  <2> QED BY <2>1, <2>2, <2>3 DEF TrainBatchIInv, GradientsHeld
<1>2. CASE Deal
  BY <1>2, BatchDealt
<1>3. CASE ReduceGradients
  BY <1>3, BatchReduced
<1>4. CASE \E t \in TrainerIds : MicroBatch(t)
  BY <1>4, MicroBatchTrained
<1>5. CASE \E t \in TrainerIds : MicroBatchesDone(t)
  BY <1>5, TrainerDone
<1>6. CASE ReduceMismatched \/ \E t \in TrainerIds : TrainerFails(t)
  BY <1>6, BatchFails
<1> QED BY <1>1, <1>2, <1>3, <1>4, <1>5, <1>6 DEF TrainBatchNext

\* Every sample of the batch is in one place of one part.
LEMMA PartsOnce ==
  ASSUME TrainTypes, PartsSound, outcome = "dealt",
         Len(trainSamples) % trainers <= Len(trainSamples) \div trainers
  PROVE  /\ \A i \in DOMAIN trainSamples :
              Cardinality({place \in TrainerIds \X (1 .. MaxSamples) :
                             /\ place[2] \in DOMAIN parts[place[1]]
                             /\ parts[place[1]][place[2]] = trainSamples[i]}) = 1
         /\ \A t, u \in TrainerIds : Len(parts[t]) <= Len(parts[u]) + 1
<1> DEFINE T == trainers
           n == Len(trainSamples)
           q == n \div T
           r == n % T
<1>1. /\ trainSamples \in Seq(Nat) /\ T \in Nat \ {0} /\ T <= n /\ n \in Nat /\ n <= MaxSamples
      /\ parts = Dealt(trainSamples, T) /\ TrainerIds = 1 .. T
      /\ \A i \in 1 .. n : trainSamples[i] = i
  BY TrainBatchAssumption DEF TrainTypes, PartsSound, TrainerIds
<1>2. /\ q \in Nat \ {0} /\ r \in 0 .. T - 1 /\ n = T * q + r
      /\ \A t \in 1 .. T : parts[t] \in Seq(Nat)
      /\ r <= q =>
           \A t \in 1 .. T :
             /\ Len(parts[t]) = IF t <= r THEN q + 1 ELSE q
             /\ \A k \in 1 .. q : parts[t][k] = trainSamples[(t - 1) * q + k]
             /\ t <= r => parts[t][q + 1] = trainSamples[T * q + t]
  <2>1. q = n \div T /\ r = n % T
    OBVIOUS
  <2>2. T \in Nat \ {0} /\ trainSamples \in Seq(Nat) /\ T <= Len(trainSamples)
        /\ q = Len(trainSamples) \div T /\ r = Len(trainSamples) % T /\ parts = Dealt(trainSamples, T)
    BY <1>1, <2>1
  <2> HIDE DEF q, r, T
  <2>3. q \in Nat \ {0} /\ r \in 0 .. T - 1 /\ Len(trainSamples) = T * q + r
    BY ONLY <2>2, DealtFacts
  <2>4. DealtParts(trainSamples, T, parts)
    BY ONLY <2>2, DealtFacts
  <2>5. r <= q => DealtLayout(trainSamples, T, q, r, parts)
    BY ONLY <2>2, DealtFacts
  <2> QED BY <2>3, <2>4, <2>5 DEF DealtLayout, DealtParts
<1>3. r <= q
  OBVIOUS
<1> HIDE DEF q, r, n, T
<1> DEFINE y == T * q
<1>4. y \in Nat /\ n = y + r
  BY <1>1, <1>2
<1>5. ASSUME NEW t \in 1 .. T PROVE (t - 1) * q \in Nat /\ (t - 1) * q + q <= y
  <2> DEFINE j == t - 1
  <2>1. j \in Nat /\ j + 1 \in Nat /\ j + 1 <= T /\ q \in Nat /\ T \in Nat
    BY <1>1, <1>2
  <2> HIDE DEF j
  <2>2. j * q \in Nat /\ (j + 1) * q = j * q + q
    BY ONLY <2>1, TimesNext
  <2>3. (j + 1) * q <= T * q
    BY ONLY <2>1, TimesGrows
  <2>4. j * q \in Nat /\ j * q + q <= y
    BY ONLY <2>2, <2>3
  <2> QED BY <2>4 DEF j
<1> HIDE DEF y
<1>6. ASSUME NEW t \in 1 .. T
      PROVE  /\ parts[t] \in Seq(Nat) /\ Len(parts[t]) = IF t <= r THEN q + 1 ELSE q
             /\ \A k \in 1 .. q : parts[t][k] = (t - 1) * q + k
             /\ t <= r => parts[t][q + 1] = y + t
  <2> DEFINE x == (t - 1) * q
  <2>1. x \in Nat /\ x + q <= y
    BY <1>5
  <2>2. /\ parts[t] \in Seq(Nat) /\ Len(parts[t]) = IF t <= r THEN q + 1 ELSE q
        /\ \A k \in 1 .. q : parts[t][k] = trainSamples[x + k]
        /\ t <= r => parts[t][q + 1] = trainSamples[y + t]
    BY <1>2, <1>3 DEF y
  <2> HIDE DEF x
  <2>3. \A k \in 1 .. q : x + k \in 1 .. n
    BY <1>2, <1>4, <2>1
  <2>4. t <= r => y + t \in 1 .. n
    BY <1>2, <1>4
  <2>5. /\ \A k \in 1 .. q : parts[t][k] = x + k
        /\ t <= r => parts[t][q + 1] = y + t
    BY <1>1, <2>2, <2>3, <2>4
  <2> QED BY <2>2, <2>5 DEF x
<1>7. \A t, u \in TrainerIds : Len(parts[t]) <= Len(parts[u]) + 1
  <2>1. \A t \in 1 .. T : Len(parts[t]) = q \/ Len(parts[t]) = q + 1
    BY <1>6
  <2>2. \A t \in TrainerIds : t \in 1 .. T
    BY <1>1
  <2>3. q \in Nat
    BY <1>2
  <2> QED BY ONLY <2>1, <2>2, <2>3
<1>8. ASSUME NEW t \in 1 .. T, NEW u \in 1 .. T, NEW k \in 1 .. q, NEW l \in 1 .. q,
             (t - 1) * q + k = (u - 1) * q + l, t < u
      PROVE  FALSE
  <2> DEFINE a == t - 1
             b == u - 1
  <2>1. a + 1 \in Nat /\ a \in Nat /\ b \in Nat /\ a + 1 <= b /\ q \in Nat /\ k \in 1 .. q /\ l \in 1 .. q
    BY <1>1, <1>2, <1>8
  <2>2. a * q + k = b * q + l
    BY <1>8
  <2> HIDE DEF a, b
  <2>3. a * q \in Nat /\ (a + 1) * q = a * q + q
    BY ONLY <2>1, TimesNext
  <2>4. (a + 1) * q <= b * q /\ b * q \in Nat
    BY ONLY <2>1, TimesGrows
  <2> DEFINE v == a * q
             w == b * q
  <2>5. v \in Nat /\ w \in Nat /\ v + q <= w /\ v + k = w + l
    BY ONLY <2>2, <2>3, <2>4
  <2> HIDE DEF v, w
  <2> QED BY ONLY <2>1, <2>5
<1>9. ASSUME NEW i \in 1 .. n
      PROVE  \E t \in 1 .. T : \E k \in 1 .. MaxSamples :
               /\ k \in DOMAIN parts[t] /\ parts[t][k] = i
               /\ \A u \in 1 .. T : \A l \in DOMAIN parts[u] : parts[u][l] = i => u = t /\ l = k
  <2>0. i \in Nat /\ i >= 1 /\ i <= y + r /\ q \in Nat \ {0} /\ r \in Nat /\ T \in Nat
        /\ y \in Nat /\ r <= q /\ r < T /\ MaxSamples \in Nat /\ y + r <= MaxSamples
    BY <1>1, <1>2, <1>3, <1>4, TrainBatchAssumption
  <2>1. \A u \in 1 .. T : DOMAIN parts[u] = 1 .. (IF u <= r THEN q + 1 ELSE q)
    BY <1>6
  <2>2. \A u \in 1 .. T : \A l \in DOMAIN parts[u] :
          /\ l \in 1 .. q => parts[u][l] = (u - 1) * q + l /\ parts[u][l] <= y
          /\ l \notin 1 .. q => l = q + 1 /\ u <= r /\ parts[u][l] = y + u
    <3> SUFFICES ASSUME NEW u \in 1 .. T, NEW l \in DOMAIN parts[u]
                 PROVE  /\ l \in 1 .. q => parts[u][l] = (u - 1) * q + l /\ parts[u][l] <= y
                        /\ l \notin 1 .. q => l = q + 1 /\ u <= r /\ parts[u][l] = y + u
      OBVIOUS
    <3>1. l \in 1 .. (IF u <= r THEN q + 1 ELSE q)
      BY <2>1
    <3>2. CASE l \in 1 .. q
      <4> DEFINE x == (u - 1) * q
      <4>1. parts[u][l] = x + l /\ x \in Nat /\ x + q <= y
        BY <1>5, <1>6, <3>2
      <4> HIDE DEF x
      <4>2. parts[u][l] <= y
        BY ONLY <2>0, <3>2, <4>1
      <4> QED BY <3>2, <4>1, <4>2 DEF x
    <3>3. CASE l \notin 1 .. q
      <4>1. l = q + 1 /\ u <= r
        BY ONLY <2>0, <3>1, <3>3
      <4> QED BY <1>6, <3>3, <4>1
    <3> QED BY <3>2, <3>3
  <2>3. CASE i > y
    <3> DEFINE t == i - y
    <3>1. t \in 1 .. T /\ t <= r /\ i = y + t /\ q + 1 \in 1 .. q + 1 /\ q + 1 \notin 1 .. q
      BY ONLY <2>0, <2>3
    <3>2. q + 1 \in 1 .. MaxSamples
      <4>1. T >= 1 /\ t >= 1 /\ r >= 1
        BY ONLY <2>0, <3>1
      <4>2. 1 \in 1 .. T
        BY ONLY <2>0, <4>1
      <4>3. q <= y
        <5>1. (1 - 1) * q \in Nat /\ (1 - 1) * q + q <= y
          BY <1>5, <4>2
        <5>2. (1 - 1) * q = 0
          BY ONLY <2>0
        <5> QED BY ONLY <2>0, <5>1, <5>2
      <4> QED BY <2>0, <4>1, <4>3
    <3> HIDE DEF t
    <3>3. q + 1 \in DOMAIN parts[t] /\ parts[t][q + 1] = i
      BY <1>6, <2>1, <3>1
    <3>4. ASSUME NEW u \in 1 .. T, NEW l \in DOMAIN parts[u], parts[u][l] = i
          PROVE  u = t /\ l = q + 1
      <4>1. l \notin 1 .. q
        BY <2>0, <2>2, <2>3, <3>4
      <4>2. l = q + 1 /\ y + u = i
        BY <2>2, <3>4, <4>1
      <4> QED BY <2>0, <3>1, <4>2
    <3> QED BY <3>1, <3>2, <3>3, <3>4
  <2>4. CASE ~(i > y)
    <3> DEFINE t == CeilDiv(i, q)
               x == (t - 1) * q
               k == i - x
    <3>1. t \in Nat \ {0} /\ t * q \in Nat /\ i <= t * q /\ t * q < i + q
      <4>1. /\ CeilDiv(i, q) \in Nat /\ CeilDiv(i, q) * q \in Nat
            /\ i <= CeilDiv(i, q) * q /\ CeilDiv(i, q) * q < i + q
            /\ i > 0 => CeilDiv(i, q) > 0
        BY ONLY <2>0, CeilDivFacts
      <4> QED BY <2>0, <4>1
    <3>2. t <= T
      <4>1. i <= T * q
        BY <2>0, <2>4 DEF y
      <4> QED BY ONLY <2>0, <4>1, CeilDivLeast
    <3> HIDE DEF t
    <3>3. t \in 1 .. T
      BY <2>0, <3>1, <3>2
    <3>4. x \in Nat /\ t * q = x + q
      <4> DEFINE j == t - 1
      <4>1. j \in Nat /\ t = j + 1 /\ q \in Nat
        BY <2>0, <3>1
      <4> HIDE DEF j
      <4>2. j * q \in Nat /\ (j + 1) * q = j * q + q
        BY ONLY <4>1, TimesNext
      <4> QED BY <4>1, <4>2 DEF j
    <3>5. k \in 1 .. q /\ x + k = i /\ k \in 1 .. MaxSamples
      <4> HIDE DEF x
      <4> QED BY ONLY <2>0, <3>1, <3>4
    <3>6. k \in DOMAIN parts[t] /\ parts[t][k] = i
      <4>1. parts[t][k] = x + k
        BY <1>6, <3>3, <3>5
      <4>2. DOMAIN parts[t] = 1 .. (IF t <= r THEN q + 1 ELSE q)
        BY <2>1, <3>3
      <4> HIDE DEF k, x
      <4>3. k \in 1 .. (IF t <= r THEN q + 1 ELSE q)
        BY ONLY <2>0, <3>5
      <4> QED BY <3>5, <4>1, <4>2, <4>3
    <3>7. ASSUME NEW u \in 1 .. T, NEW l \in DOMAIN parts[u], parts[u][l] = i
          PROVE  u = t /\ l = k
      <4>1. l \in 1 .. q
        <5> SUFFICES ASSUME l \notin 1 .. q PROVE FALSE
          OBVIOUS
        <5>1. i = y + u
          BY <2>2, <3>7
        <5> QED BY <2>0, <2>4, <5>1
      <4>2. (u - 1) * q + l = (t - 1) * q + k
        BY <2>2, <3>5, <3>7, <4>1
      <4> HIDE DEF k
      <4>3. ~(t < u) /\ ~(u < t)
        BY <1>8, <3>3, <3>5, <4>1, <4>2
      <4>4. t \in Nat /\ u \in Nat
        BY <3>3
      <4>5. u = t
        BY ONLY <4>3, <4>4
      <4>6. x + l = x + k
        BY <4>2, <4>5
      <4> HIDE DEF x
      <4>7. l = k
        BY ONLY <3>4, <3>5, <4>1, <4>6
      <4> QED BY <4>5, <4>7
    <3> HIDE DEF k
    <3> QED BY <3>3, <3>5, <3>6, <3>7
  <2> QED BY <2>3, <2>4
<1>10. ASSUME NEW i \in DOMAIN trainSamples
       PROVE  Cardinality({place \in TrainerIds \X (1 .. MaxSamples) :
                             /\ place[2] \in DOMAIN parts[place[1]]
                             /\ parts[place[1]][place[2]] = trainSamples[i]}) = 1
  <2>1. i \in 1 .. n /\ trainSamples[i] = i
    BY <1>1 DEF n
  <2>2. PICK t \in 1 .. T : \E k \in 1 .. MaxSamples :
               /\ k \in DOMAIN parts[t] /\ parts[t][k] = i
               /\ \A u \in 1 .. T : \A l \in DOMAIN parts[u] : parts[u][l] = i => u = t /\ l = k
    BY <1>9, <2>1
  <2>3. PICK k \in 1 .. MaxSamples :
               /\ k \in DOMAIN parts[t] /\ parts[t][k] = i
               /\ \A u \in 1 .. T : \A l \in DOMAIN parts[u] : parts[u][l] = i => u = t /\ l = k
    BY <2>2
  <2> DEFINE P == {place \in TrainerIds \X (1 .. MaxSamples) :
                     place[2] \in DOMAIN parts[place[1]] /\ parts[place[1]][place[2]] = trainSamples[i]}
  <2>4. <<t, k>> \in P
    BY <1>1, <2>1, <2>2, <2>3
  <2>5. \A place \in P : place = <<t, k>>
    <3> SUFFICES ASSUME NEW place \in P PROVE place = <<t, k>>
      OBVIOUS
    <3>1. place[1] \in 1 .. T /\ place[2] \in DOMAIN parts[place[1]] /\ parts[place[1]][place[2]] = i
          /\ place = <<place[1], place[2]>>
      BY <1>1, <2>1
    <3>2. place[1] = t /\ place[2] = k
      BY <2>3, <3>1
    <3> QED BY <3>1, <3>2
  <2>6. P = {<<t, k>>}
    BY <2>4, <2>5
  <2> QED BY <2>6, FS_Singleton
<1> QED BY <1>7, <1>10

\* A padded batch has equal parts for all ranks, with less than one sample for each.
LEMMA PadFacts ==
  ASSUME NEW s \in Seq(Nat), NEW world \in Nat \ {0}
  PROVE  Len(Pad(s, world)) % world = 0 /\ Len(Pad(s, world)) - Len(s) < world
<1> DEFINE n == Len(s)
           d == n \div world
           m == n % world
           k == IF m = 0 THEN 0 ELSE world - m
           z == [i \in 1 .. k |-> 0]
<1>1. n \in Nat
  OBVIOUS
<1>2. d \in Nat /\ m \in 0 .. world - 1 /\ n = world * d + m
  <2> HIDE DEF n
  <2> QED BY <1>1
<1>3. Pad(s, world) = s \o z
  BY DEF Pad
<1> HIDE DEF d, m
<1>4. k \in Nat /\ k < world /\ (m = 0 => m + k = 0) /\ (m # 0 => m + k = world)
  BY <1>2
<1> HIDE DEF k
<1>5. z \in Seq(Nat) /\ Len(z) = k
  BY <1>4, FunctionToSeq
<1> HIDE DEF z
<1>6. Len(s \o z) = n + k
  <2>1. Len(s \o z) = Len(s) + Len(z)
    BY <1>5, ConcatProperties
  <2> QED BY <1>5, <2>1
<1>7. (n + k) % world = 0
  <2> DEFINE a == IF m = 0 THEN d ELSE d + 1
  <2>1. a \in Nat /\ n + k = world * a
    <3>1. (d + 1) * world = d * world + world /\ d * world \in Nat
      BY <1>2, TimesNext
    <3>2. world * d = d * world /\ world * (d + 1) = (d + 1) * world
      BY <1>2
    <3> DEFINE v == d * world
    <3>3. n = v + m /\ v \in Nat /\ world * (d + 1) = v + world /\ world * d = v
      BY <1>2, <3>1, <3>2
    <3> HIDE DEF v, n
    <3> QED BY <1>2, <1>4, <3>3
  <2> HIDE DEF a, n
  <2>2. (world * a) % world = 0
    <3>1. a * world + 0 = world * a /\ 0 \in 0 .. world - 1
      BY <2>1
    <3> QED BY SMTT(30), <2>1, <3>1
  <2> QED BY <2>1, <2>2
<1>8. (n + k) - n < world
  <2> HIDE DEF n
  <2> QED BY <1>1, <1>4
<1> QED BY <1>3, <1>6, <1>7, <1>8

\* The invariant gives what the run checks.
LEMMA TrainBatchImplied == TrainBatchIInv => TrainBatchInv
<1> SUFFICES ASSUME TrainBatchIInv PROVE TrainBatchInv
  OBVIOUS
<1>0. TrainTypes /\ PartsSound /\ LengthsOfSamples /\ GradientsHeld
  BY DEF TrainBatchIInv
<1>1. TrainBatchTypeOK
  <2>1. ASSUME outcome = "dealt", NEW t \in TrainerIds
        PROVE  Len(InputChunks(parts[t])) = AccumSteps(parts[t])
    BY <1>0, <2>1, PartFacts
  <2> QED BY <1>0, <2>1 DEF TrainTypes, TrainBatchTypeOK
<1>2. DealtOnce
  <2>1. ASSUME NEW world \in 1 .. MaxTrainers
        PROVE  Len(Pad(trainSamples, world)) % world = 0 /\ Len(Pad(trainSamples, world)) - Len(trainSamples) < world
    <3>1. world \in Nat \ {0} /\ trainSamples \in Seq(Nat)
      BY <1>0, TrainBatchAssumption DEF TrainTypes
    <3> QED BY <3>1, PadFacts
  <2>2. ASSUME outcome = "dealt", Len(trainSamples) % trainers <= Len(trainSamples) \div trainers
        PROVE  /\ \A i \in DOMAIN trainSamples :
                    Cardinality({place \in TrainerIds \X (1 .. MaxSamples) :
                                   /\ place[2] \in DOMAIN parts[place[1]]
                                   /\ parts[place[1]][place[2]] = trainSamples[i]}) = 1
               /\ \A t, u \in TrainerIds : Len(parts[t]) <= Len(parts[u]) + 1
    BY <1>0, <2>2, PartsOnce
  <2> QED BY <2>1, <2>2 DEF DealtOnce
<1>3. NoSampleTwice
  BY <1>0 DEF GradientsHeld, TrainsSoFar, NoSampleTwice
<1>4. ReducedGradients
  BY <1>0 DEF GradientsHeld, ReducesAll, ReducedGradients
<1> QED BY <1>0, <1>1, <1>2, <1>3, <1>4 DEF TrainBatchInv

\* For any number of samples, trainers and micro batches: a batch is dealt to the trainers
\* so that each sample is in one part, the micro batches of a trainer have every sample of
\* its part and the lengths of their own samples, a gradient is in the parameters or in the
\* buffer and never in both, and after the reduction a trainer without a buffer has the
\* gradient of all samples, one with a buffer that of its own (train.rs, trainer.rs,
\* fp32_gradient_accumulator.rs).
THEOREM TrainBatchCorrect == TrainBatchSpec => []TrainBatchInv
<1>1. TrainBatchInit => TrainBatchIInv
  BY TrainBatchStarts
<1>2. TrainBatchIInv /\ [TrainBatchNext]_trainBatchVars => TrainBatchIInv'
  BY TrainBatchStep
<1>3. TrainBatchIInv => TrainBatchInv
  BY TrainBatchImplied
<1> QED BY <1>1, <1>2, <1>3, PTL DEF TrainBatchSpec

-----------------------------------------------------------------------------
(* The learning rates. *)

\* The schedules that a run may have.
Schedules ==
  {g \in [kind : {"Constant", "Linear", "Cosine", "WarmupStableDecay"},
          warmup_init_lr : Rates, base_lr : Rates, middle_lr : Rates,
          final_lr : Rates, warmup_steps : {0, MaxWarmup},
          stable_steps : {0, 2}, span : Spans] :
     /\ g.warmup_init_lr <= g.base_lr
     /\ g.final_lr <= g.middle_lr /\ g.middle_lr <= g.base_lr
     /\ g.kind # "WarmupStableDecay" => g.stable_steps = 0 /\ g.middle_lr = g.final_lr
     /\ g.kind = "Constant" => g.final_lr = g.base_lr}

LearningRateIInv ==
  /\ schedule \in Schedules
  /\ cold \in [start : {1, 3}, steps : {0, 2}]
  /\ atStep \in 1 .. MaxSchedule
  /\ rate = GetLR(atStep)

\* Two rates are a number of units apart: their distance is divided by the steps of a
\* warmup and by twelve.
LEMMA RatesApart ==
  ASSUME NEW x \in Rates, NEW y \in Rates, y <= x
  PROVE  /\ x \in Nat /\ y \in Nat
         /\ \E k \in Nat : x = y + 12 * k
         /\ \E e \in Nat : x = y + e * MaxWarmup
<1> DEFINE W == MaxWarmup
<1>0. W \in Nat \ {0} /\ MaxLr \in Nat /\ Unit = 12 * W
  BY LearningRateAssumption DEF Unit
<1>1. PICK n \in 0 .. MaxLr : x = (12 * W) * n
  BY <1>0 DEF Rates
<1>2. PICK m \in 0 .. MaxLr : y = (12 * W) * m
  BY <1>0 DEF Rates
<1>3. n \in Nat /\ m \in Nat
  BY <1>0
<1> DEFINE a == W * n
           b == W * m
<1>4. a \in Nat /\ b \in Nat /\ x = 12 * a /\ y = 12 * b
  BY <1>0, <1>1, <1>2, <1>3
<1>5. m <= n
  <2> SUFFICES ASSUME n < m PROVE FALSE
    BY <1>3
  <2>1. PICK d \in Nat : m = n + 1 + d
    <3>1. m - (n + 1) \in Nat /\ m = n + 1 + (m - (n + 1))
      BY <1>3
    <3> QED BY <3>1
  <2>2. W * m = W * n + W + W * d /\ W * d \in Nat
    BY <1>0, <1>3, <2>1
  <2> DEFINE c == W * d
  <2>3. b = a + W + c /\ c \in Nat
    BY <2>2
  <2> HIDE DEF a, b, c
  <2> QED BY <1>0, <1>4, <2>3
<1>6. PICK d \in Nat : n = m + d
  <2>1. n - m \in Nat /\ n = m + (n - m)
    BY <1>3, <1>5
  <2> QED BY <2>1
<1>7. a = b + W * d /\ W * d \in Nat
  BY <1>0, <1>3, <1>6
<1> DEFINE c == W * d
<1>8. x = y + 12 * c /\ c \in Nat /\ x \in Nat /\ y \in Nat
  <2>1. a = b + c /\ c \in Nat
    BY <1>7
  <2> HIDE DEF a, b, c
  <2> QED BY <1>4, <2>1
<1>9. 12 * c = (12 * d) * W /\ 12 * d \in Nat
  BY <1>0
<1> HIDE DEF c
<1>10. x = y + (12 * d) * W
  BY <1>8, <1>9
<1> QED BY <1>8, <1>9, <1>10

\* The fields of a schedule.
LEMMA ScheduleFields ==
  ASSUME NEW g \in Schedules
  PROVE  /\ g.kind \in {"Constant", "Linear", "Cosine", "WarmupStableDecay"}
         /\ g.warmup_init_lr \in Nat /\ g.base_lr \in Nat /\ g.middle_lr \in Nat /\ g.final_lr \in Nat
         /\ g.warmup_steps \in Nat /\ g.stable_steps \in {0, 2} /\ g.span \in 1 .. 3
         /\ g.warmup_init_lr <= g.base_lr /\ g.final_lr <= g.middle_lr /\ g.middle_lr <= g.base_lr
         /\ g.kind # "WarmupStableDecay" => g.stable_steps = 0 /\ g.middle_lr = g.final_lr
         /\ g.kind = "Constant" => g.final_lr = g.base_lr
         /\ \E k \in Nat : g.base_lr = g.middle_lr + 12 * k
         /\ \E k \in Nat : g.middle_lr = g.final_lr + 12 * k
<1>1. /\ g.warmup_init_lr \in Rates /\ g.base_lr \in Rates /\ g.middle_lr \in Rates /\ g.final_lr \in Rates
      /\ g.warmup_init_lr <= g.base_lr /\ g.final_lr <= g.middle_lr /\ g.middle_lr <= g.base_lr
  BY DEF Schedules
<1>2. /\ g.warmup_init_lr \in Nat /\ g.base_lr \in Nat /\ g.middle_lr \in Nat /\ g.final_lr \in Nat
  BY <1>1, RatesApart
<1>3. \E k \in Nat : g.base_lr = g.middle_lr + 12 * k
  BY <1>1, RatesApart
<1>4. \E k \in Nat : g.middle_lr = g.final_lr + 12 * k
  BY <1>1, RatesApart
<1>5. /\ g.kind \in {"Constant", "Linear", "Cosine", "WarmupStableDecay"}
      /\ g.warmup_steps \in Nat /\ g.stable_steps \in {0, 2} /\ g.span \in 1 .. 3
      /\ g.kind # "WarmupStableDecay" => g.stable_steps = 0 /\ g.middle_lr = g.final_lr
      /\ g.kind = "Constant" => g.final_lr = g.base_lr
  <2>1. /\ g.kind \in {"Constant", "Linear", "Cosine", "WarmupStableDecay"}
        /\ g.stable_steps \in {0, 2}
        /\ g.kind # "WarmupStableDecay" => g.stable_steps = 0 /\ g.middle_lr = g.final_lr
        /\ g.kind = "Constant" => g.final_lr = g.base_lr
    BY DEF Schedules
  <2>2. g.warmup_steps \in {0, MaxWarmup} /\ g.span \in Spans
    BY DEF Schedules
  <2>3. MaxWarmup \in Nat /\ Spans \subseteq 1 .. 3
    BY LearningRateAssumption
  <2>4. g.warmup_steps \in Nat
    BY <2>2, <2>3
  <2>5. g.span \in 1 .. 3
    BY <2>2, <2>3, Zenon
  <2> QED BY <2>1, <2>4, <2>5
<1> QED BY <1>1, <1>2, <1>3, <1>4, <1>5

\* A warmup rises by the same amount in every step.
LEMMA WarmupRises ==
  ASSUME NEW g \in Schedules
  PROVE  \E e \in Nat : /\ g.base_lr = g.warmup_init_lr + e * g.warmup_steps \/ g.warmup_steps = 0
                        /\ \A s \in 0 .. g.warmup_steps : g.warmup_steps # 0 =>
                             e * s \in Nat /\ Warm(g, s) = g.warmup_init_lr + e * s
<1>0. g.warmup_steps = 0 \/ g.warmup_steps = MaxWarmup
  BY DEF Schedules
<1>1. CASE g.warmup_steps = 0
  BY <1>1
<1>2. CASE g.warmup_steps = MaxWarmup
  <2> DEFINE W == g.warmup_steps
             a == g.warmup_init_lr
  <2>1. W \in Nat \ {0}
    BY <1>2, LearningRateAssumption
  <2>2. a \in Rates /\ g.base_lr \in Rates /\ a <= g.base_lr
    BY DEF Schedules
  <2>3. a \in Nat /\ g.base_lr \in Nat /\ \E e \in Nat : g.base_lr = a + e * MaxWarmup
    BY <2>2, RatesApart
  <2>4. PICK e \in Nat : g.base_lr = a + e * W
    BY <1>2, <2>3
  <2>5. ASSUME NEW s \in 0 .. W PROVE e * s \in Nat /\ Warm(g, s) = a + e * s
    <3>1. s \in Nat /\ e * s \in Nat
      BY <2>1
    <3>2. g.base_lr - a = e * W
      <4> DEFINE c == e * W
      <4>1. c \in Nat /\ g.base_lr = a + c
        BY <2>1, <2>4
      <4> HIDE DEF c
      <4>2. g.base_lr - a = c
        BY <2>3, <4>1
      <4> QED BY <4>2 DEF c
    <3>3. (e * W) * s = (e * s) * W
      BY <2>1, <3>1
    <3>4. Warm(g, s) = a + ((g.base_lr - a) * s) \div W
      BY DEF Warm, Between
    <3>5. ((e * s) * W) \div W = e * s
      BY <2>1, <3>1, ExactDivision
    <3> QED BY <3>1, <3>2, <3>3, <3>4, <3>5
  <2> HIDE DEF W, a
  <2>6. /\ g.base_lr = a + e * W
        /\ \A s \in 0 .. W : e * s \in Nat /\ Warm(g, s) = a + e * s
    BY <2>4, <2>5
  <2> QED BY <2>6 DEF W, a
<1> QED BY <1>0, <1>1, <1>2

\* The points of half a wave.
LEMMA WaveFacts ==
  ASSUME NEW first \in Nat, NEW last \in Nat, NEW k \in Nat, first = last + 12 * k,
         NEW den \in 1 .. 3, NEW num \in Nat
  PROVE  LET v == CosineBetween(first, last, num, den)
             w == CosineBetween(first, last, num + 1, den)
         IN  /\ v \in Nat /\ last <= v /\ v <= first
             /\ num = 0 => v = first
             /\ num = den => v = last
             /\ num < den => w <= v
             /\ (IF den = 1 THEN 1 ELSE 2) * (v - w) <= first - last
             /\ (IF den = 1 THEN 1 ELSE 2) * (w - v) <= first - last
<1> DEFINE Q(j) == CosineQuarters(j, den)
<1>1. ASSUME NEW j \in Nat
      PROVE  /\ den = 1 => Q(j) = IF j % 2 = 0 THEN 4 ELSE 0
             /\ den = 2 => Q(j) = IF j % 4 = 0 THEN 4 ELSE IF j % 4 = 2 THEN 0 ELSE 2
             /\ den = 3 => Q(j) = IF j % 6 = 0 THEN 4 ELSE IF j % 6 = 3 THEN 0
                                  ELSE IF j % 6 \in {1, 5} THEN 3 ELSE 1
  <2>1. CASE den = 1
    BY <2>1 DEF CosineQuarters
  <2>2. CASE den = 2
    <3>1. j % 4 \in {0, 1, 2, 3}
      OBVIOUS
    <3> DEFINE p == j % 4
    <3>2. Q(j) = <<4, 2, 0, 2>>[p + 1]
      BY <2>2 DEF CosineQuarters
    <3> HIDE DEF p
    <3>3. p \in {0, 1, 2, 3}
      BY <3>1 DEF p
    <3>4. Q(j) = IF p = 0 THEN 4 ELSE IF p = 2 THEN 0 ELSE 2
      BY <3>2, <3>3
    <3> QED BY <2>2, <3>4 DEF p
  <2>3. CASE den = 3
    <3>1. j % 6 \in {0, 1, 2, 3, 4, 5}
      OBVIOUS
    <3> DEFINE p == j % 6
    <3>2. Q(j) = <<4, 3, 1, 0, 1, 3>>[p + 1]
      BY <2>3 DEF CosineQuarters
    <3> HIDE DEF p
    <3>3. p \in {0, 1, 2, 3, 4, 5}
      BY <3>1 DEF p
    <3>4. Q(j) = IF p = 0 THEN 4 ELSE IF p = 3 THEN 0 ELSE IF p \in {1, 5} THEN 3 ELSE 1
      BY <3>2, <3>3
    <3> QED BY <2>3, <3>4 DEF p
  <2> QED BY <2>1, <2>2, <2>3
<1>2. ASSUME NEW j \in Nat
      PROVE  Q(j) \in {0, 1, 2, 3, 4} /\ CosineBetween(first, last, j, den) = last + 3 * (k * Q(j))
  <2>1. Q(j) \in {0, 1, 2, 3, 4}
    BY <1>1
  <2>2. first - last = 12 * k
    OBVIOUS
  <2>3. CosineBetween(first, last, j, den) = last + ((12 * k) * Q(j)) \div 4
    BY <2>2 DEF CosineBetween
  <2> HIDE DEF Q
  <2>4. \A q \in {0, 1, 2, 3, 4} : ((12 * k) * q) \div 4 = 3 * (k * q)
    OBVIOUS
  <2> QED BY <2>1, <2>3, <2>4
<1> DEFINE a == Q(num)
           b == Q(num + 1)
<1>3. /\ num = 0 => a = 4
      /\ num = den => a = 0
      /\ num < den => b <= a
      /\ a \in {0, 1, 2, 3, 4} /\ b \in {0, 1, 2, 3, 4}
      /\ den # 1 => a - b \in {0 - 2, 0 - 1, 0, 1, 2}
  <2>0. num \in Nat /\ num + 1 \in Nat
    OBVIOUS
  <2>1. CASE den = 1
    <3>1. a = (IF num % 2 = 0 THEN 4 ELSE 0) /\ b = IF (num + 1) % 2 = 0 THEN 4 ELSE 0
      BY <1>1, <2>0, <2>1
    <3> HIDE DEF Q
    <3> QED BY <2>1, <3>1
  <2>2. CASE den = 2
    <3>1. /\ a = IF num % 4 = 0 THEN 4 ELSE IF num % 4 = 2 THEN 0 ELSE 2
          /\ b = IF (num + 1) % 4 = 0 THEN 4 ELSE IF (num + 1) % 4 = 2 THEN 0 ELSE 2
      BY <1>1, <2>0, <2>2
    <3> HIDE DEF Q
    <3> QED BY <2>2, <3>1
  <2>3. CASE den = 3
    <3>1. /\ a = IF num % 6 = 0 THEN 4 ELSE IF num % 6 = 3 THEN 0
                 ELSE IF num % 6 \in {1, 5} THEN 3 ELSE 1
          /\ b = IF (num + 1) % 6 = 0 THEN 4 ELSE IF (num + 1) % 6 = 3 THEN 0
                 ELSE IF (num + 1) % 6 \in {1, 5} THEN 3 ELSE 1
      BY <1>1, <2>0, <2>3
    <3> HIDE DEF Q
    <3> QED BY <2>3, <3>1
  <2> QED BY <2>1, <2>2, <2>3
<1> DEFINE v == CosineBetween(first, last, num, den)
           w == CosineBetween(first, last, num + 1, den)
<1>4. v = last + 3 * (k * a) /\ w = last + 3 * (k * b)
  BY <1>2
<1> HIDE DEF a, b, v, w
<1>5. /\ v \in Nat /\ last <= v /\ v <= first
      /\ num = 0 => v = first
      /\ num = den => v = last
      /\ num < den => w <= v
      /\ (IF den = 1 THEN 1 ELSE 2) * (v - w) <= first - last
      /\ (IF den = 1 THEN 1 ELSE 2) * (w - v) <= first - last
  <2>1. first - last = 12 * k
    OBVIOUS
  <2>2. \A q \in {0, 1, 2, 3, 4} : k * q \in {0, k, 2 * k, 3 * k, 4 * k}
    OBVIOUS
  <2>3. CASE a = 0
    BY <1>3, <1>4, <2>3
  <2>4. CASE a = 1
    BY <1>3, <1>4, <2>4
  <2>5. CASE a = 2
    BY <1>3, <1>4, <2>5
  <2>6. CASE a = 3
    BY <1>3, <1>4, <2>6
  <2>7. CASE a = 4
    BY <1>3, <1>4, <2>7
  <2> QED BY <1>3, <2>3, <2>4, <2>5, <2>6, <2>7
<1> QED BY <1>5 DEF v, w

\* The points of a line.
LEMMA LineFacts ==
  ASSUME NEW first \in Nat, NEW last \in Nat, NEW k \in Nat, first = last + 12 * k,
         NEW den \in 1 .. 3, NEW num \in Nat, num < den
  PROVE  LET v == Between(first, last, num, den)
             w == IF num + 1 < den THEN Between(first, last, num + 1, den) ELSE last
         IN  /\ v \in Nat /\ last <= v /\ v <= first
             /\ num = 0 => v = first
             /\ w <= v
             /\ (IF den = 1 THEN 1 ELSE 2) * (v - w) <= first - last
             /\ (IF den = 1 THEN 1 ELSE 2) * (w - v) <= first - last
<1>1. last - first = 0 - 12 * k
  OBVIOUS
<1>2. ASSUME NEW j \in {0, 1, 2}
      PROVE  /\ den = 1 /\ j = 0 => Between(first, last, j, den) = first
             /\ den = 2 => Between(first, last, j, den) = first - 6 * (k * j)
             /\ den = 3 => Between(first, last, j, den) = first - 4 * (k * j)
  <2>1. Between(first, last, j, den) = first + ((0 - 12 * k) * j) \div den
    BY <1>1 DEF Between
  <2>2. CASE j = 0
    BY <2>1, <2>2
  <2>3. CASE j = 1
    <3>1. (0 - 12 * k) \div 2 = 0 - 6 * k /\ (0 - 12 * k) \div 3 = 0 - 4 * k
      OBVIOUS
    <3>2. (0 - 12 * k) * 1 = 0 - 12 * k /\ k * 1 = k
      OBVIOUS
    <3>3. Between(first, last, j, den) = first + (0 - 12 * k) \div den
      BY <2>1, <2>3, <3>2
    <3>4. CASE den = 1
      BY <2>3, <3>4
    <3>5. CASE den = 2
      BY <2>3, <3>1, <3>2, <3>3, <3>5
    <3>6. CASE den = 3
      BY <2>3, <3>1, <3>2, <3>3, <3>6
    <3> QED BY <3>4, <3>5, <3>6
  <2>4. CASE j = 2
    BY <2>1, <2>4
  <2> QED BY <2>2, <2>3, <2>4
<1>3. CASE den = 1
  <2>1. num = 0
    BY <1>3
  <2> QED BY <1>2, <1>3, <2>1
<1>4. CASE den = 2
  <2>1. num \in {0, 1}
    BY <1>4
  <2>2. /\ Between(first, last, 0, den) = first
        /\ Between(first, last, 1, den) = first - 6 * k
    BY <1>2, <1>4
  <2> QED BY <1>4, <2>1, <2>2
<1>5. CASE den = 3
  <2>1. num \in {0, 1, 2}
    BY <1>5
  <2>2. /\ Between(first, last, 0, den) = first
        /\ Between(first, last, 1, den) = first - 4 * k
        /\ Between(first, last, 2, den) = first - 8 * k
    BY <1>2, <1>5
  <2> QED BY <1>5, <2>1, <2>2
<1> QED BY <1>3, <1>4, <1>5

\* What a schedule does in a step after its warmup.
ShareOf(g) == IF g.span = 1 THEN 1 ELSE 2
FallsAt(g, s) ==
  /\ ScheduledLR(g, s) \in Nat
  /\ g.final_lr <= ScheduledLR(g, s) /\ ScheduledLR(g, s) <= g.base_lr
  /\ s = g.warmup_steps => ScheduledLR(g, s) = g.base_lr
  /\ s = TotalSteps(g) => ScheduledLR(g, s) = g.final_lr
  /\ s < TotalSteps(g) => ScheduledLR(g, s + 1) <= ScheduledLR(g, s)
  /\ ShareOf(g) * (ScheduledLR(g, s) - ScheduledLR(g, s + 1)) <= g.base_lr - g.final_lr
  /\ ShareOf(g) * (ScheduledLR(g, s + 1) - ScheduledLR(g, s)) <= g.base_lr - g.final_lr

\* After its warmup a schedule falls from its base rate to its final rate, and no step
\* is longer than a part of the way.
LEMMA ScheduleFalls ==
  ASSUME NEW g \in Schedules, NEW s \in Nat, g.warmup_steps <= s
  PROVE  FallsAt(g, s)
<1> DEFINE W == g.warmup_steps
           B == g.base_lr
           M == g.middle_lr
           F == g.final_lr
           n == g.span
<1>1. /\ g.kind \in {"Constant", "Linear", "Cosine", "WarmupStableDecay"}
      /\ B \in Nat /\ M \in Nat /\ F \in Nat /\ W \in Nat
      /\ g.stable_steps \in {0, 2} /\ n \in 1 .. 3
      /\ F <= M /\ M <= B
      /\ g.kind # "WarmupStableDecay" => g.stable_steps = 0 /\ M = F
      /\ g.kind = "Constant" => F = B
  BY ScheduleFields
<1>2. PICK k \in Nat : B = M + 12 * k
  BY ScheduleFields
<1>3. PICK h \in Nat : M = F + 12 * h
  BY ScheduleFields
<1>4. CASE g.kind = "Constant"
  <2>1. ScheduledLR(g, s) = B /\ ScheduledLR(g, s + 1) = B
    BY <1>1, <1>4 DEF ScheduledLR, ConstantLR
  <2>2. ShareOf(g) \in {1, 2}
    BY DEF ShareOf
  <2> HIDE DEF W, B, M, F, n
  <2> QED BY <1>1, <1>4, <2>1, <2>2 DEF FallsAt, B, F
<1>5. CASE g.kind = "Linear"
  <2>0. B = F + 12 * k
    BY <1>1, <1>2, <1>5
  <2>t. TotalSteps(g) = W + n
    BY <1>5 DEF TotalSteps
  <2>1. ASSUME NEW i \in Nat, W <= i
        PROVE  ScheduledLR(g, i) = IF i < W + n THEN Between(B, F, i - W, n) ELSE F
    <3>1. ScheduledLR(g, i) = LinearLR(g, i)
      BY <1>5 DEF ScheduledLR
    <3> QED BY <1>1, <2>1, <3>1 DEF LinearLR
  <2>2. CASE s < W + n
    <3> DEFINE j == s - W
               v == Between(B, F, j, n)
               w == IF j + 1 < n THEN Between(B, F, j + 1, n) ELSE F
    <3>1. j \in Nat /\ j < n /\ (s + 1) - W = j + 1 /\ (s + 1 < W + n <=> j + 1 < n)
      BY <1>1, <2>2
    <3>2. ScheduledLR(g, s) = v /\ ScheduledLR(g, s + 1) = w
      BY <1>1, <2>1, <2>2, <3>1
    <3>3. /\ v \in Nat /\ F <= v /\ v <= B
          /\ j = 0 => v = B
          /\ w <= v
          /\ (IF n = 1 THEN 1 ELSE 2) * (v - w) <= B - F
          /\ (IF n = 1 THEN 1 ELSE 2) * (w - v) <= B - F
      <4> HIDE DEF W, B, M, F, n, j
      <4> QED BY <1>1, <2>0, <3>1, LineFacts
    <3>4. s = W => j = 0
      BY <1>1
    <3> HIDE DEF v, w, j
    <3> QED BY <1>1, <2>t, <2>2, <3>2, <3>3, <3>4 DEF FallsAt, ShareOf
  <2>3. CASE ~(s < W + n)
    <3>1. ScheduledLR(g, s) = F /\ ScheduledLR(g, s + 1) = F
      BY <1>1, <2>1, <2>3
    <3>2. ShareOf(g) \in {1, 2} /\ s # W
      BY <1>1, <2>3 DEF ShareOf
    <3> QED BY <1>1, <2>t, <2>3, <3>1, <3>2 DEF FallsAt
  <2> QED BY <2>2, <2>3
<1>6. CASE g.kind = "Cosine"
  <2>0. B = F + 12 * k
    BY <1>1, <1>2, <1>6
  <2>t. TotalSteps(g) = W + n
    BY <1>6 DEF TotalSteps
  <2>1. ASSUME NEW i \in Nat, W <= i
        PROVE  ScheduledLR(g, i) = CosineBetween(B, F, i - W, n)
    <3>1. ScheduledLR(g, i) = CosineLR(g, i)
      BY <1>6 DEF ScheduledLR
    <3> QED BY <1>1, <2>1, <3>1 DEF CosineLR
  <2> DEFINE j == s - W
             v == CosineBetween(B, F, j, n)
             w == CosineBetween(B, F, j + 1, n)
  <2>2. /\ j \in Nat /\ (s + 1) - W = j + 1 /\ W <= s + 1 /\ s + 1 \in Nat
        /\ s = W <=> j = 0
        /\ s = W + n <=> j = n
        /\ s < W + n <=> j < n
    BY <1>1
  <2>3. ScheduledLR(g, s) = v /\ ScheduledLR(g, s + 1) = w
    BY <2>1, <2>2
  <2>4. /\ v \in Nat /\ F <= v /\ v <= B
        /\ j = 0 => v = B
        /\ j = n => v = F
        /\ j < n => w <= v
        /\ (IF n = 1 THEN 1 ELSE 2) * (v - w) <= B - F
        /\ (IF n = 1 THEN 1 ELSE 2) * (w - v) <= B - F
    <3> HIDE DEF W, B, M, F, n, j
    <3> QED BY <1>1, <2>0, <2>2, WaveFacts
  <2> HIDE DEF v, w, j
  <2> QED BY <1>1, <2>t, <2>2, <2>3, <2>4 DEF FallsAt, ShareOf
<1>7. CASE g.kind = "WarmupStableDecay"
  <2> DEFINE S == W + g.stable_steps
             D == S + n
             E == D + n
  <2>0. S \in Nat /\ D \in Nat /\ E \in Nat /\ W <= S /\ S < D /\ D < E /\ TotalSteps(g) = E
    BY <1>1, <1>7 DEF TotalSteps
  <2>1. ASSUME NEW i \in Nat, W <= i
        PROVE  ScheduledLR(g, i) = IF i < S THEN B
                                   ELSE IF i < D THEN CosineBetween(B, M, i - S, n)
                                   ELSE IF i < E THEN Between(M, F, i - D, n) ELSE F
    <3>1. ScheduledLR(g, i) = WarmupStableDecayLR(g, i)
      BY <1>7 DEF ScheduledLR
    <3> QED BY <1>1, <2>0, <2>1, <3>1 DEF WarmupStableDecayLR
  <2>s. ShareOf(g) = (IF n = 1 THEN 1 ELSE 2) /\ ShareOf(g) \in {1, 2}
    BY DEF ShareOf
  <2>w. \A j \in Nat :
          LET v == CosineBetween(B, M, j, n)
              w == CosineBetween(B, M, j + 1, n)
          IN  /\ v \in Nat /\ M <= v /\ v <= B
              /\ j = 0 => v = B
              /\ j = n => v = M
              /\ j < n => w <= v
              /\ (IF n = 1 THEN 1 ELSE 2) * (v - w) <= B - M
              /\ (IF n = 1 THEN 1 ELSE 2) * (w - v) <= B - M
    <3> HIDE DEF W, B, M, F, n
    <3> QED BY <1>1, <1>2, WaveFacts
  <2>l. \A j \in Nat : j < n =>
          LET v == Between(M, F, j, n)
              w == IF j + 1 < n THEN Between(M, F, j + 1, n) ELSE F
          IN  /\ v \in Nat /\ F <= v /\ v <= M
              /\ j = 0 => v = M
              /\ w <= v
              /\ (IF n = 1 THEN 1 ELSE 2) * (v - w) <= M - F
              /\ (IF n = 1 THEN 1 ELSE 2) * (w - v) <= M - F
    <3> HIDE DEF W, B, M, F, n
    <3> QED BY <1>1, <1>3, LineFacts
  <2>2. CASE s < S
    <3>1. ScheduledLR(g, s) = B
      BY <2>1, <2>2
    <3>2. ScheduledLR(g, s + 1) = B
      <4>1. CASE s + 1 < S
        BY <1>1, <2>1, <4>1
      <4>2. CASE s + 1 = S
        <5>1. (s + 1) - S = 0 /\ s + 1 < D /\ W <= s + 1
          BY <1>1, <2>0, <4>2
        <5>2. ScheduledLR(g, s + 1) = CosineBetween(B, M, 0, n)
          BY <2>0, <2>1, <4>2, <5>1
        <5>3. CosineBetween(B, M, 0, n) = B
          BY <2>w
        <5> QED BY <5>2, <5>3
      <4> QED BY <2>0, <2>2, <4>1, <4>2
    <3>3. s < E
      BY <2>0, <2>2
    <3> QED BY <1>1, <2>0, <2>s, <3>1, <3>2, <3>3 DEF FallsAt
  <2>3. CASE S <= s /\ s < D
    <3> DEFINE j == s - S
               v == CosineBetween(B, M, j, n)
               w == CosineBetween(B, M, j + 1, n)
    <3>1. /\ j \in Nat /\ j < n /\ (s + 1) - S = j + 1 /\ W <= s + 1 /\ s + 1 \in Nat /\ s < E
          /\ s = W => j = 0
      BY <1>1, <2>0, <2>3
    <3>2. ScheduledLR(g, s) = v
      BY <2>0, <2>1, <2>3
    <3>3. ScheduledLR(g, s + 1) = w
      <4>1. CASE s + 1 < D
        BY <2>0, <2>1, <2>3, <3>1, <4>1
      <4>2. CASE s + 1 = D
        <5>1. (s + 1) - D = 0 /\ j + 1 = n /\ 0 < n
          BY <1>1, <2>0, <4>2
        <5>2. ScheduledLR(g, s + 1) = Between(M, F, 0, n)
          BY <2>0, <2>1, <4>2, <3>1, <5>1
        <5>3. Between(M, F, 0, n) = M
          BY <2>l, <5>1
        <5>4. CosineBetween(B, M, j + 1, n) = M
          BY <1>1, <2>w, <5>1
        <5> QED BY <5>2, <5>3, <5>4
      <4> QED BY <2>0, <2>3, <4>1, <4>2
    <3>4. /\ v \in Nat /\ M <= v /\ v <= B
          /\ j = 0 => v = B
          /\ w <= v
          /\ (IF n = 1 THEN 1 ELSE 2) * (v - w) <= B - M
          /\ (IF n = 1 THEN 1 ELSE 2) * (w - v) <= B - M
      BY <2>w, <3>1
    <3>5. w \in Nat
      BY <2>w, <3>1
    <3> HIDE DEF v, w, j, W, B, M, F, n, S, D, E
    <3>6. /\ v \in Nat /\ F <= v /\ v <= B /\ w <= v
          /\ s = W => v = B
          /\ s # E
          /\ ShareOf(g) * (v - w) <= B - F
          /\ ShareOf(g) * (w - v) <= B - F
      BY <1>1, <2>0, <2>s, <3>1, <3>4, <3>5
    <3> QED BY <2>0, <3>2, <3>3, <3>6 DEF FallsAt, W, B, F
  <2>4. CASE D <= s /\ s < E
    <3> DEFINE j == s - D
               v == Between(M, F, j, n)
               w == IF j + 1 < n THEN Between(M, F, j + 1, n) ELSE F
    <3>1. /\ j \in Nat /\ j < n /\ (s + 1) - D = j + 1 /\ W <= s + 1 /\ s + 1 \in Nat /\ s # W
          /\ s + 1 < E <=> j + 1 < n
      <4>1. E = D + n /\ n \in 1 .. 3 /\ W \in Nat
        BY <1>1
      <4> HIDE DEF S, D, E, W, n
      <4> QED BY <2>0, <2>4, <4>1
    <3>2. ScheduledLR(g, s) = v
      BY <2>0, <2>1, <2>4
    <3>3. ScheduledLR(g, s + 1) = w
      BY <2>0, <2>1, <2>4, <3>1
    <3>4. /\ v \in Nat /\ F <= v /\ v <= M
          /\ w <= v
          /\ (IF n = 1 THEN 1 ELSE 2) * (v - w) <= M - F
          /\ (IF n = 1 THEN 1 ELSE 2) * (w - v) <= M - F
      BY <2>l, <3>1
    <3>5. w \in Nat
      BY <1>1, <2>l, <3>1
    <3> HIDE DEF v, w, j, W, B, M, F, n, S, D, E
    <3>6. /\ v \in Nat /\ F <= v /\ v <= B /\ w <= v
          /\ s # E
          /\ ShareOf(g) * (v - w) <= B - F
          /\ ShareOf(g) * (w - v) <= B - F
      BY <1>1, <2>0, <2>s, <2>4, <3>1, <3>4, <3>5
    <3> QED BY <2>0, <3>1, <3>2, <3>3, <3>6 DEF FallsAt, W, B, F
  <2>5. CASE E <= s
    <3>1. ScheduledLR(g, s) = F /\ ScheduledLR(g, s + 1) = F
      BY <1>1, <2>0, <2>1, <2>5
    <3>2. s # W
      BY <2>0, <2>5
    <3> QED BY <1>1, <2>0, <2>s, <2>5, <3>1, <3>2 DEF FallsAt
  <2> QED BY <2>0, <2>2, <2>3, <2>4, <2>5
<1> QED BY <1>1, <1>4, <1>5, <1>6, <1>7

\* A schedule begins with its warmup.
LEMMA ScheduleWarms ==
  ASSUME NEW g \in Schedules, NEW s \in Nat, s < g.warmup_steps
  PROVE  ScheduledLR(g, s) = Warm(g, s)
<1>1. /\ g.kind \in {"Constant", "Linear", "Cosine", "WarmupStableDecay"}
      /\ g.warmup_steps \in Nat
  BY ScheduleFields
<1>2. ScheduledLR(g, s) \in {ConstantLR(g, s), LinearLR(g, s), CosineLR(g, s), WarmupStableDecayLR(g, s)}
  BY <1>1 DEF ScheduledLR
<1>3. ConstantLR(g, s) = Warm(g, s)
  BY DEF ConstantLR
<1>4. LinearLR(g, s) = Warm(g, s)
  BY <1>1 DEF LinearLR
<1>5. CosineLR(g, s) = Warm(g, s)
  BY DEF CosineLR
<1>6. WarmupStableDecayLR(g, s) = Warm(g, s)
  <2> DEFINE stable == g.warmup_steps + g.stable_steps
             decayed == stable + g.span
  <2>1. g.stable_steps \in Nat /\ g.span \in Nat
    BY ScheduleFields
  <2>2. ~(s >= g.warmup_steps) /\ ~(s >= stable) /\ ~(s >= decayed)
    BY <1>1, <2>1
  <2> QED BY <2>2 DEF WarmupStableDecayLR
<1> QED BY <1>2, <1>3, <1>4, <1>5, <1>6

\* What a schedule does in a step of its warmup.
RisesAt(g, s) ==
  /\ ScheduledLR(g, s) \in Nat
  /\ g.warmup_init_lr <= ScheduledLR(g, s) /\ ScheduledLR(g, s) <= g.base_lr
  /\ ScheduledLR(g, s) <= ScheduledLR(g, s + 1)
  /\ (ScheduledLR(g, s + 1) - ScheduledLR(g, s)) * g.warmup_steps = g.base_lr - g.warmup_init_lr

\* During its warmup a schedule rises to its base rate, by the same amount in every step.
LEMMA ScheduleRises ==
  ASSUME NEW g \in Schedules, NEW s \in Nat, s < g.warmup_steps
  PROVE  RisesAt(g, s)
<1> DEFINE W == g.warmup_steps
           a == g.warmup_init_lr
           B == g.base_lr
<1>1. W \in Nat \ {0} /\ a \in Nat /\ B \in Nat
  BY ScheduleFields
<1>2. PICK e \in Nat : /\ B = a + e * W \/ W = 0
                       /\ \A i \in 0 .. W : W # 0 => e * i \in Nat /\ Warm(g, i) = a + e * i
  BY WarmupRises
<1>3. B = a + e * W
  BY <1>1, <1>2
<1>4. ScheduledLR(g, s) = a + e * s
  BY <1>1, <1>2, ScheduleWarms
<1>5. ScheduledLR(g, s + 1) = a + e * (s + 1)
  <2>1. CASE s + 1 < W
    BY <1>1, <1>2, <2>1, ScheduleWarms
  <2>2. CASE s + 1 = W
    <3>1. FallsAt(g, s + 1)
      BY <1>1, <2>2, ScheduleFalls
    <3> QED BY <1>3, <2>2, <3>1 DEF FallsAt
  <2>3. s + 1 < W \/ s + 1 = W
    <3> HIDE DEF W
    <3> QED BY <1>1, s < W DEF W
  <2> QED BY <2>1, <2>2, <2>3
<1>6. PICK d \in Nat : W = s + 1 + d
  <2>1. W - (s + 1) \in Nat /\ W = s + 1 + (W - (s + 1))
    BY <1>1
  <2> QED BY <2>1
<1>7. /\ e * (s + 1) = e * s + e
      /\ e * W = e * s + e + e * d
      /\ e * s \in Nat /\ e * d \in Nat /\ e * W \in Nat
  <2>1. e * (s + 1) = e * s + e
    OBVIOUS
  <2>2. e * (s + 1 + d) = e * s + e + e * d
    OBVIOUS
  <2> HIDE DEF W
  <2> QED BY <1>1, <1>6, <2>1, <2>2
<1> DEFINE x == e * s
           y == e * d
           z == e * W
<1>8. /\ x \in Nat /\ y \in Nat /\ z = x + e + y
      /\ ScheduledLR(g, s) = a + x /\ ScheduledLR(g, s + 1) = a + x + e /\ B = a + z
  <2>1. ScheduledLR(g, s + 1) = a + (x + e)
    BY <1>5, <1>7
  <2>2. a + (x + e) = a + x + e
    BY <1>1, <1>7
  <2> QED BY <1>3, <1>4, <1>7, <2>1, <2>2
<1>9. ScheduledLR(g, s + 1) - ScheduledLR(g, s) = e
  <2> HIDE DEF x, y, z, W, a, B
  <2> QED BY <1>1, <1>8
<1>10. B - a = z
  <2> HIDE DEF x, y, z, W, a, B
  <2> QED BY <1>1, <1>8
<1>11. /\ a + x \in Nat /\ a <= a + x /\ a + x <= B /\ a + x <= a + x + e
  <2> HIDE DEF x, y, z, W, a, B
  <2> QED BY <1>1, <1>8
<1> HIDE DEF x, y
<1> QED BY <1>8, <1>9, <1>10, <1>11 DEF RisesAt

\* A rate of the schedule in any step.
LEMMA ScheduleBounds ==
  ASSUME NEW g \in Schedules, NEW s \in Nat
  PROVE  /\ ScheduledLR(g, s) \in Nat /\ ScheduledLR(g, s) <= g.base_lr
         /\ g.warmup_init_lr <= ScheduledLR(g, s) \/ g.final_lr <= ScheduledLR(g, s)
<1>0. g.warmup_steps \in Nat
  BY ScheduleFields
<1>1. CASE s < g.warmup_steps
  BY <1>1, ScheduleRises DEF RisesAt
<1>2. CASE g.warmup_steps <= s
  BY <1>2, ScheduleFalls DEF FallsAt
<1> QED BY <1>0, <1>1, <1>2

\* The lesser of two numbers.
LEMMA MinOfTwo ==
  ASSUME NEW a \in Nat, NEW b \in Nat
  PROVE  Min({a, b}) \in {a, b} /\ Min({a, b}) <= a /\ Min({a, b}) <= b
<1>1. \E x \in {a, b} : \A y \in {a, b} : x =< y
  BY a <= b \/ b <= a
<1>2. Min({a, b}) \in {a, b} /\ \A y \in {a, b} : Min({a, b}) =< y
  BY <1>1 DEF Min
<1> QED BY <1>2

\* The rates of an initial state are those of its schedule.
LEMMA RateInit == LearningRateInit => LearningRateIInv
BY LearningRateAssumption DEF LearningRateInit, LearningRateIInv, Schedules

\* A step takes the rate of the next step.
LEMMA RateStep == LearningRateIInv /\ [LearningRateNext]_lrVars => LearningRateIInv'
<1> SUFFICES ASSUME LearningRateIInv, [LearningRateNext]_lrVars PROVE LearningRateIInv'
  OBVIOUS
<1>1. CASE LearningRateNext
  <2>1. /\ schedule' = schedule /\ cold' = cold /\ atStep' = atStep + 1 /\ atStep < MaxSchedule
        /\ rate' = GetLR(atStep')
    BY <1>1 DEF LearningRateNext
  <2>2. /\ ScheduledLR(schedule', atStep') = ScheduledLR(schedule, atStep')
        /\ cold'.steps = cold.steps /\ cold'.start = cold.start
    BY <2>1
  <2>3. rate' = GetLR(atStep)'
    BY <2>1, <2>2, Zenon DEF GetLR, Factor
  <2>4. atStep' \in 1 .. MaxSchedule
    BY <2>1, LearningRateAssumption DEF LearningRateIInv
  <2> QED BY <2>1, <2>3, <2>4 DEF LearningRateIInv
<1>2. CASE UNCHANGED lrVars
  BY <1>2 DEF LearningRateIInv, lrVars, GetLR, Factor
<1> QED BY <1>1, <1>2

\* The rate of a step under a cold start.
LEMMA RateFacts ==
  ASSUME LearningRateIInv
  PROVE  /\ atStep \in Nat
         /\ rate \in Nat /\ rate <= ScheduledLR(schedule, atStep)
         /\ ~ColdStart => rate = ScheduledLR(schedule, atStep)
         /\ cold.steps # 0 /\ atStep = cold.start => rate = 0
         /\ atStep >= cold.start + cold.steps => rate = ScheduledLR(schedule, atStep)
<1> DEFINE v == ScheduledLR(schedule, atStep)
           f == Factor(atStep)
<1>1. schedule \in Schedules /\ atStep \in Nat /\ rate = GetLR(atStep)
  BY LearningRateAssumption DEF LearningRateIInv
<1>2. v \in Nat
  BY <1>1, ScheduleBounds
<1>3. cold.start \in {1, 3} /\ cold.steps \in {0, 2}
  BY DEF LearningRateIInv
<1>4. CASE cold.steps = 0
  <2>1. rate = v
    BY <1>1, <1>4 DEF GetLR
  <2> HIDE DEF v
  <2> QED BY <1>1, <1>2, <1>4, <2>1 DEF v
<1>5. CASE cold.steps = 2
  <2>1. rate = (v * f) \div 2
    BY <1>1, <1>5 DEF GetLR
  <2>2. /\ f \in {0, 1, 2}
        /\ ~ColdStart => f = 2
        /\ atStep = cold.start => f = 0
        /\ atStep >= cold.start + 2 => f = 2
    BY <1>1, <1>3, <1>5 DEF Factor, ColdStart
  <2> HIDE DEF v, f
  <2>3. /\ rate \in Nat /\ rate <= v
        /\ f = 2 => rate = v
        /\ f = 0 => rate = 0
    <3>1. CASE f = 0
      BY <1>2, <2>1, <3>1
    <3>2. CASE f = 1
      BY <1>2, <2>1, <3>2
    <3>3. CASE f = 2
      BY <1>2, <2>1, <3>3
    <3> QED BY <2>2, <3>1, <3>2, <3>3
  <2>4. /\ ~ColdStart => rate = v
        /\ atStep = cold.start => rate = 0
        /\ atStep >= cold.start + cold.steps => rate = v
    BY <1>5, <2>2, <2>3
  <2> QED BY <1>1, <2>3, <2>4 DEF v
<1> QED BY <1>3, <1>4, <1>5

\* The facts that make the schedules right follow from the schedule and the rate.
LEMMA RateSound == LearningRateIInv => LearningRateInv
<1> SUFFICES ASSUME LearningRateIInv PROVE LearningRateInv
  OBVIOUS
<1> DEFINE g == schedule
<1>0. /\ g \in Schedules /\ atStep \in 1 .. MaxSchedule /\ MaxSchedule \in Nat
      /\ MaxWarmup \in Nat /\ MaxWarmup <= MaxSchedule
  BY LearningRateAssumption DEF LearningRateIInv
<1>1. /\ g.warmup_init_lr \in Nat /\ g.base_lr \in Nat /\ g.final_lr \in Nat
      /\ g.warmup_steps \in Nat /\ g.span \in 1 .. 3 /\ g.stable_steps \in {0, 2}
      /\ g.final_lr <= g.base_lr
      /\ g.kind \in {"Constant", "Linear", "Cosine", "WarmupStableDecay"}
  <2>1. g.middle_lr \in Nat /\ g.final_lr <= g.middle_lr /\ g.middle_lr <= g.base_lr
    BY <1>0, ScheduleFields
  <2>2. /\ g.warmup_init_lr \in Nat /\ g.base_lr \in Nat /\ g.final_lr \in Nat
        /\ g.warmup_steps \in Nat /\ g.span \in 1 .. 3 /\ g.stable_steps \in {0, 2}
        /\ g.kind \in {"Constant", "Linear", "Cosine", "WarmupStableDecay"}
    BY <1>0, ScheduleFields
  <2> QED BY <2>1, <2>2
<1>2. LearningRateTypeOK
  <2> DEFINE v == ScheduledLR(g, atStep)
             m == Min({g.warmup_init_lr, g.final_lr})
  <2>1. /\ v \in Nat /\ v <= g.base_lr
        /\ g.warmup_init_lr <= v \/ g.final_lr <= v
    BY <1>0, ScheduleBounds
  <2>2. rate \in Nat /\ rate <= v /\ (~ColdStart => rate = v)
    BY RateFacts
  <2>3. m \in Nat /\ m <= g.warmup_init_lr /\ m <= g.final_lr
    BY <1>1, MinOfTwo
  <2> HIDE DEF v, m
  <2>4. rate <= g.base_lr /\ (~ColdStart => rate >= m)
    BY <1>1, <2>1, <2>2, <2>3
  <2> QED BY <1>0, <2>4 DEF LearningRateTypeOK, m
<1>3. NoJumps
  <2> SUFFICES ASSUME NEW s \in 1 .. MaxSchedule - 1
               PROVE  LET a == ScheduledLR(schedule, s)
                          b == ScheduledLR(schedule, s + 1)
                          share == IF schedule.span = 1 THEN 1 ELSE 2
                          jump == IF a < b THEN b - a ELSE a - b
                      IN  IF s < schedule.warmup_steps
                          THEN jump * schedule.warmup_steps <= schedule.base_lr - schedule.warmup_init_lr
                          ELSE share * jump <= schedule.base_lr - schedule.final_lr
    BY DEF NoJumps
  <2> DEFINE a == ScheduledLR(g, s)
             b == ScheduledLR(g, s + 1)
             jump == IF a < b THEN b - a ELSE a - b
  <2>0. s \in Nat /\ s + 1 \in Nat
    BY <1>0
  <2>1. a \in Nat /\ b \in Nat
    BY <1>0, <2>0, ScheduleBounds
  <2>2. CASE s < g.warmup_steps
    <3>1. a <= b /\ (b - a) * g.warmup_steps = g.base_lr - g.warmup_init_lr
      BY <1>0, <2>0, <2>2, ScheduleRises DEF RisesAt
    <3>2. jump = b - a
      <4> HIDE DEF a, b
      <4> QED BY <2>1, <3>1
    <3>3. g.base_lr - g.warmup_init_lr <= g.base_lr - g.warmup_init_lr
      BY <1>1
    <3> QED BY <2>2, <3>1, <3>2, <3>3
  <2>3. CASE ~(s < g.warmup_steps)
    <3>0. g.warmup_steps <= s
      BY <1>1, <2>0, <2>3
    <3>1. /\ ShareOf(g) * (a - b) <= g.base_lr - g.final_lr
          /\ ShareOf(g) * (b - a) <= g.base_lr - g.final_lr
      BY <1>0, <2>0, <3>0, ScheduleFalls DEF FallsAt
    <3>2. ShareOf(g) * jump <= g.base_lr - g.final_lr
      <4> HIDE DEF a, b
      <4> QED BY <3>1
    <3> QED BY <2>3, <3>2 DEF ShareOf
  <2> QED BY <2>2, <2>3
<1>4. DecaysToFinal
  <2>1. TotalSteps(g) \in Nat /\ g.warmup_steps <= TotalSteps(g)
    <3>1. CASE g.kind = "Constant"
      <4>1. TotalSteps(g) = MaxSchedule
        BY <3>1 DEF TotalSteps
      <4>2. g.warmup_steps \in {0, MaxWarmup}
        BY <1>0 DEF Schedules
      <4> QED BY <1>0, <4>1, <4>2
    <3>2. CASE g.kind \in {"Linear", "Cosine"}
      <4>1. TotalSteps(g) = g.warmup_steps + g.span
        BY <3>2 DEF TotalSteps
      <4> QED BY <1>1, <4>1
    <3>3. CASE g.kind = "WarmupStableDecay"
      <4>1. TotalSteps(g) = g.warmup_steps + g.stable_steps + 2 * g.span
        BY <3>3 DEF TotalSteps
      <4> QED BY <1>1, <4>1
    <3> QED BY <1>1, <3>1, <3>2, <3>3
  <2>2. ASSUME NEW s \in g.warmup_steps .. TotalSteps(g) - 1
        PROVE  ScheduledLR(g, s + 1) <= ScheduledLR(g, s)
    <3>1. s \in Nat /\ g.warmup_steps <= s /\ s < TotalSteps(g)
      BY <1>1, <2>1
    <3>2. FallsAt(g, s)
      BY <1>0, <3>1, ScheduleFalls
    <3> QED BY <3>1, <3>2 DEF FallsAt
  <2>3. ScheduledLR(g, TotalSteps(g)) = g.final_lr
    <3>1. FallsAt(g, TotalSteps(g))
      BY <1>0, <2>1, ScheduleFalls
    <3> QED BY <3>1 DEF FallsAt
  <2> QED BY <2>2, <2>3 DEF DecaysToFinal
<1>5. ColdStartEnds
  BY RateFacts DEF ColdStartEnds
<1> QED BY <1>2, <1>3, <1>4, <1>5 DEF LearningRateInv

\* The learning rates are right: the warmup of a schedule joins what follows it, no
\* step is longer than a part of the way, after the warmup the rate only falls and
\* ends at the final rate of the schedule, and a cold start begins at nothing and
\* leads back to the schedule (LearningRateScheduler and Trainer::get_lr).
THEOREM LearningRateCorrect == LearningRateSpec => []LearningRateInv
<1>1. LearningRateInit => LearningRateIInv
  BY RateInit
<1>2. LearningRateIInv /\ [LearningRateNext]_lrVars => LearningRateIInv'
  BY RateStep
<1>3. LearningRateIInv => LearningRateInv
  BY RateSound
<1> QED BY <1>1, <1>2, <1>3, PTL DEF LearningRateSpec
=============================================================================
