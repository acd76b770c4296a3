------------------------------- MODULE Distro -------------------------------
(***************************************************************************)
(* The DisTrO optimizer (shared/modeling/src/distro.rs) of the clients of  *)
(* one epoch, driven as the trainer drives it (trainer.rs) in the rounds   *)
(* of the client (client/src/state/train.rs).  A client keeps what it has  *)
(* not sent yet of its gradients in delta, sends the largest coefficients  *)
(* of it, and applies the results of everybody, its own too, two rounds    *)
(* later.  While it trains, its weights are ahead of the agreed ones by    *)
(* the sign of its delta: the lookahead is put in before the forward pass  *)
(* and taken out when the results are generated.                           *)
(*                                                                         *)
(* Abstractions.  One tensor of two elements, one chunk of a cosine        *)
(* transform of two: the sum and the difference of the elements, up to a   *)
(* factor.  delta is kept as its coefficients, which the transform does    *)
(* not change; only signs are read from the elements.  Gradients are       *)
(* integers, large enough for the means to be exact.  weight_decay is 0    *)
(* and compression_decay is 1, for which the code skips both.  One trainer *)
(* for each client.  What the clients of a round sent is what all agree    *)
(* on: the coordinator and the client's steps are modules of their own.    *)
(*                                                                         *)
(* The first part is the layout of the transform (TransformDCT and         *)
(* CompressDCT) for larger tensors: how long the chunks of a tensor are,   *)
(* where an element is in the chunks and comes back from, and how the      *)
(* indices of the coefficients are packed.  Every client computes it for   *)
(* itself, and a result makes sense only where all come out the same.      *)
(* Elements are their places there, and the cosines are left out: they mix *)
(* the elements of one chunk, and no others.                               *)
(***************************************************************************)
EXTENDS Integers, Sequences, SequencesExt, FiniteSets, FiniteSetsExt, Functions

(* The layout of the transform. *)

CONSTANTS
    MaxSize,    \* bound: sizes of a dimension
    MaxTarget,  \* bound: compression_chunk
    PlaneSizes, \* the sizes of the tensors of two dimensions
    IndexCounts \* values of totalk, at the limits of the widths

ASSUME TransformAssumption ==
    /\ MaxSize \in Nat \ {0} /\ MaxTarget \in Nat
    /\ PlaneSizes \subseteq 1 .. MaxSize
    /\ IndexCounts \subseteq Nat \ {0}

VARIABLES
    size, target, \* of a dimension, and the compression_chunk
    rest, trial,  \* get_prime_divisors: n and i
    primes,       \* the prime divisors so far, smallest first
    split,        \* get_smaller_split, 0 before
    search         \* "small", "trials", "split" or "layout"

transformVars == <<size, target, rest, trial, primes, split, search>>

\* How often k divides n: no size has more than seven prime divisors.
Exponent(n, k) == Max({e \in 0 .. 7 : n % (k^e) = 0})

\* "while n % k == 0 { divisors.push(k); n /= k; }"
Divided(n, k) == n \div (k^Exponent(n, k))
Copies(n, k) == [i \in 1 .. Exponent(n, k) |-> k]

TransformInit ==
    /\ size \in 1 .. MaxSize /\ target \in 0 .. MaxTarget
    /\ rest = size /\ trial = 5
    /\ primes = <<>> /\ split = 0
    /\ search = "small"

DivideSmall ==
    /\ search = "small"
    /\ primes' = Copies(rest, 2) \o Copies(Divided(rest, 2), 3)
    /\ rest' = Divided(Divided(rest, 2), 3)
    /\ search' = "trials"
    /\ UNCHANGED <<size, target, trial, split>>

\* while i * i <= n
TrialsEnd == trial * trial > rest

DivideTrial ==
    /\ search = "trials" /\ ~TrialsEnd
    /\ primes' = primes \o Copies(rest, trial) \o Copies(Divided(rest, trial), trial + 2)
    /\ rest' = Divided(Divided(rest, trial), trial + 2)
    /\ trial' = trial + 6
    /\ UNCHANGED <<size, target, split, search>>

DivideRest ==
    /\ search = "trials" /\ TrialsEnd
    /\ primes' = IF rest > 1 THEN Append(primes, rest) ELSE primes
    /\ rest' = 1
    /\ search' = "split"
    /\ UNCHANGED <<size, target, trial, split>>

\* One turn of the loop of get_divisors over the prime factors.
MoreDivisors(acc, prime) ==
    LET len == IF acc.prime # prime THEN Len(acc.divisors) ELSE acc.len
        factor == IF acc.prime # prime THEN prime ELSE acc.factor * prime
    IN  [divisors |-> acc.divisors \o [i \in 1 .. len |-> acc.divisors[i] * factor],
         prime |-> prime, factor |-> factor, len |-> len]

\* get_divisors, sorted; a zero, which no dimension of a weight is, has none.
Divisors ==
    SortSeq(FoldLeft(LAMBDA acc, p : MoreDivisors(acc, p),
                     [divisors |-> <<1>>, prime |-> 0, factor |-> 0, len |-> 0], primes).divisors,
            LAMBDA a, b : a < b)

\* The first divisor that is the target, or the one before the first larger one.
SmallerSplit(divisors) ==
    LET stops == {i \in DOMAIN divisors : divisors[i] >= target}
        i == Min(stops)
    IN  CASE stops = {} -> size
          [] stops # {} /\ (divisors[i] = target \/ i = 1) -> divisors[i]
          [] OTHER -> divisors[i - 1]

GetSmallerSplit ==
    /\ search = "split"
    /\ split' = SmallerSplit(Divisors)
    /\ search' = "layout"
    /\ UNCHANGED <<size, target, rest, trial, primes>>

TransformNext == DivideSmall \/ DivideTrial \/ DivideRest \/ GetSmallerSplit

TransformSpec == TransformInit /\ [][TransformNext]_transformVars

-----------------------------------------------------------------------------
(* Where the element at a row and a column of a tensor with cols columns goes,  *)
(* in chunks of h rows and w columns.                                           *)

\* encode: "... (y h) (x w) -> ... y h x w", and y x h w after the einsum;
\* compress: "... y x h w -> ... y x (h w)".
Encoded(e, h, w) == [y |-> e.row \div h, x |-> e.col \div w,
                     k |-> (e.row % h) * w + (e.col % w)]

\* decompress and decode: y x (h w) to y x h w, to y h x w and to (y h) (x w).
Decoded(p, h, w) ==
    [row |-> p.y * h + (p.k \div w), col |-> p.x * w + (p.k % w)]

\* The bytes of an index: Uint8, UInt16 or UInt32, and Int64 above 2^32.
IndexBytes(totalk) ==
    CASE totalk <= 256 -> 1
      [] totalk > 256 /\ totalk <= 65536 -> 2
      [] totalk > 65536 /\ (totalk - 1) \div 65536 < 65536 -> 4
      [] OTHER -> 8

CompressIdx(totalk, idx) ==
    [b \in 1 .. IndexBytes(totalk) |-> (idx \div 256^(b - 1)) % 256]

DecompressIdx(totalk, bytes) ==
    SumFunction([b \in 1 .. IndexBytes(totalk) |-> bytes[b] * 256^(b - 1)])

-----------------------------------------------------------------------------
(* Properties. *)

\* The variables keep their types, and the prime divisors found and what is left
\* multiply to the size.
TransformTypeOK ==
    /\ search \in {"small", "trials", "split", "layout"}
    /\ split \in 0 .. size
    /\ FoldLeft(LAMBDA a, b : a * b, rest, primes) = size

\* The divisors that the search is over are prime once it ends, and smallest first.
PrimesFound ==
    search \in {"split", "layout"} =>
      \A i \in DOMAIN primes :
        /\ primes[i] > 1 /\ \A d \in 2 .. primes[i] - 1 : primes[i] % d # 0
        /\ i > 1 => primes[i - 1] <= primes[i]

\* The chunk is the largest divisor of the size that is not above the target, or
\* one element, for every size and target: no element is left over.
ChunkFits ==
    search = "layout" =>
      split = Max({1} \cup {d \in 1 .. size : size % d = 0 /\ d <= target})

\* Encoding gives every element of a tensor a place of its own, inside its chunk,
\* and decoding brings it back, whatever the two chunks are.
PlacesRestored ==
    search = "layout" /\ size \in PlaneSizes =>
      \A cols \in PlaneSizes : \A w \in {d \in 1 .. cols : cols % d = 0} :
        \A row \in 0 .. size - 1, col \in 0 .. cols - 1 :
          LET e == [row |-> row, col |-> col]
          IN  /\ Encoded(e, split, w).k < split * w
              /\ Decoded(Encoded(e, split, w), split, w) = e

\* An index survives its packing, at the limits of the widths too.
IndicesSurvive ==
    search = "layout" =>
    \A totalk \in IndexCounts : \A idx \in {0, totalk \div 2, totalk - 1} :
      DecompressIdx(totalk, CompressIdx(totalk, idx)) = idx

\* The layout that each client computes for itself is the same on all, loses no element,
\* and survives the packing of its indices.
TransformInv ==
    /\ TransformTypeOK
    /\ PrimesFound
    /\ ChunkFits
    /\ PlacesRestored
    /\ IndicesSurvive

-----------------------------------------------------------------------------
(* The optimizer. *)

CONSTANTS
    DistroClients,
    TrainingRounds,   \* rounds of the epoch with training
    BatchesOf,        \* bound: client -> its batches in a round
    CompressionTopk,  \* coefficients of a result
    DistroGradients,  \* gradients, as coefficients: multiples of four
    DistroResidues,   \* deltas at the start of the epoch
    LearningRates,    \* step -> lr, of every step and two more
    QuantizeOneBit    \* quantize_1bit

Coefficients == 1 .. 2
ZeroTensor == [i \in Coefficients |-> 0]

ASSUME DistroAssumption ==
    /\ IsFiniteSet(DistroClients)
    /\ {TrainingRounds, CompressionTopk} \subseteq Nat \ {0}
    /\ BatchesOf \in [DistroClients -> Nat]
    /\ DistroGradients \cup DistroResidues \subseteq [Coefficients -> Int]
    /\ LearningRates \in [0 .. TrainingRounds + 1 -> Nat]
    /\ QuantizeOneBit \in BOOLEAN

VARIABLES
    round,      \* of the epoch, from 0
    coldStart,  \* a cold start: the optimizer is zeroed in round 0
    parameters, \* client -> its copy of the model
    delta,      \* client -> coefficients that are not sent yet
    results,    \* round -> client -> its unquantized results, one for each batch
    skipped,    \* the results that nobody applies
    busy,       \* client -> "applying", "ready", "training" or "done"
    left,       \* client -> lookaheads that were never taken out (history)
    given,      \* client -> coefficients of the rounds before (history)
    gathered    \* client -> all the gradients so far, with their learning rates (history)

distroVars ==
    <<round, coldStart, skipped, parameters, delta, results, busy, left, given, gathered>>

Plus(a, b) == [i \in Coefficients |-> a[i] + b[i]]
Minus(a, b) == [i \in Coefficients |-> a[i] - b[i]]
Times(n, a) == [i \in Coefficients |-> n * a[i]]
AbsValue(n) == IF n < 0 THEN -n ELSE n
Sign(n) == CASE n < 0 -> -1 [] n = 0 -> 0 [] n > 0 -> 1
SignOf(a) == [i \in Coefficients |-> Sign(a[i])]

\* The elements of the tensor with these coefficients.
Elements(a) == <<a[1] + a[2], a[1] - a[2]>>

lr(step) == LearningRates[step]

-----------------------------------------------------------------------------
(* CompressDCT. *)

ClampTopk(topk, totalk) ==
    CASE topk > totalk -> totalk [] topk < 1 -> 1 [] OTHER -> topk

\* The topk coefficients of the largest magnitude; of equals, the library chooses.
Compress(a) ==
    {[i \in idx |-> a[i]] :
       idx \in {s \in kSubset(ClampTopk(CompressionTopk, 2), Coefficients) :
                  \A i \in s, j \in Coefficients \ s : AbsValue(a[i]) >= AbsValue(a[j])}}

\* The values that a sequence of results has for coefficient i.
ValuesAt(rs, i) == SelectSeq([k \in DOMAIN rs |-> IF i \in DOMAIN rs[k] THEN <<rs[k][i]>> ELSE <<>>],
                             LAMBDA v : v # <<>>)

\* scatter_reduce by the mean of the values at each index, scaled.
Decompress(rs, scale) ==
    [i \in Coefficients |->
       LET vs == FlattenSeq(ValuesAt(rs, i))
       IN  IF vs = <<>> THEN 0 ELSE (scale * SumFunction(vs)) \div Len(vs)]

\* The sign bit and back: a zero becomes a plus one.
Quantize(r) == [i \in DOMAIN r |-> IF r[i] < 0 THEN -1 ELSE 1]

\* What the others get of a result.
Transmitted(r) == IF QuantizeOneBit THEN Quantize(r) ELSE r

-----------------------------------------------------------------------------
(* The rounds. *)

\* The results of an epoch: the round, the client and its batch.
ResultIds ==
    {id \in (0 .. TrainingRounds - 1) \X DistroClients \X (1 .. Max(Range(BatchesOf))) :
       id[3] <= BatchesOf[id[2]]}

DistroInit ==
    /\ round = 0
    /\ coldStart \in BOOLEAN
    \* Those of a trainer that is warming up, by the nonce in the result, and those that
    \* cannot be deserialized: a matter of the result, and so the same for every client.
    /\ skipped \in SUBSET ResultIds
    /\ parameters = [c \in DistroClients |-> ZeroTensor]
    \* None in a new trainer, the delta of then in one of the epoch before.
    /\ delta \in [DistroClients -> DistroResidues]
    /\ results = [r \in 0 .. TrainingRounds + 1 |-> [c \in DistroClients |-> <<>>]]
    /\ busy = [c \in DistroClients |-> "applying"]
    /\ left = [c \in DistroClients |-> ZeroTensor]
    /\ given = [c \in DistroClients |-> ZeroTensor]
    /\ gathered = delta

\* The results of client c in round r, but for the ones that are skipped.
UsableResults(r, c) ==
    SelectSeq([b \in DOMAIN results[r][c] |->
                 IF <<r, c, b>> \in skipped THEN <<>> ELSE <<Transmitted(results[r][c][b])>>],
              LAMBDA one : one # <<>>)

\* What everybody sent in a round, the clients in any fixed order.
AllResults(r) ==
    LET order == SetToSeq(DistroClients)
    IN  FlattenSeq(FlattenSeq([k \in DOMAIN order |-> UsableResults(r, order[k])]))

\* The results that client c applies.
ResultsToApply(c) == AllResults(round - 2)

\* optimize_step: sign SGD on the decoded mean, and none at all when nobody sent
\* results; "the first TWO training step of each epoch has no apply phase".
Apply(c) ==
    /\ busy[c] = "applying"
    /\ parameters' = IF round < 2 \/ ResultsToApply(c) = <<>> THEN parameters
                  ELSE [parameters EXCEPT ![c] = Minus(@, Times(lr(round),
                          SignOf(Elements(Decompress(ResultsToApply(c), 12)))))]
    /\ busy' = [busy EXCEPT ![c] = "ready"]
    /\ UNCHANGED <<round, coldStart, skipped, delta, results, left, given, gathered>>

prev_lr(step) == lr(IF step = 0 THEN 0 ELSE step - 1)

\* zero_optim, of the first round after a cold start.
Zeroed(c) == IF coldStart /\ round = 0 THEN ZeroTensor ELSE delta[c]

Lookahead(d) == Times(prev_lr(round), SignOf(Elements(d)))

\* A batch begins: the optimizer may be zeroed, and the lookahead is put in.
TrainBegins(c) ==
    /\ busy[c] = "ready" /\ round < TrainingRounds
    /\ Len(results[round][c]) < BatchesOf[c]
    /\ delta' = [delta EXCEPT ![c] = Zeroed(c)]
    /\ parameters' = [parameters EXCEPT ![c] = Minus(@, Lookahead(Zeroed(c)))]
    /\ gathered' = [gathered EXCEPT ![c] = Plus(@, Minus(Zeroed(c), delta[c]))]
    /\ busy' = [busy EXCEPT ![c] = "training"]
    /\ UNCHANGED <<round, coldStart, skipped, results, left, given>>

PrevSelfResults(c) == IF round = 0 THEN <<>> ELSE results[round - 1][c]

\* Mutant of DeltaAfter: what was sent is not removed.
DeltaAfterKeepsSent(c, g) == Plus(delta[c], Times(lr(round), g))

\* The results of the round before are removed, and the gradient is added.
DeltaAfter(c, g) ==
    Plus(Minus(delta[c], Decompress(PrevSelfResults(c), 1)), Times(lr(round), g))

\* What generate takes out again.
LookaheadOut(c) == Lookahead(delta[c])

\* generate, for a batch that was trained to its end.
Generate(c) ==
    /\ busy[c] = "training"
    /\ \E g \in DistroGradients :
         /\ delta' = [delta EXCEPT ![c] = DeltaAfter(c, g)]
         /\ gathered' = [gathered EXCEPT ![c] = Plus(@, Times(lr(round), g))]
         /\ \E r \in Compress(DeltaAfter(c, g)) :
              results' = [results EXCEPT ![round][c] = Append(@, r)]
    /\ parameters' = [parameters EXCEPT ![c] = Plus(@, LookaheadOut(c))]
    /\ busy' = [busy EXCEPT ![c] = "ready"]
    /\ UNCHANGED <<round, coldStart, skipped, left, given>>

\* The round ends before the batch: it is thrown away, and so is the step that
\* would take the lookahead out.
Cancelled(c) ==
    /\ busy[c] = "training"
    /\ left' = [left EXCEPT ![c] = Plus(@, Lookahead(delta[c]))]
    /\ busy' = [busy EXCEPT ![c] = "done"]
    /\ UNCHANGED <<round, coldStart, skipped, parameters, delta, results, given, gathered>>

\* All its batches are trained, or it has none.
BatchesDone(c) ==
    /\ busy[c] = "ready"
    /\ busy' = [busy EXCEPT ![c] = "done"]
    /\ UNCHANGED <<round, coldStart, skipped, parameters, delta, results, left, given, gathered>>

NextRound ==
    /\ \A c \in DistroClients : busy[c] = "done"
    /\ round < TrainingRounds + 1
    /\ round' = round + 1
    /\ busy' = [c \in DistroClients |-> "applying"]
    /\ given' = [c \in DistroClients |->
                   IF round = 0 THEN given[c]
                   ELSE Plus(given[c], Decompress(results[round - 1][c], 1))]
    /\ UNCHANGED <<coldStart, skipped, parameters, delta, results, left, gathered>>

DistroNext ==
    \/ \E c \in DistroClients :
         Apply(c) \/ TrainBegins(c) \/ Generate(c) \/ Cancelled(c) \/ BatchesDone(c)
    \/ NextRound

DistroSpec == DistroInit /\ [][DistroNext]_distroVars

-----------------------------------------------------------------------------
(* Properties. *)

\* The variables keep their types, and every result has as many coefficients as
\* it should.
DistroTypeOK ==
    /\ round \in 0 .. TrainingRounds + 1
    /\ skipped \subseteq ResultIds
    /\ \A f \in {parameters, delta, left, given, gathered} :
         f \in [DistroClients -> [Coefficients -> Int]]
    /\ busy \in [DistroClients -> {"applying", "ready", "training", "done"}]
    /\ \A r \in DOMAIN results, c \in DistroClients :
         /\ Len(results[r][c]) <= BatchesOf[c]
         /\ \A b \in DOMAIN results[r][c] :
              Cardinality(DOMAIN results[r][c][b]) = ClampTopk(CompressionTopk, 2)

\* The copies of the model are the same on all clients that have applied, however
\* different their gradients, their batches and their order, but for the lookaheads of
\* cancelled trainings: generate takes out the lookahead of its own batch only, so that
\* the one of a cancelled batch stays in the copy for good.
SameButForLookaheads ==
    \A c, d \in DistroClients :
      busy[c] \in {"ready", "done"} /\ busy[d] \in {"ready", "done"} =>
        Plus(parameters[c], left[c]) = Plus(parameters[d], left[d])

\* A client that has trained one batch in each round so far.
Regular(c) ==
    /\ \A r \in 0 .. round - 1 : r < TrainingRounds => Len(results[r][c]) = 1
    /\ round < TrainingRounds => busy[c] \in {"ready", "done"} /\ Len(results[round][c]) = 1

\* Of a client that trains one batch in every round no gradient is lost and none is sent
\* twice: what it has not sent and what it has sent are all its gradients.  A client whose
\* training is cancelled in a round does not take out of delta what it sent in the round
\* before, and sends it again.
NothingLost ==
    \A c \in DistroClients : Regular(c) /\ round < TrainingRounds =>
      gathered[c] = Plus(delta[c], Plus(given[c], Decompress(PrevSelfResults(c), 1)))

\* The largest magnitude that is left is not larger than one that was just sent.
LargestFirst ==
    \A c \in DistroClients :
      busy[c] = "ready" /\ round < TrainingRounds /\ results[round][c] # <<>> =>
        \A i \in DOMAIN Last(results[round][c]), j \in Coefficients \ DOMAIN Last(results[round][c]) :
          AbsValue(Last(results[round][c])[i]) >= AbsValue(delta[c][j])

\* The clients keep one model, up to the lookaheads of cancelled trainings, and clients
\* that train in every round lose no gradient and send none twice; the transform that
\* carries the results restores every element.
DistroInv ==
    /\ TransformInv
    /\ DistroTypeOK
    /\ SameButForLookaheads
    /\ NothingLost
    /\ LargestFirst

\* "This keeps everyone's copy of model identical within an epoch" (model-sharing.md):
\* clients that have applied the same results have the same model.
SameModel ==
    \A c, d \in DistroClients :
      busy[c] \in {"ready", "done"} /\ busy[d] \in {"ready", "done"} =>
        parameters[c] = parameters[d]
=============================================================================
