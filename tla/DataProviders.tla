--------------------------- MODULE DataProviders ----------------------------
(***************************************************************************)
(* The providers of training data (shared/data-provider/src): how each one *)
(* makes its list of samples, once, and answers for a range of samples.    *)
(*   Local        sequences cut out of the files of a directory            *)
(*   Http         the same, read by ranges of bytes from a web server      *)
(*   Preprocessed the rows of the files, taken round and round             *)
(*   Weighted     samples drawn from several providers by weight           *)
(* A client that gets other samples than the batch names trains on what    *)
(* nobody can verify.                                                      *)
(*                                                                         *)
(* Abstractions.  A token is where it is: its file and its first byte.  A  *)
(* row is its number, and a sample of a weighted provider is the provider  *)
(* and the number there.  A shuffle is any order.  Weights are integers:   *)
(* the code divides them by their sum.                                     *)
(***************************************************************************)
EXTENDS Integers, Sequences, SequencesExt, FiniteSets, FiniteSetsExt, Functions

CONSTANTS
    TokenSize, SeqLen, \* bytes of a token, tokens of a sequence
    NumFiles, MaxFile, \* bounds: files, bytes of a file
    MaxRows,           \* bound: rows of a preprocessed provider
    NumProviders, MaxProvider, MaxWeight, \* bounds: weighted providers
    MaxBatch           \* bound: samples asked for at once

ASSUME ProvidersAssumption ==
    /\ TokenSize \in {2, 4} /\ SeqLen \in Nat \ {0}
    /\ {NumFiles, MaxFile, MaxRows, NumProviders, MaxProvider, MaxWeight, MaxBatch}
         \subseteq Nat \ {0}

SeqBytes == TokenSize * SeqLen

VARIABLES
    kind,      \* of the provider
    files,     \* file -> its size in bytes
    lengths,   \* provider -> num_sequences()
    weights,   \* provider -> its weight
    drawn,     \* provider -> total_samples_drawn
    sequences, \* the samples of the provider, in order
    unswapped, \* the shuffle: items after this place are in theirs
    phase,     \* "making", "shuffling", "ready" or "failed"
    wanted,    \* the first and the last of the samples asked for
    answer     \* the last answer

providerVars == <<kind, files, lengths, weights, drawn, sequences, unswapped, phase, wanted, answer>>

Kinds == {"Local", "Http", "Preprocessed", "Weighted"}
NotAsked == <<>>
Ok(samples) == [outcome |-> "ok", samples |-> samples]
Fails(outcome) == [outcome |-> outcome, samples |-> <<>>]

-----------------------------------------------------------------------------
(* The list of samples. *)

\* (0 .. size - reserve).step_by(SeqBytes), an empty list once the size underflows.
Offsets(size, reserve) ==
    [i \in 1 .. (size - reserve + SeqBytes - 1) \div SeqBytes |-> (i - 1) * SeqBytes]

\* Bytes at the end of a file at which no sequence starts: one token more over
\* HTTP, "for pretraining data".
Reserve == SeqBytes + IF kind = "Http" THEN TokenSize ELSE 0

Pointers(f) == [i \in DOMAIN Offsets(files[f], Reserve) |->
                  [file |-> f, offset |-> Offsets(files[f], Reserve)[i]]]

Rows == [i \in 1 .. lengths[1] |-> i]

TotalLength == SumFunction(lengths)
TotalWeight == SumFunction(weights)

ProvidersInit ==
    /\ kind \in Kinds
    /\ files \in IF kind \in {"Local", "Http"} THEN [1 .. NumFiles -> 1 .. MaxFile] ELSE {<<>>}
    /\ lengths \in CASE kind = "Preprocessed" -> [1 .. 1 -> 0 .. MaxRows]
                     [] kind = "Weighted" -> [1 .. NumProviders -> 0 .. MaxProvider]
                     [] OTHER -> {<<>>}
    \* ExplicitlyWeighted, or LengthWeighted.
    /\ weights \in IF kind = "Weighted" THEN [1 .. NumProviders -> 1 .. MaxWeight] \cup {lengths}
                   ELSE {<<>>}
    /\ kind = "Weighted" => TotalLength > 0 /\ TotalWeight > 0
    /\ drawn = [p \in DOMAIN lengths |-> 0]
    /\ sequences = <<>>
    /\ unswapped = 0
    /\ phase = "making"
    /\ wanted = NotAsked
    /\ answer = Fails("none")

Made(list) ==
    /\ sequences' = list
    /\ \/ phase' = "ready" /\ unswapped' = 0
       \/ phase' = "shuffling" /\ unswapped' = Len(list)

\* A file shorter than a sequence makes the size underflow, which panics.
MakeFromFiles ==
    /\ kind \in {"Local", "Http"} /\ phase = "making"
    /\ IF \E f \in DOMAIN files : files[f] < Reserve
       THEN phase' = "failed" /\ UNCHANGED <<sequences, unswapped>>
       ELSE Made(FlattenSeq([f \in 1 .. NumFiles |-> Pointers(f)]))
    /\ UNCHANGED <<kind, files, lengths, weights, drawn, wanted, answer>>

MakeFromRows ==
    /\ kind = "Preprocessed" /\ phase = "making"
    /\ Made(Rows)
    /\ UNCHANGED <<kind, files, lengths, weights, drawn, wanted, answer>>

\* weights[i] * max(n, 1) - total_samples_drawn[i], in parts of the total weight.
Error(i, n) == weights[i] * (IF n = 0 THEN 1 ELSE n) - drawn[i] * TotalWeight

\* The provider that is furthest behind its weight, the first one of several.
ChosenProvider(n) ==
    LET nonempty == {i \in DOMAIN lengths : lengths[i] > 0}
    IN  Min({i \in nonempty : \A j \in nonempty : Error(j, n) <= Error(i, n)})


\* next_unique_index until the provider is exhausted, then round and round.
SampleToYield(i) ==
    IF drawn[i] < lengths[i] THEN drawn[i] ELSE drawn[i] % lengths[i]

\* One turn of the loop of build_weighted_index.
Draw ==
    /\ kind = "Weighted" /\ phase = "making"
    /\ LET i == ChosenProvider(Len(sequences))
           list == Append(sequences, <<i, SampleToYield(i)>>)
       IN  /\ drawn' = [drawn EXCEPT ![i] = @ + 1]
           /\ IF Len(list) = TotalLength THEN Made(list)
              ELSE sequences' = list /\ UNCHANGED <<unswapped, phase>>
    /\ UNCHANGED <<kind, files, lengths, weights, wanted, answer>>

\* for i in (1..n).rev() { swap(i, random(0..=i)) }
Swap ==
    /\ phase = "shuffling"
    /\ IF unswapped > 1
       THEN /\ \E j \in 1 .. unswapped :
                 sequences' = [sequences EXCEPT ![unswapped] = sequences[j], ![j] = sequences[unswapped]]
            /\ unswapped' = unswapped - 1
            /\ UNCHANGED phase
       ELSE phase' = "ready" /\ unswapped' = 0 /\ UNCHANGED sequences
    /\ UNCHANGED <<kind, files, lengths, weights, drawn, wanted, answer>>

-----------------------------------------------------------------------------
(* get_samples, for the samples first .. last, counted from 0. *)

TokensAt(file, offset, n) == [i \in 1 .. n |-> <<file, offset + (i - 1) * TokenSize>>]

\* A sequence of its own read.
ReadSequence(p) == TokensAt(p.file, p.offset, SeqLen)

\* All in the same file, each right after the one before.
IsSequential(ps) ==
    /\ \A i \in DOMAIN ps : ps[i].file = ps[1].file
    /\ \A i \in 1 .. Len(ps) - 1 : ps[i + 1].offset - ps[i].offset = SeqBytes

\* The difference of two offsets underflows: a panic in a debug build.
Underflows(ps) ==
    /\ \A i \in DOMAIN ps : ps[i].file = ps[1].file
    /\ \E i \in 1 .. Len(ps) - 1 :
         /\ ps[i + 1].offset < ps[i].offset
         /\ \A k \in 1 .. i - 1 : ps[k + 1].offset - ps[k].offset = SeqBytes

\* One read for all of them, cut into sequences.
ReadSequential(ps) ==
    LET all == TokensAt(ps[1].file, ps[1].offset, SeqLen * Len(ps))
    IN  [i \in 1 .. Len(ps) |-> SubSeq(all, (i - 1) * SeqLen + 1, i * SeqLen)]

FileSamples(first, last) ==
    LET ps == SubSeq(sequences, first + 1, last + 1)
    IN  CASE last >= Len(sequences) -> {Fails("out of bounds")}
          [] last < Len(sequences) /\ kind = "Http" /\ IsSequential(ps) /\ Len(ps) > 1 ->
               {Ok(ReadSequential(ps))}
          [] OTHER -> {Ok([i \in DOMAIN ps |-> ReadSequence(ps[i])])}
                      \cup IF kind = "Http" /\ Underflows(ps) THEN {Fails("panicked")} ELSE {}

RowSamples(first, last) ==
    LET n == Len(sequences)
        start == first % n
        end == last % n
    IN  IF start <= end THEN SubSeq(sequences, start + 1, end + 1)
        ELSE SubSeq(sequences, start + 1, n) \o SubSeq(sequences, 1, end + 1)

\* get_sample_info: a sample that does not exist is the first of the first.
SampleInfo(id) == IF id >= Len(sequences) THEN <<1, 0>> ELSE sequences[id + 1]

\* The runs of consecutive samples among the requests <<place, sample>> to one
\* provider, which are sorted by sample.
Ranges(requests) ==
    FoldLeft(LAMBDA ranges, r :
               IF ranges # <<>> /\ r[2] = Last(Last(ranges))[2] + 1
               THEN Front(ranges) \o <<Append(Last(ranges), r)>>
               ELSE Append(ranges, <<r>>),
             <<>>, requests)

RequestsTo(p, first, last) ==
    SetToSortSeq({<<k, SampleInfo(k)[2]>> : k \in {k \in first .. last : SampleInfo(k)[1] = p}},
                 LAMBDA a, b : a[2] < b[2] \/ (a[2] = b[2] /\ a[1] < b[1]))

\* A run is one request, and its answer is put back by place.
RangeAnswer(p, range) ==
    [i \in DOMAIN range |-> <<range[i][1], <<p, range[1][2] + i - 1>>>>]

WeightedSamples(first, last) ==
    LET placed == UNION {UNION {ToSet(RangeAnswer(p, range)) :
                                  range \in ToSet(Ranges(RequestsTo(p, first, last)))} :
                         p \in DOMAIN lengths}
    IN  [i \in 1 .. last - first + 1 |->
           (CHOOSE a \in placed : a[1] = first + i - 1)[2]]

Samples(first, last) ==
    CASE kind \in {"Local", "Http"} -> FileSamples(first, last)
      [] kind = "Preprocessed" -> {IF sequences = <<>> THEN Fails("out of bounds")
                                   ELSE Ok(RowSamples(first, last))}
      [] kind = "Weighted"     -> {IF lengths[1] = 0 /\ last >= Len(sequences)
                                   THEN Fails("out of bounds")
                                   ELSE Ok(WeightedSamples(first, last))}

\* An answer changes nothing of the provider: one question per behaviour is enough.
GetSamples ==
    /\ phase = "ready" /\ wanted = NotAsked
    /\ \E first \in 0 .. Len(sequences), n \in 1 .. MaxBatch :
         /\ wanted' = <<first, first + n - 1>>
         /\ answer' \in Samples(first, first + n - 1)
    /\ UNCHANGED <<kind, files, lengths, weights, drawn, sequences, unswapped, phase>>

ProvidersNext == MakeFromFiles \/ MakeFromRows \/ Draw \/ Swap \/ GetSamples

ProvidersSpec == ProvidersInit /\ [][ProvidersNext]_providerVars

-----------------------------------------------------------------------------
(* Properties. *)

\* The variables keep their types, and every sample that a weighted provider has
\* drawn is one that its provider has.
ProvidersTypeOK ==
    /\ phase \in {"making", "shuffling", "ready", "failed"}
    /\ unswapped \in 0 .. Len(sequences)
    /\ drawn \in [DOMAIN lengths -> Nat]
    /\ kind = "Weighted" =>
         \A i \in DOMAIN sequences : sequences[i][2] \in 0 .. lengths[sequences[i][1]] - 1

\* Every sequence is inside its file, no two overlap, and the end of a file is
\* wasted by less than two sequences.  (Comments of http.rs speak of one token of
\* overlap: both of its loops go on by the whole of what a sequence reads.)
SequencesFillFiles ==
    phase = "ready" /\ kind \in {"Local", "Http"} =>
      /\ \A i \in DOMAIN sequences :
           sequences[i].offset % SeqBytes = 0
           /\ sequences[i].offset + SeqBytes <= files[sequences[i].file]
      /\ \A i, j \in DOMAIN sequences : sequences[i] = sequences[j] => i = j
      /\ \A f \in DOMAIN files :
           LET n == Cardinality({i \in DOMAIN sequences : sequences[i].file = f})
           IN  files[f] - n * SeqBytes < 2 * SeqBytes

\* The samples that a batch names; past the end, a preprocessed provider begins again,
\* and a weighted one has the first sample of its first provider.
Sample(id) ==
    CASE kind \in {"Local", "Http"} -> ReadSequence(sequences[id + 1])
      [] kind = "Preprocessed" -> sequences[(id % Len(sequences)) + 1]
      [] kind = "Weighted" -> IF id < Len(sequences) THEN sequences[id + 1] ELSE <<1, 0>>

\* An answer has the samples of the batch, all of them and in order, however the
\* list was shuffled, split into requests or wrapped around.  Past the end of its list
\* a weighted provider answers every sample as the first of its first provider; a
\* preprocessed one answers in full only batches that are not longer than its list.
AnswersAsAsked ==
    /\ answer.outcome = "ok"
    /\ kind = "Preprocessed" => wanted[2] - wanted[1] < Len(sequences)
    =>
    answer.samples = [i \in 1 .. wanted[2] - wanted[1] + 1 |-> Sample(wanted[1] + i - 1)]

\* Of two providers with samples, neither is ever a whole sample away from its share
\* of the samples drawn, however the weights are: weighted by their lengths, both are
\* exhausted together.  Of three or more, small ones may be.
WeightsRespected ==
    /\ kind = "Weighted" /\ Cardinality(DOMAIN lengths) = 2
    /\ \A p \in DOMAIN lengths : lengths[p] > 0
    =>
      \A p \in DOMAIN lengths :
        LET share == weights[p] * SumFunction(drawn) - drawn[p] * TotalWeight
        IN  share < TotalWeight /\ -share < TotalWeight

\* No sample of a provider is drawn again before all the others have been.
AllBeforeAgain ==
    \A p \in DOMAIN lengths : kind = "Weighted" =>
      \A s, t \in 0 .. lengths[p] - 1 :
        LET Times(x) == Cardinality({i \in DOMAIN sequences : sequences[i] = <<p, x>>})
        IN  Times(s) <= Times(t) + 1

=============================================================================
