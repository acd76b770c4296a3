---------------------------- MODULE GenerateUntil ---------------------------
(***************************************************************************)
(* run_generate_until (shared/eval/src/harness.rs): the evaluations that   *)
(* let the model write an answer, token by token.  The trainers of a       *)
(* client share the documents of a task by strides and are called away     *)
(* between any two tokens; what was written of a document is kept in a     *)
(* cache, and whoever comes to that document next goes on from there.      *)
(*                                                                         *)
(* The tokens of a request are numbered up to 0 and those that the model   *)
(* writes from 1, so that a text tells what is missing in it.  The answer  *)
(* and its score are left out.  ModelTasks has the scheduling around this. *)
(***************************************************************************)
EXTENDS Integers, Sequences, SequencesExt, FiniteSets, Functions

CONSTANTS
    Writers,       \* the trainers
    NumRequests,   \* documents of the task
    RequestLength, \* tokens of a request
    MaxContext,    \* max_context_length of the model
    MaxTokens,     \* GENERATE_UNTIL_MAX_TOKENS
    PassLimit,     \* options.limit
    LastPosition,  \* bound on the positions in the endless repetition of the documents
    MaxAbsences    \* bound on how often the trainers are called away

ASSUME GenerateAssumption ==
    /\ IsFiniteSet(Writers) /\ Writers # {}
    /\ {NumRequests, RequestLength, MaxContext, MaxTokens, PassLimit} \subseteq Nat \ {0}
    /\ {LastPosition, MaxAbsences} \subseteq Nat

VARIABLES
    absences, \* how often the trainers were called away
    called,   \* the cancellation token of this run of the tasks
    starts,   \* next_indices
    writer,   \* the call of run_generate_until of each trainer
    cache,    \* document -> the tokens written of it so far
    scored    \* ghost: the positions whose result was pushed

generateVars == <<absences, called, starts, writer, cache, scored>>

StepBy == Cardinality(Writers)
Request == [i \in 1 .. RequestLength |-> i - RequestLength]

\* The last tokens of a text, as many as the model can take.
Window(text) ==
    IF Len(text) > MaxContext
    THEN SubSeq(text, Len(text) - MaxContext + 1, Len(text)) ELSE text

Away == [at |-> "away", first |-> 0, iterations |-> 0, processed |-> 0,
         generated |-> <<>>, sequence |-> <<>>]

\* Nothing longer than GENERATE_UNTIL_MAX_TOKENS is written, or kept.
GenerateTypeOK ==
    /\ absences \in 0 .. MaxAbsences /\ called \in BOOLEAN
    /\ starts \in Seq(Nat)
    /\ \A w \in Writers :
          /\ writer[w].at \in {"away", "documents", "tokens"}
          /\ Len(writer[w].generated) <= MaxTokens
    /\ DOMAIN cache \subseteq 0 .. NumRequests - 1
    /\ \A d \in DOMAIN cache : Len(cache[d]) < MaxTokens
    /\ scored \in Seq(Nat)

GenerateInit ==
    /\ absences = 0
    /\ called = FALSE
    /\ starts = [i \in 1 .. StepBy |-> i - 1]
    /\ writer = [w \in Writers |-> Away]
    /\ cache = << >>
    /\ scored = <<>>

-----------------------------------------------------------------------------

\* A trainer pops the index of a stride and runs the task from there.
BeginCall(w) ==
    /\ writer[w].at = "away" /\ ~called /\ starts # <<>>
    /\ writer' = [writer EXCEPT ![w] = [Away EXCEPT !.at = "documents", !.first = Last(starts)]]
    /\ starts' = Front(starts)
    /\ UNCHANGED <<absences, called, cache, scored>>

\* first less what whole passes through the documents are in it is `skip`.
FastForward(c) == (c.first \div NumRequests) * NumRequests
Skip(c) == c.first - FastForward(c)

\* doc_index of the loop: past the last document when the pass is over.
DocIndex(c) == Skip(c) + c.iterations * StepBy

\* The conditions that leave the loop over the documents.
LoopEnds(c) ==
    \/ called
    \/ DocIndex(c) >= NumRequests
    \/ c.iterations >= PassLimit

\* Mutant of Resumed: the tokens of the cache are not part of the model's input.
ResumedUnread(d) ==
    LET generated == IF d \in DOMAIN cache THEN cache[d] ELSE <<>>
    IN  [generated |-> generated, sequence |-> Request]

\* generated_tokens and full_sequence when a document is begun or taken up again.
Resumed(d) ==
    LET generated == IF d \in DOMAIN cache THEN cache[d] ELSE <<>>
    IN  [generated |-> generated, sequence |-> Request \o generated]

BeginDocument(w) ==
    LET c == writer[w]
    IN  /\ c.at = "documents" /\ ~LoopEnds(c)
        /\ FastForward(c) + DocIndex(c) <= LastPosition
        /\ writer' = [writer EXCEPT ![w] =
              [c EXCEPT !.at = "tokens", !.generated = Resumed(DocIndex(c)).generated,
                        !.sequence = Resumed(DocIndex(c)).sequence]]
        /\ UNCHANGED <<absences, called, starts, cache, scored>>

\* tokens_generated_count starts with the number of tokens in the cache.
AtLimit(c) == Len(c.generated) >= MaxTokens

\* One forward pass, on the window of the text, and the token it gives.
WithToken(c) ==
    LET token == Len(c.generated) + 1
    IN  [c EXCEPT !.generated = Append(@, token), !.sequence = Append(Window(@), token)]

\* The text is complete, and the cache forgets it.
Uncached(d) == Restrict(cache, DOMAIN cache \ {d})

\* A token: the end of the text, a stop string, the last token allowed, or none of
\* these.  At the end the result is pushed.
WriteToken(w) ==
    LET c == WithToken(writer[w])
    IN  /\ writer[w].at = "tokens" /\ ~called
        /\ \/ /\ ~AtLimit(c)
              /\ writer' = [writer EXCEPT ![w] = c]
              /\ UNCHANGED <<cache, scored>>
           \/ /\ writer' = [writer EXCEPT ![w] =
                    [c EXCEPT !.at = "documents", !.generated = <<>>, !.sequence = <<>>,
                              !.iterations = @ + 1, !.processed = @ + 1]]
              /\ cache' = Uncached(DocIndex(c))
              /\ scored' = Append(scored, FastForward(c) + DocIndex(c))
        /\ UNCHANGED <<absences, called, starts>>

\* The cancellation is seen between two tokens: the text goes to the cache.
SaveTokens(w) ==
    LET c == writer[w]
    IN  /\ c.at = "tokens" /\ called
        /\ cache' = [d \in DOMAIN cache \cup {DocIndex(c)} |->
                        IF d = DocIndex(c) THEN c.generated ELSE cache[d]]
        /\ writer' = [writer EXCEPT ![w] =
              [c EXCEPT !.at = "documents", !.generated = <<>>, !.sequence = <<>>,
                        !.iterations = @ + 1]]
        /\ UNCHANGED <<absences, called, starts, scored>>

\* next_index of the result
NextPosition(c) == FastForward(c) + Skip(c) + c.processed * StepBy

EndCall(w) ==
    LET c == writer[w]
    IN  /\ c.at = "documents" /\ LoopEnds(c)
        /\ starts' = <<NextPosition(c)>> \o starts
        /\ writer' = [writer EXCEPT ![w] = Away]
        /\ UNCHANGED <<absences, called, cache, scored>>

\* The trainers are called away to train, and come back.
CallAway ==
    /\ ~called /\ absences < MaxAbsences
    /\ called' = TRUE /\ absences' = absences + 1
    /\ UNCHANGED <<starts, writer, cache, scored>>

ComeBack ==
    /\ called /\ \A w \in Writers : writer[w].at = "away"
    /\ called' = FALSE
    /\ UNCHANGED <<absences, starts, writer, cache, scored>>

WriterNext(w) ==
    BeginCall(w) \/ BeginDocument(w) \/ WriteToken(w) \/ SaveTokens(w) \/ EndCall(w)

GenerateNext == (\E w \in Writers : WriterNext(w)) \/ CallAway \/ ComeBack

GenerateSpec == GenerateInit /\ [][GenerateNext]_generateVars

-----------------------------------------------------------------------------
(* What the interruptions must not change. *)

\* What the model reads next is the end of the request and of all that was written,
\* as if nobody had been called away.
ReadsWholeText ==
    \A w \in Writers :
       writer[w].at = "tokens" =>
          /\ writer[w].generated = [i \in 1 .. Len(writer[w].generated) |-> i]
          /\ Window(writer[w].sequence) = Window(Request \o writer[w].generated)

\* Every document is scored once in a pass, and a stride leaves none out: the one
\* that was interrupted comes first.
ScoredOnce ==
    /\ IsInjective(scored)
    /\ \A p \in Range(scored) : p >= StepBy => p - StepBy \in Range(scored)

\* What is kept of a document is of one that a stride still stands at: texts that
\* are finished are forgotten.
KeptForSomebody ==
    \A d \in DOMAIN cache :
       \/ \E i \in DOMAIN starts : starts[i] % NumRequests = d
       \/ \E w \in Writers :
             /\ writer[w].at # "away"
             /\ \/ DocIndex(writer[w]) = d
                \/ NextPosition(writer[w]) % NumRequests = d

\* Writers that are called away at any moment and go on with the text of another one
\* read the whole text, score each document once, and keep nothing that is finished.
GenerateInv ==
    /\ GenerateTypeOK
    /\ ReadsWholeText
    /\ ScoredOnce
    /\ KeptForSomebody
=============================================================================
