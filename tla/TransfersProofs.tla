--------------------------- MODULE TransfersProofs ---------------------------
(***************************************************************************)
(* Theorems about what moves bytes between the parts of a run, for every   *)
(* number of peers, items, tasks and batches: the downloads, the sharing   *)
(* of the model, the fetching of data, the TCP server, the announcements   *)
(* of the run loop, the checkpoints, and the heads of a model that is cut  *)
(* over ranks.                                                             *)
(***************************************************************************)
EXTENDS Downloads, ModelSharing, DataFetcher, TcpServer, Gossip, Checkpoints, TensorParallel,
        DataProofs, FiniteSetTheorems

-----------------------------------------------------------------------------
(* The downloads. *)

Attempts == [blob : Blobs, at : AttemptStates]

DownloadEvents == [of : Nat, kind : {"fetched", "complete", "failed"}]

RetryInfo == [retries : Nat \ {0}, time : {"set", "none"}]

\* Downloads under way have numbers; the ones with an event are out of the manager's
\* lists, and have one event.
AttemptsOK ==
  /\ IsFiniteSet(DOMAIN attempts) /\ DOMAIN attempts \in SUBSET Nat
  /\ attempts \in [DOMAIN attempts -> Attempts]
  /\ events \in Seq(DownloadEvents)
  /\ \A m \in DOMAIN events : /\ events[m].of \in DOMAIN attempts
                              /\ attempts[events[m].of].at = "reported"
  /\ ReportedOnce

\* A retry, done or to come, was caused by a failure of its item.
RetriesOK ==
  /\ DOMAIN retried \in SUBSET Blobs
  /\ retried \in [DOMAIN retried -> RetryInfo]
  /\ \A b \in DOMAIN retried : retried[b].retries <= failures[b[1]]
  /\ \A b \in DOMAIN retried : b[1] \in Results => retried[b].retries <= MaxDownloadRetries
  /\ \A t \in ticketing : /\ t.blob \in Blobs /\ t.blob[1] \in Parameters /\ t.retries \in Nat
                          /\ t.retries + 1 <= failures[t.blob[1]]

FailedEvents == Cardinality({i \in DOMAIN events : events[i].kind = "failed"})

\* The failures that were counted, and the ones that will be.
FailuresOK ==
  /\ failures \in [Items -> Nat]
  /\ SumFunction(failures) + FailedEvents <= MaxFailures

\* The inductive invariant.
DownloadIInv ==
  /\ AttemptsOK
  /\ RetriesOK
  /\ FailuresOK
  /\ manager \in {"between", "polling"}
  /\ requests \in Seq(Blobs)
  /\ retrying \in [RetryTasks -> SUBSET Blobs]
  /\ items \in [Items -> {"unknown", "wanted", "complete", "given up"}]
  /\ loopEnded \in BOOLEAN
  /\ NotForgotten
  /\ GivenUpAfterRetries

\* A blob is an item in a version; only parameters come in several.
LEMMA BlobFacts ==
  /\ IsFiniteSet(Items)
  /\ \A b \in Blobs :
        /\ b[1] \in Items /\ b[2] \in 0 .. MaxFailures
        /\ b[1] \in Results <=> b[1] \notin Parameters
        /\ b[1] \in Parameters => \A v \in 0 .. MaxFailures : <<b[1], v>> \in Blobs
  /\ \A i \in Items : <<i, 0>> \in Blobs
<1>1. IsFiniteSet(Items)
  BY DownloadAssumption, FS_Union DEF Items
<1>2. 0 \in 0 .. MaxFailures
  BY DownloadAssumption
<1>3. \A b \in Blobs :
         /\ b[1] \in Items /\ b[2] \in 0 .. MaxFailures
         /\ b[1] \in Results <=> b[1] \notin Parameters
         /\ b[1] \in Parameters => \A v \in 0 .. MaxFailures : <<b[1], v>> \in Blobs
  BY <1>2, DownloadAssumption DEF Blobs, Items
<1>4. \A i \in Items : <<i, 0>> \in Blobs
  BY <1>2 DEF Blobs, Items
<1>5. QED
  BY <1>1, <1>3, <1>4

FailedKind == {e \in DownloadEvents : e.kind = "failed"}

\* The failures in the queue of events, counted as DataProofs counts.
LEMMA FailedAsCount ==
  ASSUME NEW e \in Seq(DownloadEvents)
  PROVE  /\ Cardinality({i \in DOMAIN e : e[i].kind = "failed"}) = Count(e, FailedKind)
         /\ Count(e, FailedKind) \in Nat
<1>1. \A i \in DOMAIN e : e[i] \in DownloadEvents
  BY Elements
<1>2. {i \in DOMAIN e : e[i].kind = "failed"} = {i \in DOMAIN e : e[i] \in FailedKind}
  BY <1>1 DEF FailedKind
<1>3. QED
  BY <1>2, CountType DEF Count

\* No item has failed more often than the bound of all failures.
LEMMA FailuresBounded ==
  ASSUME FailuresOK, events \in Seq(DownloadEvents)
  PROVE  /\ failures \in [Items -> 0 .. MaxFailures]
         /\ SumFunction(failures) \in Nat
<1>1. failures \in [Items -> Nat] /\ IsFiniteSet(Items)
  BY BlobFacts DEF FailuresOK
<1>2. SumFunction(failures) \in Nat /\ \A i \in Items : failures[i] <= SumFunction(failures)
  BY <1>1, SumBounds
<1>3. FailedEvents \in Nat
  BY FailedAsCount DEF FailedEvents
<1>4. QED
  BY <1>1, <1>2, <1>3, DownloadAssumption DEF FailuresOK

\* The inductive invariant says what the run checks.
LEMMA DownloadIInvImplies == DownloadIInv => DownloadsInv
<1> SUFFICES ASSUME DownloadIInv PROVE DownloadsInv
  OBVIOUS
<1>1. AttemptsOK /\ RetriesOK /\ FailuresOK
  BY DEF DownloadIInv
<1>2. events \in Seq([of : DOMAIN attempts, kind : {"fetched", "complete", "failed"}])
  <2> DEFINE T == [of : DOMAIN attempts, kind : {"fetched", "complete", "failed"}]
  <2>1. /\ Len(events) \in Nat /\ DOMAIN events = 1 .. Len(events)
        /\ \A i \in DOMAIN events : events[i] \in DownloadEvents
    BY <1>1, Elements DEF AttemptsOK
  <2>2. \A i \in DOMAIN events : events[i] \in T
    BY <1>1, <2>1 DEF AttemptsOK, DownloadEvents
  <2>3. events = [i \in 1 .. Len(events) |-> events[i]]
    BY <1>1 DEF AttemptsOK
  <2> HIDE DEF T
  <2>4. events \in Seq(T)
    BY <2>1, <2>2, <2>3, FunctionToSeq
  <2>5. QED
    BY <2>4 DEF T
<1>3. failures \in [Items -> 0 .. MaxFailures]
  BY <1>1, FailuresBounded DEF AttemptsOK
<1>4. ASSUME NEW b \in DOMAIN retried
      PROVE  /\ retried[b].retries \in 1 .. MaxFailures + 1
             /\ retried[b].time \in {"set", "none"}
             /\ b[1] \in Results => retried[b].retries <= MaxDownloadRetries
  <2>1. b \in Blobs /\ retried[b] \in RetryInfo /\ retried[b].retries <= failures[b[1]]
    BY <1>1, <1>4 DEF RetriesOK
  <2>2. failures[b[1]] \in 0 .. MaxFailures
    BY <1>3, <2>1, BlobFacts
  <2>3. retried[b].retries \in Nat \ {0} /\ retried[b].time \in {"set", "none"}
    BY <2>1 DEF RetryInfo
  <2>4. retried[b].retries \in 1 .. MaxFailures + 1
    BY <2>1, <2>2, <2>3, DownloadAssumption
  <2>5. QED
    BY <1>1, <1>4, <2>3, <2>4 DEF RetriesOK
<1>5. DownloadTypeOK
  BY <1>1, <1>2, <1>3, <1>4 DEF DownloadTypeOK, DownloadIInv, AttemptsOK, RetriesOK, Attempts
<1>6. QED
  BY <1>1, <1>5 DEF DownloadIInv, DownloadsInv, AttemptsOK

\* Nothing is wanted at first.
LEMMA DownloadInitially == DownloadInit => DownloadIInv
<1> SUFFICES ASSUME DownloadInit PROVE DownloadIInv
  OBVIOUS
<1>1. /\ attempts = <<>> /\ events = <<>> /\ retried = <<>> /\ ticketing = {} /\ requests = <<>>
      /\ failures = [i \in Items |-> 0] /\ items = [i \in Items |-> "unknown"]
  BY DEF DownloadInit
<1>2. AttemptsOK
  <2>1. DOMAIN attempts = {} /\ attempts = [n \in {} |-> attempts[n]]
    BY <1>1
  <2>2. IsFiniteSet(DOMAIN attempts)
    BY <2>1, FS_EmptySet
  <2>3. QED
    BY <1>1, <2>1, <2>2 DEF AttemptsOK, ReportedOnce
<1>3. RetriesOK
  <2>1. DOMAIN retried = {} /\ retried = [b \in {} |-> retried[b]]
    BY <1>1
  <2>2. QED
    BY <1>1, <2>1 DEF RetriesOK
<1>4. FailuresOK
  <2>1. failures \in [Items -> Nat] /\ failures \in [Items -> Int] /\ \A i \in Items : failures[i] = 0
    BY <1>1
  <2>2. SumFunction(failures) = 0
    BY <2>1, SumZero, BlobFacts
  <2>3. FailedEvents = 0
    BY <1>1, FS_EmptySet DEF FailedEvents
  <2>4. QED
    BY <2>1, <2>2, <2>3, DownloadAssumption DEF FailuresOK
<1>5. NotForgotten /\ GivenUpAfterRetries
  BY <1>1 DEF NotForgotten, GivenUpAfterRetries, Items
<1>6. requests \in Seq(Blobs) /\ items \in [Items -> {"unknown", "wanted", "complete", "given up"}]
  BY <1>1
<1>7. manager \in {"between", "polling"} /\ loopEnded \in BOOLEAN
  BY DEF DownloadInit
<1>8. retrying \in [RetryTasks -> SUBSET Blobs]
  BY DEF DownloadInit
<1>9. QED
  BY <1>2, <1>3, <1>4, <1>5, <1>6, <1>7, <1>8 DEF DownloadIInv

-----------------------------------------------------------------------------
\* What becomes of the downloads under way.
LEMMA AttemptMoves ==
  ASSUME AttemptsOK, NEW n \in DOMAIN attempts, NEW s \in AttemptStates, To(n, s)
  PROVE  /\ DOMAIN attempts' = DOMAIN attempts
         /\ attempts' \in [DOMAIN attempts' -> Attempts]
         /\ \A m \in DOMAIN attempts : /\ attempts'[m].blob = attempts[m].blob
                                       /\ m # n => attempts'[m] = attempts[m]
         /\ attempts'[n].at = s
<1>1. attempts \in [DOMAIN attempts -> Attempts]
  BY DEF AttemptsOK
<1>2. attempts[n] \in Attempts /\ attempts' = [attempts EXCEPT ![n].at = s]
  BY <1>1 DEF To
<1> DEFINE a == [attempts[n] EXCEPT !.at = s]
<1>3. a \in Attempts /\ a.at = s /\ a.blob = attempts[n].blob
  BY <1>2 DEF Attempts
<1>4. attempts' = [attempts EXCEPT ![n] = a]
  BY <1>2
<1> HIDE DEF a
<1>5. QED
  BY <1>1, <1>3, <1>4

\* A download that is over leaves the others as they are.
LEMMA AttemptOver ==
  ASSUME AttemptsOK, NEW n \in DOMAIN attempts, Over(n)
  PROVE  /\ DOMAIN attempts' = DOMAIN attempts \ {n}
         /\ IsFiniteSet(DOMAIN attempts')
         /\ attempts' \in [DOMAIN attempts' -> Attempts]
         /\ \A m \in DOMAIN attempts' : attempts'[m] = attempts[m]
<1>1. DOMAIN attempts' = DOMAIN attempts \ {n} /\ \A m \in DOMAIN attempts' : attempts'[m] = attempts[m]
  BY DEF Over
<1>2. IsFiniteSet(DOMAIN attempts')
  BY <1>1, FS_RemoveElement DEF AttemptsOK
<1>3. attempts' = [m \in DOMAIN attempts' |-> attempts[m]] /\ \A m \in DOMAIN attempts' : attempts[m] \in Attempts
  BY <1>1 DEF Over, AttemptsOK
<1>4. QED
  BY <1>1, <1>2, <1>3

\* The event that the run loop takes.
LEMMA EventTaken ==
  ASSUME AttemptsOK, events # <<>>
  PROVE  /\ Attempt \in DOMAIN attempts
         /\ Blob \in Blobs /\ Item \in Items
         /\ Tail(events) \in Seq(DownloadEvents)
         /\ \A m \in DOMAIN Tail(events) : /\ Tail(events)[m].of \in DOMAIN attempts
                                           /\ Tail(events)[m].of # Attempt
                                           /\ attempts[Tail(events)[m].of].at = "reported"
         /\ \A m, k \in DOMAIN Tail(events) : m # k => Tail(events)[m].of # Tail(events)[k].of
         /\ Head(events) \in DownloadEvents
         /\ Count(events, FailedKind) =
               Count(Tail(events), FailedKind) + (IF Head(events).kind = "failed" THEN 1 ELSE 0)
<1>1. events \in Seq(DownloadEvents)
  BY DEF AttemptsOK
<1>2. /\ Head(events) = events[1] /\ Head(events) \in DownloadEvents /\ 1 \in DOMAIN events
      /\ Tail(events) \in Seq(DownloadEvents)
      /\ \A i \in DOMAIN Tail(events) :
               i \in Nat \ {0} /\ i + 1 \in DOMAIN events /\ Tail(events)[i] = events[i + 1]
  BY <1>1, TailOfSequence
<1>3. Attempt = events[1].of /\ Attempt \in DOMAIN attempts
  BY <1>2 DEF AttemptsOK, Attempt
<1>4. attempts[Attempt] \in Attempts
  BY <1>3 DEF AttemptsOK
<1>5. Blob \in Blobs
  BY <1>4 DEF Blob, Attempts
<1>6. Item \in Items
  BY <1>5, BlobFacts DEF Item
<1>7. \A m \in DOMAIN Tail(events) :
         /\ Tail(events)[m].of \in DOMAIN attempts
         /\ Tail(events)[m].of # Attempt
         /\ attempts[Tail(events)[m].of].at = "reported"
  <2> TAKE m \in DOMAIN Tail(events)
  <2>1. m + 1 \in DOMAIN events /\ m + 1 # 1 /\ Tail(events)[m] = events[m + 1]
    BY <1>2
  <2>2. QED
    BY <1>2, <1>3, <2>1 DEF AttemptsOK, ReportedOnce
<1>8. \A m, k \in DOMAIN Tail(events) : m # k => Tail(events)[m].of # Tail(events)[k].of
  <2> TAKE m, k \in DOMAIN Tail(events)
  <2> HAVE m # k
  <2>1. m + 1 \in DOMAIN events /\ k + 1 \in DOMAIN events /\ m + 1 # k + 1
    BY <1>2
  <2>2. QED
    BY <1>2, <2>1 DEF AttemptsOK, ReportedOnce
<1>9. Head(events) \in FailedKind <=> Head(events).kind = "failed"
  BY <1>2 DEF FailedKind
<1>10. Count(events, FailedKind) =
         Count(Tail(events), FailedKind) + (IF Head(events) \in FailedKind THEN 1 ELSE 0)
  BY <1>1, CountTail
<1>11. QED
  BY <1>2, <1>3, <1>5, <1>6, <1>7, <1>8, <1>9, <1>10

\* Who goes on with an item.
InRequests(i) == \E n \in DOMAIN requests : requests[n][1] = i
InAttempts(i) == \E n \in DOMAIN attempts : attempts[n].blob[1] = i
InRetried(i) == \E b \in DOMAIN retried : b[1] = i /\ retried[b].time = "set"
InTicketing(i) == \E t \in ticketing : t.blob[1] = i
InRetrying(i) == \E r \in RetryTasks : \E b \in retrying[r] : b[1] = i

Handled(i) ==
  InRequests(i) \/ InAttempts(i) \/ InRetried(i) \/ InTicketing(i) \/ InRetrying(i)

\* A wanted item is not forgotten by a step that keeps it where it is handled.
LEMMA StillHandled ==
  ASSUME NotForgotten,
         \A i \in Items : items'[i] = "wanted" =>
                           Handled(i)' \/ (items[i] = "wanted" /\ (Handled(i) => Handled(i)'))
  PROVE  NotForgotten'
<1>1. \A i \in Items : items[i] = "wanted" => Handled(i)
  BY DEF NotForgotten, Handled, InRequests, InAttempts, InRetried, InTicketing, InRetrying
<1>2. \A i \in Items : items'[i] = "wanted" => Handled(i)'
  BY <1>1
<1>3. QED
  BY <1>2 DEF NotForgotten, Handled, InRequests, InAttempts, InRetried, InTicketing, InRetrying

\* A request that is appended is in the queue, with those before it.
LEMMA RequestAppended ==
  ASSUME requests \in Seq(Blobs), NEW b \in Blobs, requests' = Append(requests, b)
  PROVE  /\ requests' \in Seq(Blobs) /\ InRequests(b[1])'
         /\ \A i \in Items : InRequests(i) => InRequests(i)'
<1>1. /\ Append(requests, b) \in Seq(Blobs) /\ DOMAIN Append(requests, b) = 1 .. Len(requests) + 1
      /\ \A i \in 1 .. Len(requests) : Append(requests, b)[i] = requests[i]
      /\ Append(requests, b)[Len(requests) + 1] = b
      /\ DOMAIN requests = 1 .. Len(requests) /\ Len(requests) \in Nat
  BY AppendToSequence, Elements
<1>2. Len(requests) + 1 \in DOMAIN requests' /\ \A i \in DOMAIN requests : i \in DOMAIN requests'
  BY <1>1
<1>3. QED
  BY <1>1, <1>2 DEF InRequests

\* What a step that leaves the downloads alone keeps.
LEMMA SameAttempts ==
  ASSUME AttemptsOK, UNCHANGED <<attempts, events>>
  PROVE  AttemptsOK' /\ \A i \in Items : InAttempts(i) => InAttempts(i)'
BY DEF AttemptsOK, InAttempts, ReportedOnce

\* What a step that leaves the retries alone keeps.
LEMMA SameRetries ==
  ASSUME RetriesOK, UNCHANGED <<retried, ticketing, failures>>
  PROVE  RetriesOK' /\ \A i \in Items : (InRetried(i) => InRetried(i)') /\ (InTicketing(i) => InTicketing(i)')
BY DEF RetriesOK, InRetried, InTicketing

\* What a step that leaves the failures alone keeps.
LEMMA SameFailures ==
  ASSUME FailuresOK, UNCHANGED <<failures, events>>
  PROVE  FailuresOK'
BY DEF FailuresOK, FailedEvents

\* What a step keeps of the rest that it leaves alone.
LEMMA SameOthers ==
  ASSUME DownloadIInv
  PROVE  /\ UNCHANGED items /\ UNCHANGED failures => GivenUpAfterRetries'
         /\ UNCHANGED requests => \A i \in Items : InRequests(i) => InRequests(i)'
         /\ UNCHANGED retrying => \A i \in Items : InRetrying(i) => InRetrying(i)'
BY DEF DownloadIInv, GivenUpAfterRetries, InRequests, InRetrying

\* An item is requested.
LEMMA RequestStepKeeps ==
  ASSUME DownloadIInv, NEW i \in Items, RequestDownload(i)
  PROVE  DownloadIInv'
<1>1. <<i, 0>> \in Blobs /\ <<i, 0>>[1] = i
  BY BlobFacts
<1>2. /\ requests' \in Seq(Blobs) /\ InRequests(i)'
      /\ \A j \in Items : InRequests(j) => InRequests(j)'
  BY <1>1, RequestAppended DEF DownloadIInv, RequestDownload
<1>3. AttemptsOK' /\ RetriesOK' /\ FailuresOK'
  BY SameAttempts, SameRetries, SameFailures DEF DownloadIInv, RequestDownload
<1>4. /\ items' \in [Items -> {"unknown", "wanted", "complete", "given up"}]
      /\ \A j \in Items : j # i => items'[j] = items[j]
      /\ items'[i] = "wanted"
  BY DEF DownloadIInv, RequestDownload
<1>5. NotForgotten'
  <2>1. \A j \in Items :
           /\ InAttempts(j) => InAttempts(j)'
           /\ InRetried(j) => InRetried(j)'
           /\ InTicketing(j) => InTicketing(j)'
           /\ InRetrying(j) => InRetrying(j)'
    BY SameAttempts, SameRetries, SameOthers DEF DownloadIInv, RequestDownload
  <2>2. \A j \in Items : items'[j] = "wanted" =>
                          Handled(j)' \/ (items[j] = "wanted" /\ (Handled(j) => Handled(j)'))
    BY <1>2, <1>4, <2>1 DEF Handled
  <2>3. QED
    BY <2>2, StillHandled DEF DownloadIInv
<1>6. GivenUpAfterRetries'
  BY <1>4 DEF DownloadIInv, GivenUpAfterRetries, RequestDownload, Items
<1>7. QED
  BY <1>2, <1>3, <1>4, <1>5, <1>6 DEF DownloadIInv, RequestDownload

\* A number that no download has.
LEMMA NumberIsFree ==
  ASSUME AttemptsOK
  PROVE  FreeNumber \in Nat /\ FreeNumber \notin DOMAIN attempts
<1> DEFINE D == DOMAIN attempts
           n == Cardinality(D) + 1
<1>1. IsFiniteSet(D) /\ Cardinality(D) \in Nat
  BY FS_CardinalityType DEF AttemptsOK
<1>2. Cardinality(1 .. n) = n
  <2>1. 1 \in Int /\ n \in Int /\ ~(1 > n) /\ n - 1 + 1 = n
    BY <1>1
  <2>2. Cardinality(1 .. n) = IF 1 > n THEN 0 ELSE n - 1 + 1
    BY <2>1, FS_Interval, Zenon
  <2>3. QED
    BY <2>1, <2>2
<1> HIDE DEF D
<1>3. \E m \in 1 .. n : m \notin D
  <2> SUFFICES ASSUME 1 .. n \in SUBSET D PROVE FALSE
    OBVIOUS
  <2>1. Cardinality(1 .. n) <= Cardinality(D)
    BY <1>1, FS_Subset
  <2>2. QED
    BY <1>1, <1>2, <2>1
<1>4. FreeNumber \in 1 .. n /\ FreeNumber \notin D
  BY <1>3 DEF FreeNumber, D
<1>5. QED
  BY <1>1, <1>4 DEF D

\* A requested download is started.
LEMMA StartStep ==
  ASSUME DownloadIInv, StartDownload
  PROVE  DownloadIInv'
<1>1. PICK n \in Nat : n = FreeNumber /\ n \notin DOMAIN attempts
  BY NumberIsFree DEF DownloadIInv
<1>2. /\ Head(requests) \in Blobs /\ Tail(requests) \in Seq(Blobs)
      /\ 1 \in DOMAIN requests /\ requests[1] = Head(requests)
      /\ \A i \in DOMAIN requests : i = 1 \/ (i - 1 \in DOMAIN Tail(requests) /\ Tail(requests)[i - 1] = requests[i])
  <2>1. requests \in Seq(Blobs) /\ requests # <<>>
    BY DEF DownloadIInv, StartDownload
  <2>2. QED
    BY <2>1, TailOfSequence
<1>3. PICK b \in Blobs : b = Head(requests)
  BY <1>2
<1>4. attempts' = [m \in DOMAIN attempts \union {n} |->
                     IF m = n THEN [blob |-> b, at |-> "adding"] ELSE attempts[m]]
  BY <1>1, <1>3 DEF StartDownload
<1>5. [blob |-> b, at |-> "adding"] \in Attempts /\ attempts \in [DOMAIN attempts -> Attempts]
  BY DEF Attempts, AttemptStates, DownloadIInv, AttemptsOK
<1>6. /\ DOMAIN attempts' = DOMAIN attempts \union {n}
      /\ attempts' \in [DOMAIN attempts' -> Attempts]
      /\ \A m \in DOMAIN attempts : attempts'[m] = attempts[m]
      /\ attempts'[n].blob = b
  BY <1>1, <1>4, <1>5
<1>7. IsFiniteSet(DOMAIN attempts') /\ DOMAIN attempts' \in SUBSET Nat
  <2>1. IsFiniteSet(DOMAIN attempts) /\ DOMAIN attempts \in SUBSET Nat
    BY DEF DownloadIInv, AttemptsOK
  <2>2. IsFiniteSet(DOMAIN attempts \union {n})
    BY <2>1, FS_AddElement
  <2>3. QED
    BY <1>6, <2>1, <2>2
<1>8. AttemptsOK'
  BY <1>6, <1>7 DEF DownloadIInv, AttemptsOK, ReportedOnce, StartDownload
<1>9. RetriesOK' /\ FailuresOK' /\ GivenUpAfterRetries'
  BY SameRetries, SameFailures, SameOthers DEF DownloadIInv, StartDownload
<1>10. NotForgotten'
  <2>1. \A i \in Items :
           /\ InAttempts(i) => InAttempts(i)'
           /\ InRetried(i) => InRetried(i)'
           /\ InTicketing(i) => InTicketing(i)'
           /\ InRetrying(i) => InRetrying(i)'
    <3>1. \A i \in Items : InAttempts(i) => InAttempts(i)'
      BY <1>6 DEF InAttempts
    <3>2. QED
      BY <3>1, SameRetries, SameOthers DEF DownloadIInv, StartDownload
  <2>2. InAttempts(b[1])'
    BY <1>6 DEF InAttempts
  <2>3. \A i \in Items : InRequests(i) => i = b[1] \/ InRequests(i)'
    <3>1. requests' = Tail(requests)
      BY DEF StartDownload
    <3>2. QED
      BY <1>2, <1>3, <3>1 DEF InRequests
  <2>4. items' = items
    BY DEF StartDownload
  <2>5. \A i \in Items : items'[i] = "wanted" =>
                          Handled(i)' \/ (items[i] = "wanted" /\ (Handled(i) => Handled(i)'))
    BY <2>1, <2>2, <2>3, <2>4 DEF Handled
  <2>6. QED
    BY <2>5, StillHandled DEF DownloadIInv
<1>11. QED
  BY <1>2, <1>8, <1>9, <1>10 DEF DownloadIInv, StartDownload

\* The steps of the manager and of its tasks.
LEMMA ManagerStep ==
  ASSUME DownloadIInv, StartPolling \/ PolledProgress \/ \E n \in DOMAIN attempts : Added(n)
  PROVE  DownloadIInv'
<1>1. AttemptsOK' /\ \A i \in Items : InAttempts(i) => InAttempts(i)'
  <2>1. CASE StartPolling \/ PolledProgress
    BY <2>1, SameAttempts DEF StartPolling, PolledProgress, DownloadIInv
  <2>2. ASSUME NEW n \in DOMAIN attempts, Added(n)
        PROVE  AttemptsOK' /\ \A i \in Items : InAttempts(i) => InAttempts(i)'
    <3>1. PICK s \in AttemptStates : To(n, s) /\ attempts[n].at # "reported"
      BY <2>2 DEF Added, AttemptStates
    <3>2. /\ DOMAIN attempts' = DOMAIN attempts
          /\ attempts' \in [DOMAIN attempts' -> Attempts]
          /\ \A m \in DOMAIN attempts : /\ attempts'[m].blob = attempts[m].blob
                                        /\ m # n => attempts'[m] = attempts[m]
      BY <3>1, AttemptMoves DEF DownloadIInv
    <3>3. events' = events
      BY <2>2 DEF Added
    <3>4. AttemptsOK'
      BY <3>1, <3>2, <3>3 DEF DownloadIInv, AttemptsOK, ReportedOnce
    <3>5. QED
      BY <3>2, <3>4 DEF InAttempts
  <2>3. QED
    BY <2>1, <2>2
<1>2. /\ UNCHANGED <<events, requests, retried, ticketing, retrying, items, failures, loopEnded>>
      /\ manager' \in {manager, "between", "polling"}
  BY DEF StartPolling, PolledProgress, Added
<1>3. RetriesOK' /\ FailuresOK' /\ GivenUpAfterRetries'
  BY <1>2, SameRetries, SameFailures, SameOthers DEF DownloadIInv
<1>4. NotForgotten'
  <2>1. \A i \in Items :
           /\ InRequests(i) => InRequests(i)'
           /\ InRetried(i) => InRetried(i)'
           /\ InTicketing(i) => InTicketing(i)'
           /\ InRetrying(i) => InRetrying(i)'
    BY <1>2, SameRetries, SameOthers DEF DownloadIInv
  <2>2. \A i \in Items : items'[i] = "wanted" =>
                          Handled(i)' \/ (items[i] = "wanted" /\ (Handled(i) => Handled(i)'))
    BY <1>1, <1>2, <2>1 DEF Handled
  <2>3. QED
    BY <2>2, StillHandled DEF DownloadIInv
<1>5. QED
  BY <1>1, <1>2, <1>3, <1>4 DEF DownloadIInv

\* The manager reports: a failure only while there may be one more.
LEMMA PolledStep ==
  ASSUME DownloadIInv, NEW n \in DOMAIN attempts, Polled(n)
  PROVE  DownloadIInv'
<1>0. AttemptsOK /\ RetriesOK /\ FailuresOK /\ events \in Seq(DownloadEvents)
  BY DEF DownloadIInv, AttemptsOK
<1>1. PICK kind \in Outcomes(n) : events' = Append(events, [of |-> n, kind |-> kind])
  BY DEF Polled
<1>2. /\ kind \in {"fetched", "complete", "failed"}
      /\ kind = "failed" => SumFunction(failures) + FailedEvents < MaxFailures
  BY DEF Outcomes, FailedEvents
<1>3. PICK e \in DownloadEvents : e = [of |-> n, kind |-> kind] /\ e.of = n /\ e.kind = kind
  <2>1. n \in Nat
    BY <1>0 DEF AttemptsOK
  <2>2. [of |-> n, kind |-> kind] \in DownloadEvents
    BY <1>2, <2>1 DEF DownloadEvents
  <2>3. QED
    BY <2>2
<1>4. /\ events' \in Seq(DownloadEvents) /\ DOMAIN events' = 1 .. Len(events) + 1
      /\ \A i \in 1 .. Len(events) : events'[i] = events[i]
      /\ events'[Len(events) + 1] = e
      /\ DOMAIN events = 1 .. Len(events) /\ Len(events) \in Nat
  BY <1>0, <1>1, <1>3, AppendToSequence, Elements
<1>5. \A i \in DOMAIN events' : (i \in DOMAIN events /\ events'[i] = events[i]) \/ (i = Len(events) + 1 /\ events'[i] = e)
  BY <1>4
<1>6. /\ DOMAIN attempts' = DOMAIN attempts
      /\ attempts' \in [DOMAIN attempts' -> Attempts]
      /\ \A m \in DOMAIN attempts : /\ attempts'[m].blob = attempts[m].blob
                                    /\ m # n => attempts'[m] = attempts[m]
      /\ attempts'[n].at = "reported"
  BY <1>0, AttemptMoves DEF Polled, AttemptStates
<1>7. \A i \in DOMAIN events : events[i].of # n /\ events[i].of \in DOMAIN attempts /\ attempts[events[i].of].at = "reported"
  BY <1>0 DEF AttemptsOK, Polled
<1>8. \A i \in DOMAIN events' : events'[i].of \in DOMAIN attempts' /\ attempts'[events'[i].of].at = "reported"
  BY <1>3, <1>5, <1>6, <1>7
<1>9. ReportedOnce'
  BY <1>0, <1>3, <1>5, <1>7 DEF ReportedOnce, AttemptsOK
<1>10. AttemptsOK'
  BY <1>0, <1>4, <1>6, <1>8, <1>9 DEF AttemptsOK
<1>11. FailuresOK'
  <2>1. e \in FailedKind <=> kind = "failed"
    BY <1>3 DEF FailedKind
  <2>2. Count(events', FailedKind) = Count(events, FailedKind) + (IF e \in FailedKind THEN 1 ELSE 0)
    BY <1>0, <1>1, <1>3, CountAppended
  <2>3. FailedEvents = Count(events, FailedKind) /\ FailedEvents' = Count(events', FailedKind)
    BY <1>0, <1>4, FailedAsCount DEF FailedEvents
  <2>4. SumFunction(failures) \in Nat /\ Count(events, FailedKind) \in Nat
    BY <1>0, FailuresBounded, FailedAsCount
  <2>5. SumFunction(failures) + FailedEvents' <= MaxFailures
    BY <1>0, <1>2, <2>1, <2>2, <2>3, <2>4, DownloadAssumption DEF FailuresOK
  <2>6. failures' = failures
    BY DEF Polled
  <2>7. QED
    BY <1>0, <2>5, <2>6 DEF FailuresOK
<1>12. RetriesOK' /\ GivenUpAfterRetries'
  BY <1>0, SameRetries, SameOthers DEF Polled
<1>13. NotForgotten'
  <2>1. \A i \in Items :
           /\ InAttempts(i) => InAttempts(i)'
           /\ InRequests(i) => InRequests(i)'
           /\ InRetried(i) => InRetried(i)'
           /\ InTicketing(i) => InTicketing(i)'
           /\ InRetrying(i) => InRetrying(i)'
    <3>1. \A i \in Items : InAttempts(i) => InAttempts(i)'
      BY <1>6 DEF InAttempts
    <3>2. QED
      BY <1>0, <3>1, SameRetries, SameOthers DEF Polled
  <2>2. items' = items
    BY DEF Polled
  <2>3. \A i \in Items : items'[i] = "wanted" =>
                          Handled(i)' \/ (items[i] = "wanted" /\ (Handled(i) => Handled(i)'))
    BY <2>1, <2>2 DEF Handled
  <2>4. QED
    BY <2>3, StillHandled DEF DownloadIInv
<1>14. QED
  BY <1>10, <1>11, <1>12, <1>13 DEF DownloadIInv, Polled

\* The run loop has taken the first event.
LEMMA FewerFailedEvents ==
  ASSUME AttemptsOK, FailuresOK, events # <<>>, events' = Tail(events)
  PROVE  /\ FailedEvents' \in Nat /\ FailedEvents \in Nat
         /\ FailedEvents = FailedEvents' + (IF Head(events).kind = "failed" THEN 1 ELSE 0)
         /\ UNCHANGED failures => FailuresOK'
<1>1. events \in Seq(DownloadEvents) /\ events' \in Seq(DownloadEvents)
  BY EventTaken DEF AttemptsOK
<1>2. /\ FailedEvents = Count(events, FailedKind) /\ FailedEvents' = Count(events', FailedKind)
      /\ Count(events, FailedKind) \in Nat /\ Count(events', FailedKind) \in Nat
  BY <1>1, FailedAsCount DEF FailedEvents
<1>3. Count(events, FailedKind) =
         Count(events', FailedKind) + (IF Head(events).kind = "failed" THEN 1 ELSE 0)
  BY EventTaken
<1>4. SumFunction(failures) \in Nat
  BY <1>1, FailuresBounded
<1>5. SumFunction(failures) + FailedEvents' <= MaxFailures
  BY <1>2, <1>3, <1>4, DownloadAssumption DEF FailuresOK
<1>6. UNCHANGED failures => FailuresOK'
  BY <1>5 DEF FailuresOK
<1>7. QED
  BY <1>2, <1>3, <1>6

\* A download has fetched its blob.
LEMMA FetchedStep ==
  ASSUME DownloadIInv, OnFetched
  PROVE  DownloadIInv'
<1>0. /\ AttemptsOK /\ RetriesOK /\ FailuresOK /\ events # <<>>
      /\ events' = Tail(events)
  BY DEF DownloadIInv, OnFetched, NextIs
<1>1. PICK n \in DOMAIN attempts : n = Attempt
  BY <1>0, EventTaken
<1>2. /\ events' \in Seq(DownloadEvents)
      /\ \A m \in DOMAIN events' : /\ events'[m].of \in DOMAIN attempts
                                     /\ events'[m].of # n
                                     /\ attempts[events'[m].of].at = "reported"
      /\ \A m, k \in DOMAIN events' : m # k => events'[m].of # events'[k].of
  BY <1>0, <1>1, EventTaken
<1>3. /\ DOMAIN attempts' = DOMAIN attempts
      /\ attempts' \in [DOMAIN attempts' -> Attempts]
      /\ \A m \in DOMAIN attempts : /\ attempts'[m].blob = attempts[m].blob
                                    /\ m # n => attempts'[m] = attempts[m]
  BY <1>0, <1>1, AttemptMoves DEF OnFetched, AttemptStates
<1>4. AttemptsOK'
  BY <1>0, <1>2, <1>3 DEF AttemptsOK, ReportedOnce
<1>5. RetriesOK' /\ FailuresOK' /\ GivenUpAfterRetries'
  BY <1>0, SameRetries, FewerFailedEvents, SameOthers DEF OnFetched
<1>6. NotForgotten'
  <2>1. \A i \in Items :
           /\ InAttempts(i) => InAttempts(i)'
           /\ InRequests(i) => InRequests(i)'
           /\ InRetried(i) => InRetried(i)'
           /\ InTicketing(i) => InTicketing(i)'
           /\ InRetrying(i) => InRetrying(i)'
    <3>1. \A i \in Items : InAttempts(i) => InAttempts(i)'
      BY <1>3 DEF InAttempts
    <3>2. QED
      BY <1>0, <3>1, SameRetries, SameOthers DEF OnFetched
  <2>2. items' = items
    BY DEF OnFetched
  <2>3. \A i \in Items : items'[i] = "wanted" =>
                          Handled(i)' \/ (items[i] = "wanted" /\ (Handled(i) => Handled(i)'))
    BY <2>1, <2>2 DEF Handled
  <2>4. QED
    BY <2>3, StillHandled DEF DownloadIInv
<1>7. QED
  BY <1>4, <1>5, <1>6 DEF DownloadIInv, OnFetched

\* The download of the first event is over.
LEMMA EndedAttempt ==
  ASSUME AttemptsOK, events # <<>>, events' = Tail(events), Over(Attempt)
  PROVE  /\ AttemptsOK'
         /\ Blob \in Blobs /\ Item \in Items
         /\ \A i \in Items : i # Item => (InAttempts(i) => InAttempts(i)')
<1>1. PICK n \in DOMAIN attempts : n = Attempt
  BY EventTaken
<1>2. /\ events' \in Seq(DownloadEvents)
      /\ \A m \in DOMAIN events' : /\ events'[m].of \in DOMAIN attempts
                                     /\ events'[m].of # n
                                     /\ attempts[events'[m].of].at = "reported"
      /\ \A m, k \in DOMAIN events' : m # k => events'[m].of # events'[k].of
  BY <1>1, EventTaken
<1>3. /\ DOMAIN attempts' = DOMAIN attempts \ {n}
      /\ IsFiniteSet(DOMAIN attempts')
      /\ attempts' \in [DOMAIN attempts' -> Attempts]
      /\ \A m \in DOMAIN attempts' : attempts'[m] = attempts[m]
  BY <1>1, AttemptOver
<1>4. AttemptsOK'
  BY <1>2, <1>3 DEF AttemptsOK, ReportedOnce
<1>5. \A i \in Items : i # Item => (InAttempts(i) => InAttempts(i)')
  <2> SUFFICES ASSUME NEW i \in Items, i # Item, NEW m \in DOMAIN attempts, attempts[m].blob[1] = i
               PROVE  m \in DOMAIN attempts' /\ attempts'[m].blob[1] = i
    BY DEF InAttempts
  <2>1. m # n
    BY <1>1 DEF Item, Blob
  <2>2. QED
    BY <1>3, <2>1
<1>6. QED
  BY <1>4, <1>5, EventTaken

\* A failure goes from the queue of events to the count of its item.
LEMMA OneMoreFailure ==
  ASSUME AttemptsOK, FailuresOK, events # <<>>, events' = Tail(events), Head(events).kind = "failed",
         NEW j \in Items, failures' = [failures EXCEPT ![j] = @ + 1]
  PROVE  /\ FailuresOK'
         /\ \A i \in Items : failures[i] \in Nat /\ failures'[i] = IF i = j THEN failures[i] + 1 ELSE failures[i]
<1>1. failures \in [Items -> Nat] /\ IsFiniteSet(Items)
  BY BlobFacts DEF FailuresOK
<1>2. failures' \in [Items -> Nat] /\ failures \in [Items -> Int] /\ failures' \in [Items -> Int]
  BY <1>1
<1>3. \A i \in Items : failures[i] \in Nat /\ failures'[i] = IF i = j THEN failures[i] + 1 ELSE failures[i]
  BY <1>1
<1>4. SumFunction(failures') = SumFunction(failures) + failures'[j] - failures[j]
  <2>1. \A x \in Items \ {j} : failures[x] = failures'[x]
    BY <1>3
  <2>2. \A f, g \in [Items -> Int] :
           (\A x \in Items \ {j} : f[x] = g[x]) => SumFunction(g) = SumFunction(f) + g[j] - f[j]
    BY <1>1, SumUpdate
  <2>3. QED
    BY <1>2, <2>1, <2>2
<1>5. SumFunction(failures) \in Nat
  BY <1>1, SumBounds
<1>6. SumFunction(failures') = SumFunction(failures) + 1
  BY <1>3, <1>4, <1>5
<1>7. FailedEvents' \in Nat /\ FailedEvents = FailedEvents' + 1
  BY FewerFailedEvents
<1>8. SumFunction(failures') + FailedEvents' <= MaxFailures
  BY <1>5, <1>6, <1>7, DownloadAssumption DEF FailuresOK
<1>9. QED
  BY <1>2, <1>3, <1>8 DEF FailuresOK

\* The map of the retries with an entry, and without one.
LEMMA RetriedWith ==
  ASSUME RetriesOK, NEW b \in Blobs, NEW info \in RetryInfo, retried' = With(b, info)
  PROVE  /\ DOMAIN retried' \in SUBSET Blobs
         /\ retried' \in [DOMAIN retried' -> RetryInfo]
         /\ b \in DOMAIN retried' /\ retried'[b] = info
         /\ \A c \in DOMAIN retried' : c # b => c \in DOMAIN retried /\ retried'[c] = retried[c]
         /\ \A c \in DOMAIN retried : c # b => c \in DOMAIN retried' /\ retried'[c] = retried[c]
BY DEF RetriesOK, With

\* A blob that leaves the retries leaves the others there.
LEMMA RetriedWithout ==
  ASSUME RetriesOK, NEW b, retried' = Without(b)
  PROVE  /\ DOMAIN retried' \in SUBSET Blobs
         /\ retried' \in [DOMAIN retried' -> RetryInfo]
         /\ \A c \in DOMAIN retried' : c \in DOMAIN retried /\ retried'[c] = retried[c]
         /\ \A c \in DOMAIN retried : c # b => c \in DOMAIN retried' /\ retried'[c] = retried[c]
BY DEF RetriesOK, Without

\* A blob that is complete is reported and no longer retried.
LEMMA CompleteStep ==
  ASSUME DownloadIInv, OnComplete
  PROVE  DownloadIInv'
<1>0. /\ AttemptsOK /\ RetriesOK /\ FailuresOK /\ events # <<>>
      /\ events' = Tail(events) /\ Over(Attempt)
  BY DEF DownloadIInv, OnComplete, NextIs
<1>1. /\ AttemptsOK'
      /\ Blob \in Blobs /\ Item \in Items
      /\ \A i \in Items : i # Item => (InAttempts(i) => InAttempts(i)')
  BY <1>0, EndedAttempt
<1>2. PICK b \in Blobs : b = Blob /\ b[1] = Item
  BY <1>1 DEF Item
<1>3. PICK j \in Items : j = Item
  BY <1>1
<1>4. /\ DOMAIN retried' \in SUBSET Blobs
      /\ retried' \in [DOMAIN retried' -> RetryInfo]
      /\ \A c \in DOMAIN retried' : c \in DOMAIN retried /\ retried'[c] = retried[c]
      /\ \A c \in DOMAIN retried : c # b => c \in DOMAIN retried' /\ retried'[c] = retried[c]
  BY <1>0, <1>2, RetriedWithout DEF OnComplete
<1>5. UNCHANGED <<manager, requests, ticketing, retrying, failures>> /\ loopEnded' \in BOOLEAN
  BY DEF OnComplete
<1>6. RetriesOK'
  BY <1>0, <1>4, <1>5 DEF RetriesOK
<1>7. FailuresOK'
  BY <1>0, <1>5, FewerFailedEvents
<1>8. /\ items' \in [Items -> {"unknown", "wanted", "complete", "given up"}]
      /\ items'[j] = "complete" /\ \A i \in Items : i # j => items'[i] = items[i]
  BY <1>3 DEF OnComplete, DownloadIInv
<1>9. GivenUpAfterRetries'
  BY <1>5, <1>8 DEF GivenUpAfterRetries, DownloadIInv, Items
<1>10. NotForgotten'
  <2>1. \A i \in Items : i # j => (InRetried(i) => InRetried(i)')
    BY <1>2, <1>3, <1>4 DEF InRetried
  <2>2. \A i \in Items :
           /\ InRequests(i) => InRequests(i)'
           /\ InTicketing(i) => InTicketing(i)'
           /\ InRetrying(i) => InRetrying(i)'
    BY <1>5 DEF InRequests, InTicketing, InRetrying
  <2>3. \A i \in Items : items'[i] = "wanted" =>
                          Handled(i)' \/ (items[i] = "wanted" /\ (Handled(i) => Handled(i)'))
    BY <1>1, <1>3, <1>8, <2>1, <2>2 DEF Handled
  <2>4. QED
    BY <2>3, StillHandled DEF DownloadIInv
<1>11. QED
  BY <1>1, <1>5, <1>6, <1>7, <1>8, <1>9, <1>10 DEF DownloadIInv

\* What a failure costs at most: the retries of a blob are failures of its item.
LEMMA RetriesOfBlob ==
  ASSUME RetriesOK, FailuresOK, NEW b \in Blobs
  PROVE  /\ RetriesOf(b) \in Nat /\ RetriesOf(b) <= failures[b[1]] /\ failures[b[1]] \in Nat
         /\ b[1] \in Items
<1>1. b[1] \in Items /\ failures[b[1]] \in Nat
  BY BlobFacts DEF FailuresOK
<1>2. CASE b \in DOMAIN retried
  <2>1. retried[b] \in RetryInfo /\ retried[b].retries <= failures[b[1]]
    BY <1>2 DEF RetriesOK
  <2>2. retried[b].retries \in Nat
    BY <2>1 DEF RetryInfo
  <2>3. QED
    BY <1>1, <1>2, <2>1, <2>2 DEF RetriesOf
<1>3. CASE b \notin DOMAIN retried
  BY <1>1, <1>3 DEF RetriesOf
<1>4. QED
  BY <1>2, <1>3

\* A result that failed is kept for a retry or given up.
LEMMA ResultFailedStep ==
  ASSUME DownloadIInv, OnResultFailed
  PROVE  DownloadIInv'
<1>0. /\ AttemptsOK /\ RetriesOK /\ FailuresOK /\ events # <<>> /\ Head(events).kind = "failed"
      /\ events' = Tail(events) /\ Over(Attempt)
  BY DEF DownloadIInv, OnResultFailed, NextIs
<1>1. /\ AttemptsOK'
      /\ Blob \in Blobs /\ Item \in Items
      /\ \A i \in Items : i # Item => (InAttempts(i) => InAttempts(i)')
  BY <1>0, EndedAttempt
<1>2. PICK b \in Blobs : b = Blob /\ b[1] = Item /\ b[1] \in Results /\ b[1] \in Items
  BY <1>1 DEF Item, OnResultFailed
<1>3. /\ UNCHANGED <<manager, requests, ticketing, retrying, loopEnded>>
      /\ failures' = [failures EXCEPT ![b[1]] = @ + 1]
  BY <1>2 DEF OnResultFailed
<1>4. /\ FailuresOK'
      /\ \A i \in Items : failures[i] \in Nat /\ failures'[i] = IF i = b[1] THEN failures[i] + 1 ELSE failures[i]
  BY <1>0, <1>2, <1>3, OneMoreFailure
<1>5. /\ RetriesOf(b) \in Nat /\ RetriesOf(b) <= failures[b[1]] /\ failures[b[1]] \in Nat
  BY <1>0, RetriesOfBlob
<1>6. \A i \in Items, r \in Nat : r <= failures[i] => r <= failures'[i]
  BY <1>4
<1>7. \A c \in DOMAIN retried : c \in Blobs /\ c[1] \in Items /\ retried[c].retries \in Nat
  BY <1>0, BlobFacts DEF RetriesOK, RetryInfo
<1>8. \A t \in ticketing : /\ t.blob \in Blobs /\ t.blob[1] \in Parameters /\ t.retries \in Nat
                           /\ t.retries + 1 <= failures'[t.blob[1]]
  <2> TAKE t \in ticketing
  <2>1. /\ t.blob \in Blobs /\ t.blob[1] \in Parameters /\ t.retries \in Nat
        /\ t.retries + 1 <= failures[t.blob[1]] /\ t.retries + 1 \in Nat /\ t.blob[1] \in Items
    BY <1>0, BlobFacts DEF RetriesOK
  <2>2. QED
    BY <1>6, <2>1
<1>9. \A i \in Items :
        /\ InRequests(i) => InRequests(i)'
        /\ InTicketing(i) => InTicketing(i)'
        /\ InRetrying(i) => InRetrying(i)'
  BY <1>3 DEF InRequests, InTicketing, InRetrying
<1>10. CASE Retryable(b)
  <2> DEFINE info == [retries |-> RetriesOf(b) + 1, time |-> "set"]
  <2>1. info \in RetryInfo /\ info.time = "set" /\ info.retries = RetriesOf(b) + 1
    BY <1>5 DEF RetryInfo
  <2>2. retried' = With(b, info) /\ items' = items
    BY <1>2, <1>10 DEF OnResultFailed
  <2> HIDE DEF info
  <2>3. /\ DOMAIN retried' \in SUBSET Blobs
        /\ retried' \in [DOMAIN retried' -> RetryInfo]
        /\ b \in DOMAIN retried' /\ retried'[b] = info
        /\ \A c \in DOMAIN retried' : c # b => c \in DOMAIN retried /\ retried'[c] = retried[c]
        /\ \A c \in DOMAIN retried : c # b => c \in DOMAIN retried' /\ retried'[c] = retried[c]
    BY <1>0, <2>1, <2>2, RetriedWith
  <2>4. retried'[b].retries <= failures'[b[1]] /\ retried'[b].retries <= MaxDownloadRetries
    BY <1>2, <1>4, <1>5, <1>10, <2>1, <2>3, DownloadAssumption DEF Retryable
  <2>5. \A c \in DOMAIN retried' : retried'[c].retries <= failures'[c[1]]
    BY <1>0, <1>6, <1>7, <2>3, <2>4 DEF RetriesOK
  <2>6. \A c \in DOMAIN retried' : c[1] \in Results => retried'[c].retries <= MaxDownloadRetries
    BY <1>0, <2>3, <2>4 DEF RetriesOK
  <2>7. RetriesOK'
    BY <1>3, <1>8, <2>3, <2>5, <2>6 DEF RetriesOK
  <2>8. GivenUpAfterRetries'
    <3>1. \A i \in Results : items'[i] = "given up" => failures[i] > MaxDownloadRetries /\ i \in Items
      BY <2>2 DEF DownloadIInv, GivenUpAfterRetries, Items
    <3>2. \A i \in Items : failures[i] > MaxDownloadRetries => failures'[i] > MaxDownloadRetries
      BY <1>4, DownloadAssumption
    <3>3. QED
      BY <3>1, <3>2 DEF GivenUpAfterRetries
  <2>9. InRetried(b[1])'
    BY <2>1, <2>3 DEF InRetried
  <2>10. \A i \in Items : i # b[1] => (InRetried(i) => InRetried(i)')
    BY <2>3 DEF InRetried
  <2>11. \A i \in Items : items'[i] = "wanted" =>
                          Handled(i)' \/ (items[i] = "wanted" /\ (Handled(i) => Handled(i)'))
    BY <1>1, <1>2, <1>9, <2>2, <2>9, <2>10 DEF Handled
  <2>12. NotForgotten'
    BY <2>11, StillHandled DEF DownloadIInv
  <2>13. QED
    BY <1>1, <1>3, <1>4, <2>2, <2>7, <2>8, <2>12 DEF DownloadIInv
<1>11. CASE ~Retryable(b)
  <2>1. /\ retried' = Without(b)
        /\ items' = [items EXCEPT ![b[1]] = IF @ = "complete" THEN @ ELSE "given up"]
    BY <1>2, <1>11 DEF OnResultFailed
  <2>2. /\ DOMAIN retried' \in SUBSET Blobs
        /\ retried' \in [DOMAIN retried' -> RetryInfo]
        /\ \A c \in DOMAIN retried' : c \in DOMAIN retried /\ retried'[c] = retried[c]
        /\ \A c \in DOMAIN retried : c # b => c \in DOMAIN retried' /\ retried'[c] = retried[c]
    BY <1>0, <2>1, RetriedWithout
  <2>3. /\ items' \in [Items -> {"unknown", "wanted", "complete", "given up"}]
        /\ items'[b[1]] # "wanted" /\ \A i \in Items : i # b[1] => items'[i] = items[i]
    BY <1>2, <2>1 DEF DownloadIInv
  <2>4. RetriesOK'
    <3>1. \A c \in DOMAIN retried' : retried'[c].retries <= failures'[c[1]]
      BY <1>0, <1>6, <1>7, <2>2 DEF RetriesOK
    <3>2. QED
      BY <1>0, <1>3, <1>8, <2>2, <3>1 DEF RetriesOK
  <2>5. GivenUpAfterRetries'
    <3>1. failures'[b[1]] > MaxDownloadRetries
      BY <1>2, <1>4, <1>5, <1>11, DownloadAssumption DEF Retryable
    <3>2. ASSUME NEW i \in Results, items'[i] = "given up", i # b[1] PROVE failures'[i] > MaxDownloadRetries
      BY <1>4, <2>3, <3>2, DownloadAssumption DEF DownloadIInv, GivenUpAfterRetries, Items
    <3>3. QED
      BY <3>1, <3>2 DEF GivenUpAfterRetries
  <2>6. \A i \in Items : i # b[1] => (InRetried(i) => InRetried(i)')
    BY <2>2 DEF InRetried
  <2>7. \A i \in Items : items'[i] = "wanted" =>
                          Handled(i)' \/ (items[i] = "wanted" /\ (Handled(i) => Handled(i)'))
    BY <1>1, <1>2, <1>9, <2>3, <2>6 DEF Handled
  <2>8. NotForgotten'
    BY <2>7, StillHandled DEF DownloadIInv
  <2>9. QED
    BY <1>1, <1>3, <1>4, <2>3, <2>4, <2>5, <2>8 DEF DownloadIInv
<1>12. QED
  BY <1>10, <1>11

\* A parameter that failed waits for the ticket of another peer, or is given up.
LEMMA ParameterFailedStep ==
  ASSUME DownloadIInv, OnParameterFailed
  PROVE  DownloadIInv'
<1>0. /\ AttemptsOK /\ RetriesOK /\ FailuresOK /\ events # <<>> /\ Head(events).kind = "failed"
      /\ events' = Tail(events) /\ Over(Attempt)
  BY DEF DownloadIInv, OnParameterFailed, NextIs
<1>1. /\ AttemptsOK'
      /\ Blob \in Blobs /\ Item \in Items
      /\ \A i \in Items : i # Item => (InAttempts(i) => InAttempts(i)')
  BY <1>0, EndedAttempt
<1>2. PICK b \in Blobs : b = Blob /\ b[1] = Item /\ b[1] \in Parameters /\ b[1] \in Items
  BY <1>1 DEF Item, OnParameterFailed
<1>3. /\ UNCHANGED <<manager, requests, retried, retrying, items, loopEnded>>
      /\ failures' = [failures EXCEPT ![b[1]] = @ + 1]
      /\ ticketing' = ticketing \union {[blob |-> b, retries |-> RetriesOf(b)]}
  BY <1>2 DEF OnParameterFailed
<1>4. /\ FailuresOK'
      /\ \A i \in Items : failures[i] \in Nat /\ failures'[i] = IF i = b[1] THEN failures[i] + 1 ELSE failures[i]
  BY <1>0, <1>2, <1>3, OneMoreFailure
<1>5. /\ RetriesOf(b) \in Nat /\ RetriesOf(b) <= failures[b[1]] /\ failures[b[1]] \in Nat
  BY <1>0, RetriesOfBlob
<1>6. \A i \in Items, r \in Nat : r <= failures[i] => r <= failures'[i]
  BY <1>4
<1>7. \A c \in DOMAIN retried : c \in Blobs /\ c[1] \in Items /\ retried[c].retries \in Nat
  BY <1>0, BlobFacts DEF RetriesOK, RetryInfo
<1>8. \A t \in ticketing' : /\ t.blob \in Blobs /\ t.blob[1] \in Parameters /\ t.retries \in Nat
                            /\ t.retries + 1 <= failures'[t.blob[1]]
  <2> TAKE t \in ticketing'
  <2>1. CASE t \in ticketing
    <3>1. /\ t.blob \in Blobs /\ t.blob[1] \in Parameters /\ t.retries \in Nat
          /\ t.retries + 1 <= failures[t.blob[1]] /\ t.retries + 1 \in Nat /\ t.blob[1] \in Items
      BY <1>0, <2>1, BlobFacts DEF RetriesOK
    <3>2. QED
      BY <1>6, <3>1
  <2>2. CASE t = [blob |-> b, retries |-> RetriesOf(b)]
    <3>1. t.blob = b /\ t.retries = RetriesOf(b)
      BY <2>2
    <3>2. RetriesOf(b) + 1 <= failures'[b[1]]
      BY <1>2, <1>4, <1>5
    <3>3. QED
      BY <1>2, <1>5, <3>1, <3>2
  <2>3. QED
    BY <1>3, <2>1, <2>2
<1>9. \A c \in DOMAIN retried' : retried'[c].retries <= failures'[c[1]]
  BY <1>0, <1>3, <1>6, <1>7 DEF RetriesOK
<1>10. RetriesOK'
  BY <1>0, <1>3, <1>8, <1>9 DEF RetriesOK
<1>11. GivenUpAfterRetries'
  <2>1. \A i \in Results : items'[i] = "given up" => failures[i] > MaxDownloadRetries /\ i \in Items
    BY <1>3 DEF DownloadIInv, GivenUpAfterRetries, Items
  <2>2. \A i \in Items : failures[i] > MaxDownloadRetries => failures'[i] > MaxDownloadRetries
    BY <1>4, DownloadAssumption
  <2>3. QED
    BY <2>1, <2>2 DEF GivenUpAfterRetries
<1>12. NotForgotten'
  <2>1. InTicketing(b[1])'
    <3> DEFINE t == [blob |-> b, retries |-> RetriesOf(b)]
    <3>1. t.blob = b /\ t \in ticketing'
      BY <1>3
    <3> HIDE DEF t
    <3>2. QED
      BY <3>1 DEF InTicketing
  <2>2. \A i \in Items :
        /\ InRequests(i) => InRequests(i)'
        /\ InTicketing(i) => InTicketing(i)'
        /\ InRetried(i) => InRetried(i)'
        /\ InRetrying(i) => InRetrying(i)'
    BY <1>3 DEF InRequests, InTicketing, InRetrying, InRetried
  <2>3. \A i \in Items : items'[i] = "wanted" =>
                          Handled(i)' \/ (items[i] = "wanted" /\ (Handled(i) => Handled(i)'))
    BY <1>1, <1>2, <1>3, <2>1, <2>2 DEF Handled
  <2>4. QED
    BY <2>3, StillHandled DEF DownloadIInv
<1>13. QED
  BY <1>1, <1>3, <1>4, <1>10, <1>11, <1>12 DEF DownloadIInv

\* A new ticket for a parameter that failed.
LEMMA NewTicketStep ==
  ASSUME DownloadIInv, NEW t \in ticketing, NewTicket(t)
  PROVE  DownloadIInv'
<1>0. AttemptsOK /\ RetriesOK /\ FailuresOK
  BY DEF DownloadIInv
<1>1. UNCHANGED <<attempts, manager, events, requests, retrying, items, failures, loopEnded>>
      /\ ticketing' = ticketing \ {t}
  BY DEF NewTicket
<1>2. /\ t.blob \in Blobs /\ t.blob[1] \in Parameters /\ t.retries \in Nat
      /\ t.retries + 1 <= failures[t.blob[1]]
  BY <1>0 DEF RetriesOK
<1> DEFINE info == [retries |-> t.retries + 1, time |-> "set"]
<1>3. info \in RetryInfo /\ info.time = "set" /\ info.retries = t.retries + 1
  BY <1>2 DEF RetryInfo
<1>4. PICK c \in Blobs : /\ c[1] = t.blob[1]
                         /\ \/ retried' = With(t.blob, info) /\ c = t.blob
                            \/ retried' = [d \in (DOMAIN retried \ {t.blob}) \union {c} |->
                                             IF d = c THEN info ELSE retried[d]]
  <2>1. CASE retried' = With(t.blob, info)
    BY <1>2, <2>1
  <2>2. CASE /\ t.blob[2] < MaxFailures
             /\ retried' =
                LET new == <<t.blob[1], t.blob[2] + 1>>
                IN  [c \in (DOMAIN retried \ {t.blob}) \union {new} |->
                       IF c = new THEN info ELSE retried[c]]
    <3>1. t.blob[2] + 1 \in 0 .. MaxFailures
      BY <1>2, <2>2, BlobFacts, DownloadAssumption
    <3>2. <<t.blob[1], t.blob[2] + 1>> \in Blobs
      BY <1>2, <3>1, BlobFacts
    <3>3. QED
      BY <2>2, <3>2
  <2>3. QED
    BY <2>1, <2>2 DEF NewTicket
<1> HIDE DEF info
<1>5. /\ DOMAIN retried' \in SUBSET Blobs
      /\ retried' \in [DOMAIN retried' -> RetryInfo]
      /\ c \in DOMAIN retried' /\ retried'[c] = info
      /\ \A d \in DOMAIN retried' : d # c => d \in DOMAIN retried /\ retried'[d] = retried[d]
      /\ \A d \in DOMAIN retried : d # t.blob => d = c \/ (d \in DOMAIN retried' /\ retried'[d] = retried[d])
  <2>1. CASE retried' = With(t.blob, info) /\ c = t.blob
    BY <1>0, <1>2, <1>3, <2>1, RetriedWith
  <2>2. CASE retried' = [d \in (DOMAIN retried \ {t.blob}) \union {c} |->
                           IF d = c THEN info ELSE retried[d]]
    BY <1>0, <1>3, <2>2 DEF RetriesOK
  <2>3. QED
    BY <1>4, <2>1, <2>2
<1>6. RetriesOK'
  <2>1. \A d \in DOMAIN retried' : retried'[d].retries <= failures'[d[1]]
    BY <1>0, <1>1, <1>2, <1>3, <1>4, <1>5 DEF RetriesOK
  <2>2. \A d \in DOMAIN retried' : d[1] \in Results => retried'[d].retries <= MaxDownloadRetries
    <3>1. c[1] \notin Results
      BY <1>2, <1>4, BlobFacts
    <3>2. QED
      BY <1>0, <1>5, <3>1 DEF RetriesOK
  <2>3. QED
    BY <1>0, <1>1, <1>5, <2>1, <2>2 DEF RetriesOK
<1>7. AttemptsOK' /\ FailuresOK' /\ GivenUpAfterRetries'
  BY <1>0, <1>1, SameAttempts, SameFailures, SameOthers
<1>8. NotForgotten'
  <2>1. InRetried(c[1])'
    BY <1>3, <1>5 DEF InRetried
  <2>2. \A i \in Items : i # c[1] => (InRetried(i) => InRetried(i)') /\ (InTicketing(i) => InTicketing(i)')
    BY <1>1, <1>4, <1>5 DEF InRetried, InTicketing
  <2>3. \A i \in Items :
          /\ InRequests(i) => InRequests(i)'
          /\ InAttempts(i) => InAttempts(i)'
          /\ InRetrying(i) => InRetrying(i)'
    BY <1>1 DEF InRequests, InAttempts, InRetrying
  <2>4. \A i \in Items : items'[i] = "wanted" =>
                          Handled(i)' \/ (items[i] = "wanted" /\ (Handled(i) => Handled(i)'))
    BY <1>1, <2>1, <2>2, <2>3 DEF Handled
  <2>5. QED
    BY <2>4, StillHandled DEF DownloadIInv
<1>9. QED
  BY <1>1, <1>6, <1>7, <1>8 DEF DownloadIInv

\* A retry task collects what is due.
LEMMA PendingStep ==
  ASSUME DownloadIInv, NEW r \in RetryTasks, PendingRetries(r)
  PROVE  DownloadIInv'
<1>0. AttemptsOK /\ RetriesOK /\ FailuresOK /\ retrying \in [RetryTasks -> SUBSET Blobs]
  BY DEF DownloadIInv
<1>1. UNCHANGED <<attempts, manager, events, requests, retried, ticketing, items, failures, loopEnded>>
  BY DEF PendingRetries
<1>2. PICK due \in SUBSET {b \in DOMAIN retried : retried[b].time = "set"} :
        retrying' = [retrying EXCEPT ![r] = due]
  BY DEF PendingRetries
<1>3. due \in SUBSET Blobs
  BY <1>0 DEF RetriesOK
<1>4. retrying' \in [RetryTasks -> SUBSET Blobs]
  BY <1>0, <1>2, <1>3
<1>5. AttemptsOK' /\ RetriesOK' /\ FailuresOK' /\ GivenUpAfterRetries'
  BY <1>0, <1>1, SameAttempts, SameRetries, SameFailures, SameOthers
<1>6. \A i \in Items :
        /\ InRequests(i) => InRequests(i)'
        /\ InAttempts(i) => InAttempts(i)'
        /\ InRetried(i) => InRetried(i)'
        /\ InTicketing(i) => InTicketing(i)'
  BY <1>1 DEF InRequests, InAttempts, InRetried, InTicketing
<1>7. \A i \in Items : InRetrying(i) => InRetrying(i)'
  <2>1. retrying[r] = {} /\ \A s \in RetryTasks : s # r => retrying'[s] = retrying[s]
    BY <1>0, <1>2 DEF PendingRetries
  <2>2. QED
    BY <2>1 DEF InRetrying
<1>8. \A i \in Items : items'[i] = "wanted" =>
                          Handled(i)' \/ (items[i] = "wanted" /\ (Handled(i) => Handled(i)'))
  BY <1>1, <1>6, <1>7 DEF Handled
<1>9. NotForgotten'
  BY <1>8, StillHandled DEF DownloadIInv
<1>10. QED
  BY <1>1, <1>4, <1>5, <1>9 DEF DownloadIInv

\* A retry task starts a download again, unless it has come in the meantime.
LEMMA RetryStep ==
  ASSUME DownloadIInv, NEW r \in RetryTasks, NEW b \in retrying[r], Retry(r, b)
  PROVE  DownloadIInv'
<1>0. AttemptsOK /\ RetriesOK /\ FailuresOK /\ retrying \in [RetryTasks -> SUBSET Blobs]
  BY DEF DownloadIInv
<1>1. UNCHANGED <<attempts, manager, events, ticketing, items, failures, loopEnded>>
  BY DEF Retry
<1>2. b \in Blobs
  BY <1>0
<1>3. /\ requests' \in Seq(Blobs) /\ InRequests(b[1])'
      /\ \A i \in Items : InRequests(i) => InRequests(i)'
  BY <1>2, RequestAppended DEF DownloadIInv, Retry
<1>4. /\ retrying' = [retrying EXCEPT ![r] = @ \ {b}]
      /\ retrying' \in [RetryTasks -> SUBSET Blobs]
  BY <1>0 DEF Retry
<1>5. /\ DOMAIN retried' = DOMAIN retried
      /\ retried' \in [DOMAIN retried' -> RetryInfo]
      /\ \A c \in DOMAIN retried : /\ retried'[c].retries = retried[c].retries
                                   /\ c # b => retried'[c] = retried[c]
  <2>1. retried \in [DOMAIN retried -> RetryInfo]
    BY <1>0 DEF RetriesOK
  <2>2. CASE b \in DOMAIN retried
    <3> DEFINE info == [retried[b] EXCEPT !.time = "none"]
    <3>1. info \in RetryInfo /\ info.retries = retried[b].retries
      BY <2>1, <2>2 DEF RetryInfo
    <3>2. retried' = [retried EXCEPT ![b] = info]
      BY <2>2 DEF Retry
    <3> HIDE DEF info
    <3>3. QED
      BY <2>1, <2>2, <3>1, <3>2
  <2>3. CASE b \notin DOMAIN retried
    BY <2>1, <2>3 DEF Retry
  <2>4. QED
    BY <2>2, <2>3
<1>6. RetriesOK'
  BY <1>0, <1>1, <1>5 DEF RetriesOK
<1>7. AttemptsOK' /\ FailuresOK' /\ GivenUpAfterRetries'
  BY <1>0, <1>1, SameAttempts, SameFailures, SameOthers
<1>8. \A i \in Items : (InAttempts(i) => InAttempts(i)') /\ (InTicketing(i) => InTicketing(i)')
  BY <1>1 DEF InAttempts, InTicketing
<1>9. \A i \in Items : i # b[1] => (InRetried(i) => InRetried(i)') /\ (InRetrying(i) => InRetrying(i)')
  <2>1. \A i \in Items : i # b[1] => (InRetried(i) => InRetried(i)')
    BY <1>5 DEF InRetried
  <2>2. \A s \in RetryTasks, c \in Blobs : c \in retrying[s] /\ c # b => c \in retrying'[s]
    BY <1>0, <1>4
  <2>3. \A i \in Items : i # b[1] => (InRetrying(i) => InRetrying(i)')
    BY <1>0, <2>2 DEF InRetrying
  <2>4. QED
    BY <2>1, <2>3
<1>10. \A i \in Items : items'[i] = "wanted" =>
                          Handled(i)' \/ (items[i] = "wanted" /\ (Handled(i) => Handled(i)'))
  BY <1>1, <1>3, <1>8, <1>9 DEF Handled
<1>11. NotForgotten'
  BY <1>10, StillHandled DEF DownloadIInv
<1>12. QED
  BY <1>1, <1>3, <1>4, <1>6, <1>7, <1>11 DEF DownloadIInv

\* With failures at any moment and any number of retry tasks on the same blob, a download
\* is never forgotten, not given up before MAX_DOWNLOAD_RETRIES retries, and reported once.
THEOREM DownloadsNotForgotten == DownloadSpec => []DownloadsInv
<1>1. DownloadInit => DownloadIInv
  BY DownloadInitially
<1>2. DownloadIInv /\ [DownloadNext]_downloadVars => DownloadIInv'
  <2> SUFFICES ASSUME DownloadIInv, [DownloadNext]_downloadVars PROVE DownloadIInv'
    OBVIOUS
  <2>1. CASE LoopStep
    BY <2>1, StartStep, FetchedStep, CompleteStep, ResultFailedStep, ParameterFailedStep DEF LoopStep
  <2>2. CASE UNCHANGED downloadVars
    <3>1. UNCHANGED <<attempts, manager, events, requests, retried, ticketing, retrying,
                      items, failures, loopEnded>>
      BY <2>2 DEF downloadVars
    <3>2. AttemptsOK' /\ RetriesOK' /\ FailuresOK' /\ GivenUpAfterRetries'
      BY <3>1, SameAttempts, SameRetries, SameFailures, SameOthers DEF DownloadIInv
    <3>3. NotForgotten'
      BY <3>1 DEF DownloadIInv, NotForgotten
    <3>4. QED
      BY <3>1, <3>2, <3>3 DEF DownloadIInv
  <2>3. QED
    BY <2>1, <2>2, RequestStepKeeps, ManagerStep, PolledStep, NewTicketStep, PendingStep, RetryStep
       DEF DownloadNext
<1>3. DownloadIInv => DownloadsInv
  BY DownloadIInvImplies
<1>4. QED
  BY <1>1, <1>2, <1>3, PTL DEF DownloadSpec

-----------------------------------------------------------------------------
(* The sharing of the model. *)

Models == [version : 1 .. ShareEpochs, serializing : SUBSET Names, initialized : BOOLEAN,
           tickets : [Names -> 0 .. ShareEpochs], tagged : SUBSET Names]

Requests == [at : RequestStates, peer : SharePeers \union {"none"},
             attempts : 0 .. MaxRequestAttempts, version : 0 .. ShareEpochs, alone : BOOLEAN]

\* A peer's tickets are valid.
Valid(model) ==
  \A q \in Names : model.tickets[q] # 0 =>
     q \in model.tagged /\ (q # Config => model.tickets[q] = model.version)

\* What holds of a request: it has a peer as soon as it asks, and an attempt left.
GoodRequest(r) ==
  /\ r.at \in {"asking", "ticket", "download"} => r.peer \in SharePeers
  /\ r.at = "asking" => r.attempts < MaxRequestAttempts

\* The lists of the peer manager.
ManagerOK ==
  /\ available \in Seq(SharePeers) /\ NoRepeat(available)
  /\ errors \in [SharePeers -> Nat]
  /\ joining \in {"joining", "complete", "cancelled"}
  /\ PeersNotLost
  /\ NoSilentStall

\* The inductive invariant.
ShareIInv ==
  /\ share \in [SharePeers -> Models] /\ \A p \in SharePeers : Valid(share[p])
  /\ request \in [Names -> Requests] /\ \A q \in Names : GoodRequest(request[q])
  /\ next \in 0 .. Len(ModelParams)
  /\ \A i \in DOMAIN ModelParams : i > next => request[ModelParams[i]].at = "none"
  /\ got \in [Names -> 0 .. ShareEpochs]
  /\ ManagerOK

\* The membership of the model is the one of DataProofs.
LEMMA ListContains ==
  ASSUME NEW s, NEW x
  PROVE  Contains(s, x) <=> In(s, x)
BY DEF Contains, In

\* A list without repetitions is one without equal elements.
LEMMA Injective ==
  ASSUME NEW s
  PROVE  IsInjective(s) <=> NoRepeat(s)
BY DEF IsInjective, NoRepeat

\* The inductive invariant says what the run checks.
LEMMA ShareIInvImplies == ShareIInv => SharingInv
<1> SUFFICES ASSUME ShareIInv PROVE SharingInv
  OBVIOUS
<1>1. \A p \in SharePeers : share[p] \in Models
  BY DEF ShareIInv
<1>2. \A q \in Names : request[q] \in Requests
  BY DEF ShareIInv
<1>3. ShareTypeOK
  BY <1>1, <1>2, Injective DEF ShareIInv, ShareTypeOK, ManagerOK, Models, Requests
<1>4. CachedTicketsValid
  BY DEF ShareIInv, CachedTicketsValid, Valid
<1>5. QED
  BY <1>3, <1>4 DEF SharingInv, ShareIInv, ManagerOK

\* Requests that ask no peer are well formed.
LEMMA EmptyRequests ==
  /\ NoRequest \in Requests /\ GoodRequest(NoRequest) /\ NoRequest.at = "none"
  /\ Alone \in Requests /\ GoodRequest(Alone) /\ Alone.at = "next" /\ Alone.peer = "none"
  /\ [NoRequest EXCEPT !.at = "done"] \in Requests /\ [NoRequest EXCEPT !.at = "done"].at = "done"
<1>1. NoRequest \in Requests
  BY ShareAssumption DEF NoRequest, Requests, RequestStates
<1>2. Alone \in Requests
  BY <1>1 DEF Alone, Requests, RequestStates
<1>3. [NoRequest EXCEPT !.at = "done"] \in Requests
  BY <1>1 DEF Requests, RequestStates
<1>4. Alone.at = "next" /\ Alone.peer = "none" /\ NoRequest.at = "none"
      /\ [NoRequest EXCEPT !.at = "done"].at = "done"
  BY DEF Alone, NoRequest
<1>5. QED
  BY <1>1, <1>2, <1>3, <1>4 DEF GoodRequest

\* No model is shared at first, and no request is under way.
LEMMA ShareInitially == ShareInit => ShareIInv
<1> SUFFICES ASSUME ShareInit PROVE ShareIInv
  OBVIOUS
<1>1. share \in [SharePeers -> Models] /\ \A p \in SharePeers : Valid(share[p])
  BY ShareAssumption DEF ShareInit, Models, Valid
<1>2. request \in [Names -> Requests] /\ \A q \in Names : GoodRequest(request[q])
  BY EmptyRequests DEF ShareInit
<1>3. \A i \in DOMAIN ModelParams : request[ModelParams[i]].at = "none"
  BY EmptyRequests, ShareAssumption DEF ShareInit, Names, Config, Range
<1>4. /\ available \in Seq(SharePeers) /\ NoRepeat(available) /\ available # <<>>
      /\ \A p \in SharePeers : In(available, p)
  <2> DEFINE n == Cardinality(SharePeers)
  <2>1. n \in Nat /\ ExistsBijection(1 .. n, SharePeers)
    BY FS_CardinalityType, ShareAssumption
  <2>2. PICK f \in Bijection(1 .. n, SharePeers) : TRUE
    BY <2>1 DEF ExistsBijection
  <2>3. f \in [1 .. n -> SharePeers] /\ IsInjective(f)
    BY <2>2 DEF Bijection, Injection, IsInjective
  <2>4. available \in [1 .. n -> SharePeers] /\ IsInjective(available)
    BY <2>3 DEF ShareInit, SetToSeq
  <2>5. available \in Injection(1 .. n, SharePeers)
    BY <2>4 DEF Injection, IsInjective
  <2>6. \A p \in SharePeers : In(available, p)
    <3>1. available \in Surjection(1 .. n, SharePeers)
      BY <2>1, <2>5, FS_Injection, FS_Interval, ShareAssumption
    <3>2. QED
      BY <2>4, <3>1 DEF Surjection, In
  <2>7. available \in Seq(SharePeers)
    BY <2>1, <2>4
  <2>8. available # <<>>
    BY <2>6, ShareAssumption DEF In
  <2>9. QED
    BY <2>4, <2>6, <2>7, <2>8, Injective
<1>5. ManagerOK
  BY <1>4, ListContains DEF ManagerOK, ShareInit, PeersNotLost, NoSilentStall
<1>6. Len(ModelParams) \in Nat
  BY ShareAssumption, Elements
<1>7. next \in 0 .. Len(ModelParams)
  BY <1>6 DEF ShareInit
<1>8. got \in [Names -> 0 .. ShareEpochs]
  BY ShareAssumption DEF ShareInit
<1>9. QED
  BY <1>1, <1>2, <1>3, <1>5, <1>7, <1>8 DEF ShareIInv

\* A report of an error, while the requests that do not end with it keep what they have.
LEMMA ReportErrorKeeps ==
  ASSUME ManagerOK, joining = "joining", NEW q \in Names, NEW p \in SharePeers, ReportError(p),
         request[q].at = "asking" => request[q].peer = p,
         \A r \in Names : r # q => request'[r] = request[r]
  PROVE  ManagerOK'
<1>0. /\ available \in Seq(SharePeers) /\ NoRepeat(available)
      /\ errors \in [SharePeers -> Nat]
  BY DEF ManagerOK
<1>1. /\ errors' = [errors EXCEPT ![p] = @ + 1] /\ errors' \in [SharePeers -> Nat]
      /\ \A o \in SharePeers : o # p => errors'[o] = errors[o]
  BY <1>0 DEF ReportError
<1>2. /\ available' \in Seq(SharePeers) /\ NoRepeat(available')
      /\ \A o \in SharePeers : o # p /\ In(available, o) => In(available', o)
      /\ Banned(errors'[p]) \/ In(available', p)
  <2>1. CASE Banned(errors'[p])
    <3>1. available' = Retain(available, {i \in DOMAIN available : available[i] # p})
      BY <2>1 DEF ReportError, WithoutPeer
    <3>2. QED
      BY <1>0, <2>1, <3>1, RetainInList
  <2>2. CASE ~Banned(errors'[p])
    <3>1. available' = IF Contains(available, p) THEN available ELSE Append(available, p)
      BY <2>2 DEF ReportError
    <3>2. CASE In(available, p)
      BY <1>0, <3>1, <3>2, ListContains
    <3>3. CASE ~In(available, p)
      <4>1. available' = Append(available, p)
        BY <3>1, <3>3, ListContains
      <4>2. QED
        BY <1>0, <3>3, <4>1, AppendToList
    <3>4. QED
      BY <3>2, <3>3
  <2>3. QED
    BY <2>1, <2>2
<1>3. joining' = "joining" => \A o \in SharePeers :
         Banned(errors'[o]) \/ In(available', o) \/ \E r \in Names : Holds(r, o)'
  <2> SUFFICES ASSUME NEW o \in SharePeers, o # p, ~Banned(errors'[o]), ~In(available', o)
               PROVE  \E r \in Names : Holds(r, o)'
    BY <1>2
  <2>1. ~Banned(errors[o]) /\ ~In(available, o)
    BY <1>1, <1>2
  <2>2. PICK r \in Names : Holds(r, o)
    BY <2>1, ListContains DEF ManagerOK, PeersNotLost
  <2>3. r # q
    BY <2>2 DEF Holds
  <2>4. QED
    BY <2>2, <2>3 DEF Holds
<1>4. PeersNotLost'
  BY <1>3, ListContains DEF PeersNotLost, Holds
<1>5. joining' \in {"joining", "cancelled"}
  BY DEF ReportError
<1>6. NoSilentStall'
  <2> SUFFICES ASSUME joining' = "joining", available' = <<>>
               PROVE  \E r \in Names, o \in SharePeers : Holds(r, o)'
    BY DEF NoSilentStall, Holds
  <2>1. \A o \in SharePeers : ~In(available', o)
    BY DEF In
  <2>2. Banned(errors'[p])
    BY <1>2, <2>1
  <2>3. PICK o \in SharePeers : ~Banned(errors'[o])
    BY <2>2 DEF ReportError
  <2>4. QED
    BY <1>3, <2>1, <2>3
<1>7. QED
  BY <1>1, <1>2, <1>4, <1>5, <1>6 DEF ManagerOK

\* A report of success gives the peer back.
LEMMA ReportSuccessKeeps ==
  ASSUME ManagerOK, NEW q \in Names, NEW p \in SharePeers, ReportSuccess(p),
         joining' = joining,
         request[q].at = "asking" => request[q].peer = p,
         \A r \in Names : r # q => request'[r] = request[r]
  PROVE  ManagerOK'
<1>0. /\ available \in Seq(SharePeers) /\ NoRepeat(available)
      /\ errors \in [SharePeers -> Nat]
  BY DEF ManagerOK
<1>1. available' = IF Contains(available, p) THEN available ELSE Append(available, p)
  BY DEF ReportSuccess
<1>2. /\ available' \in Seq(SharePeers) /\ NoRepeat(available')
      /\ \A o \in SharePeers : In(available, o) => In(available', o)
      /\ In(available', p)
  <2>1. CASE In(available, p)
    BY <1>0, <1>1, <2>1, ListContains
  <2>2. CASE ~In(available, p)
    <3>1. available' = Append(available, p)
      BY <1>1, <2>2, ListContains
    <3>2. QED
      BY <1>0, <2>2, <3>1, AppendToList
  <2>3. QED
    BY <2>1, <2>2
<1>3. ASSUME joining = "joining", NEW o \in SharePeers,
             ~Banned(errors[o]), ~In(available', o)
      PROVE  \E r \in Names : Holds(r, o)'
  <2>1. o # p /\ ~In(available, o)
    BY <1>2, <1>3
  <2>2. PICK r \in Names : Holds(r, o)
    BY <1>3, <2>1, ListContains DEF ManagerOK, PeersNotLost
  <2>3. r # q
    BY <2>1, <2>2 DEF Holds
  <2>4. QED
    BY <2>2, <2>3 DEF Holds
<1>4. PeersNotLost'
  BY <1>3, ListContains DEF PeersNotLost, Holds, ReportSuccess
<1>5. NoSilentStall'
  BY <1>2 DEF NoSilentStall, In
<1>6. QED
  BY <1>0, <1>2, <1>4, <1>5 DEF ManagerOK, ReportSuccess

\* A step that leaves the manager alone, and the requests that hold a peer.
LEMMA ManagerUntouched ==
  ASSUME ManagerOK, UNCHANGED <<available, errors>>,
         joining' \in {joining, "complete", "cancelled"},
         \A r \in Names : request[r].at = "asking" => request'[r] = request[r]
  PROVE  ManagerOK'
<1>1. joining' = "joining" => joining = "joining"
  OBVIOUS
<1>2. \A r \in Names, o \in SharePeers : Holds(r, o) => Holds(r, o)'
  BY DEF Holds
<1>3. PeersNotLost'
  BY <1>1, <1>2 DEF ManagerOK, PeersNotLost, Holds
<1>4. NoSilentStall'
  BY <1>1, <1>2 DEF ManagerOK, NoSilentStall, Holds
<1>5. joining' \in {"joining", "complete", "cancelled"}
  BY DEF ManagerOK
<1>6. QED
  BY <1>3, <1>4, <1>5 DEF ManagerOK

-----------------------------------------------------------------------------
\* What the invariant says of the requests.
RequestsOK ==
  /\ request \in [Names -> Requests] /\ \A q \in Names : GoodRequest(request[q])
  /\ next \in 0 .. Len(ModelParams)
  /\ \A i \in DOMAIN ModelParams : i > next => request[ModelParams[i]].at = "none"

\* What it says of the peers' models.
ModelsOK == share \in [SharePeers -> Models] /\ \A p \in SharePeers : Valid(share[p])

\* One request that was spawned changes.
LEMMA OneRequestChanges ==
  ASSUME RequestsOK, NEW q \in Names, NEW r \in Requests, GoodRequest(r),
         request[q].at # "none", request' = [request EXCEPT ![q] = r], next' = next
  PROVE  RequestsOK'
<1>1. request' \in [Names -> Requests]
  BY DEF RequestsOK
<1>2. \A s \in Names : request'[s] = IF s = q THEN r ELSE request[s]
  BY DEF RequestsOK
<1>3. \A s \in Names : GoodRequest(request'[s])
  BY <1>2 DEF RequestsOK
<1>4. \A i \in DOMAIN ModelParams : ModelParams[i] \in Names
  BY DEF Names, Range
<1>5. \A i \in DOMAIN ModelParams : i > next' => request'[ModelParams[i]].at = "none"
  BY <1>2, <1>4 DEF RequestsOK
<1>6. QED
  BY <1>1, <1>3, <1>5 DEF RequestsOK

\* One peer's model changes.
LEMMA OneModelChanges ==
  ASSUME ModelsOK, NEW p \in SharePeers, NEW m \in Models, Valid(m),
         share' = [share EXCEPT ![p] = m]
  PROVE  ModelsOK'
BY DEF ModelsOK

\* New parameters leave no ticket of the old ones.
LEMMA UpdatedModel ==
  ASSUME NEW m \in Models, m.version < ShareEpochs, Valid(m)
  PROVE  Updated(m) \in Models /\ Valid(Updated(m))
<1>1. /\ m.version \in 1 .. ShareEpochs /\ m.tickets \in [Names -> 0 .. ShareEpochs]
      /\ m.tagged \in SUBSET Names
  BY DEF Models
<1>2. m.version + 1 \in 1 .. ShareEpochs
  BY <1>1, ShareAssumption
<1>3. [q \in Names |-> IF q = Config THEN m.tickets[q] ELSE 0] \in [Names -> 0 .. ShareEpochs]
  BY <1>1, ShareAssumption
<1>4. Updated(m) \in Models
  BY <1>1, <1>2, <1>3 DEF Updated, Models
<1>5. Valid(Updated(m))
  BY DEF Valid, Updated
<1>6. QED
  BY <1>4, <1>5

\* A cleared cache has no ticket at all.
LEMMA ClearedModel ==
  ASSUME NEW m \in Models
  PROVE  Cleared(m) \in Models /\ Valid(Cleared(m))
<1>1. [q \in Names |-> 0] \in [Names -> 0 .. ShareEpochs]
  BY ShareAssumption
<1>2. Cleared(m) \in Models
  BY <1>1 DEF Cleared, Models
<1>3. Valid(Cleared(m))
  BY DEF Valid, Cleared
<1>4. QED
  BY <1>2, <1>3

\* A new ticket is one of the present parameters.
LEMMA TicketIsValid ==
  ASSUME NEW m \in Models, Valid(m), NEW q \in Names
  PROVE  /\ Ticket(m, q).known \in Models /\ Valid(Ticket(m, q).known)
         /\ Ticket(m, q).version \in 0 .. ShareEpochs
<1>1. /\ m.version \in 1 .. ShareEpochs /\ m.tickets \in [Names -> 0 .. ShareEpochs]
      /\ m.tagged \in SUBSET Names
  BY DEF Models
<1>2. m.version \in 0 .. ShareEpochs
  BY <1>1, ShareAssumption
<1> DEFINE k == [m EXCEPT !.tickets[q] = m.version, !.tagged = @ \union {q}]
<1>3. k \in Models
  BY <1>1, <1>2 DEF Models
<1>4. /\ k.version = m.version /\ k.tagged = m.tagged \union {q}
      /\ k.tickets = [m.tickets EXCEPT ![q] = m.version]
  BY DEF Models
<1>5. Valid(k)
  BY <1>1, <1>4 DEF Valid
<1>6. QED
  BY <1>2, <1>3, <1>5 DEF Ticket

\* What a peer answers is a ticket of the parameters that it has then.
LEMMA AnswersValid ==
  ASSUME NEW m \in Models, Valid(m), NEW q \in Names, NEW a \in Transmittable(m, q)
  PROVE  a.known \in Models /\ Valid(a.known) /\ a.version \in 0 .. ShareEpochs
<1>0. m.tickets[q] \in 0 .. ShareEpochs /\ 0 \in 0 .. ShareEpochs
  BY ShareAssumption DEF Models
<1> DEFINE rest == [m EXCEPT !.serializing = @ \ {q}]
<1>1. rest \in Models /\ Valid(rest)
  BY DEF Models, Valid
<1> HIDE DEF rest
<1>2. \/ a = Failed(m) \/ a = Failed(rest) \/ a = Ticket(rest, q) \/ a = Ticket(m, Config)
      \/ a = [version |-> m.tickets[q], known |-> m]
  BY DEF Transmittable, GetTransmittableConfig, GetTransmittableParameter, rest
<1>3. Config \in Names
  BY DEF Names
<1>4. CASE a = Ticket(rest, q)
  BY <1>1, <1>4, TicketIsValid
<1>5. CASE a = Ticket(m, Config)
  BY <1>3, <1>5, TicketIsValid
<1>6. CASE a = Failed(m) \/ a = Failed(rest)
  BY <1>0, <1>1, <1>6 DEF Failed
<1>7. CASE a = [version |-> m.tickets[q], known |-> m]
  BY <1>0, <1>7
<1>8. QED
  BY <1>2, <1>4, <1>5, <1>6, <1>7

\* The invariant by the parts that a step may disturb.
LEMMA ShareIInvParts ==
  ShareIInv <=> ModelsOK /\ RequestsOK /\ got \in [Names -> 0 .. ShareEpochs] /\ ManagerOK
BY DEF ShareIInv, ModelsOK, RequestsOK

\* A request that starts over.
LEMMA RetriedRequest ==
  ASSUME NEW r \in Requests, GoodRequest(r), r.at = "asking"
  PROVE  LET s == [r EXCEPT !.at = "next", !.attempts = @ + 1]
         IN  s \in Requests /\ GoodRequest(s)
<1>1. r.attempts \in 0 .. MaxRequestAttempts /\ r.attempts < MaxRequestAttempts
  BY DEF GoodRequest, Requests
<1>2. r.attempts + 1 \in 0 .. MaxRequestAttempts
  BY <1>1, ShareAssumption
<1>3. [r EXCEPT !.at = "next", !.attempts = @ + 1] \in Requests
  BY <1>2 DEF Requests, RequestStates
<1>4. [r EXCEPT !.at = "next", !.attempts = @ + 1].at = "next"
  BY DEF Requests
<1>5. QED
  BY <1>3, <1>4 DEF GoodRequest

\* A peer takes new parameters or clears its cache.
LEMMA PeerStep ==
  ASSUME ShareIInv, NEW p \in SharePeers, UpdateParameters(p) \/ ClearCache(p)
  PROVE  ShareIInv'
<1>1. ModelsOK /\ RequestsOK /\ got \in [Names -> 0 .. ShareEpochs] /\ ManagerOK
  BY ShareIInvParts
<1>2. share[p] \in Models /\ Valid(share[p])
  BY <1>1 DEF ModelsOK
<1>3. ModelsOK'
  <2>1. CASE UpdateParameters(p)
    <3>1. share' = [share EXCEPT ![p] = Updated(share[p])] /\ share[p].version < ShareEpochs
      BY <2>1 DEF UpdateParameters
    <3>2. QED
      BY <1>1, <1>2, <3>1, UpdatedModel, OneModelChanges
  <2>2. CASE ClearCache(p)
    <3>1. share' = [share EXCEPT ![p] = Cleared(share[p])]
      BY <2>2 DEF ClearCache
    <3>2. QED
      BY <1>1, <1>2, <3>1, ClearedModel, OneModelChanges
  <2>3. QED
    BY <2>1, <2>2
<1>4. UNCHANGED <<available, errors, request, next, got, joining>>
  BY DEF UpdateParameters, ClearCache
<1>5. RequestsOK' /\ got' \in [Names -> 0 .. ShareEpochs]
  BY <1>1, <1>4 DEF RequestsOK
<1>6. ManagerOK'
  BY <1>1, <1>4, ManagerUntouched
<1>7. QED
  BY <1>3, <1>5, <1>6 DEF ShareIInv, ModelsOK, RequestsOK

\* The next parameter is asked for.
LEMMA SpawnStep ==
  ASSUME ShareIInv, SpawnRequest
  PROVE  ShareIInv'
<1>1. ModelsOK /\ RequestsOK /\ got \in [Names -> 0 .. ShareEpochs] /\ ManagerOK
  BY ShareIInvParts
<1>2. Len(ModelParams) \in Nat /\ DOMAIN ModelParams = 1 .. Len(ModelParams)
  BY ShareAssumption, Elements
<1>3. next \in 0 .. Len(ModelParams) /\ next < Len(ModelParams) /\ next' = next + 1
  BY <1>1 DEF RequestsOK, SpawnRequest
<1>4. PICK n \in DOMAIN ModelParams : n = next + 1
  BY <1>2, <1>3
<1>5. PICK q \in Names : q = ModelParams[n]
  BY DEF Names, Range
<1>6. request[q].at = "none" /\ request[q] \in Requests
  BY <1>1, <1>2, <1>3, <1>4, <1>5 DEF RequestsOK
<1> DEFINE r == [request[q] EXCEPT !.at = "next"]
<1>7. r \in Requests /\ r.at = "next"
  BY <1>6 DEF Requests, RequestStates
<1>8. request' = [request EXCEPT ![q] = r]
  BY <1>1, <1>4, <1>5 DEF SpawnRequest, RequestsOK
<1> HIDE DEF r
<1>9. request' \in [Names -> Requests] /\ \A s \in Names : request'[s] = IF s = q THEN r ELSE request[s]
  BY <1>1, <1>7, <1>8 DEF RequestsOK
<1>10. \A s \in Names : GoodRequest(request'[s])
  BY <1>1, <1>7, <1>9 DEF RequestsOK, GoodRequest
<1>11. \A i \in DOMAIN ModelParams : i > next' => request'[ModelParams[i]].at = "none"
  <2> SUFFICES ASSUME NEW i \in DOMAIN ModelParams, i > next' PROVE request'[ModelParams[i]].at = "none"
    OBVIOUS
  <2>1. i > next /\ i # n
    BY <1>2, <1>3, <1>4
  <2>2. ModelParams[i] # q
    BY <1>5, <2>1, ShareAssumption DEF IsInjective
  <2>3. ModelParams[i] \in Names
    BY DEF Names, Range
  <2>4. QED
    BY <1>1, <1>9, <2>1, <2>2, <2>3 DEF RequestsOK
<1>12. next' \in 0 .. Len(ModelParams)
  BY <1>2, <1>3
<1>13. \A s \in Names : request[s].at = "asking" => request'[s] = request[s]
  BY <1>6, <1>9
<1>14. ManagerOK'
  BY <1>1, <1>13, ManagerUntouched DEF SpawnRequest
<1>15. ModelsOK' /\ got' \in [Names -> 0 .. ShareEpochs]
  BY <1>1 DEF SpawnRequest, ModelsOK
<1>16. QED
  BY <1>9, <1>10, <1>11, <1>12, <1>14, <1>15 DEF ShareIInv, ModelsOK

\* The downloads of the tickets that have come are started.
LEMMA StartDownloadsStep ==
  ASSUME ShareIInv, StartDownloads
  PROVE  ShareIInv'
<1>1. ModelsOK /\ RequestsOK /\ got \in [Names -> 0 .. ShareEpochs] /\ ManagerOK
  BY ShareIInvParts
<1>2. \A q \in Names : request[q] \in Requests /\ GoodRequest(request[q])
  BY <1>1 DEF RequestsOK
<1>3. ASSUME NEW q \in Names
      PROVE  /\ request'[q] \in Requests /\ GoodRequest(request'[q])
             /\ request[q].at \in {"none", "asking"} => request'[q] = request[q]
  <2>1. CASE q \in Chunk
    <3>1. request[q].at = "ticket" /\ request'[q] = [request[q] EXCEPT !.at = "download"]
      BY <2>1 DEF StartDownloads
    <3>2. request'[q] \in Requests /\ request'[q].peer = request[q].peer /\ request'[q].at = "download"
      BY <1>2, <3>1 DEF Requests, RequestStates
    <3>3. QED
      BY <1>2, <3>1, <3>2 DEF GoodRequest
  <2>2. CASE q \notin Chunk
    BY <1>2, <2>2 DEF StartDownloads
  <2>3. QED
    BY <2>1, <2>2
<1>4. request' \in [Names -> Requests]
  <2>1. request' = [q \in Names |-> request'[q]]
    BY DEF StartDownloads
  <2>2. QED
    BY <1>3, <2>1
<1>5. \A i \in DOMAIN ModelParams : i > next' => request'[ModelParams[i]].at = "none"
  <2>1. \A i \in DOMAIN ModelParams : ModelParams[i] \in Names
    BY DEF Names, Range
  <2>2. QED
    BY <1>1, <1>3, <2>1 DEF RequestsOK, StartDownloads
<1>6. ManagerOK'
  BY <1>1, <1>3, ManagerUntouched DEF StartDownloads
<1>7. QED
  BY <1>1, <1>3, <1>4, <1>5, <1>6 DEF ShareIInv, ModelsOK, RequestsOK, StartDownloads

\* The head of the list is in use from now on.
LEMMA GetPeerStep ==
  ASSUME ShareIInv, NEW q \in Names, GetPeer(q)
  PROVE  ShareIInv'
<1>1. ModelsOK /\ RequestsOK /\ got \in [Names -> 0 .. ShareEpochs] /\ ManagerOK
  BY ShareIInvParts
<1>2. request[q] \in Requests /\ request[q].at = "next" /\ request[q].attempts < MaxRequestAttempts
  BY <1>1 DEF RequestsOK, GetPeer
<1>3. /\ available \in Seq(SharePeers) /\ NoRepeat(available) /\ available # <<>>
      /\ available' = Tail(available)
  BY <1>1 DEF ManagerOK, GetPeer
<1>4. /\ available' \in Seq(SharePeers) /\ NoRepeat(available') /\ Head(available) \in SharePeers
      /\ \A x \in SharePeers : In(available, x) => x = Head(available) \/ In(available', x)
  BY <1>3, TailOfList
<1>5. PICK h \in SharePeers : h = Head(available)
  BY <1>4
<1> DEFINE r == [request[q] EXCEPT !.at = "asking", !.peer = h]
<1>6. /\ r \in Requests /\ r.at = "asking" /\ r.peer = h
      /\ r.attempts = request[q].attempts
  BY <1>2 DEF Requests, RequestStates
<1>7. request' = [request EXCEPT ![q] = r]
  BY <1>1, <1>2, <1>5 DEF GetPeer, RequestsOK, Requests
<1> HIDE DEF r
<1>8. RequestsOK'
  <2>1. GoodRequest(r)
    BY <1>2, <1>6 DEF GoodRequest
  <2>2. next' = next
    BY DEF GetPeer
  <2>3. QED
    BY <1>1, <1>2, <1>6, <1>7, <2>1, <2>2, OneRequestChanges
<1>9. \A s \in Names : request'[s] = IF s = q THEN r ELSE request[s]
  BY <1>1, <1>7 DEF RequestsOK
<1>10. Holds(q, h)'
  BY <1>6, <1>9 DEF Holds
<1>11. \A s \in Names, o \in SharePeers : Holds(s, o) => Holds(s, o)'
  BY <1>2, <1>9 DEF Holds
<1>12. PeersNotLost'
  <2> SUFFICES ASSUME NEW o \in SharePeers, ~Banned(errors[o]), ~In(available', o)
               PROVE  \E s \in Names : Holds(s, o)'
    BY ListContains DEF PeersNotLost, Holds, GetPeer
  <2>1. CASE o = h
    BY <1>10, <2>1
  <2>2. CASE o # h
    <3>1. ~In(available, o) /\ joining = "joining"
      BY <1>4, <1>5, <2>2 DEF GetPeer
    <3>2. PICK s \in Names : Holds(s, o)
      BY <1>1, <3>1, ListContains DEF ManagerOK, PeersNotLost
    <3>3. QED
      BY <1>11, <3>2
  <2>3. QED
    BY <2>1, <2>2
<1>13. NoSilentStall'
  BY <1>10 DEF NoSilentStall, Holds
<1>14. ManagerOK'
  BY <1>1, <1>4, <1>12, <1>13 DEF ManagerOK, GetPeer
<1>15. ModelsOK' /\ got' \in [Names -> 0 .. ShareEpochs]
  BY <1>1 DEF GetPeer, ModelsOK
<1>16. QED
  BY <1>8, <1>14, <1>15 DEF ShareIInv, ModelsOK, RequestsOK

\* A request that finds no peer, or that has asked too often.
LEMMA NoPeerStep ==
  ASSUME ShareIInv, NEW q \in Names, NoPeer(q) \/ OutOfAttempts(q)
  PROVE  ShareIInv'
<1>1. ModelsOK /\ RequestsOK /\ got \in [Names -> 0 .. ShareEpochs] /\ ManagerOK
  BY ShareIInvParts
<1>2. request[q] \in Requests /\ request[q].at = "next"
  BY <1>1 DEF RequestsOK, NoPeer, OutOfAttempts
<1>3. RequestsOK' /\ \A s \in Names : request[s].at = "asking" => request'[s] = request[s]
  <2>1. CASE NoPeer(q)
    <3> DEFINE r == [request[q] EXCEPT !.attempts = @ + 1]
    <3>1. request[q].attempts + 1 \in 0 .. MaxRequestAttempts
      BY <1>2, <2>1, ShareAssumption DEF NoPeer, Requests
    <3>2. r \in Requests /\ r.at = "next"
      BY <1>2, <3>1 DEF Requests
    <3>3. request' = [request EXCEPT ![q] = r] /\ next' = next
      BY <2>1 DEF NoPeer
    <3> HIDE DEF r
    <3>4. GoodRequest(r)
      BY <3>2 DEF GoodRequest
    <3>5. RequestsOK'
      BY <1>1, <1>2, <3>2, <3>3, <3>4, OneRequestChanges
    <3>6. \A s \in Names : s # q => request'[s] = request[s]
      BY <1>1, <3>3 DEF RequestsOK
    <3>7. QED
      BY <1>2, <3>5, <3>6
  <2>2. CASE OutOfAttempts(q)
    BY <1>1, <2>2 DEF OutOfAttempts, RequestsOK
  <2>3. QED
    BY <2>1, <2>2
<1>4. ManagerOK'
  BY <1>1, <1>3, ManagerUntouched DEF NoPeer, OutOfAttempts
<1>5. ModelsOK' /\ got' \in [Names -> 0 .. ShareEpochs]
  BY <1>1 DEF NoPeer, OutOfAttempts, ModelsOK
<1>6. QED
  BY <1>3, <1>4, <1>5 DEF ShareIInv, ModelsOK, RequestsOK

\* The answer: a ticket gives the peer back, a refusal counts against it.
LEMMA AnswerStep ==
  ASSUME ShareIInv, NEW q \in Names, Answer(q) \/ RequestTimeout(q)
  PROVE  ShareIInv'
<1>1. ModelsOK /\ RequestsOK /\ got \in [Names -> 0 .. ShareEpochs] /\ ManagerOK
  BY ShareIInvParts
<1>2. request[q] \in Requests /\ GoodRequest(request[q])
  BY <1>1 DEF RequestsOK
<1>3. request[q].at = "asking" /\ joining = "joining" /\ next' = next /\ got' = got
  BY DEF Answer, RequestTimeout
<1>4. PICK p \in SharePeers : p = request[q].peer
  BY <1>2, <1>3 DEF GoodRequest
<1>5. share[p] \in Models /\ Valid(share[p])
  BY <1>1 DEF ModelsOK
<1>6. ASSUME request' = [request EXCEPT ![q].at = "next", ![q].attempts = @ + 1], ReportError(p)
      PROVE  RequestsOK' /\ ManagerOK'
  <2> DEFINE r == [request[q] EXCEPT !.at = "next", !.attempts = @ + 1]
  <2>1. request' = [request EXCEPT ![q] = r]
    BY <1>1, <1>2, <1>6 DEF RequestsOK, Requests
  <2>2. r \in Requests /\ GoodRequest(r)
    BY <1>2, <1>3, RetriedRequest
  <2> HIDE DEF r
  <2>3. RequestsOK'
    BY <1>1, <1>3, <2>1, <2>2, OneRequestChanges
  <2>4. \A s \in Names : s # q => request'[s] = request[s]
    BY <1>1, <2>1 DEF RequestsOK
  <2>5. ManagerOK'
    BY <1>1, <1>3, <1>4, <1>6, <2>4, ReportErrorKeeps
  <2>6. QED
    BY <2>3, <2>5
<1>7. CASE Answer(q)
  <2>1. PICK a \in Transmittable(share[p], q) :
           /\ share' = [share EXCEPT ![p] = a.known]
           /\ IF a.version # 0
              THEN /\ request' = [request EXCEPT
                         ![q].at = IF request[q].alone THEN "download" ELSE "ticket",
                         ![q].version = a.version]
                   /\ ReportSuccess(p)
                   /\ UNCHANGED joining
              ELSE /\ request' = [request EXCEPT ![q].at = "next", ![q].attempts = @ + 1]
                   /\ ReportError(p)
    BY <1>4, <1>7 DEF Answer
  <2>2. a.known \in Models /\ Valid(a.known) /\ a.version \in 0 .. ShareEpochs
    BY <1>5, AnswersValid
  <2>3. ModelsOK'
    BY <1>1, <2>1, <2>2, OneModelChanges
  <2>4. CASE a.version # 0
    <3>1. PICK w \in {"download", "ticket"} : w = IF request[q].alone THEN "download" ELSE "ticket"
      OBVIOUS
    <3> DEFINE r == [request[q] EXCEPT !.at = w, !.version = a.version]
    <3>2. request' = [request EXCEPT ![q].at = w, ![q].version = a.version]
      BY <2>1, <2>4, <3>1
    <3>3. request' = [request EXCEPT ![q] = r]
      BY <1>1, <1>2, <3>2 DEF RequestsOK, Requests
    <3>4. r \in Requests /\ r.at = w /\ r.peer = p
      BY <1>2, <1>4, <2>2 DEF Requests, RequestStates
    <3> HIDE DEF r
    <3>5. GoodRequest(r)
      BY <3>4 DEF GoodRequest
    <3>6. RequestsOK'
      BY <1>1, <1>3, <3>3, <3>4, <3>5, OneRequestChanges
    <3>7. \A s \in Names : s # q => request'[s] = request[s]
      BY <1>1, <3>3 DEF RequestsOK
    <3>8. ManagerOK'
      BY <1>1, <1>4, <2>1, <2>4, <3>7, ReportSuccessKeeps
    <3>9. QED
      BY <1>1, <1>3, <2>3, <3>6, <3>8 DEF ShareIInv, ModelsOK, RequestsOK
  <2>5. CASE a.version = 0
    <3>1. RequestsOK' /\ ManagerOK'
      BY <1>6, <2>1, <2>5
    <3>2. QED
      BY <1>1, <1>3, <2>3, <3>1 DEF ShareIInv, ModelsOK, RequestsOK
  <2>6. QED
    BY <2>4, <2>5
<1>8. CASE RequestTimeout(q)
  <2>1. RequestsOK' /\ ManagerOK'
    BY <1>4, <1>6, <1>8 DEF RequestTimeout
  <2>2. ModelsOK'
    BY <1>1, <1>8 DEF RequestTimeout, ModelsOK
  <2>3. QED
    BY <1>1, <1>3, <2>1, <2>2 DEF ShareIInv, ModelsOK, RequestsOK
<1>9. QED
  BY <1>7, <1>8

\* A download ends: the parameter is there, or the peer is reported and asked again.
LEMMA DownloadStep ==
  ASSUME ShareIInv, NEW q \in Names, DownloadCompletes(q) \/ DownloadFails(q)
  PROVE  ShareIInv'
<1>1. ModelsOK /\ RequestsOK /\ got \in [Names -> 0 .. ShareEpochs] /\ ManagerOK
  BY ShareIInvParts
<1>2. request[q] \in Requests /\ GoodRequest(request[q])
  BY <1>1 DEF RequestsOK
<1>3. /\ request[q].at = "download" /\ joining = "joining" /\ next' = next
      /\ share' = share
  BY DEF DownloadCompletes, DownloadFails
<1>4. PICK p \in SharePeers : p = request[q].peer
  BY <1>2, <1>3 DEF GoodRequest
<1>5. PICK r \in Requests : GoodRequest(r) /\ request' = [request EXCEPT ![q] = r]
  <2>1. CASE DownloadCompletes(q)
    BY <2>1, EmptyRequests DEF DownloadCompletes, GoodRequest
  <2>2. CASE DownloadFails(q)
    BY <2>2, EmptyRequests DEF DownloadFails
  <2>3. QED
    BY <2>1, <2>2
<1>6. RequestsOK'
  BY <1>1, <1>3, <1>5, OneRequestChanges
<1>7. \A s \in Names : s # q => request'[s] = request[s]
  BY <1>1, <1>5 DEF RequestsOK
<1>8. got' \in [Names -> 0 .. ShareEpochs]
  BY <1>1, <1>2 DEF DownloadCompletes, DownloadFails, Requests
<1>9. ManagerOK'
  <2>1. CASE DownloadCompletes(q)
    <3>1. joining' \in {joining, "complete", "cancelled"} /\ UNCHANGED <<available, errors>>
      BY <2>1 DEF DownloadCompletes
    <3>2. QED
      BY <1>1, <1>3, <1>7, <3>1, ManagerUntouched
  <2>2. CASE DownloadFails(q)
    <3>1. ReportError(p)
      BY <1>4, <2>2 DEF DownloadFails
    <3>2. QED
      BY <1>1, <1>3, <1>7, <3>1, ReportErrorKeeps
  <2>3. QED
    BY <2>1, <2>2
<1>10. QED
  BY <1>1, <1>3, <1>6, <1>8, <1>9 DEF ShareIInv, ModelsOK, RequestsOK

\* A joining client collects a model from peers that err and that move on: no usable
\* peer drops out, no request waits for nobody, and no old ticket is handed out.
THEOREM ModelCollectedFromPeers == ShareSpec => []SharingInv
<1>1. ShareInit => ShareIInv
  BY ShareInitially
<1>2. ShareIInv /\ [ShareNext]_shareVars => ShareIInv'
  <2> SUFFICES ASSUME ShareIInv, [ShareNext]_shareVars PROVE ShareIInv'
    OBVIOUS
  <2>1. ASSUME NEW q \in Names, RequestStep(q) PROVE ShareIInv'
    BY <2>1, GetPeerStep, NoPeerStep, AnswerStep, DownloadStep DEF RequestStep
  <2>2. CASE UNCHANGED shareVars
    BY <2>2 DEF shareVars, ShareIInv, ManagerOK, PeersNotLost, NoSilentStall, Holds
  <2>3. QED
    BY <2>1, <2>2, PeerStep, SpawnStep, StartDownloadsStep DEF ShareNext
<1>3. ShareIInv => SharingInv
  BY ShareIInvImplies
<1>4. QED
  BY <1>1, <1>2, <1>3, PTL DEF ShareSpec

-----------------------------------------------------------------------------
(* The fetching of data. *)

Tasks == [step : 0 .. FetchSteps, left : 0 .. StepBatches,
          pc : {"pop", "request", "receive", "send", "done", "failed"},
          retry_count : 0 .. FetchRetries, data : Batches]
Samples == [id : Batches, data : Batches]
Counts == 0 .. FetchRetries

\* The requests whose answers the client has not read, in the order of the connection.
Outstanding == Len(answered) + Len(asked)
Asked(k) == IF k <= Len(answered) THEN answered[k].data_ids ELSE asked[k - Len(answered)]

\* The present request, when it is on its way.
Own == IF fetch.pc = "receive" THEN 1 ELSE 0

\* As long as the server is up and rejects nothing: the aborted tasks left one answer
\* each, and the last requests are the ones for the present batch.
Leftovers ==
  dataServer.up /\ ~refusals =>
     /\ \A k \in DOMAIN answered : answered[k].kind = "TrainingData"
     /\ Outstanding <= aborts + Own
     /\ fetch.pc \in {"request", "receive"} =>
           \A k \in 1 .. Outstanding : k > Outstanding - fetch.retry_count - Own => Asked(k) = BatchId

\* The inductive invariant.
FetchIInv ==
  /\ FetchInv
  /\ aborts <= fetch.step
  /\ fetch.pc \in {"request", "receive", "send"} => fetch.left < StepBatches
  /\ fetch.pc = "send" => fetch.data = BatchId
  /\ Leftovers

\* Nothing is asked at first.
LEMMA FetchInitially == FetchInit => FetchIInv
<1> SUFFICES ASSUME FetchInit PROVE FetchIInv
  OBVIOUS
<1> USE FetchAssumption DEF FetchInit
<1>1. fetch \in Tasks
  BY DEF Tasks, Batches
<1>2. FetchTypeOK
  <2>1. samples \in Seq(Samples) /\ Len(samples) = 0 /\ asked \in Seq(Batches) /\ answered \in Seq(Answers)
    OBVIOUS
  <2>2. Len(samples) <= SampleBuffer /\ aborts \in 0 .. FetchSteps
    BY <2>1
  <2>3. refusals \in BOOLEAN
    OBVIOUS
  <2>4. dataServer \in [up : BOOLEAN, in_round : BOOLEAN]
    OBVIOUS
  <2>5. QED
    BY <1>1, <2>1, <2>2, <2>3, <2>4 DEF FetchTypeOK, Tasks, Samples
<1>3. Leftovers
  BY DEF Leftovers, Outstanding, Own
<1>4. QED
  BY <1>2, <1>3 DEF FetchIInv, FetchInv, SamplesOfTheBatch, GivesUpForAReason

\* A task stays one through the changes that the steps make.
LEMMA TasksChange ==
  ASSUME NEW f \in Tasks, NEW p \in {"pop", "request", "receive", "send", "done", "failed"}
  PROVE  /\ [f EXCEPT !.pc = p] \in Tasks
         /\ \A s \in 0 .. FetchSteps, l \in 0 .. StepBatches :
               [f EXCEPT !.step = s, !.left = l, !.pc = p] \in Tasks
         /\ \A l \in 0 .. StepBatches, r \in Counts :
               [f EXCEPT !.pc = p, !.left = l, !.retry_count = r] \in Tasks
         /\ \A r \in Counts : [f EXCEPT !.pc = p, !.retry_count = r] \in Tasks
         /\ \A d \in Batches : [f EXCEPT !.pc = p, !.data = d] \in Tasks
BY DEF Tasks, Counts

\* The types of the invariant, one by one.
LEMMA FetchTypes ==
  ASSUME FetchIInv
  PROVE  /\ fetch \in Tasks /\ samples \in Seq(Samples) /\ asked \in Seq(Batches)
         /\ answered \in Seq(Answers) /\ aborts \in 0 .. FetchSteps
         /\ fetch.step \in 0 .. FetchSteps /\ fetch.left \in 0 .. StepBatches
         /\ fetch.retry_count \in Counts /\ fetch.data \in Batches
         /\ FetchSteps \in Nat /\ StepBatches \in Nat /\ FetchRetries \in Nat
         /\ Len(answered) \in Nat /\ Len(asked) \in Nat
         /\ dataServer \in [up : BOOLEAN, in_round : BOOLEAN] /\ refusals \in BOOLEAN
         /\ fetch.pc \in {"pop", "request", "receive", "send", "done", "failed"}
         /\ fetch.pc \in {"request", "receive", "send"} => BatchId \in Batches
<1>1. /\ fetch \in Tasks /\ samples \in Seq(Samples) /\ asked \in Seq(Batches)
      /\ answered \in Seq(Answers) /\ aborts \in 0 .. FetchSteps
      /\ dataServer \in [up : BOOLEAN, in_round : BOOLEAN] /\ refusals \in BOOLEAN
      /\ FetchSteps \in Nat /\ StepBatches \in Nat /\ FetchRetries \in Nat
  BY FetchAssumption DEF FetchIInv, FetchInv, FetchTypeOK, Tasks, Samples
<1>2. /\ fetch.step \in 0 .. FetchSteps /\ fetch.left \in 0 .. StepBatches
      /\ fetch.retry_count \in Counts /\ fetch.data \in Batches
      /\ fetch.pc \in {"pop", "request", "receive", "send", "done", "failed"}
  BY <1>1 DEF Tasks, Counts
<1>3. fetch.pc \in {"request", "receive", "send"} => BatchId \in Batches
  BY SMTT(30), <1>1, <1>2 DEF FetchIInv, BatchId, Batches
<1>4. QED
  BY <1>1, <1>2, <1>3, Elements

\* A step that leaves the connection alone.
LEMMA SameConnection ==
  ASSUME UNCHANGED <<asked, answered>>
  PROVE  Outstanding' = Outstanding /\ \A k : Asked(k)' = Asked(k)
BY DEF Outstanding, Asked

\* A new step aborts the task of the one before.
LEMMA FetchDataStep == FetchIInv /\ FetchData => FetchIInv'
<1> SUFFICES ASSUME FetchIInv, FetchData PROVE FetchIInv'
  OBVIOUS
<1>1. /\ fetch' = [fetch EXCEPT !.step = fetch.step + 1, !.left = StepBatches, !.pc = "pop"]
      /\ samples' = <<>> /\ aborts' = IF fetch.pc = "receive" THEN aborts + 1 ELSE aborts
      /\ UNCHANGED <<asked, answered, dataServer, refusals>> /\ fetch.step < FetchSteps
  BY DEF FetchData
<1>2. fetch.step + 1 \in 0 .. FetchSteps /\ StepBatches \in 0 .. StepBatches
  BY SMTT(30), <1>1, FetchTypes
<1>3. fetch' \in Tasks
  BY <1>1, <1>2, FetchTypes, TasksChange
<1>4. fetch'.step = fetch.step + 1 /\ fetch'.pc = "pop"
  BY <1>1, FetchTypes DEF Tasks
<1>5. aborts' \in 0 .. FetchSteps /\ aborts' <= fetch'.step /\ aborts' = aborts + Own
  BY <1>1, <1>4, FetchTypes DEF FetchIInv, Own
<1>6. FetchTypeOK'
  BY <1>1, <1>3, <1>5, FetchTypes, FetchAssumption DEF FetchIInv, FetchInv, FetchTypeOK, Tasks
<1>7. Leftovers'
  <2>1. Outstanding' = Outstanding /\ Own' = 0 /\ aborts' \in Nat
    BY <1>1, <1>4, <1>5, SameConnection, FetchTypes DEF Own
  <2>2. QED
    BY <1>1, <1>4, <1>5, <2>1 DEF Leftovers, FetchIInv
<1>8. QED
  BY <1>1, <1>4, <1>5, <1>6, <1>7 DEF FetchIInv, FetchInv, SamplesOfTheBatch, GivesUpForAReason

\* The task takes its next batch.
LEMMA PopBatchStep == FetchIInv /\ PopBatch => FetchIInv'
<1> SUFFICES ASSUME FetchIInv, PopBatch PROVE FetchIInv'
  OBVIOUS
<1>1. /\ fetch.pc = "pop"
      /\ \/ fetch.left = 0 /\ fetch' = [fetch EXCEPT !.pc = "done"]
         \/ fetch.left # 0 /\ fetch' = [fetch EXCEPT !.pc = "request", !.left = fetch.left - 1, !.retry_count = 0]
      /\ UNCHANGED <<samples, asked, answered, dataServer, aborts, refusals>>
  BY DEF PopBatch
<1>2. /\ fetch' \in Tasks /\ fetch'.step = fetch.step
      /\ \/ fetch'.pc = "done"
         \/ fetch'.pc = "request" /\ fetch'.left = fetch.left - 1 /\ fetch'.retry_count = 0
            /\ fetch'.left < StepBatches
  <2>1. CASE fetch.left = 0
    <3>1. fetch' = [fetch EXCEPT !.pc = "done"] /\ fetch \in Tasks
      BY SMTT(30), <1>1, <2>1, FetchTypes
    <3>2. fetch' \in Tasks
      BY <3>1, TasksChange
    <3>3. fetch'.pc = "done" /\ fetch'.step = fetch.step
      BY <3>1 DEF Tasks
    <3>4. QED
      BY <3>2, <3>3
  <2>2. CASE fetch.left # 0
    <3>0. fetch' = [fetch EXCEPT !.pc = "request", !.left = fetch.left - 1, !.retry_count = 0]
          /\ fetch \in Tasks
      BY <1>1, <2>2, FetchTypes
    <3>1. fetch.left - 1 \in 0 .. StepBatches /\ 0 \in Counts
      BY SMTT(30), <2>2, FetchTypes DEF Counts
    <3>2. fetch' \in Tasks
      BY <3>0, <3>1, TasksChange
    <3>3. fetch'.step = fetch.step /\ fetch'.pc = "request" /\ fetch'.left = fetch.left - 1 /\ fetch'.retry_count = 0
      BY <3>0 DEF Tasks
    <3>4. fetch.left - 1 < StepBatches
      BY FetchTypes
    <3>5. QED
      BY <3>2, <3>3, <3>4
  <2>3. QED
    BY <2>1, <2>2
<1>3. FetchTypeOK'
  BY <1>1, <1>2, FetchTypes DEF FetchIInv, FetchInv, FetchTypeOK, Tasks
<1>4. Leftovers'
  <2>1. Outstanding' = Outstanding /\ Own' = 0 /\ Own = 0 /\ Outstanding \in Nat
    BY <1>1, <1>2, SameConnection, FetchTypes DEF Own, Outstanding
  <2>2. \A k \in 1 .. Outstanding' : ~(k > Outstanding' - 0 - Own')
    BY <2>1
  <2>3. QED
    BY <1>1, <1>2, <2>1, <2>2 DEF Leftovers, FetchIInv
<1>5. QED
  BY <1>1, <1>2, <1>3, <1>4 DEF FetchIInv, FetchInv, SamplesOfTheBatch, GivesUpForAReason

\* After an error the task asks again, or gives up.
LEMMA AfterErrorType ==
  ASSUME FetchIInv
  PROVE  /\ AfterError \in Tasks /\ AfterError.step = fetch.step /\ AfterError.left = fetch.left
         /\ \/ /\ fetch.retry_count < FetchRetries /\ AfterError.pc = "request"
               /\ AfterError.retry_count = fetch.retry_count + 1
            \/ fetch.retry_count = FetchRetries /\ AfterError.pc = "failed"
<1>0. fetch \in Tasks /\ fetch.retry_count \in Counts /\ FetchRetries \in Nat
  BY FetchTypes
<1>1. CASE fetch.retry_count < FetchRetries
  <2>1. AfterError = [fetch EXCEPT !.pc = "request", !.retry_count = fetch.retry_count + 1]
    BY <1>1 DEF AfterError
  <2>2. fetch.retry_count + 1 \in Counts
    BY SMTT(30), <1>0, <1>1 DEF Counts
  <2>3. AfterError \in Tasks
    BY <1>0, <2>1, <2>2, TasksChange
  <2>4. QED
    BY <1>0, <1>1, <2>1, <2>3 DEF Tasks
<1>2. CASE ~(fetch.retry_count < FetchRetries)
  <2>1. AfterError = [fetch EXCEPT !.pc = "failed"]
    BY SMTT(30), <1>2 DEF AfterError
  <2>2. AfterError \in Tasks
    BY <1>0, <2>1, TasksChange
  <2>3. fetch.retry_count = FetchRetries
    BY <1>0, <1>2 DEF Counts
  <2>4. QED
    BY <1>0, <2>1, <2>2, <2>3 DEF Tasks
<1>3. QED
  BY <1>1, <1>2

\* With the server gone nothing is claimed about the connection.
LEMMA ServerGone ==
  ASSUME FetchIInv, ~dataServer'.up, fetch' = AfterError, FetchTypeOK',
         fetch.pc \in {"request", "receive"}, UNCHANGED <<samples, aborts>>
  PROVE  FetchIInv'
<1>1. Leftovers'
  BY DEF Leftovers
<1>2. fetch'.step = fetch.step /\ fetch'.left = fetch.left /\ fetch'.pc \in {"request", "failed"}
  BY AfterErrorType
<1>3. QED
  BY <1>1, <1>2 DEF FetchIInv, FetchInv, SamplesOfTheBatch, GivesUpForAReason

\* A request goes out.
LEMMA SendRequestStep == FetchIInv /\ SendRequest => FetchIInv'
<1> SUFFICES ASSUME FetchIInv, SendRequest PROVE FetchIInv'
  OBVIOUS
<1>1. fetch.pc = "request" /\ UNCHANGED <<samples, answered, dataServer, aborts, refusals>>
  BY DEF SendRequest
<1>2. CASE ~dataServer.up
  <2>1. fetch' = AfterError /\ UNCHANGED asked
    BY <1>2 DEF SendRequest
  <2>2. FetchTypeOK'
    BY <1>1, <2>1, AfterErrorType DEF FetchIInv, FetchInv, FetchTypeOK, Tasks
  <2>3. QED
    BY <1>1, <1>2, <2>1, <2>2, ServerGone
<1>3. CASE dataServer.up
  <2>1. asked' = Append(asked, BatchId) /\ fetch' = [fetch EXCEPT !.pc = "receive"]
    BY <1>3 DEF SendRequest
  <2>2. fetch \in Tasks /\ BatchId \in Batches /\ asked \in Seq(Batches)
    BY SMTT(30), <1>1, FetchTypes
  <2>3. fetch' \in Tasks
    BY <2>1, <2>2, TasksChange
  <2>4. /\ fetch'.pc = "receive" /\ fetch'.step = fetch.step /\ fetch'.left = fetch.left
        /\ fetch'.retry_count = fetch.retry_count
    BY <2>1, <2>2 DEF Tasks
  <2>5. /\ asked' \in Seq(Batches) /\ Len(asked') = Len(asked) + 1
        /\ \A i \in 1 .. Len(asked) : asked'[i] = asked[i]
        /\ asked'[Len(asked) + 1] = BatchId
    BY <2>1, <2>2, AppendToSequence
  <2>6. FetchTypeOK'
    BY <1>1, <2>3, <2>5 DEF FetchIInv, FetchInv, FetchTypeOK, Tasks
  <2>7. Own = 0 /\ Own' = 1 /\ Outstanding' = Outstanding + 1 /\ BatchId' = BatchId
        /\ Outstanding \in Nat /\ Len(answered) \in Nat /\ Len(asked) \in Nat
    BY <1>1, <2>4, <2>5, FetchTypes DEF Own, Outstanding, BatchId
  <2>8. \A k \in 1 .. Outstanding : Asked(k)' = Asked(k)
    <3> TAKE k \in 1 .. Outstanding
    <3>1. CASE k <= Len(answered)
      BY <1>1, <3>1 DEF Asked
    <3>2. CASE ~(k <= Len(answered))
      <4>1. k - Len(answered) \in 1 .. Len(asked)
        BY <2>7, <3>2 DEF Outstanding
      <4>2. QED
        BY <1>1, <2>5, <3>2, <4>1 DEF Asked
    <3>3. QED
      BY <3>1, <3>2
  <2>9. \A k \in Int : k = Outstanding + 1 => Asked(k)' = BatchId
    <3>1. Outstanding + 1 - Len(answered) = Len(asked) + 1 /\ ~(Outstanding + 1 <= Len(answered))
      BY <2>7 DEF Outstanding
    <3>2. QED
      BY <1>1, <2>5, <2>7, <3>1 DEF Asked
  <2>10. Leftovers'
    <3>1. SUFFICES ASSUME ~refusals
                   PROVE  /\ \A k \in DOMAIN answered : answered[k].kind = "TrainingData"
                          /\ Outstanding + 1 <= aborts + 1
                          /\ \A k \in 1 .. Outstanding + 1 :
                               k > Outstanding + 1 - fetch.retry_count - 1 => Asked(k)' = BatchId
      <4>1. Outstanding' - fetch'.retry_count - Own' = Outstanding + 1 - fetch.retry_count - 1
        <5>1. fetch.retry_count \in Int
          BY FetchTypes DEF Counts
        <5>2. QED
          BY <2>4, <2>7, <5>1
      <4>2. QED
        BY <1>1, <2>7, <4>1 DEF Leftovers
    <3>2. /\ \A k \in DOMAIN answered : answered[k].kind = "TrainingData"
          /\ Outstanding <= aborts + 0
          /\ \A k \in 1 .. Outstanding : k > Outstanding - fetch.retry_count - 0 => Asked(k) = BatchId
      BY <1>1, <1>3, <2>7, <3>1 DEF FetchIInv, Leftovers
    <3>3. aborts \in Int /\ fetch.retry_count \in Int
      BY FetchTypes DEF Counts
    <3>4. \A k \in 1 .. Outstanding + 1 :
             k > Outstanding + 1 - fetch.retry_count - 1 => Asked(k)' = BatchId
      <4> TAKE k \in 1 .. Outstanding + 1
      <4>1. CASE k = Outstanding + 1
        BY <2>9, <4>1
      <4>2. CASE k \in 1 .. Outstanding
        BY <2>7, <2>8, <3>2, <3>3, <4>2
      <4>3. QED
        BY <2>7, <4>1, <4>2
    <3>5. QED
      BY <2>7, <3>2, <3>3, <3>4
  <2>11. QED
    BY <1>1, <2>4, <2>6, <2>7, <2>10 DEF FetchIInv, FetchInv, SamplesOfTheBatch, GivesUpForAReason
<1>4. QED
  BY <1>2, <1>3

\* An answer comes in, of a request that may have been aborted.
LEMMA ReceiveAnswerStep == FetchIInv /\ ReceiveAnswer => FetchIInv'
<1> SUFFICES ASSUME FetchIInv, ReceiveAnswer PROVE FetchIInv'
  OBVIOUS
<1>1. fetch.pc = "receive" /\ UNCHANGED <<samples, asked, dataServer, aborts, refusals>>
  BY DEF ReceiveAnswer
<1>2. CASE answered = <<>> /\ ~dataServer.up /\ fetch' = AfterError /\ UNCHANGED answered
  <2>1. FetchTypeOK'
    BY <1>1, <1>2, AfterErrorType DEF FetchIInv, FetchInv, FetchTypeOK, Tasks
  <2>2. QED
    BY <1>1, <1>2, <2>1, ServerGone
<1>3. CASE answered # <<>> /\ answered' = Tail(answered)
           /\ fetch' = IF Matches(Head(answered))
                       THEN [fetch EXCEPT !.pc = "send", !.data = Head(answered).data_ids]
                       ELSE AfterError
  <2>1. answered \in Seq(Answers) /\ fetch \in Tasks /\ BatchId \in Batches
        /\ Len(answered) \in Nat /\ Len(asked) \in Nat
    BY <1>1, FetchTypes
  <2>2. /\ Head(answered) = answered[1] /\ Head(answered) \in Answers /\ 1 \in DOMAIN answered
        /\ answered' \in Seq(Answers) /\ Len(answered') = Len(answered) - 1
        /\ \A i \in DOMAIN answered' :
               i \in Nat \ {0} /\ i + 1 \in DOMAIN answered /\ answered'[i] = answered[i + 1]
        /\ DOMAIN answered' = 1 .. Len(answered')
    BY <1>3, <2>1, TailOfSequence, Elements
  <2>3. Own = 1 /\ Outstanding' = Outstanding - 1 /\ Outstanding \in Nat \ {0}
        /\ Asked(1) = Head(answered).data_ids
    <3>1. Len(answered) >= 1
      BY <2>1, <2>2
    <3>2. QED
      BY <1>1, <2>1, <2>2, <3>1 DEF Own, Outstanding, Asked
  <2>4. \A k \in 1 .. Outstanding - 1 : Asked(k)' = Asked(k + 1)
    <3> TAKE k \in 1 .. Outstanding - 1
    <3>1. CASE k <= Len(answered) - 1
      <4>1. k \in DOMAIN answered' /\ k <= Len(answered') /\ k + 1 <= Len(answered)
        BY <2>1, <2>2, <3>1
      <4>2. QED
        BY <2>2, <4>1 DEF Asked
    <3>2. CASE ~(k <= Len(answered) - 1)
      <4>1. ~(k <= Len(answered')) /\ ~(k + 1 <= Len(answered))
            /\ k - Len(answered') = (k + 1) - Len(answered)
        BY <2>1, <2>2, <3>2
      <4>2. QED
        BY <1>1, <4>1 DEF Asked
    <3>3. QED
      BY <3>1, <3>2
  <2>5. CASE Matches(Head(answered))
    <3>1. Head(answered).data_ids = BatchId
      BY <2>5 DEF Matches
    <3>2. fetch' = [fetch EXCEPT !.pc = "send", !.data = BatchId]
      BY <1>3, <2>5, <3>1
    <3>3. fetch' \in Tasks
      BY <2>1, <3>2, TasksChange
    <3>4. fetch'.pc = "send" /\ fetch'.data = BatchId /\ fetch'.step = fetch.step
          /\ fetch'.left = fetch.left
      BY <2>1, <3>2 DEF Tasks
    <3>5. FetchTypeOK'
      BY <1>1, <2>2, <3>3 DEF FetchIInv, FetchInv, FetchTypeOK, Tasks
    <3>6. Leftovers'
      <4>1. Own' = 0
        BY <3>4 DEF Own
      <4>2. aborts \in Int
        BY FetchTypes
      <4>3. QED
        BY <1>1, <2>2, <2>3, <3>4, <4>1, <4>2 DEF FetchIInv, Leftovers
    <3>7. BatchId' = BatchId
      BY <3>4 DEF BatchId
    <3>8. QED
      BY <1>1, <3>4, <3>5, <3>6, <3>7 DEF FetchIInv, FetchInv, SamplesOfTheBatch, GivesUpForAReason
  <2>6. CASE ~Matches(Head(answered))
    <3>1. fetch' = AfterError
      BY <1>3, <2>6
    <3>2. /\ fetch' \in Tasks /\ fetch'.step = fetch.step /\ fetch'.left = fetch.left
          /\ \/ /\ fetch.retry_count < FetchRetries /\ fetch'.pc = "request"
                /\ fetch'.retry_count = fetch.retry_count + 1
             \/ fetch.retry_count = FetchRetries /\ fetch'.pc = "failed"
      BY <3>1, AfterErrorType
    <3>3. FetchTypeOK'
      BY <1>1, <2>2, <3>2 DEF FetchIInv, FetchInv, FetchTypeOK, Tasks
    <3>4. Own' = 0 /\ BatchId' = BatchId /\ aborts \in Int /\ fetch.retry_count \in Int /\ FetchRetries \in Int
      BY <3>2, FetchTypes DEF Own, BatchId, Counts
    <3>5. ASSUME dataServer.up, ~refusals
          PROVE  /\ \A k \in DOMAIN answered : answered[k].kind = "TrainingData"
                 /\ Outstanding <= aborts + 1
                 /\ \A k \in 1 .. Outstanding :
                       k > Outstanding - fetch.retry_count - 1 => Asked(k) = BatchId
                 /\ Outstanding >= fetch.retry_count + 2
      <4>1. /\ \A k \in DOMAIN answered : answered[k].kind = "TrainingData"
            /\ Outstanding <= aborts + 1
            /\ \A k \in 1 .. Outstanding :
                  k > Outstanding - fetch.retry_count - 1 => Asked(k) = BatchId
        BY <1>1, <2>3, <3>5 DEF FetchIInv, Leftovers
      <4>2. Asked(1) # BatchId
        BY <2>2, <2>3, <2>6, <4>1 DEF Matches
      <4>3. 1 \in 1 .. Outstanding
        BY <2>3
      <4>4. ~(1 > Outstanding - fetch.retry_count - 1)
        BY <4>1, <4>2, <4>3
      <4>5. QED
        BY <2>3, <3>4, <4>1, <4>4
    <3>6. GivesUpForAReason'
      <4>1. SUFFICES ASSUME fetch'.pc = "failed", dataServer.up, ~refusals
                     PROVE  aborts > FetchRetries
        BY <1>1 DEF GivesUpForAReason
      <4>2. fetch.retry_count = FetchRetries
        BY <3>2, <4>1
      <4>3. QED
        BY <2>3, <3>4, <3>5, <4>1, <4>2
    <3>7. Leftovers'
      <4>1. SUFFICES ASSUME dataServer.up, ~refusals
                     PROVE  /\ \A k \in DOMAIN answered' : answered'[k].kind = "TrainingData"
                            /\ Outstanding - 1 <= aborts
                            /\ fetch'.pc \in {"request", "receive"} =>
                                 \A k \in 1 .. Outstanding - 1 :
                                    k > Outstanding - 1 - fetch'.retry_count - 0 => Asked(k)' = BatchId
        BY <1>1, <2>3, <3>4 DEF Leftovers
      <4>2. \A k \in DOMAIN answered' : answered'[k].kind = "TrainingData"
        BY <2>2, <3>5, <4>1
      <4>3. Outstanding - 1 <= aborts
        BY <2>3, <3>4, <3>5, <4>1
      <4>4. ASSUME fetch'.pc \in {"request", "receive"}, NEW k \in 1 .. Outstanding - 1,
                   k > Outstanding - 1 - fetch'.retry_count - 0
            PROVE  Asked(k)' = BatchId
        <5>1. fetch'.retry_count = fetch.retry_count + 1
          BY <3>2, <4>4
        <5>2. k + 1 \in 1 .. Outstanding /\ k + 1 > Outstanding - fetch.retry_count - 1
          BY <2>3, <3>4, <4>4, <5>1
        <5>3. QED
          BY <2>4, <3>5, <4>1, <5>2
      <4>5. QED
        BY <4>2, <4>3, <4>4
    <3>8. fetch'.pc \in {"request", "failed"}
      BY <3>2
    <3>9. QED
      BY <1>1, <3>2, <3>3, <3>6, <3>7, <3>8 DEF FetchIInv, FetchInv, SamplesOfTheBatch
  <2>7. QED
    BY <2>5, <2>6
<1>4. QED
  BY <1>2, <1>3 DEF ReceiveAnswer

\* The samples of a batch go to the trainer.
LEMMA SendSampleStep == FetchIInv /\ SendSample => FetchIInv'
<1> SUFFICES ASSUME FetchIInv, SendSample PROVE FetchIInv'
  OBVIOUS
<1>1. /\ fetch.pc = "send" /\ Len(samples) < SampleBuffer
      /\ samples' = Append(samples, [id |-> BatchId, data |-> fetch.data])
      /\ fetch' = [fetch EXCEPT !.pc = "pop"]
      /\ UNCHANGED <<asked, answered, dataServer, aborts, refusals>>
  BY DEF SendSample
<1>2. fetch \in Tasks /\ BatchId \in Batches /\ fetch.data = BatchId /\ samples \in Seq(Samples)
  BY SMTT(30), <1>1, FetchTypes DEF FetchIInv
<1>3. fetch' \in Tasks
  BY <1>1, <1>2, TasksChange
<1>4. fetch'.pc = "pop" /\ fetch'.step = fetch.step
  BY <1>1, <1>2 DEF Tasks
<1>5. [id |-> BatchId, data |-> fetch.data] \in Samples
  BY <1>2 DEF Samples
<1>6. /\ samples' \in Seq(Samples) /\ Len(samples') = Len(samples) + 1
      /\ DOMAIN samples' = 1 .. Len(samples) + 1 /\ DOMAIN samples = 1 .. Len(samples)
      /\ \A i \in 1 .. Len(samples) : samples'[i] = samples[i]
      /\ samples'[Len(samples) + 1] = [id |-> BatchId, data |-> fetch.data]
      /\ Len(samples) \in Nat
  BY <1>1, <1>2, <1>5, AppendToSequence, Elements
<1>7. FetchTypeOK'
  <2>1. Len(samples') <= SampleBuffer
    BY <1>1, <1>6, FetchAssumption
  <2>2. QED
    BY <1>1, <1>3, <1>6, <2>1 DEF FetchIInv, FetchInv, FetchTypeOK, Tasks, Samples
<1>8. SamplesOfTheBatch'
  <2>1. \A i \in 1 .. Len(samples) : samples[i].id = samples[i].data
    BY <1>6 DEF FetchIInv, FetchInv, SamplesOfTheBatch
  <2>2. samples'[Len(samples) + 1].id = samples'[Len(samples) + 1].data
    BY <1>2, <1>6
  <2>3. QED
    BY <1>6, <2>1, <2>2 DEF SamplesOfTheBatch
<1>9. Leftovers'
  <2>1. Outstanding' = Outstanding /\ Own' = Own
    BY <1>1, <1>4, SameConnection DEF Own
  <2>2. QED
    BY <1>1, <1>4, <2>1 DEF Leftovers, FetchIInv
<1>10. QED
  BY <1>1, <1>4, <1>7, <1>8, <1>9 DEF FetchIInv, FetchInv, GivesUpForAReason

\* The trainer takes a batch.
LEMMA TakeSampleStep == FetchIInv /\ TakeSample => FetchIInv'
<1> SUFFICES ASSUME FetchIInv, TakeSample PROVE FetchIInv'
  OBVIOUS
<1>1. /\ samples # <<>> /\ samples' = Tail(samples)
      /\ UNCHANGED <<fetch, asked, answered, dataServer, aborts, refusals>>
  BY DEF TakeSample
<1>2. samples \in Seq(Samples)
  BY FetchTypes
<1>3. /\ samples' \in Seq(Samples) /\ Len(samples') = Len(samples) - 1
      /\ \A i \in DOMAIN samples' : i + 1 \in DOMAIN samples /\ samples'[i] = samples[i + 1]
  BY <1>1, <1>2, TailOfSequence
<1>4. FetchTypeOK'
  <2>1. Len(samples') <= SampleBuffer
    BY <1>2, <1>3, FetchAssumption, Elements DEF FetchIInv, FetchInv, FetchTypeOK
  <2>2. QED
    BY <1>1, <1>3, <2>1 DEF FetchIInv, FetchInv, FetchTypeOK, Samples
<1>5. SamplesOfTheBatch'
  BY <1>3 DEF FetchIInv, FetchInv, SamplesOfTheBatch
<1>6. BatchId' = BatchId /\ Leftovers'
  <2>1. Outstanding' = Outstanding /\ (\A k : Asked(k)' = Asked(k)) /\ Own' = Own /\ BatchId' = BatchId
    BY <1>1, SameConnection DEF Own, BatchId
  <2>2. QED
    BY <1>1, <2>1 DEF Leftovers, FetchIInv
<1>7. QED
  BY <1>1, <1>4, <1>5, <1>6 DEF FetchIInv, FetchInv, GivesUpForAReason

\* The data server answers its next request.
LEMMA ProvideStep == FetchIInv /\ Provide => FetchIInv'
<1> SUFFICES ASSUME FetchIInv, Provide PROVE FetchIInv'
  OBVIOUS
<1> DEFINE answer == [kind |-> IF dataServer.in_round THEN "TrainingData" ELSE "RequestRejected",
                      data_ids |-> Head(asked)]
<1>1. /\ asked # <<>> /\ asked' = Tail(asked) /\ answered' = Append(answered, answer)
      /\ refusals' = (refusals \/ ~dataServer.in_round)
      /\ UNCHANGED <<fetch, samples, dataServer, aborts>>
  BY DEF Provide
<1>2. asked \in Seq(Batches) /\ answered \in Seq(Answers) /\ Len(answered) \in Nat /\ Len(asked) \in Nat
  BY FetchTypes
<1>3. /\ Head(asked) = asked[1] /\ Head(asked) \in Batches
      /\ asked' \in Seq(Batches) /\ Len(asked') = Len(asked) - 1 /\ DOMAIN asked' = 1 .. Len(asked')
      /\ \A i \in DOMAIN asked' : asked'[i] = asked[i + 1]
  BY <1>1, <1>2, TailOfSequence, Elements
<1>4. answer \in Answers /\ answer.data_ids = asked[1]
      /\ (dataServer.in_round => answer.kind = "TrainingData")
  BY <1>3 DEF Answers
<1> HIDE DEF answer
<1>5. /\ answered' \in Seq(Answers) /\ Len(answered') = Len(answered) + 1
      /\ DOMAIN answered' = 1 .. Len(answered) + 1 /\ DOMAIN answered = 1 .. Len(answered)
      /\ \A i \in 1 .. Len(answered) : answered'[i] = answered[i]
      /\ answered'[Len(answered) + 1] = answer
  BY <1>1, <1>2, <1>4, AppendToSequence, Elements
<1>6. refusals' \in BOOLEAN
  BY <1>1
<1>7. FetchTypeOK'
  BY <1>1, <1>3, <1>5, <1>6 DEF FetchIInv, FetchInv, FetchTypeOK
<1>8. Outstanding' = Outstanding /\ Own' = Own /\ BatchId' = BatchId
  BY <1>1, <1>2, <1>3, <1>5 DEF Outstanding, Own, BatchId
<1>9. \A k \in 1 .. Outstanding : Asked(k)' = Asked(k)
  <2> TAKE k \in 1 .. Outstanding
  <2>1. CASE k <= Len(answered)
    <3>1. k \in 1 .. Len(answered) /\ k <= Len(answered')
      BY <1>2, <1>5, <2>1
    <3>2. QED
      BY <1>5, <2>1, <3>1 DEF Asked
  <2>2. CASE k = Len(answered) + 1
    <3>1. k <= Len(answered') /\ ~(k <= Len(answered)) /\ k - Len(answered) = 1
      BY <1>2, <1>5, <2>2
    <3>2. QED
      BY <1>4, <1>5, <2>2, <3>1 DEF Asked
  <2>3. CASE k > Len(answered) + 1
    <3>1. /\ ~(k <= Len(answered')) /\ ~(k <= Len(answered))
          /\ k - Len(answered') \in 1 .. Len(asked') /\ k - Len(answered') + 1 = k - Len(answered)
      BY <1>2, <1>3, <1>5, <2>3 DEF Outstanding
    <3>2. QED
      BY <1>3, <3>1 DEF Asked
  <2>4. QED
    BY <1>2, <2>1, <2>2, <2>3
<1>10. ~refusals' => ~refusals /\ dataServer.in_round
  BY <1>1
<1>11. Leftovers'
  <2>1. SUFFICES ASSUME dataServer.up, ~refusals, dataServer.in_round
                 PROVE  /\ \A k \in DOMAIN answered' : answered'[k].kind = "TrainingData"
                        /\ Outstanding <= aborts + Own
                        /\ fetch.pc \in {"request", "receive"} =>
                             \A k \in 1 .. Outstanding :
                                k > Outstanding - fetch.retry_count - Own => Asked(k)' = BatchId
    BY <1>1, <1>8, <1>10 DEF Leftovers
  <2>2. \A k \in DOMAIN answered : answered[k].kind = "TrainingData"
    BY <2>1 DEF FetchIInv, Leftovers
  <2>3. \A k \in DOMAIN answered' : answered'[k].kind = "TrainingData"
    BY <1>2, <1>4, <1>5, <2>1, <2>2
  <2>4. QED
    BY <1>9, <2>1, <2>3 DEF FetchIInv, Leftovers
<1>12. refusals => refusals'
  BY <1>1
<1>13. QED
  BY <1>1, <1>7, <1>8, <1>11, <1>12 DEF FetchIInv, FetchInv, GivesUpForAReason, SamplesOfTheBatch

\* Every step of the client, the trainer and the data server keeps the invariant.
LEMMA FetchStep == FetchIInv /\ [FetchNext]_fetchVars => FetchIInv'
<1> SUFFICES ASSUME FetchIInv, [FetchNext]_fetchVars PROVE FetchIInv'
  OBVIOUS
<1>1. CASE ServerSeesState
  <2>1. dataServer' = [dataServer EXCEPT !.in_round = ~@]
        /\ UNCHANGED <<fetch, samples, asked, answered, aborts, refusals>>
    BY <1>1 DEF ServerSeesState
  <2>2. dataServer' \in [up : BOOLEAN, in_round : BOOLEAN] /\ dataServer'.up = dataServer.up
    BY <2>1, FetchTypes
  <2>3. FetchTypeOK'
    BY <2>1, <2>2 DEF FetchIInv, FetchInv, FetchTypeOK
  <2>4. Outstanding' = Outstanding /\ (\A k : Asked(k)' = Asked(k)) /\ Own' = Own /\ BatchId' = BatchId
    BY <2>1, SameConnection DEF Own, BatchId
  <2>5. QED
    BY <2>1, <2>2, <2>3, <2>4
       DEF FetchIInv, FetchInv, GivesUpForAReason, SamplesOfTheBatch, Leftovers
<1>2. CASE ServerEnds
  <2>1. /\ dataServer' = [dataServer EXCEPT !.up = FALSE] /\ asked' = <<>>
        /\ UNCHANGED <<fetch, samples, answered, aborts, refusals>>
    BY <1>2 DEF ServerEnds
  <2>2. dataServer' \in [up : BOOLEAN, in_round : BOOLEAN] /\ ~dataServer'.up
    BY <2>1, FetchTypes
  <2>3. FetchTypeOK'
    BY <2>1, <2>2 DEF FetchIInv, FetchInv, FetchTypeOK
  <2>4. BatchId' = BatchId
    BY <2>1 DEF BatchId
  <2>5. QED
    BY <2>1, <2>2, <2>3, <2>4
       DEF FetchIInv, FetchInv, GivesUpForAReason, SamplesOfTheBatch, Leftovers
<1>3. CASE UNCHANGED fetchVars
  <2>1. Outstanding' = Outstanding /\ (\A k : Asked(k)' = Asked(k)) /\ Own' = Own /\ BatchId' = BatchId
    BY <1>3, SameConnection DEF Own, BatchId, fetchVars
  <2>2. FetchTypeOK'
    BY <1>3 DEF fetchVars, FetchIInv, FetchInv, FetchTypeOK
  <2>3. QED
    BY <1>3, <2>1, <2>2
       DEF fetchVars, FetchIInv, FetchInv, GivesUpForAReason, SamplesOfTheBatch, Leftovers
<1>4. QED
  BY <1>1, <1>2, <1>3, FetchDataStep, PopBatchStep, SendRequestStep, ReceiveAnswerStep,
     SendSampleStep, TakeSampleStep, ProvideStep DEF FetchNext

\* For any steps, batches, retries and buffers: a task that is aborted between request
\* and answer does not mix up the data of a later batch, and a fetch gives up only
\* when the server is gone or rejects, or when more tasks were aborted than it has
\* retries (DataFetcher::fetch_data, DataProviderTcpClient::receive_training_data).
THEOREM FetchesTheRightData == FetchSpec => []FetchInv
<1>1. FetchIInv => FetchInv
  BY DEF FetchIInv
<1>2. QED
  BY <1>1, FetchInitially, FetchStep, PTL DEF FetchSpec

-----------------------------------------------------------------------------
(* The TCP server. *)

\* The inductive invariant: from the client over the channel of its connection to the
\* queue of the forwarding task, the snapshots never get older.
InOrder ==
  /\ \A i, j \in DOMAIN sendq : i <= j => sendq[i].snapshot <= sendq[j].snapshot
  /\ \A c \in Connections : \A i, j \in DOMAIN chan[c] : i <= j => chan[c][i] <= chan[c][j]
  /\ \A i \in DOMAIN sendq : sendq[i].snapshot <= broadcastsSent
  /\ \A c \in Connections : \A i \in DOMAIN chan[c] :
        chan[c][i] <= broadcastsSent /\ seen[c] <= chan[c][i]
  /\ \A c \in Connections : \A i \in DOMAIN chan[c], j \in DOMAIN sendq :
        chan[c][i] <= sendq[j].snapshot
  /\ \A c \in Connections : \A j \in DOMAIN sendq : seen[c] <= sendq[j].snapshot
  /\ \A c \in Connections : seen[c] <= broadcastsSent

TcpIInv == TcpTypeOK /\ InOrder

\* No connection is open at first.
LEMMA TcpInitially == TcpInit => TcpIInv
BY TcpServerAssumption DEF TcpInit, TcpIInv, TcpTypeOK, InOrder, ConnStates

Snapshots == 1 .. TcpBroadcasts
Forwarded == [to : TcpPeers, snapshot : Snapshots]
Received == [from : TcpPeers, msg : {"Join", "Other"}]

\* The types of the TCP server, one by one.
LEMMA TcpTypes ==
  TcpTypeOK <=>
    /\ conn \in [Connections -> ConnStates]
    /\ table \in [TcpPeers -> 0 .. TcpConnections]
    /\ inbox \in Seq(Received)
    /\ closed \in Seq(TcpPeers)
    /\ sendq \in Seq(Forwarded)
    /\ chan \in [Connections -> Seq(Snapshots)]
    /\ \A c \in Connections : chan[c] # <<>> => IsOpen(c)
    /\ seen \in [Connections -> 0 .. TcpBroadcasts]
    /\ broadcastsSent \in 0 .. TcpBroadcasts
BY DEF TcpTypeOK, Forwarded, Snapshots, Received

\* Every step of a connection, of the forwarding and of the server keeps the invariant.
LEMMA TcpStep == TcpIInv /\ [TcpNext]_tcpVars => TcpIInv'
<1> SUFFICES ASSUME TcpIInv, [TcpNext]_tcpVars PROVE TcpIInv'
  OBVIOUS
<1> USE TcpServerAssumption DEF TcpIInv
<1>1. ASSUME NEW c \in Connections, Accept(c) PROVE TcpIInv'
  <2>1. /\ conn' = [conn EXCEPT ![c] = "challenged"] /\ chan' = [chan EXCEPT ![c] = <<>>]
        /\ seen' = [seen EXCEPT ![c] = 0]
        /\ UNCHANGED <<table, inbox, closed, sendq, broadcastsSent>>
    BY <1>1 DEF Accept
  <2>2. TcpTypeOK'
    BY <2>1 DEF TcpTypeOK, ConnStates, IsOpen
  <2>3. /\ DOMAIN chan'[c] = {} /\ seen'[c] = 0
        /\ \A d \in Connections \ {c} : chan'[d] = chan[d] /\ seen'[d] = seen[d]
    BY <2>1 DEF TcpTypeOK
  <2>4. 0 <= broadcastsSent /\ \A i \in DOMAIN sendq : 0 <= sendq[i].snapshot
    <3>1. \A i \in DOMAIN sendq : sendq[i] \in Forwarded
      BY TcpTypes, Elements
    <3>2. QED
      BY <3>1 DEF TcpTypeOK, Forwarded, Snapshots
  <2>5. InOrder'
    BY <2>1, <2>3, <2>4 DEF InOrder
  <2>6. QED
    BY <2>2, <2>5
<1>2. ASSUME NEW c \in Connections, Authenticate(c) PROVE TcpIInv'
  <2>1. c[1] \in TcpPeers /\ c[2] \in 0 .. TcpConnections
    BY DEF Connections
  <2>2. TcpTypeOK'
    BY <1>2, <2>1 DEF Authenticate, TcpTypeOK, ConnStates, IsOpen
  <2>3. InOrder'
    BY <1>2 DEF Authenticate, InOrder
  <2>4. QED
    BY <2>2, <2>3
<1>3. ASSUME NEW c \in Connections, RejectHandshake(c) PROVE TcpIInv'
  <2>1. TcpTypeOK'
    BY <1>3 DEF RejectHandshake, TcpTypeOK, ConnStates, IsOpen
  <2>2. InOrder'
    BY <1>3 DEF RejectHandshake, InOrder
  <2>3. QED
    BY <2>1, <2>2
<1>4. ASSUME NEW c \in Connections, ReceiveJoin(c) PROVE TcpIInv'
  <2>1. c[1] \in TcpPeers
    BY DEF Connections
  <2>2. [from |-> c[1], msg |-> "Join"] \in Received
    BY <2>1 DEF Received
  <2>3. inbox' \in Seq(Received)
    BY <1>4, <2>2, TcpTypes DEF ReceiveJoin
  <2>4. TcpTypeOK'
    BY <1>4, <2>3 DEF Received, ReceiveJoin, TcpTypeOK, ConnStates, IsOpen
  <2>5. InOrder'
    BY <1>4 DEF ReceiveJoin, InOrder
  <2>6. QED
    BY <2>4, <2>5
<1>5. ASSUME NEW c \in Connections, ReceiveOther(c) PROVE TcpIInv'
  <2>1. c[1] \in TcpPeers
    BY DEF Connections
  <2>2. [from |-> c[1], msg |-> "Other"] \in Received
    BY <2>1 DEF Received
  <2>3. inbox' \in Seq(Received)
    BY <1>5, <2>2, TcpTypes DEF ReceiveOther
  <2>4. TcpTypeOK'
    BY <1>5, <2>3 DEF Received, ReceiveOther, TcpTypeOK, IsOpen
  <2>5. InOrder'
    BY <1>5 DEF ReceiveOther, InOrder
  <2>6. QED
    BY <2>4, <2>5
<1>6. ASSUME NEW c \in Connections, CloseConnection(c) PROVE TcpIInv'
  <2>1. /\ conn' = [conn EXCEPT ![c] = "none"] /\ table' = [table EXCEPT ![c[1]] = 0]
        /\ closed' = Append(closed, c[1]) /\ chan' = [chan EXCEPT ![c] = <<>>]
        /\ UNCHANGED <<inbox, sendq, seen, broadcastsSent>>
    BY <1>6 DEF CloseConnection
  <2>2. c[1] \in TcpPeers
    BY DEF Connections
  <2>3. TcpTypeOK'
    BY <2>1, <2>2 DEF TcpTypeOK, ConnStates, IsOpen
  <2>4. DOMAIN chan'[c] = {} /\ \A d \in Connections \ {c} : chan'[d] = chan[d]
    BY <2>1 DEF TcpTypeOK
  <2>5. InOrder'
    BY <2>1, <2>4 DEF InOrder
  <2>6. QED
    BY <2>3, <2>5
<1>7. ASSUME NEW c \in Connections, AbortConnection(c) PROVE TcpIInv'
  <2>1. /\ conn' = [conn EXCEPT ![c] = "none"] /\ chan' = [chan EXCEPT ![c] = <<>>]
        /\ UNCHANGED <<table, inbox, closed, sendq, seen, broadcastsSent>>
    BY <1>7 DEF AbortConnection
  <2>2. TcpTypeOK'
    BY <2>1 DEF TcpTypeOK, ConnStates, IsOpen
  <2>3. DOMAIN chan'[c] = {} /\ \A d \in Connections \ {c} : chan'[d] = chan[d]
    BY <2>1 DEF TcpTypeOK
  <2>4. InOrder'
    BY <2>1, <2>3 DEF InOrder
  <2>5. QED
    BY <2>2, <2>4
<1>8. ASSUME NEW c \in Connections, Deliver(c) PROVE TcpIInv'
  <2>1. /\ chan[c] # <<>> /\ IsOpen(c) /\ UNCHANGED <<conn, table, inbox, closed, sendq, broadcastsSent>>
        /\ seen' = [seen EXCEPT ![c] = Head(chan[c])] /\ chan' = [chan EXCEPT ![c] = Tail(@)]
    BY <1>8 DEF Deliver
  <2>2. chan[c] \in Seq(Snapshots)
    BY TcpTypes
  <2>3. /\ Head(chan[c]) = chan[c][1] /\ Head(chan[c]) \in Snapshots /\ 1 \in DOMAIN chan[c]
        /\ Tail(chan[c]) \in Seq(Snapshots)
        /\ \A i \in DOMAIN Tail(chan[c]) :
              i \in Nat \ {0} /\ i + 1 \in DOMAIN chan[c] /\ Tail(chan[c])[i] = chan[c][i + 1]
    BY <2>1, <2>2, TailOfSequence
  <2>4. chan'[c] = Tail(chan[c]) /\ \A d \in Connections \ {c} : chan'[d] = chan[d] /\ seen'[d] = seen[d]
    BY <2>1 DEF TcpTypeOK
  <2>5. seen'[c] = chan[c][1]
    BY <2>1, <2>3 DEF TcpTypeOK
  <2>6. TcpTypeOK'
    BY <2>1, <2>3 DEF TcpTypeOK, IsOpen, Snapshots
  <2>7. \A i, j \in DOMAIN chan'[c] : i <= j => chan'[c][i] <= chan'[c][j]
    BY <2>3, <2>4 DEF InOrder
  <2>8. \A i \in DOMAIN chan'[c] : chan'[c][i] <= broadcastsSent /\ seen'[c] <= chan'[c][i]
    BY <2>3, <2>4, <2>5 DEF InOrder
  <2>9. \A i \in DOMAIN chan'[c], j \in DOMAIN sendq : chan'[c][i] <= sendq[j].snapshot
    BY <2>3, <2>4 DEF InOrder
  <2>10. (\A j \in DOMAIN sendq : seen'[c] <= sendq[j].snapshot) /\ seen'[c] <= broadcastsSent
    BY <2>3, <2>5 DEF InOrder
  <2>11. InOrder'
    BY <2>1, <2>4, <2>7, <2>8, <2>9, <2>10 DEF InOrder
  <2>12. QED
    BY <2>6, <2>11
<1>9. CASE Broadcast
  <2>1. PICK order \in [1 .. Cardinality({p \in TcpPeers : table[p] # 0}) -> TcpPeers] :
           /\ broadcastsSent < TcpBroadcasts
           /\ broadcastsSent' = broadcastsSent + 1
           /\ sendq' = sendq \o
                [i \in DOMAIN order |-> [to |-> order[i], snapshot |-> broadcastsSent + 1]]
           /\ UNCHANGED <<conn, table, inbox, closed, chan, seen>>
    BY <1>9 DEF Broadcast
  <2>2. PICK n \in Nat : n = Cardinality({p \in TcpPeers : table[p] # 0})
    <3>1. IsFiniteSet({p \in TcpPeers : table[p] # 0})
      BY FS_Subset
    <3>2. QED
      BY <3>1, FS_CardinalityType
  <2> DEFINE new == [i \in 1 .. n |-> [to |-> order[i], snapshot |-> broadcastsSent + 1]]
  <2>3. /\ new \in Seq(Forwarded)
        /\ Len(new) = n /\ \A i \in 1 .. n : new[i].snapshot = broadcastsSent + 1
    <3>1. broadcastsSent + 1 \in Snapshots /\ order \in [1 .. n -> TcpPeers]
      BY <2>1, <2>2 DEF TcpTypeOK, Snapshots
    <3>2. \A i \in 1 .. n : new[i] \in Forwarded
      BY <3>1 DEF Forwarded
    <3>3. new = [i \in 1 .. n |-> new[i]] /\ \A i \in 1 .. n : new[i].snapshot = broadcastsSent + 1
      OBVIOUS
    <3> HIDE DEF new
    <3>4. QED
      BY <2>2, <3>2, <3>3, FunctionToSeq
  <2>4. sendq' = sendq \o new
    BY <2>1, <2>2
  <2> HIDE DEF new
  <2>5. sendq \in Seq(Forwarded) /\ broadcastsSent \in Nat
    BY TcpTypes
  <2>6. /\ sendq' \in Seq(Forwarded)
        /\ DOMAIN sendq' = 1 .. Len(sendq) + n /\ DOMAIN sendq = 1 .. Len(sendq) /\ Len(sendq) \in Nat
        /\ \A i \in 1 .. Len(sendq) : sendq'[i] = sendq[i]
        /\ \A i \in Len(sendq) + 1 .. Len(sendq) + n : sendq'[i] = new[i - Len(sendq)]
    <3>1. DOMAIN sendq = 1 .. Len(sendq) /\ Len(sendq) \in Nat
      BY <2>5, Elements
    <3>2. /\ sendq \o new \in Seq(Forwarded) /\ DOMAIN (sendq \o new) = 1 .. Len(sendq) + Len(new)
          /\ \A i \in 1 .. Len(sendq) : (sendq \o new)[i] = sendq[i]
          /\ \A i \in Len(sendq) + 1 .. Len(sendq) + Len(new) : (sendq \o new)[i] = new[i - Len(sendq)]
      BY <2>3, <2>5, Concatenation
    <3>3. QED
      BY <2>3, <2>4, <3>1, <3>2
  <2>7. \A i \in DOMAIN sendq' :
           \/ i \in DOMAIN sendq /\ sendq'[i] = sendq[i]
           \/ i \notin DOMAIN sendq /\ sendq'[i].snapshot = broadcastsSent + 1 /\ i > Len(sendq)
    <3> TAKE i \in DOMAIN sendq'
    <3>1. CASE i \in 1 .. Len(sendq)
      BY <2>6, <3>1
    <3>2. CASE i \in Len(sendq) + 1 .. Len(sendq) + n
      <4>1. i - Len(sendq) \in 1 .. n /\ i > Len(sendq) /\ i \notin 1 .. Len(sendq)
        BY <2>6, <3>2
      <4>2. QED
        BY <2>3, <2>6, <3>2, <4>1
    <3>3. QED
      BY <2>6, <3>1, <3>2
  <2>8. TcpTypeOK'
    BY <2>1, <2>6 DEF TcpTypeOK, IsOpen, Forwarded, Snapshots
  <2>9. \A c \in Connections : seen[c] \in Int /\ \A i \in DOMAIN chan[c] : chan[c][i] \in Int
    BY DEF TcpTypeOK
  <2>10. \A i \in DOMAIN sendq : sendq[i].snapshot \in Int
    <3>1. \A i \in DOMAIN sendq : sendq[i] \in Forwarded
      BY <2>5, Elements
    <3>2. QED
      BY <3>1 DEF Forwarded, Snapshots
  <2>11. \A i, j \in DOMAIN sendq' : i <= j => sendq'[i].snapshot <= sendq'[j].snapshot
    BY <2>5, <2>6, <2>7, <2>10 DEF InOrder
  <2>12. \A c \in Connections : \A i \in DOMAIN chan[c], j \in DOMAIN sendq' :
            chan[c][i] <= sendq'[j].snapshot
    BY <2>5, <2>7, <2>9 DEF InOrder
  <2>13. \A c \in Connections : \A j \in DOMAIN sendq' : seen[c] <= sendq'[j].snapshot
    BY <2>5, <2>7, <2>9 DEF InOrder
  <2>14. \A i \in DOMAIN sendq' : sendq'[i].snapshot <= broadcastsSent'
    <3>1. \A i \in DOMAIN sendq : sendq[i].snapshot <= broadcastsSent
      BY DEF InOrder
    <3>2. QED
      <4> TAKE i \in DOMAIN sendq'
      <4>1. CASE i \in DOMAIN sendq /\ sendq'[i] = sendq[i]
        BY <2>1, <2>5, <2>10, <3>1, <4>1
      <4>2. CASE sendq'[i].snapshot = broadcastsSent + 1
        BY <2>1, <2>5, <4>2
      <4>3. QED
        BY <2>7, <4>1, <4>2
  <2>15. \A c \in Connections : seen[c] <= broadcastsSent' /\ \A i \in DOMAIN chan[c] : chan[c][i] <= broadcastsSent'
    BY <2>1, <2>5, <2>9 DEF InOrder
  <2>16. InOrder'
    BY <2>1, <2>11, <2>12, <2>13, <2>14, <2>15 DEF InOrder
  <2>17. QED
    BY <2>8, <2>16
<1>10. CASE Forward
  <2> DEFINE m == Head(sendq)
             c == <<m.to, table[m.to]>>
  <2>1. /\ sendq # <<>> /\ sendq' = Tail(sendq)
        /\ chan' = IF c \in Connections /\ IsOpen(c)
                   THEN [chan EXCEPT ![c] = Append(@, m.snapshot)] ELSE chan
        /\ UNCHANGED <<conn, table, inbox, closed, seen, broadcastsSent>>
    BY <1>10 DEF Forward
  <2>2. sendq \in Seq(Forwarded)
    BY TcpTypes
  <2>3. /\ m = sendq[1] /\ m \in Forwarded /\ 1 \in DOMAIN sendq
        /\ Tail(sendq) \in Seq(Forwarded)
        /\ \A i \in DOMAIN Tail(sendq) :
              i \in Nat \ {0} /\ i + 1 \in DOMAIN sendq /\ Tail(sendq)[i] = sendq[i + 1]
    BY <2>1, <2>2, TailOfSequence
  <2>4. \A i \in DOMAIN Tail(sendq) : m.snapshot <= Tail(sendq)[i].snapshot
    BY <2>3 DEF InOrder
  <2> HIDE DEF m
  <2>5. /\ \A i, j \in DOMAIN sendq' : i <= j => sendq'[i].snapshot <= sendq'[j].snapshot
        /\ \A i \in DOMAIN sendq' : sendq'[i].snapshot <= broadcastsSent
        /\ \A d \in Connections : \A i \in DOMAIN chan[d], j \in DOMAIN sendq' :
              chan[d][i] <= sendq'[j].snapshot
        /\ \A d \in Connections : \A j \in DOMAIN sendq' : seen[d] <= sendq'[j].snapshot
    BY <2>1, <2>3 DEF InOrder
  <2>6. CASE ~(c \in Connections /\ IsOpen(c))
    <3>1. chan' = chan
      BY <2>1, <2>6
    <3>2. TcpTypeOK'
      BY <2>1, <2>3, <3>1 DEF TcpTypeOK, IsOpen, Forwarded, Snapshots
    <3>3. InOrder'
      BY <2>1, <2>5, <3>1 DEF InOrder
    <3>4. QED
      BY <3>2, <3>3
  <2>7. CASE c \in Connections /\ IsOpen(c)
    <3> HIDE DEF c
    <3>1. chan' = [chan EXCEPT ![c] = Append(chan[c], m.snapshot)] /\ c \in Connections /\ IsOpen(c)
      BY <2>1, <2>7
    <3>2. chan \in [Connections -> Seq(Snapshots)] /\ chan[c] \in Seq(Snapshots)
          /\ m.snapshot \in Snapshots
      BY <2>3, <3>1, TcpTypes DEF Forwarded
    <3>3. chan'[c] = Append(chan[c], m.snapshot) /\ \A d \in Connections \ {c} : chan'[d] = chan[d]
      BY <3>1, <3>2
    <3>4. \A i \in DOMAIN chan'[c] :
             \/ i \in DOMAIN chan[c] /\ chan'[c][i] = chan[c][i]
             \/ i = Len(chan[c]) + 1 /\ chan'[c][i] = m.snapshot
      BY <3>2, <3>3
    <3>5. chan' \in [Connections -> Seq(Snapshots)]
      BY <3>1, <3>2
    <3>6. TcpTypeOK'
      BY <2>1, <2>3, <3>1, <3>3, <3>5 DEF TcpTypeOK, IsOpen, Forwarded, Snapshots
    <3>7. (\A i \in DOMAIN chan[c] : chan[c][i] <= m.snapshot /\ i \in Int /\ i <= Len(chan[c])) /\ seen[c] <= m.snapshot
          /\ m.snapshot <= broadcastsSent /\ Len(chan[c]) \in Nat
      BY <2>3, <3>1, <3>2 DEF InOrder
    <3>8. \A i, j \in DOMAIN chan'[c] : i <= j => chan'[c][i] <= chan'[c][j]
      <4>1. \A i, j \in DOMAIN chan[c] : i <= j => chan[c][i] <= chan[c][j]
        BY <3>1 DEF InOrder
      <4>2. m.snapshot \in Int
        BY <3>2 DEF Snapshots
      <4>3. QED
        BY <3>4, <3>7, <4>1, <4>2
    <3>9. \A i \in DOMAIN chan'[c] : chan'[c][i] <= broadcastsSent /\ seen[c] <= chan'[c][i]
      BY <3>1, <3>4, <3>7 DEF InOrder
    <3>10. \A i \in DOMAIN chan'[c], j \in DOMAIN sendq' : chan'[c][i] <= sendq'[j].snapshot
      BY <2>1, <2>4, <2>5, <3>1, <3>4
    <3>11. InOrder'
      BY <2>1, <2>5, <3>3, <3>8, <3>9, <3>10 DEF InOrder
    <3>12. QED
      BY <3>6, <3>11
  <2>8. QED
    BY <2>6, <2>7
<1>11. CASE NextEvent
  <2>1. UNCHANGED <<conn, table, sendq, chan, seen, broadcastsSent>>
    BY <1>11 DEF NextEvent
  <2>2. /\ inbox' \in Seq(Received)
        /\ closed' \in Seq(TcpPeers)
    <3>1. inbox \in Seq(Received) /\ closed \in Seq(TcpPeers)
      BY TcpTypes
    <3>2. /\ inbox' = inbox \/ (inbox # <<>> /\ inbox' = Tail(inbox))
          /\ closed' = closed \/ (closed # <<>> /\ closed' = Tail(closed))
      BY <1>11 DEF NextEvent
    <3>3. inbox' \in Seq(Received)
      BY <3>1, <3>2
    <3>4. closed' \in Seq(TcpPeers)
      BY <3>1, <3>2
    <3>5. QED
      BY <3>3, <3>4
  <2>3. TcpTypeOK'
    BY <2>1, <2>2 DEF TcpTypeOK, IsOpen, Received
  <2>4. InOrder'
    BY <2>1 DEF InOrder
  <2>5. QED
    BY <2>3, <2>4
<1>12. CASE UNCHANGED tcpVars
  BY <1>12 DEF tcpVars, TcpTypeOK, InOrder, IsOpen
<1>13. QED
  BY <1>1, <1>2, <1>3, <1>4, <1>5, <1>6, <1>7, <1>8, <1>9, <1>10, <1>11, <1>12 DEF TcpNext

\* Only Deliver changes what a client has seen, and it takes the oldest of its channel.
LEMMA SeenGrows ==
  ASSUME TcpIInv, [TcpNext]_tcpVars
  PROVE  \A c \in Connections : conn[c] # "none" => seen'[c] >= seen[c]
<1> SUFFICES ASSUME NEW c \in Connections, conn[c] # "none" PROVE seen'[c] >= seen[c]
  OBVIOUS
<1>1. seen \in [Connections -> 0 .. TcpBroadcasts]
  BY DEF TcpIInv, TcpTypeOK
<1>2. CASE seen'[c] = seen[c]
  BY <1>1, <1>2
<1>3. ASSUME NEW d \in Connections, Accept(d) PROVE seen'[c] = seen[c]
  BY <1>1, <1>3 DEF Accept
<1>4. ASSUME NEW d \in Connections, Deliver(d) PROVE seen'[c] >= seen[c]
  <2>1. CASE d # c
    BY <1>1, <1>2, <1>4, <2>1 DEF Deliver
  <2>2. CASE d = c
    <3>1. chan[c] \in Seq(Snapshots) /\ chan[c] # <<>> /\ seen'[c] = Head(chan[c])
      BY <1>1, <1>4, <2>2, TcpTypes DEF Deliver, TcpIInv
    <3>2. Head(chan[c]) = chan[c][1] /\ 1 \in DOMAIN chan[c] /\ Head(chan[c]) \in Snapshots
      BY <3>1, TailOfSequence
    <3>3. seen[c] <= chan[c][1]
      BY <3>2 DEF TcpIInv, InOrder
    <3>4. QED
      BY <1>1, <3>1, <3>2, <3>3 DEF Snapshots
  <2>3. QED
    BY <2>1, <2>2
<1>5. QED
  BY <1>2, <1>3, <1>4 DEF TcpNext, tcpVars, Authenticate, RejectHandshake, ReceiveJoin, ReceiveOther,
     CloseConnection, AbortConnection, Broadcast, Forward, NextEvent

OpenOf(p) == {c \in Connections : c[1] = p /\ IsOpen(c)}

\* An identity has a bounded number of open connections.
LEMMA OpenIsFinite ==
  ASSUME NEW p \in TcpPeers
  PROVE  /\ IsFiniteSet(OpenOf(p)) /\ Cardinality(OpenOf(p)) \in 0 .. TcpConnections
         /\ \A c \in Connections : c[1] = p /\ ~IsOpen(c) => Cardinality(OpenOf(p)) < TcpConnections
<1> DEFINE all == {p} \X (1 .. TcpConnections)
<1>1. /\ IsFiniteSet({p}) /\ Cardinality({p}) = 1
      /\ IsFiniteSet(1 .. TcpConnections) /\ Cardinality(1 .. TcpConnections) = TcpConnections
  <2>1. Cardinality(1 .. TcpConnections) = IF 1 > TcpConnections THEN 0 ELSE TcpConnections - 1 + 1
    BY FS_Interval, TcpServerAssumption
  <2>2. Cardinality(1 .. TcpConnections) = TcpConnections
    BY <2>1, TcpServerAssumption
  <2>3. IsFiniteSet(1 .. TcpConnections)
    BY FS_Interval, TcpServerAssumption
  <2>4. IsFiniteSet({p}) /\ Cardinality({p}) = 1
    BY FS_Singleton
  <2>5. QED
    BY <2>2, <2>3, <2>4
<1>2. IsFiniteSet(all) /\ Cardinality(all) = TcpConnections
  <2>1. IsFiniteSet(all) /\ Cardinality(all) = 1 * TcpConnections
    <3> DEFINE one == {p}  numbers == 1 .. TcpConnections
    <3>1. IsFiniteSet(one) /\ IsFiniteSet(numbers) /\ Cardinality(one) = 1
          /\ Cardinality(numbers) = TcpConnections
      BY <1>1
    <3> HIDE DEF one, numbers
    <3>2. IsFiniteSet(one \X numbers) /\ Cardinality(one \X numbers) = 1 * TcpConnections
      BY <3>1, FS_Product
    <3>3. QED
      BY <3>2 DEF one, numbers
  <2>2. QED
    BY <2>1, TcpServerAssumption
<1>3. OpenOf(p) \subseteq all
  BY DEF OpenOf, Connections
<1>4. IsFiniteSet(OpenOf(p)) /\ Cardinality(OpenOf(p)) \in Nat /\ Cardinality(OpenOf(p)) <= TcpConnections
  BY <1>2, <1>3, FS_Subset, FS_CardinalityType
<1>5. ASSUME NEW c \in Connections, c[1] = p, ~IsOpen(c) PROVE Cardinality(OpenOf(p)) < TcpConnections
  <2>1. c \in all /\ c \notin OpenOf(p)
    BY <1>5 DEF OpenOf, Connections
  <2>2. OpenOf(p) # all
    BY <2>1
  <2>3. QED
    BY <1>2, <1>3, <1>4, <2>2, FS_Subset, TcpServerAssumption
<1>6. QED
  BY <1>4, <1>5, TcpServerAssumption

Counted == [p \in TcpPeers |-> Cardinality(OpenOf(p))]

\* A step that opens and closes nothing leaves the counts of open connections.
LEMMA CountUnchanged ==
  ASSUME \A c \in Connections : IsOpen(c)' <=> IsOpen(c)
  PROVE  Counted' = Counted
BY DEF Counted, OpenOf

\* A connection that opens counts for its identity.
LEMMA CountOneMore ==
  ASSUME NEW c \in Connections, ~IsOpen(c), IsOpen(c)',
         \A d \in Connections \ {c} : IsOpen(d)' <=> IsOpen(d)
  PROVE  Counted[c[1]] < TcpConnections /\ Counted' = [Counted EXCEPT ![c[1]] = @ + 1]
<1>1. c[1] \in TcpPeers
  BY DEF Connections
<1>2. OpenOf(c[1])' = OpenOf(c[1]) \union {c} /\ c \notin OpenOf(c[1])
  BY DEF OpenOf
<1>3. \A p \in TcpPeers \ {c[1]} : OpenOf(p)' = OpenOf(p)
  BY DEF OpenOf
<1>4. IsFiniteSet(OpenOf(c[1])) /\ Cardinality(OpenOf(c[1])) < TcpConnections
  BY <1>1, OpenIsFinite
<1>5. Cardinality(OpenOf(c[1])') = Cardinality(OpenOf(c[1])) + 1
  BY <1>2, <1>4, FS_AddElement
<1>6. QED
  BY <1>1, <1>3, <1>4, <1>5 DEF Counted

\* A connection that closes no longer counts for its identity.
LEMMA CountOneLess ==
  ASSUME NEW c \in Connections, IsOpen(c), ~IsOpen(c)',
         \A d \in Connections \ {c} : IsOpen(d)' <=> IsOpen(d)
  PROVE  Counted[c[1]] > 0 /\ Counted' = [Counted EXCEPT ![c[1]] = @ - 1]
<1>1. c[1] \in TcpPeers
  BY DEF Connections
<1>2. OpenOf(c[1])' = OpenOf(c[1]) \ {c} /\ c \in OpenOf(c[1])
  BY DEF OpenOf
<1>3. \A p \in TcpPeers \ {c[1]} : OpenOf(p)' = OpenOf(p)
  BY DEF OpenOf
<1>4. IsFiniteSet(OpenOf(c[1])) /\ Cardinality(OpenOf(c[1])) \in Nat
  BY <1>1, OpenIsFinite
<1>5. Cardinality(OpenOf(c[1])') = Cardinality(OpenOf(c[1])) - 1 /\ Cardinality(OpenOf(c[1])) # 0
  BY <1>2, <1>4, FS_RemoveElement, FS_EmptySet
<1>6. QED
  BY <1>1, <1>3, <1>4, <1>5 DEF Counted

\* An open connection is counted.
LEMMA CountOpen ==
  ASSUME NEW c \in Connections, IsOpen(c)
  PROVE  c[1] \in TcpPeers /\ Counted[c[1]] > 0
<1>1. c[1] \in TcpPeers
  BY DEF Connections
<1>2. c \in OpenOf(c[1])
  BY DEF OpenOf
<1>3. IsFiniteSet(OpenOf(c[1])) /\ Cardinality(OpenOf(c[1])) \in Nat
  BY <1>1, OpenIsFinite
<1>4. Cardinality(OpenOf(c[1])) # 0
  BY <1>2, <1>3, FS_EmptySet
<1>5. QED
  BY <1>1, <1>3, <1>4 DEF Counted

\* The TCP server starts as the notifications do.
LEMMA NotificationsInitially == TcpInit => Notifications!NotificationsInit
<1> SUFFICES ASSUME TcpInit PROVE Notifications!NotificationsInit
  OBVIOUS
<1>1. \A p \in TcpPeers : OpenOf(p) = {}
  BY DEF OpenOf, IsOpen, TcpInit
<1>2. \A p \in TcpPeers : Cardinality(OpenOf(p)) = 0
  BY <1>1, FS_EmptySet
<1>3. QED
  BY <1>2 DEF Notifications!NotificationsInit, TcpInit, OpenOf

\* Every step of the TCP server is one of the notifications or none.
LEMMA NotificationsStep ==
  ASSUME TcpTypeOK, [TcpNext]_tcpVars
  PROVE  [Notifications!NotificationsNext]_(Notifications!notificationVars)
<1> DEFINE vars == <<Counted, inbox, closed>>
<1>a. SUFFICES ASSUME ~(Counted' = Counted /\ inbox' = inbox /\ closed' = closed)
               PROVE  Notifications!NotificationsNext
  BY DEF Notifications!notificationVars, Counted, OpenOf
<1>t. conn \in [Connections -> ConnStates] /\ inbox \in Seq(Received) /\ closed \in Seq(TcpPeers)
  BY TcpTypes
<1> USE DEF Notifications!NotificationsNext, Notifications!SessionStep
<1>1. ASSUME NEW c \in Connections, Accept(c) PROVE FALSE
  <2>1. \A d \in Connections : IsOpen(d)' <=> IsOpen(d)
    BY <1>t, <1>1 DEF Accept, IsOpen
  <2>2. QED
    BY <1>a, <1>1, <2>1, CountUnchanged DEF Accept
<1>2. ASSUME NEW c \in Connections, Authenticate(c) PROVE Notifications!SessionOpens(c[1])
  <2>1. ~IsOpen(c) /\ IsOpen(c)' /\ \A d \in Connections \ {c} : IsOpen(d)' <=> IsOpen(d)
    BY <1>t, <1>2 DEF Authenticate, IsOpen
  <2>2. Counted[c[1]] < TcpConnections /\ Counted' = [Counted EXCEPT ![c[1]] = @ + 1]
    BY <2>1, CountOneMore
  <2>3. UNCHANGED <<inbox, closed>>
    BY <1>2 DEF Authenticate
  <2>4. QED
    BY <2>2, <2>3 DEF Notifications!SessionOpens, Counted, OpenOf
<1>3. ASSUME NEW c \in Connections, RejectHandshake(c) PROVE FALSE
  <2>1. \A d \in Connections : IsOpen(d)' <=> IsOpen(d)
    BY <1>t, <1>3 DEF RejectHandshake, IsOpen
  <2>2. QED
    BY <1>a, <1>3, <2>1, CountUnchanged DEF RejectHandshake
<1>4. ASSUME NEW c \in Connections, ReceiveJoin(c) PROVE Notifications!MessageArrives(c[1], "Join")
  <2>1. IsOpen(c) /\ \A d \in Connections : IsOpen(d)' <=> IsOpen(d)
    BY <1>t, <1>4 DEF ReceiveJoin, IsOpen
  <2>2. Counted' = Counted /\ Counted[c[1]] > 0
    BY <2>1, CountUnchanged, CountOpen
  <2>3. QED
    BY <1>4, <2>2 DEF ReceiveJoin, Notifications!MessageArrives, Counted, OpenOf
<1>5. ASSUME NEW c \in Connections, ReceiveOther(c) PROVE Notifications!MessageArrives(c[1], "Other")
  <2>1. IsOpen(c) /\ \A d \in Connections : IsOpen(d)' <=> IsOpen(d)
    BY <1>t, <1>5 DEF ReceiveOther, IsOpen
  <2>2. Counted' = Counted /\ Counted[c[1]] > 0
    BY <2>1, CountUnchanged, CountOpen
  <2>3. QED
    BY <1>5, <2>2 DEF ReceiveOther, Notifications!MessageArrives, Counted, OpenOf
<1>6. ASSUME NEW c \in Connections, CloseConnection(c) PROVE Notifications!SessionCloses(c[1])
  <2>1. IsOpen(c) /\ ~IsOpen(c)' /\ \A d \in Connections \ {c} : IsOpen(d)' <=> IsOpen(d)
    BY <1>t, <1>6 DEF CloseConnection, IsOpen
  <2>2. Counted[c[1]] > 0 /\ Counted' = [Counted EXCEPT ![c[1]] = @ - 1]
    BY <2>1, CountOneLess
  <2>3. QED
    BY <1>6, <2>2 DEF CloseConnection, Notifications!SessionCloses, Counted, OpenOf
<1>7. ASSUME NEW c \in Connections, AbortConnection(c) PROVE Notifications!SessionAborts(c[1])
  <2>1. IsOpen(c) /\ ~IsOpen(c)' /\ \A d \in Connections \ {c} : IsOpen(d)' <=> IsOpen(d)
    BY <1>t, <1>7 DEF AbortConnection, IsOpen
  <2>2. Counted[c[1]] > 0 /\ Counted' = [Counted EXCEPT ![c[1]] = @ - 1]
    BY <2>1, CountOneLess
  <2>3. QED
    BY <1>7, <2>2 DEF AbortConnection, Notifications!SessionAborts, Counted, OpenOf
<1>8. ASSUME (\E c \in Connections : Deliver(c)) \/ Broadcast \/ Forward \/ UNCHANGED tcpVars PROVE FALSE
  <2>1. UNCHANGED <<conn, inbox, closed>>
    BY <1>8 DEF Deliver, Broadcast, Forward, tcpVars
  <2>2. \A d \in Connections : IsOpen(d)' <=> IsOpen(d)
    BY <2>1 DEF IsOpen
  <2>3. QED
    BY <1>a, <2>1, <2>2, CountUnchanged
<1>9. CASE NextEvent
  <2>1. UNCHANGED conn
    BY <1>9 DEF NextEvent
  <2>2. Counted' = Counted
    BY <2>1, CountUnchanged DEF IsOpen
  <2>3. CASE inbox # <<>> /\ inbox' = Tail(inbox) /\ UNCHANGED closed
    <3>1. Head(inbox) \in Received
      BY <1>t, <2>3, TailOfSequence
    <3>2. PICK p \in TcpPeers, msg \in {"Join", "Other"} : Head(inbox) = [from |-> p, msg |-> msg]
      BY <3>1 DEF Received
    <3>3. Notifications!TakeMessage(p, msg)
      BY <2>2, <2>3, <3>2 DEF Notifications!TakeMessage, Counted, OpenOf
    <3>4. QED
      BY <3>3
  <2>4. CASE closed # <<>> /\ closed' = Tail(closed) /\ UNCHANGED inbox
    <3>1. Head(closed) \in TcpPeers
      BY <1>t, <2>4, TailOfSequence
    <3>2. Notifications!TakeDisconnection(Head(closed))
      BY <2>2, <2>4 DEF Notifications!TakeDisconnection, Counted, OpenOf
    <3>3. QED
      BY <3>1, <3>2
  <2>5. QED
    BY <1>9, <2>3, <2>4 DEF NextEvent
<1>10. \A c \in Connections : c[1] \in TcpPeers
  BY DEF Connections
<1>11. QED
  BY <1>1, <1>2, <1>3, <1>4, <1>5, <1>6, <1>7, <1>8, <1>9, <1>10 DEF TcpNext

\* For any peers, connections and channels: a client sees the coordinators in the order
\* of the broadcasts, and the server implements the notifications that the centralized
\* server is modelled with (handle_connection, broadcast, next of TcpServer).
THEOREM TcpServerDeliversInOrder == TcpSpec => DeliversInOrder
<1>1. TcpSpec => []TcpIInv
  BY TcpInitially, TcpStep, PTL DEF TcpSpec
<1>2. TcpIInv => TcpTypeOK
  BY DEF TcpIInv
<1>3. TcpSpec => SnapshotsInOrder
  BY <1>1, SeenGrows, PTL DEF TcpSpec, SnapshotsInOrder
<1>4. TcpSpec => ImplementsNotifications
  BY <1>1, <1>2, NotificationsInitially, NotificationsStep, PTL
     DEF TcpSpec, ImplementsNotifications, Notifications!NotificationsSpec
<1>5. QED
  BY <1>1, <1>2, <1>3, <1>4, PTL DEF DeliversInOrder

-----------------------------------------------------------------------------
(* The broadcasts of the run loop. *)

\* From its warmup on the clients of an epoch are known, and may connect.
EpochKnown ==
  newState.run_state \in {"Warmup", "RoundTrain", "RoundWitness"} =>
    newState.clients \subseteq lookup /\ newState.clients \subseteq allowed

GossipIInv == GossipTypeOK /\ AnnouncedIsTagged /\ EpochKnown

GossipBroadcasts == [step : 1 .. GossipSteps, kind : Kinds]

\* At a new round the two lists are cut: what is still announced has kept its tag.
LEMMA PrunedTogether ==
  ASSUME GossipTypeOK, AnnouncedIsTagged, NEW state, ApplyNewState(state)
  PROVE  /\ broadcasts' \in Seq(GossipBroadcasts) /\ tags' \subseteq 1 .. GossipSteps
         /\ AnnouncedIsTagged'
<1>1. broadcasts \in Seq(GossipBroadcasts) /\ tags \subseteq 1 .. GossipSteps
  BY DEF GossipTypeOK, GossipBroadcasts
<1>2. CASE tags' = tags /\ broadcasts' = broadcasts
  BY <1>1, <1>2 DEF AnnouncedIsTagged
<1>3. CASE RemoveStaledTags(state.step) /\ broadcasts' = Retain(broadcasts,
             {i \in DOMAIN broadcasts : broadcasts[i].step >= LastNeeded(state.step)})
  <2> DEFINE K == {i \in DOMAIN broadcasts : broadcasts[i].step >= LastNeeded(state.step)}
  <2>1. K \in SUBSET (DOMAIN broadcasts)
    OBVIOUS
  <2>2. /\ broadcasts' \in Seq(GossipBroadcasts)
        /\ DOMAIN broadcasts' = 1 .. Cardinality(K)
        /\ \A i \in 1 .. Cardinality(K) : Nth(K, i) \in K /\ broadcasts'[i] = broadcasts[Nth(K, i)]
    BY <1>1, <1>3, <2>1, RetainProperties
  <2>3. tags' \subseteq 1 .. GossipSteps
        /\ \A s \in tags : s >= LastNeeded(state.step) => s \in tags'
    BY <1>1, <1>3 DEF RemoveStaledTags
  <2>4. AnnouncedIsTagged'
    BY <2>2, <2>3 DEF AnnouncedIsTagged
  <2> QED BY <2>2, <2>3, <2>4
<1> QED BY <1>2, <1>3 DEF ApplyNewState

\* New neighbours are other clients.
LEMMA NeighborsArePeers ==
  ASSUME neighbors \subseteq GossipPeers, NEW state, state.clients \subseteq GossipClients,
         EnsureGossipConnected(state)
  PROVE  neighbors' \subseteq GossipPeers
BY DEF EnsureGossipConnected, GossipClients

\* A state of the coordinator, as the loop gets it.
GossipStates ==
  [run_state : {"WaitingForMembers", "Warmup", "RoundTrain", "RoundWitness", "Cooldown",
                "Paused"},
   step : 1 .. GossipSteps, clients : SUBSET GossipClients]

\* A new state keeps the invariant if its clients are those of a warmup.
LEMMA NewStateKeepsGossip ==
  ASSUME GossipIInv, NEW state \in GossipStates, ApplyNewState(state),
         state.run_state \in {"RoundTrain", "RoundWitness"} =>
            /\ newState.run_state \in {"Warmup", "RoundTrain", "RoundWitness"}
            /\ state.clients = newState.clients
  PROVE  GossipIInv'
<1>1. /\ newState' = state /\ allowed' = state.clients
      /\ lookup' = IF state.run_state = "Warmup" THEN state.clients ELSE lookup
      /\ trained' = trained /\ aired' = aired /\ EnsureGossipConnected(state)
  BY DEF ApplyNewState, RefreshLookup
<1>2. /\ broadcasts' \in Seq(GossipBroadcasts) /\ tags' \subseteq 1 .. GossipSteps
      /\ AnnouncedIsTagged'
  BY PrunedTogether DEF GossipIInv
<1>3. neighbors' \subseteq GossipPeers
  BY <1>1, NeighborsArePeers DEF GossipIInv, GossipTypeOK, GossipStates
<1>4. lookup' \subseteq GossipClients /\ allowed' \subseteq GossipClients
  BY <1>1 DEF GossipIInv, GossipTypeOK, GossipStates
<1>5. GossipTypeOK'
  BY <1>1, <1>2, <1>3, <1>4 DEF GossipIInv, GossipTypeOK, GossipStates, GossipBroadcasts
<1>6. EpochKnown'
  BY <1>1 DEF GossipIInv, EpochKnown
<1> QED BY <1>2, <1>5, <1>6 DEF GossipIInv

\* Every step of the loop keeps the invariant.
LEMMA GossipStep ==
  ASSUME GossipIInv, GossipNext
  PROVE  GossipIInv'
<1> USE GossipAssumption
<1>t. GossipTypeOK /\ AnnouncedIsTagged /\ EpochKnown
  BY DEF GossipIInv
<1>s. newState \in GossipStates
  BY <1>t DEF GossipTypeOK, GossipStates
<1>1. CASE CoordinatorMoves
  <2>1. CASE newState.run_state = "WaitingForMembers" /\ \E r \in Rosters :
               ApplyNewState([newState EXCEPT !.run_state = "Warmup", !.clients = r])
    <3>1. PICK r \in Rosters : ApplyNewState([newState EXCEPT !.run_state = "Warmup", !.clients = r])
      BY <2>1
    <3> DEFINE s == [newState EXCEPT !.run_state = "Warmup", !.clients = r]
    <3>2. s \in GossipStates /\ s.run_state = "Warmup"
      BY <1>s, <3>1 DEF GossipStates, GossipClients
    <3>3. ApplyNewState(s)
      BY <3>1
    <3> HIDE DEF s
    <3> QED BY <3>2, <3>3, NewStateKeepsGossip
  <2>2. CASE newState.run_state = "Warmup"
             /\ ApplyNewState([newState EXCEPT !.run_state = "RoundTrain"])
    <3> DEFINE s == [newState EXCEPT !.run_state = "RoundTrain"]
    <3>2. s \in GossipStates /\ s.clients = newState.clients
      BY <1>s DEF GossipStates
    <3>3. ApplyNewState(s)
      BY <2>2
    <3> HIDE DEF s
    <3> QED BY <2>2, <3>2, <3>3, NewStateKeepsGossip
  <2>3. CASE newState.run_state = "RoundTrain"
             /\ ApplyNewState([newState EXCEPT !.run_state = "RoundWitness"])
    <3> DEFINE s == [newState EXCEPT !.run_state = "RoundWitness"]
    <3>2. s \in GossipStates /\ s.clients = newState.clients
      BY <1>s DEF GossipStates
    <3>3. ApplyNewState(s)
      BY <2>3
    <3> HIDE DEF s
    <3> QED BY <2>3, <3>2, <3>3, NewStateKeepsGossip
  <2>4. CASE newState.run_state = "RoundWitness" /\ newState.step < GossipSteps
             /\ \E later \in {"RoundTrain", "Cooldown"} :
                 ApplyNewState([newState EXCEPT !.run_state = later, !.step = @ + 1])
    <3>1. PICK later \in {"RoundTrain", "Cooldown"} :
             ApplyNewState([newState EXCEPT !.run_state = later, !.step = @ + 1])
      BY <2>4
    <3> DEFINE s == [newState EXCEPT !.run_state = later, !.step = @ + 1]
    <3>2. s \in GossipStates /\ s.clients = newState.clients
      <4>1. newState.step + 1 \in 1 .. GossipSteps
        BY <1>s, <2>4 DEF GossipStates
      <4> DEFINE n == newState.step + 1
      <4>2. s = [newState EXCEPT !.run_state = later, !.step = n]
        OBVIOUS
      <4>3. n \in 1 .. GossipSteps
        BY <4>1
      <4> HIDE DEF n, s
      <4> QED BY <1>s, <3>1, <4>2, <4>3 DEF GossipStates
    <3>3. ApplyNewState(s)
      BY <3>1
    <3> HIDE DEF s
    <3> QED BY <2>4, <3>2, <3>3, NewStateKeepsGossip
  <2>5. CASE ApplyNewState([newState EXCEPT !.run_state = "WaitingForMembers"])
    <3> DEFINE s == [newState EXCEPT !.run_state = "WaitingForMembers"]
    <3>2. s \in GossipStates /\ s.run_state = "WaitingForMembers"
      BY <1>s DEF GossipStates
    <3>3. ApplyNewState(s)
      BY <2>5
    <3> HIDE DEF s
    <3> QED BY <3>2, <3>3, NewStateKeepsGossip
  <2>6. CASE ApplyNewState([newState EXCEPT !.run_state = "Paused"])
    <3> DEFINE s == [newState EXCEPT !.run_state = "Paused"]
    <3>2. s \in GossipStates /\ s.run_state = "Paused"
      BY <1>s DEF GossipStates
    <3>3. ApplyNewState(s)
      BY <2>6
    <3> HIDE DEF s
    <3> QED BY <3>2, <3>3, NewStateKeepsGossip
  <2> QED BY <1>1, <2>1, <2>2, <2>3, <2>4, <2>5, <2>6 DEF CoordinatorMoves
<1>2. CASE TrainingDone
  BY <1>t, <1>2 DEF TrainingDone, GossipIInv, GossipTypeOK, AnnouncedIsTagged, EpochKnown
<1>3. CASE AnnounceResult
  <2> DEFINE b == [step |-> Head(trained), kind |-> "TrainingResult"]
  <2>1. /\ Head(trained) \in 1 .. GossipSteps /\ trained' \in Seq(1 .. GossipSteps)
    BY <1>t, <1>3, TailOfSequence DEF AnnounceResult, GossipTypeOK
  <2>2. b \in GossipBroadcasts /\ b.step = Head(trained)
    BY <2>1 DEF GossipBroadcasts, Kinds
  <2>3. broadcasts \in Seq(GossipBroadcasts) /\ broadcasts' = Append(broadcasts, b)
        /\ tags' = tags \union {b.step}
    BY <1>t, <1>3, <2>2 DEF AnnounceResult, GossipTypeOK, GossipBroadcasts
  <2> HIDE DEF b
  <2>4. broadcasts' \in Seq(GossipBroadcasts) /\ AnnouncedIsTagged'
    BY <1>t, <2>2, <2>3, AppendToSequence, Elements DEF AnnouncedIsTagged
  <2>5. GossipTypeOK'
    BY <1>t, <1>3, <2>1, <2>2, <2>3, <2>4 DEF AnnounceResult, GossipTypeOK, GossipBroadcasts
  <2> QED BY <1>t, <1>3, <2>4, <2>5 DEF AnnounceResult, GossipIInv, EpochKnown
<1>4. CASE AnnounceFinished
  <2> DEFINE b == [step |-> newState.step, kind |-> "Finished"]
  <2>2. b \in GossipBroadcasts /\ b.kind # "TrainingResult"
    BY <1>s DEF GossipBroadcasts, Kinds, GossipStates
  <2>3. broadcasts \in Seq(GossipBroadcasts) /\ broadcasts' = Append(broadcasts, b)
        /\ tags' = tags
    BY <1>t, <1>4 DEF AnnounceFinished, GossipTypeOK, GossipBroadcasts
  <2> HIDE DEF b
  <2>4. broadcasts' \in Seq(GossipBroadcasts) /\ AnnouncedIsTagged'
    BY <1>t, <2>2, <2>3, AppendToSequence, Elements DEF AnnouncedIsTagged
  <2>5. GossipTypeOK'
    BY <1>t, <1>4, <2>3, <2>4 DEF AnnounceFinished, GossipTypeOK, GossipBroadcasts
  <2> QED BY <1>t, <1>4, <2>4, <2>5 DEF AnnounceFinished, GossipIInv, EpochKnown
<1>5. CASE Rebroadcast
  <2>1. Len(broadcasts) \in Nat \ {0}
    BY <1>t, <1>5 DEF Rebroadcast, GossipTypeOK
  <2>2. NextIndex(Len(broadcasts)) \in Nat
    BY <1>t, <2>1 DEF NextIndex, GossipTypeOK
  <2>3. aired'.index \in Nat
    BY <1>5, <2>2 DEF Rebroadcast
  <2> QED BY <1>t, <1>5, <2>3 DEF Rebroadcast, GossipIInv, GossipTypeOK, AnnouncedIsTagged, EpochKnown
<1>6. CASE CheckConnection
  <2>1. neighbors' \subseteq GossipPeers
    BY <1>t, <1>s, <1>6, NeighborsArePeers DEF CheckConnection, GossipTypeOK, GossipStates
  <2> QED BY <1>t, <1>6, <2>1 DEF CheckConnection, GossipIInv, GossipTypeOK, AnnouncedIsTagged, EpochKnown
<1>7. CASE \E p \in GossipPeers : NeighborDown(p)
  BY <1>t, <1>7 DEF NeighborDown, GossipIInv, GossipTypeOK, AnnouncedIsTagged, EpochKnown
<1> QED BY <1>1, <1>2, <1>3, <1>4, <1>5, <1>6, <1>7 DEF GossipNext

\* What the run loop still announces can be fetched by its tag, whatever was cut in the
\* meantime, and while a round is trained its clients are known (GossipInv).
THEOREM GossipSafety == GossipSpec => []GossipInv
<1>1. GossipInit => GossipIInv
  BY GossipAssumption DEF GossipInit, GossipIInv, GossipTypeOK, AnnouncedIsTagged, EpochKnown, GossipClients
<1>2. GossipIInv /\ [GossipNext]_gossipVars => GossipIInv'
  <2>1. GossipIInv /\ GossipNext => GossipIInv'
    BY GossipStep
  <2>2. GossipIInv /\ UNCHANGED gossipVars => GossipIInv'
    BY DEF gossipVars, GossipIInv, GossipTypeOK, AnnouncedIsTagged, EpochKnown
  <2> QED BY <2>1, <2>2
<1>3. GossipIInv => GossipInv
  BY DEF GossipIInv, GossipInv, EpochKnown, SendersKnown
<1> QED BY <1>1, <1>2, <1>3, PTL DEF GossipSpec

-----------------------------------------------------------------------------
(* The checkpoint tasks. *)

\* The tasks that have cleaned up.
Done == {e \in Epochs : task[e] = "done"}

\* The queue has the newest of the finished checkpoints: all of them, or keep_steps.
NewestQueued ==
  /\ deleteQueue \subseteq Done
  /\ Cardinality(deleteQueue) < KeepSteps => deleteQueue = Done
  /\ \A e \in deleteQueue, f \in Done \ deleteQueue : f < e

\* What is left on disk of the finished checkpoints is what the queue has and what
\* could not be removed.
LeftOnDisk ==
  /\ dirs \intersect Done = deleteQueue \union undeleted
  /\ undeleted \subseteq Done \ deleteQueue

\* Without delete_old_steps nothing is queued, and nothing is removed.
NothingQueued == deleteQueue = {} /\ undeleted = {} /\ Done \subseteq dirs

\* The queue, with and without delete_old_steps.
QueueKept ==
  /\ deletes => NewestQueued /\ LeftOnDisk
  /\ ~deletes => NothingQueued

\* An epoch has no task before its cooldown.
NoneBefore ==
  /\ loopAt = "cooldown" => cooldowns > 0
  /\ \A e \in Epochs : e > cooldowns => task[e] = "none"

\* Only with hub_upload is there an upload.
OnlyHubUploads == \A e \in Epochs : task[e] = "uploading" => saves = "hub"

CheckpointIInv ==
  /\ CheckpointTypeOK
  /\ QueueKept
  /\ NoneBefore
  /\ OnlyHubUploads
  /\ UploadsKeepTheirDirectory
  /\ PublishedOnce

\* Sets of epochs are finite.
LEMMA EpochsFinite ==
  ASSUME NEW T \in SUBSET Epochs
  PROVE  IsFiniteSet(T) /\ Cardinality(T) \in Nat
<1>1. IsFiniteSet(Epochs)
  BY CheckpointAssumption, FS_Interval DEF Epochs
<1> QED BY <1>1, FS_Subset, FS_CardinalityType

\* The queue is what KeepsNewest counts.
LEMMA QueueIsNewest ==
  ASSUME CheckpointTypeOK, NewestQueued
  PROVE  deleteQueue = {e \in Done : Cardinality({f \in Done : f > e}) < KeepSteps}
<1>1. Done \in SUBSET Epochs /\ deleteQueue \in SUBSET Epochs /\ KeepSteps \in Nat
  BY CheckpointAssumption DEF Done, CheckpointTypeOK
<1>2. ASSUME NEW e \in deleteQueue
      PROVE  e \in Done /\ Cardinality({f \in Done : f > e}) < KeepSteps
  <2> DEFINE above == {f \in Done : f > e}
  <2>1. e \in Done /\ e \in Nat /\ above \subseteq deleteQueue \ {e}
    <3>1. e \in Done /\ e \in Nat /\ \A f \in Done : f \in Nat
      BY <1>1, <1>2 DEF NewestQueued, Epochs
    <3>2. \A f \in above : f \in Done /\ f # e /\ ~(f < e)
      BY <3>1
    <3> QED BY <1>2, <3>1, <3>2 DEF NewestQueued
  <2>2. IsFiniteSet(deleteQueue) /\ Cardinality(deleteQueue) \in Nat
        /\ IsFiniteSet(deleteQueue \ {e}) /\ IsFiniteSet(above) /\ Cardinality(above) \in Nat
    BY <1>1, <2>1, EpochsFinite
  <2>3. Cardinality(deleteQueue \ {e}) = Cardinality(deleteQueue) - 1
    BY <2>2, FS_RemoveElement
  <2>4. Cardinality(above) <= Cardinality(deleteQueue \ {e})
    BY <2>1, <2>2, FS_Subset
  <2>5. Cardinality(deleteQueue) <= KeepSteps
    BY DEF CheckpointTypeOK
  <2> HIDE DEF above
  <2>6. Cardinality(above) < KeepSteps
    BY <1>1, <2>2, <2>3, <2>4, <2>5
  <2> QED BY <2>1, <2>6 DEF above
<1>3. ASSUME NEW e \in Done, e \notin deleteQueue
      PROVE  ~(Cardinality({f \in Done : f > e}) < KeepSteps)
  <2> DEFINE above == {f \in Done : f > e}
  <2>1. deleteQueue \subseteq above
    BY <1>1, <1>3 DEF NewestQueued, Epochs
  <2>2. IsFiniteSet(above) /\ Cardinality(above) \in Nat /\ Cardinality(deleteQueue) \in Nat
    BY <1>1, EpochsFinite
  <2>3. Cardinality(deleteQueue) <= Cardinality(above)
    BY <2>1, <2>2, FS_Subset
  <2>4. ~(Cardinality(deleteQueue) < KeepSteps)
    BY <1>3 DEF NewestQueued
  <2> HIDE DEF above
  <2>5. ~(Cardinality(above) < KeepSteps)
    BY <1>1, <2>2, <2>3, <2>4
  <2> QED BY <2>5 DEF above
<1>4. deleteQueue \subseteq Done
  BY DEF NewestQueued
<1> QED BY <1>2, <1>3, <1>4

\* One of the set is taken out, the oldest.
LEMMA OldestOne ==
  ASSUME NEW Q \in SUBSET Epochs, Q # {}
  PROVE  \E x \in Q : Oldest(Q, 1) = {x} /\ \A y \in Q \ {x} : x < y
<1>1. Q \in SUBSET Nat
  BY DEF Epochs
<1>2. PICK x \in Q : \A y \in Q : x <= y
  BY <1>1, LeastNatural
<1>3. \A y \in Q \ {x} : x < y
  BY <1>1, <1>2
<1>4. ASSUME NEW y \in Q
      PROVE  Cardinality({f \in Q : f < y}) < 1 <=> y = x
  <2> DEFINE below == {f \in Q : f < y}
  <2>1. IsFiniteSet(below) /\ Cardinality(below) \in Nat
    BY EpochsFinite
  <2>2. Cardinality(below) = 0 <=> below = {}
    BY <2>1, FS_EmptySet
  <2>3. below = {} <=> y = x
    <3>1. y = x => \A f \in Q : ~(f < y)
      BY <1>1, <1>2
    <3>2. y # x => x \in below
      BY <1>3, <1>4
    <3> QED BY <3>1, <3>2
  <2> HIDE DEF below
  <2>4. Cardinality(below) < 1 <=> y = x
    BY <2>1, <2>2, <2>3
  <2> QED BY <2>4 DEF below
<1>5. Oldest(Q, 1) = {x}
  BY <1>4 DEF Oldest
<1> QED BY <1>3, <1>5

\* The loop of cleanup_dirs keeps the queue.
LEMMA TidyKeepsQueue ==
  ASSUME CheckpointIInv, NEW e \in Epochs, deletes, TidyDirs(e), task[e] = "cleaning",
         task' = [task EXCEPT ![e] = "done"]
  PROVE  /\ NewestQueued' /\ LeftOnDisk'
         /\ deleteQueue' \subseteq Epochs /\ Cardinality(deleteQueue') <= KeepSteps
         /\ \A f \in dirs : f \in dirs' \/ f \in Done \/ f = e
         /\ dirs' \subseteq dirs /\ undeleted' \subseteq Epochs
<1> DEFINE queue == deleteQueue \union {e}
           extra == IF Cardinality(queue) > KeepSteps
                    THEN Oldest(queue, Cardinality(queue) - KeepSteps) ELSE {}
<1>1. PICK kept \in SUBSET extra :
         /\ deleteQueue' = queue \ extra /\ dirs' = dirs \ (extra \ kept)
         /\ undeleted' = undeleted \union kept
  BY DEF TidyDirs
<1>2. /\ CheckpointTypeOK /\ NewestQueued /\ LeftOnDisk /\ UploadsKeepTheirDirectory
      /\ KeepSteps \in Nat
  BY CheckpointAssumption DEF CheckpointIInv, QueueKept
<1>3. Done' = Done \union {e} /\ e \notin Done /\ e \in dirs
  BY <1>2 DEF Done, CheckpointTypeOK, UploadsKeepTheirDirectory
<1>4. deleteQueue \in SUBSET Epochs /\ Done \in SUBSET Epochs /\ e \notin deleteQueue
      /\ queue \in SUBSET Epochs /\ deleteQueue \subseteq Done
  BY <1>2, <1>3 DEF NewestQueued, CheckpointTypeOK, Done
<1>5. /\ IsFiniteSet(deleteQueue) /\ Cardinality(deleteQueue) \in Nat
      /\ IsFiniteSet(queue) /\ Cardinality(queue) \in Nat
  BY <1>4, EpochsFinite
<1>6. Cardinality(queue) = Cardinality(deleteQueue) + 1
  BY <1>4, <1>5, FS_AddElement
<1>7. Cardinality(deleteQueue) <= KeepSteps
  BY <1>2 DEF CheckpointTypeOK
<1>8. extra \subseteq queue
  BY DEF Oldest
<1>9. LeftOnDisk' /\ undeleted' \subseteq Epochs
  <2> HIDE DEF extra
  <2>1. dirs \intersect Done = deleteQueue \union undeleted /\ undeleted \subseteq Done \ deleteQueue
    BY <1>2 DEF LeftOnDisk
  <2>2. dirs' \intersect Done' = deleteQueue' \union undeleted'
    BY <1>1, <1>3, <1>4, <1>8, <2>1
  <2>3. undeleted' \subseteq Done' \ deleteQueue'
    BY <1>1, <1>3, <1>4, <1>8, <2>1
  <2> QED BY <1>3, <1>4, <2>2, <2>3 DEF LeftOnDisk
<1>10. (\A f \in dirs : f \in dirs' \/ f \in Done \/ f = e) /\ dirs' \subseteq dirs
  BY <1>1, <1>4, <1>8
<1>11. CASE ~(Cardinality(queue) > KeepSteps)
  <2>1. extra = {}
    BY <1>11
  <2>2. Cardinality(deleteQueue) < KeepSteps /\ Cardinality(queue) <= KeepSteps
    BY <1>2, <1>5, <1>6, <1>11
  <2>3. deleteQueue' = queue /\ queue = Done'
    BY <1>1, <1>2, <1>3, <2>1, <2>2 DEF NewestQueued
  <2>4. NewestQueued'
    BY <2>3 DEF NewestQueued
  <2> QED BY <1>4, <1>9, <1>10, <2>2, <2>3, <2>4
<1>12. CASE Cardinality(queue) > KeepSteps
  <2>1. Cardinality(queue) - KeepSteps = 1 /\ Cardinality(queue) = KeepSteps + 1
    BY <1>2, <1>5, <1>6, <1>7, <1>12
  <2>2. extra = Oldest(queue, 1)
    BY <1>12, <2>1
  <2>3. PICK x \in queue : Oldest(queue, 1) = {x} /\ \A y \in queue \ {x} : x < y
    BY <1>4, OldestOne
  <2>4. deleteQueue' = queue \ {x}
    BY <1>1, <2>2, <2>3
  <2>5. Cardinality(queue \ {x}) = KeepSteps
    <3> HIDE DEF queue
    <3>1. Cardinality(queue \ {x}) = Cardinality(queue) - 1
      BY <1>5, <2>3, FS_RemoveElement
    <3> QED BY <1>2, <2>1, <3>1
  <2>6. ASSUME NEW y \in queue \ {x}, NEW f \in Done' \ (queue \ {x})
        PROVE  f < y
    <3>1. CASE f = x
      BY <2>3, <3>1
    <3>2. CASE f # x
      <4>1. f \in Done \ deleteQueue
        BY <1>3, <2>6, <3>2
      <4>2. CASE y \in deleteQueue
        BY <1>2, <4>1, <4>2 DEF NewestQueued
      <4>3. CASE y = e
        <5>1. x \in deleteQueue /\ x < y
          BY <2>3, <2>6, <4>3
        <5>2. f < x
          BY <1>2, <4>1, <5>1 DEF NewestQueued
        <5>3. f \in Nat /\ x \in Nat /\ y \in Nat
          BY <1>4, <4>1, <5>1, <4>3 DEF Epochs
        <5> QED BY <5>1, <5>2, <5>3
      <4> QED BY <2>6, <4>2, <4>3
    <3> QED BY <3>1, <3>2
  <2>7. queue \ {x} \subseteq Done'
    BY <1>3, <1>4
  <2>8. NewestQueued'
    BY <1>2, <2>4, <2>5, <2>6, <2>7 DEF NewestQueued
  <2> QED BY <1>2, <1>4, <1>9, <1>10, <2>4, <2>5, <2>8
<1> QED BY <1>11, <1>12

\* cleanup_dirs keeps the queue, with and without delete_old_steps.
LEMMA CleanupKeepsQueue ==
  ASSUME CheckpointIInv, NEW e \in Epochs, CleanupDirs(e)
  PROVE  /\ QueueKept'
         /\ deleteQueue' \subseteq Epochs /\ Cardinality(deleteQueue') <= KeepSteps
         /\ \A f \in dirs : f \in dirs' \/ f \in Done \/ f = e
         /\ dirs' \subseteq dirs /\ undeleted' \subseteq Epochs
<1>1. /\ task[e] = "cleaning" /\ task' = [task EXCEPT ![e] = "done"] /\ deletes' = deletes
      /\ CheckpointTypeOK /\ QueueKept /\ UploadsKeepTheirDirectory
  BY DEF CleanupDirs, CheckpointIInv, settings
<1>2. CASE deletes
  <2>1. TidyDirs(e)
    BY <1>2 DEF CleanupDirs
  <2> QED BY <1>1, <1>2, <2>1, TidyKeepsQueue DEF QueueKept
<1>3. CASE ~deletes
  <2>1. deleteQueue' = deleteQueue /\ dirs' = dirs /\ undeleted' = undeleted
    BY <1>3 DEF CleanupDirs
  <2>2. Done' = Done \union {e} /\ e \in dirs
    BY <1>1 DEF Done, CheckpointTypeOK, UploadsKeepTheirDirectory
  <2>3. NothingQueued'
    BY <1>1, <1>3, <2>1, <2>2 DEF QueueKept, NothingQueued
  <2> QED BY <1>1, <1>3, <2>1, <2>3 DEF QueueKept, CheckpointTypeOK
<1> QED BY <1>2, <1>3

\* What has been announced and what is still to be passed on.
Announcements == published \o announced

\* What is announced is typed.
LEMMA AnnouncementsType ==
  ASSUME CheckpointTypeOK
  PROVE  /\ Announcements \in Seq(Epochs)
         /\ DOMAIN Announcements = 1 .. Len(published) + Len(announced)
         /\ Len(published) \in Nat /\ Len(announced) \in Nat
         /\ \A i \in DOMAIN Announcements : Announcements[i] \in Epochs
<1>1. published \in Seq(Epochs) /\ announced \in Seq(Epochs)
  BY DEF CheckpointTypeOK
<1> QED BY <1>1, Concatenation, Elements DEF Announcements

\* A task that announces has not announced before.
LEMMA UploadAnnounces ==
  ASSUME CheckpointTypeOK, PublishedOnce, NEW e \in Epochs, task[e] = "uploading",
         saves = "hub", saves' = saves, task' = [task EXCEPT ![e] = "cleaning"], published' = published,
         announced' = Append(announced, e)
  PROVE  PublishedOnce'
<1> DEFINE n == Len(published) + Len(announced)
<1>1. /\ Announcements \in Seq(Epochs) /\ DOMAIN Announcements = 1 .. n /\ n \in Nat
      /\ \A i \in 1 .. n : Announcements[i] \in Epochs
  BY AnnouncementsType
<1>2. /\ announced' \in Seq(Epochs) /\ published \in Seq(Epochs) /\ announced \in Seq(Epochs)
  BY DEF CheckpointTypeOK
<1>3. Announcements' = Append(Announcements, e)
  BY <1>2 DEF Announcements
<1>4. /\ DOMAIN Append(Announcements, e) = 1 .. n + 1
      /\ \A i \in 1 .. n : Append(Announcements, e)[i] = Announcements[i]
      /\ Append(Announcements, e)[n + 1] = e
  BY <1>1, AppendToSequence, Elements
<1>5. /\ \A i, j \in 1 .. n : Announcements[i] = Announcements[j] => i = j
      /\ \A i \in 1 .. n : task[Announcements[i]] \in {"cleaning", "done"}
  BY <1>1 DEF PublishedOnce, IsInjective, Announcements
<1>6. \A i \in 1 .. n : Announcements[i] # e /\ task'[Announcements[i]] \in {"cleaning", "done"}
  BY <1>1, <1>5 DEF CheckpointTypeOK
<1>7. task'[e] = "cleaning"
  BY DEF CheckpointTypeOK
<1> DEFINE all == Append(Announcements, e)
<1>8. DOMAIN all = 1 .. n + 1 /\ \A i \in DOMAIN all : i \in 1 .. n \/ i = n + 1
  BY <1>1, <1>4
<1> HIDE DEF n, all
<1>a. /\ \A i \in 1 .. n : all[i] = Announcements[i]
      /\ all[n + 1] = e
  BY <1>4 DEF all
<1>9. /\ \A i, j \in DOMAIN all : all[i] = all[j] => i = j
      /\ \A i \in DOMAIN all : task'[all[i]] \in {"cleaning", "done"}
  BY <1>5, <1>6, <1>7, <1>8, <1>a
<1>10. published' \o announced' = all
  BY <1>3 DEF all, Announcements
<1>11. ~(saves' # "hub")
  OBVIOUS
<1> QED BY <1>9, <1>10, <1>11 DEF PublishedOnce, IsInjective

\* A checkpoint that is passed on changes place only.
LEMMA SendKeepsAnnouncements ==
  ASSUME CheckpointTypeOK, SendCheckpoint
  PROVE  /\ Announcements' = Announcements
         /\ published' \in Seq(Epochs) /\ announced' \in Seq(Epochs)
<1>1. /\ published \in Seq(Epochs) /\ announced \in Seq(Epochs) /\ announced # <<>>
      /\ published' = Append(published, Head(announced)) /\ announced' = Tail(announced)
  BY DEF CheckpointTypeOK, SendCheckpoint
<1> QED BY <1>1 DEF Announcements

\* The parts of the invariant that the tasks before their clean up share.
LEMMA TaskMoves ==
  ASSUME CheckpointIInv, NEW e \in Epochs, NEW t \in TaskStates, task[e] # "none",
         task[e] # "done", t # "done", task' = [task EXCEPT ![e] = t],
         loopAt' = loopAt, cooldowns' = cooldowns, deleteQueue' = deleteQueue,
         undeleted' = undeleted, settings' = settings, dirs' \in {dirs, dirs \union {e}}
  PROVE  /\ task' \in [Epochs -> TaskStates] /\ dirs' \subseteq Epochs
         /\ QueueKept' /\ NoneBefore'
<1>1. task \in [Epochs -> TaskStates] /\ dirs \subseteq Epochs
  BY DEF CheckpointIInv, CheckpointTypeOK
<1>2. Done' = Done /\ e \notin Done
  BY <1>1 DEF Done
<1>3. dirs' \intersect Done' = dirs \intersect Done /\ (Done \subseteq dirs => Done' \subseteq dirs')
  BY <1>2
<1>4. deletes' = deletes /\ QueueKept
  BY DEF settings, CheckpointIInv
<1>5. NewestQueued /\ LeftOnDisk => NewestQueued' /\ LeftOnDisk'
  BY <1>2, <1>3 DEF NewestQueued, LeftOnDisk
<1>6. NothingQueued => NothingQueued'
  BY <1>3 DEF NothingQueued
<1>7. QueueKept'
  BY <1>4, <1>5, <1>6 DEF QueueKept
<1> QED BY <1>1, <1>2, <1>7 DEF CheckpointIInv, NoneBefore

\* Announcements stay, and a task that has announced stays so.
LEMMA PublishedStays ==
  ASSUME CheckpointTypeOK, PublishedOnce, Announcements' = Announcements, saves' = saves,
         \A f \in Epochs : task[f] \in {"cleaning", "done"} => task'[f] \in {"cleaning", "done"}
  PROVE  PublishedOnce'
BY AnnouncementsType DEF PublishedOnce, IsInjective, Announcements

\* Every step keeps the invariant of the checkpoints.
LEMMA CheckpointStep ==
  ASSUME CheckpointIInv, CheckpointNext
  PROVE  CheckpointIInv'
<1> USE DEF TaskStates
<1>t. CheckpointTypeOK /\ QueueKept /\ NoneBefore /\ UploadsKeepTheirDirectory
      /\ PublishedOnce /\ OnlyHubUploads /\ CheckpointEpochs \in Nat
  BY CheckpointAssumption DEF CheckpointIInv
<1>u. task \in [Epochs -> TaskStates]
  BY <1>t DEF CheckpointTypeOK
<1>1. CASE StartCooldown
  <2>1. cooldowns + 1 \in Epochs /\ task[cooldowns + 1] = "none"
    BY <1>t, <1>1 DEF StartCooldown, CheckpointTypeOK, Epochs, NoneBefore
  <2>2. task' \in [Epochs -> TaskStates]
        /\ \A f \in Epochs : task'[f] = IF f = cooldowns + 1 THEN "extracting" ELSE task[f]
    BY <1>u, <1>1, <2>1 DEF StartCooldown
  <2>3. Done' = Done
    BY <2>1, <2>2 DEF Done
  <2>4. /\ loopAt' = "cooldown" /\ cooldowns' = cooldowns + 1 /\ handles' \subseteq handles
        /\ announced' = announced /\ published' = published /\ deleteQueue' = deleteQueue
        /\ dirs' = dirs /\ cooldowns < CheckpointEpochs /\ undeleted' = undeleted
        /\ saves' = saves /\ deletes' = deletes
    BY <1>1 DEF StartCooldown, settings
  <2>5. CheckpointTypeOK'
    BY <1>t, <2>2, <2>4 DEF CheckpointTypeOK
  <2>6. NoneBefore'
    BY <1>t, <2>2, <2>4 DEF NoneBefore, CheckpointTypeOK, Epochs
  <2>7. UploadsKeepTheirDirectory'
    BY <1>t, <2>2, <2>4 DEF UploadsKeepTheirDirectory
  <2>9. OnlyHubUploads'
    BY <1>t, <2>2, <2>4 DEF OnlyHubUploads
  <2>8. PublishedOnce'
    BY <1>t, <2>1, <2>2, <2>4, PublishedStays DEF Announcements
  <2> QED BY <1>t, <2>3, <2>4, <2>5, <2>6, <2>7, <2>8, <2>9 DEF CheckpointIInv, QueueKept, NewestQueued, LeftOnDisk, NothingQueued
<1>2. CASE FinishCooldown
  <2>1. /\ task' = task /\ cooldowns' = cooldowns /\ announced' = announced /\ published' = published
        /\ deleteQueue' = deleteQueue /\ dirs' = dirs /\ loopAt' \in {"error", "epoch"}
        /\ handles' \subseteq handles \union {cooldowns} /\ loopAt = "cooldown"
        /\ undeleted' = undeleted /\ saves' = saves /\ deletes' = deletes
    BY <1>2 DEF FinishCooldown, settings
  <2>2. cooldowns \in Epochs
    BY <1>t, <2>1 DEF CheckpointTypeOK, NoneBefore, Epochs
  <2>3. CheckpointTypeOK'
    BY <1>t, <2>1, <2>2 DEF CheckpointTypeOK
  <2> QED BY <1>t, <2>1, <2>3 DEF CheckpointIInv, QueueKept, NewestQueued, LeftOnDisk, NothingQueued, NoneBefore, Done,
               UploadsKeepTheirDirectory, PublishedOnce, OnlyHubUploads
<1>3. CASE \E e \in Epochs : CheckpointTask(e)
  <2>1. PICK e \in Epochs : CheckpointTask(e)
    BY <1>3
  <2>2. CASE Extract(e)
    <3>1. PICK t \in {"unsaved", "writing", "crashed"} : task' = [task EXCEPT ![e] = t]
      BY <2>2 DEF Extract
    <3>2. /\ task[e] = "extracting" /\ loopAt' = loopAt /\ cooldowns' = cooldowns /\ handles' = handles
          /\ announced' = announced /\ published' = published /\ deleteQueue' = deleteQueue
          /\ dirs' = dirs /\ undeleted' = undeleted /\ settings' = settings
          /\ saves' = saves /\ deletes' = deletes
      BY <2>2 DEF Extract, settings
    <3>3. /\ task' \in [Epochs -> TaskStates] /\ dirs' \subseteq Epochs
          /\ QueueKept' /\ NoneBefore'
      BY <3>1, <3>2, TaskMoves
    <3>4. CheckpointTypeOK'
      BY <1>t, <3>2, <3>3 DEF CheckpointTypeOK
    <3>5. UploadsKeepTheirDirectory'
      BY <1>t, <1>u, <3>1, <3>2 DEF UploadsKeepTheirDirectory
    <3>6. PublishedOnce'
      BY <1>t, <1>u, <3>1, <3>2, PublishedStays DEF Announcements
    <3>7. OnlyHubUploads'
      BY <1>t, <1>u, <3>1, <3>2 DEF OnlyHubUploads
    <3> QED BY <3>3, <3>4, <3>5, <3>6, <3>7 DEF CheckpointIInv
  <2>3. CASE WriteDir(e)
    <3>1. PICK t \in {"uploading", "cleaning", "failed"} :
             /\ task' = [task EXCEPT ![e] = t] /\ dirs' \in {dirs, dirs \union {e}}
             /\ t # "failed" => dirs' = dirs \union {e}
             /\ t = "uploading" => saves = "hub"
      BY <2>3 DEF WriteDir
    <3>2. /\ task[e] = "writing" /\ loopAt' = loopAt /\ cooldowns' = cooldowns /\ handles' = handles
          /\ announced' = announced /\ published' = published /\ deleteQueue' = deleteQueue
          /\ undeleted' = undeleted /\ settings' = settings
          /\ saves' = saves /\ deletes' = deletes
      BY <2>3 DEF WriteDir, settings
    <3>3. /\ task' \in [Epochs -> TaskStates] /\ dirs' \subseteq Epochs
          /\ QueueKept' /\ NoneBefore'
      BY <3>1, <3>2, TaskMoves
    <3>4. CheckpointTypeOK'
      BY <1>t, <3>2, <3>3 DEF CheckpointTypeOK
    <3>5. UploadsKeepTheirDirectory'
      BY <1>t, <1>u, <3>1, <3>2 DEF UploadsKeepTheirDirectory
    <3>6. PublishedOnce'
      BY <1>t, <1>u, <3>1, <3>2, PublishedStays DEF Announcements
    <3>7. OnlyHubUploads'
      BY <1>t, <1>u, <3>1, <3>2 DEF OnlyHubUploads
    <3> QED BY <3>3, <3>4, <3>5, <3>6, <3>7 DEF CheckpointIInv
  <2>4. CASE Upload(e)
    <3>1. PICK t \in {"cleaning", "failed"} :
             /\ task' = [task EXCEPT ![e] = t]
             /\ announced' = IF t = "cleaning" THEN Append(announced, e) ELSE announced
      BY <2>4 DEF Upload
    <3>2. /\ task[e] = "uploading" /\ loopAt' = loopAt /\ cooldowns' = cooldowns /\ handles' = handles
          /\ published' = published /\ deleteQueue' = deleteQueue /\ dirs' = dirs
          /\ undeleted' = undeleted /\ settings' = settings
          /\ saves' = saves /\ deletes' = deletes
      BY <2>4 DEF Upload, settings
    <3>3. /\ task' \in [Epochs -> TaskStates] /\ dirs' \subseteq Epochs
          /\ QueueKept' /\ NoneBefore'
      BY <3>1, <3>2, TaskMoves
    <3>4. CheckpointTypeOK'
      BY <1>t, <3>1, <3>2, <3>3 DEF CheckpointTypeOK
    <3>5. UploadsKeepTheirDirectory'
      BY <1>t, <1>u, <3>1, <3>2 DEF UploadsKeepTheirDirectory
    <3>6. PublishedOnce'
      <4>1. CASE t = "cleaning"
        BY <1>t, <3>1, <3>2, <4>1, UploadAnnounces DEF OnlyHubUploads
      <4>2. CASE t = "failed"
        BY <1>t, <1>u, <3>1, <3>2, <4>2, PublishedStays DEF Announcements
      <4> QED BY <4>1, <4>2
    <3>7. OnlyHubUploads'
      BY <1>t, <1>u, <3>1, <3>2 DEF OnlyHubUploads
    <3> QED BY <3>3, <3>4, <3>5, <3>6, <3>7 DEF CheckpointIInv
  <2>5. CASE CleanupDirs(e)
    <3>1. /\ QueueKept'
          /\ deleteQueue' \subseteq Epochs /\ Cardinality(deleteQueue') <= KeepSteps
          /\ \A f \in dirs : f \in dirs' \/ f \in Done \/ f = e
          /\ dirs' \subseteq dirs /\ undeleted' \subseteq Epochs
      BY <2>5, CleanupKeepsQueue
    <3>2. /\ task[e] = "cleaning" /\ task' = [task EXCEPT ![e] = "done"]
          /\ loopAt' = loopAt /\ cooldowns' = cooldowns /\ handles' = handles
          /\ announced' = announced /\ published' = published
          /\ saves' = saves /\ deletes' = deletes
      BY <2>5 DEF CleanupDirs, settings
    <3>3. task' \in [Epochs -> TaskStates]
          /\ \A f \in Epochs : task'[f] = IF f = e THEN "done" ELSE task[f]
      BY <1>u, <3>2
    <3>4. CheckpointTypeOK'
      BY <1>t, <3>1, <3>2, <3>3 DEF CheckpointTypeOK
    <3>5. UploadsKeepTheirDirectory'
      BY <1>t, <3>1, <3>3 DEF UploadsKeepTheirDirectory, Done
    <3>6. PublishedOnce'
      BY <1>t, <3>2, <3>3, PublishedStays DEF Announcements
    <3>7. NoneBefore'
      BY <1>t, <3>2, <3>3 DEF NoneBefore
    <3>8. OnlyHubUploads'
      BY <1>t, <3>2, <3>3 DEF OnlyHubUploads
    <3> QED BY <3>1, <3>4, <3>5, <3>6, <3>7, <3>8 DEF CheckpointIInv
  <2> QED BY <2>1, <2>2, <2>3, <2>4, <2>5 DEF CheckpointTask
<1>4. CASE SendCheckpoint
  <2>1. /\ Announcements' = Announcements
        /\ published' \in Seq(Epochs) /\ announced' \in Seq(Epochs)
    BY <1>t, <1>4, SendKeepsAnnouncements
  <2>2. UNCHANGED <<loopAt, cooldowns, task, handles, deleteQueue, dirs, undeleted, settings>>
    BY <1>4 DEF SendCheckpoint
  <2>a. saves' = saves /\ deletes' = deletes
    BY <2>2 DEF settings
  <2>3. CheckpointTypeOK'
    BY <1>t, <2>1, <2>2, <2>a DEF CheckpointTypeOK
  <2>4. PublishedOnce'
    BY <1>t, <2>1, <2>2, <2>a, PublishedStays
  <2> QED BY <1>t, <2>2, <2>a, <2>3, <2>4 DEF CheckpointIInv, QueueKept, NewestQueued, LeftOnDisk,
               NothingQueued, NoneBefore, Done, UploadsKeepTheirDirectory, OnlyHubUploads
<1>5. CASE CancelLoop \/ DrainEnds
  <2>1. /\ UNCHANGED <<cooldowns, task, handles, announced, published, deleteQueue, dirs, undeleted, settings>>
        /\ loopAt' \in {"draining", "ended"}
    BY <1>5 DEF CancelLoop, DrainEnds
  <2>2. saves' = saves /\ deletes' = deletes
    BY <2>1 DEF settings
  <2> QED BY <1>t, <2>1, <2>2 DEF CheckpointIInv, CheckpointTypeOK, QueueKept, NewestQueued, LeftOnDisk, NothingQueued, NoneBefore,
               Done, UploadsKeepTheirDirectory, PublishedOnce, OnlyHubUploads
<1> QED BY <1>1, <1>2, <1>3, <1>4, <1>5 DEF CheckpointNext, ForwardCheckpoint, DrainCheckpoint

\* However the checkpoint tasks of several epochs overlap, no directory is deleted under an
\* upload, the newest keep_steps are left with what could not be removed (all without
\* delete_old_steps), and each checkpoint is announced once, after its upload, and only with
\* hub_upload (CheckpointsInv), for every number of epochs and of directories to keep.
THEOREM CheckpointsSafety == CheckpointSpec => []CheckpointsInv
<1>1. CheckpointInit => CheckpointIInv
  <2> SUFFICES ASSUME CheckpointInit PROVE CheckpointIInv
    OBVIOUS
  <2> USE DEF CheckpointInit
  <2>1. Done = {}
    BY DEF Done
  <2>2. Cardinality(deleteQueue) = 0
    BY FS_EmptySet
  <2>3. CheckpointTypeOK
    BY <2>2, CheckpointAssumption DEF CheckpointTypeOK, TaskStates
  <2>a. NewestQueued /\ LeftOnDisk /\ NothingQueued
    BY <2>1 DEF NewestQueued, LeftOnDisk, NothingQueued
  <2>4. QueueKept /\ NoneBefore /\ UploadsKeepTheirDirectory /\ OnlyHubUploads
    BY <2>a DEF QueueKept, NoneBefore, UploadsKeepTheirDirectory, OnlyHubUploads
  <2>5. PublishedOnce
    BY DEF PublishedOnce, IsInjective
  <2> QED BY <2>3, <2>4, <2>5 DEF CheckpointIInv
<1>2. CheckpointIInv /\ [CheckpointNext]_checkpointVars => CheckpointIInv'
  <2>1. CheckpointIInv /\ CheckpointNext => CheckpointIInv'
    BY CheckpointStep
  <2>2. CheckpointIInv /\ UNCHANGED checkpointVars => CheckpointIInv'
    BY DEF checkpointVars, CheckpointIInv, CheckpointTypeOK, QueueKept, NewestQueued, LeftOnDisk, NothingQueued, NoneBefore,
           Done, UploadsKeepTheirDirectory, PublishedOnce, OnlyHubUploads
  <2> QED BY <2>1, <2>2
<1>3. CheckpointIInv => CheckpointsInv
  <2>1. CheckpointIInv => KeepsNewest
    <3> SUFFICES ASSUME CheckpointIInv PROVE KeepsNewest
      OBVIOUS
    <3> DEFINE newest == {e \in Done : Cardinality({f \in Done : f > e}) < KeepSteps}
    <3>1. KeepsNewest <=> /\ dirs \intersect Done = IF deletes THEN newest \union undeleted ELSE Done
                          /\ undeleted \subseteq Done \ newest
      BY DEF KeepsNewest, Done
    <3>2. deletes => deleteQueue = newest
      BY QueueIsNewest DEF CheckpointIInv, QueueKept
    <3> HIDE DEF newest
    <3>3. CASE deletes
      BY <3>1, <3>2, <3>3 DEF CheckpointIInv, QueueKept, LeftOnDisk
    <3>4. CASE ~deletes
      BY <3>1, <3>4 DEF CheckpointIInv, QueueKept, NothingQueued
    <3> QED BY <3>3, <3>4
  <2> QED BY <2>1 DEF CheckpointIInv, CheckpointsInv
<1> QED BY <1>1, <1>2, <1>3, PTL DEF CheckpointSpec

-----------------------------------------------------------------------------
(* The heads of an attention. *)

\* A number that is divided without a rest is a multiple.
LEMMA ExactMultiple ==
  ASSUME NEW n \in Nat, NEW w \in Nat \ {0}, n % w = 0
  PROVE  n \div w \in Nat /\ n = (n \div w) * w
<1> DEFINE q == n \div w
<1>1. q \in Nat /\ n = w * q + (n % w)
  OBVIOUS
<1> HIDE DEF q
<1>2. n = w * q
  BY <1>1
<1> QED BY <1>1, <1>2 DEF q

\* Whole multiples come out of a division.
LEMMA DivisionShift ==
  ASSUME NEW a \in Nat, NEW h \in Nat, NEW g \in Nat \ {0}
  PROVE  (a * g + h) \div g = a + (h \div g)
<1> DEFINE x == a * g + h
           p == x \div g
           q == h \div g
           r == h % g
           t == x % g
<1>1. x \in Nat
  OBVIOUS
<1>2. q \in Nat /\ r \in 0 .. g - 1 /\ h = g * q + r
  OBVIOUS
<1>3. p \in Nat /\ t \in 0 .. g - 1 /\ x = g * p + t
  <2> HIDE DEF x
  <2> QED BY <1>1
<1> HIDE DEF p, q, r, t
<1>4. a * g + g * q = g * (a + q) /\ a + q \in Nat
  BY <1>2
<1> DEFINE e == a + q
<1>5. x = g * e + r /\ e \in Nat
  <2>1. x = a * g + (g * q + r)
    BY <1>2
  <2>2. a * g \in Nat /\ g * q \in Nat
    BY <1>2
  <2> DEFINE y == a * g
             z == g * q
  <2>3. x = y + (z + r) /\ y + z = g * e /\ y \in Nat /\ z \in Nat
    BY <1>4, <2>1, <2>2
  <2> HIDE DEF x, y, z, e
  <2> QED BY <1>2, <1>4, <2>3 DEF e
<1> HIDE DEF x, e
<1>6. ~(p < e)
  <2> SUFFICES ASSUME p < e PROVE FALSE
    OBVIOUS
  <2>1. PICK d \in Nat : e = p + 1 + d
    <3>1. e - (p + 1) \in Nat /\ e = p + 1 + (e - (p + 1))
      BY <1>3, <1>5
    <3> QED BY <3>1
  <2>2. g * e = g * p + g + g * d /\ g * d \in Nat /\ g * p \in Nat
    BY <1>3, <2>1
  <2> DEFINE y == g * p
             z == g * d
             u == g * e
  <2>3. u = y + g + z /\ y \in Nat /\ z \in Nat /\ x = y + t /\ x = u + r
    BY <1>3, <1>5, <2>2
  <2> HIDE DEF y, z, u
  <2> QED BY <1>2, <1>3, <2>3
<1>7. ~(e < p)
  <2> SUFFICES ASSUME e < p PROVE FALSE
    OBVIOUS
  <2>1. PICK d \in Nat : p = e + 1 + d
    <3>1. p - (e + 1) \in Nat /\ p = e + 1 + (p - (e + 1))
      BY <1>3, <1>5
    <3> QED BY <3>1
  <2>2. g * p = g * e + g + g * d /\ g * d \in Nat /\ g * e \in Nat
    BY <1>5, <2>1
  <2> DEFINE y == g * p
             z == g * d
             u == g * e
  <2>3. y = u + g + z /\ u \in Nat /\ z \in Nat /\ x = y + t /\ x = u + r
    BY <1>3, <1>5, <2>2
  <2> HIDE DEF y, z, u
  <2> QED BY <1>2, <1>3, <2>3
<1>8. p = e
  BY <1>3, <1>5, <1>6, <1>7
<1> QED BY <1>8 DEF p, e, q, x

\* A head of a rank attends to the key head that it has in the whole model.
HeadAsWhole(heads, kvheads, size, rank, h) ==
  KvHead(heads, kvheads, size, rank, h) = KvHead(heads, kvheads, 1, 0, rank * (heads \div size) + h)
Divides(n, m) == m % n = 0

\* So it does if the ranks share the key heads evenly.
LEMMA KvHeadCut ==
  ASSUME NEW heads \in Nat \ {0}, NEW kvheads \in Nat \ {0}, NEW size \in Nat \ {0},
         Divides(kvheads, heads), Divides(size, heads), Divides(size, kvheads),
         NEW rank \in Nat, NEW h \in Nat
  PROVE  HeadAsWhole(heads, kvheads, size, rank, h)
<1> DEFINE g == heads \div kvheads
           a == kvheads \div size
           l == heads \div size
<1>1. g \in Nat /\ heads = g * kvheads
  BY ExactMultiple DEF Divides
<1>2. a \in Nat /\ kvheads = a * size
  BY ExactMultiple DEF Divides
<1>3. l \in Nat /\ heads = l * size
  BY ExactMultiple DEF Divides
<1> HIDE DEF g, a, l
<1>4. g # 0 /\ a # 0
  <2>1. g = 0 => g * kvheads = 0
    OBVIOUS
  <2>2. a = 0 => a * size = 0
    OBVIOUS
  <2> QED BY <1>1, <1>2, <2>1, <2>2
<1>5. l = g * a
  <2>1. heads = (g * a) * size /\ g * a \in Nat
    <3>1. g * (a * size) = (g * a) * size /\ g * a \in Nat
      BY <1>1, <1>2
    <3> QED BY <1>1, <1>2, <3>1
  <2>2. heads \div size = g * a
    BY <2>1, ExactDivision
  <2> QED BY <2>2 DEF l
<1>6. l \div a = g
  BY <1>1, <1>2, <1>4, <1>5, ExactDivision
<1>7. KvHead(heads, kvheads, size, rank, h) = rank * a + (h \div g)
  BY <1>6 DEF KvHead, l, a
<1>8. heads \div 1 = heads /\ kvheads \div 1 = kvheads
  OBVIOUS
<1>9. KvHead(heads, kvheads, 1, 0, rank * l + h) = (rank * l + h) \div g
  <2>1. rank * l \in Nat
    BY <1>3
  <2> DEFINE y == rank * l + h
             z == y \div g
  <2>2. z \in Nat
    <3>1. y \in Nat
      BY <2>1
    <3> HIDE DEF y
    <3> QED BY <1>1, <1>4, <3>1
  <2>3. KvHead(heads, kvheads, 1, 0, y) = 0 * kvheads + z
    BY <1>8 DEF KvHead, g
  <2> HIDE DEF z
  <2>4. 0 * kvheads + z = z
    BY <2>2
  <2> QED BY <2>3, <2>4 DEF z
<1>10. rank * l = (rank * a) * g /\ rank * a \in Nat
  BY <1>1, <1>2, <1>5
<1>11. ((rank * a) * g + h) \div g = rank * a + (h \div g)
  BY ZenonT(30), <1>1, <1>4, <1>10, DivisionShift
<1>12. KvHead(heads, kvheads, 1, 0, rank * l + h) = rank * a + (h \div g)
  BY <1>9, <1>10, <1>11
<1> QED BY <1>7, <1>12 DEF l, HeadAsWhole

\* For every number of ranks and of heads: a query head attends to the same key head
\* however the heads are cut over the ranks (repeat_kv in attention.rs).
THEOREM HeadsCorrect == TensorParallelSpec => []HeadsAsWhole
<1> DEFINE WorldIInv == world \in 1 .. MaxTpWorld
<1>1. TensorParallelInit => WorldIInv
  BY DEF TensorParallelInit
<1>2. WorldIInv /\ [TensorParallelNext]_tpVars => WorldIInv'
  <2> SUFFICES ASSUME WorldIInv, [TensorParallelNext]_tpVars PROVE WorldIInv'
    OBVIOUS
  <2>1. world' = world \/ world' \in 1 .. MaxTpWorld
    <3>1. CASE Save
      <4>1. CASE \E v \in DOMAIN taken[0] : Len(taken[0][v]) > MaxPartSize
        BY <3>1, <4>1 DEF Save, setting
      <4>2. CASE ~\E v \in DOMAIN taken[0] : Len(taken[0][v]) > MaxPartSize
        BY <3>1, <4>2 DEF Save
      <4> QED BY <4>1, <4>2
    <3>2. CASE \E r \in TpRanks : Load(r) \/ ColumnForward(r) \/ RowForward(r)
      BY <3>2 DEF Load, ColumnForward, RowForward, setting
    <3>3. CASE Gather \/ Reduce \/ ClipGradNorm
      BY <3>3 DEF Gather, Reduce, ClipGradNorm, setting
    <3>4. CASE \E v \in ToSet(VariableNames) : ExtractVariable(v)
      BY <3>4 DEF ExtractVariable, setting
    <3>5. CASE UNCHANGED tpVars
      BY <3>5 DEF tpVars, setting
    <3> QED BY <3>1, <3>2, <3>3, <3>4, <3>5 DEF TensorParallelNext
  <2> QED BY <2>1
<1>3. WorldIInv => HeadsAsWhole
  <2>1. {MaxTpWorld, MaxHeads} \subseteq Nat
    BY TensorParallelAssumption
  <2> SUFFICES ASSUME WorldIInv, NEW heads \in 1 .. MaxHeads, NEW kvheads \in 1 .. MaxHeads,
                      Divides(kvheads, heads), Divides(world, heads), Divides(world, kvheads),
                      NEW r \in TpRanks, NEW h \in 0 .. (heads \div world) - 1
               PROVE  HeadAsWhole(heads, kvheads, world, r, h)
    BY Zenon DEF HeadsAsWhole, HeadAsWhole, Divides
  <2>2. heads \in Nat \ {0} /\ kvheads \in Nat \ {0} /\ world \in Nat \ {0} /\ r \in Nat
    BY <2>1 DEF TpRanks
  <2>3. h \in Nat
    BY <2>2
  <2> QED BY <2>2, <2>3, KvHeadCut
<1> QED BY <1>1, <1>2, <1>3, PTL DEF TensorParallelSpec
=============================================================================
