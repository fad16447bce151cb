------------------------------- MODULE TrackBatches -------------------------------
(***************************************************************************)
(* Adapter.tracksByIDs (internal/source/netease/adapter.go:655-748): the   *)
(* metadata of a long list of songs is asked for in batches, each by a     *)
(* goroutine of its own, a few at a time; a WaitGroup tells when all are   *)
(* through, errors come by a channel, and the pieces are put together.     *)
(*                                                                         *)
(* Songs are numbered by their place in the list, and the source answers a *)
(* batch with those it knows, in the order asked. Calls share nothing but  *)
(* the session (SourceLogin), so there is one at a time. The statuses and  *)
(* decoding errors of a response are one kind of refusal. The program's    *)
(* other API mode asks for batches in turn and is left out.                *)
(***************************************************************************)
EXTENDS SortedLists, SequencesExt

CONSTANTS
  BatchSize,  \* 500 in the code
  Permits,    \* capacity of sem, 4 in the code
  MaxIds,     \* bound on the songs of a call
  Faults      \* may the session be missing, or the source refuse?

ASSUME SizesAssumption == BatchSize \in Nat \ {0} /\ Permits \in Nat \ {0} /\ MaxIds \in Nat
ASSUME FaultsAssumption == Faults \in BOOLEAN

NumBatches(n) == (n + BatchSize - 1) \div BatchSize
Batches == 1..NumBatches(MaxIds)

VARIABLES
  at,        \* where the caller is
  ids,       \* how many songs it asks for
  launched,  \* goroutines started
  working,   \* the WaitGroup's counter
  running,   \* permits taken from sem
  errs,      \* errors in errCh
  closed,    \* is errCh closed?
  chunks,    \* the pieces
  pc,        \* where each goroutine is
  answer,    \* of the last call: the songs, or that it failed
  refused    \* ghost: has a request of this call been refused?

vars == <<at, ids, launched, working, running, errs, closed, chunks, pc, answer, refused>>

Songs(s) == [failed |-> FALSE, songs |-> s]
Failed == [failed |-> TRUE, songs |-> <<>>]

Init ==
  /\ at = "idle" /\ ids = 0 /\ launched = 0 /\ working = 0 /\ running = 0
  /\ errs = 0 /\ closed = FALSE /\ refused = FALSE
  /\ chunks = [b \in Batches |-> {}]
  /\ pc = [b \in Batches |-> "unborn"]
  /\ answer = Songs(<<>>)

\* Slip: the end of a slice taken for its last element.
SlipBatch(n, b) == {i \in 1..n : (b - 1) * BatchSize < i /\ i < b * BatchSize}

\* ids[start:end]
Batch(n, b) == {i \in 1..n : (b - 1) * BatchSize < i /\ i <= b * BatchSize}

---------------------------------------------------------------------------
(* The caller.                                                             *)

Finish(a) ==
  /\ at' = "idle" /\ answer' = a

Call(n) ==
  /\ at = "idle"
  /\ ids' = n /\ refused' = FALSE
  /\ launched' = 0 /\ errs' = 0 /\ closed' = FALSE
  /\ chunks' = [b \in Batches |-> {}]
  /\ pc' = [b \in Batches |-> "unborn"]
  /\ IF n = 0 THEN Finish(Songs(<<>>)) ELSE at' = "cookie" /\ UNCHANGED answer
  /\ UNCHANGED <<working, running>>

LoadCookie ==
  /\ at = "cookie"
  /\ at' = IF NumBatches(ids) = 1 THEN "single" ELSE "launch"
  /\ UNCHANGED <<ids, launched, working, running, errs, closed, chunks, pc, answer, refused>>

\* What the source knows of a batch is kept as a piece, here as with goroutines.
Single ==
  /\ at = "single"
  /\ \E S \in SUBSET Batch(ids, 1) :
       Finish(Songs(InOrder(S))) /\ chunks' = [chunks EXCEPT ![1] = S]
  /\ UNCHANGED <<ids, launched, working, running, errs, closed, pc, refused>>

\* No session, or the one request is refused.
CallFails ==
  /\ Faults /\ at \in {"cookie", "single"}
  /\ refused' = TRUE
  /\ Finish(Failed)
  /\ UNCHANGED <<ids, launched, working, running, errs, closed, chunks, pc>>

\* wg.Add, and go.
Launch ==
  /\ at = "launch"
  /\ launched' = launched + 1
  /\ working' = working + 1
  /\ pc' = [pc EXCEPT ![launched + 1] = "acquire"]
  /\ at' = IF launched + 1 = NumBatches(ids) THEN "wait" ELSE "launch"
  /\ UNCHANGED <<ids, running, errs, closed, chunks, answer, refused>>

CloseAfter(n) ==
  /\ at = "wait" /\ working <= n
  /\ closed' = TRUE
  /\ at' = "collect"
  /\ UNCHANGED <<ids, launched, working, running, errs, chunks, pc, answer, refused>>

\* Slip: the last goroutine is not waited for.
SlipClose == CloseAfter(1)

\* wg.Wait and close.
Close == CloseAfter(0)

\* The first error, or the pieces one after the other.
Collect ==
  /\ at = "collect"
  /\ Finish(IF errs > 0 THEN Failed
            ELSE Songs(FlattenSeq([b \in 1..NumBatches(ids) |-> InOrder(chunks[b])])))
  /\ UNCHANGED <<ids, launched, working, running, errs, closed, chunks, pc, refused>>

---------------------------------------------------------------------------
(* The goroutines.                                                         *)

Step(b, from, to) == pc[b] = from /\ pc' = [pc EXCEPT ![b] = to]

Acquire(b) ==
  /\ Step(b, "acquire", "ask")
  /\ running < Permits
  /\ running' = running + 1
  /\ UNCHANGED <<at, ids, launched, working, errs, closed, chunks, answer, refused>>

Answered(b) ==
  /\ Step(b, "ask", "leave")
  /\ \E S \in SUBSET Batch(ids, b) : chunks' = [chunks EXCEPT ![b] = S]
  /\ UNCHANGED <<at, ids, launched, working, running, errs, closed, answer, refused>>

Refused(b) ==
  /\ Faults
  /\ Step(b, "ask", "report")
  /\ refused' = TRUE
  /\ UNCHANGED <<at, ids, launched, working, running, errs, closed, chunks, answer>>

\* Slip: errCh has room for one error.
SlipRoom(n) == 1

\* The capacity of errCh.
Room(n) == NumBatches(n)

\* Sending blocks while errCh is full, and panics once it is closed.
Report(b) ==
  /\ Step(b, "report", "leave")
  /\ errs < Room(ids)
  /\ errs' = errs + 1
  /\ UNCHANGED <<at, ids, launched, working, running, closed, chunks, answer, refused>>

\* The deferred calls, the last first: the permit ...
Leave(b) ==
  /\ Step(b, "leave", "done")
  /\ running' = running - 1
  /\ UNCHANGED <<at, ids, launched, working, errs, closed, chunks, answer, refused>>

\* ... and wg.Done.
Done(b) ==
  /\ Step(b, "done", "over")
  /\ working' = working - 1
  /\ UNCHANGED <<at, ids, launched, running, errs, closed, chunks, answer, refused>>

---------------------------------------------------------------------------

Caller == LoadCookie \/ Single \/ CallFails \/ Launch \/ Close \/ Collect

Goroutine(b) ==
  Acquire(b) \/ Answered(b) \/ Refused(b) \/ Report(b) \/ Leave(b) \/ Done(b)

Next ==
  \/ \E n \in 0..MaxIds : Call(n)
  \/ Caller
  \/ \E b \in Batches : Goroutine(b)

Spec == Init /\ [][Next]_vars

---------------------------------------------------------------------------
(* Properties.                                                             *)

CallerStages == {"idle", "cookie", "single", "launch", "wait", "collect"}
Stages == {"unborn", "acquire", "ask", "report", "leave", "done", "over"}

TypeOK ==
  /\ at \in CallerStages /\ ids \in 0..MaxIds
  /\ launched \in 0..NumBatches(ids) /\ working \in 0..NumBatches(ids)
  /\ running \in Nat /\ errs \in Nat
  /\ closed \in BOOLEAN /\ refused \in BOOLEAN
  /\ chunks \in [Batches -> SUBSET (1..MaxIds)]
  /\ pc \in [Batches -> Stages]

Holding == {b \in Batches : pc[b] \in {"ask", "report", "leave"}}
Working == {b \in Batches : pc[b] \notin {"unborn", "over"}}

\* No more requests are under way than sem has permits, and a permit is given
\* back on every path (adapter.go:693, 705-732).
FewAtATime == running = Cardinality(Holding) /\ Cardinality(Holding) <= Permits

\* When errCh is closed no goroutine is left that might send on it, which would
\* end the process, or write its piece (adapter.go:704-706, 735-736).
NoneAfterClose == closed => Working = {}

\* A call fails if one of its requests did, and is never answered in part;
\* otherwise its answer is what the source knows of each of the songs asked for,
\* in their order, however the batches came in (adapter.go:690-747).
AnswerExact ==
  at = "idle" =>
    IF refused THEN answer = Failed
    ELSE /\ answer = Songs(InOrder(UNION {chunks[b] : b \in Batches}))
         /\ \A i \in 1..ids : \E b \in Batches : i \in Batch(ids, b) /\ b <= NumBatches(ids)

\* errCh has room for every error there may be: no goroutine waits for someone
\* to receive, which nobody does before wg.Wait has returned (adapter.go:691, 735-737).
SendsNeverBlock == \A b \in Batches : pc[b] = "report" => errs < Room(ids)
===================================================================================
