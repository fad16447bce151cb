------------------------------ MODULE StreamProofs ------------------------------
(***************************************************************************)
(* Proofs about StreamProxy, for any number of requests, representations,  *)
(* retries and provider changes: the table of fills is exact, what a fill  *)
(* publishes is whole, and, while the partial file can be written, what a  *)
(* request receives from the provider is a prefix of what it asked for.    *)
(* About ByteRange: a header selects what RFC 7233 says, which is a request *)
(* the proxy knows. About Descriptors: no URL is given out past its        *)
(* expiry, none from before a refresh unless overtaken, and nothing fails   *)
(* without a cause.                                                        *)
(***************************************************************************)
EXTENDS StreamProxy, Descriptors, ByteRange, SequenceTheorems, FiniteSetTheorems, TLAPS

---------------------------------------------------------------------------
(* The table of fills.                                                     *)

\* What the table's argument needs of the types, and that only the request of
\* a fill, until its end, or one that has ended, is marked as filling.
Table ==
  /\ fill \in Requests \cup {None}
  /\ pc \in [Requests -> Stages]
  /\ await \in [Requests -> Requests \cup {None}]
  /\ whole \in [Requests -> BOOLEAN]
  /\ \A c \in Requests : whole[c] => pc[c] \in FillStages \cup {"done"}
  /\ FillKnown
  /\ WaitsForFill

LEMMA TableInit == Init => Table
  BY NoneAssumption DEF Init, Table, FillKnown, WaitsForFill, Stages, FillStages

\* Every step of a request keeps Table.
LEMMA TableServe ==
  ASSUME Table, NEW c \in Requests, Serve(c)
  PROVE  Table'
<1> USE NoneAssumption DEF Table, FillKnown, WaitsForFill, Stages, FillStages, Goto,
        outside, request, copying
<1>1. CASE CheckFill(c)
  BY <1>1 DEF CheckFill
<1>2. CASE StartFill(c)
  <2>1. CASE fill = None
    <3>1. /\ pc[c] = "start" /\ fill' = c /\ await' = await
          /\ whole' = [whole EXCEPT ![c] = TRUE] /\ pc' = [pc EXCEPT ![c] = "open"]
      BY <1>2, <2>1 DEF StartFill, TakeFill
    <3>2. \A d \in Requests : await[d] = None
      BY <2>1
    <3>3. \A d \in Requests : ~(whole[d] /\ pc[d] \in FillStages)
      BY <2>1
    <3>4. FillKnown'
      BY <3>1, <3>3
    <3> QED BY <3>1, <3>2, <3>4
  <2>2. CASE fill # None
    BY <1>2, <2>2 DEF StartFill
  <2> QED BY <2>1, <2>2
<1>3. CASE Lookup(c) \/ LookupFails(c) \/ ServeFile(c) \/ ServeFileFails(c)
  BY <1>3 DEF Lookup, LookupFails, ServeFile, ServeFileFails
<1>4. CASE Wake(c) \/ PauseEnds(c) \/ CancelWait(c)
  BY <1>4 DEF Wake, PauseEnds, CancelWait
<1>5. CASE Open(c) \/ OpenFails(c)
  BY <1>5 DEF Open, OpenFails
<1>6. CASE CopyChunk(c) \/ ClientWriteFails(c) \/ CacheWriteFails(c) \/ CopyEnds(c)
  BY <1>6 DEF CopyChunk, ClientWriteFails, CacheWriteFails, CopyEnds
<1>7. CASE BodyBreaks(c) \/ BodyEnds(c) \/ Retry(c) \/ GiveUp(c)
  BY <1>7 DEF BodyBreaks, BodyEnds, Retry, Resume, GiveUp
<1>8. CASE Close(c) \/ CloseFails(c)
  BY <1>8 DEF Close, CommitIf, CloseFails
<1>9. CASE Release(c)
  <2>1. CASE whole[c]
    <3>1. fill = c /\ fill' = None
      BY <1>9, <2>1 DEF Release, Finish, Leave
    <3>2. await' = [d \in Requests |-> None]
      BY <1>9, <2>1, <3>1 DEF Release, Finish, Leave
    <3> QED BY <1>9, <2>1, <3>1, <3>2 DEF Release, Finish, Leave
  <2>2. CASE ~whole[c]
    <3>1. fill' = fill /\ await' = await
      BY <1>9, <2>2 DEF Release, Finish, Leave
    <3> QED BY <1>9, <2>2, <3>1 DEF Release, Finish, Leave
  <2> QED BY <2>1, <2>2
<1> QED BY <1>1, <1>2, <1>3, <1>4, <1>5, <1>6, <1>7, <1>8, <1>9 DEF Serve

LEMMA TableStep == Table /\ [Next]_vars => Table'
<1> SUFFICES ASSUME Table, [Next]_vars PROVE Table'
  OBVIOUS
<1>1. CASE \E c \in Requests : Serve(c)
  BY <1>1, TableServe
<1>2. CASE \E c \in Requests : Arrival(c) \/ ClientLeaves(c) \/ ClientStalls(c)
  BY <1>2, NoneAssumption DEF Table, FillKnown, WaitsForFill, Stages, FillStages, Goto,
     outside, request, copying, Arrival, Arrive, ClientLeaves, ClientStalls
<1>3. CASE ProviderChanges \/ Forget \/ Finished \/ UNCHANGED vars
  BY <1>3 DEF Table, FillKnown, WaitsForFill, outside, request, copying, vars,
     ProviderChanges, Forget, Finished
<1> QED BY <1>1, <1>2, <1>3 DEF Next

\* The table names exactly the request whose fill is under way, and who waits
\* holds the channel of that one, which its request will close: no fill is ever
\* forgotten, and there are never two (proxy.go:58-83, 183-197).
THEOREM GateIsExact == Spec => []GateExact
<1>1. Table => GateExact
  BY DEF Table, GateExact
<1> QED BY TableInit, TableStep, <1>1, PTL DEF Spec

---------------------------------------------------------------------------
(* The types.                                                              *)

Before == {"new", "lookup", "serve", "check", "wait", "start", "pause", "open"}

\* TypeOK, and what it needs: a request has asked for bytes of its descriptor,
\* has nothing before it has opened a body, copies the representation it was
\* promised, and serves an object only when it has found one.
Typed ==
  /\ TypeOK
  /\ \A c \in Requests :
       /\ Total(c) \in Nat
       /\ pc[c] \in Before => written[c] = 0 /\ sent[c] = <<>> /\ part[c] = <<>>
       /\ pc[c] = "copy" => from[c] = req[c].size
       /\ pc[c] = "serve" => obj[c] \in Objects

LEMMA AsksTyped ==
  ASSUME NEW r \in Asks
  PROVE  /\ r \in [size : Sizes, start : Nat, end : Nat \cup {-1}]
         /\ r.end - r.start + 1 \in Nat
<1>1. PICK v \in Sizes : r \in AskedOf(v)
  BY DEF Asks
<1>2. v \in Nat
  BY SizesAssumption
<1>3. r = All(r.size) \/ r.start <= r.end
  BY DEF Asks
<1>4. CASE r = All(v)
  BY <1>2, <1>4 DEF All, Ask
<1>5. CASE r # All(v)
  <2>1. PICK s \in 0..(v - 1), e \in 0..(v - 1) : r = Ask(v, s, e)
    BY <1>1, <1>5 DEF AskedOf
  <2>2. r.size = v /\ r.start = s /\ r.end = e
    BY <2>1 DEF Ask
  <2>3. s <= e
    BY <1>2, <1>3, <2>2 DEF All, Ask
  <2> QED BY <1>2, <2>1, <2>2, <2>3 DEF Ask
<1> QED BY <1>4, <1>5

LEMMA TypedInit == Init => Typed
<1> SUFFICES ASSUME Init PROVE Typed
  OBVIOUS
<1>1. offered \in Seq(Sizes) /\ offered # <<>> /\ offered[1] \in Sizes
  BY DEF Init
<1>2. offered[1] \in Nat
  BY <1>1, SizesAssumption
<1>3. \A c \in Requests : req[c] = [size |-> offered[1], start |-> 0, end |-> offered[1] - 1]
  BY DEF Init, All, Ask
<1>4. req \in [Requests -> [size : Sizes, start : Nat, end : Nat \cup {-1}]]
  BY <1>1, <1>2 DEF Init, All, Ask
<1>5. ASSUME NEW c \in Requests PROVE Total(c) = offered[1]
  <2>1. req[c].start = 0 /\ req[c].end = offered[1] - 1
    BY <1>3
  <2> QED BY <1>2, <2>1 DEF Total
<1> QED BY <1>1, <1>2, <1>4, <1>5, TriesAssumption DEF Init, Typed, TypeOK, Before, Stages

\* A step of the control of one request.
LEMMA TypedFrame ==
  ASSUME Typed, NEW c \in Requests, NEW l \in Stages \ {"copy", "serve"},
         l \in Before => pc[c] \in Before,
         pc' = [pc EXCEPT ![c] = l],
         fill' \in Requests \cup {None},
         await' \in [Requests -> Requests \cup {None}],
         whole' \in [Requests -> BOOLEAN],
         UNCHANGED <<outside, request, copying>>
  PROVE  Typed'
<1>1. UNCHANGED <<offered, cached, req, client, obj, from, sent, part, written, tries>>
  BY DEF outside, request, copying
<1>2. pc' \in [Requests -> Stages]
  BY DEF Typed, TypeOK
<1>3. TypeOK'
  BY <1>1, <1>2 DEF Typed, TypeOK, Total
<1>4. \A d \in Requests :
        /\ pc'[d] \in Before => pc[d] \in Before
        /\ pc'[d] = "copy" => pc[d] = "copy"
        /\ pc'[d] = "serve" => pc[d] = "serve"
  BY DEF Typed, TypeOK
<1> QED BY <1>1, <1>3, <1>4 DEF Typed, Total

\* Steps that leave the bytes of every request alone.
LEMMA TypedControl ==
  ASSUME Typed, NEW c \in Requests,
         CheckFill(c) \/ StartFill(c) \/ Wake(c) \/ PauseEnds(c) \/ CancelWait(c)
         \/ OpenFails(c) \/ ClientWriteFails(c) \/ BodyBreaks(c) \/ BodyEnds(c)
         \/ GiveUp(c) \/ CopyEnds(c) \/ CloseFails(c) \/ Release(c)
         \/ LookupFails(c) \/ ServeFileFails(c)
  PROVE  Typed'
<1> USE DEF Before, Stages, FillStages, Goto
<1>1. /\ fill \in Requests \cup {None} /\ await \in [Requests -> Requests \cup {None}]
      /\ whole \in [Requests -> BOOLEAN]
  BY DEF Typed, TypeOK
<1>2. CASE CheckFill(c)
  <2>1. CASE fill # None
    BY <1>1, <1>2, <2>1, TypedFrame DEF CheckFill
  <2>2. CASE fill = None /\ req[c] = All(req[c].size)
    BY <1>1, <1>2, <2>2, TypedFrame DEF CheckFill
  <2>3. CASE fill = None /\ req[c] # All(req[c].size)
    BY <1>1, <1>2, <2>3, TypedFrame DEF CheckFill
  <2> QED BY <2>1, <2>2, <2>3
<1>3. CASE StartFill(c)
  <2>1. CASE fill = None
    BY <1>1, <1>3, <2>1, TypedFrame DEF StartFill, TakeFill
  <2>2. CASE fill # None
    BY <1>1, <1>3, <2>2, TypedFrame DEF StartFill
  <2> QED BY <2>1, <2>2
<1>4. CASE Wake(c)
  BY <1>1, <1>4, TypedFrame DEF Wake
<1>5. CASE PauseEnds(c)
  BY <1>1, <1>5, TypedFrame DEF PauseEnds
<1>6. CASE CancelWait(c)
  BY <1>1, <1>6, TypedFrame DEF CancelWait
<1>7. CASE OpenFails(c) \/ ClientWriteFails(c) \/ CloseFails(c)
  BY <1>1, <1>7, TypedFrame DEF OpenFails, ClientWriteFails, CloseFails
<1>8. CASE BodyBreaks(c)
  BY <1>1, <1>8, TypedFrame DEF BodyBreaks
<1>9. CASE BodyEnds(c) \/ GiveUp(c) \/ CopyEnds(c)
  BY <1>1, <1>9, TypedFrame DEF BodyEnds, GiveUp, CopyEnds
<1>10. CASE LookupFails(c) \/ ServeFileFails(c)
  BY <1>1, <1>10, TypedFrame DEF LookupFails, ServeFileFails
<1>11. CASE Release(c)
  <2>1. fill' \in Requests \cup {None} /\ await' \in [Requests -> Requests \cup {None}]
    BY <1>1, <1>11 DEF Release, Finish, Leave
  <2>2. pc' = [pc EXCEPT ![c] = "done"] /\ UNCHANGED <<outside, request, whole, copying>>
    BY <1>11 DEF Release, Finish, Leave
  <2> QED BY <1>1, <2>1, <2>2, TypedFrame
<1> QED BY <1>2, <1>3, <1>4, <1>5, <1>6, <1>7, <1>8, <1>9, <1>10, <1>11

LEMMA TypedClient ==
  ASSUME Typed, NEW c \in Requests, ClientLeaves(c) \/ ClientStalls(c)
  PROVE  Typed'
<1>1. client' \in [Requests -> {"reading", "stalled", "gone"}]
  BY DEF Typed, TypeOK, ClientLeaves, ClientStalls
<1>2. UNCHANGED <<outside, fill, pc, req, await, whole, copying>>
  BY DEF ClientLeaves, ClientStalls
<1>3. UNCHANGED <<offered, cached, fill, pc, req, await, whole, obj, from, sent, part, written, tries>>
  BY <1>2 DEF outside, copying
<1> QED BY <1>1, <1>3 DEF Typed, TypeOK, Total

LEMMA ToClientTyped ==
  ASSUME Typed, NEW c \in Requests, pc[c] = "copy"
  PROVE  ToClient(c) \in Seq(Bytes) /\ Byte(from[c], written[c]) \in Bytes
<1>1. from[c] \in Sizes /\ written[c] \in Nat /\ req[c].start \in Nat /\ sent[c] \in Seq(Bytes)
  BY DEF Typed, TypeOK
<1>2. Byte(from[c], written[c]) \in Bytes /\ Byte(from[c], req[c].start + written[c]) \in Bytes
  BY <1>1 DEF Byte, Bytes
<1> QED BY <1>1, <1>2 DEF ToClient

\* Steps that change them.
LEMMA TypedCopy ==
  ASSUME Typed, NEW c \in Requests,
         Lookup(c) \/ ServeFile(c) \/ Open(c) \/ CopyChunk(c) \/ CacheWriteFails(c)
         \/ Retry(c) \/ Close(c)
  PROVE  Typed'
<1> USE DEF Goto, outside, request, copying
<1>1. /\ pc \in [Requests -> Stages] /\ obj \in [Requests -> Objects \cup {None}]
      /\ req \in [Requests -> [size : Sizes, start : Nat, end : Nat \cup {-1}]]
      /\ cached \in Objects \cup {None} /\ from \in [Requests -> Sizes \cup {0}]
      /\ sent \in [Requests -> Seq(Bytes)] /\ part \in [Requests -> Seq(Bytes)]
      /\ written \in [Requests -> Nat] /\ tries \in [Requests -> 0..MaxTries]
      /\ \A d \in Requests : written[d] <= Total(d)
  BY DEF Typed, TypeOK
<1>2. CASE Lookup(c)
  <2>1. /\ pc[c] = "lookup" /\ obj' = [obj EXCEPT ![c] = cached]
        /\ pc' = [pc EXCEPT ![c] = IF cached = None THEN "check" ELSE "serve"]
        /\ UNCHANGED <<offered, cached, fill, req, client, await, whole, from, sent, part, written, tries>>
    BY <1>2 DEF Lookup
  <2>2. pc' \in [Requests -> Stages] /\ obj' \in [Requests -> Objects \cup {None}]
    BY <1>1, <2>1 DEF Stages
  <2>3. TypeOK'
    BY <2>1, <2>2 DEF Typed, TypeOK, Total
  <2>4. \A d \in Requests :
          /\ pc'[d] \in Before => pc[d] \in Before
          /\ pc'[d] = "copy" => pc[d] = "copy"
          /\ pc'[d] = "serve" => obj'[d] \in Objects
    BY <1>1, <2>1 DEF Typed, Before
  <2> QED BY <2>1, <2>3, <2>4 DEF Typed, Total
<1>3. CASE ServeFile(c)
  <2>1. obj[c].bytes \in Seq(Bytes) /\ req[c] \in [size : Sizes, start : Nat, end : Nat \cup {-1}]
    BY <1>1, <1>3 DEF ServeFile, Objects, Typed
  <2> DEFINE m == req[c].start + 1
             n == Lesser(req[c].end + 1, Len(obj[c].bytes))
  <2>2. m \in Nat \ {0} /\ n \in Nat /\ n <= Len(obj[c].bytes)
    <3>1. \A a, b \in Nat : Lesser(a, b) \in Nat /\ Lesser(a, b) <= b
      BY DEF Lesser
    <3>2. req[c].end + 1 \in Nat /\ req[c].start \in Nat /\ Len(obj[c].bytes) \in Nat
      BY <2>1
    <3>3. n \in Nat /\ n <= Len(obj[c].bytes)
      BY <3>1, <3>2
    <3> QED BY <3>2, <3>3
  <2>3. \A i \in m..n : obj[c].bytes[i] \in Bytes
    BY <2>1, <2>2
  <2>4. SubSeq(obj[c].bytes, m, n) \in Seq(Bytes)
    <3> HIDE DEF m, n
    <3> QED BY <2>2, <2>3, SubSeqProperties
  <2>5. /\ pc' = [pc EXCEPT ![c] = "done"] /\ sent' = [sent EXCEPT ![c] = SubSeq(obj[c].bytes, m, n)]
        /\ UNCHANGED <<offered, cached, fill, req, client, await, whole, obj, from, part, written, tries>>
    BY <1>3 DEF ServeFile
  <2>6. pc' \in [Requests -> Stages] /\ sent' \in [Requests -> Seq(Bytes)]
    BY <1>1, <2>4, <2>5 DEF Stages
  <2>7. TypeOK'
    BY <2>5, <2>6 DEF Typed, TypeOK, Total
  <2>8. \A d \in Requests : pc'[d] # "done" => d # c /\ pc'[d] = pc[d] /\ sent'[d] = sent[d]
    BY <1>1, <2>5
  <2> QED BY <2>5, <2>7, <2>8 DEF Typed, Total, Before
<1>4. CASE Open(c)
  <2>1. /\ pc' = [pc EXCEPT ![c] = "copy"] /\ from' = [from EXCEPT ![c] = req[c].size]
        /\ tries' = [tries EXCEPT ![c] = 1]
        /\ UNCHANGED <<offered, cached, fill, req, client, await, whole, obj, sent, part, written>>
    BY <1>4 DEF Open
  <2>2. /\ pc' \in [Requests -> Stages] /\ from' \in [Requests -> Sizes \cup {0}]
        /\ tries' \in [Requests -> 0..MaxTries]
    BY <1>1, <2>1, TriesAssumption DEF Stages, FillStages
  <2>3. TypeOK'
    BY <2>1, <2>2 DEF Typed, TypeOK, Total
  <2>4. \A d \in Requests \ {c} : pc'[d] = pc[d] /\ from'[d] = from[d]
    BY <1>1, <2>1
  <2>5. pc'[c] = "copy" /\ from'[c] = req[c].size
    BY <1>1, <2>1
  <2> QED BY <2>1, <2>3, <2>4, <2>5 DEF Typed, Total, Before
<1>5. CASE CopyChunk(c)
  <2>1. /\ pc[c] = "copy" /\ written[c] < Total(c) /\ sent' = [sent EXCEPT ![c] = ToClient(c)]
        /\ part' = IF whole[c] THEN [part EXCEPT ![c] = Append(@, Byte(from[c], written[c]))] ELSE part
        /\ written' = [written EXCEPT ![c] = @ + 1]
        /\ UNCHANGED <<offered, cached, fill, pc, req, client, await, whole, obj, from, tries>>
    BY <1>5 DEF CopyChunk
  <2>2. Append(part[c], Byte(from[c], written[c])) \in Seq(Bytes) /\ ToClient(c) \in Seq(Bytes)
    BY <1>1, <2>1, ToClientTyped
  <2>3. written[c] + 1 \in Nat /\ written[c] + 1 <= Total(c)
    BY <1>1, <2>1 DEF Typed
  <2>4. sent' \in [Requests -> Seq(Bytes)] /\ part' \in [Requests -> Seq(Bytes)]
    BY <1>1, <2>1, <2>2
  <2>5. written' \in [Requests -> Nat] /\ \A d \in Requests : written'[d] <= Total(d)
    BY <1>1, <2>1, <2>3
  <2>6. TypeOK'
    BY <2>1, <2>4, <2>5 DEF Typed, TypeOK, Total
  <2>7. \A d \in Requests \ {c} : sent'[d] = sent[d] /\ part'[d] = part[d] /\ written'[d] = written[d]
    BY <1>1, <2>1
  <2> QED BY <2>1, <2>6, <2>7 DEF Typed, Total, Before
<1>6. CASE CacheWriteFails(c)
  <2>1. /\ pc[c] = "copy" /\ pc' = [pc EXCEPT ![c] = "retry"] /\ sent' = [sent EXCEPT ![c] = ToClient(c)]
        /\ UNCHANGED <<offered, cached, fill, req, client, await, whole, obj, from, part, written, tries>>
    BY <1>6 DEF CacheWriteFails
  <2>2. pc' \in [Requests -> Stages] /\ sent' \in [Requests -> Seq(Bytes)]
    BY <1>1, <2>1, ToClientTyped DEF Stages, FillStages
  <2>3. TypeOK'
    BY <2>1, <2>2 DEF Typed, TypeOK, Total
  <2>4. \A d \in Requests : pc'[d] # "retry" => d # c /\ pc'[d] = pc[d] /\ sent'[d] = sent[d]
    BY <1>1, <2>1
  <2> QED BY <2>1, <2>3, <2>4 DEF Typed, Total, Before
<1>7. CASE Retry(c)
  <2>1. /\ tries[c] < MaxTries /\ Current = req[c].size
        /\ pc' = [pc EXCEPT ![c] = "copy"] /\ tries' = [tries EXCEPT ![c] = @ + 1]
        /\ from' = [from EXCEPT ![c] = Current]
        /\ UNCHANGED <<offered, cached, fill, req, client, await, whole, obj, sent, part, written>>
    BY <1>7 DEF Retry, Resume
  <2>2. tries' \in [Requests -> 0..MaxTries]
    BY <1>1, <2>1, TriesAssumption
  <2>3. pc' \in [Requests -> Stages] /\ from' \in [Requests -> Sizes \cup {0}]
    BY <1>1, <2>1 DEF Stages, FillStages
  <2>4. TypeOK'
    BY <2>1, <2>2, <2>3 DEF Typed, TypeOK, Total
  <2>5. \A d \in Requests \ {c} : pc'[d] = pc[d] /\ from'[d] = from[d]
    BY <1>1, <2>1
  <2>6. pc'[c] = "copy" /\ from'[c] = req[c].size
    BY <1>1, <2>1
  <2> QED BY <2>1, <2>4, <2>5, <2>6 DEF Typed, Total, Before
<1>8. CASE Close(c)
  <2>1. [size |-> req[c].size, bytes |-> part[c]] \in Objects
    BY <1>1 DEF Objects
  <2>2. /\ pc' = [pc EXCEPT ![c] = "release"]
        /\ UNCHANGED <<offered, fill, req, client, await, whole, obj, from, sent, part, written, tries>>
    BY <1>8 DEF Close, CommitIf
  <2>3. pc' \in [Requests -> Stages] /\ cached' \in Objects \cup {None}
    BY <1>1, <1>8, <2>1, <2>2 DEF Close, CommitIf, Stages, FillStages
  <2>4. TypeOK'
    BY <2>2, <2>3 DEF Typed, TypeOK, Total
  <2>5. \A d \in Requests : pc'[d] # "release" => pc'[d] = pc[d]
    BY <1>1, <2>2
  <2> QED BY <2>2, <2>4, <2>5 DEF Typed, Total, Before
<1> QED BY <1>2, <1>3, <1>4, <1>5, <1>6, <1>7, <1>8

LEMMA TypedStep == Typed /\ [Next]_vars => Typed'
<1> SUFFICES ASSUME Typed, [Next]_vars PROVE Typed'
  OBVIOUS
<1> USE DEF Typed, TypeOK, Before, Stages, FillStages, Goto, outside, request, copying, Total
<1>1. CASE \E c \in Requests : Serve(c) \/ ClientLeaves(c) \/ ClientStalls(c)
  BY <1>1, TypedControl, TypedCopy, TypedClient DEF Serve
<1>2. ASSUME NEW c \in Requests, NEW r \in Asks, Arrive(c, r)
      PROVE  Typed'
  <2>1. r \in [size : Sizes, start : Nat, end : Nat \cup {-1}] /\ r.end - r.start + 1 \in Nat
    BY AsksTyped
  <2>2. req' = [req EXCEPT ![c] = r] /\ pc[c] = "new" /\ pc' = [pc EXCEPT ![c] = "lookup"]
    BY <1>2 DEF Arrive
  <2>3. \A d \in Requests : Total(d)' \in Nat
    BY <2>1, <2>2
  <2>4. \A d \in Requests : written[d] <= Total(d)'
    BY <2>1, <2>2, <2>3
  <2>5. UNCHANGED <<offered, cached, fill, client, await, whole, copying>>
    BY <1>2 DEF Arrive
  <2>6. req' \in [Requests -> [size : Sizes, start : Nat, end : Nat \cup {-1}]]
    BY <2>1, <2>2
  <2>7. pc' \in [Requests -> Stages]
    BY <2>2
  <2>8. TypeOK'
    BY <2>4, <2>5, <2>6, <2>7
  <2>9. \A d \in Requests :
          /\ pc'[d] \in Before => pc[d] \in Before
          /\ pc'[d] = "copy" => pc[d] = "copy" /\ req'[d] = req[d]
          /\ pc'[d] = "serve" => pc[d] = "serve"
    BY <2>2
  <2> QED BY <2>3, <2>5, <2>8, <2>9
<1>3. CASE ProviderChanges
  BY <1>3 DEF ProviderChanges
<1>4. CASE Forget \/ Finished \/ UNCHANGED vars
  BY <1>4 DEF Forget, Finished, vars
<1> QED BY <1>1, <1>2, <1>3, <1>4 DEF Next, Arrival

\* The variables keep their types, and the count of a copy never passes the
\* length announced (proxy.go:224-268, 399-407).
THEOREM StreamTypes == Spec => []TypeOK
<1>1. Typed => TypeOK
  BY DEF Typed
<1> QED BY TypedInit, TypedStep, <1>1, PTL DEF Spec

---------------------------------------------------------------------------
(* What a fill publishes.                                                  *)

LEMMA RunEmpty ==
  ASSUME NEW v, NEW p \in Nat
  PROVE  Run(v, p, 0) = <<>>
  BY DEF Run

LEMMA RunLen ==
  ASSUME NEW v, NEW p \in Nat, NEW n \in Nat
  PROVE  Len(Run(v, p, n)) = n
  BY DEF Run

LEMMA RunGrows ==
  ASSUME NEW v, NEW p \in Nat, NEW n \in Nat
  PROVE  Append(Run(v, p, n), Byte(v, p + n)) = Run(v, p, n + 1)
<1> DEFINE S == {Byte(v, q) : q \in Nat}
           r == Run(v, p, n)
<1>1. r \in Seq(S) /\ Len(r) = n /\ Run(v, p, n + 1) \in Seq(S) /\ Len(Run(v, p, n + 1)) = n + 1
  <2>1. ASSUME NEW k \in Nat PROVE Run(v, p, k) \in Seq(S) /\ Len(Run(v, p, k)) = k
    <3>1. \A i \in 1..k : Byte(v, p + i - 1) \in S
      OBVIOUS
    <3> HIDE DEF S
    <3>2. Run(v, p, k) \in [1..k -> S]
      BY <3>1 DEF Run
    <3> QED BY <3>2
  <2> QED BY <2>1
<1>2. Byte(v, p + n) \in S
  OBVIOUS
<1>3. /\ Append(r, Byte(v, p + n)) \in Seq(S) /\ Len(Append(r, Byte(v, p + n))) = n + 1
      /\ \A i \in 1..n : Append(r, Byte(v, p + n))[i] = r[i]
      /\ Append(r, Byte(v, p + n))[n + 1] = Byte(v, p + n)
  <2> HIDE DEF S, r
  <2> QED BY <1>1, <1>2
<1>4. /\ \A i \in 1..n : r[i] = Run(v, p, n + 1)[i]
      /\ Run(v, p, n + 1)[n + 1] = Byte(v, p + n)
  BY DEF Run
<1>5. \A i \in 1..(n + 1) : Append(r, Byte(v, p + n))[i] = Run(v, p, n + 1)[i]
  <2> HIDE DEF S, r
  <2> QED BY <1>3, <1>4
<1> QED
  <2> DEFINE t == Append(r, Byte(v, p + n))
             u == Run(v, p, n + 1)
  <2>1. t \in Seq(S) /\ u \in Seq(S) /\ Len(t) = Len(u) /\ Len(t) = n + 1
    BY <1>1, <1>3
  <2>2. \A i \in 1..Len(t) : t[i] = u[i]
    BY <1>5, <2>1
  <2>3. t = u
    <3> HIDE DEF S, t, u
    <3> QED BY <2>1, <2>2, SeqEqual
  <2> QED BY <2>3

\* A fill asks for everything, and its partial file holds the bytes counted.
Filled ==
  /\ CachedWhole
  /\ \A c \in Requests :
       /\ whole[c] \/ pc[c] = "start" => req[c] = All(req[c].size)
       /\ whole[c] => part[c] = Run(req[c].size, 0, written[c])

LEMMA FilledInit == Init => Filled
  BY DEF Init, Filled, CachedWhole

LEMMA FilledServe ==
  ASSUME Table, Typed, Filled, NEW c \in Requests, Serve(c)
  PROVE  Filled'
<1> USE DEF Filled, CachedWhole, Goto, outside, request, copying
<1>1. /\ pc \in [Requests -> Stages] /\ whole \in [Requests -> BOOLEAN]
      /\ written \in [Requests -> Nat] /\ req \in [Requests -> [size : Sizes, start : Nat, end : Nat \cup {-1}]]
      /\ part \in [Requests -> Seq(Bytes)]
  BY DEF Typed, TypeOK
<1>2. CASE CheckFill(c)
  BY <1>1, <1>2 DEF CheckFill
<1>3. CASE StartFill(c)
  <2>1. part[c] = Run(req[c].size, 0, written[c])
    <3>1. part[c] = <<>> /\ written[c] = 0
      BY <1>3 DEF StartFill, Typed, Before
    <3> QED BY <3>1, RunEmpty
  <2>2. pc[c] = "start" /\ UNCHANGED <<req, part, written, cached>>
    BY <1>3 DEF StartFill
  <2>3. \A d \in Requests : (whole'[d] \/ pc'[d] = "start") => whole[d] \/ pc[d] = "start"
    BY <1>1, <1>3 DEF StartFill, TakeFill
  <2>4. \A d \in Requests \ {c} : whole'[d] = whole[d]
    BY <1>1, <1>3 DEF StartFill, TakeFill
  <2> QED BY <2>1, <2>2, <2>3, <2>4
<1>4. CASE CopyChunk(c)
  <2>1. /\ pc[c] = "copy" /\ UNCHANGED <<pc, whole, req, cached>>
        /\ written' = [written EXCEPT ![c] = @ + 1]
        /\ part' = IF whole[c] THEN [part EXCEPT ![c] = Append(@, Byte(from[c], written[c]))] ELSE part
    BY <1>4 DEF CopyChunk
  <2>2. from[c] = req[c].size
    BY <2>1 DEF Typed
  <2>3. ASSUME whole[c] PROVE part'[c] = Run(req[c].size, 0, written[c] + 1)
    <3>1. part'[c] = Append(Run(req[c].size, 0, written[c]), Byte(req[c].size, 0 + written[c]))
      BY <1>1, <2>1, <2>2, <2>3
    <3>2. written[c] \in Nat
      BY <1>1
    <3> QED BY <3>1, <3>2, RunGrows
  <2> QED BY <1>1, <2>1, <2>3
<1>5. CASE Close(c)
  <2>1. /\ pc[c] = "close" /\ pc' = [pc EXCEPT ![c] = "release"]
        /\ UNCHANGED <<whole, req, part, written>>
        /\ cached' = IF whole[c] /\ written[c] = req[c].size
                       THEN [size |-> req[c].size, bytes |-> part[c]] ELSE cached
    BY <1>5 DEF Close, CommitIf
  <2>2. CachedWhole'
    BY <2>1
  <2> QED BY <1>1, <2>1, <2>2
<1>6. CASE Retry(c)
  BY <1>1, <1>6 DEF Retry, Resume
<1>7. CASE Lookup(c) \/ LookupFails(c) \/ ServeFile(c) \/ ServeFileFails(c)
  BY <1>1, <1>7 DEF Lookup, LookupFails, ServeFile, ServeFileFails
<1>8. CASE Wake(c) \/ PauseEnds(c) \/ CancelWait(c) \/ Open(c) \/ OpenFails(c)
  BY <1>1, <1>8 DEF Wake, PauseEnds, CancelWait, Open, OpenFails
<1>9. CASE ClientWriteFails(c) \/ CacheWriteFails(c) \/ BodyBreaks(c) \/ BodyEnds(c)
  BY <1>1, <1>9 DEF ClientWriteFails, CacheWriteFails, BodyBreaks, BodyEnds
<1>10. CASE GiveUp(c) \/ CopyEnds(c) \/ CloseFails(c) \/ Release(c)
  BY <1>1, <1>10 DEF GiveUp, CopyEnds, CloseFails, Release, Finish, Leave
<1> QED BY <1>2, <1>3, <1>4, <1>5, <1>6, <1>7, <1>8, <1>9, <1>10 DEF Serve

LEMMA FilledStep == Table /\ Typed /\ Filled /\ [Next]_vars => Filled'
<1> SUFFICES ASSUME Table, Typed, Filled, [Next]_vars PROVE Filled'
  OBVIOUS
<1>1. CASE \E c \in Requests : Serve(c)
  BY <1>1, FilledServe
<1>2. ASSUME NEW c \in Requests, NEW r \in Asks, Arrive(c, r)
      PROVE  Filled'
  <2>1. ~whole[c]
    BY <1>2 DEF Arrive, Table, FillStages
  <2>2. /\ req' = [req EXCEPT ![c] = r] /\ pc' = [pc EXCEPT ![c] = "lookup"]
        /\ UNCHANGED <<cached, whole, part, written>>
    BY <1>2 DEF Arrive, Goto, outside, copying
  <2>3. pc \in [Requests -> Stages] /\ DOMAIN req = Requests
    BY DEF Typed, TypeOK
  <2> QED BY <2>1, <2>2, <2>3 DEF Filled, CachedWhole
<1>3. CASE \E c \in Requests : ClientLeaves(c) \/ ClientStalls(c)
  BY <1>3 DEF ClientLeaves, ClientStalls, outside, copying, Filled, CachedWhole
<1>4. CASE ProviderChanges \/ Forget \/ Finished \/ UNCHANGED vars
  BY <1>4 DEF ProviderChanges, Forget, Finished, vars, outside, request, copying, Filled, CachedWhole
<1> QED BY <1>1, <1>2, <1>3, <1>4 DEF Next, Arrival

\* What the cache holds is every byte of one representation, in order, through
\* refused writes, broken bodies, refreshed descriptors and clients that leave
\* (proxy.go:227-277).
THEOREM FillsAreWhole == Spec => []CachedWhole
<1> DEFINE Inv == Table /\ Typed /\ Filled
<1>1. Init => Inv
  BY TableInit, TypedInit, FilledInit
<1>2. Inv /\ [Next]_vars => Inv'
  BY TableStep, TypedStep, FilledStep
<1>3. Inv => CachedWhole
  BY DEF Filled
<1> QED BY <1>1, <1>2, <1>3, PTL DEF Spec

---------------------------------------------------------------------------
(* What a request receives.                                                *)

\* A request looks at an object only to serve it; what it has otherwise sent
\* is what Serve has counted, unless its client has gone.
Exact ==
  /\ StreamedExact
  /\ CountedIsSent
  /\ \A c \in Requests :
       /\ obj[c] # None => pc[c] \in {"serve", "done"}
       /\ pc[c] = "serve" => obj[c] # None

LEMMA ExactInit == Init => Exact
<1> SUFFICES ASSUME Init, NEW c \in Requests
             PROVE  StreamedTo(c) /\ Len(sent[c]) = written[c] /\ obj[c] = None /\ pc[c] = "new"
  BY DEF Exact, StreamedExact, CountedIsSent
<1>1. sent[c] = <<>> /\ written[c] = 0 /\ obj[c] = None /\ pc[c] = "new" /\ req[c].start = 0
  BY DEF Init, All, Ask
<1>2. Total(c) \in Nat
  BY TypedInit DEF Typed
<1>3. sent[c] = Run(req[c].size, req[c].start, 0)
  BY <1>1, RunEmpty
<1> QED BY <1>1, <1>2, <1>3 DEF StreamedTo

\* The byte a reading client is sent is the next one it asked for.
LEMMA NextByte ==
  ASSUME Typed, Exact, NEW c \in Requests, pc[c] = "copy"
  PROVE  /\ ToClient(c) = Run(req[c].size, req[c].start, Len(ToClient(c)))
         /\ Len(ToClient(c)) <= Total(c)
         /\ client[c] = "reading" /\ written[c] < Total(c) => Len(ToClient(c)) = written[c] + 1
<1>1. /\ from[c] = req[c].size /\ written[c] \in Nat /\ req[c].start \in Nat
      /\ Total(c) \in Nat /\ sent[c] \in Seq(Bytes)
  BY DEF Typed, TypeOK
<1>2. obj[c] = None
  BY DEF Exact
<1>3. sent[c] = Run(req[c].size, req[c].start, Len(sent[c])) /\ Len(sent[c]) <= Total(c)
  BY <1>2 DEF Exact, StreamedExact, StreamedTo
<1>4. CASE client[c] = "reading" /\ Len(sent[c]) < Total(c)
  <2>1. Len(sent[c]) = written[c]
    BY <1>2, <1>4 DEF Exact, CountedIsSent
  <2>2. ToClient(c) = Append(sent[c], Byte(req[c].size, req[c].start + written[c]))
    BY <1>1, <1>4 DEF ToClient
  <2>3. ToClient(c) = Run(req[c].size, req[c].start, written[c] + 1)
    <3>1. sent[c] = Run(req[c].size, req[c].start, written[c])
      BY <1>3, <2>1
    <3>2. Append(Run(req[c].size, req[c].start, written[c]),
                 Byte(req[c].size, req[c].start + written[c]))
          = Run(req[c].size, req[c].start, written[c] + 1)
      BY <1>1, RunGrows
    <3> QED BY <2>2, <3>1, <3>2
  <2>4. Len(ToClient(c)) = written[c] + 1
    BY <1>1, <2>3, RunLen
  <2> QED BY <1>1, <1>4, <2>1, <2>3, <2>4
<1>5. CASE ~(client[c] = "reading" /\ Len(sent[c]) < Total(c))
  <2>1. ToClient(c) = sent[c]
    BY <1>5 DEF ToClient
  <2>2. client[c] = "reading" => Len(sent[c]) = written[c]
    BY <1>2 DEF Exact, CountedIsSent
  <2> QED BY <1>1, <1>3, <1>5, <2>1, <2>2
<1> QED BY <1>4, <1>5

LEMMA ExactServe ==
  ASSUME DiskFaults = {}, Typed, Exact, NEW c \in Requests, Serve(c)
  PROVE  Exact'
<1> USE DEF Exact, StreamedExact, CountedIsSent, StreamedTo, Total, Goto, outside, request, copying
<1>1. /\ pc \in [Requests -> Stages] /\ obj \in [Requests -> Objects \cup {None}]
      /\ written \in [Requests -> Nat] /\ sent \in [Requests -> Seq(Bytes)]
  BY DEF Typed, TypeOK
<1>2. CASE Lookup(c)
  <2>1. /\ pc[c] = "lookup" /\ obj' = [obj EXCEPT ![c] = cached]
        /\ pc' = [pc EXCEPT ![c] = IF cached = None THEN "check" ELSE "serve"]
        /\ UNCHANGED <<req, client, sent, written>>
    BY <1>2 DEF Lookup
  <2>2. obj[c] = None
    BY <2>1
  <2> QED BY <1>1, <2>1, <2>2
<1>3. CASE ServeFile(c)
  <2>1. /\ pc[c] = "serve" /\ pc' = [pc EXCEPT ![c] = "done"]
        /\ UNCHANGED <<req, client, obj, written>>
        /\ \A d \in Requests \ {c} : sent'[d] = sent[d]
    BY <1>1, <1>3 DEF ServeFile
  <2> QED BY <1>1, <2>1
<1>4. CASE CopyChunk(c)
  <2>1. /\ pc[c] = "copy" /\ written[c] < Total(c) /\ client[c] \in {"reading", "gone"}
        /\ sent' = [sent EXCEPT ![c] = ToClient(c)]
        /\ written' = [written EXCEPT ![c] = @ + 1]
        /\ UNCHANGED <<pc, req, client, obj>>
    BY <1>4 DEF CopyChunk
  <2>2. /\ sent'[c] = Run(req[c].size, req[c].start, Len(sent'[c])) /\ Len(sent'[c]) <= Total(c)
        /\ client[c] # "gone" => Len(sent'[c]) = written'[c]
    BY <1>1, <2>1, NextByte
  <2> QED BY <1>1, <2>1, <2>2
<1>5. CASE Retry(c)
  BY <1>1, <1>5 DEF Retry, Resume
<1>6. CASE CacheWriteFails(c)
  BY <1>6 DEF CacheWriteFails
<1>7. CASE LookupFails(c) \/ ServeFileFails(c)
  BY <1>1, <1>7 DEF LookupFails, ServeFileFails
<1>8. CASE CheckFill(c) \/ StartFill(c)
  BY <1>1, <1>8 DEF CheckFill, StartFill, TakeFill
<1>9. CASE Wake(c) \/ PauseEnds(c) \/ CancelWait(c) \/ Open(c) \/ OpenFails(c)
  BY <1>1, <1>9 DEF Wake, PauseEnds, CancelWait, Open, OpenFails
<1>10. CASE ClientWriteFails(c) \/ BodyBreaks(c) \/ BodyEnds(c) \/ GiveUp(c) \/ CopyEnds(c)
  BY <1>1, <1>10 DEF ClientWriteFails, BodyBreaks, BodyEnds, GiveUp, CopyEnds
<1>11. CASE Close(c) \/ CloseFails(c) \/ Release(c)
  BY <1>1, <1>11 DEF Close, CommitIf, CloseFails, Release, Finish, Leave
<1> QED BY <1>2, <1>3, <1>4, <1>5, <1>6, <1>7, <1>8, <1>9, <1>10, <1>11 DEF Serve

LEMMA ExactStep ==
  ASSUME DiskFaults = {}
  PROVE  Typed /\ Exact /\ [Next]_vars => Exact'
<1> SUFFICES ASSUME Typed, Exact, [Next]_vars PROVE Exact'
  OBVIOUS
<1> USE DEF Exact, StreamedExact, CountedIsSent, StreamedTo, Total, outside, request, copying
<1>1. CASE \E c \in Requests : Serve(c)
  BY <1>1, ExactServe
<1>2. ASSUME NEW c \in Requests, NEW r \in Asks, Arrive(c, r)
      PROVE  Exact'
  <2>1. /\ pc[c] = "new" /\ req' = [req EXCEPT ![c] = r] /\ pc' = [pc EXCEPT ![c] = "lookup"]
        /\ UNCHANGED <<client, obj, sent, written>>
    BY <1>2 DEF Arrive, Goto
  <2>2. sent[c] = <<>> /\ DOMAIN req = Requests /\ DOMAIN pc = Requests
    BY <2>1 DEF Typed, TypeOK, Before
  <2>3. r.start \in Nat /\ r.end - r.start + 1 \in Nat
    BY AsksTyped
  <2>4. sent[c] = Run(r.size, r.start, 0) /\ Len(sent[c]) = 0
    BY <2>2, <2>3, RunEmpty
  <2>5. StreamedTo(c)'
    BY <2>1, <2>2, <2>3, <2>4
  <2>6. \A d \in Requests \ {c} : req'[d] = req[d] /\ pc'[d] = pc[d]
    BY <2>1, <2>2
  <2>7. obj[c] = None
    BY <2>1
  <2> QED BY <2>1, <2>2, <2>5, <2>6, <2>7
<1>3. CASE \E c \in Requests : ClientLeaves(c) \/ ClientStalls(c)
  <2>1. \A d \in Requests : client'[d] # "gone" => client[d] # "gone"
    BY <1>3 DEF ClientLeaves, ClientStalls, Typed, TypeOK
  <2> QED BY <1>3, <2>1 DEF ClientLeaves, ClientStalls
<1>4. CASE ProviderChanges \/ Forget \/ Finished \/ UNCHANGED vars
  BY <1>4 DEF ProviderChanges, Forget, Finished, vars
<1> QED BY <1>1, <1>2, <1>3, <1>4 DEF Next, Arrival

LEMMA SubRun ==
  ASSUME NEW v, NEW n \in Nat, NEW s \in Nat, NEW e \in Nat \cup {-1}, e - s + 1 \in Nat
  PROVE  LET t == SubSeq(Run(v, 0, n), s + 1, Lesser(e + 1, n))
         IN  t = Run(v, s, Len(t)) /\ Len(t) <= e - s + 1
<1> DEFINE last == Lesser(e + 1, n)
           k == IF s + 1 <= last THEN last - s ELSE 0
           S == {Byte(v, q) : q \in Nat}
           t == SubSeq(Run(v, 0, n), s + 1, last)
           u == Run(v, s, k)
<1>1. last \in Nat /\ last <= n /\ last <= e + 1
  BY DEF Lesser
<1>2. k \in Nat /\ k <= e - s + 1
  BY <1>1
<1>3. \A i \in (s + 1)..last : Run(v, 0, n)[i] = Byte(v, i - 1) /\ Byte(v, i - 1) \in S
  <2> HIDE DEF last
  <2> QED BY <1>1 DEF Run
<1>4. /\ t \in Seq(S)
      /\ Len(t) = IF s + 1 <= last THEN last - (s + 1) + 1 ELSE 0
      /\ \A i \in 1..(last - (s + 1) + 1) : t[i] = Run(v, 0, n)[(s + 1) + i - 1]
  <2>1. s + 1 \in Int /\ last \in Int
    BY <1>1
  <2>2. \A i \in (s + 1)..last : Run(v, 0, n)[i] \in S
    BY <1>3
  <2> HIDE DEF last, S
  <2> QED BY <2>1, <2>2, SubSeqProperties
<1>5. u \in Seq(S) /\ Len(u) = k
  <2>1. \A i \in 1..k : Byte(v, s + i - 1) \in S
    <3> HIDE DEF last
    <3> QED BY <1>1
  <2> HIDE DEF S, k
  <2>2. u \in [1..k -> S]
    BY <1>2, <2>1 DEF Run
  <2> QED BY <1>2, <2>2
<1>6. Len(t) = k
  <2> HIDE DEF last, t
  <2> QED BY <1>1, <1>4
<1>7. \A i \in 1..k : t[i] = u[i]
  <2> SUFFICES ASSUME NEW i \in 1..k PROVE t[i] = u[i]
    OBVIOUS
  <2>1. i \in 1..(last - (s + 1) + 1) /\ (s + 1) + i - 1 \in (s + 1)..last /\ (s + 1) + i - 1 - 1 = s + i - 1
    <3> HIDE DEF last
    <3> QED BY <1>1
  <2>2. t[i] = Byte(v, s + i - 1)
    <3> HIDE DEF last, t, S, u, k
    <3> QED BY <1>3, <1>4, <2>1
  <2>3. u[i] = Byte(v, s + i - 1)
    <3> HIDE DEF k
    <3> QED BY DEF Run
  <2> QED BY <2>2, <2>3
<1>8. t = u
  <2> HIDE DEF S, t, u, k, last
  <2> QED BY <1>4, <1>5, <1>6, <1>7, SeqEqual
<1>9. t = Run(v, s, Len(t)) /\ Len(t) <= e - s + 1
  <2> HIDE DEF t, k, last
  <2> QED BY <1>2, <1>6, <1>8
<1> QED BY <1>9

\* A request that has found an object serves it, all of which is its own.
Files ==
  \A c \in Requests :
    obj[c] # None =>
      /\ pc[c] \in {"serve", "done"}
      /\ obj[c].bytes = Run(obj[c].size, 0, obj[c].size)
      /\ FileTo(c)

LEMMA FilesServe ==
  ASSUME Typed, CachedWhole, Exact, Files, NEW c \in Requests, Serve(c)
  PROVE  Files'
<1> USE DEF Files, FileTo, Total, Goto, outside, request, copying
<1>1. /\ pc \in [Requests -> Stages] /\ obj \in [Requests -> Objects \cup {None}]
      /\ sent \in [Requests -> Seq(Bytes)] /\ Total(c) \in Nat
      /\ req[c].start \in Nat /\ req[c].end \in Nat \cup {-1}
  BY DEF Typed, TypeOK
<1>2. CASE Lookup(c)
  <2>1. /\ pc[c] = "lookup" /\ obj' = [obj EXCEPT ![c] = cached]
        /\ pc' = [pc EXCEPT ![c] = IF cached = None THEN "check" ELSE "serve"]
        /\ UNCHANGED <<req, sent>>
    BY <1>2 DEF Lookup
  <2>2. sent[c] = <<>>
    BY <2>1 DEF Typed, Before
  <2>3. \A v : sent[c] = Run(v, req[c].start, Len(sent[c])) /\ Len(sent[c]) <= Total(c)
    BY <1>1, <2>2, RunEmpty
  <2> QED BY <1>1, <2>1, <2>3 DEF CachedWhole
<1>3. CASE ServeFile(c)
  <2> DEFINE t == SubSeq(obj[c].bytes, req[c].start + 1, Lesser(req[c].end + 1, Len(obj[c].bytes)))
  <2>1. /\ pc[c] = "serve" /\ pc' = [pc EXCEPT ![c] = "done"]
        /\ UNCHANGED <<req, obj>>
        /\ sent' = [sent EXCEPT ![c] = t]
    BY <1>3 DEF ServeFile
  <2>2. obj[c] \in Objects /\ obj[c].size \in Nat
    BY <2>1, SizesAssumption DEF Typed, Objects
  <2>3. obj[c] # None
    BY <2>1 DEF Exact
  <2>4. obj[c].bytes = Run(obj[c].size, 0, obj[c].size) /\ Len(obj[c].bytes) = obj[c].size
    BY <2>2, <2>3, RunLen
  <2>5. t = SubSeq(Run(obj[c].size, 0, obj[c].size), req[c].start + 1, Lesser(req[c].end + 1, obj[c].size))
    BY <2>4
  <2>6. t = Run(obj[c].size, req[c].start, Len(t)) /\ Len(t) <= Total(c)
    <3>1. req[c].end - req[c].start + 1 \in Nat
      BY <1>1
    <3> HIDE DEF t
    <3> QED BY <1>1, <2>2, <2>5, <3>1, SubRun
  <2> HIDE DEF t
  <2>7. sent'[c] = t /\ \A d \in Requests \ {c} : sent'[d] = sent[d] /\ pc'[d] = pc[d]
    BY <1>1, <2>1
  <2>8. pc'[c] = "done"
    BY <1>1, <2>1
  <2> QED BY <2>1, <2>4, <2>6, <2>7, <2>8
<1>4. CASE pc[c] \notin {"serve", "done"} /\ ~Lookup(c)
  <2>1. obj[c] = None
    BY <1>4
  <2>2. /\ obj' = obj /\ req' = req
        /\ \A d \in Requests \ {c} : sent'[d] = sent[d] /\ pc'[d] = pc[d]
    <3>1. CASE CheckFill(c) \/ StartFill(c) \/ LookupFails(c) \/ ServeFileFails(c)
      BY <1>1, <3>1 DEF CheckFill, StartFill, TakeFill, LookupFails, ServeFileFails
    <3>2. CASE Wake(c) \/ PauseEnds(c) \/ CancelWait(c) \/ Open(c) \/ OpenFails(c)
      BY <1>1, <3>2 DEF Wake, PauseEnds, CancelWait, Open, OpenFails
    <3>3. CASE CopyChunk(c) \/ ClientWriteFails(c) \/ CacheWriteFails(c) \/ CopyEnds(c)
      BY <1>1, <3>3 DEF CopyChunk, ClientWriteFails, CacheWriteFails, CopyEnds
    <3>4. CASE BodyBreaks(c) \/ BodyEnds(c) \/ Retry(c) \/ GiveUp(c)
      BY <1>1, <3>4 DEF BodyBreaks, BodyEnds, Retry, Resume, GiveUp
    <3>5. CASE Close(c) \/ CloseFails(c) \/ Release(c)
      BY <1>1, <3>5 DEF Close, CommitIf, CloseFails, Release, Finish, Leave
    <3>6. CASE ServeFile(c)
      BY <1>4, <3>6 DEF ServeFile
    <3> QED BY <1>4, <3>1, <3>2, <3>3, <3>4, <3>5, <3>6 DEF Serve
  <2> QED BY <2>1, <2>2
<1>5. CASE pc[c] \in {"serve", "done"} /\ ~ServeFile(c)
  <2>1. CASE ServeFileFails(c)
    BY <1>1, <2>1 DEF ServeFileFails
  <2>2. ~(Lookup(c) \/ LookupFails(c) \/ CheckFill(c) \/ StartFill(c) \/ Wake(c))
    BY <1>5 DEF Lookup, LookupFails, CheckFill, StartFill, Wake
  <2>3. ~(PauseEnds(c) \/ CancelWait(c) \/ Open(c) \/ OpenFails(c))
    BY <1>5 DEF PauseEnds, CancelWait, Open, OpenFails
  <2>4. ~(CopyChunk(c) \/ ClientWriteFails(c) \/ CacheWriteFails(c) \/ CopyEnds(c))
    BY <1>5 DEF CopyChunk, ClientWriteFails, CacheWriteFails, CopyEnds
  <2>5. ~(BodyBreaks(c) \/ BodyEnds(c) \/ Retry(c) \/ GiveUp(c))
    BY <1>5 DEF BodyBreaks, BodyEnds, Retry, Resume, GiveUp
  <2>6. ~(Close(c) \/ CloseFails(c) \/ Release(c))
    BY <1>5 DEF Close, CommitIf, CloseFails, Release, Finish, Leave
  <2> QED BY <1>5, <2>1, <2>2, <2>3, <2>4, <2>5, <2>6 DEF Serve
<1> QED BY <1>2, <1>3, <1>4, <1>5

LEMMA FilesStep == Typed /\ CachedWhole /\ Exact /\ Files /\ [Next]_vars => Files'
<1> SUFFICES ASSUME Typed, CachedWhole, Exact, Files, [Next]_vars PROVE Files'
  OBVIOUS
<1> USE DEF Files, FileTo, Total, outside, request, copying
<1>1. CASE \E c \in Requests : Serve(c)
  BY <1>1, FilesServe
<1>2. ASSUME NEW c \in Requests, NEW r \in Asks, Arrive(c, r)
      PROVE  Files'
  <2>1. /\ pc[c] = "new" /\ req' = [req EXCEPT ![c] = r] /\ pc' = [pc EXCEPT ![c] = "lookup"]
        /\ UNCHANGED <<obj, sent>>
    BY <1>2 DEF Arrive, Goto
  <2>2. obj[c] = None
    BY <2>1
  <2> QED BY <2>1, <2>2 DEF Typed, TypeOK
<1>3. CASE \E c \in Requests : ClientLeaves(c) \/ ClientStalls(c)
  BY <1>3 DEF ClientLeaves, ClientStalls
<1>4. CASE ProviderChanges \/ Forget \/ Finished \/ UNCHANGED vars
  BY <1>4 DEF ProviderChanges, Forget, Finished, vars
<1> QED BY <1>1, <1>2, <1>3, <1>4 DEF Next, Arrival

\* As long as the partial file can be written, what a request gets from the
\* provider is a prefix of what it asked for, of one representation, across
\* every retry and refresh, and all that Serve counted if its client stayed; and
\* what it gets from the cache is of the one representation the object has
\* (proxy.go:148-149, 164, 227-268). With a full disk it is not, see the README.
THEOREM ResponsesAreExact ==
  ASSUME DiskFaults = {}
  PROVE  Spec => [](ResponsesExact /\ CountedIsSent)
<1> DEFINE Inv == Table /\ Typed /\ Filled /\ Exact /\ Files
<1>1. Init => Inv
  <2>1. Init => Files
    BY DEF Init, Files
  <2> QED BY <2>1, TableInit, TypedInit, FilledInit, ExactInit
<1>2. Inv /\ [Next]_vars => Inv'
  <2>1. Filled => CachedWhole
    BY DEF Filled
  <2> QED BY <2>1, TableStep, TypedStep, FilledStep, ExactStep, FilesStep
<1>3. Inv => ResponsesExact /\ CountedIsSent
  BY DEF Exact, ResponsesExact, FileExact, Files
<1> QED BY <1>1, <1>2, <1>3, PTL DEF Spec

---------------------------------------------------------------------------
(* The bytes a request asks for: what ParseRange (range.go) makes of its    *)
(* header, for the sizes of the representations.                            *)

\* The header and the size are what was given, the answer ParseRange's.
Answered ==
  /\ raw \in Headers /\ size \in Lengths
  /\ got \in {Fails("unread"), ParseRange(raw, size)}

LEMMA PartsTyped ==
  ASSUME raw \in Headers, Len(raw.parts) = 2
  PROVE  FirstPos \in Fields /\ LastPos \in Fields
<1>1. PICK n \in 1..3 : raw.parts \in [1..n -> Fields]
  BY DEF Headers
<1>2. raw.parts \in Seq(Fields)
  BY <1>1
<1>3. Len(raw.parts) = n
  <2>1. Len(raw.parts) \in Nat /\ raw.parts \in [1..Len(raw.parts) -> Fields]
    BY <1>2, LenProperties
  <2>2. 1..Len(raw.parts) = 1..n
    BY <1>1, <2>1
  <2> QED BY ONLY <2>1, <2>2, n \in 1..3
<1> QED BY <1>1, <1>3 DEF FirstPos, LastPos

LEMMA EmptyIsNoNumber == Empty \notin Numbers
<1>1. ASSUME Empty \in Numbers PROVE FALSE
  <2>1. Empty \in Nat
    BY <1>1, LimitAssumption
  <2>2. \A n \in Nat : n \in Int
    OBVIOUS
  <2> QED BY <2>1, <2>2, FieldsAssumption, Zenon
<1> QED BY <1>1

LEMMA SuffixExact ==
  ASSUME NEW n \in Nat \ {0}, NEW m \in Nat \ {0}
  PROVE  /\ Suffix(n, m).start \in Nat /\ Suffix(n, m).end = m - 1
         /\ \A p \in 0..(m - 1) : p >= Suffix(n, m).start <=> p >= m - n
         /\ Suffix(n, m).start <= m - 1 /\ Suffix(n, m).is = "range"
<1>1. CASE n >= m
  BY <1>1 DEF Suffix, ByteRange
<1>2. CASE n < m
  BY <1>2 DEF Suffix, ByteRange
<1> QED BY <1>1, <1>2

LEMMA BoundedExact ==
  ASSUME NEW s \in Nat, NEW f \in Fields, NEW m \in Nat, s < m
  PROVE  LET b == Bounded(s, f, m) IN
         /\ b.is \in {"range", "invalid"}
         /\ b.is = "range" <=> f = Empty \/ (IsNumber(f) /\ s <= f)
         /\ b.is = "range" =>
              /\ b.start = s /\ b.end \in Nat /\ s <= b.end /\ b.end < m
              /\ \A p \in 0..(m - 1) : p <= b.end <=> (f = Empty \/ p <= f)
<1>1. CASE f = Empty
  BY <1>1 DEF Bounded, ByteRange
<1>2. CASE f # Empty /\ (~IsNumber(f) \/ f < s)
  <2>1. Bounded(s, f, m) = Fails("invalid")
    BY <1>2 DEF Bounded
  <2>2. ~(f = Empty \/ (IsNumber(f) /\ s <= f))
    <3>1. CASE ~IsNumber(f)
      BY <1>2, <3>1
    <3>2. CASE IsNumber(f) /\ f < s
      BY <1>2, <3>2, LimitAssumption DEF IsNumber
    <3> QED BY <1>2, <3>1, <3>2
  <2> QED BY <2>1, <2>2 DEF Fails
<1>3. CASE f # Empty /\ IsNumber(f) /\ ~(f < s)
  <2>1. f \in Nat /\ s <= f
    BY <1>3, LimitAssumption DEF IsNumber
  <2> QED BY <1>3, <2>1 DEF Bounded, ByteRange
<1> QED BY <1>1, <1>2, <1>3

LEMMA ParseExact ==
  ASSUME raw \in Headers, size \in Lengths, got = ParseRange(raw, size)
  PROVE  RangeExact
<1>1. size \in Int
  BY LengthsAssumption
<1>2. CASE size < 0
  <2>1. got.is = "unsatisfiable" /\ Selected = {}
    BY <1>1, <1>2 DEF ParseRange, Fails, Selected
  <2> QED BY <2>1 DEF RangeExact
<1>3. CASE size >= 0 /\ (~raw.bytes \/ raw.comma \/ Len(raw.parts) # 2)
  <2>1. got.is = "invalid" /\ ~WellFormed
    BY <1>1, <1>3 DEF ParseRange, Fails, WellFormed
  <2> QED BY <2>1 DEF RangeExact
<1>4. CASE size = 0 /\ raw.bytes /\ ~raw.comma /\ Len(raw.parts) = 2
  <2>1. got.is = "unsatisfiable" /\ Selected = {}
    BY <1>4 DEF ParseRange, Fails, Selected
  <2> QED BY <2>1 DEF RangeExact
<1>5. CASE size > 0 /\ raw.bytes /\ ~raw.comma /\ Len(raw.parts) = 2
  <2>1. FirstPos \in Fields /\ LastPos \in Fields
    BY <1>5, PartsTyped
  <2>2. size \in Nat \ {0}
    BY <1>1, <1>5
  <2>3. CASE FirstPos = Empty /\ IsPositive(LastPos)
    <3>1. got = Suffix(LastPos, size)
      BY <1>1, <1>5, <2>3 DEF ParseRange, FirstPos, LastPos
    <3>2. LastPos \in Nat \ {0}
      BY <2>3, LimitAssumption DEF IsPositive, IsNumber
    <3>3. WellFormed
      BY <1>5, <2>3 DEF WellFormed, IsPositive, IsNumber
    <3>4. got.start..got.end = Selected
      BY <2>2, <2>3, <3>1, <3>2, SuffixExact DEF Selected
    <3> QED BY <2>2, <3>1, <3>2, <3>3, <3>4, SuffixExact DEF RangeExact
  <2>4. CASE FirstPos = Empty /\ ~IsPositive(LastPos)
    <3>1. got.is = "invalid"
      BY <1>1, <1>5, <2>4 DEF ParseRange, FirstPos, LastPos, Fails
    <3>2. WellFormed => Oversized \/ NoSuffix
      <4>1. FirstPos \notin Numbers
        BY <2>4, EmptyIsNoNumber, Zenon
      <4>2. WellFormed => LastPos \in Numbers
        BY <4>1 DEF WellFormed
      <4>3. LastPos \in Numbers => LastPos > Limit \/ LastPos = 0
        BY <2>4, LimitAssumption DEF IsPositive, IsNumber
      <4> QED BY <2>4, <4>2, <4>3 DEF Oversized, NoSuffix
    <3> QED BY <3>1, <3>2 DEF RangeExact
  <2>5. CASE FirstPos # Empty /\ ~IsNumber(FirstPos)
    <3>1. got.is = "invalid"
      BY <1>1, <1>5, <2>5 DEF ParseRange, FirstPos, LastPos, Fails
    <3>2. WellFormed => FirstPos \in Numbers
      BY <2>5 DEF WellFormed
    <3>3. FirstPos \in Numbers => FirstPos > Limit
      BY <2>5, LimitAssumption DEF IsNumber
    <3>4. WellFormed => Oversized
      BY <3>2, <3>3 DEF Oversized
    <3> QED BY <3>1, <3>4 DEF RangeExact
  <2>6. CASE IsNumber(FirstPos) /\ FirstPos >= size
    <3>1. FirstPos \in Nat /\ FirstPos # Empty
      BY <2>6, LimitAssumption, EmptyIsNoNumber DEF IsNumber
    <3>2. got.is = "unsatisfiable"
      BY <1>1, <1>5, <2>6, <3>1 DEF ParseRange, FirstPos, LastPos, Fails
    <3>3. Selected = {}
      BY <2>2, <2>6, <3>1 DEF Selected
    <3> QED BY <3>2, <3>3 DEF RangeExact
  <2>7. CASE IsNumber(FirstPos) /\ FirstPos < size
    <3>1. FirstPos \in Nat /\ FirstPos # Empty
      BY <2>7, LimitAssumption, EmptyIsNoNumber DEF IsNumber
    <3>2. got = Bounded(FirstPos, LastPos, size)
      BY <1>1, <1>5, <2>2, <2>7, <3>1 DEF ParseRange, FirstPos, LastPos
    <3>3. /\ LastPos = Empty \/ (IsNumber(LastPos) /\ FirstPos <= LastPos) => WellFormed
          /\ WellFormed =>
               LastPos = Empty \/ (LastPos \in Numbers /\ FirstPos <= LastPos)
      BY <1>5, <2>7, <3>1 DEF WellFormed, IsNumber
    <3>6. LastPos \in Numbers => IsNumber(LastPos) \/ Oversized
      BY LimitAssumption DEF IsNumber, Oversized
    <3>4. ASSUME got.is = "range" PROVE got.start..got.end = Selected
      BY <2>1, <2>2, <2>7, <3>1, <3>2, <3>4, BoundedExact DEF Selected
    <3>5. /\ got.is \in {"range", "invalid"}
          /\ got.is = "range" <=> LastPos = Empty \/ (IsNumber(LastPos) /\ FirstPos <= LastPos)
          /\ got.is = "range" => got.start <= got.end
      BY <2>1, <2>2, <2>7, <3>1, <3>2, BoundedExact
    <3> QED BY <3>3, <3>4, <3>5, <3>6 DEF RangeExact
  <2>8. IsNumber(FirstPos) => FirstPos \in Nat
    BY LimitAssumption DEF IsNumber
  <2>9. IsNumber(FirstPos) => FirstPos >= size \/ FirstPos < size
    BY <2>2, <2>8
  <2> QED BY <2>3, <2>4, <2>5, <2>6, <2>7, <2>9
<1> QED BY <1>1, <1>2, <1>3, <1>4, <1>5

\* For every size, limit and header, whatever its numbers, the range parsed is
\* exactly the bytes RFC 7233 selects, and a well-formed header is refused only
\* when it selects nothing or has a number beyond the limit (range.go:21-88).
THEOREM RangesAreExact == RangeSpec => []RangeExact
<1>1. RangeInit => Answered
  BY DEF RangeInit, Answered
<1>2. Answered /\ [Parse]_rangeVars => Answered'
  BY DEF Answered, Parse, rangeVars
<1>3. Answered => RangeExact
  <2>1. got = Fails("unread") => RangeExact
    BY DEF Fails, RangeExact
  <2> QED BY <2>1, ParseExact DEF Answered
<1> QED BY <1>1, <1>2, <1>3, PTL DEF RangeSpec

LEMMA ParseAsks ==
  ASSUME raw \in Headers, size \in Lengths, got = ParseRange(raw, size), got.is = "range"
  PROVE  size \in Sizes => Ask(size, got.start, got.end) \in Asks
<1> SUFFICES ASSUME size \in Sizes PROVE Ask(size, got.start, got.end) \in Asks
  OBVIOUS
<1>1. /\ raw.bytes /\ ~raw.comma /\ Len(raw.parts) = 2 /\ size # 0
      /\ FirstPos = Empty => IsPositive(LastPos)
      /\ FirstPos # Empty => IsNumber(FirstPos) /\ ~(FirstPos >= size)
  BY DEF ParseRange, Fails, FirstPos, LastPos
<1>2. size \in Nat \ {0}
  BY <1>1, SizesAssumption
<1>3. FirstPos \in Fields /\ LastPos \in Fields
  BY <1>1, PartsTyped
<1>4. got.start \in 0..(size - 1) /\ got.end \in 0..(size - 1) /\ got.start <= got.end
  <2>1. CASE FirstPos = Empty
    <3>1. got = Suffix(LastPos, size)
      BY <1>1, <1>2, <2>1 DEF ParseRange, FirstPos, LastPos
    <3>2. LastPos \in Nat \ {0}
      BY <1>1, <2>1, LimitAssumption DEF IsPositive, IsNumber
    <3> QED BY <1>2, <3>1, <3>2, SuffixExact
  <2>2. CASE FirstPos # Empty
    <3>1. got = Bounded(FirstPos, LastPos, size)
      BY <1>1, <1>2, <2>2 DEF ParseRange, FirstPos, LastPos
    <3>2. FirstPos \in Nat
      BY <1>1, <2>2, LimitAssumption DEF IsNumber
    <3>3. FirstPos < size
      BY <1>1, <1>2, <2>2, <3>2
    <3> QED BY <1>2, <1>3, <3>1, <3>2, <3>3, BoundedExact
  <2> QED BY <2>1, <2>2
<1>5. Ask(size, got.start, got.end) \in AskedOf(size)
  BY <1>4 DEF AskedOf
<1> QED BY <1>4, <1>5 DEF Asks, Ask

\* What ParseRange makes of a header is a request the proxy is modelled for: its
\* bytes are in the representation, in order, and there is one (range.go:21-88,
\* proxy.go:152-159).
THEOREM RangesAreAsks ==
  ASSUME Lengths \subseteq Sizes
  PROVE  RangeSpec => [](got.is = "range" => Ask(size, got.start, got.end) \in Asks)
<1>1. RangeInit => Answered
  BY DEF RangeInit, Answered
<1>2. Answered /\ [Parse]_rangeVars => Answered'
  BY DEF Answered, Parse, rangeVars
<1>3. Answered => (got.is = "range" => Ask(size, got.start, got.end) \in Asks)
  BY ParseAsks DEF Answered, Fails
<1> QED BY <1>1, <1>2, <1>3, PTL DEF RangeSpec

---------------------------------------------------------------------------
(* Descriptors, for any number of requests, any lives, margin, attempts and *)
(* refreshes: types, no URL past its expiry, no descriptor from before a    *)
(* refresh deleted, and no failure without a cause.                         *)

DescribingStages == {"new", "probe", "join", "wait", "recheck", "ask", "store", "land",
           "judge", "use", "delete", "done"}

DescribingTypes ==
  /\ now \in Nat /\ refusals \in Nat
  /\ entry \in [desc : Descs, until : Int] \cup {None}
  /\ flight \in Requests \cup {None}
  /\ at \in [Requests -> DescribingStages]
  /\ held \in [Requests -> Descs \cup Errors \cup {None}]
  /\ attempt \in [Requests -> Nat]
  /\ refreshes \in [Requests -> Nat]
  /\ gone \subseteq Requests
  /\ overlapped \in [Requests -> BOOLEAN]

\* Who is about to store or use a descriptor has one, and what a call returns is
\* a descriptor or a failure.
HasDesc ==
  \A c \in Requests :
    /\ at[c] \in {"store", "use"} => held[c] \in Descs
    /\ at[c] \in {"land", "judge"} => held[c] \in Descs \cup {Failed}

DescribingTyped == DescribingTypes /\ HasDesc

LEMMA DescribingTypedInit == DescribingInit => DescribingTyped
  BY ValuesAssumption, NoneAssumption DEF DescribingInit, DescribingTyped, DescribingTypes, HasDesc, DescribingStages

LEMMA UntilType ==
  ASSUME DescribingTypes, NEW d \in Descs
  PROVE  Until(d) \in Int /\ (d.expires # Never => d.expires \in Int /\ Until(d) <= d.expires)
  BY ValuesAssumption, NoneAssumption, TimesAssumption DEF DescribingTypes, Until, Descs

LEMMA OlderType ==
  ASSUME NEW v \in Descs \cup Errors \cup {None}, NEW c \in Requests
  PROVE  Older(v, c) \in Descs \cup Errors \cup {None} /\ (v \in Descs => Older(v, c) \in Descs)
  BY ValuesAssumption, NoneAssumption DEF Older, Descs, Errors

\* What Describe does keeps Typed.
LEMMA TypedDescribe ==
  ASSUME DescribingTyped, NEW c \in Requests, Describe(c)
  PROVE  DescribingTyped'
<1> USE DEF DescribingTyped, DescribingTypes, HasDesc, DescribingStages, Enter, Hold, refreshing
<1>1. CASE HeadAsks(c) \/ Join(c)
  BY <1>1 DEF HeadAsks, Join
<1>2. CASE HeadHeld(c)
  <2>1. [before |-> {}, expires |-> Never] \in Descs
    BY DEF Descs
  <2> QED BY <1>2, <2>1 DEF HeadHeld
<1>3. CASE Probe(c) \/ Recheck(c)
  <2>1. IsFresh => entry.desc \in Descs
    BY DEF IsFresh
  <2> QED BY <1>3, <2>1 DEF Probe, Recheck
<1>4. CASE Resolve(c)
  <2>1. PICK e \in {now + l : l \in Lives} \cup {Never} : Hold(c, [before |-> {}, expires |-> e])
    BY <1>4 DEF Resolve
  <2>2. [before |-> {}, expires |-> e] \in Descs
    BY TimesAssumption DEF Descs
  <2> QED BY <1>4, <2>1, <2>2 DEF Resolve
<1>5. CASE Refuse(c) \/ ContextEnds(c)
  BY <1>5 DEF Refuse, ContextEnds, Errors
<1>6. CASE Store(c)
  <2>1. held[c] \in Descs /\ Until(held[c]) \in Int
    BY <1>6, UntilType DEF Store
  <2> QED BY <1>6, <2>1 DEF Store
<1>7. CASE Land(c)
  BY <1>7 DEF Land
<1> QED BY <1>1, <1>2, <1>3, <1>4, <1>5, <1>6, <1>7 DEF Describe

\* What becomes of a descriptor keeps Typed.
LEMMA TypedUse ==
  ASSUME DescribingTyped, NEW c \in Requests, Use(c)
  PROVE  DescribingTyped'
<1> USE DEF DescribingTyped, DescribingTypes, HasDesc, DescribingStages, Enter, Hold, refreshing
<1>1. CASE Described(c) \/ Opened(c) \/ Refused(c) \/ Refreshed(c) \/ RefreshDiffers(c)
  BY <1>1 DEF Described, Opened, Refused, Refreshed, RefreshDiffers, Errors
<1>2. CASE Delete(c)
  <2>1. \A d \in Requests : /\ Older(held[d], c) \in Descs \cup Errors \cup {None}
                            /\ held[d] \in Descs => Older(held[d], c) \in Descs
                            /\ held[d] = Failed => Older(held[d], c) = Failed
    BY OlderType DEF Older, Errors
  <2> QED BY <1>2, <2>1 DEF Delete, Erase
<1>3. CASE RefreshFails(c)
  BY <1>3, AttemptsAssumption DEF RefreshFails, Again, Errors
<1> QED BY <1>1, <1>2, <1>3 DEF Use

LEMMA DescribingTypedStep == DescribingTyped /\ [DescribingNext]_describingVars => DescribingTyped'
<1> SUFFICES ASSUME DescribingTyped, [DescribingNext]_describingVars PROVE DescribingTyped'
  OBVIOUS
<1>1. CASE \E c \in Requests : HangUp(c)
  BY <1>1 DEF HangUp, DescribingTyped, DescribingTypes, HasDesc, refreshing
<1>2. CASE Tick
  BY <1>2 DEF Tick, DescribingTyped, DescribingTypes, HasDesc, refreshing
<1>3. CASE AllDescribed \/ UNCHANGED describingVars
  BY <1>3 DEF AllDescribed, describingVars, DescribingTyped, DescribingTypes, HasDesc, refreshing
<1> QED BY <1>1, <1>2, <1>3, TypedDescribe, TypedUse DEF DescribingNext

\* Every variable keeps its type.
THEOREM TypesHold == Describing => []DescribingTypes
  BY DescribingTypedInit, DescribingTypedStep, PTL DEF Describing, DescribingTyped

---------------------------------------------------------------------------
(* No URL past its expiry.                                                 *)

\* An entry is given out no longer than its URL is good for.
KeptInTime == entry # None /\ entry.desc.expires # Never => entry.until <= entry.desc.expires

LEMMA KeptInTimeStep == DescribingTyped /\ KeptInTime /\ [DescribingNext]_describingVars => KeptInTime'
<1> SUFFICES ASSUME DescribingTyped, KeptInTime, [DescribingNext]_describingVars PROVE KeptInTime'
  OBVIOUS
<1>1. ASSUME NEW c \in Requests, Store(c) PROVE KeptInTime'
  <2>1. held[c] \in Descs
    BY <1>1 DEF Store, DescribingTyped, HasDesc
  <2> QED BY <1>1, <2>1, UntilType DEF Store, KeptInTime, DescribingTyped
<1>2. ASSUME NEW c \in Requests, Delete(c) PROVE KeptInTime'
  BY <1>2 DEF Delete, Erase, KeptInTime
<1>3. CASE entry' = entry
  BY <1>3 DEF KeptInTime
<1>4. ASSUME NEW c \in Requests, Describe(c), ~Store(c) PROVE entry' = entry
  BY <1>4 DEF Describe, HeadAsks, HeadHeld, Probe, Join, Recheck, Resolve, Refuse, ContextEnds, Land
<1>5. ASSUME NEW c \in Requests, Use(c), ~Delete(c) PROVE entry' = entry
  BY <1>5 DEF Use, Described, Opened, Refused, Refreshed, RefreshDiffers, RefreshFails, Again
<1>6. ASSUME NEW c \in Requests, HangUp(c) PROVE entry' = entry
  BY <1>6 DEF HangUp
<1>7. CASE Tick \/ AllDescribed \/ UNCHANGED describingVars
  BY <1>7, <1>3 DEF Tick, AllDescribed, describingVars
<1> QED BY <1>1, <1>2, <1>3, <1>4, <1>5, <1>6, <1>7 DEF DescribingNext

\* The map gives out no URL past its expiry (proxy.go:88-90, 107-113).
THEOREM FreshStaysAlive == Describing => []FreshIsAlive
<1>1. DescribingInit => KeptInTime
  BY DEF DescribingInit, KeptInTime
<1>2. DescribingTyped /\ KeptInTime => FreshIsAlive
  <2> SUFFICES ASSUME DescribingTyped, KeptInTime, IsFresh, entry.desc.expires # Never
               PROVE  now < entry.desc.expires
    BY DEF FreshIsAlive
  <2>1. now \in Int /\ entry.until \in Int /\ entry.desc.expires \in Int
    BY ValuesAssumption, NoneAssumption DEF DescribingTyped, DescribingTypes, IsFresh, Descs
  <2> QED BY <2>1 DEF KeptInTime, IsFresh
<1> QED BY <1>1, <1>2, DescribingTypedInit, DescribingTypedStep, KeptInTimeStep, PTL DEF Describing

---------------------------------------------------------------------------
(* No descriptor from before the delete.                                   *)

InCall == {"recheck", "ask", "store", "land"}

\* At most one request leads a call, and flight names it.
OneCall == \A c \in Requests : at[c] \in InCall => flight = c

Since(v, c) == v \in Descs => c \notin v.before

\* What a request may still be given was made after its last delete, when no
\* call was under way then: the entry, what a call is about to store or return,
\* and what it already has.
MadeSince ==
  \A c \in Requests : ~overlapped[c] =>
    /\ entry # None => Since(entry.desc, c)
    /\ \A l \in Requests : at[l] \in {"store", "land"} => Since(held[l], c)
    /\ at[c] \in {"judge", "use"} => Since(held[c], c)

LEMMA OneCallStep == DescribingTyped /\ OneCall /\ [DescribingNext]_describingVars => OneCall'
<1> SUFFICES ASSUME DescribingTyped, OneCall, [DescribingNext]_describingVars PROVE OneCall'
  OBVIOUS
<1> USE ValuesAssumption, NoneAssumption DEF DescribingTyped, DescribingTypes, OneCall, InCall, DescribingStages, Enter, Hold, refreshing
<1>1. ASSUME NEW c \in Requests, Describe(c) PROVE OneCall'
  <2>1. CASE HeadAsks(c) \/ HeadHeld(c) \/ Probe(c) \/ Join(c) \/ Recheck(c)
    BY <2>1 DEF HeadAsks, HeadHeld, Probe, Join, Recheck
  <2>2. CASE Resolve(c) \/ Refuse(c) \/ ContextEnds(c) \/ Store(c)
    BY <2>2 DEF Resolve, Refuse, ContextEnds, Store
  <2>3. CASE Land(c)
    BY <2>3 DEF Land
  <2> QED BY <1>1, <2>1, <2>2, <2>3 DEF Describe
<1>2. ASSUME NEW c \in Requests, Use(c) PROVE OneCall'
  BY <1>2 DEF Use, Described, Opened, Refused, Delete, Erase, Refreshed, RefreshDiffers, RefreshFails, Again
<1>3. ASSUME NEW c \in Requests, HangUp(c) PROVE OneCall'
  BY <1>3 DEF HangUp
<1>4. CASE Tick \/ AllDescribed \/ UNCHANGED describingVars
  BY <1>4 DEF Tick, AllDescribed, describingVars
<1> QED BY <1>1, <1>2, <1>3, <1>4 DEF DescribingNext

LEMMA MadeSinceDescribe ==
  ASSUME DescribingTyped, MadeSince, NEW c \in Requests, Describe(c)
  PROVE  MadeSince'
<1> USE ValuesAssumption, NoneAssumption DEF DescribingTyped, DescribingTypes, MadeSince, Enter, Hold, refreshing
<1>1. CASE HeadAsks(c) \/ Join(c)
  BY <1>1 DEF HeadAsks, Join
<1>2. CASE HeadHeld(c)
  <2>1. \A d \in Requests : Since([before |-> {}, expires |-> Never], d)
    BY DEF Since
  <2> QED BY <1>2, <2>1 DEF HeadHeld
<1>3. CASE Probe(c)
  BY <1>3 DEF Probe, IsFresh
<1>4. CASE Recheck(c)
  BY <1>4 DEF Recheck, IsFresh
<1>5. CASE Resolve(c)
  <2>1. PICK e : Hold(c, [before |-> {}, expires |-> e])
    BY <1>5 DEF Resolve
  <2>2. \A d \in Requests : Since([before |-> {}, expires |-> e], d)
    BY DEF Since
  <2> QED BY <1>5, <2>1, <2>2 DEF Resolve
<1>6. CASE Refuse(c) \/ ContextEnds(c)
  <2>1. \A d \in Requests : Since(Failed, d)
    BY DEF Since, Errors
  <2> QED BY <1>6, <2>1 DEF Refuse, ContextEnds
<1>7. CASE Store(c)
  BY <1>7 DEF Store
<1>8. CASE Land(c)
  <2>1. \A d \in Requests : ~overlapped[d] => Since(held[c], d)
    BY <1>8 DEF Land
  <2> QED BY <1>8, <2>1 DEF Land
<1> QED BY <1>1, <1>2, <1>3, <1>4, <1>5, <1>6, <1>7, <1>8 DEF Describe

LEMMA MadeSinceDelete ==
  ASSUME DescribingTyped, OneCall, MadeSince, NEW c \in Requests, Delete(c)
  PROVE  MadeSince'
<1>1. /\ entry' = None
      /\ held' = [d \in Requests |-> IF d = c THEN None ELSE Older(held[d], c)]
      /\ overlapped' = [overlapped EXCEPT ![c] = flight # None]
      /\ at' = [at EXCEPT ![c] = "probe"]
  BY DEF Delete, Erase, Enter
<1> SUFFICES ASSUME NEW d \in Requests, ~overlapped'[d]
             PROVE  /\ \A l \in Requests : at'[l] \in {"store", "land"} => Since(held'[l], d)
                    /\ at'[d] \in {"judge", "use"} => Since(held'[d], d)
  BY <1>1 DEF MadeSince
<1>2. CASE d = c
  <2>1. flight = None
    BY <1>1, <1>2 DEF DescribingTyped, DescribingTypes
  <2>2. \A l \in Requests : at[l] \notin {"store", "land"}
    BY <2>1, ValuesAssumption, NoneAssumption DEF OneCall, InCall
  <2> QED BY <1>1, <1>2, <2>2 DEF DescribingTyped, DescribingTypes
<1>3. CASE d # c
  <2>1. ~overlapped[d]
    BY <1>1, <1>3 DEF DescribingTyped, DescribingTypes
  <2>2. ASSUME NEW l \in Requests, l # c, Since(held[l], d) PROVE Since(held'[l], d)
    <3>1. held'[l] = Older(held[l], c) /\ held[l] \in Descs \cup Errors \cup {None}
      BY <1>1, <2>2 DEF DescribingTyped, DescribingTypes
    <3>2. CASE held[l] \in Errors \cup {None}
      BY <3>1, <3>2, ValuesAssumption, NoneAssumption DEF Older, Since
    <3>3. CASE held[l] \in Descs
      BY <3>1, <3>3, <1>3, <2>2, ValuesAssumption, NoneAssumption DEF Older, Since, Descs
    <3> QED BY <3>1, <3>2, <3>3
  <2>3. \A l \in Requests : l # c => at'[l] = at[l]
    BY <1>1 DEF DescribingTyped, DescribingTypes
  <2>4. at'[c] = "probe"
    BY <1>1 DEF DescribingTyped, DescribingTypes
  <2> QED BY <1>3, <2>1, <2>2, <2>3, <2>4 DEF MadeSince
<1> QED BY <1>2, <1>3

LEMMA MadeSinceStep == DescribingTyped /\ OneCall /\ MadeSince /\ [DescribingNext]_describingVars => MadeSince'
<1> SUFFICES ASSUME DescribingTyped, OneCall, MadeSince, [DescribingNext]_describingVars PROVE MadeSince'
  OBVIOUS
<1>1. ASSUME NEW c \in Requests, Use(c), ~Delete(c) PROVE MadeSince'
  <2>1. at[c] \notin {"store", "land"} /\ at'[c] \notin {"store", "land"}
    BY <1>1 DEF Use, Described, Opened, Refused, Refreshed, RefreshDiffers, RefreshFails, Again, Enter,
       DescribingTyped, DescribingTypes
  <2>2. /\ entry' = entry /\ overlapped' = overlapped
        /\ \A d \in Requests : d # c => at'[d] = at[d] /\ held'[d] = held[d]
    BY <1>1 DEF Use, Described, Opened, Refused, Refreshed, RefreshDiffers, RefreshFails, Again, Enter, Hold,
       refreshing, DescribingTyped, DescribingTypes
  <2>3. at'[c] \in {"judge", "use"} => at[c] = "judge" /\ held'[c] = held[c]
    BY <1>1 DEF Use, Described, Opened, Refused, Refreshed, RefreshDiffers, RefreshFails, Again, Enter, Hold,
       DescribingTyped, DescribingTypes
  <2> QED BY <2>1, <2>2, <2>3 DEF MadeSince
<1>2. ASSUME NEW c \in Requests, HangUp(c) PROVE MadeSince'
  BY <1>2 DEF HangUp, refreshing, MadeSince
<1>3. CASE Tick \/ AllDescribed \/ UNCHANGED describingVars
  BY <1>3 DEF Tick, AllDescribed, describingVars, refreshing, MadeSince
<1> QED BY <1>1, <1>2, <1>3, MadeSinceDescribe, MadeSinceDelete DEF DescribingNext

\* A refresh gets a descriptor made after it deleted the refused one, unless a
\* call was under way at that moment (proxy.go:85-120, 323-326).
THEOREM RefreshIsNew == Describing => []FreshUnlessOvertaken
<1>1. DescribingInit => OneCall /\ MadeSince
  BY DEF DescribingInit, OneCall, InCall, MadeSince
<1>2. DescribingTyped /\ MadeSince => FreshUnlessOvertaken
  BY DEF DescribingTyped, DescribingTypes, HasDesc, MadeSince, Since, FreshUnlessOvertaken
<1> QED BY <1>1, <1>2, DescribingTypedInit, DescribingTypedStep, OneCallStep, MadeSinceStep, PTL DEF Describing

---------------------------------------------------------------------------
(* Failures and their causes. A call fails because the source has refused,  *)
(* which is counted, or because the context of its leader has ended, who    *)
(* makes no attempt after that one.                                         *)

\* Whose context has ended and who has failed with a call or is done.
Over == {l \in gone : at[l] = "done" \/ (at[l] \in {"land", "judge"} /\ held[l] = Failed)}
Causes == refusals + Cardinality(Over)

\* A call has failed and is to tell those who wait.
Failing == IF \E l \in Requests : at[l] = "land" /\ held[l] = Failed THEN 1 ELSE 0

\* The failures a request has been told of in its refresh.
Had(c) == (IF attempt[c] = 0 THEN 0 ELSE attempt[c] - 1)
            + (IF at[c] = "judge" /\ held[c] = Failed THEN 1 ELSE 0)

\* No two failures a request has been told of, nor one it may yet be told of, have
\* one cause; refusals are counted up to the attempts of a refresh.
Accounted ==
  /\ IsFiniteSet(gone)
  /\ refusals <= Attempts
  /\ \A c \in Requests : at[c] # "done" => refusals = Attempts \/ Had(c) + Failing <= Causes
  /\ FailuresHaveCause

LEMMA HadType ==
  ASSUME DescribingTyped, NEW c \in Requests
  PROVE  Had(c) \in Nat /\ Failing \in {0, 1}
  BY DEF DescribingTyped, DescribingTypes, Had, Failing

LEMMA CausesType ==
  ASSUME DescribingTyped, Accounted
  PROVE  /\ Causes \in Nat /\ Cardinality(gone) \in Nat /\ Causes <= refusals + Cardinality(gone)
         /\ IsFiniteSet(Over)
<1>1. Over \subseteq gone /\ IsFiniteSet(gone)
  BY DEF Over, Accounted
<1>2. /\ IsFiniteSet(Over) /\ Cardinality(Over) \in Nat /\ Cardinality(gone) \in Nat
      /\ Cardinality(Over) <= Cardinality(gone)
  BY <1>1, FS_Subset, FS_CardinalityType
<1> QED BY <1>2 DEF Causes, DescribingTyped, DescribingTypes

\* Causes are not forgotten.
LEMMA CausesGrow ==
  ASSUME DescribingTyped, DescribingTyped', Accounted, IsFiniteSet(gone'), Over \subseteq Over', refusals <= refusals'
  PROVE  /\ Causes' \in Nat /\ Causes <= Causes' /\ Causes' <= refusals' + Cardinality(gone')
         /\ Cardinality(gone') \in Nat
         /\ refusals < refusals' => Causes < Causes'
         /\ Over # Over' => Causes < Causes'
<1>1. Over' \subseteq gone'
  BY DEF Over
<1>2. /\ IsFiniteSet(Over') /\ Cardinality(Over') \in Nat /\ Cardinality(gone') \in Nat
      /\ Cardinality(Over') <= Cardinality(gone')
  BY <1>1, FS_Subset, FS_CardinalityType
<1>3. Cardinality(Over) \in Nat /\ Cardinality(Over) <= Cardinality(Over')
  BY <1>2, FS_Subset, FS_CardinalityType
<1>4. Over # Over' => Cardinality(Over) # Cardinality(Over')
  BY <1>2, FS_Subset
<1> QED BY <1>2, <1>3, <1>4 DEF Causes, DescribingTyped, DescribingTypes

\* Who is over stays so, whoever's context ends.
LEMMA OverGrows ==
  ASSUME DescribingTyped, Accounted, [DescribingNext]_describingVars
  PROVE  Over \subseteq Over' /\ IsFiniteSet(gone') /\ refusals <= refusals' /\ refusals' <= Attempts
<1> USE AttemptsAssumption, ValuesAssumption, NoneAssumption DEF DescribingTyped, DescribingTypes, Over, Accounted, refreshing, Enter, Hold
<1>1. ASSUME NEW c \in Requests, HangUp(c) PROVE Over \subseteq Over' /\ IsFiniteSet(gone') /\ refusals' = refusals
  BY <1>1, FS_AddElement DEF HangUp
<1>2. ASSUME NEW c \in Requests, Describe(c) PROVE Over \subseteq Over' /\ gone' = gone
  <2>1. CASE HeadAsks(c) \/ HeadHeld(c) \/ Probe(c) \/ Join(c) \/ Recheck(c)
    BY <2>1 DEF HeadAsks, HeadHeld, Probe, Join, Recheck
  <2>2. CASE Resolve(c) \/ Refuse(c) \/ ContextEnds(c) \/ Store(c)
    BY <2>2 DEF Resolve, Refuse, ContextEnds, Store
  <2>3. CASE Land(c)
    BY <2>3 DEF Land
  <2> QED BY <1>2, <2>1, <2>2, <2>3 DEF Describe
<1>3. ASSUME NEW c \in Requests, Use(c) PROVE Over \subseteq Over' /\ gone' = gone /\ refusals' = refusals
  <2>1. CASE Described(c) \/ Opened(c) \/ Refused(c) \/ Refreshed(c) \/ RefreshDiffers(c)
    BY <2>1 DEF Described, Opened, Refused, Refreshed, RefreshDiffers
  <2>2. CASE Delete(c)
    BY <2>2 DEF Delete, Erase, Older, Errors
  <2>3. CASE RefreshFails(c)
    BY <2>3 DEF RefreshFails, Again
  <2> QED BY <1>3, <2>1, <2>2, <2>3 DEF Use
<1>4. ASSUME NEW c \in Requests, Describe(c) PROVE refusals <= refusals' /\ refusals' <= Attempts
  BY <1>4 DEF Describe, HeadAsks, HeadHeld, Probe, Join, Recheck, Resolve, Refuse, ContextEnds, Store, Land
<1>5. CASE Tick \/ AllDescribed \/ UNCHANGED describingVars
  BY <1>5 DEF Tick, AllDescribed, describingVars
<1> QED BY <1>1, <1>2, <1>3, <1>4, <1>5 DEF DescribingNext

\* Who ends with the failure of a call had it, and was at the last attempt.
LEMMA FailedEnds ==
  ASSUME DescribingTyped, [DescribingNext]_describingVars, NEW c \in Requests, at'[c] = "done", held'[c] = Failed
  PROVE  /\ held[c] = Failed /\ attempt'[c] = attempt[c]
         /\ at[c] = "done" \/ (at[c] = "judge" /\ attempt[c] \in {0, Attempts})
<1> USE ValuesAssumption, NoneAssumption DEF DescribingTyped, DescribingTypes, refreshing, Enter, Hold
<1>1. ASSUME NEW d \in Requests, HangUp(d) PROVE at' = at /\ held' = held /\ attempt' = attempt
  BY <1>1 DEF HangUp
<1>2. ASSUME NEW d \in Requests, Describe(d) PROVE at[c] = "done" /\ held[c] = Failed /\ attempt' = attempt
  <2>1. CASE HeadAsks(d) \/ HeadHeld(d) \/ Probe(d) \/ Join(d) \/ Recheck(d)
    BY <2>1 DEF HeadAsks, HeadHeld, Probe, Join, Recheck
  <2>2. CASE Resolve(d) \/ Refuse(d) \/ ContextEnds(d) \/ Store(d)
    BY <2>2 DEF Resolve, Refuse, ContextEnds, Store
  <2>3. CASE Land(d)
    BY <2>3 DEF Land
  <2> QED BY <1>2, <2>1, <2>2, <2>3 DEF Describe
<1>3. ASSUME NEW d \in Requests, Use(d)
      PROVE  /\ held[c] = Failed /\ attempt'[c] = attempt[c]
             /\ at[c] = "done" \/ (at[c] = "judge" /\ attempt[c] \in {0, Attempts})
  <2>1. CASE Described(d) \/ Opened(d) \/ Refused(d) \/ Refreshed(d) \/ RefreshDiffers(d)
    BY <2>1 DEF Described, Opened, Refused, Refreshed, RefreshDiffers
  <2>2. CASE Delete(d)
    BY <2>2 DEF Delete, Erase, Older, Errors, Descs
  <2>3. CASE RefreshFails(d)
    BY <2>3 DEF RefreshFails, Again
  <2> QED BY <1>3, <2>1, <2>2, <2>3 DEF Use
<1>4. CASE Tick \/ AllDescribed \/ UNCHANGED describingVars
  BY <1>4 DEF Tick, AllDescribed, describingVars
<1> QED BY <1>1, <1>2, <1>3, <1>4 DEF DescribingNext

\* A step in which no call fails or lands leaves Failing as it is.
LEMMA FailingKept ==
  ASSUME \A l \in Requests : (at'[l] = "land" /\ held'[l] = Failed) <=> (at[l] = "land" /\ held[l] = Failed)
  PROVE  Failing' = Failing
  BY DEF Failing

\* What a request has been told of, or may be, only grows when a call fails.
LEMMA HadDescribe ==
  ASSUME DescribingTyped, OneCall, Accounted, NEW l \in Requests, Describe(l), NEW c \in Requests, at'[c] # "done"
  PROVE  /\ at[c] # "done"
         /\ \/ Had(c)' + Failing' <= Had(c) + Failing
            \/ /\ Had(c)' = Had(c) /\ Failing = 0 /\ Failing' = 1
               /\ refusals' = Attempts \/ refusals < refusals' \/ Over # Over'
<1> USE ValuesAssumption, NoneAssumption, AttemptsAssumption DEF DescribingTyped, DescribingTypes, Accounted, refreshing, Enter, Hold
<1>1. CASE HeadAsks(l) \/ HeadHeld(l) \/ Join(l) \/ Probe(l) \/ Recheck(l) \/ Resolve(l) \/ Store(l)
  <2>1. IsFresh => entry.desc \in Descs
    BY DEF IsFresh
  <2>2. \A d \in Requests : (at'[d] = "land" /\ held'[d] = Failed) <=> (at[d] = "land" /\ held[d] = Failed)
    <3>1. CASE HeadAsks(l) \/ HeadHeld(l) \/ Join(l)
      BY <3>1 DEF HeadAsks, HeadHeld, Join
    <3>2. CASE Probe(l) \/ Recheck(l)
      BY <3>2, <2>1 DEF Probe, Recheck, Errors
    <3>3. CASE Resolve(l) \/ Store(l)
      BY <3>3 DEF Resolve, Store, HasDesc, Errors
    <3> QED BY <1>1, <3>1, <3>2, <3>3
  <2>3. at[c] # "done" /\ ((at'[c] = "judge" /\ held'[c] = Failed) <=> (at[c] = "judge" /\ held[c] = Failed))
        /\ attempt' = attempt
    <3>1. CASE HeadAsks(l) \/ HeadHeld(l) \/ Join(l)
      BY <3>1 DEF HeadAsks, HeadHeld, Join
    <3>2. CASE Probe(l) \/ Recheck(l)
      BY <3>2, <2>1 DEF Probe, Recheck, Errors
    <3>3. CASE Resolve(l) \/ Store(l)
      BY <3>3 DEF Resolve, Store, HasDesc, Errors
    <3> QED BY <1>1, <3>1, <3>2, <3>3
  <2>4. Failing' = Failing /\ Had(c)' = Had(c)
    BY ONLY <2>2, <2>3, FailingKept DEF Had
  <2> QED BY <2>3, <2>4, HadType
<1>2. CASE Refuse(l) \/ ContextEnds(l)
  <2>1. at[l] = "ask" /\ at' = [at EXCEPT ![l] = "land"] /\ held' = [held EXCEPT ![l] = Failed] /\ attempt' = attempt
    BY <1>2 DEF Refuse, ContextEnds
  <2>2. \A d \in Requests : at[d] # "land"
    BY <2>1 DEF OneCall, InCall
  <2>3. Failing = 0 /\ Failing' = 1
    BY <2>1, <2>2 DEF Failing
  <2>4. at[c] # "done" /\ Had(c)' = Had(c)
    BY <2>1 DEF Had
  <2>5. refusals' = Attempts \/ refusals < refusals' \/ Over # Over'
    <3>1. CASE Refuse(l)
      BY <3>1 DEF Refuse
    <3>2. CASE ContextEnds(l)
      <4>1. l \in Over' /\ l \notin Over
        BY <2>1, <3>2 DEF ContextEnds, Over
      <4> QED BY <4>1
    <3> QED BY <1>2, <3>1, <3>2
  <2> QED BY <2>3, <2>4, <2>5
<1>3. CASE Land(l)
  <2>1. /\ at[l] = "land" /\ attempt' = attempt
        /\ at' = [d \in Requests |-> IF d = l \/ at[d] = "wait" THEN "judge" ELSE at[d]]
        /\ held' = [d \in Requests |-> IF d = l \/ at[d] = "wait" THEN held[l] ELSE held[d]]
    BY <1>3 DEF Land
  <2>2. \A d \in Requests : at[d] = "land" => d = l
    BY <2>1 DEF OneCall, InCall
  <2>3. Failing' = 0 /\ Failing = IF held[l] = Failed THEN 1 ELSE 0
    BY <2>1, <2>2 DEF Failing
  <2>4. at[c] # "done" /\ Had(c)' <= Had(c) + (IF held[l] = Failed THEN 1 ELSE 0)
    <3>1. CASE c = l \/ at[c] = "wait"
      BY <2>1, <3>1 DEF Had
    <3>2. CASE c # l /\ at[c] # "wait"
      BY <2>1, <3>2 DEF Had
    <3> QED BY <3>1, <3>2
  <2>5. Had(c) \in Nat /\ Had(c)' \in Nat
    BY <2>1 DEF Had
  <2> QED BY <2>3, <2>4, <2>5
<1> QED BY <1>1, <1>2, <1>3 DEF Describe

LEMMA HadUse ==
  ASSUME DescribingTyped, NEW l \in Requests, Use(l), NEW c \in Requests, at'[c] # "done"
  PROVE  at[c] # "done" /\ Had(c)' <= Had(c) /\ Failing' = Failing
<1> USE ValuesAssumption, NoneAssumption, AttemptsAssumption DEF DescribingTyped, DescribingTypes, refreshing, Enter, Hold
<1>1. CASE Described(l) \/ Opened(l) \/ Refused(l) \/ Refreshed(l) \/ RefreshDiffers(l)
  <2>1. \A d \in Requests : (at'[d] = "land" /\ held'[d] = Failed) <=> (at[d] = "land" /\ held[d] = Failed)
    BY <1>1 DEF Described, Opened, Refused, Refreshed, RefreshDiffers
  <2>2. at[c] # "done" /\ Had(c)' <= Had(c)
    BY <1>1 DEF Described, Opened, Refused, Refreshed, RefreshDiffers, Had
  <2> QED BY <2>1, <2>2, FailingKept
<1>2. CASE Delete(l)
  <2>1. \A d \in Requests : Older(held[d], l) = Failed <=> held[d] = Failed
    BY OlderType DEF Older, Errors
  <2>2. \A d \in Requests : (at'[d] = "land" /\ held'[d] = Failed) <=> (at[d] = "land" /\ held[d] = Failed)
    BY <1>2, <2>1 DEF Delete, Erase
  <2>3. at[c] # "done" /\ Had(c)' <= Had(c)
    BY <1>2, <2>1 DEF Delete, Erase, Had
  <2> QED BY <2>2, <2>3, FailingKept
<1>3. CASE RefreshFails(l)
  <2>1. \A d \in Requests : (at'[d] = "land" /\ held'[d] = Failed) <=> (at[d] = "land" /\ held[d] = Failed)
    BY <1>3 DEF RefreshFails, Again
  <2>2. at[c] # "done" /\ Had(c)' <= Had(c)
    BY <1>3 DEF RefreshFails, Again, Had
  <2> QED BY <2>1, <2>2, FailingKept
<1> QED BY <1>1, <1>2, <1>3 DEF Use

LEMMA HadStep ==
  ASSUME DescribingTyped, OneCall, Accounted, [DescribingNext]_describingVars, NEW c \in Requests, at'[c] # "done"
  PROVE  /\ at[c] # "done"
         /\ \/ Had(c)' + Failing' <= Had(c) + Failing
            \/ /\ Had(c)' = Had(c) /\ Failing = 0 /\ Failing' = 1
               /\ refusals' = Attempts \/ refusals < refusals' \/ Over # Over'
<1>1. CASE Tick \/ AllDescribed \/ UNCHANGED describingVars \/ \E d \in Requests : HangUp(d)
  <2>1. at' = at /\ held' = held /\ attempt' = attempt
    BY <1>1 DEF Tick, AllDescribed, describingVars, HangUp, refreshing
  <2>2. at[c] # "done" /\ Had(c)' = Had(c) /\ Failing' = Failing
    BY <2>1 DEF Had, Failing
  <2> QED BY <2>2, HadType
<1>2. ASSUME NEW l \in Requests, Use(l) PROVE at[c] # "done" /\ Had(c)' <= Had(c) /\ Failing' = Failing /\ Had(c)' \in Nat
  <2>1. DescribingTyped'
    BY DescribingTypedStep
  <2>2. Had(c)' \in Nat
    BY <2>1 DEF DescribingTyped, DescribingTypes, Had
  <2> QED BY <1>2, <2>2, HadUse
<1> QED BY <1>1, <1>2, HadDescribe, HadType DEF DescribingNext

LEMMA AccountedStep == DescribingTyped /\ OneCall /\ Accounted /\ [DescribingNext]_describingVars => Accounted'
<1> SUFFICES ASSUME DescribingTyped, OneCall, Accounted, [DescribingNext]_describingVars PROVE Accounted'
  OBVIOUS
<1>0. DescribingTyped'
  BY DescribingTypedStep
<1>1. Over \subseteq Over' /\ IsFiniteSet(gone') /\ refusals <= refusals' /\ refusals' <= Attempts
  BY OverGrows
<1>2. /\ Causes' \in Nat /\ Causes <= Causes' /\ Causes' <= refusals' + Cardinality(gone')
      /\ Cardinality(gone') \in Nat
      /\ refusals < refusals' => Causes < Causes'
      /\ Over # Over' => Causes < Causes'
  BY <1>0, <1>1, CausesGrow
<1>3. Causes \in Nat /\ refusals \in Nat /\ refusals' \in Nat /\ Attempts \in Nat \ {0}
  BY <1>0, CausesType, AttemptsAssumption DEF DescribingTyped, DescribingTypes
<1>4. ASSUME NEW c \in Requests, at'[c] # "done"
      PROVE  refusals' = Attempts \/ Had(c)' + Failing' <= Causes'
  <2>1. refusals = Attempts \/ Had(c) + Failing <= Causes
    BY <1>4, HadStep DEF Accounted
  <2>2. Had(c) \in Nat /\ Failing \in {0, 1} /\ Had(c)' \in Nat /\ Failing' \in {0, 1}
    BY <1>0, HadType DEF DescribingTyped, DescribingTypes, Had, Failing
  <2> QED BY <1>1, <1>2, <1>3, <1>4, <2>1, <2>2, HadStep
<1>5. ASSUME NEW c \in Requests, at'[c] = "done", held'[c] = Failed
      PROVE  refusals' + Cardinality(gone') >= (IF attempt'[c] > 0 THEN Attempts ELSE 1)
  <2>1. /\ held[c] = Failed /\ attempt'[c] = attempt[c] /\ attempt[c] \in Nat
        /\ at[c] = "done" \/ (at[c] = "judge" /\ attempt[c] \in {0, Attempts})
    BY <1>5, FailedEnds DEF DescribingTyped, DescribingTypes
  <2>2. CASE at[c] = "done"
    <3>1. gone \subseteq gone'
      BY DEF DescribingNext, Tick, AllDescribed, describingVars, HangUp, Describe, Use, HeadAsks,
         HeadHeld, Probe, Join, Recheck, Resolve, Refuse, ContextEnds, Store, Land, Described,
         Opened, Refused, Delete, Erase, Refreshed, RefreshDiffers, RefreshFails, Again
    <3>2. Cardinality(gone) \in Nat /\ Cardinality(gone) <= Cardinality(gone')
      BY <1>1, <3>1, FS_Subset, FS_CardinalityType
    <3>3. refusals + Cardinality(gone) >= (IF attempt[c] > 0 THEN Attempts ELSE 1)
      BY <2>1, <2>2 DEF Accounted, FailuresHaveCause
    <3> QED BY <1>1, <1>2, <1>3, <2>1, <3>2, <3>3
  <2>3. CASE at[c] = "judge" /\ attempt[c] \in {0, Attempts}
    <3>1. Had(c) = IF attempt[c] > 0 THEN Attempts ELSE 1
      BY <1>3, <2>1, <2>3 DEF Had
    <3>2. Failing \in {0, 1} /\ (refusals = Attempts \/ Had(c) + Failing <= Causes)
      BY <2>3 DEF Accounted, Failing
    <3> QED BY <1>1, <1>2, <1>3, <2>1, <3>1, <3>2
  <2> QED BY <2>1, <2>2, <2>3
<1> QED BY <1>1, <1>4, <1>5 DEF Accounted, FailuresHaveCause

\* A request that fails with an error of a call has had one for each of its attempts,
\* and no two of them one cause: a refusal of the source, or a client that hung up
\* (proxy.go:92-104, 313-336).
THEOREM FailuresAreCaused == Describing => []FailuresHaveCause
<1>1. DescribingInit => OneCall /\ Accounted
  <2> SUFFICES ASSUME DescribingInit PROVE OneCall /\ Accounted
    OBVIOUS
  <2>1. Over = {} /\ IsFiniteSet(gone) /\ Cardinality(Over) = 0
    BY FS_EmptySet DEF DescribingInit, Over
  <2>2. \A c \in Requests : at[c] = "new" /\ attempt[c] = 0
    BY DEF DescribingInit
  <2>3. Failing = 0 /\ \A c \in Requests : Had(c) = 0
    BY ONLY <2>2 DEF Had, Failing
  <2> QED BY <2>1, <2>2, <2>3, AttemptsAssumption DEF DescribingInit, OneCall, InCall, Accounted, FailuresHaveCause, Causes
<1>2. Accounted => FailuresHaveCause
  BY DEF Accounted
<1> QED BY <1>1, <1>2, DescribingTypedInit, DescribingTypedStep, OneCallStep, AccountedStep, PTL DEF Describing
==================================================================================
