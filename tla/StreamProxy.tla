------------------------------- MODULE StreamProxy -------------------------------
(***************************************************************************)
(* internal/stream/proxy.go: the requests for the audio of one track,      *)
(* served from the cache or from the provider, at most one of them filling *)
(* the cache on the way (Proxy.Serve and the table Proxy.fills).           *)
(*                                                                         *)
(* There is one cache key here: the table orders only the requests of one  *)
(* key. The cache itself is the store AudioCache implements: an index      *)
(* entry is a complete object, published by a fill's Commit, that may be   *)
(* forgotten at any time, even after a lookup has found it.                *)
(*                                                                         *)
(* Abstracted: a representation is known by its size (a provider's         *)
(* descriptors of one size and format have the same bytes, which is what   *)
(* equivalent assumes), a byte by its representation and position.         *)
(* Authentication failures, timeouts, resets and mismatched ranges are one *)
(* kind of failure where Serve treats them alike. What Serve returns is    *)
(* left out: its caller (handler.go) can no longer tell the client.        *)
(***************************************************************************)
EXTENDS ProxyRequests, Integers, Sequences

CONSTANTS
  Sizes,         \* the representations a provider may offer
  MaxTries,      \* the copy loop's attempts, 3 in the code
  MaxChanges,    \* bound on how often the provider changes its mind
  Faults,        \* the requests for which provider, connection or SQLite may fail
  DiskFaults,    \* those whose writes to the partial file may fail
  Stalls,        \* may a client stop reading without hanging up?
  Evictions      \* may the cache forget the object?

ASSUME SizesAssumption == Sizes \subseteq Nat
ASSUME TriesAssumption == MaxTries \in Nat \ {0} /\ MaxChanges \in Nat
ASSUME FaultAssumption == Faults \subseteq Requests /\ DiskFaults \subseteq Requests
ASSUME SwitchAssumption == {Stalls, Evictions} \subseteq BOOLEAN

VARIABLES
  offered,   \* the representations the provider has offered, the current one last
  cached,    \* the object the index names, or None
  fill,      \* Proxy.fills: the request whose fill is under way, or None
  pc,
  req,       \* the descriptor's representation and the bytes asked for
  client,    \* "reading", "stalled" or "gone"
  await,     \* the fill whose channel a request waits on, None once it is closed
  whole,     \* cacheAll: this request fills
  obj,       \* the object a lookup has found
  from,      \* the representation the open response body carries
  sent,      \* the bytes written to the client
  part,      \* the bytes in the partial file
  written,   \* the bytes Serve counts
  tries      \* attempts begun

outside == <<offered, cached>>
request == <<req, client>>
copying == <<obj, from, sent, part, written, tries>>
vars == <<outside, fill, pc, request, await, whole, copying>>

Current == offered[Len(offered)]
Byte(v, p) == [of |-> v, pos |-> p]
Run(v, p, n) == [i \in 1..n |-> Byte(v, p + i - 1)]
Total(c) == req[c].end - req[c].start + 1

\* The descriptor's bytes from the first to the last, or a part of them.
Ask(v, s, e) == [size |-> v, start |-> s, end |-> e]
All(v) == Ask(v, 0, v - 1)
AskedOf(v) == {All(v)} \cup {Ask(v, s, e) : s \in 0..(v - 1), e \in 0..(v - 1)}
Asks == {r \in UNION {AskedOf(v) : v \in Sizes} : r = All(r.size) \/ r.start <= r.end}

FillStages == {"open", "copy", "retry", "close", "release"}
Stages == {"new", "lookup", "serve", "check", "wait", "start", "pause", "done"} \cup FillStages

Init ==
  /\ \E v \in Sizes : offered = <<v>>
  /\ cached = None /\ fill = None
  /\ pc = [c \in Requests |-> "new"]
  /\ req = [c \in Requests |-> All(offered[1])]
  /\ client = [c \in Requests |-> "reading"]
  /\ await = [c \in Requests |-> None]
  /\ whole = [c \in Requests |-> FALSE]
  /\ obj = [c \in Requests |-> None]
  /\ from = [c \in Requests |-> 0]
  /\ sent = [c \in Requests |-> <<>>]
  /\ part = [c \in Requests |-> <<>>]
  /\ written = [c \in Requests |-> 0]
  /\ tries = [c \in Requests |-> 0]

Goto(c, l) == pc' = [pc EXCEPT ![c] = l]

---------------------------------------------------------------------------
(* Surroundings.                                                           *)

\* A request arrives with a descriptor the library holds: the current one or
\* one a snapshot still has. A range that cannot be satisfied is answered 416
\* before anything else and is left out.
Arrive(c, r) ==
  /\ pc[c] = "new"
  /\ \E i \in 1..Len(offered) : offered[i] = r.size
  /\ req' = [req EXCEPT ![c] = r]
  /\ Goto(c, "lookup")
  /\ UNCHANGED <<outside, fill, client, await, whole, copying>>

ClientLeaves(c) ==
  /\ pc[c] \notin {"new", "done"} /\ client[c] # "gone"
  /\ client' = [client EXCEPT ![c] = "gone"]
  /\ UNCHANGED <<outside, fill, pc, req, await, whole, copying>>

ClientStalls(c) ==
  /\ Stalls /\ pc[c] = "copy" /\ client[c] = "reading"
  /\ client' = [client EXCEPT ![c] = "stalled"]
  /\ UNCHANGED <<outside, fill, pc, req, await, whole, copying>>

ProviderChanges ==
  /\ Len(offered) <= MaxChanges
  /\ \E v \in Sizes \ {Current} : offered' = Append(offered, v)
  /\ UNCHANGED <<cached, fill, pc, request, await, whole, copying>>

Forget ==
  /\ Evictions /\ cached # None
  /\ cached' = None
  /\ UNCHANGED <<offered, fill, pc, request, await, whole, copying>>

---------------------------------------------------------------------------
(* From the cache.                                                         *)

Lookup(c) ==
  /\ pc[c] = "lookup"
  /\ obj' = [obj EXCEPT ![c] = cached]
  /\ Goto(c, IF cached = None THEN "check" ELSE "serve")
  /\ UNCHANGED <<outside, fill, request, await, whole, from, sent, part, written, tries>>

LookupFails(c) ==
  /\ c \in Faults /\ pc[c] = "lookup"
  /\ Goto(c, "done")
  /\ UNCHANGED <<outside, fill, request, await, whole, copying>>

Lesser(m, n) == IF m < n THEN m ELSE n

\* serveFile, with the headers of the request's descriptor: as many bytes of
\* the object as they announce, or fewer when there are fewer.
ServeFile(c) ==
  /\ pc[c] = "serve"
  /\ sent' = [sent EXCEPT ![c] = SubSeq(obj[c].bytes, req[c].start + 1, Lesser(req[c].end + 1, Len(obj[c].bytes)))]
  /\ Goto(c, "done")
  /\ UNCHANGED <<outside, fill, request, await, whole, obj, from, part, written, tries>>

\* The object is gone when it is opened, or the client when it is written to.
ServeFileFails(c) ==
  /\ pc[c] = "serve" /\ (Evictions \/ client[c] = "gone")
  /\ Goto(c, "done")
  /\ UNCHANGED <<outside, fill, request, await, whole, copying>>

---------------------------------------------------------------------------
(* The table of fills.                                                     *)

\* activePopulation: wait for the fill under way, if there is one.
CheckFill(c) ==
  /\ pc[c] = "check"
  /\ IF fill # None
       THEN await' = [await EXCEPT ![c] = fill] /\ Goto(c, "wait")
       ELSE UNCHANGED await /\ Goto(c, IF req[c] = All(req[c].size) THEN "start" ELSE "open")
  /\ UNCHANGED <<outside, fill, request, whole, copying>>

TakeFill(c) ==
  /\ fill' = c
  /\ whole' = [whole EXCEPT ![c] = TRUE]
  /\ Goto(c, "open")
  /\ UNCHANGED await

\* Slip: the table is not consulted again under its lock.
SlipStartFill(c) ==
  /\ pc[c] = "start" /\ TakeFill(c)
  /\ UNCHANGED <<outside, request, copying>>

\* startPopulation: become the fill, or wait for another's for 300 ms.
StartFill(c) ==
  /\ pc[c] = "start"
  /\ IF fill = None
       THEN TakeFill(c)
       ELSE /\ await' = [await EXCEPT ![c] = fill]
            /\ Goto(c, "pause")
            /\ UNCHANGED <<fill, whole>>
  /\ UNCHANGED <<outside, request, copying>>

\* The channel is closed: look up again.
Wake(c) ==
  /\ pc[c] \in {"wait", "pause"} /\ await[c] = None
  /\ Goto(c, "lookup")
  /\ UNCHANGED <<outside, fill, request, await, whole, copying>>

\* The 300 ms are over: go on without the cache.
PauseEnds(c) ==
  /\ pc[c] = "pause"
  /\ await' = [await EXCEPT ![c] = None]
  /\ Goto(c, "open")
  /\ UNCHANGED <<outside, fill, request, whole, copying>>

CancelWait(c) ==
  /\ pc[c] \in {"wait", "pause"} /\ client[c] = "gone"
  /\ await' = [await EXCEPT ![c] = None]
  /\ Goto(c, "done")
  /\ UNCHANGED <<outside, fill, request, whole, copying>>

---------------------------------------------------------------------------
(* From the provider.                                                      *)

\* openWithRefresh, the headers, and NewPartial for a fill. A refused URL is
\* resolved anew at most once, and only an equivalent descriptor is used.
Open(c) ==
  /\ pc[c] = "open" /\ (whole[c] \/ client[c] # "gone")
  /\ from' = [from EXCEPT ![c] = req[c].size]
  /\ tries' = [tries EXCEPT ![c] = 1]
  /\ Goto(c, "copy")
  /\ UNCHANGED <<outside, fill, request, await, whole, obj, sent, part, written>>

\* Slip: a fill runs in its client's context.
SlipOpenFails(c) ==
  /\ pc[c] = "open" /\ (c \in Faults \/ client[c] = "gone")
  /\ Goto(c, "release")
  /\ UNCHANGED <<outside, fill, request, await, whole, copying>>

\* The context of a fill is its own; that of another request ends with its client.
OpenFails(c) ==
  /\ pc[c] = "open" /\ (c \in Faults \/ (~whole[c] /\ client[c] = "gone"))
  /\ Goto(c, "release")
  /\ UNCHANGED <<outside, fill, request, await, whole, copying>>

\* What the client gets of the next byte: the server refuses to exceed the
\* announced length, and a client that has gone gets nothing.
ToClient(c) ==
  IF client[c] = "reading" /\ Len(sent[c]) < Total(c)
    THEN Append(sent[c], Byte(from[c], req[c].start + written[c]))
    ELSE sent[c]

\* A chunk goes to the client and then to the partial file. A fill goes on
\* without its client; a client that does not read holds it up.
CopyChunk(c) ==
  /\ pc[c] = "copy" /\ written[c] < Total(c)
  /\ client[c] = "reading" \/ (whole[c] /\ client[c] = "gone")
  /\ sent' = [sent EXCEPT ![c] = ToClient(c)]
  /\ part' = IF whole[c] THEN [part EXCEPT ![c] = Append(@, Byte(from[c], written[c]))] ELSE part
  /\ written' = [written EXCEPT ![c] = @ + 1]
  /\ UNCHANGED <<outside, fill, pc, request, await, whole, obj, from, tries>>

\* The client's error ends a copy that fills nothing.
ClientWriteFails(c) ==
  /\ pc[c] = "copy" /\ written[c] < Total(c) /\ ~whole[c] /\ client[c] = "gone"
  /\ Goto(c, "release")
  /\ UNCHANGED <<outside, fill, request, await, whole, copying>>

\* The client has the chunk, and the count is that of the failed file write.
CacheWriteFails(c) ==
  /\ c \in DiskFaults /\ pc[c] = "copy" /\ written[c] < Total(c) /\ whole[c] /\ client[c] # "stalled"
  /\ sent' = [sent EXCEPT ![c] = ToClient(c)]
  /\ Goto(c, "retry")
  /\ UNCHANGED <<outside, fill, request, await, whole, obj, from, part, written, tries>>

\* The body breaks off with an error, or ends early without one: only the
\* first is tried again.
BodyBreaks(c) ==
  /\ c \in Faults /\ pc[c] = "copy" /\ written[c] < Total(c)
  /\ Goto(c, "retry")
  /\ UNCHANGED <<outside, fill, request, await, whole, copying>>

BodyEnds(c) ==
  /\ c \in Faults /\ pc[c] = "copy" /\ written[c] < Total(c)
  /\ Goto(c, "close")
  /\ UNCHANGED <<outside, fill, request, await, whole, copying>>

\* The range is asked for again from where the count stands.
Resume(c) ==
  /\ pc[c] = "retry" /\ tries[c] < MaxTries
  /\ whole[c] \/ client[c] # "gone"
  /\ tries' = [tries EXCEPT ![c] = @ + 1]
  /\ from' = [from EXCEPT ![c] = Current]
  /\ Goto(c, "copy")
  /\ UNCHANGED <<outside, fill, request, await, whole, obj, sent, part, written>>

\* Slip: the refreshed descriptor need not be equivalent.
SlipRetryAny(c) == Resume(c)

\* refresh and openWithRefresh: go on with an equivalent descriptor only.
Retry(c) == Current = req[c].size /\ Resume(c)

GiveUp(c) ==
  /\ pc[c] = "retry"
  /\ \/ c \in Faults \/ tries[c] = MaxTries \/ Current # req[c].size
     \/ ~whole[c] /\ client[c] = "gone"
  /\ Goto(c, "close")
  /\ UNCHANGED <<outside, fill, request, await, whole, copying>>

CopyEnds(c) ==
  /\ pc[c] = "copy" /\ written[c] = Total(c)
  /\ Goto(c, "close")
  /\ UNCHANGED <<outside, fill, request, await, whole, copying>>

CommitIf(c, complete) ==
  /\ pc[c] = "close"
  /\ cached' = IF whole[c] /\ complete THEN [size |-> req[c].size, bytes |-> part[c]] ELSE cached
  /\ Goto(c, "release")
  /\ UNCHANGED <<offered, fill, request, await, whole, copying>>

\* Slip: an incomplete partial is committed as well.
SlipCloseShort(c) == CommitIf(c, TRUE)

\* Sync, Close and, when every byte was counted, Commit.
Close(c) == CommitIf(c, written[c] = req[c].size)

CloseFails(c) ==
  /\ c \in Faults \cup DiskFaults /\ pc[c] = "close"
  /\ Goto(c, "release")
  /\ UNCHANGED <<outside, fill, request, await, whole, copying>>

Leave(c, waits) ==
  /\ pc[c] = "release"
  /\ await' = waits
  /\ Goto(c, "done")
  /\ UNCHANGED <<outside, request, whole, copying>>

Finish(c, ends) ==
  /\ fill' = IF ends THEN None ELSE fill
  /\ Leave(c, [d \in Requests |-> IF ends /\ await[d] = c THEN None ELSE await[d]])

\* Slip: only a fill that wrote everything completes the population.
SlipReleaseFull(c) == Finish(c, whole[c] /\ written[c] = Total(c))

\* The deferred completePopulation runs however Serve ends: the table entry
\* is deleted and its channel closed.
Release(c) == Finish(c, whole[c])

---------------------------------------------------------------------------

\* Every request has been answered.
Finished ==
  /\ \A c \in Requests : pc[c] = "done"
  /\ UNCHANGED vars

Arrival(c) == \E r \in Asks : Arrive(c, r)

Serve(c) ==
  \/ Lookup(c) \/ LookupFails(c) \/ ServeFile(c) \/ ServeFileFails(c)
  \/ CheckFill(c) \/ StartFill(c) \/ Wake(c) \/ PauseEnds(c) \/ CancelWait(c)
  \/ Open(c) \/ OpenFails(c)
  \/ CopyChunk(c) \/ ClientWriteFails(c) \/ CacheWriteFails(c)
  \/ BodyBreaks(c) \/ BodyEnds(c) \/ Retry(c) \/ GiveUp(c) \/ CopyEnds(c)
  \/ Close(c) \/ CloseFails(c) \/ Release(c)

Next ==
  \/ \E c \in Requests : Arrival(c) \/ ClientLeaves(c) \/ ClientStalls(c) \/ Serve(c)
  \/ ProviderChanges
  \/ Forget
  \/ Finished

Spec == Init /\ [][Next]_vars

\* The steps of a request that depend on nothing outside the process are
\* taken; so are those of a fill, whose provider is bounded by five minutes,
\* unless its client has it waiting. Nothing is owed by a provider to a request
\* that does not fill, and nothing by a client.
Fairness ==
  \A c \in Requests :
    /\ WF_vars(pc[c] # "copy" /\ Serve(c))
    /\ WF_vars(whole[c] /\ client[c] # "stalled" /\ Serve(c))

FairSpec == Spec /\ Fairness

---------------------------------------------------------------------------
(* Properties.                                                             *)

Bytes == [of : Sizes, pos : Nat]
Objects == [size : Sizes, bytes : Seq(Bytes)]

TypeOK ==
  /\ offered \in Seq(Sizes) /\ offered # <<>>
  /\ cached \in Objects \cup {None}
  /\ fill \in Requests \cup {None}
  /\ pc \in [Requests -> Stages]
  /\ req \in [Requests -> [size : Sizes, start : Nat, end : Nat \cup {-1}]]
  /\ client \in [Requests -> {"reading", "stalled", "gone"}]
  /\ await \in [Requests -> Requests \cup {None}]
  /\ whole \in [Requests -> BOOLEAN]
  /\ obj \in [Requests -> Objects \cup {None}]
  /\ from \in [Requests -> Sizes \cup {0}]
  /\ sent \in [Requests -> Seq(Bytes)] /\ part \in [Requests -> Seq(Bytes)]
  /\ written \in [Requests -> Nat] /\ \A c \in Requests : written[c] <= Total(c)
  /\ tries \in [Requests -> 0..MaxTries]

FillKnown == \A c \in Requests : fill = c <=> (whole[c] /\ pc[c] \in FillStages)

WaitsForFill ==
  \A c \in Requests :
    /\ await[c] \in {None, fill}
    /\ await[c] # None => pc[c] \in {"wait", "pause"}

\* A fill is in the table from the moment it is begun until its request ends,
\* however it ends, and never two of them; and who waits, waits for that one:
\* no request holds the channel of a fill that is over without its having been
\* closed (proxy.go:58-83, 183-197).
GateExact == FillKnown /\ WaitsForFill

\* What a fill publishes is every byte of one representation, in order, after
\* any retries, whatever became of its client (proxy.go:227-277).
CachedWhole ==
  cached # None => cached.bytes = Run(cached.size, 0, cached.size)

StreamedTo(c) == sent[c] = Run(req[c].size, req[c].start, Len(sent[c])) /\ Len(sent[c]) <= Total(c)
FileTo(c) == sent[c] = Run(obj[c].size, req[c].start, Len(sent[c])) /\ Len(sent[c]) <= Total(c)

StreamedExact == \A c \in Requests : obj[c] = None => StreamedTo(c)
FileExact == \A c \in Requests : obj[c] # None => FileTo(c)

\* What a request has received is the beginning of what it asked for, in one
\* representation: from the provider that of its descriptor, across retries and
\* refreshed descriptors; from the cache that of the object, which is another
\* where the descriptor has changed since the fill ("Serve writes an exact frozen
\* representation", proxy.go:144-149, 164).
ResponsesExact == StreamedExact /\ FileExact

\* Not kept: the same with the descriptor's representation from the cache too.
ServedExact == \A c \in Requests : StreamedTo(c)

\* A client that was there to the end of a copy got all of it: what Serve
\* counts is what the client has (proxy.go:255-267, 278-281). StreamedExact
\* rests on it, and the two are proved together.
CountedIsSent ==
  \A c \in Requests :
    obj[c] = None /\ client[c] # "gone" => Len(sent[c]) = written[c]

\* A request that meets a fill gets past it: served from the cache, or from
\* the provider, or ended (proxy.go:160-198). Nothing on the way may lose the
\* closing of a channel.
Queued(c) == pc[c] \in {"lookup", "check", "wait", "start", "pause"}
WaitersProceed ==
  \A c \in Requests : Queued(c) ~> ~Queued(c)

\* With a provider that answers, a fill ends in a cached object even when its
\* client leaves at once (proxy.go:200-205; proxy_test.go:771), whatever becomes
\* of the requests around it.
FillsComplete ==
  \A c \in Requests \ (Faults \cup DiskFaults) :
    whole[c] /\ pc[c] = "open" ~> pc[c] = "release" /\ cached # None
=================================================================================
