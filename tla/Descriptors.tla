------------------------------- MODULE Descriptors -------------------------------
(***************************************************************************)
(* internal/stream/proxy.go, the descriptors of one track: the map Describe *)
(* reads and fills under a singleflight, and refresh, which deletes its     *)
(* entry when a URL has been refused; with the descriptor the library keeps *)
(* in its snapshot (Head in internal/library/virtual.go).                   *)
(*                                                                         *)
(* A descriptor is known by its expiry, which a source may leave out, and    *)
(* by the requests that have deleted the entry since the source made it;    *)
(* what equivalent compares may come out either way. A request here is a    *)
(* GET that misses the audio cache. Its context ends when its client hangs  *)
(* up or, if it fills, after five minutes; the source may then refuse it or *)
(* still answer.                                                            *)
(***************************************************************************)
EXTENDS ProxyRequests, Integers, FiniteSets

CONSTANTS
  Lives,         \* how long a URL may last, in ticks
  Keep, Margin,  \* two minutes and 15 seconds
  Attempts,      \* of a refresh, 3 in the code
  MaxRefreshes,  \* bound on the refreshes of one request, at most 5 in the code
  MaxTime,       \* bound on the clock
  Never, Failed, Differs, Cancelled

ASSUME TimesAssumption == Lives \subseteq Nat /\ Keep \in Nat /\ Margin \in Nat
ASSUME AttemptsAssumption == Attempts \in Nat \ {0} /\ MaxRefreshes \in Nat

Descs == [before : SUBSET Requests, expires : Nat \cup {Never}]
Errors == {Failed, Differs, Cancelled}

ASSUME ValuesAssumption ==
  /\ Failed \notin {None, Differs, Cancelled}
  /\ Never \notin Int
  /\ None \notin [desc : Descs, until : Int]
  /\ (Errors \cup {None}) \cap Descs = {}

VARIABLES
  now,
  refusals,        \* how often the source has refused, up to Attempts
  entry,           \* descriptors[key], or None
  flight,          \* the request whose call of resolve is under way, or None
  at,
  held,             \* the descriptor or error a request has
  attempt,         \* of the refresh, 0 before the first
  refreshes,
  gone,            \* whose context has ended
  overlapped       \* was a call under way at a request's last delete?

refreshing == <<attempt, refreshes, overlapped>>
describingVars == <<now, refusals, entry, flight, at, held, refreshing, gone>>

IsFresh == entry # None /\ now < entry.until

DescribingInit ==
  /\ now = 0 /\ refusals = 0
  /\ entry = None /\ flight = None
  /\ at = [c \in Requests |-> "new"]
  /\ held = [c \in Requests |-> None]
  /\ attempt = [c \in Requests |-> 0]
  /\ refreshes = [c \in Requests |-> 0]
  /\ gone = {}
  /\ overlapped = [c \in Requests |-> FALSE]

Enter(c, l) == at' = [at EXCEPT ![c] = l]
Hold(c, v) == held' = [held EXCEPT ![c] = v]

---------------------------------------------------------------------------
(* Surroundings.                                                           *)

Tick ==
  /\ now < MaxTime
  /\ now' = now + 1
  /\ UNCHANGED <<refusals, entry, flight, at, held, refreshing, gone>>

HangUp(c) ==
  /\ c \notin gone /\ at[c] \notin {"new", "done"}
  /\ gone' = gone \cup {c}
  /\ UNCHANGED <<now, refusals, entry, flight, at, held, refreshing>>

---------------------------------------------------------------------------
(* Describe.                                                               *)

HeadAsks(c) ==
  /\ at[c] = "new"
  /\ Enter(c, "probe")
  /\ UNCHANGED <<now, refusals, entry, flight, held, refreshing, gone>>

\* The resource in the library's snapshot has a descriptor of its own, from
\* before all others: it is not asked for.
HeadHeld(c) ==
  /\ at[c] = "new"
  /\ Hold(c, [before |-> {}, expires |-> Never])
  /\ Enter(c, "use")
  /\ UNCHANGED <<now, refusals, entry, flight, refreshing, gone>>

Probe(c) ==
  /\ at[c] = "probe"
  /\ IF IsFresh THEN Hold(c, entry.desc) /\ Enter(c, "judge") ELSE Enter(c, "join") /\ UNCHANGED held
  /\ UNCHANGED <<now, refusals, entry, flight, refreshing, gone>>

\* resolve.Do: lead the call, or wait for the one that is under way.
Join(c) ==
  /\ at[c] = "join"
  /\ IF flight = None THEN flight' = c /\ Enter(c, "recheck") ELSE Enter(c, "wait") /\ UNCHANGED flight
  /\ UNCHANGED <<now, refusals, entry, held, refreshing, gone>>

Recheck(c) ==
  /\ at[c] = "recheck"
  /\ IF IsFresh THEN Hold(c, entry.desc) /\ Enter(c, "land") ELSE Enter(c, "ask") /\ UNCHANGED held
  /\ UNCHANGED <<now, refusals, entry, flight, refreshing, gone>>

\* ResolveStream, with the leader's context.
Resolve(c) ==
  /\ at[c] = "ask"
  /\ \E e \in {now + l : l \in Lives} \cup {Never} : Hold(c, [before |-> {}, expires |-> e])
  /\ Enter(c, "store")
  /\ UNCHANGED <<now, refusals, entry, flight, refreshing, gone>>

\* The source's error, or an answer validateStream does not accept.
Refuse(c) ==
  /\ at[c] = "ask"
  /\ refusals' = IF refusals < Attempts THEN refusals + 1 ELSE refusals
  /\ Hold(c, Failed) /\ Enter(c, "land")
  /\ UNCHANGED <<now, entry, flight, refreshing, gone>>

ContextEnds(c) ==
  /\ at[c] = "ask" /\ c \in gone
  /\ Hold(c, Failed) /\ Enter(c, "land")
  /\ UNCHANGED <<now, refusals, entry, flight, refreshing, gone>>

\* Slip: the expiry is not looked at.
SlipUntil(d) == now + Keep

\* Two minutes, or 15 seconds short of an earlier expiry.
Until(d) == IF d.expires # Never /\ d.expires < now + Keep THEN d.expires - Margin ELSE now + Keep

Store(c) ==
  /\ at[c] = "store"
  /\ entry' = [desc |-> held[c], until |-> Until(held[c])]
  /\ Enter(c, "land")
  /\ UNCHANGED <<now, refusals, flight, held, refreshing, gone>>

\* The call is over: everyone who has joined it gets what it returned.
Land(c) ==
  /\ at[c] = "land"
  /\ flight' = None
  /\ LET all == {c} \cup {d \in Requests : at[d] = "wait"}
     IN  /\ held' = [d \in Requests |-> IF d \in all THEN held[c] ELSE held[d]]
         /\ at' = [d \in Requests |-> IF d \in all THEN "judge" ELSE at[d]]
  /\ UNCHANGED <<now, refusals, entry, refreshing, gone>>

---------------------------------------------------------------------------
(* What becomes of it.                                                     *)

\* An error of Describe ends a request that has not begun its response.
Described(c) ==
  /\ at[c] = "judge" /\ attempt[c] = 0
  /\ Enter(c, IF held[c] = Failed THEN "done" ELSE "use")
  /\ UNCHANGED <<now, refusals, entry, flight, held, refreshing, gone>>

\* The URL is accepted, or refused for the last time.
Opened(c) ==
  /\ at[c] = "use"
  /\ Enter(c, "done") /\ Hold(c, None)
  /\ UNCHANGED <<now, refusals, entry, flight, refreshing, gone>>

\* The URL is refused, or its body breaks off: refresh.
Refused(c) ==
  /\ at[c] = "use" /\ refreshes[c] < MaxRefreshes
  /\ attempt' = [attempt EXCEPT ![c] = 1]
  /\ refreshes' = [refreshes EXCEPT ![c] = @ + 1]
  /\ Enter(c, "delete")
  /\ UNCHANGED <<now, refusals, entry, flight, held, gone, overlapped>>

\* A descriptor someone has, once request c has deleted.
Older(v, c) == IF v \in Errors \cup {None} THEN v ELSE [v EXCEPT !.before = @ \cup {c}]

Erase(c, e) ==
  /\ at[c] = "delete"
  /\ entry' = e
  /\ held' = [d \in Requests |-> IF d = c THEN None ELSE Older(held[d], c)]
  /\ overlapped' = [overlapped EXCEPT ![c] = flight # None]
  /\ Enter(c, "probe")
  /\ UNCHANGED <<now, refusals, flight, attempt, refreshes, gone>>

\* Slip: an entry that is still fresh is kept.
SlipDelete(c) == Erase(c, IF IsFresh THEN [entry EXCEPT !.desc = Older(@, c)] ELSE None)

Delete(c) == Erase(c, None)

\* The new descriptor is equivalent to the one refused.
Refreshed(c) ==
  /\ at[c] = "judge" /\ attempt[c] > 0 /\ held[c] # Failed
  /\ Enter(c, "use")
  /\ UNCHANGED <<now, refusals, entry, flight, held, refreshing, gone>>

\* It is not: the representation has changed.
RefreshDiffers(c) ==
  /\ at[c] = "judge" /\ attempt[c] > 0 /\ held[c] # Failed
  /\ Enter(c, "done") /\ Hold(c, Differs)
  /\ UNCHANGED <<now, refusals, entry, flight, refreshing, gone>>

Again(c, last, next) ==
  /\ at[c] = "judge" /\ attempt[c] > 0 /\ held[c] = Failed
  /\ IF last \/ c \in gone
       THEN /\ Hold(c, IF last THEN Failed ELSE Cancelled)
            /\ Enter(c, "done")
            /\ UNCHANGED attempt
       ELSE /\ attempt' = [attempt EXCEPT ![c] = next]
            /\ Enter(c, "delete")
            /\ UNCHANGED held
  /\ UNCHANGED <<now, refusals, entry, flight, refreshes, gone, overlapped>>

\* Slip: one attempt is not made.
SlipRefreshFails(c) == Again(c, attempt[c] + 1 >= Attempts, attempt[c] + 1)

\* Slip: the attempts are not counted.
SlipRefreshAlways(c) == Again(c, FALSE, attempt[c])

\* Another attempt after a pause, unless it was the last or the context is over.
RefreshFails(c) == Again(c, attempt[c] = Attempts, attempt[c] + 1)

Describe(c) ==
  \/ HeadAsks(c) \/ HeadHeld(c) \/ Probe(c) \/ Join(c) \/ Recheck(c)
  \/ Resolve(c) \/ Refuse(c) \/ ContextEnds(c) \/ Store(c) \/ Land(c)

Use(c) ==
  \/ Described(c) \/ Opened(c) \/ Refused(c) \/ Delete(c)
  \/ Refreshed(c) \/ RefreshDiffers(c) \/ RefreshFails(c)

AllDescribed ==
  /\ \A c \in Requests : at[c] = "done"
  /\ UNCHANGED describingVars

DescribingNext == AllDescribed \/ Tick \/ \E c \in Requests : HangUp(c) \/ Describe(c) \/ Use(c)

Describing == DescribingInit /\ [][DescribingNext]_describingVars

\* The process goes on with every request; the source and the provider answer
\* or time out (client.go:29, native.go:61, proxy.go:49).
FairDescribing == Describing /\ \A c \in Requests : WF_describingVars(Describe(c) \/ Use(c))

---------------------------------------------------------------------------
(* Properties.                                                             *)

\* The map gives out no URL past its expiry, however long or short that is: not
\* when it is nearer than the margin, or behind the two minutes (proxy.go:107-113).
FreshIsAlive ==
  IsFresh /\ entry.desc.expires # Never => now < entry.desc.expires

\* A refresh gets a descriptor made after it deleted the one that was refused,
\* unless a call was under way at that moment: then it may join it, or find
\* what it stored, and be given the same URL again (proxy.go:85-120, 323-326).
FreshUnlessOvertaken ==
  \A c \in Requests :
    at[c] = "use" /\ attempt[c] > 0 /\ ~overlapped[c] => c \notin held[c].before

\* A request fails with an error of a call only if each of its attempts has one
\* of its own: a refusal of the source, or the end of the context of whoever led
\* the call (proxy.go:92-104, 313-336). One client that hangs up fails those who
\* describe with it, but no refresh.
FailuresHaveCause ==
  \A c \in Requests :
    at[c] = "done" /\ held[c] = Failed =>
      refusals + Cardinality(gone) >= (IF attempt[c] > 0 THEN Attempts ELSE 1)

\* Who asks for a descriptor gets one or an error: no call is waited for that
\* never lands, and no refresh goes on for good (proxy.go:92-119, 313-336).
DescribeReturns ==
  \A c \in Requests : at[c] \in {"probe", "delete"} ~> at[c] \in {"use", "done"}
=================================================================================
