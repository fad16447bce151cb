------------------------------- MODULE FolderWalk -------------------------------
(***************************************************************************)
(* internal/webdav/handler.go: a PROPFIND request, from its Stat to its    *)
(* answer, over a library (internal/library/virtual.go) that other requests *)
(* and the account may change between any two calls of Stat and List.      *)
(*                                                                         *)
(* Resources are the entries of the library's lists, numbered in the order *)
(* of their paths; each has one place in the tree, and what is there is    *)
(* there with everything above it. Of one path there may be several files: *)
(* makeTrackSnapshot appends a track's files to the list of its folder     *)
(* whatever the list holds (virtual.go:488), and neither sortResources nor *)
(* the handler drops a repeat. Stat has one resource for a path, here the  *)
(* first.                                                                  *)
(* Abstracted: authentication, paths that are refused before anything is   *)
(* looked up (400), and the properties a response carries.                 *)
(***************************************************************************)
EXTENDS SortedLists, Integers, SequencesExt

CONSTANTS
  Nodes,      \* every resource there may be, numbers
  Root,
  Above,      \* the collection each other node is in
  Folders,    \* the collections
  Path,       \* of each, a number
  MaxVisits,  \* 1000 in the code
  Failures    \* may the library fail for other reasons than absence?

\* The path of a collection is the beginning of the paths below it.
ASSUME TreeAssumption ==
  /\ Nodes \subseteq Nat /\ IsFiniteSet(Nodes)
  /\ Root \in Folders /\ Folders \subseteq Nodes
  /\ Above \in [Nodes \ {Root} -> Folders] /\ \A n \in Nodes \ {Root} : Above[n] < n
\* Only files of one collection share a path; sortResources puts them side by side.
ASSUME PathAssumption ==
  /\ Path \in [Nodes -> Nat]
  /\ \A m, n \in Nodes : m < n =>
       \/ Path[m] < Path[n]
       \/ m \notin Folders /\ n \notin Folders /\ Path[m] = Path[n] /\ Above[m] = Above[n]
ASSUME VisitsAssumption == MaxVisits \in Nat \ {0, 1}
ASSUME FailuresAssumption == Failures \in BOOLEAN

VARIABLES
  there,      \* what the library has now
  target, depth,
  stage,
  queue, visited,
  reported,   \* what is reported, in order
  status,     \* of the response, 0 before there is one
  kept, seen, \* what was there all along, and at some time, during the request
  lists       \* calls of List

request == <<target, depth>>
history == <<kept, seen>>
walking == <<queue, visited, reported, lists>>
walkVars == <<there, request, stage, walking, status, history>>

Depths == {"zero", "one", "infinity", "other"}

\* The resources of the same path that are listed before n.
Earlier(n) == {m \in Nodes : m < n /\ Path[m] = Path[n]}

Libraries ==
  {s \in SUBSET Nodes : Root \in s /\ \A n \in s \ {Root} : Above[n] \in s /\ Earlier(n) \subseteq s}

\* Slip: the root, whose parent directory is itself, is among its children.
SlipInside(f) == {n \in there : f = (IF n = Root THEN Root ELSE Above[n])}

\* What the library lists of a collection, in order; a path as often as it has
\* resources there.
Inside(f) == {n \in there \ {Root} : Above[n] = f}

WalkInit ==
  /\ there \in Libraries
  /\ target \in Nodes /\ Earlier(target) = {} /\ depth \in Depths
  /\ stage = "stat" /\ status = 0
  /\ queue = <<>> /\ visited = {} /\ reported = <<>> /\ lists = 0
  /\ kept = there /\ seen = there

Alter ==
  /\ stage # "done"
  /\ there' \in Libraries \ {there}
  /\ kept' = kept \cap there' /\ seen' = seen \cup there'
  /\ UNCHANGED <<request, stage, walking, status>>

Respond(code) ==
  /\ stage' = "done" /\ status' = code
  /\ UNCHANGED <<there, request, history>>

\* Stat, before the Depth header is looked at.
Absent ==
  /\ stage = "stat" /\ target \notin there
  /\ Respond(404) /\ UNCHANGED walking

BadDepth ==
  /\ stage = "stat" /\ target \in there /\ depth = "other"
  /\ Respond(403) /\ UNCHANGED walking

Alone ==
  /\ stage = "stat" /\ target \in there
  /\ depth = "zero" \/ (depth # "other" /\ target \notin Folders)
  /\ Respond(207)
  /\ reported' = <<target>>
  /\ UNCHANGED <<queue, visited, lists>>

Enter ==
  /\ stage = "stat" /\ target \in there \cap Folders
  /\ depth \in {"one", "infinity"}
  /\ stage' = IF depth = "one" THEN "list" ELSE "walk"
  /\ reported' = <<target>>
  /\ queue' = IF depth = "one" THEN <<>> ELSE <<target>>
  /\ visited' = IF depth = "one" THEN {} ELSE {target}
  /\ UNCHANGED <<there, request, status, lists, history>>

\* Depth: 1.
List ==
  /\ stage = "list"
  /\ lists' = lists + 1
  /\ IF target \in there
       THEN Respond(207) /\ reported' = reported \o InOrder(Inside(target))
       ELSE Respond(404) /\ UNCHANGED reported
  /\ UNCHANGED <<queue, visited>>

LibraryFails ==
  /\ Failures /\ (stage \in {"stat", "list"} \/ (stage = "walk" /\ queue # <<>>))
  /\ Respond(500) /\ UNCHANGED walking

Lesser(m, n) == IF m < n THEN m ELSE n

\* Of the collections met for the first time, those that are queued: one at a
\* time is counted as visited, and queued while fewer than MaxVisits are.
Queued(new) == SubSeq(new, 1, Lesser(Len(new), MaxVisits - 1 - Cardinality(visited)))

\* Depth: infinity, one collection of the queue.
WalkList ==
  /\ stage = "walk" /\ queue # <<>> /\ Head(queue) \in there
  /\ LET new == Inside(Head(queue)) \cap (Folders \ visited)
     IN  /\ reported' = reported \o InOrder(Inside(Head(queue)))
         /\ visited' = visited \cup new
         /\ queue' = Tail(queue) \o Queued(InOrder(new))
  /\ lists' = lists + 1
  /\ UNCHANGED <<there, request, stage, status, history>>

\* Slip: a collection that has vanished ends the walk.
SlipWalkGone ==
  /\ stage = "walk" /\ queue # <<>> /\ Head(queue) \notin there
  /\ queue' = <<>>
  /\ lists' = lists + 1
  /\ UNCHANGED <<there, request, stage, visited, reported, status, history>>

\* A collection that has vanished since it was reported.
WalkGone ==
  /\ stage = "walk" /\ queue # <<>> /\ Head(queue) \notin there
  /\ queue' = Tail(queue)
  /\ lists' = lists + 1
  /\ UNCHANGED <<there, request, stage, visited, reported, status, history>>

WalkEnds ==
  /\ stage = "walk" /\ queue = <<>>
  /\ Respond(207) /\ UNCHANGED walking

Propfind ==
  \/ Absent \/ BadDepth \/ Alone \/ Enter \/ List \/ LibraryFails
  \/ WalkList \/ WalkGone \/ WalkEnds

WalkNext == Propfind \/ Alter

WalkSpec == WalkInit /\ [][WalkNext]_walkVars

---------------------------------------------------------------------------
(* Properties.                                                             *)

AfterParents(s) == \A i \in DOMAIN s \ {1} : \E j \in 1..(i - 1) : s[j] = Above[s[i]]

\* However the library changes during a walk, no resource is reported twice, that
\* is, a path as often at most as one list of its collection may hold it and a
\* collection once; and each after the collection it is in: a client can build its
\* tree as it reads (handler.go:83-115).
ReportedOnce == IsInjective(reported) /\ AfterParents(reported)

Below(f) ==
  LET under[n \in Nodes] == n = f \/ (n # Root /\ under[Above[n]]) IN {n \in Nodes : under[n]}

\* A walk that is answered reports what was there all along below its target,
\* unless it has used up its lists, and nothing that was not there at some time;
\* and however much appears while it walks, it asks the library, which may ask
\* the provider each time, for fewer than MaxVisits collections (handler.go:85-116).
WalkExact ==
  /\ lists < MaxVisits
  /\ status = 207 /\ depth = "infinity" =>
       /\ ToSet(reported) \subseteq seen \cap Below(target)
       /\ (kept \cap Below(target) \subseteq ToSet(reported)) \/ lists = MaxVisits - 1

---------------------------------------------------------------------------
(* What the code does not keep.                                            *)

\* No path is reported twice. The library may list two files of one path, which
\* the handler appends as they come (virtual.go:488, 522; handler.go:96, 108-109).
PathsOnce == IsInjective([i \in DOMAIN reported |-> Path[reported[i]]])
=================================================================================
