------------------------------- MODULE SearchFolder -------------------------------
(***************************************************************************)
(* The folder of search results: its rows (internal/search/results.go),    *)
(* the handlers that edit them (internal/api/search.go), and the snapshot  *)
(* WebDAV requests read (trackSnapshot, Head and the helpers of            *)
(* internal/library/virtual.go). The other track folders have the same     *)
(* snapshots and no rows.                                                  *)
(*                                                                         *)
(* A snapshot's maps are shared by everyone who was handed the snapshot    *)
(* and read without l.mu, so a snapshot is an object of a heap and reading *)
(* it a step of its own.                                                   *)
(*                                                                         *)
(* Abstracted: of a folder's files there are only the audio files, named   *)
(* by title, with the identity for all but the first of a title            *)
(* (FolderNames); a representation is known or not; what Describe and the  *)
(* source return is left out.                                              *)
(***************************************************************************)
EXTENDS Integers

CONSTANTS
  Clients,
  Tracks,     \* identities, ordered as numbers
  Title(_),   \* what a track's file name begins with
  Ids,        \* heap objects, one more than clients
  MaxEdits,   \* bound on the edits that reach the table
  Faults,     \* may a statement or the source fail, or a client hang up?
  None

ASSUME TracksAssumption == Tracks \subseteq Nat /\ MaxEdits \in Nat /\ Faults \in BOOLEAN

VARIABLES
  stored,   \* the rows of search_results
  edits,    \* ghost: how many edits they have had
  acked,    \* ghost: the last edit that was answered
  heap,     \* the snapshots someone refers to
  entry,    \* snapshots["tracks:" + searchRoot], or None
  fresh,    \* has it not expired?
  flight,   \* the leader of the singleflight group's call, or None
  draft,    \* the identities the leader has read
  pc,
  at,       \* the snapshot a request was handed
  req       \* what it asks for and has found, see Asking

library == <<heap, entry, fresh, flight, draft>>
table == <<stored, edits, acked>>
vars == <<table, library, pc, at, req>>

Path(t, n) == [title |-> Title(t), tag |-> n]
Paths == {Path(t, n) : t \in Tracks, n \in Tracks \cup {None}}

File     == [track : Tracks, known : BOOLEAN]
Files    == UNION {[P -> File] : P \in SUBSET Paths}
Snapshot == [files : Files, asof : Nat, overtaken : BOOLEAN]
Draft    == [tracks : SUBSET Tracks, asof : Nat, overtaken : BOOLEAN]

ASSUME NoneAssumption ==
  None \notin Clients /\ None \notin Ids /\ None \notin Snapshot /\ None \notin Draft

\* The path of a GET or HEAD, None for a listing; the track found there; a
\* ghost, acked when a reader began or the number of an editor's edit.
Asking(p, n) == [path |-> p, track |-> None, stamp |-> n]

\* makeTrackSnapshot: the first track of a title has the plain name.
NameIn(S, t) ==
  Path(t, IF \E o \in S : o < t /\ Title(o) = Title(t) THEN t ELSE None)
MakeTrackSnapshot(S) ==
  [p \in {NameIn(S, t) : t \in S} |->
     [track |-> CHOOSE t \in S : NameIn(S, t) = p, known |-> FALSE]]

Leading == {"recheck", "list", "store", "land"}
Stages == {"idle", "probe", "join", "wait", "read", "describe", "update", "invalidate"} \cup Leading

Init ==
  /\ stored \in SUBSET Tracks /\ edits = 0 /\ acked = 0
  /\ heap = [i \in Ids |-> None]
  /\ entry = None /\ fresh = FALSE /\ flight = None /\ draft = None
  /\ pc = [c \in Clients |-> "idle"]
  /\ at = [c \in Clients |-> None]
  /\ req = [c \in Clients |-> Asking(None, 0)]

Goto(c, l) == pc' = [pc EXCEPT ![c] = l]

End(cs) ==
  /\ pc' = [c \in Clients |-> IF c \in cs THEN "idle" ELSE pc[c]]
  /\ req' = [c \in Clients |-> IF c \in cs THEN Asking(None, 0) ELSE req[c]]

\* What nobody refers to any more is collected.
Collected(h, current, held) ==
  [i \in Ids |-> IF i = current \/ \E c \in Clients : held[c] = i THEN h[i] ELSE None]

---------------------------------------------------------------------------
(* Readers.                                                                *)

Begin(c, p) ==
  /\ pc[c] = "idle"
  /\ req' = [req EXCEPT ![c] = Asking(p, acked)]
  /\ Goto(c, "probe")
  /\ UNCHANGED <<table, library, at>>

\* snapshot(key), under l.mu: an entry that has not expired.
Hit(c, then, else) ==
  IF entry # None /\ fresh
    THEN at' = [at EXCEPT ![c] = entry] /\ Goto(c, then)
    ELSE UNCHANGED at /\ Goto(c, else)

Probe(c) ==
  /\ pc[c] = "probe"
  /\ Hit(c, "read", "join")
  /\ UNCHANGED <<table, library, req>>

Lead(c) == flight' = c /\ Goto(c, "recheck")

\* sf.Do: lead the call or wait for the one under way.
Join(c) ==
  /\ pc[c] = "join"
  /\ IF flight = None THEN Lead(c) ELSE Goto(c, "wait") /\ UNCHANGED flight
  /\ UNCHANGED <<table, heap, entry, fresh, draft, at, req>>

Recheck(c) ==
  /\ pc[c] = "recheck"
  /\ Hit(c, "land", "list")
  /\ UNCHANGED <<table, library, req>>

ListIdentities(c) ==
  /\ pc[c] = "list"
  /\ draft' = [tracks |-> stored, asof |-> edits, overtaken |-> FALSE]
  /\ Goto(c, "store")
  /\ UNCHANGED <<table, heap, entry, fresh, flight, at, req>>

\* The source is asked for each identity, and those it fails for are skipped,
\* all of them when the leader's client has hung up. The snapshot is made and
\* stored, whatever has become of the entry meanwhile.
Store(c) ==
  /\ pc[c] = "store"
  /\ \E S \in SUBSET draft.tracks, i \in Ids :
       /\ S = draft.tracks \/ Faults
       /\ heap[i] = None
       /\ entry' = i /\ at' = [at EXCEPT ![c] = i]
       /\ LET made == [files |-> MakeTrackSnapshot(S),
                       asof |-> draft.asof, overtaken |-> draft.overtaken]
          IN  heap' = Collected([heap EXCEPT ![i] = made], i, at)
  /\ fresh' = TRUE /\ draft' = None
  /\ Goto(c, "land")
  /\ UNCHANGED <<table, flight, req>>

Served(c) == {d \in Clients : d = c \/ pc[d] = "wait"}

\* The call returns: its result is everyone's who waited ...
Land(c) ==
  /\ pc[c] = "land"
  /\ flight' = None
  /\ pc' = [d \in Clients |-> IF d \in Served(c) THEN "read" ELSE pc[d]]
  /\ at' = [d \in Clients |-> IF d \in Served(c) THEN at[c] ELSE at[d]]
  /\ UNCHANGED <<table, heap, entry, fresh, draft, req>>

\* Slip: the leader tries again, and again.
SlipFlightFails(c) ==
  /\ Faults /\ pc[c] = "list"
  /\ Goto(c, "recheck")
  /\ UNCHANGED <<table, library, at, req>>

\* ... and so is its error, that of a leader whose client hung up too.
FlightFails(c) ==
  /\ Faults /\ pc[c] = "list"
  /\ flight' = None
  /\ End(Served(c))
  /\ UNCHANGED <<table, heap, entry, fresh, draft, at>>

\* A map without the path yields the zero Resource.
Entry(files, p) == IF p \in DOMAIN files THEN files[p] ELSE [track |-> None, known |-> FALSE]

\* The maps of the snapshot are read: a listing, or one resource.
Read(c) ==
  /\ pc[c] = "read"
  /\ at' = [at EXCEPT ![c] = None]
  /\ heap' = Collected(heap, entry, [at EXCEPT ![c] = None])
  /\ LET r == Entry(heap[at[c]].files, req[c].path)
     IN  IF r.track = None \/ r.known
           THEN End({c})
           ELSE /\ req' = [req EXCEPT ![c].track = r.track]
                /\ Goto(c, "describe")
  /\ UNCHANGED <<table, entry, fresh, flight, draft>>

\* Head: the representation is resolved when the resource has none ...
Describe(c) ==
  /\ pc[c] = "describe"
  /\ Goto(c, "update")
  /\ UNCHANGED <<table, library, at, req>>

DescribeFails(c) ==
  /\ Faults /\ pc[c] = "describe"
  /\ End({c})
  /\ UNCHANGED <<table, library, at>>

\* ... and the resource put under its path in the entry of now, expired or not
\* (updateCachedResource).
Update(c) ==
  /\ pc[c] = "update"
  /\ LET p == req[c].path
     IN  heap' = IF entry # None /\ p \in DOMAIN heap[entry].files
                   THEN [heap EXCEPT ![entry].files[p] = [track |-> req[c].track, known |-> TRUE]]
                   ELSE heap
  /\ End({c})
  /\ UNCHANGED <<table, entry, fresh, flight, draft, at>>

---------------------------------------------------------------------------
(* Editors.                                                                *)

\* Add, Delete and Clear change the rows ...
Change ==
  /\ edits < MaxEdits
  /\ \E t \in Tracks : stored' \in {stored \cup {t}, stored \ {t}, {}}
  /\ edits' = edits + 1

Edit(c) ==
  /\ pc[c] = "idle"
  /\ Change
  /\ req' = [req EXCEPT ![c] = Asking(None, edits + 1)]
  /\ Goto(c, "invalidate")
  /\ UNCHANGED <<acked, library, at>>

\* ... or report an error, with or without having changed them.
EditFails(c) ==
  /\ Faults /\ pc[c] = "idle"
  /\ Change
  /\ UNCHANGED <<acked, library, pc, at, req>>

Answer(c, deleted) ==
  /\ pc[c] = "invalidate"
  /\ acked' = IF req[c].stamp > acked THEN req[c].stamp ELSE acked
  /\ draft' = IF draft = None THEN None ELSE [draft EXCEPT !.overtaken = TRUE]
  /\ LET landing == flight # None /\ pc[flight] = "land"
         marked == IF landing THEN [heap EXCEPT ![at[flight]].overtaken = TRUE] ELSE heap
     IN  /\ entry' = IF deleted THEN None ELSE entry
         /\ heap' = Collected(marked, IF deleted THEN None ELSE entry, at)
  /\ End({c})
  /\ UNCHANGED <<stored, edits, fresh, flight, at>>

\* Slip: another folder's entry is deleted.
SlipInvalidateSearch(c) == Answer(c, FALSE)

\* InvalidateSearch deletes the entry, and the edit is answered; a call under
\* way is not told.
InvalidateSearch(c) == Answer(c, TRUE)

Expire ==
  /\ fresh
  /\ fresh' = FALSE
  /\ UNCHANGED <<table, heap, entry, flight, draft, pc, at, req>>

---------------------------------------------------------------------------

Rebuild(c) == Recheck(c) \/ ListIdentities(c) \/ Store(c) \/ Land(c) \/ FlightFails(c)

Request(c) ==
  \/ Probe(c) \/ Join(c) \/ Rebuild(c) \/ Read(c)
  \/ Describe(c) \/ DescribeFails(c) \/ Update(c)
  \/ InvalidateSearch(c)

Next ==
  \/ \E c \in Clients :
       \/ \E p \in Paths \cup {None} : Begin(c, p)
       \/ Request(c) \/ Edit(c) \/ EditFails(c)
  \/ Expire

Spec == Init /\ [][Next]_vars

\* A rebuild under way goes on: the statement and the source's calls end, with
\* an error at the latest when the HTTP client's time is up.
Fairness == \A c \in Clients : WF_vars(Rebuild(c))

FairSpec == Spec /\ Fairness

---------------------------------------------------------------------------
(* Properties.                                                             *)

TypeOK ==
  /\ stored \subseteq Tracks /\ edits \in Nat /\ acked \in Nat
  /\ heap \in [Ids -> Snapshot \cup {None}]
  /\ entry \in Ids \cup {None} /\ fresh \in BOOLEAN
  /\ flight \in Clients \cup {None}
  /\ draft \in Draft \cup {None}
  /\ pc \in [Clients -> Stages]
  /\ at \in [Clients -> Ids \cup {None}]
  /\ req \in [Clients -> [path : Paths \cup {None}, track : Tracks \cup {None}, stamp : Nat]]

\* At most one request rebuilds the folder, and who waits, waits for it
\* (virtual.go:366-409; virtual_test.go:249-318).
OneRebuild ==
  \A c \in Clients :
    /\ pc[c] \in Leading <=> flight = c
    /\ pc[c] = "wait" => flight # None

\* A reader that begins after an edit was answered sees the folder without it
\* only if that edit's invalidation fell into a call that was rebuilding the
\* folder (virtual.go:366-409, 618-622): otherwise neither the entry nor a call
\* it joins is older than the edit.
StaleOnlyIfOvertaken ==
  \A c \in Clients : pc[c] = "read" =>
    heap[at[c]].asof >= req[c].stamp \/ heap[at[c]].overtaken

\* Whatever entries are replaced, expire or are deleted, a snapshot that may be
\* handed out or read is there; and each of its paths leads to a track of that name,
\* although updates put what was found in one snapshot into another, under the path
\* it had in the first (virtual.go:94-119, 567-584).
PathsLeadToTheirTitles ==
  /\ entry # None => heap[entry] # None
  /\ \A c \in Clients : pc[c] \in {"land", "read"} => at[c] # None /\ heap[at[c]] # None
  /\ \A i \in Ids : heap[i] # None =>
       \A p \in DOMAIN heap[i].files : Title(heap[i].files[p].track) = p.title

\* A request that waits for another's rebuild gets its snapshot or its error.
WaitersReturn == \A c \in Clients : pc[c] = "wait" ~> pc[c] # "wait"

---------------------------------------------------------------------------
(* What the code does not keep, see the README.                            *)

\* A reader that begins after an edit was answered sees it ("visible after a
\* refresh", search_page.go:20; REAL_DEVICE_TEST.md:14).
ListingCurrent ==
  \A c \in Clients : pc[c] = "read" => heap[at[c]].asof >= req[c].stamp

\* A path is only a view: no track of the folder is under two, and none has
\* lost its own to another (virtual.go:39-40, oneplayer-compatibility.md:13).
OnePathEach ==
  entry # None =>
    \A p, q \in DOMAIN heap[entry].files :
      heap[entry].files[p].track = heap[entry].files[q].track => p = q
===================================================================================
