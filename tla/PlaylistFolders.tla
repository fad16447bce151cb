------------------------------ MODULE PlaylistFolders ------------------------------
(***************************************************************************)
(* The folder of playlists and the folders in it: two levels of snapshots  *)
(* (playlistIndex, playlistSnapshot and the part of Stat and List that     *)
(* uses them, internal/library/virtual.go). The index knows the names of   *)
(* the folders and no playlists; which playlist a folder shows is found    *)
(* again, from the account as it is by then, by comparing names.           *)
(*                                                                         *)
(* A name is the sequence of the playlist's title and, for those after the *)
(* first of a title, its id. Titles that look like such names are left     *)
(* out: "X [2]" for a playlist, with two named "X", gives one path twice.  *)
(* What a snapshot says of its tracks is the matter of FolderNames and     *)
(* SearchFolder; here it says which playlist it was made from. Paths below *)
(* a folder are answered as the folder is.                                 *)
(***************************************************************************)
EXTENDS Naturals, Sequences, FiniteSets

CONSTANTS
  Clients,
  Ids,         \* of playlists
  Titles,
  Index,       \* the key of the index, "playlists"
  MaxChanges,  \* bound on the changes of the account
  Faults,      \* may the source fail, or the client of a rebuild hang up?
  None

ASSUME FoldersAssumption == MaxChanges \in Nat /\ Faults \in BOOLEAN /\ None \notin Ids

Playlist == [id : Ids, title : Titles]
Accounts ==
  {s \in UNION {[1..n -> Playlist] : n \in 0..Cardinality(Ids)} :
     \A i, j \in DOMAIN s : s[i].id = s[j].id => i = j}

Base(item) == <<item.title>>
Directories == {<<t>> : t \in Titles} \cup {<<t, i>> : t \in Titles, i \in Ids}
Keys == {Index} \cup Directories

ASSUME IndexAssumption == Index \notin Directories

VARIABLES
  account,  \* the playlists the source lists, in its order
  changes,
  entry,    \* the snapshots; one that has expired is as good as none
  flight,   \* the leader of each key's call, or None
  pc,
  req       \* a request, see Asking

library == <<entry, flight>>
world == <<account, changes>>
vars == <<world, library, pc, req>>

\* A snapshot: the folders it lists, if it is the index; the playlist it shows,
\* if it is a folder's; and, a ghost, how many changes the account had seen.
Made(D, p) == [lists |-> D, shows |-> p, asof |-> changes]

\* What a request is for: a folder, or the list of them (Index); the key it is
\* at; what it reads or hands on; a ghost, the changes its index had seen.
Asking(d) == [for |-> d, key |-> Index, snap |-> None, index |-> 0]

Init ==
  /\ account \in Accounts /\ changes = 0
  /\ entry = [k \in Keys |-> None]
  /\ flight = [k \in Keys |-> None]
  /\ pc = [c \in Clients |-> "idle"]
  /\ req = [c \in Clients |-> Asking(Index)]

---------------------------------------------------------------------------
(* Names.                                                                  *)

\* What used holds when it is s[i]'s turn.
Used(s, i) == {Base(s[j]) : j \in 1..(i - 1)}

\* uniqueDirectoryName: the first of a title has it to itself.
NameOf(s, i) == IF Base(s[i]) \in Used(s, i) THEN Append(Base(s[i]), s[i].id) ELSE Base(s[i])

Listed(s) == {NameOf(s, i) : i \in DOMAIN s}

First(s, I) == IF I = {} THEN None ELSE s[CHOOSE i \in I : \A j \in I : i <= j].id

\* Slip: titles are compared.
SlipResolve(s, d) == First(s, {i \in DOMAIN s : Base(s[i]) = <<d[1]>>})

\* Slip: the names in use are not remembered.
SlipResolveAlone(s, d) == First(s, {i \in DOMAIN s : Base(s[i]) = d})

\* The playlist of a directory: the first whose name is the directory's.
Resolve(s, d) == First(s, {i \in DOMAIN s : NameOf(s, i) = d})

---------------------------------------------------------------------------
(* Requests.                                                               *)

Goto(c, l) == pc' = [pc EXCEPT ![c] = l]
Set(c, r) == req' = [req EXCEPT ![c] = r]
Key(c) == req[c].key

Begin(c, d) ==
  /\ pc[c] = "idle"
  /\ Set(c, Asking(d)) /\ Goto(c, "probe")
  /\ UNCHANGED <<world, library>>

\* snapshot(key): an entry that has not expired.
Hit(c, then, else) ==
  IF entry[Key(c)] # None
    THEN Set(c, [req[c] EXCEPT !.snap = entry[Key(c)]]) /\ Goto(c, then)
    ELSE UNCHANGED req /\ Goto(c, else)

Probe(c) ==
  /\ pc[c] = "probe"
  /\ Hit(c, "read", "join")
  /\ UNCHANGED <<world, library>>

Lead(c) == flight' = [flight EXCEPT ![Key(c)] = c] /\ Goto(c, "recheck")

\* sf.Do: lead the key's call or wait for the one under way.
Join(c) ==
  /\ pc[c] = "join"
  /\ IF flight[Key(c)] = None THEN Lead(c) ELSE Goto(c, "wait") /\ UNCHANGED flight
  /\ UNCHANGED <<world, entry, req>>

Recheck(c) ==
  /\ pc[c] = "recheck"
  /\ Hit(c, "land", "list")
  /\ UNCHANGED <<world, library>>

Served(c) == {d \in Clients : d = c \/ (pc[d] = "wait" /\ Key(d) = Key(c))}

Abort(c, ds) ==
  /\ flight' = [flight EXCEPT ![Key(c)] = None]
  /\ pc' = [d \in Clients |-> IF d \in ds THEN "idle" ELSE pc[d]]
  /\ req' = [d \in Clients |-> IF d \in ds THEN Asking(Index) ELSE req[d]]
  /\ UNCHANGED <<world, entry>>

\* The source lists the account's playlists: those are the index, or the
\* folder's playlist is looked for among them. The name of one may have gone.
ListPlaylists(c) ==
  /\ pc[c] = "list"
  /\ IF Key(c) = Index
       THEN Set(c, [req[c] EXCEPT !.snap = Made(Listed(account), None)]) /\ Goto(c, "store")
       ELSE LET p == Resolve(account, Key(c))
            IN  /\ Set(c, [req[c] EXCEPT !.snap = Made({}, p)])
                /\ Goto(c, IF p = None THEN "missing" ELSE "tracks")
  /\ UNCHANGED <<world, library>>

\* Its tracks are asked for by its id.
Tracks(c) ==
  /\ pc[c] = "tracks"
  /\ \E i \in DOMAIN account : account[i].id = req[c].snap.shows
  /\ Goto(c, "store")
  /\ UNCHANGED <<world, library, req>>

\* The call's error is everyone's who waits for it. A playlist that is deleted
\* before its tracks are asked for is the source's error.
FlightFails(c) ==
  /\ pc[c] \in {"list", "tracks"}
  /\ Faults \/ (pc[c] = "tracks" /\ \A i \in DOMAIN account : account[i].id # req[c].snap.shows)
  /\ Abort(c, Served(c))

NotFound(c, ds) == pc[c] = "missing" /\ Abort(c, ds)

\* Slip: only the leader is told.
SlipMissing(c) == NotFound(c, {c})

\* ErrNotFound is an error of the call, too.
Missing(c) == NotFound(c, Served(c))

Store(c) ==
  /\ pc[c] = "store"
  /\ entry' = [entry EXCEPT ![Key(c)] = req[c].snap]
  /\ Goto(c, "land")
  /\ UNCHANGED <<world, flight, req>>

Land(c) ==
  /\ pc[c] = "land"
  /\ flight' = [flight EXCEPT ![Key(c)] = None]
  /\ pc' = [d \in Clients |-> IF d \in Served(c) THEN "read" ELSE pc[d]]
  /\ req' = [d \in Clients |->
               IF d \in Served(c) THEN [req[d] EXCEPT !.snap = req[c].snap] ELSE req[d]]
  /\ UNCHANGED <<world, entry>>

End(c) == Set(c, Asking(Index)) /\ Goto(c, "idle")

\* The index is read: its folders are the answer, or the one asked for is not
\* among them, or its own snapshot is needed next.
ReadIndex(c) ==
  /\ pc[c] = "read" /\ Key(c) = Index
  /\ LET r == req[c]
     IN  IF r.for = Index \/ r.for \notin r.snap.lists
         THEN End(c)
         ELSE /\ Set(c, [r EXCEPT !.key = r.for, !.index = r.snap.asof, !.snap = None])
              /\ Goto(c, "probe")
  /\ UNCHANGED <<world, library>>

ReadFolder(c) ==
  /\ pc[c] = "read" /\ Key(c) # Index
  /\ End(c)
  /\ UNCHANGED <<world, library>>

---------------------------------------------------------------------------
(* Around them.                                                            *)

\* Playlists are created, deleted, renamed or put in another order.
Change(s) ==
  /\ changes < MaxChanges /\ s # account
  /\ account' = s /\ changes' = changes + 1
  /\ UNCHANGED <<library, pc, req>>

Expire(k) ==
  /\ entry[k] # None
  /\ entry' = [entry EXCEPT ![k] = None]
  /\ UNCHANGED <<world, flight, pc, req>>

Rebuild(c) ==
  \/ Recheck(c) \/ ListPlaylists(c) \/ Tracks(c) \/ FlightFails(c) \/ Missing(c)
  \/ Store(c) \/ Land(c)

Request(c) == Probe(c) \/ Join(c) \/ Rebuild(c) \/ ReadIndex(c) \/ ReadFolder(c)

Next ==
  \/ \E c \in Clients : Request(c) \/ \E d \in Keys : Begin(c, d)
  \/ \E s \in Accounts : Change(s)
  \/ \E k \in Keys : Expire(k)

Spec == Init /\ [][Next]_vars

\* A handler goes on, and the source's calls end, with an error at the latest
\* when the HTTP client's time is up.
Fairness == \A c \in Clients : WF_vars(Request(c))

FairSpec == Spec /\ Fairness

---------------------------------------------------------------------------
(* Properties.                                                             *)

\* Folders made from the account as it was at one time show different playlists,
\* whatever their titles and however their rebuilds were shared (virtual.go:
\* 333-340, 634-643). Folders made at different times need not.
FoldersDiffer ==
  \A d, e \in Directories :
    d # e /\ entry[d] # None /\ entry[e] # None /\ entry[d].asof = entry[e].asof
      => entry[d].shows # entry[e].shows

\* A folder that the index lists is not found only if the account has changed
\* between the index and the call whose error that is, its own or another's that
\* it waited for: the names given to the index are found again (virtual.go:
\* 294-299, 333-343).
ListedIsFound ==
  \A c, d \in Clients :
    pc[c] = "missing" /\ d \in Served(c) => req[d].index # req[c].snap.asof

\* Every request is answered, those that wait for two rebuilds in turn as well.
RequestsReturn == \A c \in Clients : pc[c] # "idle" ~> pc[c] = "idle"
====================================================================================
