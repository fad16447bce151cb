------------------------------ MODULE FolderProofs ------------------------------
(***************************************************************************)
(* Proofs about the folders of the library: PlaylistFolders, for any       *)
(* number of clients, playlists and changes; FolderNames, for any tracks   *)
(* in any order; and FolderWalk, for any tree and any changes of it during *)
(* a walk.                                                                 *)
(***************************************************************************)
EXTENDS PlaylistFolders, FolderNames, FolderWalk, Inductions

---------------------------------------------------------------------------
(* PlaylistFolders. An index and what is found through it are made at      *)
(* different times, each from the account as it is then: the proofs give   *)
(* the account a past, and every snapshot a place in it.                   *)

Snap == [lists : SUBSET Directories, shows : Ids \cup {None}, asof : Nat]
Asker == [for : Keys, key : Keys, snap : Snap \cup {None}, index : Nat]
Holding == {"tracks", "store", "land", "read"}
Stages == Holding \cup {"idle", "probe", "join", "wait", "recheck", "list", "missing"}

Typed ==
  /\ account \in Accounts /\ changes \in Nat
  /\ entry \in [Keys -> Snap \cup {None}]
  /\ pc \in [Clients -> Stages]
  /\ req \in [Clients -> Asker]

\* If h gives the account after every change, of which there have been n: a
\* snapshot for key k says what the account was like when it was made.
Tells(h, n, k, s) ==
  /\ s \in Snap /\ s.asof <= n
  /\ IF k = Index THEN s.lists = Listed(h[s.asof]) ELSE s.shows = Resolve(h[s.asof], k)

\* A folder that is stored shows a playlist.
TellsAll(h, n, k, s) == Tells(h, n, k, s) /\ (k # Index => s.shows # None)

\* What a request at l holds, is at and has been through is true of the account.
TrueOf(h, n, l, r) ==
  /\ l \in Holding => TellsAll(h, n, r.key, r.snap)
  /\ l = "missing" => r.key # Index /\ Tells(h, n, r.key, r.snap) /\ r.snap.shows = None
  /\ r.key # Index => r.index <= n /\ r.key \in Listed(h[r.index])

History(h) ==
  /\ h \in [Nat -> Accounts] /\ h[changes] = account
  /\ \A k \in Keys : entry[k] # None => TellsAll(h, changes, k, entry[k])
  /\ \A c \in Clients : TrueOf(h, changes, pc[c], req[c])

\* The account has a past to which every snapshot, in the map or in a request's
\* hands, and the index a request has been through are true.
HistoryExists == \E h : History(h)

---------------------------------------------------------------------------
(* Names and playlists.                                                    *)

LEMMA AccountParts ==
  ASSUME NEW s \in Accounts
  PROVE  /\ DOMAIN s \subseteq Nat
         /\ \A i \in DOMAIN s : s[i] \in Playlist /\ s[i].id \in Ids /\ s[i].title \in Titles
         /\ \A i, j \in DOMAIN s : s[i].id = s[j].id => i = j
  BY DEF Accounts, Playlist

LEMMA SecondAppended == ASSUME NEW a, NEW b PROVE Append(<<a>>, b) = <<a, b>>
<1> DEFINE S == {a, b}
<1>1. /\ <<a>> \in Seq(S) /\ <<a, b>> \in Seq(S) /\ b \in S
      /\ Len(<<a>>) = 1 /\ Len(<<a, b>>) = 2 /\ <<a>>[1] = a /\ <<a, b>>[1] = a /\ <<a, b>>[2] = b
  OBVIOUS
<1> HIDE DEF S
<1>2. /\ Append(<<a>>, b) \in Seq(S) /\ Len(Append(<<a>>, b)) = 2
      /\ Append(<<a>>, b)[1] = a /\ Append(<<a>>, b)[2] = b
  BY <1>1, AppendProperties
<1>3. \A i \in 1 .. Len(Append(<<a>>, b)) : Append(<<a>>, b)[i] = <<a, b>>[i]
  BY <1>1, <1>2
<1> QED BY <1>1, <1>2, <1>3, SeqEqual

LEMMA ListedType ==
  ASSUME NEW s \in Accounts
  PROVE  Listed(s) \subseteq Directories
<1>1. ASSUME NEW i \in DOMAIN s PROVE NameOf(s, i) \in Directories
  <2>1. s[i].id \in Ids /\ s[i].title \in Titles
    BY AccountParts
  <2>2. Append(<<s[i].title>>, s[i].id) = <<s[i].title, s[i].id>>
    BY SecondAppended
  <2> QED BY <2>1, <2>2 DEF NameOf, Base, Directories
<1> QED BY <1>1 DEF Listed

\* The playlist found for a name has it.
LEMMA ResolveNames ==
  ASSUME NEW s \in Accounts, NEW d, {i \in DOMAIN s : NameOf(s, i) = d} # {}
  PROVE  \E i \in DOMAIN s : NameOf(s, i) = d /\ Resolve(s, d) = s[i].id
<1> DEFINE I == {i \in DOMAIN s : NameOf(s, i) = d}
           i == CHOOSE n \in I : \A m \in I : n <= m
<1>1. I \subseteq Nat
  BY AccountParts
<1>2. \E n \in I : \A m \in I : n <= m
  BY <1>1, Least
<1>3. i \in I
  BY <1>2
<1>4. Resolve(s, d) = s[i].id
  BY DEF Resolve, First
<1> QED BY <1>3, <1>4

LEMMA ResolveType ==
  ASSUME NEW s \in Accounts, NEW d
  PROVE  /\ Resolve(s, d) \in Ids \cup {None}
         /\ d \in Listed(s) => Resolve(s, d) # None
<1>1. CASE {i \in DOMAIN s : NameOf(s, i) = d} = {}
  BY <1>1 DEF Resolve, First, Listed
<1>2. CASE {i \in DOMAIN s : NameOf(s, i) = d} # {}
  BY <1>2, ResolveNames, AccountParts, FoldersAssumption
<1> QED BY <1>1, <1>2

\* Two names are not one playlist's.
LEMMA ResolveDiffers ==
  ASSUME NEW s \in Accounts, NEW d, NEW e, d # e, Resolve(s, d) # None
  PROVE  Resolve(s, d) # Resolve(s, e)
<1> SUFFICES ASSUME Resolve(s, d) = Resolve(s, e) PROVE FALSE
  OBVIOUS
<1>1. PICK i \in DOMAIN s : NameOf(s, i) = d /\ Resolve(s, d) = s[i].id
  <2>1. {i \in DOMAIN s : NameOf(s, i) = d} # {}
    BY DEF Resolve, First
  <2> QED BY <2>1, ResolveNames
<1>2. PICK j \in DOMAIN s : NameOf(s, j) = e /\ Resolve(s, e) = s[j].id
  <2>1. {j \in DOMAIN s : NameOf(s, j) = e} # {}
    BY DEF Resolve, First
  <2> QED BY <2>1, ResolveNames
<1>3. i = j
  BY <1>1, <1>2, AccountParts
<1> QED BY <1>1, <1>2, <1>3

---------------------------------------------------------------------------
(* Steps.                                                                  *)

LEMMA TypedInit == Init => Typed
  BY DEF Init, Typed, Asking, Asker, Stages, Keys

LEMMA HistoryInit == Init => HistoryExists
<1> SUFFICES ASSUME Init PROVE HistoryExists
  OBVIOUS
<1> DEFINE h == [n \in Nat |-> account]
<1>1. \A c \in Clients : TrueOf(h, changes, pc[c], req[c])
  BY DEF Init, Asking, TrueOf, Holding
<1>2. History(h)
  BY <1>1 DEF Init, History
<1> QED BY <1>2 DEF HistoryExists

\* A step that leaves the account alone, puts in the map what is true, and leaves
\* every request with what is true.
LEMMA HistoryKept ==
  ASSUME NEW h, History(h), UNCHANGED <<account, changes>>,
         \A k \in Keys : entry'[k] # None => entry'[k] = entry[k] \/ TellsAll(h, changes, k, entry'[k]),
         \A c \in Clients : \/ pc'[c] = pc[c] /\ req'[c] = req[c]
                            \/ TrueOf(h, changes, pc'[c], req'[c])
  PROVE  History(h)'
  BY DEF History

LEMMA Probing ==
  ASSUME NEW h, History(h), Typed, NEW c \in Clients, Probe(c) \/ Recheck(c)
  PROVE  Typed' /\ History(h)'
<1>1. pc \in [Clients -> Stages] /\ req \in [Clients -> Asker] /\ Key(c) \in Keys
  BY DEF Typed, Asker, Key
<1>2. CASE entry[Key(c)] # None
  <2> DEFINE r == [req[c] EXCEPT !.snap = entry[Key(c)]]
  <2>1. PICK l \in {"read", "land"} : pc' = [pc EXCEPT ![c] = l] /\ req' = [req EXCEPT ![c] = r]
    BY <1>2 DEF Probe, Recheck, Hit, Set, Goto
  <2>2. r \in Asker /\ r.key = Key(c) /\ r.index = req[c].index /\ r.snap = entry[Key(c)]
    BY <1>1 DEF Typed, Asker, Key
  <2>3. TrueOf(h, changes, l, r)
    BY <1>1, <1>2, <2>2 DEF History, TrueOf, Holding, Key
  <2>4. UNCHANGED <<account, changes, entry>>
    BY DEF Probe, Recheck, world, library
  <2>5. History(h)'
    BY <1>1, <2>1, <2>3, <2>4, HistoryKept
  <2> QED BY <1>1, <2>1, <2>2, <2>4, <2>5 DEF Typed, Stages, Holding
<1>3. CASE entry[Key(c)] = None
  <2>1. PICK l \in {"join", "list"} : pc' = [pc EXCEPT ![c] = l] /\ req' = req
    BY <1>3 DEF Probe, Recheck, Hit, Set, Goto
  <2>2. TrueOf(h, changes, l, req[c])
    BY <2>1 DEF History, TrueOf, Holding
  <2>3. UNCHANGED <<account, changes, entry>>
    BY DEF Probe, Recheck, world, library
  <2>4. History(h)'
    BY <1>1, <2>1, <2>2, <2>3, HistoryKept
  <2> QED BY <1>1, <2>1, <2>3, <2>4 DEF Typed, Stages, Holding
<1> QED BY <1>2, <1>3

LEMMA IndexListing ==
  ASSUME NEW h, History(h), Typed, NEW c \in Clients, ListPlaylists(c)
  PROVE  Typed' /\ History(h)'
<1>1. /\ pc \in [Clients -> Stages] /\ req \in [Clients -> Asker] /\ Key(c) \in Keys
      /\ account \in Accounts /\ changes \in Nat /\ h[changes] = account
  BY DEF Typed, Asker, Key, History
<1>2. UNCHANGED <<account, changes, entry>>
  BY DEF ListPlaylists, world, library
<1> DEFINE s == IF Key(c) = Index THEN Made(Listed(account), None)
                ELSE Made({}, Resolve(account, Key(c)))
           l == IF Key(c) = Index THEN "store"
                ELSE IF Resolve(account, Key(c)) = None THEN "missing" ELSE "tracks"
           r == [req[c] EXCEPT !.snap = s]
<1>3. pc' = [pc EXCEPT ![c] = l] /\ req' = [req EXCEPT ![c] = r]
  <2>1. CASE Key(c) = Index
    BY <2>1 DEF ListPlaylists, Set, Goto
  <2>2. CASE Key(c) # Index
    BY <2>2 DEF ListPlaylists, Set, Goto
  <2> QED BY <2>1, <2>2
<1>4. s \in Snap /\ s.asof = changes
  BY <1>1, <1>3, ListedType, ResolveType DEF Made, Snap
<1>5. r \in Asker /\ r.key = Key(c) /\ r.index = req[c].index /\ r.snap = s
  BY <1>1, <1>4 DEF Asker, Key
<1>6. Tells(h, changes, Key(c), s) /\ (l # "missing" => TellsAll(h, changes, Key(c), s))
  BY <1>1, <1>3, <1>4 DEF Tells, TellsAll, Made
<1>7. TrueOf(h, changes, l, r)
  <2>1. TrueOf(h, changes, pc[c], req[c])
    BY DEF History
  <2>2. l = "missing" => Key(c) # Index /\ s.shows = None
    BY <1>3 DEF Made
  <2> QED BY <1>5, <1>6, <2>1, <2>2 DEF TrueOf, Key, Holding
<1>8. History(h)'
  BY <1>1, <1>2, <1>3, <1>7, HistoryKept
<1> QED BY <1>1, <1>2, <1>3, <1>5, <1>8 DEF Typed, Stages, Holding

\* A request goes back to where it began.
LEMMA Aborting ==
  ASSUME NEW h, History(h), Typed, NEW c \in Clients, NEW ds, Abort(c, ds)
  PROVE  Typed' /\ History(h)'
<1>1. TrueOf(h, changes, "idle", Asking(Index)) /\ Asking(Index) \in Asker
  BY DEF TrueOf, Asking, Holding, Asker, Keys
<1>2. History(h)'
  BY <1>1, HistoryKept DEF Abort, world
<1> QED BY <1>1, <1>2 DEF Abort, world, Typed, Stages

\* A rebuild hands on what it holds, to the map and to those who wait.
LEMMA HandingOn ==
  ASSUME NEW h, History(h), Typed, NEW c \in Clients, Tracks(c) \/ Store(c) \/ Land(c)
  PROVE  Typed' /\ History(h)'
<1>1. /\ pc \in [Clients -> Stages] /\ req \in [Clients -> Asker] /\ Key(c) \in Keys
      /\ entry \in [Keys -> Snap \cup {None}] /\ UNCHANGED <<account, changes>>
  BY DEF Typed, Asker, Key, Tracks, Store, Land, world
<1>2. \A d \in Clients : TrueOf(h, changes, pc[d], req[d])
  BY DEF History
<1>3. TellsAll(h, changes, Key(c), req[c].snap) /\ req[c].snap \in Snap
  BY <1>2 DEF Tracks, Store, Land, TrueOf, Holding, Key, TellsAll, Tells
<1>4. CASE Tracks(c) \/ Store(c)
  <2>1. PICK l \in {"store", "land"} : pc' = [pc EXCEPT ![c] = l] /\ req' = req
    BY <1>4 DEF Tracks, Store, Goto
  <2>2. TrueOf(h, changes, l, req[c])
    BY <1>2, <1>3 DEF TrueOf, Holding, Key
  <2>3. entry' = entry \/ entry' = [entry EXCEPT ![Key(c)] = req[c].snap]
    BY <1>4 DEF Tracks, Store, library
  <2>4. History(h)'
    BY <1>1, <1>3, <2>1, <2>2, <2>3, HistoryKept
  <2>5. entry' \in [Keys -> Snap \cup {None}] /\ pc' \in [Clients -> Stages]
    BY <1>1, <1>3, <2>1, <2>3 DEF Stages, Holding
  <2> QED BY <1>1, <2>1, <2>4, <2>5 DEF Typed
<1>5. CASE Land(c)
  <2>1. /\ pc' = [d \in Clients |-> IF d \in Served(c) THEN "read" ELSE pc[d]]
        /\ req' = [d \in Clients |->
                     IF d \in Served(c) THEN [req[d] EXCEPT !.snap = req[c].snap] ELSE req[d]]
        /\ entry' = entry
    BY <1>5 DEF Land
  <2>2. ASSUME NEW d \in Served(c)
        PROVE  /\ TrueOf(h, changes, "read", [req[d] EXCEPT !.snap = req[c].snap])
               /\ [req[d] EXCEPT !.snap = req[c].snap] \in Asker
    <3>1. d \in Clients /\ Key(d) = Key(c)
      BY DEF Served
    <3> DEFINE r == [req[d] EXCEPT !.snap = req[c].snap]
    <3>2. r \in Asker /\ r.key = Key(c) /\ r.index = req[d].index /\ r.snap = req[c].snap
      BY <1>1, <1>3, <3>1 DEF Asker, Key
    <3> QED BY <1>2, <1>3, <3>1, <3>2 DEF TrueOf, Key, Holding
  <2>3. History(h)'
    BY <1>1, <2>1, <2>2, HistoryKept
  <2> QED BY <1>1, <2>1, <2>2, <2>3 DEF Typed, Stages, Holding
<1> QED BY <1>4, <1>5

\* A folder of an index that is true is one of its account's.
LEMMA Reading ==
  ASSUME NEW h, History(h), Typed, NEW c \in Clients, ReadIndex(c) \/ ReadFolder(c)
  PROVE  Typed' /\ History(h)'
<1>1. /\ pc \in [Clients -> Stages] /\ req \in [Clients -> Asker]
      /\ UNCHANGED <<account, changes, entry>>
  BY DEF Typed, ReadIndex, ReadFolder, world, library
<1>2. CASE End(c)
  <2>1. TrueOf(h, changes, "idle", Asking(Index)) /\ Asking(Index) \in Asker
    BY DEF TrueOf, Asking, Holding, Asker, Keys
  <2>2. History(h)'
    BY <1>1, <1>2, <2>1, HistoryKept DEF End, Set, Goto
  <2> QED BY <1>1, <1>2, <2>1, <2>2 DEF End, Set, Goto, Typed, Stages
<1>3. CASE ~End(c)
  <2> DEFINE r == [req[c] EXCEPT !.key = req[c].for, !.index = req[c].snap.asof, !.snap = None]
  <2>1. /\ ReadIndex(c) /\ pc[c] = "read" /\ Key(c) = Index
        /\ req[c].for # Index /\ req[c].for \in req[c].snap.lists
        /\ req' = [req EXCEPT ![c] = r] /\ pc' = [pc EXCEPT ![c] = "probe"]
    BY <1>3 DEF ReadIndex, ReadFolder, Set, Goto
  <2>2. TellsAll(h, changes, Index, req[c].snap)
    BY <2>1 DEF History, TrueOf, Holding, Key
  <2>3. /\ req[c].snap.asof \in Nat /\ req[c].snap.asof <= changes
        /\ req[c].for \in Listed(h[req[c].snap.asof])
    BY <2>1, <2>2 DEF TellsAll, Tells, Snap
  <2>4. r \in Asker /\ r.key = req[c].for /\ r.index = req[c].snap.asof
    BY <1>1, <2>3 DEF Asker
  <2>5. TrueOf(h, changes, "probe", r)
    BY <2>3, <2>4 DEF TrueOf, Holding
  <2>6. History(h)'
    BY <1>1, <2>1, <2>5, HistoryKept
  <2> QED BY <1>1, <2>1, <2>4, <2>6 DEF Typed, Stages
<1> QED BY <1>2, <1>3

\* The account changes: the past is longer.
LEMMA Changing ==
  ASSUME NEW h, History(h), Typed, NEW s \in Accounts, Change(s)
  PROVE  Typed' /\ HistoryExists'
<1>g. PICK g : g = [h EXCEPT ![changes + 1] = s]
  OBVIOUS
<1>1. /\ changes \in Nat /\ h \in [Nat -> Accounts]
      /\ changes' = changes + 1 /\ account' = s
      /\ UNCHANGED <<entry, pc, req>>
  BY DEF Typed, History, Change, library
<1>2. g \in [Nat -> Accounts] /\ g[changes + 1] = s /\ \A n \in Nat : n <= changes => g[n] = h[n]
  BY <1>1, <1>g
<1>3. \A k, t : /\ Tells(h, changes, k, t) => Tells(g, changes + 1, k, t)
                /\ TellsAll(h, changes, k, t) => TellsAll(g, changes + 1, k, t)
  BY <1>1, <1>2 DEF Tells, TellsAll, Snap
<1>4. \A c \in Clients : req[c].index \in Nat
  BY DEF Typed, Asker
<1>5. \A c \in Clients : TrueOf(g, changes + 1, pc[c], req[c])
  <2> SUFFICES ASSUME NEW c \in Clients PROVE TrueOf(g, changes + 1, pc[c], req[c])
    OBVIOUS
  <2>1. TrueOf(h, changes, pc[c], req[c])
    BY DEF History
  <2>2. req[c].index <= changes => req[c].index <= changes + 1 /\ g[req[c].index] = h[req[c].index]
    BY <1>1, <1>2, <1>4
  <2> QED BY <1>3, <2>1, <2>2 DEF TrueOf
<1>6. History(g)'
  <2>1. \A k \in Keys : entry'[k] # None => TellsAll(g, changes', k, entry'[k])
    BY <1>1, <1>3 DEF History
  <2>2. \A c \in Clients : TrueOf(g, changes', pc'[c], req'[c])
    BY <1>1, <1>5
  <2>3. g \in [Nat -> Accounts] /\ g[changes'] = account'
    BY <1>1, <1>2
  <2> QED BY <2>1, <2>2, <2>3 DEF History
<1> QED BY <1>1, <1>6 DEF Typed, HistoryExists

LEMMA HistoryStep == Typed /\ HistoryExists /\ [Next]_vars => Typed' /\ HistoryExists'
<1> SUFFICES ASSUME Typed, HistoryExists, [Next]_vars PROVE Typed' /\ HistoryExists'
  OBVIOUS
<1>1. PICK h : History(h)
  BY DEF HistoryExists
<1>2. ASSUME NEW c \in Clients, Request(c) PROVE Typed' /\ HistoryExists'
  <2>1. CASE Join(c)
    <3>1. PICK l \in {"recheck", "wait"} : pc' = [pc EXCEPT ![c] = l] /\ UNCHANGED <<account, changes, entry, req>>
      BY <2>1 DEF Join, Lead, Goto, world
    <3>2. TrueOf(h, changes, l, req[c])
      BY <1>1, <3>1 DEF History, TrueOf, Holding
    <3>3. History(h)'
      BY <1>1, <3>1, <3>2, HistoryKept DEF Typed
    <3> QED BY <3>1, <3>3 DEF Typed, HistoryExists, Stages
  <2>2. CASE FlightFails(c) \/ Missing(c)
    BY <1>1, <2>2, Aborting DEF FlightFails, Missing, NotFound, HistoryExists
  <2> QED BY <1>1, <1>2, <2>1, <2>2, Probing, IndexListing, HandingOn, Reading DEF Request, Rebuild, HistoryExists
<1>3. ASSUME NEW c \in Clients, NEW d \in Keys, Begin(c, d) PROVE Typed' /\ HistoryExists'
  <2>1. TrueOf(h, changes, "probe", Asking(d)) /\ Asking(d) \in Asker
    BY DEF TrueOf, Asking, Holding, Asker, Keys
  <2>2. /\ pc' = [pc EXCEPT ![c] = "probe"] /\ req' = [req EXCEPT ![c] = Asking(d)]
        /\ UNCHANGED <<account, changes, entry>>
    BY <1>3 DEF Begin, Set, Goto, world, library
  <2>3. History(h)'
    BY <1>1, <2>1, <2>2, HistoryKept DEF Typed
  <2> QED BY <2>1, <2>2, <2>3 DEF Typed, HistoryExists, Stages
<1>4. ASSUME NEW k \in Keys, Expire(k) PROVE Typed' /\ HistoryExists'
  <2>1. entry' = [entry EXCEPT ![k] = None] /\ UNCHANGED <<account, changes, pc, req>>
    BY <1>4 DEF Expire, world
  <2>2. History(h)'
    BY <1>1, <2>1, HistoryKept DEF Typed
  <2> QED BY <2>1, <2>2 DEF Typed, HistoryExists
<1>5. CASE UNCHANGED vars
  BY <1>1, <1>5 DEF vars, world, library, Typed, HistoryExists, History
<1> QED BY <1>1, <1>2, <1>3, <1>4, <1>5, Changing DEF Next

---------------------------------------------------------------------------
(* What follows.                                                           *)

\* Folders made from the account as it was at one time show different playlists
\* (virtual.go:333-340, 634-643): for any number of playlists, req and
\* changes of the account.
THEOREM FoldersAreDifferent == Spec => []FoldersDiffer
<1>1. HistoryExists => FoldersDiffer
  <2> SUFFICES ASSUME NEW h, History(h), NEW d \in Directories, NEW e \in Directories,
                      d # e, entry[d] # None, entry[e] # None, entry[d].asof = entry[e].asof
               PROVE  entry[d].shows # entry[e].shows
    BY DEF HistoryExists, FoldersDiffer
  <2>1. d \in Keys /\ e \in Keys /\ d # Index /\ e # Index
    BY IndexAssumption DEF Keys
  <2>2. TellsAll(h, changes, d, entry[d]) /\ TellsAll(h, changes, e, entry[e])
    BY <2>1 DEF History
  <2>3. h[entry[d].asof] \in Accounts
    BY <2>2 DEF TellsAll, Tells, Snap, History
  <2> QED BY <2>1, <2>2, <2>3, ResolveDiffers DEF TellsAll, Tells
<1> QED BY <1>1, TypedInit, HistoryInit, HistoryStep, PTL DEF Spec

\* A folder that an index listed is missing only to a call that was told of
\* another account (virtual.go:294-299, 333-343).
THEOREM ListedFoldersAreFound == Spec => []ListedIsFound
<1>1. Typed /\ HistoryExists => ListedIsFound
  <2> SUFFICES ASSUME Typed, NEW h, History(h), NEW c \in Clients, NEW d \in Clients,
                      pc[c] = "missing", d \in Served(c), req[d].index = req[c].snap.asof
               PROVE  FALSE
    BY DEF HistoryExists, ListedIsFound
  <2>1. Key(d) = Key(c)
    BY DEF Served
  <2>2. /\ Key(c) # Index /\ Tells(h, changes, Key(c), req[c].snap) /\ req[c].snap.shows = None
        /\ Key(d) \in Listed(h[req[d].index])
    BY <2>1 DEF History, TrueOf, Key
  <2>3. h[req[d].index] \in Accounts
    BY DEF Typed, Asker, History
  <2> QED BY <2>1, <2>2, <2>3, ResolveType DEF Tells
<1> QED BY <1>1, TypedInit, HistoryInit, HistoryStep, PTL DEF Spec

---------------------------------------------------------------------------
(* FolderNames: the order of identities.                                   *)

Fewer(ts, n) == {m \in DOMAIN ts : ts[m].id < ts[n].id}
Upto(ts, n) == {m \in DOMAIN ts : ts[m].id <= ts[n].id}

\* n has the identity that comes k-th.
Ranked(ts, k, n) == n \in DOMAIN ts /\ Cardinality(Fewer(ts, n)) < k /\ k <= Cardinality(Upto(ts, n))

\* What a provider returns: for each track its own data, however often it comes.
Returned(ts, N) ==
  /\ N \in Nat /\ ts \in [1..N -> Track]
  /\ \A i, j \in 1..N : ts[i].id = ts[j].id => ts[i] = ts[j]

LEMMA ReturnedTypes ==
  ASSUME NEW ts, NEW N, Returned(ts, N)
  PROVE  /\ DOMAIN ts = 1..N /\ N \in Nat /\ IsFiniteSet(1..N) /\ Cardinality(1..N) = N
         /\ \A i \in 1..N : ts[i] \in Track /\ ts[i].id \in Nat
         /\ \A i, j \in 1..N : ts[i].id = ts[j].id => ts[i] = ts[j]
<1>1. N \in Nat /\ ts \in [1..N -> Track] /\ \A i, j \in 1..N : ts[i].id = ts[j].id => ts[i] = ts[j]
  BY DEF Returned
<1>2. \A t \in Track : t.id \in Nat
  BY IdentitiesAssumption DEF Track
<1>3. IsFiniteSet(1..N) /\ Cardinality(1..N) = N
  BY <1>1, FS_Interval
<1> QED BY <1>1, <1>2, <1>3

LEMMA RanksCount ==
  ASSUME NEW ts, NEW N, Returned(ts, N), NEW n \in 1..N
  PROVE  /\ IsFiniteSet(Fewer(ts, n)) /\ IsFiniteSet(Upto(ts, n))
         /\ Cardinality(Fewer(ts, n)) \in Nat /\ Cardinality(Upto(ts, n)) \in Nat
         /\ Cardinality(Fewer(ts, n)) < Cardinality(Upto(ts, n)) /\ Cardinality(Upto(ts, n)) <= N
<1>1. /\ DOMAIN ts = 1..N /\ IsFiniteSet(1..N) /\ Cardinality(1..N) = N
      /\ \A i \in 1..N : ts[i].id \in Nat
  BY ReturnedTypes
<1>2. Fewer(ts, n) \subseteq Upto(ts, n) \ {n} /\ Upto(ts, n) \subseteq 1..N /\ n \in Upto(ts, n)
  BY <1>1 DEF Fewer, Upto
<1>3. IsFiniteSet(Upto(ts, n)) /\ Cardinality(Upto(ts, n)) \in Nat /\ Cardinality(Upto(ts, n)) <= N
  BY ONLY <1>1, <1>2, SubsetsCounted
<1>4. Fewer(ts, n) \in SUBSET Upto(ts, n) /\ Fewer(ts, n) # Upto(ts, n)
  BY <1>2
<1>5. /\ IsFiniteSet(Fewer(ts, n)) /\ Cardinality(Fewer(ts, n)) \in Nat
      /\ Cardinality(Fewer(ts, n)) < Cardinality(Upto(ts, n))
  BY ONLY <1>3, <1>4, FS_Subset, FS_CardinalityType
<1> QED BY <1>3, <1>5

LEMMA RanksAreIdentities ==
  ASSUME NEW ts, NEW N, Returned(ts, N), NEW k \in Nat, NEW n, Ranked(ts, k, n), NEW m, Ranked(ts, k, m)
  PROVE  ts[n] = ts[m]
<1>1. DOMAIN ts = 1..N /\ (\A i \in 1..N : ts[i].id \in Nat) /\ n \in 1..N /\ m \in 1..N
  BY ReturnedTypes DEF Ranked
<1>2. ASSUME NEW i \in 1..N, NEW j \in 1..N, ts[i].id < ts[j].id, Ranked(ts, k, i), Ranked(ts, k, j) PROVE FALSE
  <2>1. Upto(ts, i) \in SUBSET Fewer(ts, j)
    BY <1>1, <1>2 DEF Upto, Fewer
  <2>2. Cardinality(Upto(ts, i)) <= Cardinality(Fewer(ts, j))
    BY <2>1, RanksCount, SubsetsCounted
  <2>3. /\ Cardinality(Upto(ts, i)) \in Nat /\ Cardinality(Fewer(ts, j)) \in Nat
        /\ k <= Cardinality(Upto(ts, i)) /\ Cardinality(Fewer(ts, j)) < k
    BY <1>2, RanksCount DEF Ranked
  <2> QED BY ONLY <2>2, <2>3, k \in Nat
<1>3. ts[n].id = ts[m].id
  BY <1>1, <1>2
<1> QED BY <1>1, <1>3, ReturnedTypes

\* Of some of the tracks, one has the least identity, and one the greatest.
LEMMA Extremes ==
  ASSUME NEW ts, NEW N, Returned(ts, N), NEW T \in SUBSET (1..N), T # {}
  PROVE  /\ \E n \in T : \A m \in T : ts[n].id <= ts[m].id
         /\ \E n \in T : \A m \in T : ts[m].id <= ts[n].id
<1> DEFINE F == {ts[n].id : n \in T}
<1>0. \A n \in T : ts[n].id \in Nat
  BY ReturnedTypes
<1>1. F \subseteq Nat /\ F # {}
  BY ONLY <1>0, T # {}
<1>2. IsFiniteSet(F)
  <2>1. IsFiniteSet(T)
    BY ReturnedTypes, FS_Subset
  <2>2. [n \in T |-> ts[n].id] \in Surjection(T, F)
    BY DEF Surjection
  <2>3. PICK g : g \in Surjection(T, F)
    BY ONLY <2>2
  <2> HIDE DEF F
  <2> QED BY ONLY <2>1, <2>3, FS_Surjection
<1>3. \E y \in F : \A x \in F : y <= x
  BY ONLY <1>1, Least
<1>4. \E y \in F : \A x \in F : x <= y
  BY ONLY <1>1, <1>2, Greatest
<1> QED BY <1>3, <1>4

LEMMA RanksExist ==
  ASSUME NEW ts, NEW N, Returned(ts, N), NEW k \in 1..N
  PROVE  \E n : Ranked(ts, k, n)
<1>1. DOMAIN ts = 1..N /\ N \in Nat /\ Cardinality(1..N) = N /\ \A i \in 1..N : ts[i].id \in Nat
  BY ReturnedTypes
<1> DEFINE T == {n \in 1..N : k <= Cardinality(Upto(ts, n))}
<1>2. T # {}
  <2>1. PICK n \in 1..N : \A m \in 1..N : ts[m].id <= ts[n].id
    BY <1>1, Extremes
  <2>2. Upto(ts, n) = 1..N
    BY <1>1, <2>1 DEF Upto
  <2> QED BY <1>1, <2>2
<1>3. PICK n \in T : \A m \in T : ts[n].id <= ts[m].id
  BY <1>2, Extremes
<1>4. CASE Fewer(ts, n) = {}
  <2>1. Cardinality(Fewer(ts, n)) = 0
    BY <1>4, FS_EmptySet
  <2> QED BY <1>1, <2>1 DEF Ranked
<1>5. CASE Fewer(ts, n) # {}
  <2>1. Fewer(ts, n) \in SUBSET (1..N)
    BY <1>1 DEF Fewer
  <2>2. PICK m \in Fewer(ts, n) : \A i \in Fewer(ts, n) : ts[i].id <= ts[m].id
    BY <1>5, <2>1, Extremes
  <2>3. m \in 1..N /\ ts[m].id < ts[n].id
    BY <1>1 DEF Fewer
  <2>4. Upto(ts, m) = Fewer(ts, n)
    BY <1>1, <2>2, <2>3 DEF Upto, Fewer
  <2>5. m \notin T
    BY <1>1, <1>3, <2>3
  <2>6. Cardinality(Fewer(ts, n)) < k
    BY <2>3, <2>4, <2>5, RanksCount
  <2> QED BY <1>1, <2>6 DEF Ranked
<1> QED BY <1>4, <1>5

\* Each place of the sorted tracks has a track of theirs, and each track a place.
LEMMA SortedIs ==
  ASSUME NEW ts, NEW N, Returned(ts, N)
  PROVE  /\ Returned(Sorted(ts), N)
         /\ \A k \in 1..N : \E n : Ranked(ts, k, n) /\ Sorted(ts)[k] = ts[n]
         /\ \A n \in 1..N : \E k \in 1..N : Sorted(ts)[k] = ts[n]
<1>1. DOMAIN ts = 1..N /\ N \in Nat
  BY ReturnedTypes
<1>2. Sorted(ts) = [k \in 1..N |-> ts[CHOOSE n \in DOMAIN ts : Cardinality(Fewer(ts, n)) < k /\ k <= Cardinality(Upto(ts, n))]]
  BY <1>1 DEF Sorted, Fewer, Upto
<1>3. ASSUME NEW k \in 1..N PROVE \E n : Ranked(ts, k, n) /\ Sorted(ts)[k] = ts[n]
  <2>1. \E n \in DOMAIN ts : Cardinality(Fewer(ts, n)) < k /\ k <= Cardinality(Upto(ts, n))
    BY RanksExist DEF Ranked
  <2>2. PICK n : n = CHOOSE m \in DOMAIN ts : Cardinality(Fewer(ts, m)) < k /\ k <= Cardinality(Upto(ts, m))
    OBVIOUS
  <2>3. Ranked(ts, k, n)
    BY ONLY <2>1, <2>2, Zenon DEF Ranked
  <2>4. Sorted(ts)[k] = ts[n]
    BY <1>2, <2>2
  <2> QED BY <2>3, <2>4
<1>4. Returned(Sorted(ts), N)
  <2>1. \A k \in 1..N : \E n \in 1..N : Sorted(ts)[k] = ts[n]
    BY <1>1, <1>3 DEF Ranked
  <2>2. Sorted(ts) = [k \in 1..N |-> Sorted(ts)[k]]
    BY <1>2
  <2>3. PICK u : u = Sorted(ts)
    OBVIOUS
  <2>4. N \in Nat /\ ts \in [1..N -> Track] /\ \A i, j \in 1..N : ts[i].id = ts[j].id => ts[i] = ts[j]
    BY DEF Returned
  <2>5. u \in [1..N -> Track]
    BY ONLY <2>1, <2>2, <2>3, <2>4
  <2>6. \A i, j \in 1..N : u[i].id = u[j].id => u[i] = u[j]
    BY ONLY <2>1, <2>3, <2>4
  <2> QED BY ONLY <2>3, <2>4, <2>5, <2>6 DEF Returned
<1>5. ASSUME NEW n \in 1..N PROVE \E k \in 1..N : Sorted(ts)[k] = ts[n]
  <2>1. PICK k : k = Cardinality(Upto(ts, n))
    OBVIOUS
  <2>2. k \in 1..N /\ Ranked(ts, k, n)
    BY <1>1, <2>1, RanksCount DEF Ranked
  <2>3. PICK m : Ranked(ts, k, m) /\ Sorted(ts)[k] = ts[m]
    BY <1>3, <2>2
  <2>4. ts[m] = ts[n]
    BY <2>2, <2>3, RanksAreIdentities
  <2> QED BY <2>2, <2>3, <2>4
<1> QED BY <1>3, <1>4, <1>5

\* The order of the provider is not in it.
LEMMA SortedIgnores ==
  ASSUME NEW ts, NEW N, Returned(ts, N), NEW p \in Bijection(1..N, 1..N),
         NEW us, us = [n \in 1..N |-> ts[p[n]]]
  PROVE  Sorted(us) = Sorted(ts)
<1>1. /\ DOMAIN ts = 1..N /\ N \in Nat /\ IsFiniteSet(1..N)
      /\ (\A i \in 1..N : ts[i] \in Track /\ ts[i].id \in Nat)
      /\ \A i, j \in 1..N : ts[i].id = ts[j].id => ts[i] = ts[j]
  BY ReturnedTypes
<1>2. /\ p \in [1..N -> 1..N] /\ (\A i, j \in 1..N : p[i] = p[j] => i = j)
      /\ \A i \in 1..N : \E j \in 1..N : p[j] = i
  BY DEF Bijection, Injection, IsInjective, Surjection
<1>3. \A n \in 1..N : p[n] \in 1..N /\ us[n] = ts[p[n]]
  BY <1>2
<1>4. Returned(us, N)
  <2>1. us \in [1..N -> Track]
    BY <1>1, <1>3
  <2>2. \A i, j \in 1..N : us[i].id = us[j].id => us[i] = us[j]
    BY ONLY <1>1, <1>3
  <2> QED BY ONLY <1>1, <2>1, <2>2 DEF Returned
<1>5. ASSUME NEW A, A \subseteq 1..N, NEW B, B \subseteq 1..N, \A n \in 1..N : n \in A <=> p[n] \in B
      PROVE  Cardinality(A) = Cardinality(B)
  <2>1. [n \in A |-> p[n]] \in Bijection(A, B)
    <3>1. PICK g : g = [n \in A |-> p[n]]
      OBVIOUS
    <3>2. g \in [A -> B] /\ \A n \in A : g[n] = p[n] /\ n \in 1..N
      BY ONLY <3>1, <1>5
    <3>3. \A i, j \in A : g[i] = g[j] => i = j
      BY ONLY <1>2, <3>2
    <3>4. \A b \in B : \E a \in A : g[a] = b
      <4> SUFFICES ASSUME NEW b \in B PROVE \E a \in A : g[a] = b
        OBVIOUS
      <4>1. PICK a \in 1..N : p[a] = b
        BY ONLY <1>2, <1>5, b \in B
      <4>2. a \in A
        BY ONLY <1>5, <4>1, b \in B
      <4> QED BY ONLY <3>2, <4>1, <4>2
    <3>5. DOMAIN g = A
      BY ONLY <3>2
    <3> QED BY ONLY <3>1, <3>2, <3>3, <3>4, <3>5 DEF Bijection, Injection, IsInjective, Surjection
  <2>2. ExistsBijection(A, B)
    BY ONLY <2>1 DEF ExistsBijection
  <2>3. IsFiniteSet(A)
    BY <1>1, <1>5, FS_Subset
  <2> QED BY ONLY <2>2, <2>3, FS_Bijection
<1>6. ASSUME NEW k \in 1..N, NEW n, Ranked(us, k, n) PROVE Ranked(ts, k, p[n])
  <2>1. DOMAIN us = 1..N /\ n \in 1..N /\ p[n] \in 1..N
    BY <1>3, <1>6 DEF Ranked
  <2>2. Cardinality(Fewer(us, n)) = Cardinality(Fewer(ts, p[n]))
    BY <1>1, <1>3, <1>5, <2>1 DEF Fewer
  <2>3. Cardinality(Upto(us, n)) = Cardinality(Upto(ts, p[n]))
    BY <1>1, <1>3, <1>5, <2>1 DEF Upto
  <2> QED BY <1>1, <1>6, <2>1, <2>2, <2>3 DEF Ranked
<1>7. ASSUME NEW k \in 1..N PROVE Sorted(us)[k] = Sorted(ts)[k]
  <2>1. PICK n : Ranked(us, k, n) /\ Sorted(us)[k] = us[n]
    BY ONLY <1>4, SortedIs, k \in 1..N
  <2>2. PICK m : Ranked(ts, k, m) /\ Sorted(ts)[k] = ts[m]
    BY ONLY Returned(ts, N), SortedIs, k \in 1..N
  <2>3. Ranked(ts, k, p[n]) /\ n \in 1..N /\ k \in Nat
    BY <1>3, <1>6, <2>1 DEF Ranked
  <2>4. ts[p[n]] = ts[m]
    BY ONLY <2>2, <2>3, RanksAreIdentities, Returned(ts, N)
  <2> QED BY <1>3, <2>1, <2>2, <2>3, <2>4
<1>8. Sorted(us) \in [1..N -> Track] /\ Sorted(ts) \in [1..N -> Track]
  <2>1. Returned(Sorted(us), N) /\ Returned(Sorted(ts), N)
    BY <1>4, SortedIs
  <2> QED BY ONLY <2>1 DEF Returned
<1>9. PICK u, w : u = Sorted(us) /\ w = Sorted(ts)
  OBVIOUS
<1>10. u \in [1..N -> Track] /\ w \in [1..N -> Track] /\ \A k \in 1..N : u[k] = w[k]
  BY ONLY <1>7, <1>8, <1>9
<1>11. u = [k \in 1..N |-> u[k]] /\ w = [k \in 1..N |-> w[k]] /\ \A k \in 1..N : u[k] = w[k]
  BY ONLY <1>10
<1>12. u = w
  BY ONLY <1>11, Zenon
<1> QED BY ONLY <1>9, <1>12

---------------------------------------------------------------------------
(* Names.                                                                  *)

Taken(g, ts, n) == \E i \in 1..(n - 1) : g[i] = AudioFilename(ts[n])
Named(g, ts, n) ==
  IF Taken(g, ts, n) THEN CollisionFilename(AudioFilename(ts[n]), ts[n]) ELSE AudioFilename(ts[n])
Names(g, ts, n) == g = [m \in 1..n |-> Named(g, ts, m)]

LEMMA NamingExists ==
  ASSUME NEW ts, NEW N \in Nat
  PROVE  \E g : Names(g, ts, N)
<1> DEFINE K == {k \in Nat : \E g : Names(g, ts, k)}
<1>1. 0 \in K
  <2>1. Names([n \in 1..0 |-> 0], ts, 0)
    BY DEF Names
  <2> QED BY <2>1
<1>2. ASSUME NEW k \in Nat, k \in K PROVE k + 1 \in K
  <2>1. PICK g : Names(g, ts, k)
    BY <1>2
  <2>2. PICK h : h = [n \in 1..(k + 1) |-> Named(g, ts, n)]
    OBVIOUS
  <2>3. \A n \in 1..k : n \in 1..(k + 1) /\ h[n] = g[n]
    BY <2>1, <2>2 DEF Names
  <2>4. ASSUME NEW n \in 1..(k + 1) PROVE Named(g, ts, n) = Named(h, ts, n)
    <3>1. \A i \in 1..(n - 1) : i \in 1..k
      OBVIOUS
    <3>2. \A i \in 1..(n - 1) : g[i] = h[i]
      BY <2>3, <3>1
    <3>3. Taken(g, ts, n) = Taken(h, ts, n)
      BY ONLY <3>2, Zenon DEF Taken
    <3> QED BY ONLY <3>3, Zenon DEF Named
  <2>5. h = [n \in 1..(k + 1) |-> Named(h, ts, n)]
    BY ONLY <2>2, <2>4
  <2>6. Names(h, ts, k + 1)
    BY ONLY <2>5, Zenon DEF Names
  <2> QED BY <2>6
<1> HIDE DEF K
<1>3. Nat \subseteq K
  BY <1>1, <1>2, CountingUp
<1>4. N \in K
  BY <1>3
<1> QED BY <1>4 DEF K

LEMMA AudioNamesAre ==
  ASSUME NEW ts, NEW N \in Nat, DOMAIN ts = 1..N
  PROVE  Names(AudioNames(ts), ts, N)
<1>1. PICK g : g = CHOOSE h : h = [n \in DOMAIN ts |->
                 LET plain == AudioFilename(ts[n])
                 IN  IF \E i \in 1..(n - 1) : h[i] = plain THEN CollisionFilename(plain, ts[n]) ELSE plain]
  OBVIOUS
<1>2. g = CHOOSE h : Names(h, ts, N)
  BY ONLY <1>1, DOMAIN ts = 1..N, Zenon DEF Names, Named, Taken
<1>3. Names(g, ts, N)
  BY <1>2, NamingExists
<1>4. AudioNames(ts) = g
  BY ONLY <1>1, Zenon DEF AudioNames
<1> QED BY <1>3, <1>4

LEMMA AppendPairs ==
  ASSUME NEW x, NEW y
  PROVE  Append(<<x>>, y) = <<x, y>>
<1> DEFINE S == {x, y}
<1>1. <<x>> \in Seq(S) /\ y \in S /\ Len(<<x>>) = 1
  OBVIOUS
<1>2. PICK s, t : s = Append(<<x>>, y) /\ t = <<x, y>>
  OBVIOUS
<1>3. s \in Seq(S) /\ Len(s) = 2 /\ s[1] = x /\ s[2] = y
  BY <1>1, <1>2, AppendProperties
<1>4. t \in Seq(S) /\ Len(t) = 2 /\ t[1] = x /\ t[2] = y
  BY <1>1, <1>2
<1>5. s = t
  BY <1>3, <1>4, SeqEqual
<1> QED BY <1>2, <1>5

\* No two tracks have one audio name.
LEMMA NamesDiffer ==
  ASSUME NEW ts, NEW N, Returned(ts, N)
  PROVE  /\ DOMAIN AudioNames(ts) = 1..N
         /\ \A n \in 1..N : /\ AudioNames(ts)[n].ext = Extension(ts[n])
                            /\ AudioNames(ts)[n] = Name(AudioNames(ts)[n].base, AudioNames(ts)[n].ext)
         /\ \A i, j \in 1..N : AudioNames(ts)[i] = AudioNames(ts)[j] => ts[i] = ts[j]
<1>1. /\ DOMAIN ts = 1..N /\ N \in Nat
      /\ \A i, j \in 1..N : ts[i].id = ts[j].id => ts[i] = ts[j]
  BY ReturnedTypes
<1>2. PICK g : g = AudioNames(ts)
  OBVIOUS
<1>3. g = [n \in 1..N |-> Named(g, ts, n)]
  BY <1>1, <1>2, AudioNamesAre DEF Names
<1>4. DOMAIN g = 1..N /\ \A n \in 1..N : g[n] = Named(g, ts, n)
  BY ONLY <1>3
<1>5. ASSUME NEW n \in 1..N
      PROVE  /\ Taken(g, ts, n) => g[n] = Name(<<ts[n].title, ts[n].id>>, Extension(ts[n]))
             /\ ~Taken(g, ts, n) => g[n] = Name(<<ts[n].title>>, Extension(ts[n]))
  <2>1. Append(<<ts[n].title>>, ts[n].id) = <<ts[n].title, ts[n].id>>
    BY AppendPairs
  <2>2. AudioFilename(ts[n]) = Name(<<ts[n].title>>, Extension(ts[n]))
    BY ONLY DEF AudioFilename
  <2>3. AudioFilename(ts[n]).base = <<ts[n].title>> /\ AudioFilename(ts[n]).ext = Extension(ts[n])
    BY ONLY <2>2 DEF Name
  <2>4. CollisionFilename(AudioFilename(ts[n]), ts[n]) = Name(<<ts[n].title, ts[n].id>>, Extension(ts[n]))
    BY ONLY <2>1, <2>3, Zenon DEF CollisionFilename
  <2>5. g[n] = Named(g, ts, n)
    BY <1>4
  <2> QED BY ONLY <2>2, <2>4, <2>5, Zenon DEF Named
<1>9. ASSUME NEW n \in 1..N
      PROVE  /\ Taken(g, ts, n) => g[n].base = <<ts[n].title, ts[n].id>>
             /\ ~Taken(g, ts, n) => g[n].base = <<ts[n].title>>
  <2>1. CASE Taken(g, ts, n)
    <3>1. g[n] = Name(<<ts[n].title, ts[n].id>>, Extension(ts[n]))
      BY <1>5, <2>1
    <3> QED BY ONLY <2>1, <3>1 DEF Name
  <2>2. CASE ~Taken(g, ts, n)
    <3>1. g[n] = Name(<<ts[n].title>>, Extension(ts[n]))
      BY <1>5, <2>2
    <3> QED BY ONLY <2>2, <3>1 DEF Name
  <2> QED BY <2>1, <2>2
<1>6. \A i, j \in 1..N : i < j /\ g[i] = g[j] => ts[i] = ts[j]
  <2> SUFFICES ASSUME NEW i \in 1..N, NEW j \in 1..N, i < j, g[i] = g[j] PROVE ts[i] = ts[j]
    OBVIOUS
  <2>2. CASE Taken(g, ts, j) /\ Taken(g, ts, i)
    <3>1. <<ts[i].title, ts[i].id>> = <<ts[j].title, ts[j].id>>
      BY ONLY <1>9, <2>2, g[i] = g[j], i \in 1..N, j \in 1..N
    <3>2. ts[i].id = ts[j].id
      BY ONLY <3>1
    <3> QED BY <1>1, <3>2
  <2>3. CASE Taken(g, ts, j) /\ ~Taken(g, ts, i)
    <3>1. <<ts[i].title>> = <<ts[j].title, ts[j].id>>
      BY ONLY <1>9, <2>3, g[i] = g[j], i \in 1..N, j \in 1..N
    <3> QED BY ONLY <3>1
  <2>4. CASE ~Taken(g, ts, j)
    <3>1. g[i] = AudioFilename(ts[j])
      BY <1>4, <2>4 DEF Named
    <3>2. i \in 1..(j - 1)
      OBVIOUS
    <3> QED BY <2>4, <3>1, <3>2 DEF Taken
  <2> QED BY <2>2, <2>3, <2>4
<1>7. \A i, j \in 1..N : g[i] = g[j] => ts[i] = ts[j]
  <2> SUFFICES ASSUME NEW i \in 1..N, NEW j \in 1..N, g[i] = g[j] PROVE ts[i] = ts[j]
    OBVIOUS
  <2>1. i < j \/ j < i \/ i = j
    OBVIOUS
  <2> QED BY <1>6, <2>1
<1>8. \A n \in 1..N : g[n].ext = Extension(ts[n]) /\ g[n] = Name(g[n].base, g[n].ext)
  <2> SUFFICES ASSUME NEW n \in 1..N
               PROVE  g[n].ext = Extension(ts[n]) /\ g[n] = Name(g[n].base, g[n].ext)
    OBVIOUS
  <2>1. PICK b : g[n] = Name(b, Extension(ts[n]))
    BY <1>5
  <2> QED BY ONLY <2>1 DEF Name
<1> QED BY <1>2, <1>4, <1>7, <1>8

---------------------------------------------------------------------------
(* Files.                                                                  *)

Owners(ts, p) == {n \in DOMAIN ts : p \in FilesOf(AudioNames(ts)[n])}

\* Who shares a file has one base; no two tracks share an audio file.
LEMMA OneOwner ==
  ASSUME NEW ts, NEW N, Returned(ts, N), NEW p, NEW i \in Owners(ts, p), NEW j \in Owners(ts, p)
  PROVE  /\ AudioNames(ts)[i].base = p.base
         /\ AudioNames(ts)[i] = AudioNames(ts)[j] => ts[i] = ts[j]
         /\ p.ext \notin {"lrc", "jpg"} => p = AudioNames(ts)[i] /\ ts[i] = ts[j]
<1>1. DOMAIN ts = 1..N
  BY ReturnedTypes
<1>2. PICK g : g = AudioNames(ts)
  OBVIOUS
<1>3. i \in 1..N /\ j \in 1..N /\ p \in FilesOf(g[i]) /\ p \in FilesOf(g[j])
  BY <1>1, <1>2 DEF Owners
<1>4. p.base = g[i].base
  BY ONLY <1>3 DEF FilesOf, LyricsFilename, CoverFilename, Name
<1>5. p.ext \notin {"lrc", "jpg"} => p = g[i] /\ p = g[j]
  BY ONLY <1>3 DEF FilesOf, LyricsFilename, CoverFilename, Name
<1> QED BY <1>2, <1>3, <1>4, <1>5, NamesDiffer

\* What is found under a path: a track it belongs to, and the first where it
\* belongs to none.
LEMMA ResourcesAre ==
  ASSUME NEW ts, NEW N, Returned(ts, N), ts # <<>>
  PROVE  /\ DOMAIN Resources(ts) = Paths(AudioNames(ts))
         /\ \A p \in Paths(AudioNames(ts)) :
              Owners(ts, p) # {} => \E n \in Owners(ts, p) : Resources(ts)[p] = ts[n]
         /\ \A p \in Paths(AudioNames(ts)) : Owners(ts, p) = {} => Resources(ts)[p] = ts[1]
<1>1. Resources(ts) = [p \in Paths(AudioNames(ts)) |->
         ts[IF Owners(ts, p) = {} THEN 1 ELSE CHOOSE n \in Owners(ts, p) : \A m \in Owners(ts, p) : m <= n]]
  BY DEF Resources, Owners
<1>2. ASSUME NEW p \in Paths(AudioNames(ts)), Owners(ts, p) # {}
      PROVE  \E n \in Owners(ts, p) : Resources(ts)[p] = ts[n]
  <2>1. Owners(ts, p) \in SUBSET (1..N) /\ IsFiniteSet(1..N)
    BY ReturnedTypes DEF Owners
  <2>2. IsFiniteSet(Owners(ts, p)) /\ Owners(ts, p) \subseteq Nat
    <3>1. IsFiniteSet(Owners(ts, p))
      BY ONLY <2>1, FS_Subset
    <3>2. 1..N \subseteq Nat
      OBVIOUS
    <3> QED BY ONLY <2>1, <3>1, <3>2
  <2>3. \E k \in Owners(ts, p) : \A m \in Owners(ts, p) : m <= k
    BY <1>2, <2>2, Greatest
  <2>4. PICK k : k = CHOOSE i \in Owners(ts, p) : \A m \in Owners(ts, p) : m <= i
    OBVIOUS
  <2>5. k \in Owners(ts, p)
    BY ONLY <2>3, <2>4, Zenon
  <2>6. Resources(ts)[p] = ts[k]
    BY <1>1, <1>2, <2>4
  <2> QED BY <2>5, <2>6
<1> QED BY <1>1, <1>2

LEMMA NoFiles == Resources(<<>>) = <<>> /\ Listing(<<>>) = {} /\ DOMAIN <<>> = {}
BY DEF Resources, Listing

LEMMA PathsAre ==
  ASSUME NEW g, NEW N, DOMAIN g = 1..N
  PROVE  \A p : p \in Paths(g) <=> (\E n \in 1..N : p \in FilesOf(g[n])) \/ p \in FolderCovers
<1> SUFFICES ASSUME NEW p PROVE p \in Paths(g) <=> (\E n \in 1..N : p \in FilesOf(g[n])) \/ p \in FolderCovers
  OBVIOUS
<1> QED BY ONLY DOMAIN g = 1..N DEF Paths

\* A file that is neither lyrics nor cover is the audio of a track.
LEMMA AudioIsNamed ==
  ASSUME NEW ts, NEW N, Returned(ts, N), NEW p \in Paths(AudioNames(ts)), p.ext \notin {"lrc", "jpg"}
  PROVE  \E n \in 1..N : p = AudioNames(ts)[n]
<1>1. PICK g : g = AudioNames(ts)
  OBVIOUS
<1>2. DOMAIN g = 1..N
  BY <1>1, NamesDiffer
<1>3. \A b : Name(b, "lrc").ext = "lrc" /\ Name(b, "jpg").ext = "jpg"
  BY ONLY DEF Name
<1>4. p \notin FolderCovers
  BY <1>3 DEF FolderCovers
<1>5. PICK n \in 1..N : p \in FilesOf(g[n])
  BY <1>1, <1>2, <1>4, PathsAre
<1>6. p # LyricsFilename(g[n]) /\ p # CoverFilename(g[n])
  BY <1>3 DEF LyricsFilename, CoverFilename
<1> QED BY <1>1, <1>5, <1>6 DEF FilesOf

LEMMA FilesAre ==
  ASSUME NEW ts, NEW N, Returned(ts, N), NEW n \in 1..N
  PROVE  \A p \in FilesOf(AudioNames(ts)[n]) : p \in Paths(AudioNames(ts)) /\ n \in Owners(ts, p)
BY ReturnedTypes, NamesDiffer DEF Paths, Owners

\* The audio file of a track is found under its name, and is no other's.
LEMMA AudioFound ==
  ASSUME NEW ts, NEW N, Returned(ts, N), ts # <<>>, NEW n \in 1..N
  PROVE  /\ AudioNames(ts)[n] \in DOMAIN Resources(ts)
         /\ AudioNames(ts)[n].ext \notin {"lrc", "jpg"}
         /\ Resources(ts)[AudioNames(ts)[n]] = ts[n]
<1>1. PICK p : p = AudioNames(ts)[n]
  OBVIOUS
<1>2. p.ext \notin {"lrc", "jpg"}
  <2>1. ts[n].estimate \in Estimates \cup {Unknown}
    BY DEF Returned, Track
  <2>2. Extension(ts[n]) \in Estimates \cup {"mp3", "flac"}
    BY <2>1 DEF Extension
  <2> QED BY <1>1, <2>2, NamesDiffer, QualityAssumption
<1>3. p \in Paths(AudioNames(ts)) /\ n \in Owners(ts, p)
  BY <1>1, FilesAre DEF FilesOf
<1>4. PICK k \in Owners(ts, p) : Resources(ts)[p] = ts[k]
  BY <1>3, ResourcesAre
<1>5. ts[k] = ts[n]
  <2>1. \A i, j \in Owners(ts, p) :
          p.ext \notin {"lrc", "jpg"} => p = AudioNames(ts)[i] /\ ts[i] = ts[j]
    BY OneOwner
  <2> QED BY <1>2, <1>3, <1>4, <2>1
<1> QED BY <1>1, <1>2, <1>3, <1>4, <1>5, ResourcesAre

\* What is found under a file of a track is that of a track of its base.
LEMMA SharedByBase ==
  ASSUME NEW ts, NEW N, Returned(ts, N), ts # <<>>,
         NEW f \in Paths(AudioNames(ts)), NEW n \in Owners(ts, f)
  PROVE  \E k \in 1..N : /\ AudioNames(ts)[k].base = f.base
                         /\ Resources(ts)[f] = ts[k]
                         /\ Resources(ts)[AudioNames(ts)[k]] = ts[k]
<1>1. PICK k \in Owners(ts, f) : Resources(ts)[f] = ts[k]
  BY ResourcesAre
<1>2. k \in 1..N
  BY ReturnedTypes DEF Owners
<1> QED BY <1>1, <1>2, AudioFound, OneOwner

\* A listing shows what is found, or what another audio name of its base leads to.
LEMMA ListingIs ==
  ASSUME NEW ts, NEW N, Returned(ts, N), ts # <<>>
  PROVE  /\ {c[1] : c \in Listing(ts)} = DOMAIN Resources(ts)
         /\ \A c \in Listing(ts) :
              \/ Resources(ts)[c[1]] = c[2]
              \/ /\ c[1].ext \in {"lrc", "jpg"}
                 /\ \E i, j \in 1..N : /\ AudioNames(ts)[i].base = c[1].base
                                       /\ AudioNames(ts)[j].base = c[1].base
                                       /\ ts[i] = c[2] /\ ts[j] = Resources(ts)[c[1]]
<1>1. PICK g : g = AudioNames(ts)
  OBVIOUS
<1>2. DOMAIN g = 1..N /\ DOMAIN ts = 1..N
  BY <1>1, NamesDiffer, ReturnedTypes
<1>3. \A p : Owners(ts, p) = {} <=> \A n \in 1..N : p \notin FilesOf(g[n])
  BY <1>1, <1>2 DEF Owners
<1>4. \A c \in Listing(ts) :
        \/ \E n \in 1..N : \E p \in FilesOf(g[n]) : c = <<p, ts[n]>>
        \/ \E p \in FolderCovers : Owners(ts, p) = {} /\ c = <<p, ts[1]>>
  BY <1>1, <1>2, <1>3 DEF Listing
<1>5. /\ \A n \in 1..N : \A p \in FilesOf(g[n]) : <<p, ts[n]>> \in Listing(ts)
      /\ \A p \in FolderCovers : Owners(ts, p) = {} => <<p, ts[1]>> \in Listing(ts)
  BY <1>1, <1>2, <1>3 DEF Listing
<1>6. /\ \A n \in 1..N : \A p \in FilesOf(g[n]) : p \in Paths(g) /\ n \in Owners(ts, p)
      /\ FolderCovers \subseteq Paths(g)
  BY <1>1, <1>2, FilesAre, PathsAre
<1>7. /\ DOMAIN Resources(ts) = Paths(g)
      /\ \A p \in Paths(g) : Owners(ts, p) = {} => Resources(ts)[p] = ts[1]
  BY <1>1, ResourcesAre
<1>8. ASSUME NEW c \in Listing(ts)
      PROVE  /\ c[1] \in Paths(g)
             /\ \/ Resources(ts)[c[1]] = c[2]
                \/ /\ c[1].ext \in {"lrc", "jpg"}
                   /\ \E i, j \in 1..N : /\ g[i].base = c[1].base /\ g[j].base = c[1].base
                                         /\ ts[i] = c[2] /\ ts[j] = Resources(ts)[c[1]]
  <2>1. CASE \E n \in 1..N : \E p \in FilesOf(g[n]) : c = <<p, ts[n]>>
    <3>0. PICK n \in 1..N : \E p \in FilesOf(g[n]) : c = <<p, ts[n]>>
      BY <2>1
    <3>1. PICK p \in FilesOf(g[n]) : c = <<p, ts[n]>>
      BY <3>0
    <3>2. p \in Paths(g) /\ n \in Owners(ts, p) /\ c[1] = p /\ c[2] = ts[n]
      BY <1>6, <3>1
    <3>3. PICK k \in 1..N : g[k].base = p.base /\ Resources(ts)[p] = ts[k]
      BY <1>1, <3>2, SharedByBase
    <3>4. g[n].base = p.base
      BY <1>1, <3>2, OneOwner
    <3>5. ASSUME p.ext \notin {"lrc", "jpg"} PROVE Resources(ts)[p] = ts[n]
      <4>1. p = g[n]
        BY <1>1, <3>2, <3>5, OneOwner
      <4> QED BY <1>1, <4>1, AudioFound
    <3> QED BY <3>2, <3>3, <3>4, <3>5
  <2>2. CASE \E p \in FolderCovers : Owners(ts, p) = {} /\ c = <<p, ts[1]>>
    BY <1>6, <1>7, <2>2
  <2> QED BY <1>4, <2>1, <2>2
<1>9. ASSUME NEW p \in Paths(g) PROVE \E c \in Listing(ts) : c[1] = p
  <2>1. CASE \E n \in 1..N : p \in FilesOf(g[n])
    BY <1>5, <2>1
  <2>2. CASE \A n \in 1..N : p \notin FilesOf(g[n])
    <3>1. p \in FolderCovers
      BY <1>2, <2>2, PathsAre
    <3> QED BY <1>3, <1>5, <2>2, <3>1
  <2> QED BY <2>1, <2>2
<1> QED BY <1>1, <1>7, <1>8, <1>9

---------------------------------------------------------------------------
(* The snapshot.                                                           *)

\* Resources and listing are those of the tracks in the order of identities.
NamesInv ==
  /\ \E N : Returned(tracks, N)
  /\ \/ resources = <<>> /\ children = Unmade
     \/ resources = Resources(Sorted(tracks)) /\ children = Listing(Sorted(tracks))

THEOREM NamesKeep == NamesSpec => []NamesInv
<1>1. ASSUME NamesInit PROVE NamesInv
  <2>1. PICK meta \in [Identities -> [title : Stems, estimate : Estimates \cup {Unknown}, codec : Estimates]],
             ids \in UNION {[1..n -> Identities] : n \in 0..MaxTracks} :
          tracks = [n \in DOMAIN ids |->
                      [id |-> ids[n], title |-> meta[ids[n]].title,
                       estimate |-> meta[ids[n]].estimate, codec |-> meta[ids[n]].codec]]
    BY <1>1 DEF NamesInit
  <2>2. PICK N \in Nat : ids \in [1..N -> Identities]
    BY IdentitiesAssumption
  <2>3. /\ DOMAIN tracks = 1..N
        /\ \A n \in 1..N :
             /\ ids[n] \in Identities
             /\ tracks[n] = [id |-> ids[n], title |-> meta[ids[n]].title,
                             estimate |-> meta[ids[n]].estimate, codec |-> meta[ids[n]].codec]
    BY <2>1, <2>2
  <2>4. \A n \in 1..N : tracks[n] \in Track /\ tracks[n].id = ids[n]
    BY <2>3 DEF Track
  <2>5. Returned(tracks, N)
    <3>1. tracks \in [1..N -> Track]
      BY <2>1, <2>3, <2>4
    <3>2. \A i, j \in 1..N : tracks[i].id = tracks[j].id => tracks[i] = tracks[j]
      BY <2>3, <2>4
    <3> QED BY <3>1, <3>2 DEF Returned
  <2> QED BY <1>1, <2>5 DEF NamesInit, NamesInv
<1>2. ASSUME NamesInv, [MakeTrackSnapshot]_nameVars PROVE NamesInv'
  BY <1>2 DEF NamesInv, MakeTrackSnapshot, nameVars, Unmade
<1> QED BY <1>1, <1>2, PTL DEF NamesSpec

LEMMA EmptyOrNot ==
  ASSUME NEW ts, NEW N, Returned(ts, N)
  PROVE  ts = <<>> <=> N = 0
<1>1. N \in Nat /\ ts \in [1..N -> Track]
  BY DEF Returned
<1> QED BY <1>1

THEOREM NamesIgnoreOrder == NamesSpec => []OrderIgnored
<1>1. ASSUME NamesInv, Snapped, NEW p \in Bijection(DOMAIN tracks, DOMAIN tracks)
      PROVE  resources = Resources(Sorted([n \in DOMAIN tracks |-> tracks[p[n]]]))
  <2>1. PICK N : Returned(tracks, N)
    BY <1>1 DEF NamesInv
  <2>2. DOMAIN tracks = 1..N
    BY <2>1, ReturnedTypes
  <2>3. resources = Resources(Sorted(tracks))
    BY <1>1 DEF NamesInv, Snapped
  <2>4. PICK us : us = [n \in 1..N |-> tracks[p[n]]]
    OBVIOUS
  <2>5. Sorted(us) = Sorted(tracks)
    <3>1. p \in Bijection(1..N, 1..N)
      BY <1>1, <2>2
    <3> QED BY ONLY <2>1, <2>4, <3>1, SortedIgnores
  <2> QED BY <2>2, <2>3, <2>4, <2>5
<1>2. NamesInv => OrderIgnored
  BY <1>1 DEF OrderIgnored
<1> QED BY <1>2, NamesKeep, PTL

\* The folder of a snapshot that has been made, from its sorted tracks.
LEMMA Folder ==
  ASSUME NamesInv, resources # <<>> \/ Snapped
  PROVE  \E ts, N : /\ Returned(ts, N) /\ DOMAIN tracks = 1..N
                    /\ \A n \in 1..N : \E k \in 1..N : ts[k] = tracks[n]
                    /\ resources = Resources(ts)
                    /\ Snapped => children = Listing(ts)
                    /\ ts = <<>> <=> N = 0
<1>1. PICK N : Returned(tracks, N)
  BY DEF NamesInv
<1>2. PICK ts : ts = Sorted(tracks)
  OBVIOUS
<1>3. Returned(ts, N) /\ \A n \in 1..N : \E k \in 1..N : ts[k] = tracks[n]
  BY <1>1, <1>2, SortedIs
<1>4. resources = Resources(ts) /\ (Snapped => children = Listing(ts))
  BY <1>2 DEF NamesInv, Snapped
<1>5. DOMAIN tracks = 1..N /\ (ts = <<>> <=> N = 0)
  BY <1>1, <1>3, ReturnedTypes, EmptyOrNot
<1> QED BY <1>3, <1>4, <1>5

\* An audio path is the audio name of a track of the folder.
LEMMA AudioPathsAre ==
  ASSUME NEW ts, NEW N, Returned(ts, N), ts # <<>>, resources = Resources(ts)
  PROVE  /\ \A p \in AudioPaths : \E n \in 1..N : p = AudioNames(ts)[n]
         /\ \A n \in 1..N : /\ AudioNames(ts)[n] \in AudioPaths
                            /\ resources[AudioNames(ts)[n]] = ts[n]
<1>1. ASSUME NEW p \in AudioPaths PROVE \E n \in 1..N : p = AudioNames(ts)[n]
  <2>1. p \in Paths(AudioNames(ts)) /\ p.ext \notin {"lrc", "jpg"}
    BY ResourcesAre DEF AudioPaths
  <2> QED BY <2>1, AudioIsNamed
<1> QED BY <1>1, AudioFound DEF AudioPaths

\* Lyrics and cover are those of a track of the audio file's base, for any tracks,
\* titles, formats and collisions, with either kind of quality (virtual.go:447-487).
THEOREM PairsStay == NamesSpec => []PairedFiles
<1>1. ASSUME NamesInv, NEW p \in AudioPaths, NEW f \in {LyricsFilename(p), CoverFilename(p)}
      PROVE  \E q \in Namesakes(p) : resources[f] = resources[q]
  <2>1. resources # <<>>
    BY <1>1, NoFiles DEF AudioPaths
  <2>2. PICK ts, N : Returned(ts, N) /\ resources = Resources(ts) /\ (ts = <<>> <=> N = 0)
    BY <1>1, <2>1, Folder
  <2>3. ts # <<>>
    BY <2>1, <2>2, NoFiles
  <2>4. PICK n \in 1..N : p = AudioNames(ts)[n]
    BY <2>2, <2>3, AudioPathsAre
  <2>5. f \in Paths(AudioNames(ts)) /\ n \in Owners(ts, f) /\ f.base = p.base
    <3>1. f \in FilesOf(p) /\ f.base = p.base
      BY <1>1 DEF FilesOf, LyricsFilename, CoverFilename, Name
    <3> QED BY <2>2, <2>4, <3>1, FilesAre
  <2>6. PICK k \in 1..N : AudioNames(ts)[k].base = f.base /\ Resources(ts)[f] = ts[k]
    BY <2>2, <2>3, <2>5, SharedByBase
  <2>7. AudioNames(ts)[k] \in Namesakes(p) /\ resources[AudioNames(ts)[k]] = ts[k]
    BY <2>2, <2>3, <2>5, <2>6, AudioPathsAre DEF Namesakes
  <2> QED BY <2>2, <2>6, <2>7
<1>2. NamesInv => PairedFiles
  BY <1>1 DEF PairedFiles
<1> QED BY <1>2, NamesKeep, PTL

\* Every track has an audio file of its own and a listing shows what is found, but
\* for lyrics and covers of audio names that differ in their extensions
\* (virtual.go:419-488).
THEOREM FilesAreFound == NamesSpec => []FilesFound
<1>1. ASSUME NamesInv, Snapped
      PROVE  /\ \A n \in DOMAIN tracks : \E p \in AudioPaths : resources[p] = tracks[n]
             /\ {c[1] : c \in children} = DOMAIN resources
             /\ \A c \in children :
                  \/ resources[c[1]] = c[2]
                  \/ /\ c[1] \notin AudioPaths
                     /\ \E p, q \in Namesakes(c[1]) :
                          resources[p] = c[2] /\ resources[q] = resources[c[1]]
  <2>1. PICK ts, N : /\ Returned(ts, N) /\ DOMAIN tracks = 1..N
                     /\ \A n \in 1..N : \E k \in 1..N : ts[k] = tracks[n]
                     /\ resources = Resources(ts) /\ children = Listing(ts)
                     /\ ts = <<>> <=> N = 0
    BY <1>1, Folder
  <2>2. CASE N = 0
    <3>1. resources = <<>> /\ children = {} /\ DOMAIN resources = {} /\ DOMAIN tracks = {}
      BY <2>1, <2>2, NoFiles
    <3> QED BY <3>1
  <2>3. CASE N # 0
    <3>1. ts # <<>>
      BY <2>1, <2>3
    <3>2. ASSUME NEW n \in 1..N PROVE \E p \in AudioPaths : resources[p] = tracks[n]
      <4>1. PICK k \in 1..N : ts[k] = tracks[n]
        BY <2>1
      <4>2. \A m \in 1..N : /\ AudioNames(ts)[m] \in AudioPaths
                           /\ resources[AudioNames(ts)[m]] = ts[m]
        BY <2>1, <3>1, AudioPathsAre
      <4> QED BY ONLY <4>1, <4>2
    <3>3. {c[1] : c \in children} = DOMAIN resources
      BY <2>1, <3>1, ListingIs
    <3>5. \A c \in children :
            \/ resources[c[1]] = c[2]
            \/ /\ c[1].ext \in {"lrc", "jpg"}
               /\ \E i, j \in 1..N : /\ AudioNames(ts)[i].base = c[1].base
                                     /\ AudioNames(ts)[j].base = c[1].base
                                     /\ ts[i] = c[2] /\ ts[j] = resources[c[1]]
      <4>1. \A c \in Listing(ts) :
              \/ Resources(ts)[c[1]] = c[2]
              \/ /\ c[1].ext \in {"lrc", "jpg"}
                 /\ \E i, j \in 1..N : /\ AudioNames(ts)[i].base = c[1].base
                                       /\ AudioNames(ts)[j].base = c[1].base
                                       /\ ts[i] = c[2] /\ ts[j] = Resources(ts)[c[1]]
        BY <2>1, <3>1, ListingIs, ZenonT(30)
      <4> QED BY ONLY <2>1, <4>1, Zenon
    <3>4. ASSUME NEW c \in children, resources[c[1]] # c[2]
          PROVE  /\ c[1] \notin AudioPaths
                 /\ \E p, q \in Namesakes(c[1]) :
                      resources[p] = c[2] /\ resources[q] = resources[c[1]]
      <4>1. c[1].ext \in {"lrc", "jpg"}
        BY <3>4, <3>5
      <4>2. PICK i, j \in 1..N : /\ AudioNames(ts)[i].base = c[1].base
                                /\ AudioNames(ts)[j].base = c[1].base
                                /\ ts[i] = c[2] /\ ts[j] = resources[c[1]]
        BY <3>4, <3>5
      <4>5. \A m \in 1..N : /\ AudioNames(ts)[m] \in AudioPaths
                           /\ resources[AudioNames(ts)[m]] = ts[m]
        BY <2>1, <3>1, AudioPathsAre
      <4>3. AudioNames(ts)[i] \in Namesakes(c[1]) /\ AudioNames(ts)[j] \in Namesakes(c[1])
        BY ONLY <4>2, <4>5 DEF Namesakes
      <4>4. resources[AudioNames(ts)[i]] = ts[i] /\ resources[AudioNames(ts)[j]] = ts[j]
        BY ONLY <4>2, <4>5
      <4> QED BY <4>1, <4>2, <4>3, <4>4 DEF AudioPaths
    <3> QED BY <2>1, <3>2, <3>3, <3>4
  <2> QED BY <2>2, <2>3
<1>2. NamesInv => FilesFound
  BY <1>1 DEF FilesFound
<1> QED BY <1>2, NamesKeep, PTL

\* With a quality below lossless all audio has one extension, and no lyrics or
\* cover is another track's ("paired files cannot drift apart",
\* oneplayer-compatibility.md:18-21).
THEOREM OneFormatKeepsPairs == ASSUME ~Lossless PROVE NamesSpec => [](PairedAlways /\ FoundAlways)
<1>1. ASSUME NamesInv, NEW p \in AudioPaths, NEW q \in AudioPaths, p.base = q.base PROVE p = q
  <2>1. resources # <<>>
    BY <1>1, NoFiles DEF AudioPaths
  <2>2. PICK ts, N : Returned(ts, N) /\ resources = Resources(ts)
    BY <1>1, <2>1, Folder
  <2>3. ts # <<>>
    BY <2>1, <2>2, NoFiles
  <2>4. PICK m, n \in 1..N : p = AudioNames(ts)[m] /\ q = AudioNames(ts)[n]
    BY <2>2, <2>3, AudioPathsAre
  <2>5. p = Name(p.base, "mp3") /\ q = Name(q.base, "mp3")
    BY <2>2, <2>4, NamesDiffer DEF Extension
  <2> QED BY <1>1, <2>5
<1>2. NamesInv /\ PairedFiles => PairedAlways
  BY <1>1 DEF PairedFiles, PairedAlways, Namesakes
<1>3. ASSUME NamesInv, FilesFound, Snapped, NEW c \in children PROVE resources[c[1]] = c[2]
  BY <1>1, <1>3 DEF FilesFound, Namesakes
<1>4. NamesInv /\ FilesFound => FoundAlways
  BY <1>3 DEF FoundAlways
<1> QED BY <1>2, <1>4, NamesKeep, PairsStay, FilesAreFound, PTL

---------------------------------------------------------------------------
(* FolderWalk: lists without repetition.                                   *)

LEMMA ToSetIs ==
  ASSUME NEW T, NEW s \in Seq(T)
  PROVE  /\ ToSet(s) = {s[i] : i \in 1..Len(s)} /\ ToSet(s) \subseteq T
         /\ Len(s) \in Nat /\ DOMAIN s = 1..Len(s)
  BY LenProperties DEF ToSet

LEMMA InOrderLists ==
  ASSUME NEW S, S \subseteq Nat, IsFiniteSet(S)
  PROVE  /\ InOrder(S) \in Seq(S) /\ IsInjective(InOrder(S)) /\ ToSet(InOrder(S)) = S
         /\ Len(InOrder(S)) = Cardinality(S)
<1>1. PICK s, n : Sorts(s, n, S)
  BY SortedExists
<1>2. InOrder(S) = s /\ n \in Nat /\ s \in [1..n -> S] /\ n = Cardinality(S)
  BY <1>1, InOrderIs, SortedCounts DEF Sorts
<1>3. \A i, j \in 1..n : s[i] = s[j] => i = j
  <2> SUFFICES ASSUME NEW i \in 1..n, NEW j \in 1..n, s[i] = s[j] PROVE i = j
    OBVIOUS
  <2>1. s[i] \in Nat /\ (i < j => s[i] < s[j]) /\ (j < i => s[j] < s[i])
    BY <1>1, <1>2 DEF Sorts
  <2> QED BY <1>2, <2>1
<1>4. ToSet(s) = S
  BY <1>1, <1>2 DEF Sorts, ToSet
<1> QED BY <1>2, <1>3, <1>4 DEF IsInjective

LEMMA ConcatSets ==
  ASSUME NEW T, NEW s \in Seq(T), NEW t \in Seq(T)
  PROVE  /\ s \o t \in Seq(T) /\ ToSet(s \o t) = ToSet(s) \cup ToSet(t)
         /\ Len(s \o t) = Len(s) + Len(t)
         /\ IsInjective(s) /\ IsInjective(t) /\ ToSet(s) \cap ToSet(t) = {} => IsInjective(s \o t)
<1> DEFINE u == s \o t
<1>1. /\ u \in Seq(T) /\ Len(u) = Len(s) + Len(t) /\ Len(s) \in Nat /\ Len(t) \in Nat
      /\ \A i \in 1..(Len(s) + Len(t)) : u[i] = IF i <= Len(s) THEN s[i] ELSE t[i - Len(s)]
  BY ConcatProperties, LenProperties
<1>2. DOMAIN u = 1..Len(u) /\ DOMAIN s = 1..Len(s) /\ DOMAIN t = 1..Len(t)
  BY <1>1, LenProperties
<1> HIDE DEF u
<1>3. \A i \in 1..Len(s) : i \in 1..Len(u) /\ u[i] = s[i]
  BY <1>1
<1>4. \A i \in 1..Len(t) : Len(s) + i \in 1..Len(u) /\ u[Len(s) + i] = t[i]
  <2> SUFFICES ASSUME NEW i \in 1..Len(t) PROVE Len(s) + i \in 1..Len(u) /\ u[Len(s) + i] = t[i]
    OBVIOUS
  <2>1. Len(s) + i \in 1..(Len(s) + Len(t)) /\ ~(Len(s) + i <= Len(s)) /\ (Len(s) + i) - Len(s) = i
    BY <1>1
  <2> QED BY <1>1, <2>1
<1>5. \A i \in 1..Len(u) :
        \/ (i \in 1..Len(s) /\ u[i] = s[i])
        \/ (i - Len(s) \in 1..Len(t) /\ u[i] = t[i - Len(s)])
  <2> TAKE i \in 1..Len(u)
  <2> DEFINE a == Len(s)
             b == Len(t)
  <2>1. a \in Nat /\ b \in Nat /\ i \in 1..(a + b) /\ u[i] = IF i <= a THEN s[i] ELSE t[i - a]
    BY <1>1
  <2> HIDE DEF a, b
  <2>2. (i \in 1..a /\ u[i] = s[i]) \/ (i - a \in 1..b /\ u[i] = t[i - a])
    BY ONLY <2>1
  <2> QED BY <2>2 DEF a, b
<1>6. ToSet(u) = ToSet(s) \cup ToSet(t)
  <2>1. \A x \in ToSet(u) : x \in ToSet(s) \cup ToSet(t)
    BY <1>2, <1>5 DEF ToSet
  <2>2. \A x \in ToSet(s) : x \in ToSet(u)
    BY <1>2, <1>3 DEF ToSet
  <2>3. \A x \in ToSet(t) : x \in ToSet(u)
    BY <1>2, <1>4 DEF ToSet
  <2> QED BY <2>1, <2>2, <2>3
<1>7. ASSUME IsInjective(s), IsInjective(t), ToSet(s) \cap ToSet(t) = {} PROVE IsInjective(u)
  <2> SUFFICES ASSUME NEW i \in 1..Len(u), NEW j \in 1..Len(u), u[i] = u[j] PROVE i = j
    BY <1>2 DEF IsInjective
  <2>1. CASE i \in 1..Len(s) /\ u[i] = s[i] /\ j \in 1..Len(s) /\ u[j] = s[j]
    BY <1>2, <1>7, <2>1 DEF IsInjective
  <2>2. CASE i - Len(s) \in 1..Len(t) /\ u[i] = t[i - Len(s)] /\ j - Len(s) \in 1..Len(t) /\ u[j] = t[j - Len(s)]
    <3>1. i - Len(s) = j - Len(s)
      BY <1>2, <1>7, <2>2 DEF IsInjective
    <3> QED BY <1>1, <3>1
  <2>3. CASE i \in 1..Len(s) /\ u[i] = s[i] /\ j - Len(s) \in 1..Len(t) /\ u[j] = t[j - Len(s)]
    <3>1. u[i] \in ToSet(s) /\ u[j] \in ToSet(t)
      BY <1>2, <2>3 DEF ToSet
    <3> QED BY <1>7, <3>1
  <2>4. CASE j \in 1..Len(s) /\ u[j] = s[j] /\ i - Len(s) \in 1..Len(t) /\ u[i] = t[i - Len(s)]
    <3>1. u[j] \in ToSet(s) /\ u[i] \in ToSet(t)
      BY <1>2, <2>4 DEF ToSet
    <3> QED BY <1>7, <3>1
  <2> QED BY <1>5, <2>1, <2>2, <2>3, <2>4
<1> QED BY <1>1, <1>6, <1>7 DEF u

\* The beginning of a list, as long as there is room.
LEMMA Beginning ==
  ASSUME NEW T, NEW s \in Seq(T), IsInjective(s), NEW m \in Int, m <= Len(s)
  PROVE  /\ SubSeq(s, 1, m) \in Seq(T) /\ IsInjective(SubSeq(s, 1, m))
         /\ ToSet(SubSeq(s, 1, m)) \subseteq ToSet(s)
         /\ Len(SubSeq(s, 1, m)) = IF m < 0 THEN 0 ELSE m
         /\ m = Len(s) => ToSet(SubSeq(s, 1, m)) = ToSet(s)
<1> DEFINE t == SubSeq(s, 1, m)
<1>1. Len(s) \in Nat /\ DOMAIN s = 1..Len(s)
  BY LenProperties
<1>2. /\ t \in Seq(T) /\ Len(t) = IF 1 <= m THEN m - 1 + 1 ELSE 0
      /\ \A i \in 1..(m - 1 + 1) : t[i] = s[1 + i - 1]
  <2>1. \A i \in 1..m : s[i] \in T
    BY <1>1, ElementOfSeq
  <2> QED BY <2>1, SubSeqProperties
<1>3. m - 1 + 1 = m /\ \A i \in 1..m : 1 + i - 1 = i /\ i \in 1..Len(s)
  BY <1>1
<1> HIDE DEF t
<1>4. DOMAIN t = 1..Len(t) /\ Len(t) = (IF m < 0 THEN 0 ELSE m) /\ \A i \in 1..Len(t) : i \in 1..Len(s) /\ t[i] = s[i]
  BY <1>2, <1>3, LenProperties
<1>5. IsInjective(t)
  BY <1>1, <1>4 DEF IsInjective
<1>6. ToSet(t) \subseteq ToSet(s)
  BY <1>1, <1>4 DEF ToSet
<1>7. m = Len(s) => ToSet(t) = ToSet(s)
  BY <1>1, <1>4 DEF ToSet
<1> QED BY <1>2, <1>4, <1>5, <1>6, <1>7 DEF t

LEMMA TailLists ==
  ASSUME NEW T, NEW s \in Seq(T), s # <<>>, IsInjective(s)
  PROVE  /\ Head(s) \in ToSet(s) /\ Tail(s) \in Seq(T) /\ Len(Tail(s)) = Len(s) - 1
         /\ IsInjective(Tail(s)) /\ ToSet(Tail(s)) = ToSet(s) \ {Head(s)}
<1> DEFINE t == Tail(s)
<1>1. /\ t \in Seq(T) /\ Len(t) = Len(s) - 1 /\ Len(s) \in Nat \ {0} /\ Head(s) = s[1]
      /\ \A i \in 1..Len(t) : t[i] = s[i + 1]
  BY HeadTailProperties, EmptySeq
<1>2. DOMAIN s = 1..Len(s) /\ DOMAIN t = 1..Len(t)
  BY <1>1, LenProperties
<1> HIDE DEF t
<1>3. \A i, j \in 1..Len(s) : s[i] = s[j] => i = j
  BY <1>2 DEF IsInjective
<1>4. \A i \in 1..Len(t) : i + 1 \in 1..Len(s) /\ i + 1 # 1
  BY <1>1
<1>5. IsInjective(t)
  <2> SUFFICES ASSUME NEW i \in 1..Len(t), NEW j \in 1..Len(t), t[i] = t[j] PROVE i = j
    BY <1>2 DEF IsInjective
  <2>1. i + 1 = j + 1
    BY <1>1, <1>3, <1>4
  <2> QED BY <1>1, <2>1
<1>6. ToSet(t) = ToSet(s) \ {s[1]}
  <2>1. \A x \in ToSet(t) : x \in ToSet(s) /\ x # s[1]
    <3> SUFFICES ASSUME NEW i \in 1..Len(t) PROVE t[i] \in ToSet(s) /\ t[i] # s[1]
      BY <1>2 DEF ToSet
    <3> QED BY <1>1, <1>2, <1>3, <1>4 DEF ToSet
  <2>2. \A x \in ToSet(s) \ {s[1]} : x \in ToSet(t)
    <3> SUFFICES ASSUME NEW i \in 1..Len(s), i # 1 PROVE s[i] \in ToSet(t)
      BY <1>2 DEF ToSet
    <3>1. i - 1 \in 1..Len(t) /\ (i - 1) + 1 = i
      BY <1>1
    <3> QED BY <1>1, <1>2, <3>1 DEF ToSet
  <2> QED BY <2>1, <2>2
<1>7. s[1] \in ToSet(s)
  BY <1>1, <1>2 DEF ToSet
<1>8. Head(s) \in ToSet(s) /\ ToSet(t) = ToSet(s) \ {Head(s)}
  BY <1>1, <1>6, <1>7
<1> QED BY <1>1, <1>5, <1>8 DEF t

---------------------------------------------------------------------------
(* What is below a resource.                                               *)

Goes(g, f, S) == g = [n \in S |-> n = f \/ (n # Root /\ g[Above[n]])]

\* The resources are finitely many, and each is in one before it.
LEMMA GoingExists ==
  ASSUME NEW f
  PROVE  \E g : Goes(g, f, Nodes)
<1> DEFINE Low(k) == {n \in Nodes : n < k}
           K == {k \in Nat : \E g : Goes(g, f, Low(k))}
<1>0. Nodes \subseteq Nat
  BY TreeAssumption
<1>1. \A n \in Nodes \ {Root} : Above[n] \in Nodes /\ Above[n] \in Nat /\ n \in Nat /\ Above[n] < n
  BY TreeAssumption
<1>2. 0 \in K
  <2>a. \A n \in Nodes : ~(n < 0)
    BY ONLY <1>0
  <2>1. Low(0) = {}
    BY ONLY <2>a
  <2>2. Goes([n \in {} |-> TRUE], f, Low(0))
    BY ONLY <2>1 DEF Goes
  <2> QED BY <2>2
<1>3. ASSUME NEW k \in Nat, k \in K PROVE k + 1 \in K
  <2>1. PICK g : Goes(g, f, Low(k))
    BY <1>3
  <2>2. PICK h : h = [n \in Low(k + 1) |-> n = f \/ (n # Root /\ g[Above[n]])]
    OBVIOUS
  <2>3. \A n \in Low(k) : h[n] = g[n]
    <3> SUFFICES ASSUME NEW n \in Low(k) PROVE h[n] = g[n]
      OBVIOUS
    <3>1. g[n] = (n = f \/ (n # Root /\ g[Above[n]]))
      BY ONLY <2>1, n \in Low(k), Zenon DEF Goes
    <3>2. n \in Low(k + 1)
      BY <1>0
    <3>3. h[n] = (n = f \/ (n # Root /\ g[Above[n]]))
      BY ONLY <2>2, <3>2, Zenon
    <3> QED BY ONLY <3>1, <3>3
  <2>4. \A n \in Low(k + 1) : n # Root => h[Above[n]] = g[Above[n]]
    <3> SUFFICES ASSUME NEW n \in Low(k + 1), n # Root PROVE h[Above[n]] = g[Above[n]]
      OBVIOUS
    <3>1. n \in Nodes \ {Root} /\ n < k + 1
      OBVIOUS
    <3>2. Above[n] \in Nodes /\ Above[n] < k
      BY ONLY <1>1, <3>1, k \in Nat
    <3> QED BY <2>3, <3>2
  <2>5. h = [n \in Low(k + 1) |-> n = f \/ (n # Root /\ h[Above[n]])]
    <3>1. \A n \in Low(k + 1) : (n = f \/ (n # Root /\ g[Above[n]])) = (n = f \/ (n # Root /\ h[Above[n]]))
      BY ONLY <2>4, Zenon
    <3> QED BY ONLY <2>2, <3>1
  <2>6. Goes(h, f, Low(k + 1))
    BY ONLY <2>5, Zenon DEF Goes
  <2> HIDE DEF Low
  <2> QED BY <2>6
<1> HIDE DEF K
<1>4. Nat \subseteq K
  BY <1>2, <1>3, CountingUp
<1>5. PICK m \in Nat : \A n \in Nodes : n < m
  <2>1. PICK y \in Nodes : \A n \in Nodes : n <= y
    BY Greatest, TreeAssumption
  <2>2. y + 1 \in Nat /\ \A n \in Nodes : n < y + 1
    BY <1>0, <2>1
  <2> QED BY <2>2
<1>6. m \in K /\ Low(m) = Nodes
  BY <1>4, <1>5
<1> QED BY <1>6 DEF K

\* A resource is below f if it is f, or what it is in is below f; and then it is
\* not before f.
LEMMA BelowIs ==
  ASSUME NEW f \in Nodes
  PROVE  /\ f \in Below(f) /\ Below(f) \subseteq Nodes
         /\ \A n \in Nodes \ {Root} : Above[n] \in Below(f) => n \in Below(f)
         /\ \A n \in Below(f) : f <= n /\ (n # f => n # Root /\ Above[n] \in Below(f))
<1>1. PICK g : Goes(g, f, Nodes) /\ Below(f) = {n \in Nodes : g[n]}
  <2>1. \E g : g = [n \in Nodes |-> n = f \/ (n # Root /\ g[Above[n]])]
    BY GoingExists DEF Goes
  <2>2. PICK g : g = CHOOSE h : h = [n \in Nodes |-> n = f \/ (n # Root /\ h[Above[n]])]
    OBVIOUS
  <2>3. g = [n \in Nodes |-> n = f \/ (n # Root /\ g[Above[n]])]
    BY ONLY <2>1, <2>2, Zenon
  <2>4. Below(f) = {n \in Nodes : g[n]}
    BY ONLY <2>2, Zenon DEF Below
  <2> QED BY <2>3, <2>4 DEF Goes
<1>2. \A n \in Nodes : g[n] = (n = f \/ (n # Root /\ g[Above[n]]))
  BY ONLY <1>1, Zenon DEF Goes
<1>3. Nodes \subseteq Nat /\ \A n \in Nodes \ {Root} : Above[n] \in Nodes /\ Above[n] < n
  BY TreeAssumption
<1>4. \A n \in Nodes : n \in Below(f) <=> n = f \/ (n # Root /\ Above[n] \in Below(f))
  <2> SUFFICES ASSUME NEW n \in Nodes PROVE n \in Below(f) <=> n = f \/ (n # Root /\ Above[n] \in Below(f))
    OBVIOUS
  <2>1. n # Root => Above[n] \in Nodes
    BY <1>3
  <2> QED BY ONLY <1>1, <1>2, <2>1, n \in Nodes, Zenon
<1>5. \A n \in Below(f) : f <= n
  <2> DEFINE Bad == {n \in Below(f) : ~(f <= n)}
  <2> SUFFICES ASSUME Bad # {} PROVE FALSE
    OBVIOUS
  <2>1. Bad \subseteq Nat /\ Below(f) \subseteq Nodes
    BY <1>1, <1>3
  <2>2. PICK n \in Bad : \A m \in Bad : n <= m
    BY ONLY <2>1, Bad # {}, Least
  <2>3. n # f /\ n \in Nodes /\ n \in Below(f)
    BY <1>3, <2>1
  <2>4. n # Root /\ Above[n] \in Below(f)
    BY ONLY <1>4, <2>3
  <2>5. n \in Nodes \ {Root} /\ Above[n] < n /\ Above[n] \in Nat /\ n \in Nat /\ f \in Nat
    BY <1>3, <2>3, <2>4
  <2>6. Above[n] \in Bad /\ n <= Above[n]
    BY ONLY <2>1, <2>2, <2>4, <2>5
  <2> QED BY ONLY <2>5, <2>6
<1> QED BY <1>1, <1>4, <1>5

---------------------------------------------------------------------------
(* The walk.                                                               *)

\* What a library L lists of f.
Within(f, L) == {n \in L \ {Root} : Above[n] = f}

\* s reports, of what is below t and was there at some time, each once.
Reports(s, t, S) ==
  /\ s \in Seq(Nodes) /\ IsInjective(s) /\ AfterParents(s)
  /\ Len(s) > 0 /\ s[1] = t
  /\ ToSet(s) \subseteq S \cap Below(t)

\* Of the reported collections v, those in q are still to be listed; what is
\* reported comes from those that have been, and there have been k lists.
Visits(q, v, s, t, k) ==
  /\ q \in Seq(Folders) /\ IsInjective(q) /\ ToSet(q) \subseteq v
  /\ v = ToSet(s) \cap Folders
  /\ \A n \in ToSet(s) \ {t} : n # Root /\ Above[n] \in v \ ToSet(q)
  /\ IsFiniteSet(v) /\ k \in Nat /\ k + Len(q) = Lesser(Cardinality(v), MaxVisits - 1)

\* Until the walk is cut short, what was there all along in those is reported.
Covers(q, v, s, L) ==
  Cardinality(v) <= MaxVisits - 1 =>
    \A n \in L \ {Root} : Above[n] \in v \ ToSet(q) => n \in ToSet(s)

LEMMA WithinIs ==
  ASSUME NEW f \in Nodes, NEW L \in SUBSET Nodes
  PROVE  /\ Within(f, L) \subseteq Nat /\ IsFiniteSet(Within(f, L)) /\ Within(f, L) \subseteq L
         /\ \A n \in Within(f, L) : n # Root /\ Above[n] = f /\ f < n
         /\ InOrder(Within(f, L)) \in Seq(Nodes) /\ IsInjective(InOrder(Within(f, L)))
         /\ ToSet(InOrder(Within(f, L))) = Within(f, L)
<1> DEFINE I == Within(f, L)
<1>1. I \subseteq Nodes /\ I \subseteq L /\ \A n \in I : n # Root /\ Above[n] = f /\ n \in Nodes \ {Root}
  BY DEF Within
<1>2. I \subseteq Nat /\ IsFiniteSet(I) /\ \A n \in I : Above[n] < n
  BY <1>1, FS_Subset, TreeAssumption
<1> HIDE DEF I
<1>3. InOrder(I) \in Seq(I) /\ IsInjective(InOrder(I)) /\ ToSet(InOrder(I)) = I
  BY <1>2, InOrderLists
<1>4. Seq(I) \subseteq Seq(Nodes)
  BY <1>1
<1> QED BY <1>1, <1>2, <1>3, <1>4 DEF I

\* What a collection that has been reported holds is reported after it.
Unreported(s, t, S, f, L) ==
  /\ t \in Nodes /\ S \in SUBSET Nodes /\ Reports(s, t, S) /\ f \in ToSet(s)
  /\ L \in SUBSET S /\ Within(f, L) \cap ToSet(s) = {}

Adds(v, s, I) == ToSet(v) = ToSet(s) \cup I

LEMMA TellsMore ==
  ASSUME NEW s, NEW t, NEW S, NEW f, NEW L, Unreported(s, t, S, f, L),
         NEW v, v = s \o InOrder(Within(f, L))
  PROVE  Reports(v, t, S) /\ Adds(v, s, Within(f, L))
<1> DEFINE I == Within(f, L)
           u == InOrder(I)
           r == s \o u
<1>1. s \in Seq(Nodes) /\ IsInjective(s) /\ AfterParents(s) /\ Len(s) > 0 /\ s[1] = t
      /\ ToSet(s) \subseteq S /\ ToSet(s) \subseteq Below(t)
      /\ t \in Nodes /\ S \in SUBSET Nodes /\ f \in ToSet(s) /\ L \in SUBSET S
      /\ Within(f, L) \cap ToSet(s) = {}
  BY DEF Reports, Unreported
<1>2. f \in Nodes /\ f \in Below(t) /\ L \in SUBSET Nodes
  BY <1>1
<1>3. /\ u \in Seq(Nodes) /\ IsInjective(u) /\ ToSet(u) = I /\ I \subseteq L
      /\ \A n \in I : n # Root /\ Above[n] = f
  BY <1>2, WithinIs
<1>4. I \subseteq Below(t)
  <2> SUFFICES ASSUME NEW n \in I PROVE n \in Below(t)
    OBVIOUS
  <2>1. n \in Nodes \ {Root} /\ Above[n] \in Below(t)
    BY <1>2, <1>3
  <2> QED BY <1>1, <2>1, BelowIs
<1> HIDE DEF I, u
<1>5. r \in Seq(Nodes) /\ ToSet(r) = ToSet(s) \cup I /\ Len(r) = Len(s) + Len(u) /\ IsInjective(r)
  BY <1>1, <1>3, ConcatSets DEF I
<1>6. /\ DOMAIN s = 1..Len(s) /\ DOMAIN u = 1..Len(u) /\ Len(s) \in Nat /\ Len(u) \in Nat /\ DOMAIN r = 1..Len(r)
      /\ \A i \in 1..(Len(s) + Len(u)) : r[i] = IF i <= Len(s) THEN s[i] ELSE u[i - Len(s)]
  BY <1>1, <1>3, <1>5, ToSetIs, ConcatProperties
<1> HIDE DEF r
<1>7. \A i \in 1..Len(s) : i \in 1..Len(r) /\ r[i] = s[i]
  BY <1>5, <1>6
<1>8. AfterParents(r)
  <2> SUFFICES ASSUME NEW i \in 1..Len(r), i # 1 PROVE \E j \in 1..(i - 1) : r[j] = Above[r[i]]
    BY <1>6 DEF AfterParents
  <2>1. CASE i <= Len(s)
    <3>1. PICK j \in 1..(i - 1) : s[j] = Above[s[i]]
      <4>1. i \in DOMAIN s \ {1}
        BY <1>6, <2>1
      <4> QED BY <1>1, <4>1 DEF AfterParents
    <3>2. j \in 1..Len(s) /\ i \in 1..Len(s)
      BY <1>6, <2>1, <3>1
    <3> QED BY <1>7, <3>1, <3>2
  <2>2. CASE ~(i <= Len(s))
    <3>1. PICK j \in 1..Len(s) : s[j] = f
      <4>1. f \in ToSet(s) /\ DOMAIN s = 1..Len(s)
        BY <1>1, <1>6
      <4> QED BY ONLY <4>1 DEF ToSet
    <3>2. j \in 1..(i - 1)
      BY <1>6, <2>2, <3>1
    <3>3. r[i] \in I
      <4> DEFINE a == Len(s)
                 b == Len(u)
      <4>1. a \in Nat /\ b \in Nat /\ i \in 1..(a + b) /\ ~(i <= a) /\ r[i] = IF i <= a THEN s[i] ELSE u[i - a]
        BY <1>5, <1>6, <2>2
      <4> HIDE DEF a, b
      <4>2. i - a \in 1..b /\ r[i] = u[i - a]
        BY ONLY <4>1
      <4>3. u[i - a] \in ToSet(u)
        BY <1>6, <4>2 DEF ToSet, b
      <4> QED BY <1>3, <4>2, <4>3
    <3> QED BY <1>3, <1>7, <3>1, <3>2, <3>3
  <2> QED BY <2>1, <2>2
<1>9. Len(r) > 0 /\ r[1] = t
  BY <1>1, <1>5, <1>6, <1>7
<1>10. Reports(r, t, S)
  BY <1>1, <1>3, <1>4, <1>5, <1>8, <1>9 DEF Reports
<1>11. v = r
  BY DEF r, u, I
<1> QED BY <1>5, <1>10, <1>11 DEF I, Adds

\* What is in a collection still to be listed has not been reported.
LEMMA NotYetTold ==
  ASSUME NEW t \in Nodes, NEW S \in SUBSET Nodes, NEW s, Reports(s, t, S),
         NEW q, NEW v, NEW k, Visits(q, v, s, t, k), NEW f \in ToSet(q), NEW L \in SUBSET Nodes
  PROVE  f \in ToSet(s) /\ f \in v /\ Within(f, L) \cap ToSet(s) = {}
<1>1. f \in ToSet(s) /\ f \in v /\ f \in Below(t) /\ f \in Nodes
  BY DEF Visits, Reports
<1>2. \A n \in Within(f, L) : n # Root /\ Above[n] = f /\ f < n /\ n \in Nat
  BY <1>1, WithinIs
<1>3. f \in Nat /\ t \in Nat /\ t <= f
  BY <1>1, BelowIs, TreeAssumption
<1>4. ASSUME NEW n \in Within(f, L), n \in ToSet(s) PROVE FALSE
  <2>1. n # t
    BY <1>2, <1>3
  <2>2. Above[n] \notin ToSet(q)
    BY <1>4, <2>1 DEF Visits
  <2> QED BY <1>2, <2>2
<1> QED BY <1>1, <1>4

\* What room there is for the collections met: d after c, where m may be and k
\* have been listed.
Fits(c, d, m, l, k, r) ==
  /\ c \in Nat /\ d \in Nat /\ m \in Nat /\ l \in Nat /\ k \in Nat
  /\ l # 0 /\ k + l = Lesser(c, m) /\ r = Lesser(d, m - c)

LEMMA Room ==
  ASSUME NEW c, NEW d, NEW m, NEW l, NEW k, NEW r, Fits(c, d, m, l, k, r)
  PROVE  /\ r \in Int /\ r <= d
         /\ k + 1 + (l - 1 + (IF r < 0 THEN 0 ELSE r)) = Lesser(c + d, m)
         /\ c + d <= m => c <= m /\ r = d
BY DEF Lesser, Fits

\* The walk lists the collection at the head of the queue.
Lists(L, q, v, s, w, new, r) ==
  /\ new = Within(Head(q), L) \cap (Folders \ v)
  /\ r = s \o InOrder(Within(Head(q), L))
  /\ w = Tail(q) \o SubSeq(InOrder(new), 1, Lesser(Len(InOrder(new)), MaxVisits - 1 - Cardinality(v)))

Stands(t, S, s, q, v, k, L, K) ==
  /\ t \in Nodes /\ S \in SUBSET Nodes /\ L \in SUBSET S /\ K \in SUBSET L
  /\ Reports(s, t, S) /\ Visits(q, v, s, t, k) /\ Covers(q, v, s, K)

LEMMA WalkListed ==
  ASSUME NEW t, NEW S, NEW s, NEW q, NEW v, NEW k, NEW L, NEW K, Stands(t, S, s, q, v, k, L, K),
         q # <<>>, NEW new, NEW r, NEW w, Lists(L, q, v, s, w, new, r)
  PROVE  Stands(t, S, r, w, v \cup new, k + 1, L, K)
<1> DEFINE f == Head(q)
           I == Within(f, L)
<1>0. /\ t \in Nodes /\ S \in SUBSET Nodes /\ L \in SUBSET S /\ K \in SUBSET L
      /\ Reports(s, t, S) /\ Visits(q, v, s, t, k) /\ Covers(q, v, s, K)
      /\ new = I \cap (Folders \ v) /\ r = s \o InOrder(I)
      /\ w = Tail(q) \o SubSeq(InOrder(new), 1, Lesser(Len(InOrder(new)), MaxVisits - 1 - Cardinality(v)))
  BY DEF Stands, Lists
<1> HIDE DEF f
<1>1. /\ q \in Seq(Folders) /\ IsInjective(q) /\ ToSet(q) \subseteq v /\ v = ToSet(s) \cap Folders
      /\ \A n \in ToSet(s) \ {t} : n # Root /\ Above[n] \in v \ ToSet(q)
      /\ IsFiniteSet(v) /\ k \in Nat /\ k + Len(q) = Lesser(Cardinality(v), MaxVisits - 1)
  BY <1>0 DEF Visits
<1>2. /\ f \in ToSet(q) /\ Tail(q) \in Seq(Folders) /\ Len(Tail(q)) = Len(q) - 1
      /\ IsInjective(Tail(q)) /\ ToSet(Tail(q)) = ToSet(q) \ {f}
  BY <1>1, TailLists DEF f
<1>3. L \in SUBSET Nodes /\ f \in Nodes
  BY <1>0, <1>1, <1>2, TreeAssumption
<1>4. f \in ToSet(s) /\ f \in v /\ I \cap ToSet(s) = {}
  <2>1. f \in ToSet(q)
    BY <1>2
  <2>2. f \in ToSet(s) /\ f \in v /\ Within(f, L) \cap ToSet(s) = {}
    BY ONLY <1>0, <1>3, <2>1, NotYetTold
  <2> QED BY <2>2
<1>5. Reports(r, t, S) /\ ToSet(r) = ToSet(s) \cup I
  <2>1. Unreported(s, t, S, f, L) /\ r = s \o InOrder(Within(f, L))
    BY <1>0, <1>4 DEF Unreported
  <2>2. Reports(r, t, S) /\ Adds(r, s, Within(f, L))
    BY ONLY <2>1, TellsMore, Zenon
  <2> QED BY <2>2 DEF Adds
<1>6. /\ I \subseteq Nat /\ IsFiniteSet(I) /\ I \subseteq L
      /\ \A n \in I : n # Root /\ Above[n] = f /\ f < n
  BY <1>3, WithinIs
<1>7. new = I \cap Folders /\ new \cap v = {} /\ IsFiniteSet(new) /\ new \subseteq Nat /\ new \subseteq Folders
  BY <1>0, <1>1, <1>4, <1>6, FS_Subset
<1> DEFINE u == InOrder(new)
           m == Lesser(Len(u), MaxVisits - 1 - Cardinality(v))
           p == SubSeq(u, 1, m)
<1>8. u \in Seq(Folders) /\ IsInjective(u) /\ ToSet(u) = new /\ Len(u) = Cardinality(new)
  <2>1. u \in Seq(new) /\ Seq(new) \subseteq Seq(Folders)
    BY <1>7, InOrderLists
  <2> QED BY <1>7, <2>1, InOrderLists
<1>9. /\ Cardinality(v) \in Nat /\ Cardinality(new) \in Nat /\ IsFiniteSet(v \cup new)
      /\ Cardinality(v \cup new) = Cardinality(v) + Cardinality(new)
  <2>1. Cardinality(v \cap new) = 0
    BY <1>7, FS_EmptySet
  <2>2. /\ IsFiniteSet(v \cup new)
        /\ Cardinality(v \cup new) = Cardinality(v) + Cardinality(new) - Cardinality(v \cap new)
    BY ONLY <1>1, <1>7, FS_Union
  <2>3. Cardinality(v) \in Nat /\ Cardinality(new) \in Nat
    BY ONLY <1>1, <1>7, FS_CardinalityType
  <2> QED BY ONLY <2>1, <2>2, <2>3
<1>10. Len(q) \in Nat /\ Len(q) # 0 /\ MaxVisits - 1 \in Nat
  BY <1>1, LenProperties, EmptySeq, VisitsAssumption
<1> HIDE DEF u
<1>11. /\ m \in Int /\ m <= Len(u)
       /\ k + 1 + (Len(q) - 1 + (IF m < 0 THEN 0 ELSE m)) = Lesser(Cardinality(v \cup new), MaxVisits - 1)
       /\ Cardinality(v \cup new) <= MaxVisits - 1 => Cardinality(v) <= MaxVisits - 1 /\ m = Len(u)
  <2> DEFINE c == Cardinality(v)
             d == Cardinality(new)
             M == MaxVisits - 1
             l == Len(q)
  <2>1. Fits(c, d, M, l, k, m) /\ Len(u) = d /\ Cardinality(v \cup new) = c + d
    BY <1>1, <1>8, <1>9, <1>10 DEF Fits
  <2> HIDE DEF m, c, d, M, l
  <2>2. /\ m \in Int /\ m <= d /\ k + 1 + (l - 1 + (IF m < 0 THEN 0 ELSE m)) = Lesser(c + d, M)
        /\ c + d <= M => c <= M /\ m = d
    BY ONLY <2>1, Room
  <2> QED BY ONLY <2>1, <2>2 DEF c, M, l
<1> HIDE DEF m
<1>12. /\ p \in Seq(Folders) /\ IsInjective(p) /\ ToSet(p) \subseteq new
       /\ Len(p) = IF m < 0 THEN 0 ELSE m
       /\ m = Len(u) => ToSet(p) = new
  BY <1>8, <1>11, Beginning
<1>13. w = Tail(q) \o p
  BY <1>0 DEF u, m
<1> HIDE DEF p
<1>14. /\ w \in Seq(Folders) /\ ToSet(w) = (ToSet(q) \ {f}) \cup ToSet(p)
       /\ Len(w) = Len(q) - 1 + Len(p) /\ IsInjective(w)
  <2>1. ToSet(Tail(q)) \cap ToSet(p) = {}
    BY <1>1, <1>2, <1>7, <1>12
  <2> DEFINE a == Tail(q)
  <2>2. /\ a \in Seq(Folders) /\ p \in Seq(Folders) /\ IsInjective(a) /\ IsInjective(p)
        /\ ToSet(a) \cap ToSet(p) = {} /\ ToSet(a) = ToSet(q) \ {f} /\ Len(a) = Len(q) - 1 /\ w = a \o p
    BY <1>2, <1>12, <1>13, <2>1
  <2> HIDE DEF a
  <2>3. /\ a \o p \in Seq(Folders) /\ ToSet(a \o p) = ToSet(a) \cup ToSet(p)
        /\ Len(a \o p) = Len(a) + Len(p) /\ IsInjective(a \o p)
    BY ONLY <2>2, ConcatSets
  <2> QED BY ONLY <2>2, <2>3
<1>15. v \cup new = ToSet(r) \cap Folders /\ ToSet(w) \subseteq v \cup new /\ f \notin ToSet(w)
  BY <1>1, <1>4, <1>5, <1>7, <1>12, <1>14
<1>16. \A n \in ToSet(r) \ {t} : n # Root /\ Above[n] \in (v \cup new) \ ToSet(w)
  <2> SUFFICES ASSUME NEW n \in ToSet(r) \ {t} PROVE n # Root /\ Above[n] \in (v \cup new) \ ToSet(w)
    OBVIOUS
  <2>1. CASE n \in I
    BY <1>4, <1>6, <1>15, <2>1
  <2>2. CASE n \in ToSet(s)
    <3>1. n # Root /\ Above[n] \in v \ ToSet(q)
      BY <1>1, <2>2
    <3> QED BY <1>7, <1>12, <1>14, <3>1
  <2> QED BY <1>5, <2>1, <2>2
<1>17. Visits(w, v \cup new, r, t, k + 1)
  <2>1. k + 1 + Len(w) = Lesser(Cardinality(v \cup new), MaxVisits - 1)
    BY ONLY <1>11, <1>12, <1>14
  <2>2. k + 1 \in Nat
    BY <1>1
  <2> QED BY ONLY <1>9, <1>14, <1>15, <1>16, <2>1, <2>2 DEF Visits
<1>18. Covers(w, v \cup new, r, K)
  <2> SUFFICES ASSUME Cardinality(v \cup new) <= MaxVisits - 1,
                      NEW n \in K \ {Root}, Above[n] \in (v \cup new) \ ToSet(w)
               PROVE  n \in ToSet(r)
    BY DEF Covers
  <2>1. Cardinality(v) <= MaxVisits - 1 /\ ToSet(p) = new
    BY <1>11, <1>12
  <2>2. CASE Above[n] = f
    BY <1>0, <1>5, <2>2 DEF Within
  <2>3. CASE Above[n] # f
    <3>1. Above[n] \in v \ ToSet(q)
      BY <1>14, <2>1, <2>3
    <3> QED BY <1>0, <1>5, <2>1, <3>1 DEF Covers
  <2> QED BY <2>2, <2>3
<1> QED BY <1>0, <1>5, <1>17, <1>18 DEF Stands

LEMMA LibrariesAre ==
  ASSUME NEW L \in Libraries
  PROVE  L \in SUBSET Nodes /\ Root \in L /\ \A n \in L \ {Root} : Above[n] \in L
BY DEF Libraries

LEMMA JustOne ==
  ASSUME NEW t \in Nodes
  PROVE  /\ <<t>> \in Seq(Nodes) /\ Len(<<t>>) = 1 /\ <<t>>[1] = t /\ DOMAIN <<t>> = {1}
         /\ IsInjective(<<t>>) /\ AfterParents(<<t>>) /\ ToSet(<<t>>) = {t}
<1>1. <<t>> \in Seq(Nodes) /\ Len(<<t>>) = 1 /\ <<t>>[1] = t /\ DOMAIN <<t>> = {1}
  OBVIOUS
<1>2. PICK s : s = <<t>>
  OBVIOUS
<1>3. DOMAIN s = {1} /\ s[1] = t
  BY <1>1, <1>2
<1>4. IsInjective(s) /\ AfterParents(s) /\ ToSet(s) = {t}
  BY ONLY <1>3 DEF IsInjective, AfterParents, ToSet
<1> QED BY <1>1, <1>2, <1>4

LEMMA TellsOne ==
  ASSUME NEW t \in Nodes, NEW S, t \in S
  PROVE  Reports(<<t>>, t, S)
<1>1. t \in Below(t)
  BY BelowIs
<1> QED BY <1>1, JustOne DEF Reports

\* Nothing is below a resource that is no collection.
LEMMA BelowNoFolder ==
  ASSUME NEW t \in Nodes \ Folders
  PROVE  Below(t) = {t}
<1>1. /\ t \in Below(t) /\ Below(t) \subseteq Nodes
      /\ \A n \in Below(t) : t <= n /\ (n # t => n # Root /\ Above[n] \in Below(t))
  BY BelowIs
<1>2. \A n \in Nodes \ {Root} : Above[n] \in Folders /\ Above[n] < n /\ n \in Nat /\ Above[n] \in Nat
  BY TreeAssumption
<1> DEFINE Bad == Below(t) \ {t}
<1> SUFFICES ASSUME Bad # {} PROVE FALSE
  BY <1>1
<1>3. Bad \subseteq Nat
  BY <1>1, TreeAssumption
<1>4. PICK n \in Bad : \A m \in Bad : n <= m
  BY ONLY <1>3, Bad # {}, Least
<1>5. n # t /\ n \in Below(t) /\ n \in Nodes
  BY <1>1
<1>6. n # Root /\ Above[n] \in Below(t) /\ Above[n] \in Folders /\ Above[n] < n /\ n \in Nat /\ Above[n] \in Nat
  BY <1>1, <1>2, <1>5
<1>7. Above[n] \in Bad
  BY <1>6
<1> QED BY <1>4, <1>6, <1>7

\* A walk with nothing left to list has reported what was there all along, or
\* has been cut short.
LEMMA WalkedAll ==
  ASSUME NEW t \in Nodes, NEW S \in SUBSET Nodes, NEW s, Reports(s, t, S), NEW v, NEW k,
         Visits(<<>>, v, s, t, k), NEW K \in Libraries, Covers(<<>>, v, s, K)
  PROVE  k < MaxVisits /\ (K \cap Below(t) \subseteq ToSet(s) \/ k = MaxVisits - 1)
<1>1. /\ v = ToSet(s) \cap Folders /\ IsFiniteSet(v) /\ k \in Nat
      /\ k + Len(<<>>) = Lesser(Cardinality(v), MaxVisits - 1)
  BY DEF Visits
<1>2. Len(<<>>) = 0 /\ ToSet(<<>>) = {}
  BY DEF ToSet
<1>3. Cardinality(v) \in Nat /\ MaxVisits - 1 \in Nat /\ MaxVisits \in Nat
  BY <1>1, FS_CardinalityType, VisitsAssumption
<1>4. k < MaxVisits /\ (Cardinality(v) <= MaxVisits - 1 \/ k = MaxVisits - 1)
  BY <1>1, <1>2, <1>3 DEF Lesser
<1>5. ASSUME Cardinality(v) <= MaxVisits - 1 PROVE K \cap Below(t) \subseteq ToSet(s)
  <2> DEFINE Bad == (K \cap Below(t)) \ ToSet(s)
  <2> SUFFICES ASSUME Bad # {} PROVE FALSE
    OBVIOUS
  <2>1. /\ Below(t) \subseteq Nodes
        /\ \A n \in Below(t) : t <= n /\ (n # t => n # Root /\ Above[n] \in Below(t))
    BY BelowIs
  <2>2. Bad \subseteq Nat
    BY <2>1, TreeAssumption
  <2>3. PICK n \in Bad : \A m \in Bad : n <= m
    BY ONLY <2>2, Bad # {}, Least
  <2>4. t \in ToSet(s)
    <3>1. s \in Seq(Nodes) /\ Len(s) > 0 /\ s[1] = t
      BY DEF Reports
    <3>2. 1 \in 1..Len(s) /\ DOMAIN s = 1..Len(s)
      BY <3>1, LenProperties
    <3> QED BY <3>1, <3>2 DEF ToSet
  <2>5. n # t /\ n # Root /\ n \in K \ {Root} /\ n \in Nodes \ {Root} /\ Above[n] \in Below(t) /\ Above[n] \in K
    BY <2>1, <2>4, LibrariesAre
  <2>6. Above[n] \in Folders /\ Above[n] < n /\ n \in Nat /\ Above[n] \in Nat
    BY <2>5, TreeAssumption
  <2>7. Above[n] \in ToSet(s)
    BY <2>3, <2>5, <2>6
  <2>8. Above[n] \in v \ ToSet(<<>>)
    BY <1>1, <1>2, <2>6, <2>7
  <2> QED BY <1>5, <2>5, <2>8 DEF Covers
<1> QED BY <1>4, <1>5

---------------------------------------------------------------------------
(* A request, from its Stat to its answer.                                 *)

Past ==
  /\ there \in Libraries /\ kept \in Libraries /\ kept \subseteq there
  /\ there \subseteq seen /\ seen \in SUBSET Nodes
  /\ target \in Nodes /\ depth \in Depths /\ stage \in {"stat", "list", "walk", "done"}

InStat == stage = "stat" => reported = <<>> /\ lists = 0 /\ status = 0

InList ==
  stage = "list" =>
    target \in Folders /\ target \in seen /\ reported = <<target>> /\ lists = 0 /\ status = 0 /\ depth = "one"

InWalk ==
  stage = "walk" =>
    /\ target \in Folders /\ status = 0
    /\ Reports(reported, target, seen)
    /\ Visits(queue, visited, reported, target, lists)
    /\ Covers(queue, visited, reported, kept)

InEnd == stage = "done" => ReportedOnce /\ WalkExact

WalkInv == Past /\ InStat /\ InList /\ InWalk /\ InEnd

\* What is so far reported, wherever the request is.
LEMMA SoFar ==
  ASSUME WalkInv
  PROVE  ReportedOnce /\ lists < MaxVisits /\ (stage # "done" => status = 0)
<1>1. CASE stage = "stat"
  <2>1. reported = <<>> /\ lists = 0 /\ status = 0
    BY <1>1 DEF WalkInv, InStat
  <2> QED BY <2>1, VisitsAssumption DEF ReportedOnce, IsInjective, AfterParents
<1>2. CASE stage = "list"
  <2>1. reported = <<target>> /\ lists = 0 /\ status = 0 /\ target \in Nodes
    BY <1>2 DEF WalkInv, InList, Past
  <2> QED BY <2>1, JustOne, VisitsAssumption DEF ReportedOnce
<1>3. CASE stage = "walk"
  <2>1. status = 0 /\ Reports(reported, target, seen) /\ Visits(queue, visited, reported, target, lists)
    BY <1>3 DEF WalkInv, InWalk
  <2>2. /\ queue \in Seq(Folders) /\ IsFiniteSet(visited) /\ lists \in Nat
        /\ lists + Len(queue) = Lesser(Cardinality(visited), MaxVisits - 1)
    BY <2>1 DEF Visits
  <2>3. Len(queue) \in Nat /\ Cardinality(visited) \in Nat /\ MaxVisits \in Nat \ {0, 1}
    BY <2>2, LenProperties, FS_CardinalityType, VisitsAssumption
  <2>4. lists < MaxVisits
    BY ONLY <2>2, <2>3 DEF Lesser
  <2> QED BY <2>1, <2>4 DEF ReportedOnce, Reports
<1>4. CASE stage = "done"
  BY <1>4 DEF WalkInv, InEnd, WalkExact
<1> QED BY <1>1, <1>2, <1>3, <1>4 DEF WalkInv, Past

LEMMA WalkBegins == WalkInit => WalkInv
<1> SUFFICES ASSUME WalkInit PROVE WalkInv
  OBVIOUS
<1>1. Past
  BY LibrariesAre DEF WalkInit, Past
<1>2. InStat /\ InList /\ InWalk /\ InEnd
  BY DEF WalkInit, InStat, InList, InWalk, InEnd
<1> QED BY <1>1, <1>2 DEF WalkInv

\* A request that is over, with nothing more to say than it had.
LEMMA Ended ==
  ASSUME WalkInv, stage # "done", stage' = "done", UNCHANGED <<there, request, history, reported, lists>>,
         status' # 207
  PROVE  WalkInv'
<1>1. Past'
  BY DEF WalkInv, Past, request, history
<1>2. ReportedOnce /\ lists < MaxVisits
  BY SoFar
<1>3. ReportedOnce' /\ WalkExact'
  BY <1>2 DEF ReportedOnce, WalkExact
<1> QED BY <1>1, <1>3 DEF WalkInv, InStat, InList, InWalk, InEnd

LEMMA WalkGoesOn ==
  ASSUME WalkInv, [WalkNext]_walkVars
  PROVE  WalkInv'
<1> USE DEF WalkInv
<1>1. CASE Absent
  BY <1>1, Ended DEF Absent, Respond, walking
<1>2. CASE BadDepth
  BY <1>2, Ended DEF BadDepth, Respond, walking
<1>3. CASE Alone
  <2>1. /\ stage = "stat" /\ target \in there /\ (depth = "zero" \/ target \notin Folders)
        /\ stage' = "done" /\ status' = 207 /\ reported' = <<target>> /\ lists' = lists /\ lists = 0
        /\ UNCHANGED <<there, target, depth, kept, seen>>
    BY <1>3 DEF Alone, Respond, InStat, request, history
  <2>2. Past' /\ target \in Nodes /\ target \in seen
    BY <2>1 DEF Past
  <2>3. ReportedOnce'
    BY <2>1, <2>2, JustOne DEF ReportedOnce
  <2>4. WalkExact'
    <3> SUFFICES ASSUME depth = "infinity"
                 PROVE  ToSet(<<target>>) \subseteq seen \cap Below(target) /\ kept \cap Below(target) \subseteq ToSet(<<target>>)
      BY <2>1, VisitsAssumption DEF WalkExact
    <3>1. Below(target) = {target}
      BY <2>1, <2>2, BelowNoFolder
    <3> QED BY <2>2, <3>1, JustOne
  <2> QED BY <2>1, <2>2, <2>3, <2>4 DEF InStat, InList, InWalk, InEnd
<1>4. CASE Enter
  <2>1. /\ stage = "stat" /\ target \in there \cap Folders /\ depth \in {"one", "infinity"}
        /\ lists = 0 /\ status = 0 /\ reported' = <<target>> /\ lists' = 0 /\ status' = 0
        /\ UNCHANGED <<there, target, depth, kept, seen>>
    BY <1>4 DEF Enter, InStat, request, history
  <2>2. Past' /\ target \in Nodes /\ target \in seen
    BY <1>4, <2>1 DEF Past, Enter
  <2>3. CASE depth = "one"
    BY <1>4, <2>1, <2>2, <2>3 DEF Enter, InStat, InList, InWalk, InEnd
  <2>4. CASE depth = "infinity"
    <3>1. stage' = "walk" /\ queue' = <<target>> /\ visited' = {target}
      BY <1>4, <2>4 DEF Enter
    <3>2. Reports(<<target>>, target, seen)
      BY <2>2, TellsOne
    <3>3. Visits(<<target>>, {target}, <<target>>, target, 0)
      <4>1. /\ <<target>> \in Seq(Folders) /\ Len(<<target>>) = 1 /\ IsInjective(<<target>>)
            /\ ToSet(<<target>>) = {target}
        BY <2>1, <2>2, JustOne
      <4>2. IsFiniteSet({target}) /\ Cardinality({target}) = 1
        BY FS_Singleton
      <4>3. 0 + 1 = Lesser(1, MaxVisits - 1)
        BY VisitsAssumption DEF Lesser
      <4> QED BY <2>1, <4>1, <4>2, <4>3 DEF Visits
    <3>4. Covers(<<target>>, {target}, <<target>>, kept)
      BY <2>2, JustOne DEF Covers
    <3> QED BY <2>1, <2>2, <3>1, <3>2, <3>3, <3>4 DEF InStat, InList, InWalk, InEnd
  <2> QED BY <2>1, <2>3, <2>4
<1>5. CASE List
  <2>1. /\ stage = "list" /\ target \in Folders /\ target \in seen /\ reported = <<target>> /\ lists = 0
        /\ lists' = 1 /\ depth = "one"
        /\ stage' = "done" /\ UNCHANGED <<there, target, depth, kept, seen>>
    BY <1>5 DEF List, InList, Respond, request, history
  <2>2. Past' /\ target \in Nodes /\ there \in SUBSET seen /\ seen \in SUBSET Nodes
    BY <2>1 DEF Past
  <2>3. CASE target \in there
    <3>1. reported' = reported \o InOrder(Within(target, there))
      BY <1>5, <2>3 DEF List, Inside, Within
    <3>2. Reports(reported, target, seen) /\ ToSet(reported) = {target}
      BY <2>1, <2>2, TellsOne, JustOne
    <3>3. \A n \in Within(target, there) : n # target
      BY <2>2, TreeAssumption DEF Within
    <3>4. Unreported(reported, target, seen, target, there)
      BY <2>2, <3>2, <3>3 DEF Unreported
    <3>5. PICK r : r = reported'
      OBVIOUS
    <3>6. Reports(r, target, seen)
      BY ONLY <3>1, <3>4, <3>5, TellsMore, Zenon
    <3>7. ReportedOnce'
      BY <3>5, <3>6 DEF ReportedOnce, Reports
    <3> QED BY <2>1, <2>2, <3>7, VisitsAssumption DEF InStat, InList, InWalk, InEnd, WalkExact
  <2>4. CASE target \notin there
    <3>1. ReportedOnce'
      BY <1>5, <2>1, <2>2, <2>4, JustOne DEF List, ReportedOnce
    <3> QED BY <2>1, <2>2, <3>1, VisitsAssumption DEF InStat, InList, InWalk, InEnd, WalkExact
  <2> QED BY <2>3, <2>4
<1>6. CASE LibraryFails
  BY <1>6, Ended DEF LibraryFails, Respond, walking
<1>7. CASE WalkList
  <2>1. /\ stage = "walk" /\ queue # <<>> /\ target \in Folders /\ status = 0
        /\ Reports(reported, target, seen) /\ Visits(queue, visited, reported, target, lists)
        /\ Covers(queue, visited, reported, kept)
        /\ lists' = lists + 1 /\ UNCHANGED <<there, target, depth, stage, status, kept, seen>>
    BY <1>7 DEF WalkList, InWalk, request, history
  <2>2. Past' /\ target \in Nodes /\ there \in SUBSET seen /\ seen \in SUBSET Nodes /\ kept \in SUBSET there
    BY <2>1 DEF Past
  <2>3. PICK new, r, w : new = Inside(Head(queue)) \cap (Folders \ visited) /\ r = reported' /\ w = queue'
    OBVIOUS
  <2>4. Lists(there, queue, visited, reported, w, new, r) /\ visited' = visited \cup new
    BY <1>7, <2>3 DEF WalkList, Inside, Within, Queued, Lists
  <2>5. Stands(target, seen, reported, queue, visited, lists, there, kept)
    BY <2>1, <2>2 DEF Stands
  <2>6. Stands(target, seen, r, w, visited \cup new, lists + 1, there, kept)
    BY ONLY <2>1, <2>4, <2>5, WalkListed
  <2> QED BY <2>1, <2>2, <2>3, <2>4, <2>6 DEF Stands, InStat, InList, InWalk, InEnd
<1>8. CASE WalkGone
  <2>1. /\ stage = "walk" /\ queue # <<>> /\ target \in Folders /\ status = 0 /\ Head(queue) \notin there
        /\ Reports(reported, target, seen) /\ Visits(queue, visited, reported, target, lists)
        /\ Covers(queue, visited, reported, kept)
        /\ lists' = lists + 1 /\ queue' = Tail(queue)
        /\ UNCHANGED <<there, target, depth, stage, status, visited, reported, kept, seen>>
    BY <1>8 DEF WalkGone, InWalk, request, history
  <2>2. Past'
    BY <2>1 DEF Past
  <2>3. queue \in Seq(Folders) /\ IsInjective(queue) /\ ToSet(queue) \subseteq visited
    BY <2>1 DEF Visits
  <2>4. /\ Tail(queue) \in Seq(Folders) /\ Len(Tail(queue)) = Len(queue) - 1 /\ Len(queue) \in Nat
        /\ IsInjective(Tail(queue)) /\ ToSet(Tail(queue)) = ToSet(queue) \ {Head(queue)}
    BY <2>1, <2>3, TailLists, LenProperties
  <2>5. Visits(Tail(queue), visited, reported, target, lists + 1)
    BY <2>1, <2>4 DEF Visits
  <2>6. Covers(Tail(queue), visited, reported, kept)
    <3>1. \A n \in kept \ {Root} : Above[n] # Head(queue)
      BY <2>1, LibrariesAre DEF Past
    <3> QED BY <2>1, <2>4, <3>1 DEF Covers
  <2> QED BY <2>1, <2>2, <2>5, <2>6 DEF InStat, InList, InWalk, InEnd
<1>9. CASE WalkEnds
  <2>1. /\ stage = "walk" /\ queue = <<>> /\ target \in Folders
        /\ Reports(reported, target, seen) /\ Visits(<<>>, visited, reported, target, lists)
        /\ Covers(<<>>, visited, reported, kept)
        /\ stage' = "done" /\ UNCHANGED <<there, target, depth, visited, reported, lists, kept, seen>>
    BY <1>9 DEF WalkEnds, Respond, InWalk, request, history, walking
  <2>2. Past' /\ target \in Nodes /\ seen \in SUBSET Nodes /\ kept \in Libraries
    BY <2>1 DEF Past
  <2>3. lists < MaxVisits /\ (kept \cap Below(target) \subseteq ToSet(reported) \/ lists = MaxVisits - 1)
    BY <2>1, <2>2, WalkedAll
  <2>4. IsInjective(reported) /\ AfterParents(reported) /\ ToSet(reported) \subseteq seen \cap Below(target)
    BY <2>1 DEF Reports
  <2>5. ReportedOnce' /\ WalkExact'
    BY <2>1, <2>3, <2>4 DEF ReportedOnce, WalkExact
  <2> QED BY <2>1, <2>2, <2>5 DEF InStat, InList, InWalk, InEnd
<1>10. CASE Alter
  <2>1. /\ stage # "done" /\ there' \in Libraries /\ kept' = kept \cap there' /\ seen' = seen \cup there'
        /\ UNCHANGED <<target, depth, stage, queue, visited, reported, lists, status>>
    BY <1>10 DEF Alter, request, walking
  <2>2. kept' \in Libraries
    BY <2>1 DEF Past, Libraries
  <2>3. Past' /\ seen \subseteq seen' /\ kept' \subseteq kept
    BY <2>1, <2>2, LibrariesAre DEF Past
  <2>4. InWalk'
    <3> SUFFICES ASSUME stage = "walk" PROVE InWalk'
      BY <2>1 DEF InWalk
    <3>1. Reports(reported, target, seen')
      BY <2>3 DEF InWalk, Reports
    <3>2. Covers(queue, visited, reported, kept')
      BY <2>3 DEF InWalk, Covers
    <3> QED BY <2>1, <3>1, <3>2 DEF InWalk
  <2> QED BY <2>1, <2>3, <2>4 DEF InStat, InList, InEnd
<1>11. CASE UNCHANGED walkVars
  <2>1. UNCHANGED <<there, target, depth, stage, queue, visited, reported, lists, status, kept, seen>>
    BY <1>11 DEF walkVars, request, walking, history
  <2>2. ReportedOnce' = ReportedOnce /\ WalkExact' = WalkExact
    BY <2>1 DEF ReportedOnce, WalkExact
  <2> QED BY <2>1, <2>2 DEF Past, InStat, InList, InWalk, InEnd
<1> QED
  BY <1>1, <1>2, <1>3, <1>4, <1>5, <1>6, <1>7, <1>8, <1>9, <1>10, <1>11 DEF WalkNext, Propfind

THEOREM WalksKeep == WalkSpec => []WalkInv
<1>1. WalkInit => WalkInv
  BY WalkBegins
<1>2. WalkInv /\ [WalkNext]_walkVars => WalkInv'
  BY WalkGoesOn
<1> QED BY <1>1, <1>2, PTL DEF WalkSpec

THEOREM ReportsAreOnce == WalkSpec => []ReportedOnce
<1>1. WalkInv => ReportedOnce
  BY SoFar
<1> QED BY <1>1, WalksKeep, PTL

THEOREM WalksAreExact == WalkSpec => []WalkExact
<1>1. WalkInv => WalkExact
  <2> SUFFICES ASSUME WalkInv PROVE WalkExact
    OBVIOUS
  <2>1. lists < MaxVisits /\ (stage # "done" => status = 0)
    BY SoFar
  <2>2. CASE stage = "done"
    BY <2>2 DEF WalkInv, InEnd
  <2>3. CASE stage # "done"
    BY <2>1, <2>3 DEF WalkExact
  <2> QED BY <2>2, <2>3
<1> QED BY <1>1, WalksKeep, PTL
==================================================================================
