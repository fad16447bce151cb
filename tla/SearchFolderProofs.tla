---------------------------- MODULE SearchFolderProofs ----------------------------
(***************************************************************************)
(* Proofs about SearchFolder, for any number of clients, tracks and edits: *)
(* one rebuild at a time, and a reader sees less than the edits that were  *)
(* answered before it only when one of them overtook a rebuild.            *)
(***************************************************************************)
EXTENDS SearchFolder, TLAPS

---------------------------------------------------------------------------
(* The call of the singleflight group.                                     *)

\* The leader is the one request in the stages of a rebuild, and has read the
\* identities when it stores a snapshot.
Group ==
  /\ stored \subseteq Tracks /\ edits \in Nat
  /\ draft \in Draft \cup {None}
  /\ flight \in Clients \cup {None}
  /\ pc \in [Clients -> Stages]
  /\ OneRebuild
  /\ \A c \in Clients : pc[c] = "store" => draft # None

LEMMA GroupInit == Init => Group
  BY NoneAssumption DEF Init, Group, OneRebuild, Stages, Leading

LEMMA GroupStep == Group /\ [Next]_vars => Group'
<1> SUFFICES ASSUME Group, [Next]_vars PROVE Group'
  OBVIOUS
<1> USE NoneAssumption DEF Group, OneRebuild, Stages, Leading, Goto, End
<1>1. CASE UNCHANGED vars
  BY <1>1 DEF vars, library, table
<1>2. CASE Expire
  BY <1>2 DEF Expire, table
<1>3. ASSUME NEW c \in Clients, NEW p \in Paths \cup {None}, Begin(c, p) PROVE Group'
  BY <1>3 DEF Begin, library, table
<1>4. ASSUME NEW c \in Clients, Edit(c) \/ EditFails(c) PROVE Group'
  BY <1>4 DEF Edit, EditFails, Change, library
<1>5. ASSUME NEW c \in Clients, Request(c) PROVE Group'
  <2>1. CASE Probe(c)
    BY <2>1 DEF Probe, Hit, library, table
  <2>2. CASE Join(c)
    BY <2>2 DEF Join, Lead, table
  <2>3. CASE Recheck(c)
    BY <2>3 DEF Recheck, Hit, library, table
  <2>4. CASE ListIdentities(c)
    <3>1. draft' \in Draft
      BY <2>4 DEF ListIdentities, Draft
    <3>2. draft' # None
      BY <3>1
    <3> QED BY <2>4, <3>1, <3>2 DEF ListIdentities, table
  <2>5. CASE Store(c)
    <3>1. flight = c /\ flight' = flight /\ pc' = [pc EXCEPT ![c] = "land"] /\ draft' = None
          /\ UNCHANGED table
      BY <2>5 DEF Store, table
    <3> QED BY <3>1 DEF table
  <2>6. CASE Land(c)
    <3>1. flight = c /\ flight' = None
      BY <2>6 DEF Land
    <3>2. \A d \in Clients : pc'[d] = IF d = c \/ pc[d] = "wait" THEN "read" ELSE pc[d]
      BY <2>6 DEF Land, Served
    <3>3. pc' \in [Clients -> Stages]
      BY <2>6 DEF Land
    <3> QED BY <2>6, <3>1, <3>2, <3>3 DEF Land, table
  <2>7. CASE FlightFails(c)
    <3>1. flight = c /\ flight' = None
      BY <2>7 DEF FlightFails
    <3>2. \A d \in Clients : pc'[d] = IF d = c \/ pc[d] = "wait" THEN "idle" ELSE pc[d]
      BY <2>7 DEF FlightFails, Served
    <3>3. pc' \in [Clients -> Stages]
      BY <2>7 DEF FlightFails
    <3> QED BY <2>7, <3>1, <3>2, <3>3 DEF FlightFails, table
  <2>8. CASE Read(c)
    BY <2>8 DEF Read, table
  <2>9. CASE Describe(c) \/ DescribeFails(c) \/ Update(c)
    BY <2>9 DEF Describe, DescribeFails, Update, library, table
  <2>10. CASE InvalidateSearch(c)
    BY <2>10 DEF InvalidateSearch, Answer, Draft
  <2> QED BY <1>5, <2>1, <2>2, <2>3, <2>4, <2>5, <2>6, <2>7, <2>8, <2>9, <2>10
            DEF Request, Rebuild
<1> QED BY <1>1, <1>2, <1>3, <1>4, <1>5 DEF Next

LEMMA GroupHolds == Spec => []Group
<1>1. Init => Group
  BY GroupInit
<1>2. Group /\ [Next]_vars => Group'
  BY GroupStep
<1> QED BY <1>1, <1>2, PTL DEF Spec

\* However many requests miss the snapshot at once, one of them rebuilds it
\* and the others wait for that one.
THEOREM RebuildsAreOne == Spec => []OneRebuild
<1>1. Group => OneRebuild
  BY DEF Group
<1> QED BY <1>1, GroupHolds, PTL

---------------------------------------------------------------------------
(* How old a snapshot may be.                                              *)

\* What a snapshot or a draft is worth to a reader that begins now.
Fit(s) == s.asof >= acked \/ s.overtaken

\* The variables that say nothing of who leads the call.
Kinds ==
  /\ acked \in Nat /\ acked <= edits
  /\ heap \in [Ids -> Snapshot \cup {None}]
  /\ entry \in Ids \cup {None} /\ fresh \in BOOLEAN
  /\ at \in [Clients -> Ids \cup {None}]
  /\ req \in [Clients -> [path : Paths \cup {None}, track : Tracks \cup {None}, stamp : Nat]]

\* What is to be handed out is in the heap and fit.
OnOffer ==
  /\ entry # None => heap[entry] # None /\ Fit(heap[entry])
  /\ draft # None => Fit(draft)

\* A client's snapshot is in the heap, is fit while it is being landed, and is
\* as old as it may be while it is read; a number is never ahead of its edit.
Sound(c) ==
  /\ at[c] # None => heap[at[c]] # None
  /\ pc[c] \in {"read", "land"} => at[c] # None
  /\ pc[c] = "land" => Fit(heap[at[c]])
  /\ pc[c] = "read" => heap[at[c]].asof >= req[c].stamp \/ heap[at[c]].overtaken
  /\ pc[c] \in {"describe", "update"} => req[c].track \in Tracks
  /\ req[c].stamp <= edits
  /\ pc[c] # "invalidate" => req[c].stamp <= acked

Levels == Kinds /\ OnOffer /\ \A c \in Clients : Sound(c)

\* A name of a folder is the name of one of its tracks.
LEMMA SnapshotFiles ==
  ASSUME NEW S \in SUBSET Tracks
  PROVE  MakeTrackSnapshot(S) \in Files
<1> DEFINE P == {NameIn(S, t) : t \in S}
<1>1. P \in SUBSET Paths
  BY DEF NameIn, Paths
<1>2. ASSUME NEW p \in P
      PROVE  [track |-> CHOOSE t \in S : NameIn(S, t) = p, known |-> FALSE] \in File
  <2>1. PICK t \in S : NameIn(S, t) = p
    OBVIOUS
  <2>2. (CHOOSE u \in S : NameIn(S, u) = p) \in S
    BY <2>1
  <2> QED BY <2>2 DEF File
<1>3. MakeTrackSnapshot(S) \in [P -> File]
  BY <1>2 DEF MakeTrackSnapshot
<1> QED BY <1>1, <1>3 DEF Files

LEMMA LevelsInit == Init => Levels
<1> SUFFICES ASSUME Init PROVE Levels
  OBVIOUS
<1>1. Kinds
  <2>1. req \in [Clients -> [path : Paths \cup {None}, track : Tracks \cup {None}, stamp : Nat]]
    BY DEF Init, Asking
  <2>2. heap \in [Ids -> Snapshot \cup {None}] /\ at \in [Clients -> Ids \cup {None}]
    BY DEF Init
  <2>3. entry \in Ids \cup {None}
    BY DEF Init
  <2>4. acked \in Nat /\ acked <= edits
    BY DEF Init
  <2>5. fresh \in BOOLEAN
    BY DEF Init
  <2> QED BY <2>1, <2>2, <2>3, <2>4, <2>5 DEF Kinds
<1>2. OnOffer
  BY DEF Init, OnOffer
<1>3. ASSUME NEW c \in Clients PROVE Sound(c)
  BY DEF Init, Sound, Asking
<1> QED BY <1>1, <1>2, <1>3 DEF Levels

\* A step of c that leaves the heap, the entry and what the others do alone.
LEMMA LevelsLocal ==
  ASSUME Levels, NEW c \in Clients,
         UNCHANGED <<acked, heap, entry>>, edits \in Nat, edits' \in Nat, edits <= edits',
         fresh' \in BOOLEAN, draft' # None => Fit(draft)' ,
         at' \in [Clients -> Ids \cup {None}],
         req' \in [Clients -> [path : Paths \cup {None}, track : Tracks \cup {None}, stamp : Nat]],
         Sound(c)',
         \A d \in Clients \ {c} :
           /\ at'[d] = at[d] /\ req'[d] = req[d] /\ pc'[d] = pc[d]
  PROVE  Levels'
<1>1. Kinds'
  BY DEF Levels, Kinds
<1>2. OnOffer'
  BY DEF Levels, OnOffer, Fit
<1>3. ASSUME NEW d \in Clients, d # c PROVE Sound(d)'
  <2>1. Sound(d) /\ req[d].stamp \in Nat
    BY DEF Levels, Kinds
  <2> QED BY <1>3, <2>1 DEF Sound, Fit
<1> QED BY <1>1, <1>2, <1>3 DEF Levels

LEMMA LevelsQuiet ==
  ASSUME Group, Levels, NEW c \in Clients,
         \/ \E p \in Paths \cup {None} : Begin(c, p)
         \/ Edit(c) \/ EditFails(c) \/ Probe(c) \/ Join(c) \/ Recheck(c)
         \/ ListIdentities(c) \/ Describe(c) \/ DescribeFails(c)
  PROVE  Levels'
<1> USE NoneAssumption DEF Group, Levels, Kinds, OnOffer, Stages, Leading, Goto, table, library
<1>1. ASSUME NEW p \in Paths \cup {None}, Begin(c, p) PROVE Levels'
  <2>1. Sound(c)'
    BY <1>1 DEF Begin, Asking, Sound
  <2>2. req' \in [Clients -> [path : Paths \cup {None}, track : Tracks \cup {None}, stamp : Nat]]
    BY <1>1 DEF Begin, Asking
  <2> QED BY <1>1, <2>1, <2>2, LevelsLocal DEF Begin, Fit
<1>2. CASE Edit(c)
  <2>1. Sound(c)'
    BY <1>2 DEF Edit, Change, Asking, Sound
  <2>2. req' \in [Clients -> [path : Paths \cup {None}, track : Tracks \cup {None}, stamp : Nat]]
    BY <1>2 DEF Edit, Asking
  <2> QED BY <1>2, <2>1, <2>2, LevelsLocal DEF Edit, Change, Fit
<1>3. CASE EditFails(c)
  <2>1. Sound(c)'
    BY <1>3 DEF EditFails, Change, Sound, Fit
  <2> QED BY <1>3, <2>1, LevelsLocal DEF EditFails, Change, Fit
<1>4. CASE Probe(c)
  <2>1. Sound(c)'
    <3>1. Sound(c) /\ req[c].stamp \in Nat /\ (entry # None => heap[entry].asof \in Nat)
      BY DEF Snapshot
    <3> QED BY <1>4, <3>1 DEF Probe, Hit, Sound, Fit
  <2> QED BY <1>4, <2>1, LevelsLocal DEF Probe, Hit, Fit
<1>5. CASE Join(c)
  <2>1. Sound(c)'
    BY <1>5 DEF Join, Lead, Sound
  <2> QED BY <1>5, <2>1, LevelsLocal DEF Join, Lead, Fit
<1>6. CASE Recheck(c)
  <2>1. Sound(c)'
    BY <1>6 DEF Recheck, Hit, Sound, Fit
  <2> QED BY <1>6, <2>1, LevelsLocal DEF Recheck, Hit, Fit
<1>7. CASE ListIdentities(c)
  <2>1. Sound(c)'
    BY <1>7 DEF ListIdentities, Sound
  <2>2. draft'.asof = edits /\ acked' = acked
    BY <1>7 DEF ListIdentities
  <2>3. Fit(draft)'
    BY <2>2 DEF Fit
  <2>4. /\ UNCHANGED <<acked, heap, entry, edits, fresh, at, req>>
        /\ \A d \in Clients \ {c} : pc'[d] = pc[d]
    BY <1>7 DEF ListIdentities
  <2> QED BY <2>1, <2>3, <2>4, LevelsLocal
<1>8. CASE Describe(c)
  <2>1. Sound(c)'
    BY <1>8 DEF Describe, Sound
  <2> QED BY <1>8, <2>1, LevelsLocal DEF Describe, Fit
<1>9. CASE DescribeFails(c)
  <2>1. Sound(c)'
    BY <1>9 DEF DescribeFails, End, Asking, Sound
  <2>2. req' \in [Clients -> [path : Paths \cup {None}, track : Tracks \cup {None}, stamp : Nat]]
    BY <1>9 DEF DescribeFails, End, Asking
  <2> QED BY <1>9, <2>1, <2>2, LevelsLocal DEF DescribeFails, End, Fit
<1> QED BY <1>1, <1>2, <1>3, <1>4, <1>5, <1>6, <1>7, <1>8, <1>9

\* The snapshot is stored under a number nobody refers to.
LEMMA LevelsStore ==
  ASSUME Group, Levels, NEW c \in Clients, Store(c)
  PROVE  Levels'
<1> USE NoneAssumption DEF Group, Levels
<1>1. /\ UNCHANGED <<stored, edits, acked, flight, req>>
      /\ fresh' = TRUE /\ draft' = None /\ pc' = [pc EXCEPT ![c] = "land"]
      /\ pc[c] = "store"
  BY DEF Store, table, Goto
<1>2. draft \in Draft /\ Fit(draft)
  BY <1>1 DEF OnOffer
<1> DEFINE Made(S) == [files |-> MakeTrackSnapshot(S),
                       asof |-> draft.asof, overtaken |-> draft.overtaken]
<1>3. PICK S \in SUBSET draft.tracks, i \in Ids :
        /\ heap[i] = None /\ entry' = i /\ at' = [at EXCEPT ![c] = i]
        /\ heap' = Collected([heap EXCEPT ![i] = Made(S)], i, at)
  BY DEF Store
<1>4. Made(S) \in Snapshot
  <2>1. S \in SUBSET Tracks
    BY <1>2 DEF Draft
  <2> QED BY <1>2, <2>1, SnapshotFiles DEF Draft, Snapshot
<1>5. Made(S) # None
  BY <1>4
<1> HIDE DEF Made
<1>6. heap \in [Ids -> Snapshot \cup {None}]
  BY DEF Kinds
<1>7. heap' \in [Ids -> Snapshot \cup {None}]
  BY <1>3, <1>4, <1>6 DEF Collected
<1>8. heap'[i] = Made(S)
  BY <1>3, <1>6 DEF Collected
<1>9. Fit(heap[i])'
  BY <1>1, <1>2, <1>8 DEF Fit, Made
<1>10. Kinds'
  BY <1>1, <1>3, <1>7 DEF Kinds
<1>11. OnOffer'
  BY <1>1, <1>3, <1>5, <1>8, <1>9 DEF OnOffer, Fit
<1>12. ASSUME NEW d \in Clients PROVE Sound(d)'
  <2>1. CASE d = c
    <3>1. at'[c] = i /\ i # None /\ pc'[c] = "land"
      BY <1>1, <1>3 DEF Kinds, Stages
    <3>2. Sound(c) /\ req'[c] = req[c] /\ acked' = acked /\ edits' = edits
      BY <1>1
    <3> QED BY <1>1, <1>5, <1>8, <1>9, <2>1, <3>1, <3>2 DEF Sound, Fit
  <2>2. CASE d # c
    <3>1. at'[d] = at[d] /\ pc'[d] = pc[d] /\ Sound(d)
      BY <1>1, <1>3, <2>2 DEF Kinds
    <3>2. at[d] # None => at[d] \in Ids /\ at[d] # i
      BY <1>3, <3>1 DEF Sound, Kinds
    <3>3. at[d] # None => heap'[at[d]] = heap[at[d]]
      BY <1>3, <1>6, <3>2 DEF Collected
    <3> QED BY <1>1, <3>1, <3>3 DEF Sound, Fit
  <2> QED BY <2>1, <2>2
<1> QED BY <1>10, <1>11, <1>12

\* What is handed out was fit, and is no older than anyone who waits for it.
LEMMA LevelsLand ==
  ASSUME Group, Levels, NEW c \in Clients, Land(c) \/ FlightFails(c)
  PROVE  Levels'
<1> USE NoneAssumption DEF Group, Levels
<1>1. CASE Land(c)
  <2>1. /\ UNCHANGED <<stored, edits, acked, heap, entry, fresh, draft, req>>
        /\ pc[c] = "land"
    BY <1>1 DEF Land, table
  <2>2. \A d \in Clients :
          IF d = c \/ pc[d] = "wait" THEN pc'[d] = "read" /\ at'[d] = at[c]
                                     ELSE pc'[d] = pc[d] /\ at'[d] = at[d]
    BY <1>1 DEF Land, Served
  <2>3. at[c] \in Ids /\ heap[at[c]] \in Snapshot /\ Fit(heap[at[c]])
    BY <2>1 DEF Sound, Kinds
  <2>4. Kinds'
    <3>1. at' \in [Clients -> Ids \cup {None}]
      BY <1>1 DEF Land, Kinds
    <3> QED BY <2>1, <3>1 DEF Kinds
  <2>5. OnOffer'
    BY <2>1 DEF OnOffer, Fit
  <2>6. ASSUME NEW d \in Clients PROVE Sound(d)'
    <3>1. Sound(d) /\ req[d].stamp \in Nat /\ acked \in Nat /\ heap[at[c]].asof \in Nat
      BY <2>3 DEF Kinds, Snapshot
    <3>2. CASE d = c \/ pc[d] = "wait"
      <4>1. pc'[d] = "read" /\ at'[d] = at[c] /\ req[d].stamp <= acked
        BY <2>1, <2>2, <3>1, <3>2 DEF Sound
      <4> QED BY <2>1, <2>3, <3>1, <4>1 DEF Sound, Fit
    <3>3. CASE ~(d = c \/ pc[d] = "wait")
      BY <2>1, <2>2, <3>1, <3>3 DEF Sound, Fit
    <3> QED BY <3>2, <3>3
  <2> QED BY <2>4, <2>5, <2>6
<1>2. CASE FlightFails(c)
  <2>1. UNCHANGED <<stored, edits, acked, heap, entry, fresh, draft, at>>
    BY <1>2 DEF FlightFails, table
  <2>2. \A d \in Clients :
          IF d = c \/ pc[d] = "wait" THEN pc'[d] = "idle" /\ req'[d] = Asking(None, 0)
                                     ELSE pc'[d] = pc[d] /\ req'[d] = req[d]
    BY <1>2 DEF FlightFails, Served, End
  <2>3. req' \in [Clients -> [path : Paths \cup {None}, track : Tracks \cup {None}, stamp : Nat]]
    BY <1>2 DEF FlightFails, End, Kinds, Asking
  <2>4. Kinds'
    BY <2>1, <2>3 DEF Kinds
  <2>5. OnOffer'
    BY <2>1 DEF OnOffer, Fit
  <2>6. ASSUME NEW d \in Clients PROVE Sound(d)'
    <3>1. Sound(d) /\ acked \in Nat /\ edits \in Nat
      BY DEF Kinds
    <3>2. CASE d = c \/ pc[d] = "wait"
      <4>1. pc'[d] = "idle" /\ req'[d].stamp = 0
        BY <2>2, <3>2 DEF Asking
      <4> QED BY <2>1, <3>1, <4>1 DEF Sound
    <3>3. CASE ~(d = c \/ pc[d] = "wait")
      BY <2>1, <2>2, <3>1, <3>3 DEF Sound, Fit
    <3> QED BY <3>2, <3>3
  <2> QED BY <2>4, <2>5, <2>6
<1> QED BY <1>1, <1>2

\* A resource of a snapshot is one of the tracks.
LEMMA EntryTrack ==
  ASSUME NEW files \in Files, NEW p, Entry(files, p).track # None
  PROVE  Entry(files, p).track \in Tracks
<1>1. p \in DOMAIN files
  BY DEF Entry
<1>2. PICK P \in SUBSET Paths : files \in [P -> File]
  BY DEF Files
<1>3. files[p] \in File
  BY <1>1, <1>2
<1> QED BY <1>1, <1>3 DEF Entry, File

LEMMA LevelsRead ==
  ASSUME Group, Levels, NEW c \in Clients, Read(c)
  PROVE  Levels'
<1> USE NoneAssumption DEF Group, Levels
<1>1. /\ pc[c] = "read" /\ at' = [at EXCEPT ![c] = None]
      /\ heap' = Collected(heap, entry, at')
      /\ UNCHANGED <<stored, edits, acked, entry, fresh, flight, draft>>
  BY DEF Read, table
<1> DEFINE r == Entry(heap[at[c]].files, req[c].path)
<1>2. \/ pc' = [pc EXCEPT ![c] = "idle"] /\ req' = [req EXCEPT ![c] = Asking(None, 0)]
      \/ /\ r.track # None /\ pc' = [pc EXCEPT ![c] = "describe"]
         /\ req' = [req EXCEPT ![c].track = r.track]
  <2>1. CASE r.track = None \/ r.known
    <3>1. End({c})
      BY <2>1 DEF Read
    <3> QED BY <3>1 DEF End, Kinds
  <2>2. CASE ~(r.track = None \/ r.known)
    BY <2>2 DEF Read, Goto
  <2> QED BY <2>1, <2>2
<1>3. heap[at[c]].files \in Files
  BY <1>1 DEF Sound, Kinds, Snapshot
<1>4. r.track # None => r.track \in Tracks
  BY <1>3, EntryTrack
<1> HIDE DEF r
<1>5. heap' \in [Ids -> Snapshot \cup {None}]
  BY <1>1 DEF Collected, Kinds
<1>6. req' \in [Clients -> [path : Paths \cup {None}, track : Tracks \cup {None}, stamp : Nat]]
  <2> DEFINE Q == [path : Paths \cup {None}, track : Tracks \cup {None}, stamp : Nat]
  <2>1. req \in [Clients -> Q] /\ Asking(None, 0) \in Q
    BY DEF Kinds, Asking
  <2>2. [req[c] EXCEPT !.track = r.track] \in Q
    BY <1>4, <2>1
  <2>3. req' \in [Clients -> Q]
    <3> HIDE DEF Q
    <3> QED BY <1>2, <2>1, <2>2
  <2> QED BY <2>3
<1>7. Kinds'
  BY <1>1, <1>5, <1>6 DEF Kinds
<1>8. OnOffer'
  <2>1. entry # None => heap'[entry] = heap[entry]
    BY <1>1 DEF Collected, Kinds
  <2> QED BY <1>1, <2>1 DEF OnOffer, Fit
<1>9. ASSUME NEW d \in Clients PROVE Sound(d)'
  <2>1. Sound(d) /\ acked \in Nat /\ edits \in Nat
    BY DEF Kinds
  <2>2. CASE d = c
    <3>1. at'[c] = None
      BY <1>1 DEF Kinds
    <3>3. pc'[c] = "idle" \/ (pc'[c] = "describe" /\ req'[c].track \in Tracks)
      <4>1. req[c] \in [path : Paths \cup {None}, track : Tracks \cup {None}, stamp : Nat]
        BY DEF Kinds
      <4> QED BY <1>2, <1>4, <4>1 DEF Kinds
    <3>2. req'[c].stamp = 0 \/ req'[c].stamp = req[c].stamp
      BY <1>2 DEF Kinds, Asking
    <3> QED BY <1>1, <2>1, <2>2, <3>1, <3>2, <3>3 DEF Sound
  <2>3. CASE d # c
    <3>1. pc'[d] = pc[d] /\ req'[d] = req[d] /\ at'[d] = at[d]
      BY <1>1, <1>2, <2>3 DEF Kinds
    <3>2. at[d] # None => heap'[at[d]] = heap[at[d]]
      BY <1>1, <3>1 DEF Collected, Kinds
    <3> QED BY <1>1, <2>1, <3>1, <3>2 DEF Sound, Fit
  <2> QED BY <2>2, <2>3
<1> QED BY <1>7, <1>8, <1>9

\* An update changes a resource of the entry, and not how old the entry is.
LEMMA LevelsUpdate ==
  ASSUME Group, Levels, NEW c \in Clients, Update(c)
  PROVE  Levels'
<1> USE NoneAssumption DEF Group, Levels
<1>1. /\ UNCHANGED <<stored, edits, acked, entry, fresh, flight, draft, at>>
      /\ pc[c] = "update" /\ pc' = [pc EXCEPT ![c] = "idle"]
      /\ req' = [req EXCEPT ![c] = Asking(None, 0)]
  BY DEF Update, table, End, Kinds
<1> DEFINE p == req[c].path
           new == [track |-> req[c].track, known |-> TRUE]
<1>2. \/ heap' = heap
      \/ /\ entry # None /\ p \in DOMAIN heap[entry].files
         /\ heap' = [heap EXCEPT ![entry].files[p] = new]
  BY DEF Update
<1>3. new \in File
  BY <1>1 DEF Sound, File
<1> HIDE DEF p, new
<1>4. \A i \in Ids :
        \/ heap'[i] = heap[i]
        \/ /\ i = entry /\ heap[i] # None /\ heap'[i] \in Snapshot
           /\ heap'[i].asof = heap[i].asof /\ heap'[i].overtaken = heap[i].overtaken
  <2>1. CASE heap' = heap
    BY <2>1
  <2>2. CASE /\ entry # None /\ p \in DOMAIN heap[entry].files
             /\ heap' = [heap EXCEPT ![entry].files[p] = new]
    <3>1. entry \in Ids /\ heap[entry] \in Snapshot
      BY <2>2 DEF OnOffer, Kinds
    <3>2. PICK P \in SUBSET Paths : heap[entry].files \in [P -> File]
      BY <3>1 DEF Snapshot, Files
    <3>3. [heap[entry].files EXCEPT ![p] = new] \in [P -> File]
      BY <1>3, <3>2
    <3>4. [heap[entry].files EXCEPT ![p] = new] \in Files
      BY <3>3 DEF Files
    <3>5. heap'[entry] = [heap[entry] EXCEPT !.files = [heap[entry].files EXCEPT ![p] = new]]
      BY <2>2, <3>1 DEF Kinds
    <3>6. [heap[entry] EXCEPT !.files = [heap[entry].files EXCEPT ![p] = new]] \in Snapshot
      BY <3>1, <3>4 DEF Snapshot
    <3>7. heap'[entry].asof = heap[entry].asof /\ heap'[entry].overtaken = heap[entry].overtaken
      BY <3>1, <3>5 DEF Snapshot
    <3>8. \A i \in Ids : i # entry => heap'[i] = heap[i]
      BY <2>2, <3>1 DEF Kinds
    <3>9. heap'[entry] \in Snapshot /\ heap[entry] # None
      BY <3>1, <3>5, <3>6
    <3> QED BY <3>7, <3>8, <3>9
  <2> QED BY <1>2, <2>1, <2>2
<1>5. heap' \in [Ids -> Snapshot \cup {None}]
  <2>1. heap' \in [Ids -> {heap'[i] : i \in Ids}]
    BY <1>2 DEF Kinds
  <2> QED BY <1>4, <2>1 DEF Kinds
<1>6. Kinds'
  BY <1>1, <1>5 DEF Kinds, Asking
<1>7. OnOffer'
  BY <1>1, <1>4 DEF OnOffer, Kinds, Fit
<1>8. ASSUME NEW d \in Clients PROVE Sound(d)'
  <2>1. Sound(d) /\ acked \in Nat /\ edits \in Nat /\ at[d] \in Ids \cup {None}
    BY DEF Kinds
  <2>2. CASE d = c
    <3>1. pc'[c] = "idle" /\ req'[c].stamp = 0
      BY <1>1 DEF Kinds, Asking
    <3> QED BY <1>1, <1>4, <2>1, <2>2, <3>1 DEF Sound
  <2>3. CASE d # c
    <3>1. pc'[d] = pc[d] /\ req'[d] = req[d]
      BY <1>1, <2>3 DEF Kinds
    <3> QED BY <1>1, <1>4, <2>1, <3>1 DEF Sound, Fit
  <2> QED BY <2>2, <2>3
<1> QED BY <1>6, <1>7, <1>8

\* Nothing is on offer after an invalidation that is not marked.
LEMMA LevelsInvalidate ==
  ASSUME Group, Levels, NEW c \in Clients, InvalidateSearch(c)
  PROVE  Levels'
<1> USE NoneAssumption DEF Group, Levels
<1> DEFINE landing == flight # None /\ pc[flight] = "land"
           marked == IF landing THEN [heap EXCEPT ![at[flight]].overtaken = TRUE] ELSE heap
<1>1. /\ UNCHANGED <<stored, edits, fresh, flight, at>> /\ entry' = None
      /\ heap' = Collected(marked, None, at)
      /\ pc[c] = "invalidate" /\ pc' = [pc EXCEPT ![c] = "idle"]
      /\ req' = [req EXCEPT ![c] = Asking(None, 0)]
  BY DEF InvalidateSearch, Answer, End, Kinds
<1>2. acked' \in Nat /\ acked <= acked' /\ acked' <= edits
  <2>1. acked' = IF req[c].stamp > acked THEN req[c].stamp ELSE acked
    BY DEF InvalidateSearch, Answer
  <2>2. req[c].stamp \in Nat /\ req[c].stamp <= edits
    BY DEF Kinds, Sound
  <2> QED BY <2>1, <2>2 DEF Kinds
<1>3. draft' # None => draft'.overtaken
  <2>1. draft # None => draft' = [draft EXCEPT !.overtaken = TRUE] /\ draft \in Draft
    BY DEF InvalidateSearch, Answer
  <2>2. draft = None => draft' = None
    BY DEF InvalidateSearch, Answer
  <2> QED BY <2>1, <2>2 DEF Draft
<1>4. \A i \in Ids :
        /\ marked[i] \in Snapshot \cup {None}
        /\ marked[i] = None <=> heap[i] = None
        /\ heap[i] # None => marked[i].asof = heap[i].asof
        /\ heap[i] # None /\ heap[i].overtaken => marked[i].overtaken
        /\ landing /\ i = at[flight] => marked[i].overtaken
  <2>1. CASE landing
    <3>1. flight \in Clients /\ at[flight] \in Ids /\ heap[at[flight]] \in Snapshot
      BY <2>1 DEF Sound, Kinds
    <3>2. marked[at[flight]] = [heap[at[flight]] EXCEPT !.overtaken = TRUE]
      BY <2>1, <3>1 DEF Kinds
    <3>3. /\ marked[at[flight]] \in Snapshot /\ marked[at[flight]].overtaken
          /\ marked[at[flight]].asof = heap[at[flight]].asof
      BY <3>1, <3>2 DEF Snapshot
    <3>4. \A i \in Ids : i # at[flight] => marked[i] = heap[i]
      BY <2>1, <3>1 DEF Kinds
    <3>5. \A i \in Ids : heap[i] \in Snapshot \cup {None}
      BY DEF Kinds
    <3> HIDE DEF marked
    <3> QED BY <3>1, <3>3, <3>4, <3>5
  <2>2. CASE ~landing
    BY <2>2 DEF Kinds
  <2> QED BY <2>1, <2>2
<1> HIDE DEF marked
<1>5. /\ \A i \in Ids : heap'[i] = None \/ heap'[i] = marked[i]
      /\ \A d \in Clients : at[d] # None => heap'[at[d]] = marked[at[d]]
      /\ heap' \in [Ids -> {heap'[i] : i \in Ids}]
  BY <1>1 DEF Collected, Kinds
<1>6. heap' \in [Ids -> Snapshot \cup {None}]
  BY <1>4, <1>5
<1>7. req' \in [Clients -> [path : Paths \cup {None}, track : Tracks \cup {None}, stamp : Nat]]
  BY <1>1 DEF Kinds, Asking
<1>8. Kinds'
  BY <1>1, <1>2, <1>6, <1>7 DEF Kinds
<1>9. OnOffer'
  BY <1>1, <1>3 DEF OnOffer, Fit
<1>10. ASSUME NEW d \in Clients PROVE Sound(d)'
  <2>1. /\ Sound(d) /\ acked \in Nat /\ edits \in Nat /\ at[d] \in Ids \cup {None}
        /\ req[d].stamp \in Nat
    BY DEF Kinds
  <2>2. CASE d = c
    <3>1. pc'[c] = "idle" /\ req'[c].stamp = 0 /\ at'[c] = at[c]
      BY <1>1 DEF Kinds, Asking
    <3> QED BY <1>1, <1>2, <1>4, <1>5, <2>1, <2>2, <3>1 DEF Sound
  <2>3. CASE d # c
    <3>1. pc'[d] = pc[d] /\ req'[d] = req[d] /\ at'[d] = at[d]
      BY <1>1, <2>3 DEF Kinds
    <3>2. pc[d] = "land" => landing /\ d = flight
      BY DEF OneRebuild, Leading
    <3>3. at[d] # None => /\ heap'[at[d]] # None
                          /\ heap'[at[d]].asof = heap[at[d]].asof
                          /\ heap[at[d]].overtaken => heap'[at[d]].overtaken
                          /\ pc[d] = "land" => heap'[at[d]].overtaken
      BY <1>4, <1>5, <2>1, <3>2 DEF Sound
    <3> QED BY <1>1, <1>2, <2>1, <3>1, <3>3 DEF Sound, Fit
  <2> QED BY <2>2, <2>3
<1> QED BY <1>8, <1>9, <1>10

LEMMA LevelsStep == Group /\ Levels /\ [Next]_vars => Levels'
<1> SUFFICES ASSUME Group, Levels, [Next]_vars PROVE Levels'
  OBVIOUS
<1>1. CASE UNCHANGED vars \/ Expire
  <2>1. /\ UNCHANGED <<stored, edits, acked, heap, entry, flight, draft, pc, at, req>>
        /\ fresh' = fresh \/ fresh' = FALSE
    BY <1>1 DEF vars, table, library, Expire
  <2>2. Kinds' /\ OnOffer'
    BY <2>1 DEF Levels, Kinds, OnOffer, Fit
  <2>3. ASSUME NEW d \in Clients PROVE Sound(d)'
    BY <2>1 DEF Levels, Sound, Fit
  <2> QED BY <2>2, <2>3 DEF Levels
<1>2. ASSUME NEW c \in Clients,
             \/ \E p \in Paths \cup {None} : Begin(c, p)
             \/ Request(c) \/ Edit(c) \/ EditFails(c)
      PROVE  Levels'
  BY <1>2, LevelsQuiet, LevelsStore, LevelsLand, LevelsRead, LevelsUpdate, LevelsInvalidate
     DEF Request, Rebuild
<1> QED BY <1>1, <1>2 DEF Next

LEMMA LevelsHold == Spec => [](Group /\ Levels)
<1>1. Init => Group /\ Levels
  BY GroupInit, LevelsInit
<1>2. (Group /\ Levels) /\ [Next]_vars => (Group /\ Levels)'
  BY GroupStep, LevelsStep
<1> QED BY <1>1, <1>2, PTL DEF Spec

---------------------------------------------------------------------------
(* What the paths of a snapshot lead to.                                   *)

Titled(files) == \A p \in DOMAIN files : Title(files[p].track) = p.title

\* A request that has found a track has found it under a path of its title.
Fitting ==
  /\ \A i \in Ids : heap[i] # None => Titled(heap[i].files)
  /\ \A c \in Clients : pc[c] \in {"describe", "update"} => Title(req[c].track) = req[c].path.title

LEMMA NamesAreTitled ==
  ASSUME NEW S \in SUBSET Tracks
  PROVE  Titled(MakeTrackSnapshot(S))
<1> SUFFICES ASSUME NEW p \in DOMAIN MakeTrackSnapshot(S)
             PROVE  Title(MakeTrackSnapshot(S)[p].track) = p.title
  BY DEF Titled
<1>1. PICK t \in S : NameIn(S, t) = p
  BY DEF MakeTrackSnapshot
<1>2. PICK u : u = CHOOSE o \in S : NameIn(S, o) = p
  OBVIOUS
<1>3. u \in S /\ NameIn(S, u) = p
  BY <1>1, <1>2
<1>4. MakeTrackSnapshot(S)[p].track = u
  BY <1>2 DEF MakeTrackSnapshot
<1>5. NameIn(S, u).title = Title(u)
  BY DEF NameIn, Path
<1> QED BY <1>3, <1>4, <1>5

\* A step that leaves the files of every snapshot it keeps alone.
LEMMA FittingKept ==
  ASSUME Fitting,
         \A i \in Ids : heap'[i] # None => heap[i] # None /\ heap'[i].files = heap[i].files,
         \A c \in Clients : pc'[c] \in {"describe", "update"} =>
           pc[c] \in {"describe", "update"} /\ req'[c] = req[c]
  PROVE  Fitting'
  BY DEF Fitting, Titled

LEMMA FittingStep == Group /\ Levels /\ Fitting /\ [Next]_vars => Fitting'
<1> SUFFICES ASSUME Group, Levels, Fitting, [Next]_vars PROVE Fitting'
  OBVIOUS
<1> USE NoneAssumption
<1>0. /\ pc \in [Clients -> Stages] /\ heap \in [Ids -> Snapshot \cup {None}]
      /\ req \in [Clients -> [path : Paths \cup {None}, track : Tracks \cup {None}, stamp : Nat]]
      /\ at \in [Clients -> Ids \cup {None}] /\ entry \in Ids \cup {None}
  BY DEF Group, Levels, Kinds
<1>1. CASE UNCHANGED vars \/ Expire
  BY <1>1, FittingKept DEF vars, table, library, Expire
<1>2. ASSUME NEW c \in Clients,
             \/ \E p \in Paths \cup {None} : Begin(c, p)
             \/ Edit(c) \/ EditFails(c) \/ Probe(c) \/ Join(c) \/ Recheck(c)
             \/ ListIdentities(c) \/ Describe(c) \/ DescribeFails(c)
      PROVE  Fitting'
  <2>1. UNCHANGED heap
    BY <1>2 DEF Begin, Edit, EditFails, Probe, Join, Recheck, ListIdentities, Describe, DescribeFails, library
  <2>2. \A d \in Clients : pc'[d] \in {"describe", "update"} =>
          pc[d] \in {"describe", "update"} /\ req'[d] = req[d]
    BY <1>0, <1>2 DEF Begin, Edit, EditFails, Probe, Join, Lead, Recheck, Hit, ListIdentities, Describe,
       DescribeFails, Goto, End
  <2> QED BY <2>1, <2>2, FittingKept
<1>3. ASSUME NEW c \in Clients, Store(c) PROVE Fitting'
  <2>1. pc' = [pc EXCEPT ![c] = "land"] /\ req' = req /\ pc[c] = "store" /\ draft \in Draft
    BY <1>3 DEF Store, Goto, Group
  <2>2. PICK S \in SUBSET draft.tracks, i \in Ids :
          heap' = Collected([heap EXCEPT ![i] = [files |-> MakeTrackSnapshot(S),
                                                 asof |-> draft.asof, overtaken |-> draft.overtaken]], i, at)
    BY <1>3 DEF Store
  <2>3. S \in SUBSET Tracks
    BY <2>1 DEF Draft
  <2>4. \A k \in Ids : heap'[k] # None =>
          \/ heap'[k] = heap[k] /\ heap[k] # None
          \/ heap'[k].files = MakeTrackSnapshot(S)
    BY <1>0, <2>2 DEF Collected
  <2> QED BY <1>0, <2>1, <2>3, <2>4, NamesAreTitled DEF Fitting, Stages
<1>4. ASSUME NEW c \in Clients, Land(c) \/ FlightFails(c) PROVE Fitting'
  <2>1. UNCHANGED heap /\ \A d \in Clients : pc'[d] \in {"describe", "update"} =>
          pc[d] \in {"describe", "update"} /\ req'[d] = req[d]
    BY <1>0, <1>4 DEF Land, FlightFails, End
  <2> QED BY <2>1, FittingKept
<1>5. ASSUME NEW c \in Clients, Read(c) PROVE Fitting'
  <2>1. pc[c] = "read" /\ heap' = Collected(heap, entry, at')
    BY <1>5 DEF Read
  <2>2. \A k \in Ids : heap'[k] # None => heap'[k] = heap[k]
    BY <2>1 DEF Collected
  <2>3. at[c] \in Ids /\ heap[at[c]] # None
    BY <1>0, <2>1 DEF Levels, Sound
  <2> DEFINE r == Entry(heap[at[c]].files, req[c].path)
  <2>4. r.track # None => Title(r.track) = req[c].path.title
    BY <2>3 DEF Entry, Fitting, Titled
  <2>5. \/ pc' = [pc EXCEPT ![c] = "idle"] /\ req' = [req EXCEPT ![c] = Asking(None, 0)]
        \/ /\ r.track # None /\ pc' = [pc EXCEPT ![c] = "describe"]
           /\ req' = [req EXCEPT ![c].track = r.track]
    <3>1. CASE r.track = None \/ r.known
      BY <1>0, <1>5, <3>1 DEF Read, End
    <3>2. CASE ~(r.track = None \/ r.known)
      BY <1>5, <3>2 DEF Read, Goto
    <3> QED BY <3>1, <3>2
  <2> HIDE DEF r
  <2>6. \A d \in Clients : pc'[d] \in {"describe", "update"} => Title(req'[d].track) = req'[d].path.title
    <3> SUFFICES ASSUME NEW d \in Clients, pc'[d] \in {"describe", "update"}
                 PROVE  Title(req'[d].track) = req'[d].path.title
      OBVIOUS
    <3>1. CASE d = c
      <4>1. r.track # None /\ req'[c].track = r.track /\ req'[c].path = req[c].path
        BY <1>0, <2>5, <3>1
      <4> QED BY <2>4, <3>1, <4>1
    <3>2. CASE d # c
      <4>1. req'[d] = req[d] /\ pc'[d] = pc[d]
        BY <1>0, <2>5, <3>2
      <4> QED BY <4>1 DEF Fitting
    <3> QED BY <3>1, <3>2
  <2> QED BY <2>2, <2>6 DEF Fitting
<1>6. ASSUME NEW c \in Clients, Update(c) PROVE Fitting'
  <2> DEFINE p == req[c].path
             new == [track |-> req[c].track, known |-> TRUE]
  <2>1. pc[c] = "update" /\ pc' = [pc EXCEPT ![c] = "idle"] /\ req' = [req EXCEPT ![c] = Asking(None, 0)]
    BY <1>0, <1>6 DEF Update, End
  <2>2. Title(new.track) = p.title
    BY <2>1 DEF Fitting
  <2>3. \/ heap' = heap
        \/ /\ entry # None /\ p \in DOMAIN heap[entry].files
           /\ heap' = [heap EXCEPT ![entry].files[p] = new]
    BY <1>6 DEF Update
  <2> HIDE DEF p, new
  <2>4. \A d \in Clients : pc'[d] \in {"describe", "update"} => pc[d] = pc'[d] /\ req'[d] = req[d]
    BY <1>0, <2>1
  <2>5. CASE heap' = heap
    BY <2>4, <2>5, FittingKept
  <2>6. CASE /\ entry # None /\ p \in DOMAIN heap[entry].files
             /\ heap' = [heap EXCEPT ![entry].files[p] = new]
    <3>1. entry \in Ids /\ heap[entry] # None /\ heap[entry] \in Snapshot
      BY <1>0, <2>6 DEF Levels, OnOffer
    <3>2. Titled(heap[entry].files)
      BY <3>1 DEF Fitting
    <3>3. PICK P \in SUBSET Paths : heap[entry].files \in [P -> File]
      BY <3>1 DEF Snapshot, Files
    <3>4. heap'[entry].files = [heap[entry].files EXCEPT ![p] = new]
      BY <1>0, <2>6, <3>1 DEF Snapshot
    <3>5. Titled(heap'[entry].files)
      BY <2>2, <3>2, <3>3, <3>4 DEF Titled
    <3>6. \A k \in Ids : k # entry => heap'[k] = heap[k]
      BY <1>0, <2>6, <3>1
    <3> QED BY <2>4, <3>5, <3>6 DEF Fitting
  <2> QED BY <2>3, <2>5, <2>6
<1>7. ASSUME NEW c \in Clients, InvalidateSearch(c) PROVE Fitting'
  <2> DEFINE landing == flight # None /\ pc[flight] = "land"
             marked == IF landing THEN [heap EXCEPT ![at[flight]].overtaken = TRUE] ELSE heap
  <2>1. heap' = Collected(marked, None, at) /\ pc' = [pc EXCEPT ![c] = "idle"]
        /\ req' = [req EXCEPT ![c] = Asking(None, 0)]
    BY <1>0, <1>7 DEF InvalidateSearch, Answer, End
  <2>2. \A k \in Ids : marked[k] # None => heap[k] # None /\ marked[k].files = heap[k].files
    <3>1. CASE landing
      <4>1. at[flight] \in Ids /\ heap[at[flight]] \in Snapshot /\ heap[at[flight]] # None
        BY <1>0, <3>1 DEF Group, Levels, Sound
      <4>2. marked[at[flight]] = [heap[at[flight]] EXCEPT !.overtaken = TRUE]
        BY <1>0, <3>1, <4>1
      <4>3. marked[at[flight]].files = heap[at[flight]].files
        BY <4>1, <4>2 DEF Snapshot
      <4>4. \A k \in Ids : k # at[flight] => marked[k] = heap[k]
        BY <1>0, <3>1, <4>1
      <4> HIDE DEF marked
      <4> QED BY <4>1, <4>3, <4>4
    <3>2. CASE ~landing
      BY <3>2
    <3> QED BY <3>1, <3>2
  <2> HIDE DEF marked
  <2>3. \A k \in Ids : heap'[k] # None => heap'[k] = marked[k]
    BY <2>1 DEF Collected
  <2>4. \A d \in Clients : pc'[d] \in {"describe", "update"} => pc[d] = pc'[d] /\ req'[d] = req[d]
    BY <1>0, <2>1
  <2> QED BY <2>2, <2>3, <2>4, FittingKept
<1> QED BY <1>1, <1>2, <1>3, <1>4, <1>5, <1>6, <1>7 DEF Next, Request, Rebuild

\* The snapshots a request may be handed or may read are in the heap, and each path
\* of every snapshot leads to a track of its title, also after updates with what was
\* found in another: for any number of requests, tracks and edits.
THEOREM PathsKeepTheirTitles == Spec => []PathsLeadToTheirTitles
<1>1. Init => Fitting
  BY DEF Init, Fitting
<1>2. Group /\ Levels /\ Fitting => PathsLeadToTheirTitles
  BY DEF Levels, OnOffer, Sound, Fitting, Titled, PathsLeadToTheirTitles
<1> QED BY <1>1, <1>2, FittingStep, LevelsHold, PTL DEF Spec

\* A reader is handed a snapshot older than an edit answered before it began
\* only if an invalidation overtook the call that made the snapshot.
THEOREM StalenessIsTheRace == Spec => []StaleOnlyIfOvertaken
<1>1. Levels => StaleOnlyIfOvertaken
  BY DEF Levels, Sound, StaleOnlyIfOvertaken
<1> QED BY <1>1, LevelsHold, PTL

==================================================================================
