-------------------------------- MODULE SongLists --------------------------------
(***************************************************************************)
(* Lists of songs that take the adapter several requests (LikedTracks,     *)
(* Playlist and tracksByIDs, internal/source/netease/adapter.go), composed *)
(* with the batches of TrackBatches: those are how the built-in API is     *)
(* asked for the songs of a list. An external API is asked for a hundred   *)
(* at a time in turn, and for a playlist by pages, and in between the      *)
(* account may change.                                                     *)
(*                                                                         *)
(* One call at a time, as calls share nothing but the session; one list,   *)
(* the liked songs or a playlist as the call has it. Of the built-in API's *)
(* lists only the length matters, as in TrackBatches; it answers for a     *)
(* whole playlist at once, which is left out.                              *)
(***************************************************************************)
EXTENDS TrackBatches

CONSTANTS
  Ids,         \* of songs
  TurnSize,    \* ids to a request of the external API, 100 in the code
  PageSize,    \* songs to a page, 500 in the code
  MaxChanges   \* bound on the changes of the account

ASSUME ListsAssumption ==
  IsFiniteSet(Ids) /\ {TurnSize, PageSize} \subseteq Nat \ {0} /\ MaxChanges \in Nat

VARIABLES
  external,  \* does the program use an external API?
  list,      \* the ids of the list, in its order
  hidden,    \* the songs the source has taken down and says nothing of
  changes,
  ask,       \* the call's next request, "none" between calls
  wanted,    \* the ids to be asked for in turn
  count,     \* the playlist's trackCount
  offset,
  tracks,    \* the songs so far
  result,    \* the last call's answer, when the external API gave it
  last       \* ghost: what that call was for, and the changes when it began

account == <<list, hidden, changes>>
progress == <<wanted, count, offset, tracks>>
listVars == <<vars, external, account, ask, progress, result, last>>

Lists == {s \in UNION {[1..n -> Ids] : n \in 0..Cardinality(Ids)} : IsInjective(s)}

ListInit ==
  /\ Init
  /\ external \in BOOLEAN
  /\ list \in (IF external THEN Lists ELSE {<<>>})
  /\ hidden \in (IF external THEN SUBSET Ids ELSE {{}}) /\ changes = 0
  /\ ask = "none" /\ wanted = <<>> /\ count = 0 /\ offset = 0 /\ tracks = <<>>
  /\ result = Failed /\ last = [for |-> "likes", changes |-> 0]

\* A list without some of its ids.
Without(s, gone) ==
  LET kept[n \in 0..Len(s)] ==
        IF n = 0 THEN <<>>
        ELSE IF s[n] \in gone THEN kept[n - 1] ELSE Append(kept[n - 1], s[n])
  IN kept[Len(s)]

\* What the source answers for some ids: a song for each it knows.
Known(s) == Without(s, hidden)

\* At most n entries of s, from an offset on.
From(s, o, n) == SubSeq(s, o + 1, IF o + n < Len(s) THEN o + n ELSE Len(s))

Return(r) == ask' = "none" /\ result' = r

---------------------------------------------------------------------------
(* Calls.                                                                  *)

Begin(what, first) ==
  /\ ask = "none"
  /\ ask' = first /\ last' = [for |-> what, changes |-> changes]
  /\ UNCHANGED <<vars, external, account, progress, result>>

\* LikedTracks asks for the profile first, for its user id.
LikedTracks == Begin("likes", "profile")

Playlist == external /\ Begin("playlist", "detail")

Profile ==
  /\ ask = "profile"
  /\ ask' = "likes"
  /\ UNCHANGED <<vars, external, account, progress, result, last>>

\* The ids of the liked songs, for the built-in API's tracksByIDs ...
LikesForBatches ==
  /\ ask = "likes" /\ ~external
  /\ \E n \in 0..MaxIds : Call(n)
  /\ ask' = "batches"
  /\ UNCHANGED <<external, account, progress, result, last>>

\* ... or the external one's.
LikesForTurns ==
  /\ ask = "likes" /\ external
  /\ IF list = <<>> THEN Return(Songs(<<>>)) ELSE ask' = "turn" /\ UNCHANGED result
  /\ wanted' = list /\ offset' = 0 /\ tracks' = <<>>
  /\ UNCHANGED <<vars, external, account, count, last>>

Batching ==
  /\ ask = "batches" /\ (Caller \/ \E b \in Batches : Goroutine(b))
  /\ UNCHANGED <<external, account, ask, progress, result, last>>

\* tracksByIDs has returned: its answer is the call's.
Batched ==
  /\ ask = "batches" /\ at = "idle"
  /\ ask' = "none"
  /\ UNCHANGED <<vars, external, account, progress, result, last>>

\* A loop ends with all songs so far, or goes on with the next request.
Collected(songs, n, ends) ==
  /\ tracks' = tracks \o songs /\ offset' = offset + n
  /\ IF ends THEN Return(Songs(tracks')) ELSE UNCHANGED <<ask, result>>
  /\ UNCHANGED <<vars, external, account, wanted, count, last>>

\* The next batch of ids.
Turn ==
  /\ ask = "turn"
  /\ Collected(Known(From(wanted, offset, TurnSize)), TurnSize, offset + TurnSize >= Len(wanted))

Detail ==
  /\ ask = "detail"
  /\ ask' = "page" /\ count' = Len(list) /\ offset' = 0 /\ tracks' = <<>>
  /\ UNCHANGED <<vars, external, account, wanted, result, last>>

\* The next page of the playlist as it is by then.
NextPage == Known(From(list, offset, PageSize))

\* Slip: a full page taken for the last.
SlipPage ==
  /\ ask = "page"
  /\ Collected(NextPage, PageSize, Len(NextPage) <= PageSize)

\* A page that is not full ends the loop, as does the end of the count.
Page ==
  /\ ask = "page"
  /\ Collected(NextPage, PageSize, Len(NextPage) < PageSize \/ offset + PageSize >= count)

\* The session is missing, or the source refuses.
AskFails ==
  /\ Faults /\ ask \in {"profile", "likes", "turn", "detail", "page"}
  /\ Return(Failed)
  /\ UNCHANGED <<vars, external, account, progress, last>>

\* The account's owner, or the source, changes the list.
Change ==
  /\ external /\ changes < MaxChanges
  /\ list' \in Lists /\ hidden' \in SUBSET Ids /\ changes' = changes + 1
  /\ UNCHANGED <<vars, external, ask, progress, result, last>>

ListNext ==
  \/ LikedTracks \/ Playlist \/ Profile \/ LikesForBatches \/ LikesForTurns
  \/ Batching \/ Batched \/ Turn \/ Detail \/ Page \/ AskFails
  \/ Change

ListSpec == ListInit /\ [][ListNext]_listVars

---------------------------------------------------------------------------
(* Properties.                                                             *)

\* Does a page before the last miss a song the source has taken down?
CutShort == \E i \in DOMAIN list : list[i] \in hidden /\ i <= ((Len(list) - 1) \div PageSize) * PageSize

\* A list that did not change during the call is answered with every song the
\* source knows, in the list's order and once, wherever batches and pages end;
\* a playlist, at least its beginning where a page comes back short, as the loop
\* takes that for the last (adapter.go:357-376, 752-769; docs/current-
\* capabilities.md:80 promises all songs). A list that does change may lose
\* songs to the shift between pages or repeat them.
ListExact ==
  ask = "none" /\ ~result.failed /\ last.changes = changes =>
    /\ IsPrefix(result.songs, Known(list))
    /\ last.for = "likes" \/ ~CutShort => result.songs = Known(list)
==================================================================================
