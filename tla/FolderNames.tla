------------------------------- MODULE FolderNames -------------------------------
(***************************************************************************)
(* The files of one folder of tracks: makeTrackSnapshot of                 *)
(* internal/library/virtual.go with the names of filename.go.              *)
(*                                                                         *)
(* A file name is its base and its extension. A base begins with what      *)
(* AudioFilename makes of title and artists and goes on with the           *)
(* identities a collision appends; sanitizing and the cut at 240 bytes     *)
(* happen before names are compared and are left out, as are sizes, dates, *)
(* and titles that look like another's collision name. Identities are      *)
(* ordered as numbers. The listing is a set of paths with their owners;    *)
(* how often a path is in the list is FolderWalk's matter.                 *)
(***************************************************************************)
EXTENDS Integers, Sequences, FiniteSets, Functions

CONSTANTS
  Identities, \* TrackIdentity
  Stems,      \* what AudioFilename makes of title and artists
  Estimates,  \* the formats a provider may estimate
  MaxTracks,  \* bound on the tracks of a folder
  Lossless,   \* is the configured quality QualityLossless?
  Unknown     \* no estimate

ASSUME IdentitiesAssumption == Identities \subseteq Nat /\ MaxTracks \in Nat
ASSUME QualityAssumption ==
  Lossless \in BOOLEAN /\ Unknown \notin Estimates /\ {"lrc", "jpg"} \cap Estimates = {}

VARIABLES
  tracks,     \* what the provider returned, in its order
  resources,  \* snapshot.resources
  children    \* snapshot.children of the folder, or Unmade

nameVars == <<tracks, resources, children>>

\* codec is that of the stream the account will be given.
Track == [id : Identities, title : Stems, estimate : Estimates \cup {Unknown}, codec : Estimates]
Name(base, ext) == [base |-> base, ext |-> ext]
Unmade == {"unmade"}

---------------------------------------------------------------------------
(* filename.go.                                                            *)

\* A quality below lossless is always mp3; lossless is flac unless the
\* provider estimates another format.
Extension(t) ==
  IF ~Lossless THEN "mp3" ELSE IF t.estimate = Unknown THEN "flac" ELSE t.estimate

AudioFilename(t) == Name(<<t.title>>, Extension(t))

\* Slip: the lyrics have the name the audio had before the collision.
SlipLyricsFilename(n) == Name(<<n.base[1]>>, "lrc")

LyricsFilename(n) == Name(n.base, "lrc")
CoverFilename(n) == Name(n.base, "jpg")

\* Slip: the identity is not appended.
SlipCollisionFilename(n, t) == n

CollisionFilename(n, t) == Name(Append(n.base, t.id), n.ext)

---------------------------------------------------------------------------
(* makeTrackSnapshot.                                                      *)

\* Slip: names are given in the provider's order.
SlipSorted(ts) == ts

\* The k-th track has fewer than k before it, and k with those of its identity.
Sorted(ts) ==
  LET less(n) == {m \in DOMAIN ts : ts[m].id < ts[n].id}
      upto(n) == {m \in DOMAIN ts : ts[m].id <= ts[n].id}
  IN  [k \in DOMAIN ts |->
         ts[CHOOSE n \in DOMAIN ts : Cardinality(less(n)) < k /\ k <= Cardinality(upto(n))]]

\* The audio names of sorted tracks: a name that is taken gets the identity.
AudioNames(ts) ==
  LET named[n \in DOMAIN ts] ==
        LET plain == AudioFilename(ts[n])
        IN  IF \E i \in 1..(n - 1) : named[i] = plain THEN CollisionFilename(plain, ts[n]) ELSE plain
  IN  named

\* The three files of a track.
FilesOf(name) == {name, LyricsFilename(name), CoverFilename(name)}

FolderCovers == {Name(<<"cover">>, "jpg"), Name(<<"folder">>, "jpg")}

\* The paths of the tracks' files, and of the folder's covers where these are free.
Paths(names) == (UNION {FilesOf(names[n]) : n \in DOMAIN names}) \cup FolderCovers

\* Later tracks replace earlier ones under the same path; the covers of the
\* folder itself are its first track's and replace nothing.
Resources(ts) ==
  LET names == AudioNames(ts)
      owners(p) == {n \in DOMAIN ts : p \in FilesOf(names[n])}
      last(p) == CHOOSE n \in owners(p) : \A m \in owners(p) : m <= n
  IN  IF ts = <<>> THEN <<>>
      ELSE [p \in Paths(names) |-> ts[IF owners(p) = {} THEN 1 ELSE last(p)]]

\* The listing has every file of every track, and the folder's covers.
Listing(ts) ==
  LET names == AudioNames(ts)
      own == UNION {FilesOf(names[n]) \X {ts[n]} : n \in DOMAIN ts}
      free == {p \in FolderCovers : \A n \in DOMAIN ts : p \notin FilesOf(names[n])}
  IN  IF ts = <<>> THEN {} ELSE own \cup (free \X {ts[1]})

NamesInit ==
  /\ \E meta \in [Identities -> [title : Stems, estimate : Estimates \cup {Unknown}, codec : Estimates]] :
       LET Of(i) == [id |-> i, title |-> meta[i].title,
                     estimate |-> meta[i].estimate, codec |-> meta[i].codec]
       IN  \E ids \in UNION {[1..n -> Identities] : n \in 0..MaxTracks} :
             tracks = [n \in DOMAIN ids |-> Of(ids[n])]
  /\ resources = <<>> /\ children = Unmade

MakeTrackSnapshot ==
  /\ children = Unmade
  /\ resources' = Resources(Sorted(tracks))
  /\ children' = Listing(Sorted(tracks))
  /\ UNCHANGED tracks

NamesSpec == NamesInit /\ [][MakeTrackSnapshot]_nameVars

---------------------------------------------------------------------------
(* Properties.                                                             *)

Snapped == children # Unmade
AudioPaths == {p \in DOMAIN resources : p.ext \notin {"lrc", "jpg"}}

\* A name depends on the tracks and not on the order the provider lists them
\* in ("this keeps colliding filenames stable even if the upstream ordering
\* changes on a later refresh", virtual.go:419-420).
OrderIgnored ==
  Snapped => \A p \in Bijection(DOMAIN tracks, DOMAIN tracks) :
    resources = Resources(Sorted([n \in DOMAIN tracks |-> tracks[p[n]]]))

\* The audio files with the base of p: they differ in their extensions, and have
\* one name for their lyrics and one for their cover.
Namesakes(p) == {q \in AudioPaths : q.base = p.base}

\* Lyrics and cover of an audio file, found by its name, are those of its track,
\* or of one whose audio differs in the extension alone (virtual.go:447-487,
\* filename.go): with lossless quality a folder may have "a.flac" and "a.mp3".
PairedFiles ==
  \A p \in AudioPaths : \A f \in {LyricsFilename(p), CoverFilename(p)} :
    \E q \in Namesakes(p) : resources[f] = resources[q]

\* Every track of the folder has an audio file of its own, however many share a
\* title (virtual.go:419-446); a listing has the paths that can be found, and
\* what it shows under one is what a later request for it finds (485-488, 142,
\* 178), or else the lyrics or cover of another such track.
FilesFound ==
  Snapped =>
    /\ \A n \in DOMAIN tracks : \E p \in AudioPaths : resources[p] = tracks[n]
    /\ {c[1] : c \in children} = DOMAIN resources
    /\ \A c \in children :
         \/ resources[c[1]] = c[2]
         \/ /\ c[1] \notin AudioPaths
            /\ \E p, q \in Namesakes(c[1]) :
                 resources[p] = c[2] /\ resources[q] = resources[c[1]]

---------------------------------------------------------------------------
(* What the code does not keep with lossless quality, its default: see the *)
(* README.                                                                 *)

\* Lyrics and cover are those of the track whose audio they are found by ("paired
\* files cannot drift apart", oneplayer-compatibility.md:18-21).
PairedAlways ==
  \A p \in AudioPaths :
    resources[LyricsFilename(p)] = resources[p] /\ resources[CoverFilename(p)] = resources[p]

\* Whatever a listing shows is what is found.
FoundAlways == Snapped => \A c \in children : resources[c[1]] = c[2]

\* An audio file's extension is that of the stream it leads to
\* (oneplayer-compatibility.md:22-24).
NameTellsCodec ==
  \A p \in AudioPaths : p.ext = resources[p].codec
==================================================================================
