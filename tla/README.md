# TuneBridge: a TLA+ model, its checks and its proofs

TuneBridge is a Go program that shows a music account (search results, playlists,
daily recommendations) as a read-only WebDAV share. A player lists folders, reads
small text and image files, and streams audio; TuneBridge resolves tracks at the
source, streams the bytes through and, as it does so, fills a cache on disk.

The specifications here are about what is hard to get right in that program and
hard to test: requests that meet in the cache, in a fill, in a snapshot or in a
cookie jar; responses that break in the middle and are continued; evictions and
edits that overtake a read; crashes between a file operation and a SQL statement;
lists and trees that change while they are being read page by page.
Paths such as `proxy.go:172` are below `src/internal/` (or, for `main.go`,
`src/cmd/tunebridge/`); `PROJECT.json` gives the lines of every definition.

Contents: 1 inventory, 2 modules, 3 runs and bounds, 4 fairness, 5 proofs,
6 what the code does not keep, 7 what is not modelled, 8 plan.

## 1. Inventory

### 1.1 Components

| component | state | operations | model |
|---|---|---|---|
| audio cache (`cache/audio.go`) | table `cache_entries`, files in `tmp/` and `objects/`, lease counts | `Lookup`, `Lease`, `NewPartial`, `Commit`, `Evict`, `RemovePartials`, `Reconcile` | `AudioCache`, `TrackStore` |
| stream proxy (`stream/proxy.go`) | table of fills under way, cache of descriptors | `Serve`, `Describe`, `refresh` | `StreamProxy`, `Descriptors` |
| byte ranges (`stream/range.go`) | none | `ParseRange` | `ByteRange` |
| library: names (`library/filename.go`, `virtual.go`) | none | `makeTrackSnapshot` | `FolderNames` |
| library: search folder (`library/virtual.go`, `search/results.go`, `api/search.go`) | table `search_results`, snapshot with its maps, singleflight call | `Stat`, `List`, `Head`, `Open`, `Add`, `Delete`, `Clear`, `InvalidateSearch` | `SearchFolder` |
| library: playlists (`library/virtual.go`) | snapshot of the index, snapshot per folder, a singleflight call for each | `playlistIndex`, `playlistSnapshot` | `PlaylistFolders` |
| library: lyrics (`library/virtual.go`) | cached text per track | `lyricsBody` | not modelled |
| source login (`api/netease_login.go`, `source/netease/native.go`, `session/repository.go`, `main.go`) | cookie jar, client mutex, row `source_sessions`, file `session.key` | `Create`, `Check`, `ImportCookie`, library calls' `syncSDKCookie`, start | `SourceLogin` |
| artwork cache (`artwork/cache.go`) | a directory of `.image` files | `Serve`, `fetch`, `evict` | `ArtworkCache` |
| batches of metadata (`source/netease/adapter.go`) | goroutines, semaphore, WaitGroup, error channel of a call | `tracksByIDs` | `TrackBatches` |
| Netease adapter, lists of songs (`adapter.go`) | offset and songs of a call | `LikedTracks`, `Playlist`, `tracksByIDs` of an external API | `SongLists` |
| Netease adapter and client, the rest | none that lasts | requests and decoding | `syncSDKCookie` and the logins in `SourceLogin`; the rest not modelled: I/O |
| WebDAV front end (`webdav/`) | queue and answer of one request | `OPTIONS`, `PROPFIND`, `GET`, `HEAD` | `FolderWalk`: `PROPFIND` |
| setup page (`api/setup_page.go`) | key, interval, texts of the page | `startQRLogin`, `pollQRStatus`, cookie form | `SetupPage`: the QR login |
| search API (`api/search.go`) | none | `Search`, `Add`, `Delete`, `Clear`, `Like` | the editors, in `SearchFolder` |
| request trace (`compattrace/ring.go`) | ring of requests | `Add`, `Recent` | not modelled |
| database (`database/`) | schema version | `Open`, `migrate` | not modelled |
| server, configuration, HTTP Basic, types | wiring | | not modelled |

### 1.2 How they interact

- `webdav` asks `library` for resources, and for the body of one: lyrics come from
  `library` itself, covers from `artwork`, audio from `stream`. What `Serve` of the
  proxy or of the artwork cache returns is discarded by the handler
  (`handler.go:183-187`): after the headers there is nobody to tell.
- `library` asks the `source` (adapter) for lists of tracks and the proxy for a
  *descriptor* (size, format, URL) of each. Results are kept as snapshots, whose
  maps are **shared** by every request that was handed the snapshot, and replaced
  under one mutex, with one singleflight call for each key.
- `stream` looks a track up in `cache`, leases and serves the object on a hit, and
  otherwise streams from the source's URL, filling a partial of the cache if the
  whole track was asked for and nobody else is filling it. Requests meet in three
  places: the **table of fills** (in memory), the **row** (SQLite) and the **files**.
  No lock covers two of these.
- `api` edits the rows of search results and then invalidates the library's
  snapshot; it also logs in, which leaves a session in the **cookie jar**, and, when
  verified, in `source_sessions`, sealed with the key in `session.key`.
- `webdav` calls `Stat` and `List` of the library once for each collection it walks;
  nothing holds the library still between two calls.
- the page in the browser talks to `api` by requests that overtake each other: one
  for a code, then one each 1.5 seconds to ask what became of it.
- every call of the adapter reads the saved session and copies it into the same
  jar, without the mutex that logins hold (`adapter.go:116-123`).

### 1.3 What is hard, and what makes each part correct

*Audio cache.* `Manager.mu` guards the lease table only. An eviction tests a lease
and then deletes and removes; a lookup reads a row and then examines a file; a
commit renames and then inserts. Correct: a hit names a complete object of its key;
a lease taken in time protects; eviction is by last access and ends within the
limit; a restart leaves files and rows in agreement and loses nothing but what it
could not examine.
In short it is the immutable, complete store its comment says it is.

*Stream proxy.* One fill for a key, table read, unlocked, read again; a request
that meets a fill waits 300 ms or for the channel; fills outlive their clients;
a break is continued at the count with a new descriptor. Correct: table and fills
agree, the channel always closes, what is published is whole, and the client has a
prefix of exactly one representation.

*Descriptors.* A map with an expiry and a singleflight under which the source is
asked with the context of whoever came first; a refused URL is deleted from the map
and asked for again while others read, ask and store. Correct: no URL is given out
past its expiry, a refresh gets another URL than the refused one, one client's
hanging up does not make everyone's refresh fail, and each call returns.

*Search folder.* Correct: one rebuild, everyone who waited gets its outcome, and a
reader sees every answered edit, except for the one race section 6 describes.

*Playlists.* Two snapshots made at different times: the index knows names only and
a folder's playlist is found again by name. Correct: folders of one time differ,
and what the index of that time lists is found.

*Login.* One jar for everybody. Correct: what is saved is a session the source
issued, for the key that was asked about, and later processes can open it.

*Artwork cache.* Nothing but the directory orders two requests. Correct: no name is
given to a copy that failed; a fetched cover is sent unless someone else's eviction
took it; the directory comes to rest within its limit.

*Batches.* Correct: an exact answer or an error, never more requests at once than
permits, no send after the close, and no deadlock. The lists that are asked for in
turn or by pages: all songs, in order and once, wherever the pages end.

*PROPFIND.* Correct: no entry of the library's lists twice, none before the collection
it is in, all that was there throughout, and no more questions to the library than
the limit.

*Setup page.* Correct: one interval polls, what the page says of a code holds, and
what becomes of a code is shown.

*Names and ranges* are pure; correct means: agrees with a definition that does not
look like the code (what RFC 7233 selects; a folder in which every track can be
found under a name that does not depend on the source's order).

The list of hazards, each at its line and with the properties that watch it, is in
`PROJECT.json`.

## 2. The modules

| module | role |
|---|---|
| `TrackStore` | abstract: publish once, forget any time, serve what was published |
| `AudioCache` | the cache statement by statement; implements `TrackStore` (`StoreSpec`) |
| `ProxyRequests` | what the next two have in common |
| `StreamProxy` | `Serve` and the table of fills for one key, over an abstract cache |
| `Descriptors` | `Describe` and `refresh` for one track: map, singleflight, expiry |
| `ByteRange` | `ParseRange` |
| `FolderNames` | `makeTrackSnapshot` and the names of its files |
| `SearchFolder` | rows, edits, snapshot, rebuilds and readers of the search folder |
| `PlaylistFolders` | index and folders of playlists over a changing account |
| `SourceLogin` | login handlers, jar, mutex, session row, key file |
| `ArtworkCache` | fetch, rename, evict and serve of covers |
| `TrackBatches` | `tracksByIDs` with its goroutines |
| `SongLists` | `LikedTracks` and `Playlist`; composed with `TrackBatches` (EXTENDS) |
| `FolderWalk` | `PROPFIND` over a library that changes |
| `SetupPage` | the script of the QR login |
| `SortedLists` | finite sets of numbers as sorted lists (`SongLists`, `FolderWalk`) |
| `MC_WebDAV` | extends `ByteRange`, `FolderNames` and `FolderWalk`, side by side, for one run |
| `MC_X` | values and symmetry for TLC |
| `Inductions` | lemmas: induction over numbers, finite sets and lists; sums; sorted lists |
| `AudioCacheProofs` | theorems about `AudioCache`, with its refinement of `TrackStore` |
| `StreamProofs` | theorems about `StreamProxy`, `ByteRange` and `Descriptors` |
| `SearchFolderProofs` | theorems about `SearchFolder` |
| `FolderProofs` | theorems about `PlaylistFolders`, `FolderNames` and `FolderWalk` |
| `LoginProofs` | theorems about `SourceLogin` and `SetupPage` |
| `ArtworkCacheProofs` | theorems about `ArtworkCache` |
| `TrackBatchesProofs` | theorems about `TrackBatches` and `SongLists` |

Conventions. A request (`Callers`, `Clients`, `Requests`) is a process with a
program counter; **one action is one SQL statement, one file operation, one call of
the source or one critical section**, because that is what the code makes atomic.
An action is named for the function whose step it is. A failing statement or call is
an action of its own (`...Fails`), enabled by the constant `Faults`. Definitions
called `Slip...` are plausible mistakes; no next-state relation contains one; they
serve to show that each property can be violated (`mutants` in `PROJECT.json`).
Variables marked *ghost* record history for a property and guard nothing.

### AudioCache and TrackStore

`rows` is the table, `place`/`content` the files, `leases` the map. `LookupSelect`,
`LookupStat`, `LookupDrop`, `LookupTouch` are the four statements of `Lookup`;
`LeaseKey`, `OpenObject`, `Release` are the proxy's use of a hit; `NewPartial`,
`WritePartial`, `CommitRename`, `CommitRecord` are a fill; `EvictMeasure`,
`EvictSelect`, `EvictScan`, `EvictDelete`, `EvictRemove`, `EvictGivesUp` are `Evict`
(the total is read once and counted down; the table is read again in each pass; a
leased row is skipped; a reader of the table keeps writers out, `Writable`, as SQLite does in
rollback-journal mode). `Crash` keeps rows and files and forgets the rest;
`Start`, `RemovePartials`, `ReconcileRows`, `ReconcileObjects` are
`NewAudioManager`, each able to fail half-way. `DamageObject` cuts or loses an
object while the process is down, as a machine crash may. With `Faults`, `os.Stat` may
fail for any object: in `LookupStat`, which then takes it for a bad one, and in
`ReconcileRows`, which then takes it for a missing one (`audio.go:81`); the ghost
`unread` has the keys for which it did in the start under way.

The refinement maps `index` to the file a row names, `serving` to the content of the
open file, and the store's `published` to the ghost of that name: the bytes a file
had when its row was inserted. So `StoreSpec` says that nobody ever serves bytes
other than those published under the key, whatever became of the row since.

### StreamProxy

`fill` is `Proxy.fills[key]`, `await[c]` the channel a request holds. `CheckFill`,
`TakeFill`, `StartFill`, `Wake`, `PauseEnds`, `CancelWait` follow
`proxy.go:160-198` with the table unlocked between the check and the start; `Open`,
`CopyChunk`, `BodyBreaks`, `BodyEnds`, `Retry`, `GiveUp` are the loop of attempts;
`Close` and `Release` are the commit and the deferred `completePopulation`. The
cache is abstract here: an object or none, forgotten at any time (`Forget`), which is
what `AudioCache` was shown to provide. A byte is a pair of representation and
position, so that a mixture of two representations is visible. `offered` is the
history of what the provider offers: a request arrives with any of it, because the
library's snapshots may be that old, and a refresh resolves the current one.
`Faults` and `DiskFaults` are the requests that may meet a failing connection or a
failing disk, so that a run can promise one request what it does not promise others.

### Descriptors

`entry` is `descriptors[key]`, `flight` the call of the singleflight group. `Probe`,
`Join`, `Recheck`, `Resolve` (or `Refuse`, `ContextEnds`), `Store`, `Land` are
`Describe`; `Delete` and what follows are `refresh` with its attempts; `Opened`,
`Refused` stand for the use of the URL in `StreamProxy`. A descriptor is its expiry
and, as a ghost, the set of requests that have deleted the entry since it was made:
`c \in got[c].before` says that c has been handed a URL from before its own delete. Whether two
descriptors are equivalent is left open (`RefreshDiffers`). `HeadHeld` is a
request whose snapshot of the library already has a descriptor. The module is not
composed with `StreamProxy`: there, each `Describe` returns what the provider offers
by then, which is what remains of this module when expiry and failures are left out.

### SearchFolder, PlaylistFolders and FolderNames

Three views of `virtual.go`. `SearchFolder` keeps snapshots as objects of a heap,
because `trackResource` writes into the map of the entry of *now* while a reader has the map
of *then* (`Read`, `Describe`, `Update`); `Edit` and `InvalidateSearch` are
separate steps of one handler; `InvalidateSearch` deletes the entry but does
not forget the singleflight call, as in the code. The ghosts `edits`, `acked` and
`stamp` number the edits a snapshot, an answer and a reader know of. Expiry is a
separate flag because a snapshot in hand does not expire.
`PlaylistFolders` has no heap (its snapshots are not written) but two levels of
singleflight: a rebuild of a folder (`ListPlaylists`, `Tracks`, `Missing`, `Store`,
`Land`) compares the name asked for with names given afresh to the account.
`FolderNames` is one step, the whole of `makeTrackSnapshot`, for any quality: with
lossless the extension is the estimated format's, else `mp3`; the two others use its
result (the first of a title has the plain name, later ones their identity).

### SourceLogin

`job[c].at` is the stage of a handler, `mu` the client's mutex (held from the
request until the jar has been read), `jar` the one jar. `LibraryCall`, `LoadCookie`
and `SyncSDKCookie` are the prologue of every library call; the last writes the jar
without `mu`. `CheckGranted` is code 803: the source may give it again for a key, and
it may bring no cookies, in which case the jar keeps what it had; `NoMusicU` is the end
of a login whose jar has no session. A sealed row records the number of the secret it
was sealed with; a process has a `secret`, the file a `keyfile`. Two ghosts: `overtaken`
says that a library call wrote the jar while a login was being verified, `bare` that
the 803 of a login brought no session.

### ArtworkCache

One record for each request, one image for each cover with the number of its fetch
as modification time. An image is whole, *short* (the body ended early without an error,
which `fetch` does not see) or *broken* (the copy met an error; `Discard`). `Crash` is the
end of the process; `MachineFails` also cuts an image short or loses its name, as nothing
is flushed before the rename. `ListDir` and `Info` read the directory name by name, so
that two evictions work on different pictures of it; `Remove` takes an oldest
of those seen, sparing the cover just fetched; `lost` remembers that someone else
removed the request's cover.

### TrackBatches

The caller launches, waits, collects; goroutine b acquires a permit, asks, reports
or keeps its piece, gives the permit back and calls `Done`. A goroutine's send
blocks when `errCh` is full; the run checks deadlock, so the call returns.

### SongLists

`SongLists` extends `TrackBatches` by the calls around it. `LikedTracks` asks for the
profile, then for the ids, and hands these to the goroutines (`LikesForBatches`,
`Batching`, `Batched`) or, with an external API, asks in turn for `TurnSize` of them
(`Turn`); `Playlist` asks for the count and then for pages (`Detail`, `Page`). The
list belongs to the account: it may change, and songs may be taken down (`hidden`),
between any two requests; a song taken down is left out of a page without a gap.

### FolderWalk

One `PROPFIND`: `Absent`, `BadDepth`, `Alone`, `Enter`, `List` for depths 0 and 1, and
`WalkList`, `WalkGone`, `WalkEnds` for the breadth-first traversal with its limit.
`there` is the library, which changes to any other tree between two calls; the
ghosts `kept` and `seen` are what was there all along and at some time. Nodes are the
*entries* of the library's lists: `makeTrackSnapshot` appends a track's files whatever the
list has (`virtual.go:488`), so several entries may have one `Path`, one behind the other
after `sortResources`.

### SetupPage

The script runs to its end between two awaits, so one action is what happens from an
answer (`QRArrives`, `PollAnswers`, `PollFails`) or an event (`StartQRLogin`, `Fire`)
to the next await. Each call of `startQRLogin`, its code and its interval share a
number. Polls are answered in any order, each with the status the source had when
the server asked it (`ServerSays`).

## 3. Runs, bounds, and why they are enough

Every run is exhaustive within its bounds. Times are with two workers.

| run | question | bounds | distinct states | time |
|---|---|---|---|---|
| `cache` | does the cache keep its promises through races, faults, crashes and damage? | 2 keys, 2 requests, 3 files, sizes 1-2, limit 2, 1 clock tick | 1 609 000 | 1.5 min |
| `cache_hit_gap` | is a hit there when it is opened? (no) | 2 keys, 3 requests, no faults | - | seconds (violation) |
| `proxy` | table, publication and responses, with everything but a failing disk | 2 requests, sizes 1-2, 3 attempts, 1 change of the provider | 418 000 | 10 s |
| `proxy_fair` | does everyone get past a fill, and does a fill outlive its client? | 3 requests, size 1, 1 attempt, 2 requests with all faults | 189 000 | 1.7 min |
| `descriptors` | which URL does a request get, and does it get one? | 2 requests, 3 lives, 2 attempts, 1 refresh each, 2 ticks | 677 000 | 2 min |
| `webdav` | ranges, names and traversals of one request | fields over 0..6, sizes -1..4; 3 tracks, lossless; 7 resources, 3 lists | 107 000 | 30 s |
| `search` | edits, rebuilds and readers | 2 clients, 1 song, 3 heap objects, 1 edit, faults | 262 000 | 20 s |
| `playlists` | index and folders over a changing account | 2 clients, 2 playlists, 1 title, 1 change, faults | 387 000 | 1.7 min |
| `login` | handlers, jar, row and key file | 2 callers, 1 key, 2 sessions, 2 secrets, faults | 298 000 | 2 min |
| `setup` | what the page shows, and what polls | 2 codes, 3 polls in flight | 163 000 | 50 s |
| `artwork` | fetches and evictions in one directory | 2 callers, 3 covers, sizes 1-2, limit 2, 3 fetches, faults | 407 000 | 40 s |
| `batches` | exactness, channel and WaitGroup; turns and pages | batches of 2, 2 permits, 5 songs; 4 ids, turns and pages of 2, 1 change; faults | 1 844 000 | 1.2 min |

What the runs show, and why the bounds reach the cases that matter:

- **cache.** `NoPartialHit` (a hit is complete and of its key), `LeaseProtects`,
  `LeastRecentFirst`, `SweptWithinLimit`, `RecoveryExact` (a start loses what it cannot
  examine, nothing else, and ends in agreement), `StoreSpec`. Two objects of different size against
  a limit of 2 make an eviction that removes one or two; three files allow an object to
  be replaced while an old one is still served; two requests can be in any two
  statements at once, two commits and two evictions included. One tick
  tells recently used from not. Three requests are needed only for the gap run.
- **proxy.** `GateExact` (table and fills agree, and who waits holds the channel of the
  fill under way), `CachedWhole`, `ResponsesExact` (what a client has is the
  beginning of what it asked for, in one representation: that of the descriptor when
  it is streamed, that of the object when it is served from disk). Size 2 has a middle at
  which to break and continue; with a change of the provider the continuation
  meets another representation; three attempts are the code's own number.
- **proxy_fair** drops data (one byte) and adds the third request: one fills, one
  waits on it, one comes in between; its attempts are one, because what waits does not
  see attempts. Two requests may meet every failure, of the disk too
  (`WaitersProceed`: everyone who meets a fill gets past it); the third meets none,
  but its client may leave (`FillsComplete`: then its fill ends in an object).
- **descriptors.** `FreshIsAlive`, `FreshUnlessOvertaken`, `FailuresHaveCause`,
  `DescribeReturns`. With a tick as long as the margin, an entry is kept three ticks and URLs last none
  (less than the margin), two (within the time an entry is kept) or for ever; in two
  ticks an entry made at 0 may have expired, be about to, or be fresh. Two requests are
  leader and joiner, or two refreshes. Other lives are the theorem's.
- **webdav** is three questions about one request, each explored by itself:
  every header as parsed fields (unit, comma, one to three fields, each empty, junk
  or a number up to 6, where the parser's numbers end at 5) against what RFC 7233
  selects, which knows no such end (`RangeExact`: two kinds of well-formed headers are
  refused, and no others, section 6); folders of up to three tracks, as a name collides
  with a name that is itself the result of a collision only among three, with the title
  "cover" that meets the folder's own `cover.jpg`, in the program's default quality,
  lossless, where formats differ (`OrderIgnored`, `PairedFiles`, `FilesFound`); and
  walks over every tree of seven resources, four of them collections and two of one path,
  with a limit that three lists exhaust, the tree changing at any time (`ReportedOnce`,
  `WalkExact`).
- **search.** The folder's races are between edits, the entry and the call; one
  song and one edit show each order of them. Two songs of one title are used for
  `OnePathEach` (section 6).
- **playlists.** One change turns a list of two around, adds to it or removes from
  it; two clients can be leader and waiter of either level.
- **login.** Two callers: a login and an import, two polls of one key, or a login
  and a library call; two secrets allow one restart that generated a new key. A grant may
  come twice or without cookies; the second session is one that was imported and may be
  in the jar then. `LoginIsItsKeys` says when the session saved is the key's own.
- **artwork.** Three covers with room for two small ones: an eviction must choose,
  and two evictions may choose the same or different ones. Three fetches fill the
  directory to beyond its limit, and then a cover is fetched again or a third one.
  `OnlyGoodCopies` (what has a cover's name is what the source sent, or what is left of
  that), `FetchedIsFound`, `QuietWithinLimit`.
- **batches.** Five songs in batches of two are three batches with a short last
  one, more than the permits (`NoneAfterClose`, `SendsNeverBlock`, `AnswerExact`). Lists of
  up to four ids with turns and pages of two: no page, a short one, a full one,
  two full ones; a song taken down on the first, the last or each page; one change
  at any time (`ListExact`).
- **setup.** Two codes asked for one after the other or overlapping, and three polls
  of either in flight, enough for an answer to come after each thing that can make it
  stale: another answer, a failure, another code (`PollsForOne`, `SaysWhatHolds`,
  `EndIsShown`). Two intervals at once are what one overlap makes; a third call repeats it.

Deadlock is checked in every run but `webdav`, where a request is computed and over,
and `setup`, where no more codes are asked for than the bound. In `StreamProxy` and
`Descriptors` requests that are all done stutter explicitly (`Finished`).

## 4. Fairness

Safety runs use `Spec`. Liveness is claimed under the least the code justifies.

- `StreamProxy!FairSpec`: a request's steps outside the copy are taken (they wait
  for a mutex held briefly, a timer, a channel or the local disk); the steps of a
  *fill* are taken in the copy too, because the provider is bounded by the context
  of five minutes (`proxy.go:200-205`), unless the client it also writes to has
  stalled. Nothing is owed to a request that copies without filling and nothing by
  a client: a client may leave or stall.
  `WaitersProceed` is checked with clients that do not stall (section 6).
- `SearchFolder!FairSpec`: the leader's rebuild goes on; the calls in it end, with an
  error at the latest when the HTTP client's 15 seconds are over (`client.go:29`).
- `PlaylistFolders!FairSpec`: the same, for every step of a request.
- `SourceLogin!FairSpec`: a handler's own steps are taken for the same reason, and
  `sync.Mutex` hands itself to whoever waits longest, hence strong fairness of
  `Lock` (weak fairness would let a queue of others hold it off for ever).
- `Descriptors!FairSpec`: a request's steps are taken, under the same bounds on the
  source (`native.go:61` for the built-in API) and on opening a body (`proxy.go:49`).
- `SetupPage!FairPageSpec`: an interval that runs fires, a poll that was sent reaches the
  source and is answered or fails. The user owes nothing, and so does the answer to
  the request for a code. Which poll is answered first is open.

`WaitersProceed`, `FillsComplete`, `DescribeReturns`, `WaitersReturn`,
`RequestsReturn`, `HandlersReturn` and `EndIsShown` are the liveness properties.

## 5. Proofs

Checked by TLAPS for every value of the constants, from the assumptions named in
the modules: sizes are naturals, `None` is not one of the things it stands beside,
switches are Boolean, a batch and a number of permits are positive; callers, keys,
covers and nodes are finite; a collection has a smaller number than what is in it
(`TreeAssumption`: its path is the beginning of theirs), nodes are in the order of their
paths, which only files of one collection share (`PathAssumption`), and at least two
collections may be listed (`VisitsAssumption`); `lrc` and `jpg` are no audio formats
(`QualityAssumption`); identities are naturals; the index of playlists is not one of
its folders. Every invariant that a run checks is stated by a theorem, and so are the
action property `RecoveryExact` and the refinement `StoreSpec`.

**Inductions.** The induction theorems of the library take an operator, which the provers
cannot instantiate. Here the property is given as the *set* of the numbers (finite
sets, lists) that have it: `CountingUp` looks at the least number that is not in it
(`Least`), and `SetInduction` and `ListInduction` go by cardinality and length. They give that recursive functions
over finite sets and lists are defined step by step, and from that the laws of sums, of
maxima and of sets as sorted lists, which the proofs below need.

**AudioCacheProofs.** `TypeCorrect`: types, with `Located` (a file a row or a
request names is on disk or gone, never unused). `SealingHolds`: the inductive
invariant behind the rest. It says that published bytes stay with their file, which never
goes back to `tmp/`; that rows, the entry a lookup has read, the rows an eviction has read and its
candidate all describe the bytes their file was *published* with; and that a fill owns
its unpublished file. This is why it does not matter that no lock orders rows and
files: what is stale is at worst gone, never different. From it: `HitsAreComplete`
(`NoPartialHit`) and `ImplementsStore` (`StoreSpec`, every step a step or a stutter of
`TrackStore`). `LeasesAreCounted` and `LeasesProtect` (`CoveredSafe`: no eviction has
chosen an object whose lease was taken in time) need the finiteness of `Callers`.
`EvictsOldestFirst` (`LeastRecentFirst`) rests on `Examined`: while a pass reads the table
nobody writes it, so each row is still to be examined or was found leased; what is
written afterwards has the time of now, which no candidate is younger than (`Past`).
`RecoveriesAreExact` (`RecoveryExact`) rests on `Recovered`: what the stages of a start
that are over have achieved, the others of the process being idle (`IdleUnlessUp`). It
holds although any number of objects cannot be examined, and says that those are the
only ones lost.
`CommitsKeepLimit` (`SweptWithinLimit`) is about sums. `Settling`: over the limit, some
eviction `Settles`, that is, has yet to measure the index or has a running total that
covers what the index holds, the row it is about to delete left out on both sides.
A step that removes rows keeps this whoever takes it (`SettlesStay`); the one step that
adds a row is followed by an eviction that has yet to measure.

**StreamProofs: the proxy.** `Table` is the invariant of the control: the fill in the
table is the one request that fills and is in a stage of a fill; a channel in
hand is that fill's. It gives `GateIsExact`. `Typed` adds to the types
that a copy is of the representation promised; it gives `StreamTypes`. `Filled` (a
fill's partial is the run of bytes it has counted) gives `FillsAreWhole`: whatever
breaks, what is published is whole. `Exact` (what is sent is what is counted, unless the
client has gone) and `Files` (what a request serves from disk is a part of a whole object)
give `ResponsesAreExact` (`ResponsesExact`), **under the assumption
`DiskFaults = {}`**, without which it is not true (section 6).

**StreamProofs: the descriptors.** `TypesHold`. `FreshStaysAlive` (`FreshIsAlive`): an entry is kept no longer
than its URL lasts (`KeptInTime`), whatever the lives, the margin and the time
entries are kept. `RefreshIsNew` (`FreshUnlessOvertaken`), from `OneCall` (the
singleflight has one leader) and `MadeSince`: for a request under whose last delete no call
was under way, the entry, what a call is about to store or return, and what the
request has were all made after that delete. `FailuresAreCaused` (`FailuresHaveCause`)
counts: by `Accounted`, the failures a request has been told of, and one it may yet be
told of, are no more than the refusals of the source and the leaders whose client
has gone and whose call is over. The latter only grow in number (`OverGrows`).

**StreamProofs: ranges.** `RangesAreExact`: for all numbers, sizes and limits a range is
the selection of RFC 7233, in which numbers have no limit, and what is refused of it has a
number beyond the parser's limit or is a suffix of no bytes. `RangesAreAsks`: when
the sizes are ones `StreamProxy` knows (`Lengths \subseteq Sizes`), what it selects is a
request `StreamProxy` is modelled for.

**SearchFolderProofs.** `Group`: leader and waiters of the singleflight call, giving
`RebuildsAreOne`. `Levels` = `Kinds` (types), `OnOffer` (the entry, and the
identities a leader has read, know every answered edit or were overtaken) and
`Sound` (so does what a request was handed, compared with its own stamp). It gives
`StalenessIsTheRace`: an old listing has exactly one cause. `Fitting` (a reader's
snapshot, its paths and the file it is about to put back all agree in their titles) gives
`PathsKeepTheirTitles`: what is handed out is not collected, and although updates put
what was found in one snapshot into another, a path never leads to a track of another
title. That it may be another track of the *same* title is in section 6.

**LoginProofs: logins.** `IInv` = the types, `Held` (who holds the mutex), `Subjects`,
`Confirmed`, `Verifying` (between populating and reading, the jar holds the session of
this login, or the login is marked overtaken or bare), `Found`, `Running` and `SavedIsIssued`.
Results: `LoginTypes`, `SavedSessionsAreIssued`, `LoginsAreTheirKeys`; and
`SessionsStayReadable` under `KeyFaults = FALSE`, with `KeyKept` (the row was
sealed with the key that is in the file).

**LoginProofs: the setup page.** `OnePolls` (`PollsForOne`): `OneInterval`, unless calls
have overlapped, at most one code is awaited, and what polls is the interval the page
knows of. `PageIsTruthful` (`SaysWhatHolds`) needs to know what is in flight: by
`Truthful`, an answer on its way says of its code what held once, so that it can have
only moved on (`Since`), and nothing is shown while a code is awaited.

**FolderProofs: playlists.** No invariant of the present state says what an old
snapshot shows, so the proof gives the account a past: `HistoryExists` states that there is a
sequence of accounts, one for each change, in which every snapshot, cached or in
hand, has its place and shows what `Resolve` gave there, and no place is later than
now. The sequence is a witness, extended by each change; it is not a variable. From it,
`FoldersAreDifferent` (`FoldersDiffer`: in one account no two names resolve to one
playlist, `ResolveDiffers`) and `ListedFoldersAreFound` (`ListedIsFound`).

**FolderProofs: names.** The step is one; the work is in what it computes. A track is the
k-th when fewer than k have a smaller identity and at least k one not greater:
`RanksExist` and `RanksAreIdentities` show that there is one for each k and that all
that qualify are the same track, so the sorted list does not depend on the order it was
made from (`NamesIgnoreOrder`: `OrderIgnored`). `NamesDiffer`: an audio name is
plain when it is the first and carries an identity otherwise, so that two tracks share
none. `SharedByBase`: a file that is not audio is there for a track with its base, so what
two tracks can share are the lyrics and the cover of *namesakes*, whose audio differs in
the extension alone. `PairsStay` (`PairedFiles`) and `FilesAreFound` (`FilesFound`) say
for every quality that nothing else is shared and no audio file lost.
`OneFormatKeepsPairs`: below lossless quality all audio has one extension, a file has one
owner, and `PairedAlways` and `FoundAlways` hold as well, which they do not with lossless
quality (section 6).

**FolderProofs: walks.** `WalksKeep`: `WalkInv` = `Past` (what was kept is there, what
is there was seen), and for each stage what it has achieved. In a walk (`InWalk`), collections
that are queued have been visited and are listed once; what is reported is the target or
the child of a collection already listed; a resource that is reported is
reported once, because each collection is listed once and no resource has two;
lists made and lists to come are as many as the collections visited, up to the limit;
and, until more collections are visited than may be queued, all that was kept in those
that have been listed is reported. At the end the queue is empty: of the nodes that were kept and
not reported, a least one would be in a collection that was reported, hence visited, hence
listed. `ReportsAreOnce` (`ReportedOnce`), `WalksAreExact` (`WalkExact`). Both are about
entries of lists; entries of one path are section 6's.

**ArtworkCacheProofs.** `IInv` = `Kinds`, `Prepared` (what is about to be renamed is an
image), `OnlyGoodCopies`, `There` (a request between its rename and its open has its
cover, or has been marked as having lost it) and `FetchedIsFound`. Results:
`NamesMeanCopied` (`OnlyGoodCopies`), `CoversAreFound`. `QuietMeansWithinLimit` (`QuietWithinLimit`) is
about sums again: by `Settling`, over the limit, some eviction has yet to list the
directory, or its total covers the files it has looked at, those it does not know of
are gone or its own, and what it has looked at is as it was.

**TrackBatchesProofs.** `IInv` = `Kinds`, `Started` (goroutines are born in order and
belong to the list), `Counted` (WaitGroup, permits and errors equal the numbers of goroutines
in the corresponding stages) and the permits' bound. Results: `BatchTypes`,
`RequestsAreFew`, `ClosedInPeace`, `ErrorsHaveRoom`: the channel has as much room as
there are goroutines, so that no send blocks, for every batch size and number of songs.
`AnswersAreExact` (`AnswerExact`) adds what each goroutine has for its batch, and that
a refusal not yet told is told before the caller returns; pieces that are sorted lists of
neighbouring batches join to the sorted list of all.
`ListsUseBatches` (`ListSpec => Spec`): the calls of `SongLists` run the batches only as
`TrackBatches` says, so that all of this holds of the composition the run checks.
`ListsAreExact` (`ListExact`) rests on `Progress`: as long as the list is that with which the
call began, what has been fetched is the part of it up to the offset, taken-down
songs left out; of a page that is short before the list is over, `ShortPage` shows that it misses a song.

Several proved theorems state what no run repeats: the types (`TypeCorrect`,
`StreamTypes`, `TypesHold`, `LoginTypes`, `BatchTypes`), `LeasesAreCounted`,
`RebuildsAreOne`, `PathsKeepTheirTitles`, `OneFormatKeepsPairs`, `RequestsAreFew`. TLC agreed with each before it was proved; the
runs are left to what needs them.

Only model-checked: the liveness properties of section 4, as fairness and `ENABLED` are
beyond the prover; and the violation, which is TLC's alone.

## 6. What the code does not keep

Found while modelling. The first is a run; each of the others can be seen by putting
the property, defined in the module, into the configuration given.

1. **A hit may be gone when it is opened** (run `cache_hit_gap`, `HitServable`).
   `Serve` leases after `Lookup` has returned (`proxy.go:161-164`) and `Evict` tests
   the lease before it deletes and removes (`audio.go:213-230`). An eviction that
   chose the entry before the lease removes the object of a hit; the same can happen
   after `proxy.go:172`, "a completed fill may now be safely served from disk". The
   request then fails; it is never served wrong bytes (`NoPartialHit`, `StoreSpec`).
2. **The cache can stay over its limit.** `AUDIO_CACHE_MAX_BYTES` is the "maximum cache size
   in bytes before eviction" (`runtime-layout.md:163`). `IndexWithinLimit` fails because an
   eviction gives up when all that is left is leased and nothing repeats it at the
   release; `DiskWithinLimit` fails because an upsert (`audio.go:168`), or a delete
   by key (142, 227) that hits a newer row, orphans an object no sum counts until the next
   start. What holds is `SweptWithinLimit`.
3. **Bytes twice after a failed write to the partial.** A chunk goes to the client
   and then to the file (`proxy.go:377-386`); if the file refuses it, `written` is not counted, and the
   retry asks for the same bytes again. `ResponsesExact` with `DiskFaults = {r1}`.
4. **The object of another representation.** A cache key lacks the size
   (`proxy.go:144-148`): a hit may be of a different size than the descriptor whose
   headers are sent. `ServedExact` with `Sizes = {1, 2}`, `MaxChanges = 1`.
5. **Waiting on someone else's client.** A fill copies to its client too, which may stop
   reading without hanging up; the server has no write timeout (`server.go:79-80`) and
   the wait at `proxy.go:168` none either. `WaitersProceed` with `Stalls = TRUE`.
   A body that ends early *without* an error ends the copy without a retry
   (`proxy.go:257`); the client gets less than announced, the cache nothing.
6. **Stale listing after an answered edit.** `InvalidateSearch` deletes the entry but
   does not forget the call in flight (`virtual.go:618-622`); a rebuild that read the
   rows before the edit stores them after it, and its call may be joined by later
   readers. `ListingCurrent` (`search_page.go:20`, "visible after a refresh";
   `REAL_DEVICE_TEST.md:14`); `StaleOnlyIfOvertaken` says it happens in no other way.
   `InvalidateLiked` (623-627) leaves a like to the same race.
7. **A path written into another snapshot.** `trackResource` writes under its path into
   the entry of now (`virtual.go:571`): with two songs of one title and an edit in
   between, one song is under two paths and another under none until the folder
   expires. `OnePathEach` with `MCTwoSongs` (comment at `virtual.go:39-40`). The map
   is read elsewhere without the mutex.
8. **Names before streams.** An audio file is named by an estimate of its format
   (`virtual.go:426`), which the resolved stream need not have: `NameTellsCodec`
   (`oneplayer-compatibility.md:22`). With lossless quality, **which is the default**
   (`config.go:74`; `README.md:28` of the program) and the quality of the run, a folder may
   have `a.flac` and `a.mp3` of two tracks, but has one `a.lrc` and one `a.jpg`: those of one
   of them. "Paired files cannot drift apart" (`oneplayer-compatibility.md:18-21`, about
   a `.flac`) is `PairedAlways`, and that a listing shows what is found is `FoundAlways`;
   both fail as `WebDAV_requests.cfg` stands, and hold with `Lossless = FALSE`
   (`OneFormatKeepsPairs`). What holds always is `PairedFiles` and `FilesFound`.
9. **Playlist folders of two times.** Folders made before and after a reordering may
   show one playlist twice and another not at all while they last. A playlist whose
   *title* is `X [id]` can take the path of the second "X" (`virtual.go:640`); such
   titles are left out of the model.
10. **A session that was never verified can be saved.** A library call copies the saved
    session into the jar during a verification (`adapter.go:116-123`); the account
    that is found is that session's while the imported cookie is accepted with it
    (`native.go:292-299`). `SavedWasVerified`: `current-capabilities.md:57` says that when the
    second verification fails nothing is stored. A refused import leaves its cookie
    in the jar (`native.go:292`). And a login for which the source answers 803 without
    cookies (`native_test.go:201-221`) leaves the jar as it was (`native.go:234-237`):
    the session of someone else's login or import is then the one whose account is asked for
    and whose `MUSIC_U` is found (239-269), and is saved for this key. `LoginIsTheUsers`;
    `LoginIsItsKeys` says that it happens in no other way.
11. **A confirmed key is told once.** If the poll's client hangs up or `Save` fails, the
    login has to begin again. An unreadable `session.key` makes a new key, and the saved
    session can no longer be opened (`SessionReadable` with `KeyFaults = TRUE`); the code means this
    to be a new login.
12. **Artwork.** A body that ends early without an error is renamed as if it were the
    image: what was written is compared with the limit only, not with `ContentLength`
    (`cache.go:102-112`), as the proxy does for audio. Nothing is flushed before the
    rename, so a machine crash can leave a named image cut short. Either is served
    until it is evicted: `ImagesAreWhole`. A crash leaves a partial file which nobody
    removes or counts; the `Content-Length` of a response is the size at `Stat`, the body the file at `Open`
    (`cache.go:73-80`), and a fetch in between may have changed it.
13. **Descriptors.** A refresh that meets a call under way joins it, or finds what it
    stores after the delete, and retries with the URL that was refused
    (`proxy.go:92-120`, 323-326); `FreshUnlessOvertaken` says that it happens in no other
    way. The source is asked with the leader's context, so its client's hanging up is an
    error for everyone who joined (`proxy.go:99`); a client that hangs up while a
    body is opened makes the proxy delete a descriptor that was good. The margin of 15 seconds is lost for
    a URL that expires between two minutes and two minutes and 15 seconds after it was
    resolved (`proxy.go:107-113`): it is given out until the two minutes are over. The
    built-in API ignores the context, and the adapter never sets `ExpiresAt`, so that with it the
    branch for an early expiry (108-110) is not taken.
14. **PROPFIND.** `current-capabilities.md:24` says that `Depth: infinity` is answered
    with 403; the code answers it with a traversal (`handler.go:79-116`). The traversal
    stops queueing at 1000 collections and its answer does not say so. A path may be
    reported twice, by a traversal and with `Depth: 1`: a list has the files of a song that is
    in a playlist twice, and of lossless namesakes, twice (`virtual.go:488`), and neither
    `sortResources` nor the handler (`handler.go:96`, 108-109) drops the repeat. `PathsOnce`.
15. **Playlists of an external API.** `current-capabilities.md:80` promises all songs of
    a playlist. A page that is short because a song has been taken down is taken for
    the last (`adapter.go:372`), and what follows it is lost; a list that changes
    between two pages loses or repeats songs. `ListExact` without its exceptions.
16. **Setup page.** Answers are not compared with the code on the page. A late answer
    about an earlier code, "expired", covers the new one and stops its polling; one
    that was sent before a poll that failed puts "waiting" over the failure, and the
    page waits for good (`setup_page.go:313-338`; `README.md:43` of the program
    describes a page that polls until the end). Two clicks before the first code has
    come leave an interval nothing can stop (279), and may leave a code covered.
    `PollsForOne`, `SaysWhatHolds` and `EndIsShown` without their exceptions.
17. **An object that cannot be examined is lost.** `Reconcile` is to remove "entries that no
    longer have a complete object" (`audio.go:55-57`), but takes *any* error of `os.Stat`
    for a missing object (81), deletes the row and then, as no row names it, the
    intact file (101-103): an object in a directory that cannot be read for a moment, or on
    a disk with an error, costs the cache what was committed. Nor does it look at
    sizes. `RecoveryKeeps`; `RecoveryExact` says that no other object is lost.
18. **Ranges the RFC allows.** `ParseRange` "accepts exactly one RFC 7233 byte range"
    (`range.go:21`), but refuses a header with a number beyond int64 (75-78), where the RFC
    has an end or a suffix that is too large cut to the representation and a start that is
    too large unsatisfiable; and a suffix of no bytes, `-0`, which is well formed and
    selects nothing (82-88), as invalid. `RangeComplete`; `RangeExact` says that nothing else
    well formed is refused as invalid.

## 7. What is not modelled, and why

- Requests to the source and decoding (adapter, client), XML of WebDAV, HTML, HTTP
  Basic, environment variables, wiring: I/O and formatting. Calls of the adapter that are
  one request (search, recommendations, lyrics, URLs, playlists, like) have no state
  between their steps.
- `OPTIONS`, `GET` and `HEAD` of WebDAV: they hand one resource on to the library, the
  artwork cache or the proxy, whose modules begin there.
- `lyricsBody`: a read-through value per track that is never invalidated; what is
  interesting in it is the merging of texts.
- `RefreshToken` and `RefreshSession`, which nothing calls; logins through an
  external API server, which keep no jar and no state of their own.
- The cookie form of the setup page and its badge: one request each.
- The request trace, a ring under one mutex that nothing but a page for debugging
  reads; the database's migrations, which run once at the start, each in a
  transaction: what could go wrong there would be SQLite's.
- File names: sanitizing and the cut at 240 bytes happen before names are compared,
  so that `Stems` stands for their results.
- The Go memory model: concurrent access to a snapshot's map is modelled by
  separate steps, not as the runtime's possible abort.

## 8. Plan

Order of work and state of it:

1. `AudioCache` over `TrackStore`. 2. `StreamProxy`. 3. `ByteRange`. 4. `FolderNames`.
5. `SearchFolder`. 6. `SourceLogin`. 7. `ArtworkCache` and `TrackBatches`.
8. `PlaylistFolders`. 9. `Descriptors`. 10. `FolderWalk`, `SetupPage`. 11. `SongLists`
over `TrackBatches`. All are checked, and all their invariants proved.

To come:

- **Composition of `StreamProxy` with `AudioCache` and `Descriptors`**: the proxy's
  abstract cache as an instance of `TrackStore`, so that the two refinements meet, and
  its "representation of the moment" as what `Descriptors` gives out.
- **Termination of `Evict`**: that each of its steps makes a measure smaller while
  no commit comes, which is a safety property and could be proved.
- **No waiter without a leader**: that a waiter of a singleflight call is never left without a
  leader to wait for, the invariant behind the liveness of `SearchFolder` and `Descriptors`.

Rerunning: `tlc -config X.cfg MC_X.tla` for the runs, module and configuration of each
being listed in `PROJECT.json`; `tlapm M.tla` for the proofs, with M one of
`Inductions`, `AudioCacheProofs`, `StreamProofs`, `SearchFolderProofs`, `FolderProofs`,
`LoginProofs`, `ArtworkCacheProofs` and `TrackBatchesProofs`.
