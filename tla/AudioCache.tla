------------------------------- MODULE AudioCache -------------------------------
(***************************************************************************)
(* The on-disk audio cache, internal/cache/audio.go (type Manager), as its *)
(* one client internal/stream/proxy.go drives it: an index in SQLite       *)
(* (cache_entries), partial downloads in tmp/, published objects in        *)
(* objects/, leases held by responses that serve an object, and eviction.  *)
(*                                                                         *)
(* Every SQL statement, file-system call and critical section is one       *)
(* action, because Manager.mu guards the lease table alone: nothing orders *)
(* a statement of one request with the next file operation of another.     *)
(* The process may crash between any two of them; rows and files survive.  *)
(*                                                                         *)
(* Abstracted: a file is the identity its random name has (it keeps it     *)
(* through the rename from tmp/ to objects/, and names are never reused);  *)
(* the bytes of a file are the cache key they were downloaded for and how  *)
(* many of them there are; content type, codec and quality are left out;   *)
(* CURRENT_TIMESTAMP is a clock of whole seconds, and entries of the same  *)
(* second are evicted in any order (created_at, the tie break, is left     *)
(* out).                                                                   *)
(***************************************************************************)
EXTENDS Integers, FiniteSets, FiniteSetsExt, Functions

CONSTANTS
  Keys,        \* cache keys, Proxy.CacheKey, that are ever asked for
  Callers,     \* requests being served concurrently
  Files,       \* names uuid.NewString will return, in any order
  Sizes,       \* sizes a provider declares for an object
  MaxBytes,    \* Manager.maxBytes
  MaxClock,    \* bound on the seconds that pass
  Faults,      \* may a statement or a file operation return an error?
  Damage,      \* may objects be lost or cut short while the process is down?
  None

ASSUME SizesAssumption == Sizes \subseteq Nat
ASSUME LimitAssumption == MaxBytes \in Nat /\ MaxClock \in Nat
ASSUME SwitchAssumption == Faults \in BOOLEAN /\ Damage \in BOOLEAN
ASSUME FiniteAssumption == IsFiniteSet(Callers) /\ IsFiniteSet(Keys)

VARIABLES
  phase,     \* "down", the stages of NewAudioManager, or "up"
  rows,      \* cache_entries: a row for a cache key, or None
  place,     \* where a file is
  content,   \* the bytes of a file
  leases,    \* Manager.leases
  clock,     \* CURRENT_TIMESTAMP
  pc,        \* the next statement of a request inside the cache
  job,       \* its entry, or the object it is filling
  view,      \* the rows Evict has read and not examined yet
  skipped,   \* the keys this pass of Evict found leased
  victim,    \* Evict's candidate
  used,      \* Evict's running total
  covered,   \* ghost: the lease was taken before anyone was about to remove its object
  unswept,   \* ghost: an eviction ended early since the index was last seen within the limit
  published, \* ghost: the bytes of a file when its row was recorded, None before
  unread     \* ghost: the rows whose object the start under way could not examine

disk    == <<rows, place, content>>
evictor == <<view, skipped, victim, used>>
ghosts  == <<covered, unswept, published, unread>>
vars    == <<phase, disk, leases, clock, pc, job, evictor, ghosts>>

---------------------------------------------------------------------------
(* State.                                                                  *)

Row      == [file : Files, size : Nat, accessed : Nat]
Bytes    == [key : Keys \cup {None}, len : Nat]
Entry    == [key : Keys, file : Files, size : Nat, accessed : Nat]
Job      == [key : Keys, file : Files \cup {None}, size : Nat]
Phases   == {"down", "purge", "reconcile", "sweep", "up"}
Places   == {"unused", "tmp", "objects", "gone"}

ASSUME NoneAssumption ==
  None \notin Keys /\ None \notin Files /\ None \notin Bytes /\ None \notin Row

Hitting  == {"stat", "drop", "touch", "hit", "leased", "reading", "failed"}
Sealed   == {"touch", "hit", "leased", "reading", "failed"}
Leasing  == {"leased", "reading", "failed"}
Evicting == {"measure", "select", "scan", "delete", "remove"}
Filling  == {"filling", "record"} \cup Evicting
Stages   == {"idle", "missed"} \cup Hitting \cup Filling

\* The bytes the index accounts for: SELECT SUM(byte_size).
RowBytes == [k \in Keys |-> IF rows[k] = None THEN 0 ELSE rows[k].size]
IndexedBytes == SumFunctionOnSet(RowBytes, Keys)

Objects  == {f \in Files : place[f] = "objects"}
Partials == {f \in Files : place[f] = "tmp"}
Indexed  == {rows[k].file : k \in {k \in Keys : rows[k] # None}}
ObjectBytes == LET Weight(f) == content[f].len IN MapThenSumSet(Weight, Objects)

\* The responses that hold a lease on a key.
Holders(k) == {c \in Callers : pc[c] \in Leasing /\ job[c].key = k}

\* A reader of the table holds it open for reading: until it closes its rows
\* no other connection can commit a write (SQLite in rollback-journal mode,
\* with no limit on the pool's connections).
Writable == \A c \in Callers : pc[c] # "scan"

Init ==
  /\ phase = "up"
  /\ rows = [k \in Keys |-> None]
  /\ place = [f \in Files |-> "unused"]
  /\ content = [f \in Files |-> [key |-> None, len |-> 0]]
  /\ leases = [k \in Keys |-> 0]
  /\ clock = 0
  /\ pc = [c \in Callers |-> "idle"]
  /\ job = [c \in Callers |-> None]
  /\ view = [c \in Callers |-> {}]
  /\ skipped = [c \in Callers |-> {}]
  /\ victim = [c \in Callers |-> None]
  /\ used = [c \in Callers |-> 0]
  /\ covered = [c \in Callers |-> FALSE]
  /\ unswept = FALSE
  /\ published = [f \in Files |-> None]
  /\ unread = {}

Goto(c, l) == pc' = [pc EXCEPT ![c] = l]

\* The call returns to its caller, and its local variables are gone.
Return(c) ==
  /\ Goto(c, "idle")
  /\ job' = [job EXCEPT ![c] = None]

ForgetPass(c) ==
  /\ view' = [view EXCEPT ![c] = {}]
  /\ skipped' = [skipped EXCEPT ![c] = {}]
  /\ victim' = [victim EXCEPT ![c] = None]
  /\ used' = [used EXCEPT ![c] = 0]

---------------------------------------------------------------------------
(* Lookup.                                                                 *)

\* The call returns a miss.
Miss(c, k) ==
  /\ Goto(c, "missed")
  /\ job' = [job EXCEPT ![c] = [key |-> k, file |-> None, size |-> 0]]

\* The SELECT of the row.
LookupSelect(c, k) ==
  /\ phase = "up" /\ pc[c] = "idle"
  /\ IF rows[k] = None
       THEN Miss(c, k)
       ELSE /\ Goto(c, "stat")
            /\ job' = [job EXCEPT ![c] =
                         [key |-> k, file |-> rows[k].file, size |-> rows[k].size]]
  /\ UNCHANGED <<phase, disk, leases, clock, evictor, ghosts>>

StatResult(c, good) ==
  /\ pc[c] = "stat"
  /\ Goto(c, IF good THEN "touch" ELSE "drop")
  /\ UNCHANGED <<phase, disk, leases, clock, job, evictor, ghosts>>

\* Slip: a file of any size will do.
SlipStatAnySize(c) == StatResult(c, place[job[c].file] = "objects")

\* os.Stat: the object must be a file of exactly the indexed size. An error of
\* any other kind counts as a bad object.
LookupStat(c) ==
  \/ StatResult(c, /\ place[job[c].file] = "objects"
                   /\ content[job[c].file].len = job[c].size)
  \/ Faults /\ StatResult(c, FALSE)

\* A bad object is forgotten and the lookup is a miss. The row is deleted by
\* key, whichever object it names by then, and an error is ignored.
LookupDrop(c) ==
  /\ pc[c] = "drop"
  /\ \/ Writable /\ rows' = [rows EXCEPT ![job[c].key] = None]
     \/ Faults /\ UNCHANGED rows
  /\ Miss(c, job[c].key)
  /\ UNCHANGED <<phase, place, content, leases, clock, evictor, ghosts>>

\* The UPDATE of last_accessed_at, then the hit is returned.
LookupTouch(c) ==
  /\ pc[c] = "touch" /\ Writable
  /\ LET k == job[c].key
     IN  rows' = IF rows[k] = None THEN rows ELSE [rows EXCEPT ![k].accessed = clock]
  /\ Goto(c, "hit")
  /\ UNCHANGED <<phase, place, content, leases, clock, job, evictor, ghosts>>

LookupFails(c) ==
  /\ Faults /\ pc[c] = "touch"
  /\ Return(c)
  /\ UNCHANGED <<phase, disk, leases, clock, evictor, ghosts>>

---------------------------------------------------------------------------
(* Lease, and the response it protects.                                    *)

\* Serve leases the key of the entry Lookup returned. The ghost records
\* whether the lease came in time: the object is there, and no eviction has
\* already chosen it.
LeaseKey(c) ==
  /\ pc[c] = "hit"
  /\ leases' = [leases EXCEPT ![job[c].key] = @ + 1]
  /\ covered' = [covered EXCEPT ![c] =
       /\ place[job[c].file] = "objects"
       /\ \A d \in Callers : pc[d] \in {"delete", "remove"} => victim[d].file # job[c].file]
  /\ Goto(c, "leased")
  /\ UNCHANGED <<phase, disk, clock, job, evictor, unswept, published, unread>>

\* serveFile opens the object by the path of the entry. Once it is open its
\* bytes stay readable even when its name is removed.
OpenObject(c) ==
  /\ pc[c] = "leased"
  /\ Goto(c, IF place[job[c].file] = "objects" THEN "reading" ELSE "failed")
  /\ UNCHANGED <<phase, disk, leases, clock, job, evictor, ghosts>>

\* The closure Lease returned, run when the response ends.
Release(c) ==
  /\ pc[c] \in {"reading", "failed"}
  /\ leases' = [leases EXCEPT ![job[c].key] = IF @ <= 1 THEN 0 ELSE @ - 1]
  /\ covered' = [covered EXCEPT ![c] = FALSE]
  /\ Return(c)
  /\ UNCHANGED <<phase, disk, clock, evictor, unswept, published, unread>>

---------------------------------------------------------------------------
(* Filling: Serve after a miss.                                            *)

CreatePartial(c, f, s) ==
  /\ pc[c] = "missed"
  /\ \A d \in Callers : pc[d] \in Filling => job[d].key # job[c].key
  /\ place' = [place EXCEPT ![f] = "tmp"]
  /\ content' = [content EXCEPT ![f] = [key |-> job[c].key, len |-> 0]]
  /\ job' = [job EXCEPT ![c].file = f, ![c].size = s]
  /\ Goto(c, "filling")
  /\ UNCHANGED <<phase, rows, leases, clock, evictor, ghosts>>

\* Slip: the names of removed files come back.
SlipNewPartialReuses(c, s) ==
  \E f \in Files : place[f] \in {"unused", "gone"} /\ CreatePartial(c, f, s)

\* The miss may be stale by now, so the key may have a row. The proxy's fill
\* table admits one fill of a key until that fill's Commit, eviction
\* included, has returned. NewPartial creates the file, under a new name.
NewPartial(c, s) ==
  \E f \in Files : place[f] = "unused" /\ CreatePartial(c, f, s)

\* Serve waits for another's fill and looks up again, streams without the
\* cache, or fails.
LeaveMiss(c) ==
  /\ pc[c] = "missed"
  /\ Return(c)
  /\ UNCHANGED <<phase, disk, leases, clock, evictor, ghosts>>

\* The bytes of the body up to the declared size and no further.
WritePartial(c) ==
  /\ pc[c] = "filling"
  /\ content[job[c].file].len < job[c].size
  /\ content' = [content EXCEPT ![job[c].file].len = @ + 1]
  /\ UNCHANGED <<phase, rows, place, leases, clock, pc, job, evictor, ghosts>>

\* The download, its Sync or Close, or the rename fails: Serve removes the partial.
AbandonPartial(c) ==
  /\ pc[c] = "filling"
  /\ place' = [place EXCEPT ![job[c].file] = "gone"]
  /\ Return(c)
  /\ UNCHANGED <<phase, rows, content, leases, clock, evictor, ghosts>>

\* Serve commits only when as many bytes were written as were declared.
\* Commit first moves the file to objects/ ...
CommitRename(c) ==
  /\ pc[c] = "filling"
  /\ content[job[c].file].len = job[c].size
  /\ place' = [place EXCEPT ![job[c].file] = "objects"]
  /\ Goto(c, "record")
  /\ UNCHANGED <<phase, rows, content, leases, clock, job, evictor, ghosts>>

\* ... then records it, in place of the row the key may have ...
CommitRecord(c) ==
  /\ pc[c] = "record" /\ Writable
  /\ rows' = [rows EXCEPT ![job[c].key] =
                [file |-> job[c].file, size |-> job[c].size, accessed |-> clock]]
  /\ published' = [published EXCEPT ![job[c].file] = content[job[c].file]]
  /\ Goto(c, "measure")
  /\ UNCHANGED <<phase, place, content, leases, clock, job, evictor, covered, unswept, unread>>

\* ... or, when that fails, removes the object. Then it evicts.
CommitFails(c) ==
  /\ Faults /\ pc[c] = "record"
  /\ place' = [place EXCEPT ![job[c].file] = "gone"]
  /\ Return(c)
  /\ UNCHANGED <<phase, rows, content, leases, clock, evictor, ghosts>>

---------------------------------------------------------------------------
(* Evict.                                                                  *)

MeasureAs(c, total) ==
  /\ pc[c] = "measure"
  /\ IF total > MaxBytes
       THEN /\ used' = [used EXCEPT ![c] = total]
            /\ Goto(c, "select")
            /\ UNCHANGED <<job, unswept>>
       ELSE /\ Return(c)
            /\ unswept' = FALSE
            /\ UNCHANGED used
  /\ UNCHANGED <<phase, disk, leases, clock, view, skipped, victim, covered, published, unread>>

\* Slip: the total is that of the rows before this commit's.
SlipMeasureEarly(c) == MeasureAs(c, IndexedBytes - job[c].size)

\* The total is read once; the loop then only subtracts from it.
EvictMeasure(c) == MeasureAs(c, IndexedBytes)

EvictSelect(c) ==
  /\ pc[c] = "select"
  /\ view' = [view EXCEPT ![c] =
       {[key |-> k, file |-> rows[k].file, size |-> rows[k].size,
         accessed |-> rows[k].accessed] : k \in {k \in Keys : rows[k] # None}}]
  /\ skipped' = [skipped EXCEPT ![c] = {}]
  /\ Goto(c, "scan")
  /\ UNCHANGED <<phase, disk, leases, clock, job, victim, used, ghosts>>

Choose(c, e) ==
  /\ victim' = [victim EXCEPT ![c] = e]
  /\ view' = [view EXCEPT ![c] = {}]
  /\ Goto(c, "delete")
  /\ UNCHANGED skipped

SkipTo(c, rest, e) ==
  /\ view' = [view EXCEPT ![c] = rest]
  /\ skipped' = [skipped EXCEPT ![c] = @ \cup {e.key}]
  /\ UNCHANGED <<pc, victim>>

Scan(c, Examine(_)) ==
  /\ pc[c] = "scan"
  /\ \E e \in view[c] : Examine(e)
  /\ UNCHANGED <<phase, disk, leases, clock, job, used, ghosts>>

Oldest(c, e) == \A o \in view[c] : e.accessed <= o.accessed
Leased(e) == leases[e.key] > 0

\* Slips: the first row is taken, leased or not; the query has no ORDER BY.
SlipScanLeased(c) == Scan(c, LAMBDA e : Oldest(c, e) /\ Choose(c, e))
SlipScanUnordered(c) ==
  Scan(c, LAMBDA e : IF Leased(e) THEN SkipTo(c, view[c] \ {e}, e) ELSE Choose(c, e))

\* The next row in the order of last access; Manager.mu is held for the test
\* of one lease and no longer.
EvictScan(c) ==
  Scan(c, LAMBDA e : /\ Oldest(c, e)
                     /\ IF Leased(e) THEN SkipTo(c, view[c] \ {e}, e) ELSE Choose(c, e))

\* Every row is leased: Evict returns, without an error and over the limit.
EvictGivesUp(c) ==
  /\ pc[c] = "scan" /\ view[c] = {}
  /\ unswept' = TRUE
  /\ ForgetPass(c)
  /\ Return(c)
  /\ UNCHANGED <<phase, disk, leases, clock, covered, published, unread>>

\* The DELETE names the key alone.
EvictDelete(c) ==
  /\ pc[c] = "delete" /\ Writable
  /\ rows' = [rows EXCEPT ![victim[c].key] = None]
  /\ Goto(c, "remove")
  /\ UNCHANGED <<phase, place, content, leases, clock, job, evictor, ghosts>>

\* os.Remove of the path that was read with the row; a file that is already
\* gone is no error. The loop goes on while the running total exceeds the limit.
EvictRemove(c) ==
  /\ pc[c] = "remove"
  /\ place' = [place EXCEPT ![victim[c].file] = "gone"]
  /\ IF used[c] - victim[c].size > MaxBytes
       THEN /\ used' = [used EXCEPT ![c] = @ - victim[c].size]
            /\ victim' = [victim EXCEPT ![c] = None]
            /\ skipped' = [skipped EXCEPT ![c] = {}]
            /\ Goto(c, "select")
            /\ UNCHANGED <<view, job>>
       ELSE /\ ForgetPass(c)
            /\ Return(c)
  /\ UNCHANGED <<phase, rows, content, leases, clock, ghosts>>

\* Any statement or the removal may fail; Commit then returns the error and
\* its caller ignores it.
EvictFails(c) ==
  /\ Faults /\ pc[c] \in Evicting
  /\ unswept' = TRUE
  /\ ForgetPass(c)
  /\ Return(c)
  /\ UNCHANGED <<phase, disk, leases, clock, covered, published, unread>>

---------------------------------------------------------------------------
(* Crash and startup.                                                      *)

Tick ==
  /\ phase = "up" /\ clock < MaxClock
  /\ clock' = clock + 1
  /\ UNCHANGED <<phase, disk, leases, pc, job, evictor, ghosts>>

\* The process ends anywhere: whatever was not a row or a file is lost.
Crash ==
  /\ phase = "up"
  /\ phase' = "down"
  /\ leases' = [k \in Keys |-> 0]
  /\ pc' = [c \in Callers |-> "idle"]
  /\ job' = [c \in Callers |-> None]
  /\ view' = [c \in Callers |-> {}]
  /\ skipped' = [c \in Callers |-> {}]
  /\ victim' = [c \in Callers |-> None]
  /\ used' = [c \in Callers |-> 0]
  /\ covered' = [c \in Callers |-> FALSE]
  /\ unswept' = TRUE
  /\ UNCHANGED <<disk, clock, published, unread>>

\* A crash of the machine or a hand in the cache directory: an object loses
\* its name, or its last byte.
DamageObject(f) ==
  /\ Damage /\ phase = "down" /\ place[f] = "objects"
  /\ \/ /\ place' = [place EXCEPT ![f] = "gone"]
        /\ UNCHANGED content
     \/ /\ content[f].len > 0
        /\ content' = [content EXCEPT ![f].len = @ - 1]
        /\ UNCHANGED place
  /\ UNCHANGED <<phase, rows, leases, clock, pc, job, evictor, ghosts>>

Start ==
  /\ phase = "down"
  /\ phase' = "purge"
  /\ unread' = {}
  /\ UNCHANGED <<disk, leases, clock, pc, job, evictor, covered, unswept, published>>

\* A loop of NewAudioManager has handled the files or rows in done, of those in
\* all. An error, or a crash, ends the process: it is then started again.
Done(done, all, then) == phase' \in {"down"} \cup (IF done = all THEN {then} ELSE {})

Purge(done) ==
  /\ phase = "purge"
  /\ place' = [f \in Files |-> IF f \in done THEN "gone" ELSE place[f]]
  /\ UNCHANGED <<rows, content, leases, clock, pc, job, evictor, ghosts>>

\* Slip: an error removing a partial does not end the start.
SlipPurgeAnyway == \E done \in SUBSET Partials : Purge(done) /\ phase' = "reconcile"

RemovePartials ==
  \E done \in SUBSET Partials : Purge(done) /\ Done(done, Partials, "reconcile")

\* The rows whose object is there, in whatever length.
Present == {k \in Keys : rows[k] # None /\ place[rows[k].file] = "objects"}

\* Reconcile deletes the rows whose object os.Stat does not report: it is not
\* there, or could not be examined, for whatever reason ...
ReconcileRows ==
  /\ phase = "reconcile"
  /\ \E failed \in IF Faults THEN SUBSET Present ELSE {{}} :
       LET missing == {k \in Keys : rows[k] # None} \ (Present \ failed)
       IN  \E done \in SUBSET missing :
             /\ rows' = [k \in Keys |-> IF k \in done THEN None ELSE rows[k]]
             /\ unread' = failed
             /\ Done(done, missing, "sweep")
  /\ UNCHANGED <<place, content, leases, clock, pc, job, evictor, covered, unswept, published>>

\* ... and removes the objects none of the rows that are left names.
ReconcileObjects ==
  /\ phase = "sweep"
  /\ \E done \in SUBSET (Objects \ Indexed) :
       /\ place' = [f \in Files |-> IF f \in done THEN "gone" ELSE place[f]]
       /\ Done(done, Objects \ Indexed, "up")
  /\ unread' = {}
  /\ UNCHANGED <<rows, content, leases, clock, pc, job, evictor, covered, unswept, published>>

---------------------------------------------------------------------------

Lookup(c) ==
  \/ \E k \in Keys : LookupSelect(c, k)
  \/ LookupStat(c) \/ LookupDrop(c) \/ LookupTouch(c) \/ LookupFails(c)

Lease(c) == LeaseKey(c) \/ OpenObject(c) \/ Release(c)

Fill(c) ==
  \/ LeaveMiss(c) \/ \E s \in Sizes : NewPartial(c, s)
  \/ WritePartial(c) \/ AbandonPartial(c)

Commit(c) == CommitRename(c) \/ CommitRecord(c) \/ CommitFails(c)

Evict(c) ==
  \/ EvictMeasure(c) \/ EvictSelect(c) \/ EvictScan(c) \/ EvictGivesUp(c)
  \/ EvictDelete(c) \/ EvictRemove(c) \/ EvictFails(c)

Reconcile == ReconcileRows \/ ReconcileObjects

NewAudioManager == Start \/ RemovePartials \/ Reconcile

Next ==
  \/ \E c \in Callers : Lookup(c) \/ Lease(c) \/ Fill(c) \/ Commit(c) \/ Evict(c)
  \/ NewAudioManager
  \/ Crash
  \/ \E f \in Files : DamageObject(f)
  \/ Tick

Spec == Init /\ [][Next]_vars

---------------------------------------------------------------------------
(* Properties.                                                             *)

\* Every variable has its type.
TypeOK ==
  /\ phase \in Phases
  /\ rows \in [Keys -> Row \cup {None}]
  /\ place \in [Files -> Places]
  /\ content \in [Files -> Bytes]
  /\ leases \in [Keys -> Nat]
  /\ clock \in Nat
  /\ pc \in [Callers -> Stages]
  /\ job \in [Callers -> Job \cup {None}]
  /\ view \in [Callers -> SUBSET Entry]
  /\ skipped \in [Callers -> SUBSET Keys]
  /\ victim \in [Callers -> Entry \cup {None}]
  /\ used \in [Callers -> Nat]
  /\ covered \in [Callers -> BOOLEAN]
  /\ unswept \in BOOLEAN
  /\ published \in [Files -> Bytes \cup {None}]
  /\ unread \subseteq Keys

\* A lookup that reports a hit reports a complete object of the key that was
\* asked for (audio.go:18-20, Lookup's size check at 140-144), whatever
\* concurrent fills, evictions, crashes and restarts did to rows and files.
NoPartialHit ==
  \A c \in Callers : pc[c] \in Sealed =>
    content[job[c].file] = [key |-> job[c].key, len |-> job[c].size]

\* A lease taken in time keeps the object's name until the response has opened
\* it (Lease 182-195 against the test in Evict 213-218).
LeaseProtects ==
  \A c \in Callers : pc[c] = "leased" /\ covered[c] => place[job[c].file] = "objects"

\* The lease table counts the responses that hold the key: no release is lost
\* and none counts twice (182-195).
LeasesCounted == \A k \in Keys : leases[k] = Cardinality(Holders(k))

\* Evict removes the least recently accessed entry that was not leased when it
\* looked: an older row that is still there was skipped for its lease (203-220).
LeastRecentFirst ==
  \A c \in Callers : pc[c] = "delete" =>
    \A k \in Keys : rows[k] # None /\ rows[k].accessed < victim[c].accessed => k \in skipped[c]

AtRest == phase = "up" /\ \A c \in Callers : pc[c] \notin Filling

\* When no fill or eviction is under way the index is within the limit, unless
\* an eviction ended early or the process crashed before one ran: every commit
\* evicts after it has recorded, so of several that race the last one sees
\* all rows (163-180, 197-236).
SweptWithinLimit == AtRest /\ ~unswept => IndexedBytes <= MaxBytes

\* A start loses what it cannot examine and nothing else: a row with its object
\* keeps both through crashes, starts that fail half-way and the one that
\* succeeds, unless os.Stat of that object failed; and the one that succeeds
\* leaves no partial, no row without an object and no object without a row
\* (RemovePartials 116-129, Reconcile 58-109).
RecoveryExact ==
  [][/\ phase # "up" /\ phase' = "up" => Partials' = {} /\ Objects' = Indexed'
     /\ phase \notin {"up", "down"} =>
          \A k \in Present : \/ rows'[k] = rows[k] /\ place'[rows[k].file] = "objects"
                             \/ phase = "reconcile" /\ k \in unread']_vars

---------------------------------------------------------------------------
(* What the code does not keep: the first is a finding's, all are in the README. *)

\* A hit can be served from disk: the object is there when the response opens
\* it (proxy.go:161-172).
HitServable == \A c \in Callers : pc[c] = "leased" => place[job[c].file] = "objects"

\* When every request has ended the index is within the limit.
IndexWithinLimit ==
  phase = "up" /\ (\A c \in Callers : pc[c] = "idle") => IndexedBytes <= MaxBytes

\* A start removes the "entries that no longer have a complete object"
\* (audio.go:55-57) and no others: an object whose os.Stat fails is lost with
\* its row, complete or not (80-82, 101-103).
RecoveryKeeps ==
  [][phase \notin {"up", "down"} =>
       \A k \in Present : rows'[k] = rows[k] /\ place'[rows[k].file] = "objects"]_vars

\* After complete evictions the objects on disk are within the limit.
DiskWithinLimit == AtRest /\ ~unswept => ObjectBytes <= MaxBytes

---------------------------------------------------------------------------
(* What the cache promises its client: see TrackStore.                     *)

StoreIndex   == [k \in Keys |-> IF rows[k] = None THEN None ELSE rows[k].file]
StoreServing == [c \in Callers |-> IF pc[c] = "reading" THEN content[job[c].file] ELSE None]

Store == INSTANCE TrackStore WITH
  Objects <- Files, Lengths <- Sizes, index <- StoreIndex, serving <- StoreServing

\* The cache implements the store of sealed objects, through races, crashes,
\* failed statements and damage to its directory.
StoreSpec == Store!Spec
=================================================================================
