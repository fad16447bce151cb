------------------------------- MODULE ArtworkCache -------------------------------
(***************************************************************************)
(* internal/artwork/cache.go: covers are fetched from the source's URLs    *)
(* and kept as files, the oldest of which are removed when a fetch has     *)
(* made them too many (Service.Serve, fetch, evict). There is no lock and  *)
(* no table: requests meet in the directory alone.                         *)
(*                                                                         *)
(* A cover is known by its URL, which names its file; what the URL leads   *)
(* to may have another size at every fetch. Requests for tracks without a  *)
(* cover end before anything is done and are left out, as is the limit on  *)
(* the size of one image, which is one more way for a fetch to fail. A     *)
(* removal fails only when the file is gone. Partial files are counted by  *)
(* nobody and left behind by a crash.                                      *)
(***************************************************************************)
EXTENDS Naturals, FiniteSets, Functions

CONSTANTS
  Callers,     \* requests under way: each is answered and takes the next
  Covers,      \* the URLs that are ever asked for
  Sizes,       \* of the images they lead to
  MaxBytes,    \* artworkCacheMaxBytes
  MaxFetches,  \* bound on the images fetched
  Faults,      \* may the source or the directory fail, and the process crash?
  None

ASSUME SizesAssumption == Sizes \subseteq Nat \ {0}
ASSUME BoundsAssumption == MaxBytes \in Nat /\ MaxFetches \in Nat
ASSUME NoneAssumption == None \notin Covers
ASSUME FaultsAssumption == Faults \in BOOLEAN
ASSUME FiniteAssumption == IsFiniteSet(Covers)

VARIABLES
  disk,       \* the .image file of each cover, or None
  made,       \* images fetched so far: their modification times
  job,        \* what each request is at
  interrupted \* has an eviction been cut off, and none begun since?

vars == <<disk, made, job, interrupted>>

\* What a file has of its image: the whole; short, what a source sent that ended the
\* body early without an error, or what a failure of the machine left; or what was
\* copied before an error.
States == {"none", "whole", "short", "broken"}
Image(n, m, s) == [size |-> n, mod |-> m, state |-> s]
Missing == Image(0, 0, "none")
Present == {u \in Covers : disk[u] # Missing}
ImageBytes == [u \in Covers |-> disk[u].size]
TotalBytes == SumFunctionOnSet(ImageBytes, Covers)

\* A request: the cover it is about, the image in its partial file, the names
\* an eviction has yet to look at, the images it has seen and their total. For
\* the properties: has another's eviction taken the cover's file from it?
Rest(answer, lost) ==
  [at |-> "idle", cover |-> None, temp |-> Missing, names |-> {}, seen |-> {}, total |-> 0,
   lost |-> lost, answer |-> answer]

Init ==
  /\ disk = [u \in Covers |-> Missing]
  /\ made = 0
  /\ job = [c \in Callers |-> Rest("none", FALSE)]
  /\ interrupted = FALSE

Set(c, j) == job' = [job EXCEPT ![c] = j]
Goto(c, l) == Set(c, [job[c] EXCEPT !.at = l])
Answer(c, a) == Set(c, Rest(a, job[c].lost))
File(c) == disk[job[c].cover]

---------------------------------------------------------------------------
(* Serve.                                                                  *)

Ask(c, u) ==
  /\ job[c].at = "idle"
  /\ Set(c, [Rest("none", FALSE) EXCEPT !.at = "stat", !.cover = u])
  /\ UNCHANGED <<disk, made, interrupted>>

Stat(c) ==
  /\ job[c].at = "stat"
  /\ Goto(c, IF File(c) = Missing THEN "fetch" ELSE "open")
  /\ UNCHANGED <<disk, made, interrupted>>

\* The file looked at again, after the fetch.
Restat(c) ==
  /\ job[c].at = "restat"
  /\ IF File(c) = Missing THEN Answer(c, "not found") ELSE Goto(c, "open")
  /\ UNCHANGED <<disk, made, interrupted>>

\* A file that is open is read to its end, whatever becomes of its name. The
\* caller answers an absent file with 404.
Open(c) ==
  /\ job[c].at = "open"
  /\ Answer(c, IF File(c) = Missing THEN "not found" ELSE "sent")
  /\ UNCHANGED <<disk, made, interrupted>>

---------------------------------------------------------------------------
(* fetch.                                                                  *)

\* The body is copied to a file of the request's own. What was written is compared
\* with the limit of an image only, not with the length the source announced.
Copy(c) ==
  /\ job[c].at = "fetch" /\ made < MaxFetches
  /\ made' = made + 1
  /\ \E n \in Sizes, s \in {"whole"} \cup (IF Faults THEN {"short", "broken"} ELSE {}) :
       Set(c, [job[c] EXCEPT !.at = "rename", !.temp = Image(n, made + 1, s)])
  /\ UNCHANGED <<disk, interrupted>>

\* The source refuses, or there can be no partial file.
FetchFails(c) ==
  /\ job[c].at = "fetch" /\ (Faults \/ made = MaxFetches)
  /\ Answer(c, "failed")
  /\ UNCHANGED <<disk, made, interrupted>>

\* The copy met an error, and the partial file is removed.
Discard(c) ==
  /\ job[c].at = "rename" /\ job[c].temp.state = "broken"
  /\ Answer(c, "failed")
  /\ UNCHANGED <<disk, made, interrupted>>

\* Slip: the error of the copy is not looked at.
SlipRename(c) ==
  /\ job[c].at = "rename"
  /\ disk' = [disk EXCEPT ![job[c].cover] = job[c].temp]
  /\ Goto(c, "list")
  /\ UNCHANGED <<made, interrupted>>

Rename(c) ==
  /\ job[c].at = "rename" /\ job[c].temp.state # "broken"
  /\ disk' = [disk EXCEPT ![job[c].cover] = job[c].temp]
  /\ Goto(c, "list")
  /\ UNCHANGED <<made, interrupted>>

---------------------------------------------------------------------------
(* evict.                                                                  *)

ListDir(c) ==
  /\ job[c].at = "list"
  /\ Set(c, [job[c] EXCEPT !.at = "sweep", !.names = Present])
  /\ interrupted' = FALSE
  /\ UNCHANGED <<disk, made>>

ListDirFails(c) ==
  /\ Faults /\ job[c].at = "list"
  /\ Answer(c, "failed")
  /\ interrupted' = TRUE
  /\ UNCHANGED <<disk, made>>

Seen(u) == [cover |-> u, size |-> disk[u].size, mod |-> disk[u].mod]

\* One entry's Info; one that has gone is passed over.
Info(c) ==
  /\ job[c].at = "sweep"
  /\ \E u \in job[c].names :
       Set(c, IF disk[u] = Missing
                THEN [job[c] EXCEPT !.names = @ \ {u}]
                ELSE [job[c] EXCEPT !.names = @ \ {u}, !.seen = @ \cup {Seen(u)},
                                    !.total = @ + disk[u].size])
  /\ UNCHANGED <<disk, made, interrupted>>

Oldest(S) == {i \in S : \A k \in S : i.mod <= k.mod}
Full(c) == job[c].at = "sweep" /\ job[c].names = {} /\ job[c].total > MaxBytes

\* The protected image stays, as far as this eviction is concerned.
Spare(c) ==
  /\ Full(c)
  /\ \E i \in Oldest(job[c].seen) :
       (i.cover = job[c].cover \/ disk[i.cover] = Missing) /\ Set(c, [job[c] EXCEPT !.seen = @ \ {i}])
  /\ UNCHANGED <<disk, made, interrupted>>

\* The file is removed by its name, whoever has put it there by now.
RemoveAny(c, I) ==
  /\ Full(c)
  /\ \E i \in Oldest(job[c].seen) \cap I :
       /\ disk[i.cover] # Missing
       /\ disk' = [disk EXCEPT ![i.cover] = Missing]
       /\ job' = [d \in Callers |->
                    IF d = c THEN [job[c] EXCEPT !.seen = @ \ {i}, !.total = @ - i.size]
                    ELSE IF job[d].cover = i.cover THEN [job[d] EXCEPT !.lost = TRUE] ELSE job[d]]
  /\ UNCHANGED <<made, interrupted>>

\* Slip: the image just fetched is not protected.
SlipRemove(c) == RemoveAny(c, job[c].seen)

Remove(c) == RemoveAny(c, {i \in job[c].seen : i.cover # job[c].cover})

SweepTo(c, m) ==
  /\ job[c].at = "sweep" /\ job[c].names = {}
  /\ job[c].total <= m \/ job[c].seen = {}
  /\ Set(c, [job[c] EXCEPT !.at = "restat", !.seen = {}, !.total = 0])
  /\ UNCHANGED <<disk, made, interrupted>>

\* Slip: the loop stops one image early.
SlipSwept(c) == \E n \in Sizes : SweepTo(c, MaxBytes + n)
Swept(c) == SweepTo(c, MaxBytes)

---------------------------------------------------------------------------

Stop ==
  /\ Faults
  /\ job' = [c \in Callers |-> Rest("none", FALSE)]
  /\ interrupted' = TRUE
  /\ UNCHANGED made

Crash == Stop /\ UNCHANGED disk

\* The machine fails before an image, which nothing has flushed, is on the disk: it
\* loses its end or its name.
MachineFails(u) ==
  /\ Stop /\ u \in Present
  /\ \E i \in {Missing} \cup {Image(n, disk[u].mod, "short") : n \in 0..(disk[u].size - 1)} :
       disk' = [disk EXCEPT ![u] = i]

Serve(c) ==
  \/ Stat(c) \/ Restat(c) \/ Open(c)
  \/ Copy(c) \/ FetchFails(c) \/ Discard(c) \/ Rename(c)
  \/ ListDir(c) \/ ListDirFails(c) \/ Info(c) \/ Spare(c) \/ Remove(c) \/ Swept(c)

Next ==
  \/ \E c \in Callers : Serve(c) \/ \E u \in Covers : Ask(c, u)
  \/ Crash
  \/ \E u \in Covers : MachineFails(u)

Spec == Init /\ [][Next]_vars

---------------------------------------------------------------------------
(* Properties.                                                             *)

Stages == {"idle", "stat", "fetch", "rename", "list", "sweep", "restat", "open"}
Answers == {"none", "sent", "not found", "failed"}

Images == [size : Nat, mod : 0..MaxFetches, state : States]

TypeOK ==
  /\ disk \in [Covers -> Images]
  /\ made \in 0..MaxFetches
  /\ interrupted \in BOOLEAN
  /\ \A c \in Callers :
       /\ job[c].at \in Stages /\ job[c].answer \in Answers
       /\ job[c].cover \in (IF job[c].at = "idle" THEN {None} ELSE Covers)
       /\ job[c].temp \in Images /\ job[c].names \subseteq Covers
       /\ job[c].total \in Nat
       /\ \A i \in job[c].seen : i.cover \in Covers /\ i.size \in Nat

\* No file has a cover's name after a copy that met an error, however fetches of one
\* cover and of others, failures and crashes mix: it has what the source sent, or
\* what a failure of the machine left of that (cache.go:96-114).
OnlyGoodCopies == \A u \in Present : disk[u].state # "broken"

\* A cover that exists is answered "not found" only when the eviction of
\* another request has taken its file (cache.go:57-70, 145; virtual.go:243).
FetchedIsFound == \A c \in Callers : job[c].answer = "not found" => job[c].lost

\* When nothing is under way, the images are within the limit or one image is
\* too large for it alone: evictions that overlap leave nothing over, and none
\* is lost to another's (cache.go:115-152). An eviction that was cut off is made
\* up for by the next.
QuietWithinLimit ==
  (\A c \in Callers : job[c].at = "idle") /\ ~interrupted
    => TotalBytes <= MaxBytes \/ Cardinality(Present) <= 1

---------------------------------------------------------------------------
(* What the code does not keep.                                            *)

\* A file with a cover's name has all of its image. A body that ends early without
\* an error is taken for the image, since what was written is not compared with
\* Content-Length, and nothing is flushed before the rename (cache.go:102-112); such
\* a file is served until it is evicted.
ImagesAreWhole == \A u \in Present : disk[u].state = "whole"
===================================================================================
