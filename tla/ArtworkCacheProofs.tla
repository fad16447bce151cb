---------------------------- MODULE ArtworkCacheProofs ----------------------------
(***************************************************************************)
(* Proofs about ArtworkCache, for any number of requests, covers and       *)
(* fetches: a copy that failed never gets a name, a cover's file is never  *)
(* lost to the eviction of its own request, and evictions that overlap     *)
(* leave the images within the limit.                                      *)
(***************************************************************************)
EXTENDS ArtworkCache, Inductions

Kind == [size : Nat, mod : Nat, state : States]
Sight == [cover : Covers, size : Nat, mod : Nat]
Job ==
  [at : Stages, cover : Covers \cup {None}, temp : Kind, names : SUBSET Covers,
   seen : SUBSET Sight, total : Int, lost : BOOLEAN, answer : Answers]

Kinds ==
  /\ disk \in [Covers -> Kind]
  /\ made \in Nat
  /\ job \in [Callers -> Job]
  /\ \A c \in Callers : job[c].at # "idle" => job[c].cover \in Covers

\* There is a file to get a cover's name.
Prepared == \A c \in Callers : job[c].at = "rename" => job[c].temp.state # "none"

\* A request whose answer needs the file finds it, or another's eviction has
\* taken it.
There ==
  \A c \in Callers :
    job[c].at \in {"list", "sweep", "restat", "open"} =>
      disk[job[c].cover] # Missing \/ job[c].lost

IInv == Kinds /\ Prepared /\ OnlyGoodCopies /\ There /\ FetchedIsFound

LEMMA MissingKind == Missing \in Kind /\ Missing.state = "none"
  BY DEF Missing, Image, Kind, States

LEMMA RestJob == \A a \in Answers, l \in BOOLEAN : Rest(a, l) \in Job
  BY MissingKind DEF Rest, Job, Stages

LEMMA IInvInit == Init => IInv
<1> SUFFICES ASSUME Init PROVE IInv
  OBVIOUS
<1>1. job \in [Callers -> Job] /\ disk \in [Covers -> Kind]
  BY RestJob, MissingKind DEF Init, Answers
<1>2. \A c \in Callers : job[c].at = "idle" /\ job[c].answer = "none"
  BY DEF Init, Rest
<1>3. Present = {}
  BY DEF Init, Present
<1> QED BY <1>1, <1>2, <1>3 DEF Init, IInv, Kinds, Prepared, There, OnlyGoodCopies, FetchedIsFound

\* A request with other images seen, and another total.
Recount(j, l, N, S, t) == [j EXCEPT !.at = l, !.names = N, !.seen = S, !.total = t]

LEMMA RecountJob ==
  \A j \in Job, l \in Stages, N \in SUBSET Covers, S \in SUBSET Sight, t \in Int :
    /\ Recount(j, l, N, S, t) \in Job
    /\ Recount(j, l, N, S, t).at = l /\ Recount(j, l, N, S, t).cover = j.cover
    /\ Recount(j, l, N, S, t).temp = j.temp /\ Recount(j, l, N, S, t).lost = j.lost
    /\ Recount(j, l, N, S, t).answer = j.answer
    /\ Recount(j, l, N, S, t).names = N /\ Recount(j, l, N, S, t).seen = S
    /\ Recount(j, l, N, S, t).total = t
<1> SUFFICES ASSUME NEW j \in Job, NEW l \in Stages, NEW N \in SUBSET Covers,
                    NEW S \in SUBSET Sight, NEW t \in Int,
                    NEW k, k = Recount(j, l, N, S, t)
             PROVE  k \in Job /\ k.at = l /\ k.cover = j.cover /\ k.temp = j.temp
                    /\ k.lost = j.lost /\ k.answer = j.answer
                    /\ k.names = N /\ k.seen = S /\ k.total = t
  OBVIOUS
<1> QED BY DEF Job, Recount

LEMMA JobParts ==
  \A j \in Job : j.at \in Stages /\ j.names \in SUBSET Covers /\ j.seen \in SUBSET Sight
                 /\ j.total \in Int
  BY DEF Job

\* A request goes on, with the directory as it is.
LEMMA Onward ==
  ASSUME IInv, NEW c \in Callers, NEW j \in Job, job' = [job EXCEPT ![c] = j],
         UNCHANGED disk, made' \in Nat,
         j.at # "idle" => j.cover \in Covers,
         j.at = "rename" => j.temp.state # "none",
         j.at \in {"list", "sweep", "restat", "open"} => disk[j.cover] # Missing \/ j.lost,
         j.answer = "not found" => j.lost
  PROVE  IInv'
<1>1. \A d \in Callers : job'[d] = IF d = c THEN j ELSE job[d]
  BY DEF IInv, Kinds
<1>2. Kinds' /\ Prepared' /\ There' /\ FetchedIsFound'
  BY <1>1 DEF IInv, Kinds, Prepared, There, FetchedIsFound, Missing, Image
<1>3. OnlyGoodCopies'
  BY DEF IInv, OnlyGoodCopies, Present, Missing, Image
<1> QED BY <1>2, <1>3 DEF IInv

LEMMA Answering ==
  ASSUME IInv, NEW c \in Callers, NEW a \in Answers, Answer(c, a), UNCHANGED disk, made' \in Nat,
         a = "not found" => job[c].lost
  PROVE  IInv'
<1>1. job[c].lost \in BOOLEAN
  BY DEF IInv, Kinds, Job
<1>2. Rest(a, job[c].lost) \in Job
  BY <1>1, RestJob
<1> QED BY <1>2, Onward DEF Answer, Set, Rest

LEMMA Going ==
  ASSUME IInv, NEW c \in Callers, NEW l \in Stages, Goto(c, l), UNCHANGED disk, made' \in Nat,
         job[c].at # "idle", l \notin {"idle", "rename"},
         l \in {"list", "sweep", "restat", "open"} => disk[job[c].cover] # Missing \/ job[c].lost
  PROVE  IInv'
<1> DEFINE j == [job[c] EXCEPT !.at = l]
<1>1. job[c] \in Job
  BY DEF IInv, Kinds
<1>2. j \in Job /\ j.at = l /\ j.cover = job[c].cover /\ j.lost = job[c].lost
      /\ j.answer = job[c].answer
  BY <1>1 DEF Job
<1>3. job' = [job EXCEPT ![c] = j]
  BY DEF Goto, Set
<1>4. job[c].cover \in Covers /\ (job[c].answer = "not found" => job[c].lost)
  BY DEF IInv, Kinds, FetchedIsFound
<1> HIDE DEF j
<1> QED BY <1>2, <1>3, <1>4, Onward

---------------------------------------------------------------------------
(* The steps.                                                              *)

LEMMA AskStep == ASSUME IInv, NEW c \in Callers, NEW u \in Covers, Ask(c, u) PROVE IInv'
<1> DEFINE j == [Rest("none", FALSE) EXCEPT !.at = "stat", !.cover = u]
<1>1. j \in Job /\ j.at = "stat" /\ j.cover = u /\ j.answer = "none"
  BY RestJob DEF Rest, Job, Stages, Answers
<1>2. job' = [job EXCEPT ![c] = j] /\ UNCHANGED <<disk, made>>
  BY DEF Ask, Set
<1>3. made' \in Nat
  BY <1>2 DEF IInv, Kinds
<1> HIDE DEF j
<1> QED BY <1>1, <1>2, <1>3, Onward

\* Serve's own steps, and the ends of the others.
LEMMA LookStep ==
  ASSUME IInv, NEW c \in Callers,
         Stat(c) \/ Restat(c) \/ Open(c) \/ FetchFails(c) \/ Discard(c) \/ ListDirFails(c)
  PROVE  IInv'
<1>1. UNCHANGED disk /\ made' \in Nat
  BY DEF IInv, Kinds, Stat, Restat, Open, FetchFails, Discard, ListDirFails
<1>2. CASE Stat(c)
  <2>1. Goto(c, IF File(c) = Missing THEN "fetch" ELSE "open") /\ job[c].at = "stat"
    BY <1>2 DEF Stat
  <2> QED BY <1>1, <2>1, Going DEF File, Stages
<1>3. CASE Restat(c)
  <2>1. CASE File(c) = Missing
    <3>1. Answer(c, "not found") /\ job[c].lost
      BY <1>3, <2>1 DEF Restat, File, IInv, There
    <3> QED BY <1>1, <3>1, Answering DEF Answers
  <2>2. CASE File(c) # Missing
    BY <1>1, <1>3, <2>2, Going DEF Restat, File, Stages
  <2> QED BY <2>1, <2>2
<1>4. CASE Open(c)
  <2>1. File(c) = Missing => job[c].lost
    BY <1>4 DEF Open, File, IInv, There
  <2>2. Answer(c, IF File(c) = Missing THEN "not found" ELSE "sent")
    BY <1>4 DEF Open
  <2> QED BY <1>1, <2>1, <2>2, Answering DEF Answers
<1>5. CASE FetchFails(c) \/ Discard(c) \/ ListDirFails(c)
  BY <1>1, <1>5, Answering DEF FetchFails, Discard, ListDirFails, Answers
<1> QED BY <1>2, <1>3, <1>4, <1>5

LEMMA CopyStep == ASSUME IInv, NEW c \in Callers, Copy(c) PROVE IInv'
<1>1. PICK n \in Sizes, s \in {"whole", "short", "broken"} :
        Set(c, [job[c] EXCEPT !.at = "rename", !.temp = Image(n, made + 1, s)])
  BY DEF Copy
<1> DEFINE t == Image(n, made + 1, s)
           j == [job[c] EXCEPT !.at = "rename", !.temp = t]
<1>2. job[c] \in Job /\ made \in Nat
  BY DEF IInv, Kinds
<1>3. t \in Kind /\ t.state # "none"
  BY <1>2, SizesAssumption DEF Image, Kind, States
<1> HIDE DEF t
<1>4. j \in Job /\ j.at = "rename" /\ j.temp = t /\ j.cover = job[c].cover
      /\ j.lost = job[c].lost /\ j.answer = job[c].answer
  BY <1>2, <1>3 DEF Job, Stages
<1>5. job' = [job EXCEPT ![c] = j] /\ made' \in Nat /\ UNCHANGED disk
  <2>1. job' = [job EXCEPT ![c] = j]
    BY <1>1 DEF Set, t
  <2>2. made' \in Nat /\ UNCHANGED disk
    BY <1>2 DEF Copy
  <2> QED BY <2>1, <2>2
<1>6. job[c].cover \in Covers /\ (job[c].answer = "not found" => job[c].lost)
  BY DEF Copy, IInv, Kinds, FetchedIsFound
<1> HIDE DEF j
<1> QED BY <1>3, <1>4, <1>5, <1>6, Onward

LEMMA RenameStep == ASSUME IInv, NEW c \in Callers, Rename(c) PROVE IInv'
<1> DEFINE j == [job[c] EXCEPT !.at = "list"]
           u == job[c].cover
<1>1. job[c] \in Job /\ u \in Covers /\ job[c].temp \in Kind
      /\ job[c].temp.state # "broken" /\ job[c].temp # Missing
  BY MissingKind DEF Rename, IInv, Kinds, Prepared, Job
<1>2. j \in Job /\ j.at = "list" /\ j.cover = u /\ j.answer = job[c].answer /\ j.lost = job[c].lost
  BY <1>1 DEF Job, Stages
<1>3. job' = [job EXCEPT ![c] = j] /\ disk' = [disk EXCEPT ![u] = job[c].temp] /\ UNCHANGED made
  BY DEF Rename, Goto, Set
<1> HIDE DEF j, u
<1>4. \A d \in Callers : job'[d] = IF d = c THEN j ELSE job[d]
  BY <1>3 DEF IInv, Kinds
<1>5. \A v \in Covers : disk'[v] = IF v = u THEN job[c].temp ELSE disk[v]
  BY <1>1, <1>3 DEF IInv, Kinds
<1>6. Kinds' /\ Prepared' /\ FetchedIsFound'
  BY <1>1, <1>2, <1>3, <1>4 DEF IInv, Kinds, Prepared, FetchedIsFound, u
<1>7. There'
  BY <1>1, <1>2, <1>4, <1>5 DEF IInv, Kinds, There, Missing, Image
<1>8. OnlyGoodCopies'
  BY <1>1, <1>5 DEF IInv, OnlyGoodCopies, Present, Missing, Image
<1> QED BY <1>6, <1>7, <1>8 DEF IInv

\* The steps of an eviction that remove nothing.
LEMMA SweepStep ==
  ASSUME IInv, NEW c \in Callers, ListDir(c) \/ Info(c) \/ Spare(c) \/ Swept(c)
  PROVE  IInv'
<1>1. UNCHANGED disk /\ made' \in Nat /\ job[c].at \in {"list", "sweep"}
  BY DEF IInv, Kinds, ListDir, Info, Spare, Full, Swept, SweepTo
<1>2. job[c] \in Job /\ job[c].cover \in Covers /\ disk \in [Covers -> Kind]
      /\ (disk[job[c].cover] # Missing \/ job[c].lost) /\ (job[c].answer = "not found" => job[c].lost)
  BY <1>1 DEF IInv, Kinds, There, FetchedIsFound
<1>3. \E j \in Job : /\ job' = [job EXCEPT ![c] = j] /\ j.at \in {"sweep", "restat"}
                     /\ j.cover = job[c].cover /\ j.lost = job[c].lost
                     /\ j.answer = job[c].answer
  <2>1. CASE ListDir(c)
    <3> DEFINE j == [job[c] EXCEPT !.at = "sweep", !.names = Present]
    <3>1. j \in Job /\ j.at = "sweep" /\ j.cover = job[c].cover /\ j.lost = job[c].lost
          /\ j.answer = job[c].answer
      BY <1>2 DEF Job, Stages, Present
    <3> QED BY <2>1, <3>1 DEF ListDir, Set
  <2>2. CASE Info(c)
    <3>1. PICK u \in job[c].names :
            Set(c, IF disk[u] = Missing
                     THEN [job[c] EXCEPT !.names = @ \ {u}]
                     ELSE [job[c] EXCEPT !.names = @ \ {u}, !.seen = @ \cup {Seen(u)},
                                         !.total = @ + disk[u].size])
      BY <2>2 DEF Info
    <3>2. u \in Covers /\ disk[u] \in Kind
      BY <1>2 DEF Job
    <3>3. Seen(u) \in Sight /\ disk[u].size \in Int
      BY <3>2 DEF Seen, Sight, Kind
    <3> DEFINE skip == [job[c] EXCEPT !.names = @ \ {u}]
               take == [job[c] EXCEPT !.names = @ \ {u}, !.seen = @ \cup {Seen(u)},
                                      !.total = @ + disk[u].size]
    <3>4. skip \in Job /\ skip.at = job[c].at /\ skip.cover = job[c].cover
          /\ skip.lost = job[c].lost /\ skip.answer = job[c].answer
      BY <1>2 DEF Job
    <3>5. take \in Job /\ take.at = job[c].at /\ take.cover = job[c].cover
          /\ take.lost = job[c].lost /\ take.answer = job[c].answer
      <4> DEFINE N == job[c].names \ {u}
                 S == job[c].seen \cup {Seen(u)}
                 t == job[c].total + disk[u].size
      <4>1. job[c].total \in Int /\ job[c].at \in Stages
        BY <1>2, JobParts
      <4>2. N \in SUBSET Covers /\ S \in SUBSET Sight
        BY <1>2, <3>3, JobParts
      <4>3. t \in Int
        BY <3>3, <4>1
      <4>4. take = Recount(job[c], job[c].at, N, S, t)
        BY <1>2 DEF Job, Recount
      <4> HIDE DEF take, N, S, t
      <4>5. job[c] \in Job
        BY <1>2
      <4>6. take \in Job /\ take.at = job[c].at /\ take.cover = job[c].cover
            /\ take.lost = job[c].lost /\ take.answer = job[c].answer
        BY <4>1, <4>2, <4>3, <4>4, <4>5, RecountJob
      <4> QED BY <4>6
    <3>6. job[c].at = "sweep"
      BY <2>2 DEF Info
    <3>7. job' = [job EXCEPT ![c] = skip] \/ job' = [job EXCEPT ![c] = take]
      BY <3>1 DEF Set
    <3> HIDE DEF skip, take
    <3> QED BY <3>4, <3>5, <3>6, <3>7
  <2>3. CASE Spare(c)
    <3>1. PICK i : Set(c, [job[c] EXCEPT !.seen = @ \ {i}])
      BY <2>3 DEF Spare
    <3> DEFINE j == [job[c] EXCEPT !.seen = @ \ {i}]
    <3>2. j \in Job /\ j.at = job[c].at /\ j.cover = job[c].cover /\ j.lost = job[c].lost
          /\ j.answer = job[c].answer
      BY <1>2 DEF Job
    <3>3. job[c].at = "sweep" /\ job' = [job EXCEPT ![c] = j]
      BY <2>3, <3>1 DEF Spare, Full, Set
    <3> HIDE DEF j
    <3> QED BY <3>2, <3>3
  <2>4. CASE Swept(c)
    <3> DEFINE j == [job[c] EXCEPT !.at = "restat", !.seen = {}, !.total = 0]
    <3>1. j \in Job /\ j.at = "restat" /\ j.cover = job[c].cover /\ j.lost = job[c].lost
          /\ j.answer = job[c].answer
      <4>1. "restat" \in Stages /\ {} \in SUBSET Sight /\ 0 \in Int
        BY DEF Stages
      <4>2. job[c].names \in SUBSET Covers
        BY <1>2, JobParts
      <4>3. j = Recount(job[c], "restat", job[c].names, {}, 0)
        BY <1>2 DEF Job, Recount
      <4> HIDE DEF j
      <4>4. job[c] \in Job
        BY <1>2
      <4> QED BY <4>1, <4>2, <4>3, <4>4, RecountJob
    <3>2. job' = [job EXCEPT ![c] = j]
      BY <2>4 DEF Swept, SweepTo, Set
    <3> HIDE DEF j
    <3> QED BY <3>1, <3>2
  <2> QED BY <2>1, <2>2, <2>3, <2>4
<1> QED BY <1>1, <1>2, <1>3, Onward

\* A file is removed: not the remover's own, and the others are told.
LEMMA RemoveStep == ASSUME IInv, NEW c \in Callers, Remove(c) PROVE IInv'
<1>1. PICK i \in job[c].seen :
        /\ i.cover # job[c].cover
        /\ disk' = [disk EXCEPT ![i.cover] = Missing]
        /\ job' = [d \in Callers |->
                     IF d = c THEN [job[c] EXCEPT !.seen = @ \ {i}, !.total = @ - i.size]
                     ELSE IF job[d].cover = i.cover THEN [job[d] EXCEPT !.lost = TRUE] ELSE job[d]]
  BY DEF Remove, RemoveAny, Oldest
<1> DEFINE j == [job[c] EXCEPT !.seen = @ \ {i}, !.total = @ - i.size]
           lose(d) == [job[d] EXCEPT !.lost = TRUE]
<1>2. \A d \in Callers : job[d] \in Job
  BY DEF IInv, Kinds
<1>3. i \in Sight
  BY <1>2 DEF Job
<1>4. i.size \in Int /\ i.cover \in Covers
  BY <1>3 DEF Sight
<1>5. j \in Job /\ j.at = job[c].at /\ j.cover = job[c].cover /\ j.lost = job[c].lost
      /\ j.answer = job[c].answer /\ j.temp = job[c].temp
  <2> DEFINE S == job[c].seen \ {i}
             t == job[c].total - i.size
  <2>1. job[c].total \in Int /\ S \in SUBSET Sight
        /\ job[c].names \in SUBSET Covers /\ job[c].at \in Stages
    BY <1>2, JobParts
  <2>2. t \in Int
    BY <1>4, <2>1
  <2>3. j = Recount(job[c], job[c].at, job[c].names, S, t)
    BY <1>2 DEF Job, Recount
  <2> HIDE DEF j, S, t
  <2> QED BY <1>2, <2>1, <2>2, <2>3, RecountJob
<1>6. \A d \in Callers :
        /\ lose(d) \in Job /\ lose(d).at = job[d].at /\ lose(d).cover = job[d].cover
        /\ lose(d).lost /\ lose(d).answer = job[d].answer /\ lose(d).temp = job[d].temp
  BY <1>2 DEF Job
<1>7. \A d \in Callers :
        job'[d] = IF d = c THEN j ELSE IF job[d].cover = i.cover THEN lose(d) ELSE job[d]
  BY <1>1
<1>8. job' \in [Callers -> Job]
  BY <1>1, <1>2, <1>5, <1>6
<1>9. \A v \in Covers : disk'[v] = IF v = i.cover THEN Missing ELSE disk[v]
  BY <1>1, <1>4 DEF IInv, Kinds
<1>10. UNCHANGED made
  BY DEF Remove, RemoveAny
<1> HIDE DEF j, lose
<1>11. \A d \in Callers :
         /\ job'[d].at = job[d].at /\ job'[d].cover = job[d].cover
         /\ job'[d].answer = job[d].answer /\ job'[d].temp = job[d].temp
         /\ job[d].lost \/ (d # c /\ job[d].cover = i.cover) => job'[d].lost
  BY <1>5, <1>6, <1>7
<1>12. Kinds' /\ Prepared' /\ FetchedIsFound'
  <2>1. disk' \in [Covers -> Kind]
    BY <1>1, MissingKind DEF IInv, Kinds
  <2>2. Kinds'
    BY <1>8, <1>10, <1>11, <2>1 DEF IInv, Kinds
  <2>3. Prepared'
    BY <1>11 DEF IInv, Prepared
  <2>4. FetchedIsFound'
    BY <1>11 DEF IInv, FetchedIsFound
  <2> QED BY <2>2, <2>3, <2>4
<1>13. There'
  BY <1>1, <1>9, <1>11 DEF IInv, Kinds, There, Missing, Image
<1>14. OnlyGoodCopies'
  BY <1>9 DEF IInv, OnlyGoodCopies, Present, Missing, Image
<1> QED BY <1>12, <1>13, <1>14 DEF IInv

\* The requests are gone, and of the images at most what a failure has left.
LEMMA StopStep ==
  ASSUME IInv, Stop, disk' \in [Covers -> Kind],
         \A u \in Covers : disk'[u].state \in {disk[u].state, "none", "short"}
  PROVE  IInv'
<1>1. Rest("none", FALSE) \in Job /\ Rest("none", FALSE).at = "idle"
      /\ Rest("none", FALSE).answer = "none"
  BY RestJob DEF Rest, Answers
<1>2. \A c \in Callers : job'[c] = Rest("none", FALSE)
  BY DEF Stop
<1>3. Kinds' /\ Prepared' /\ There' /\ FetchedIsFound'
  BY <1>1, <1>2 DEF Stop, IInv, Kinds, Prepared, There, FetchedIsFound
<1>4. OnlyGoodCopies'
  BY MissingKind DEF IInv, OnlyGoodCopies, Present
<1> QED BY <1>3, <1>4 DEF IInv

LEMMA CrashStep == IInv /\ (Crash \/ \E u \in Covers : MachineFails(u)) => IInv'
<1>1. ASSUME IInv, Crash PROVE IInv'
  BY <1>1, StopStep DEF Crash, IInv, Kinds
<1>2. ASSUME IInv, NEW u \in Covers, MachineFails(u) PROVE IInv'
  <2>1. PICK i \in {Missing} \cup {Image(n, disk[u].mod, "short") : n \in 0..(disk[u].size - 1)} :
          disk' = [disk EXCEPT ![u] = i]
    BY <1>2 DEF MachineFails
  <2>2. disk \in [Covers -> Kind] /\ disk[u].mod \in Nat /\ disk[u].size \in Nat
    BY <1>2 DEF IInv, Kinds, Kind
  <2>3. i \in Kind /\ i.state \in {"none", "short"}
    BY <2>1, <2>2, MissingKind DEF Image, Kind, States
  <2> QED BY <1>2, <2>1, <2>2, <2>3, StopStep DEF MachineFails
<1> QED BY <1>1, <1>2

LEMMA IInvStep == IInv /\ [Next]_vars => IInv'
<1> SUFFICES ASSUME IInv, [Next]_vars PROVE IInv'
  OBVIOUS
<1>1. CASE UNCHANGED vars
  BY <1>1 DEF vars, IInv, Kinds, Prepared, There, OnlyGoodCopies, FetchedIsFound, Present,
              Missing, Image
<1>2. ASSUME NEW c \in Callers, Serve(c) PROVE IInv'
  BY <1>2, LookStep, CopyStep, RenameStep, SweepStep, RemoveStep DEF Serve
<1>3. ASSUME NEW c \in Callers, NEW u \in Covers, Ask(c, u) PROVE IInv'
  BY <1>3, AskStep
<1> QED BY <1>1, <1>2, <1>3, CrashStep DEF Next

LEMMA DirectorySound == Spec => []IInv
<1> QED BY IInvInit, IInvStep, PTL DEF Spec

---------------------------------------------------------------------------

\* No file has a cover's name after a copy that met an error, whatever fails or
\* crashes meanwhile.
THEOREM NamesMeanCopied == Spec => []OnlyGoodCopies
<1>1. IInv => OnlyGoodCopies
  BY DEF IInv
<1> QED BY <1>1, DirectorySound, PTL

\* A cover that exists is "not found" only when another's eviction took its file.
THEOREM CoversAreFound == Spec => []FetchedIsFound
<1>1. IInv => FetchedIsFound
  BY DEF IInv
<1> QED BY <1>1, DirectorySound, PTL

---------------------------------------------------------------------------
(* The limit.                                                              *)

\* Eviction c will leave the directory within the limit or with its own image
\* alone: it has yet to list it, or the files it does not know of by now are
\* none but its own, and its total covers those it has looked at, which are as
\* they were.
Settles(c) ==
  \/ job[c].at = "list"
  \/ /\ job[c].at = "sweep"
     /\ \A u \in Present : \/ u \in job[c].names \/ u = job[c].cover
                           \/ \E i \in job[c].seen : i.cover = u
     /\ SumFunctionOnSet(ImageBytes, Covers \ job[c].names) <= job[c].total
     /\ \A i \in job[c].seen : /\ i.cover \notin job[c].names
                               /\ disk[i.cover] = Missing \/ disk[i.cover].size = i.size

WithinLimit == TotalBytes <= MaxBytes \/ Cardinality(Present) <= 1
Settling == interrupted \/ WithinLimit \/ \E c \in Callers : Settles(c)

\* What an eviction counts in starts empty.
Fresh == \A c \in Callers : job[c].at # "sweep" => job[c].seen = {} /\ job[c].total = 0

LEMMA BytesTyped ==
  ASSUME disk \in [Covers -> Kind]
  PROVE  \A S \in SUBSET Covers : /\ IsFiniteSet(S) /\ \A u \in S : ImageBytes[u] \in Nat
                                  /\ SumFunctionOnSet(ImageBytes, S) \in Nat
<1> TAKE S \in SUBSET Covers
<1>1. IsFiniteSet(S)
  BY FiniteAssumption, FS_Subset
<1>2. \A u \in S : ImageBytes[u] \in Nat
  BY DEF ImageBytes, Kind
<1> QED BY <1>1, <1>2, SumType

\* A step that removes files and adds none.
Shrinks == \A u \in Covers : disk'[u] \in {disk[u], Missing}

LEMMA ShrinkingSums ==
  ASSUME disk \in [Covers -> Kind], disk' \in [Covers -> Kind], Shrinks
  PROVE  /\ \A S \in SUBSET Covers :
              SumFunctionOnSet(ImageBytes, S)' <= SumFunctionOnSet(ImageBytes, S)
         /\ Present' \subseteq Present /\ Cardinality(Present') <= Cardinality(Present)
<1>1. ASSUME NEW S \in SUBSET Covers
      PROVE  SumFunctionOnSet(ImageBytes', S) <= SumFunctionOnSet(ImageBytes, S)
  <2>1. IsFiniteSet(S) /\ \A u \in S : ImageBytes[u] \in Nat
    BY BytesTyped
  <2>2. \A u \in S : ImageBytes'[u] \in Nat /\ ImageBytes'[u] <= ImageBytes[u]
    BY DEF ImageBytes, Kind, Shrinks, Missing, Image
  <2> QED BY <2>1, <2>2, SumsCompare
<1>2. Present' \subseteq Present
  BY DEF Present, Shrinks
<1>3. IsFiniteSet(Present)
  BY FiniteAssumption, FS_Subset DEF Present
<1> QED BY <1>1, <1>2, <1>3, FS_Subset

LEMMA ShrinkingLimit ==
  ASSUME disk \in [Covers -> Kind], disk' \in [Covers -> Kind], Shrinks, WithinLimit
  PROVE  WithinLimit'
<1>1. TotalBytes \in Nat
  BY BytesTyped DEF TotalBytes
<1>2. TotalBytes' <= TotalBytes /\ Cardinality(Present') <= Cardinality(Present)
  BY ShrinkingSums DEF TotalBytes
<1>3. TotalBytes' \in Nat
  <2>1. IsFiniteSet(Covers) /\ \A u \in Covers : ImageBytes'[u] \in Nat
    BY FiniteAssumption DEF ImageBytes, Kind
  <2> QED BY <2>1, SumType DEF TotalBytes
<1>4. Cardinality(Present) \in Nat /\ Cardinality(Present') \in Nat
  <2>1. IsFiniteSet(Present) /\ IsFiniteSet(Present')
    BY FiniteAssumption, FS_Subset DEF Present
  <2> QED BY <2>1, FS_CardinalityType
<1>5. CASE TotalBytes <= MaxBytes
  BY <1>1, <1>2, <1>3, <1>5, BoundsAssumption DEF WithinLimit
<1>6. CASE Cardinality(Present) <= 1
  BY <1>2, <1>4, <1>6 DEF WithinLimit
<1> QED BY <1>5, <1>6 DEF WithinLimit

\* An eviction that settles goes on to, whatever is removed meanwhile.
LEMMA SettlesStay ==
  ASSUME IInv, IInv', Shrinks, NEW d \in Callers, Settles(d),
         job'[d].at = job[d].at, job'[d].cover = job[d].cover, job'[d].names = job[d].names,
         job'[d].seen = job[d].seen, job'[d].total = job[d].total
  PROVE  Settles(d)'
<1>1. CASE job[d].at = "list"
  BY <1>1 DEF Settles
<1>2. CASE job[d].at = "sweep"
  <2> DEFINE S == Covers \ job[d].names
  <2>1. disk \in [Covers -> Kind] /\ disk' \in [Covers -> Kind] /\ job[d] \in Job
    BY DEF IInv, Kinds
  <2>2. SumFunctionOnSet(ImageBytes, S) \in Nat /\ SumFunctionOnSet(ImageBytes', S) \in Nat
    <3>1. IsFiniteSet(S) /\ \A u \in S : ImageBytes'[u] \in Nat
      BY <2>1, FiniteAssumption, FS_Subset DEF ImageBytes, Kind
    <3> QED BY <2>1, <3>1, BytesTyped, SumType
  <2>3. SumFunctionOnSet(ImageBytes', S) <= SumFunctionOnSet(ImageBytes, S)
    BY <2>1, ShrinkingSums
  <2>4. SumFunctionOnSet(ImageBytes, S) <= job[d].total /\ job[d].total \in Int
    BY <1>2, <2>1, JobParts DEF Settles
  <2>5. SumFunctionOnSet(ImageBytes', S) <= job[d].total
    BY <2>2, <2>3, <2>4
  <2>6. \A i \in job[d].seen : i.cover \in Covers
    BY <2>1, JobParts DEF Sight
  <2>7. Present' \subseteq Present
    BY <2>1, ShrinkingSums
  <2> QED BY <1>2, <2>5, <2>6, <2>7 DEF Settles, Shrinks
<1> QED BY <1>1, <1>2 DEF Settles

\* A step of request c that adds no file, and goes on to settle them where c
\* was to.
LEMMA SettlingKept ==
  ASSUME IInv, IInv', Settling, Shrinks, UNCHANGED interrupted, NEW c \in Callers,
         \A d \in Callers \ {c} :
           /\ job'[d].at = job[d].at /\ job'[d].cover = job[d].cover
           /\ job'[d].names = job[d].names /\ job'[d].seen = job[d].seen
           /\ job'[d].total = job[d].total,
         Settles(c) => WithinLimit' \/ Settles(c)'
  PROVE  Settling'
<1>1. WithinLimit => WithinLimit'
  BY ShrinkingLimit DEF IInv, Kinds
<1>2. ASSUME NEW d \in Callers \ {c}, Settles(d) PROVE Settles(d)'
  BY <1>2, SettlesStay
<1> QED BY <1>1, <1>2 DEF Settling

\* The steps outside an eviction.
LEMMA ElsewhereSettles ==
  ASSUME IInv, IInv', Settling, NEW c \in Callers,
         \/ \E u \in Covers : Ask(c, u)
         \/ Stat(c) \/ Restat(c) \/ Open(c) \/ Copy(c) \/ FetchFails(c) \/ Discard(c)
  PROVE  Settling'
<1>1. /\ job[c].at \notin {"list", "sweep"} /\ UNCHANGED <<disk, interrupted>>
      /\ \E j : job' = [job EXCEPT ![c] = j]
  BY DEF Ask, Stat, Restat, Open, Copy, FetchFails, Discard, Goto, Answer, Set
<1>2. \A d \in Callers \ {c} : job'[d] = job[d]
  BY <1>1 DEF IInv, Kinds
<1>3. ~ Settles(c)
  BY <1>1 DEF Settles
<1>4. Shrinks
  BY <1>1 DEF Shrinks
<1> QED BY <1>1, <1>2, <1>3, <1>4, SettlingKept

\* A request that has put its image in place will list the directory; one that
\* lists it will settle what it has listed.
LEMMA ListingSettles ==
  ASSUME IInv, Fresh, NEW c \in Callers, Rename(c) \/ ListDir(c)
  PROVE  Settling'
<1>1. job[c] \in Job /\ disk \in [Covers -> Kind]
  BY DEF IInv, Kinds
<1>2. CASE Rename(c)
  <2>1. job' = [job EXCEPT ![c] = [job[c] EXCEPT !.at = "list"]]
    BY <1>2 DEF Rename, Goto, Set
  <2>2. job'[c].at = "list"
    BY <1>1, <2>1 DEF IInv, Kinds, Job
  <2> QED BY <2>2 DEF Settling, Settles
<1>3. CASE ListDir(c)
  <2>1. /\ job' = [job EXCEPT ![c] = [job[c] EXCEPT !.at = "sweep", !.names = Present]]
        /\ UNCHANGED disk /\ job[c].at = "list"
    BY <1>3 DEF ListDir, Set
  <2>2. job'[c].at = "sweep" /\ job'[c].names = Present
    BY <1>1, <2>1 DEF IInv, Kinds, Job
  <2>3. job'[c].seen = job[c].seen /\ job'[c].total = job[c].total
    BY <1>1, <2>1 DEF IInv, Kinds, Job
  <2>4. job[c].seen = {} /\ job[c].total = 0
    BY <2>1 DEF Fresh
  <2>5. ImageBytes' = ImageBytes /\ Present' = Present
    BY <2>1 DEF ImageBytes, Present
  <2>6. SumFunctionOnSet(ImageBytes, Covers \ Present) = 0
    <3>1. IsFiniteSet(Covers \ Present) /\ \A u \in Covers \ Present : ImageBytes[u] = 0
      BY FiniteAssumption, FS_Subset DEF ImageBytes, Present, Missing, Image
    <3> QED BY <3>1, SumOfZeros
  <2>7. Settles(c)'
    BY <2>2, <2>3, <2>4, <2>5, <2>6 DEF Settles
  <2> QED BY <2>7 DEF Settling
<1> QED BY <1>2, <1>3

\* A request looks at one more file.
LEMMA InfoSettles == ASSUME IInv, IInv', Settling, NEW c \in Callers, Info(c) PROVE Settling'
<1>1. job[c] \in Job /\ disk \in [Covers -> Kind] /\ job[c].at = "sweep"
  BY DEF IInv, Kinds, Info
<1>2. PICK u \in job[c].names :
        job' = [job EXCEPT ![c] =
                  IF disk[u] = Missing
                    THEN [job[c] EXCEPT !.names = @ \ {u}]
                    ELSE [job[c] EXCEPT !.names = @ \ {u}, !.seen = @ \cup {Seen(u)},
                                        !.total = @ + disk[u].size]]
  BY DEF Info, Set
<1> DEFINE N == job[c].names \ {u}
           S == IF disk[u] = Missing THEN job[c].seen ELSE job[c].seen \cup {Seen(u)}
           t == job[c].total + disk[u].size
<1>3. u \in Covers /\ disk[u].size \in Nat /\ Seen(u) \in Sight
  BY <1>1 DEF Job, Kind, Seen, Sight
<1>4. /\ N \in SUBSET Covers /\ S \in SUBSET Sight /\ t \in Int /\ job[c].total \in Int
      /\ "sweep" \in Stages
  BY <1>1, <1>3, JobParts DEF Stages
<1>5. job'[c] = Recount(job[c], "sweep", N, S, t)
  <2>1. job'[c] = IF disk[u] = Missing
                    THEN [job[c] EXCEPT !.names = @ \ {u}]
                    ELSE [job[c] EXCEPT !.names = @ \ {u}, !.seen = @ \cup {Seen(u)},
                                        !.total = @ + disk[u].size]
    BY <1>2 DEF IInv, Kinds
  <2>2. CASE disk[u] = Missing
    <3>1. t = job[c].total
      BY <1>4, <2>2 DEF Missing, Image
    <3> HIDE DEF t
    <3> QED BY <1>1, <2>1, <2>2, <3>1 DEF Job, Recount
  <2>3. CASE disk[u] # Missing
    BY <1>1, <2>1, <2>3 DEF Job, Recount
  <2> QED BY <2>2, <2>3
<1>6. /\ job'[c].at = "sweep" /\ job'[c].names = N /\ job'[c].seen = S /\ job'[c].total = t
      /\ job'[c].cover = job[c].cover
  <2> HIDE DEF N, S, t
  <2> QED BY <1>1, <1>4, <1>5, RecountJob
<1>7. UNCHANGED <<disk, interrupted>>
  BY DEF Info
<1>8. ImageBytes' = ImageBytes /\ Present' = Present /\ Shrinks
  BY <1>7 DEF ImageBytes, Present, Shrinks
<1>9. ASSUME Settles(c) PROVE Settles(c)'
  <2>1. SumFunctionOnSet(ImageBytes, Covers \ job[c].names) <= job[c].total
    BY <1>1, <1>9 DEF Settles
  <2>2. SumFunctionOnSet(ImageBytes, Covers \ N)
          = disk[u].size + SumFunctionOnSet(ImageBytes, Covers \ job[c].names)
    <3>1. IsFiniteSet(Covers \ N) /\ \A v \in Covers \ N : ImageBytes[v] \in Nat
      BY <1>1, BytesTyped
    <3>2. u \in Covers \ N /\ (Covers \ N) \ {u} = Covers \ job[c].names
      BY <1>2, <1>3
    <3>3. ImageBytes[u] = disk[u].size
      BY <1>3 DEF ImageBytes
    <3> QED BY <3>1, <3>2, <3>3, SumWithout
  <2>3. SumFunctionOnSet(ImageBytes, Covers \ job[c].names) \in Nat
    BY <1>1, BytesTyped
  <2>4. SumFunctionOnSet(ImageBytes', Covers \ job'[c].names) <= job'[c].total
    BY <1>3, <1>4, <1>6, <1>8, <2>1, <2>2, <2>3
  <2>5. \A v \in Present' : \/ v \in job'[c].names \/ v = job'[c].cover
                            \/ \E i \in job'[c].seen : i.cover = v
    <3> SUFFICES ASSUME NEW v \in Present
                 PROVE \/ v \in N \/ v = job[c].cover \/ \E i \in S : i.cover = v
      BY <1>6, <1>8
    <3>1. \/ v \in job[c].names \/ v = job[c].cover
          \/ \E i \in job[c].seen : i.cover = v
      BY <1>1, <1>9 DEF Settles
    <3>2. job[c].seen \subseteq S
      OBVIOUS
    <3>3. CASE v = u
      <4>1. Seen(u) \in S
        BY <3>3 DEF Present
      <4>2. Seen(u).cover = v
        BY <3>3 DEF Seen
      <4> QED BY <4>1, <4>2
    <3>4. CASE v # u
      BY <3>1, <3>2, <3>4
    <3> QED BY <3>3, <3>4
  <2>6. \A i \in job'[c].seen : /\ i.cover \notin job'[c].names
                                /\ disk'[i.cover] = Missing \/ disk'[i.cover].size = i.size
    BY <1>1, <1>6, <1>7, <1>9 DEF Settles, Seen
  <2> QED BY <1>6, <2>4, <2>5, <2>6 DEF Settles
<1>10. \A d \in Callers \ {c} : job'[d] = job[d]
  BY <1>2 DEF IInv, Kinds
<1> QED BY <1>7, <1>8, <1>9, <1>10, SettlingKept

\* A request leaves alone what it must, or what has gone.
LEMMA SpareSettles == ASSUME IInv, IInv', Settling, NEW c \in Callers, Spare(c) PROVE Settling'
<1>1. job[c] \in Job /\ job[c].at = "sweep" /\ UNCHANGED <<disk, interrupted>>
  BY DEF IInv, Kinds, Spare, Full
<1>2. PICK i \in job[c].seen :
        /\ i.cover = job[c].cover \/ disk[i.cover] = Missing
        /\ job' = [job EXCEPT ![c] = [job[c] EXCEPT !.seen = @ \ {i}]]
  BY DEF Spare, Set, Oldest
<1>3. /\ job'[c].at = "sweep" /\ job'[c].names = job[c].names /\ job'[c].seen = job[c].seen \ {i}
      /\ job'[c].total = job[c].total /\ job'[c].cover = job[c].cover
  BY <1>1, <1>2 DEF IInv, Kinds, Job
<1>4. ImageBytes' = ImageBytes /\ Present' = Present /\ Shrinks
  BY <1>1 DEF ImageBytes, Present, Shrinks
<1>5. Settles(c) => Settles(c)'
  BY <1>1, <1>2, <1>3, <1>4 DEF Settles, Present
<1>6. \A d \in Callers \ {c} : job'[d] = job[d]
  BY <1>2 DEF IInv, Kinds
<1> QED BY <1>1, <1>4, <1>5, <1>6, SettlingKept

\* A request removes a file it has looked at, and takes it off its total.
LEMMA RemoveSettles == ASSUME IInv, IInv', Settling, NEW c \in Callers, Remove(c) PROVE Settling'
<1>1. job[c] \in Job /\ job[c].at = "sweep" /\ UNCHANGED interrupted /\ disk \in [Covers -> Kind]
  BY DEF IInv, Kinds, Remove, RemoveAny, Full
<1>2. PICK i \in job[c].seen :
        /\ disk[i.cover] # Missing
        /\ disk' = [disk EXCEPT ![i.cover] = Missing]
        /\ job' = [d \in Callers |->
                     IF d = c THEN [job[c] EXCEPT !.seen = @ \ {i}, !.total = @ - i.size]
                     ELSE IF job[d].cover = i.cover THEN [job[d] EXCEPT !.lost = TRUE] ELSE job[d]]
  BY DEF Remove, RemoveAny, Oldest
<1> DEFINE S == job[c].seen \ {i}
           t == job[c].total - i.size
           u == i.cover
<1>3. /\ u \in Covers /\ i.size \in Nat /\ job[c].names \in SUBSET Covers
      /\ S \in SUBSET Sight /\ job[c].total \in Int /\ t \in Int /\ "sweep" \in Stages
  <2>1. i \in Sight /\ job[c].seen \in SUBSET Sight /\ job[c].names \in SUBSET Covers
        /\ job[c].total \in Int
    BY <1>1, JobParts
  <2> QED BY <2>1 DEF Sight, Stages
<1>4. /\ job'[c].at = "sweep" /\ job'[c].names = job[c].names /\ job'[c].seen = S
      /\ job'[c].total = t /\ job'[c].cover = job[c].cover
  <2>1. job'[c] = Recount(job[c], "sweep", job[c].names, S, t)
    BY <1>1, <1>2 DEF Job, Recount
  <2> HIDE DEF S, t
  <2> QED BY <1>1, <1>3, <2>1, RecountJob
<1>5. \A v \in Covers : disk'[v] = IF v = u THEN Missing ELSE disk[v]
  BY <1>1, <1>2
<1>6. Shrinks
  BY <1>5 DEF Shrinks
<1>7. ASSUME Settles(c) PROVE Settles(c)'
  <2> DEFINE L == Covers \ job[c].names
  <2>1. /\ SumFunctionOnSet(ImageBytes, L) <= job[c].total
        /\ u \notin job[c].names /\ disk[u].size = i.size
    BY <1>1, <1>2, <1>7 DEF Settles
  <2>2. /\ SumFunctionOnSet(ImageBytes', L) - ImageBytes'[u] = SumFunctionOnSet(ImageBytes, L) - ImageBytes[u]
        /\ SumFunctionOnSet(ImageBytes', L) \in Nat /\ SumFunctionOnSet(ImageBytes, L) \in Nat
    <3>1. IsFiniteSet(L) /\ \A v \in L : ImageBytes[v] \in Nat
      BY <1>1, BytesTyped
    <3>2. \A v \in L : ImageBytes'[v] \in Nat
      BY <1>1, <1>5 DEF ImageBytes, Kind, Missing, Image
    <3>3. \A v \in L \ {u} : ImageBytes'[v] = ImageBytes[v]
      BY <1>5 DEF ImageBytes
    <3>4. u \in L
      BY <1>3, <2>1
    <3> QED BY <3>1, <3>2, <3>3, <3>4, SumChanges
  <2>3. ImageBytes'[u] = 0 /\ ImageBytes[u] = i.size
    BY <1>3, <1>5, <2>1 DEF ImageBytes, Missing, Image
  <2>4. SumFunctionOnSet(ImageBytes', L) <= t
    BY <1>3, <2>1, <2>2, <2>3
  <2>5. \A v \in Present' : v \in Present /\ v # u
    BY <1>5 DEF Present
  <2>6. \A k \in S : k.cover \in Covers
    BY <1>3 DEF Sight
  <2>7. \A v \in Present' : v \in job[c].names \/ v = job[c].cover \/ \E k \in S : k.cover = v
    BY <1>1, <1>7, <2>5 DEF Settles
  <2>8. \A k \in S : k.cover \notin job[c].names /\ (disk'[k.cover] = Missing \/ disk'[k.cover].size = k.size)
    BY <1>1, <1>5, <1>7, <2>6 DEF Settles
  <2> QED BY <1>4, <2>4, <2>7, <2>8 DEF Settles
<1>8. \A d \in Callers \ {c} :
        /\ job'[d].at = job[d].at /\ job'[d].cover = job[d].cover
        /\ job'[d].names = job[d].names /\ job'[d].seen = job[d].seen
        /\ job'[d].total = job[d].total
  <2>1. \A d \in Callers : job[d] \in Job
    BY DEF IInv, Kinds
  <2> QED BY <1>2, <2>1 DEF Job
<1> QED BY <1>1, <1>6, <1>7, <1>8, SettlingKept

\* An eviction that ends has done what it was to.
LEMMA SweptSettles == ASSUME IInv, IInv', Settling, NEW c \in Callers, Swept(c) PROVE Settling'
<1>1. /\ job[c].at = "sweep" /\ job[c].names = {} /\ UNCHANGED <<disk, interrupted>>
      /\ job[c].total <= MaxBytes \/ job[c].seen = {}
      /\ \E j : job' = [job EXCEPT ![c] = j]
  BY DEF Swept, SweepTo, Set
<1>2. /\ \A d \in Callers \ {c} : job'[d] = job[d]
      /\ disk \in [Covers -> Kind] /\ job[c].total \in Int
  BY <1>1, JobParts DEF IInv, Kinds
<1>3. Shrinks /\ WithinLimit' = WithinLimit
  BY <1>1 DEF Shrinks, WithinLimit, TotalBytes, ImageBytes, Present
<1>4. ASSUME Settles(c) PROVE WithinLimit
  <2>1. Covers \ {} = Covers
    OBVIOUS
  <2>2. TotalBytes <= job[c].total /\ TotalBytes \in Nat
    BY <1>1, <1>2, <1>4, <2>1, BytesTyped DEF Settles, TotalBytes
  <2>3. CASE job[c].total <= MaxBytes
    BY <1>2, <2>2, <2>3, BoundsAssumption DEF WithinLimit
  <2>4. CASE job[c].seen = {}
    <3>1. Present \subseteq {job[c].cover}
      BY <1>1, <1>4, <2>4 DEF Settles
    <3>2. Cardinality(Present) <= 1
      <4>1. IsFiniteSet({job[c].cover}) /\ Cardinality({job[c].cover}) = 1
        BY FS_Singleton
      <4> QED BY <3>1, <4>1, FS_Subset
    <3> QED BY <3>2 DEF WithinLimit
  <2> QED BY <1>1, <2>3, <2>4
<1> QED BY <1>1, <1>2, <1>3, <1>4, SettlingKept

LEMMA FreshStep == IInv /\ Fresh /\ [Next]_vars => Fresh'
<1> SUFFICES ASSUME IInv, Fresh, [Next]_vars PROVE Fresh'
  OBVIOUS
<1>1. \A c \in Callers : job[c] \in Job
  BY DEF IInv, Kinds
<1>2. ASSUME NEW c \in Callers, Serve(c) PROVE Fresh'
  <2>1. CASE Remove(c)
    <3>1. job[c].at = "sweep" /\ \E i \in job[c].seen :
             job' = [d \in Callers |->
                IF d = c THEN [job[c] EXCEPT !.seen = @ \ {i}, !.total = @ - i.size]
                ELSE IF job[d].cover = i.cover THEN [job[d] EXCEPT !.lost = TRUE] ELSE job[d]]
      BY <2>1 DEF Remove, RemoveAny, Full, Oldest
    <3> QED BY <1>1, <3>1 DEF Fresh, Job
  <2>2. CASE Swept(c)
    <3>1. job' = [job EXCEPT ![c] = [job[c] EXCEPT !.at = "restat", !.seen = {}, !.total = 0]]
      BY <2>2 DEF Swept, SweepTo, Set
    <3> QED BY <1>1, <3>1 DEF Fresh, Job, IInv, Kinds
  <2>3. CASE Info(c) \/ Spare(c) \/ ListDir(c)
    <3>1. PICK j : job' = [job EXCEPT ![c] = j] /\ j.at = "sweep"
      <4>1. CASE Info(c)
        <5>1. PICK u \in job[c].names :
                job' = [job EXCEPT ![c] =
                          IF disk[u] = Missing
                            THEN [job[c] EXCEPT !.names = @ \ {u}]
                            ELSE [job[c] EXCEPT !.names = @ \ {u}, !.seen = @ \cup {Seen(u)},
                                                !.total = @ + disk[u].size]]
          BY <4>1 DEF Info, Set
        <5>2. job[c].at = "sweep"
          BY <4>1 DEF Info
        <5>3. [job[c] EXCEPT !.names = @ \ {u}].at = "sweep"
          BY <1>1, <5>2 DEF Job
        <5>4. [job[c] EXCEPT !.names = @ \ {u}, !.seen = @ \cup {Seen(u)},
                             !.total = @ + disk[u].size].at = "sweep"
          BY <1>1, <5>2 DEF Job
        <5> QED BY <5>1, <5>3, <5>4
      <4>2. CASE Spare(c)
        <5>1. PICK i : job' = [job EXCEPT ![c] = [job[c] EXCEPT !.seen = @ \ {i}]]
          BY <4>2 DEF Spare, Set
        <5>2. [job[c] EXCEPT !.seen = @ \ {i}].at = "sweep"
          BY <1>1, <4>2 DEF Spare, Full, Job
        <5> QED BY <5>1, <5>2
      <4>3. CASE ListDir(c)
        <5>1. job' = [job EXCEPT ![c] = [job[c] EXCEPT !.at = "sweep", !.names = Present]]
          BY <4>3 DEF ListDir, Set
        <5>2. [job[c] EXCEPT !.at = "sweep", !.names = Present].at = "sweep"
          BY <1>1 DEF Job
        <5> QED BY <5>1, <5>2
      <4> QED BY <2>3, <4>1, <4>2, <4>3
    <3> QED BY <3>1 DEF Fresh, IInv, Kinds
  <2>4. CASE Stat(c) \/ Restat(c) \/ Open(c) \/ FetchFails(c) \/ Discard(c) \/ ListDirFails(c)
    <3>1. \/ \E a : job' = [job EXCEPT ![c] = Rest(a, job[c].lost)]
          \/ \E l : job' = [job EXCEPT ![c] = [job[c] EXCEPT !.at = l]]
      BY <2>4 DEF Stat, Restat, Open, FetchFails, Discard, ListDirFails, Goto, Answer, Set
    <3>2. job[c].at # "sweep"
      BY <2>4 DEF Stat, Restat, Open, FetchFails, Discard, ListDirFails
    <3> QED BY <1>1, <3>1, <3>2 DEF Fresh, Job, Rest, IInv, Kinds
  <2>5. CASE Copy(c) \/ Rename(c)
    <3>1. job[c].seen = {} /\ job[c].total = 0
      BY <2>5 DEF Fresh, Copy, Rename
    <3>2. \/ \E t : job' = [job EXCEPT ![c] = [job[c] EXCEPT !.at = "rename", !.temp = t]]
          \/ job' = [job EXCEPT ![c] = [job[c] EXCEPT !.at = "list"]]
      BY <2>5 DEF Copy, Rename, Goto, Set
    <3> QED BY <1>1, <3>1, <3>2 DEF Fresh, Job, IInv, Kinds
  <2> QED BY <1>2, <2>1, <2>2, <2>3, <2>4, <2>5 DEF Serve
<1>3. ASSUME NEW c \in Callers, NEW u \in Covers, Ask(c, u) PROVE Fresh'
  BY <1>3 DEF Ask, Set, Rest, Fresh, IInv, Kinds
<1>4. CASE Stop
  BY <1>4 DEF Stop, Rest, Fresh
<1>5. CASE UNCHANGED vars
  BY <1>5 DEF vars, Fresh
<1> QED BY <1>2, <1>3, <1>4, <1>5 DEF Next, Crash, MachineFails

LEMMA SettlingStep == IInv /\ IInv' /\ Fresh /\ Settling /\ [Next]_vars => Settling'
<1> SUFFICES ASSUME IInv, IInv', Fresh, Settling, [Next]_vars PROVE Settling'
  OBVIOUS
<1>1. ASSUME NEW c \in Callers, Serve(c) PROVE Settling'
  <2>1. CASE ListDirFails(c)
    BY <2>1 DEF ListDirFails, Settling
  <2> QED
    BY <1>1, <2>1, ElsewhereSettles, ListingSettles, InfoSettles, SpareSettles, RemoveSettles,
       SweptSettles DEF Serve
<1>2. ASSUME NEW c \in Callers, NEW u \in Covers, Ask(c, u) PROVE Settling'
  BY <1>2, ElsewhereSettles
<1>3. CASE Stop
  BY <1>3 DEF Stop, Settling
<1>4. CASE UNCHANGED vars
  BY <1>4 DEF vars, Settling, WithinLimit, Settles, TotalBytes, ImageBytes, Present
<1> QED BY <1>1, <1>2, <1>3, <1>4 DEF Next, Crash, MachineFails

\* When nothing is under way the images are within the limit, or there is one
\* image at most, unless an eviction was cut off and none has begun since
\* (cache.go:115-152): for every number of requests that evict at once.
THEOREM QuietMeansWithinLimit == Spec => []QuietWithinLimit
<1>1. Init => Fresh /\ Settling
  <2> SUFFICES ASSUME Init PROVE Fresh /\ Settling
    OBVIOUS
  <2>1. Fresh
    BY DEF Init, Fresh, Rest
  <2>2. TotalBytes = 0
    <3>1. \A u \in Covers : ImageBytes[u] = 0
      BY DEF Init, ImageBytes, Missing, Image
    <3> QED BY <3>1, FiniteAssumption, SumOfZeros DEF TotalBytes
  <2>3. 0 <= MaxBytes
    BY BoundsAssumption
  <2> QED BY <2>1, <2>2, <2>3 DEF Settling, WithinLimit
<1>2. Settling => QuietWithinLimit
  BY DEF Settling, Settles, WithinLimit, QuietWithinLimit
<1> QED BY <1>1, <1>2, FreshStep, SettlingStep, DirectorySound, PTL DEF Spec
===================================================================================
