---------------------------- MODULE AudioCacheProofs ----------------------------
(***************************************************************************)
(* Proofs about AudioCache, for any sets of keys, requests and file names, *)
(* any sizes and any limit, with faults and damage or without.             *)
(***************************************************************************)
EXTENDS AudioCache, Inductions

---------------------------------------------------------------------------
(* Types.                                                                  *)

\* The local variables a statement reads have been assigned by then.
Located ==
  \A c \in Callers :
    /\ pc[c] # "idle" => job[c] \in Job /\ job[c].key \in Keys
    /\ pc[c] \in Hitting \cup {"filling", "record"} => job[c].file \in Files
    /\ pc[c] \in {"delete", "remove"} => victim[c] \in Entry

LEMMA TypingInit == Init => TypeOK /\ Located
  <1> SUFFICES ASSUME Init PROVE TypeOK /\ Located
    OBVIOUS
  <1>1. "idle" \in Stages /\ "up" \in Phases /\ "unused" \in Places
    BY DEF Stages, Phases, Places
  <1>2. [key |-> None, len |-> 0] \in Bytes
    BY DEF Bytes
  <1> QED
    BY <1>1, <1>2 DEF Init, TypeOK, Located, Hitting

\* The index accounts for a number of bytes.
LEMMA IndexedTyped ==
  ASSUME rows \in [Keys -> Row \cup {None}]
  PROVE  IndexedBytes \in Nat /\ RowBytes \in [Keys -> Nat]
  <1>1. RowBytes \in [Keys -> Nat]
    BY DEF RowBytes, Row
  <1> QED
    BY <1>1, FiniteAssumption, SumType DEF IndexedBytes

\* Every step keeps types and assignments, whatever the order of statements.
LEMMA TypingStep == TypeOK /\ Located /\ [Next]_vars => TypeOK' /\ Located'
  <1> SUFFICES ASSUME TypeOK, Located, [Next]_vars PROVE TypeOK' /\ Located'
    OBVIOUS
  <1> USE SizesAssumption, NoneAssumption, LimitAssumption
  <1> USE DEF disk, evictor, ghosts, Phases, Places, Stages, Hitting, Filling, Evicting
  <1>1. ASSUME NEW c \in Callers, NEW k \in Keys, LookupSelect(c, k) PROVE TypeOK' /\ Located'
    <2>1. CASE rows[k] = None
      <3>1. job' = [job EXCEPT ![c] = [key |-> k, file |-> None, size |-> 0]]
        BY <1>1, <2>1 DEF LookupSelect, Miss
      <3>2. [key |-> k, file |-> None, size |-> 0] \in Job
        BY DEF Job
      <3> QED
        BY <1>1, <2>1, <3>1, <3>2 DEF LookupSelect, Miss, Goto, TypeOK, Located
    <2>2. CASE rows[k] # None
      <3>1. rows[k] \in Row
        BY <2>2 DEF TypeOK
      <3> QED
        BY <1>1, <2>2, <3>1 DEF LookupSelect, Goto, TypeOK, Located, Row, Job
    <2> QED
      BY <2>1, <2>2
  <1>2. ASSUME NEW c \in Callers, LookupStat(c) PROVE TypeOK' /\ Located'
    BY <1>2 DEF LookupStat, StatResult, Goto, TypeOK, Located
  <1>3. ASSUME NEW c \in Callers, LookupDrop(c) PROVE TypeOK' /\ Located'
    BY <1>3 DEF LookupDrop, Miss, Goto, Job, TypeOK, Located
  <1>4. ASSUME NEW c \in Callers, LookupTouch(c) PROVE TypeOK' /\ Located'
    <2>1. job[c].key \in Keys
      BY <1>4 DEF LookupTouch, Located
    <2>2. rows' \in [Keys -> Row \cup {None}]
      <3>1. CASE rows[job[c].key] = None
        BY <1>4, <3>1 DEF LookupTouch, TypeOK
      <3>2. CASE rows[job[c].key] # None
        <4>1. rows[job[c].key] \in Row
          BY <2>1, <3>2 DEF TypeOK
        <4>2. [rows[job[c].key] EXCEPT !.accessed = clock] \in Row
          BY <4>1 DEF TypeOK, Row
        <4>3. rows' = [rows EXCEPT ![job[c].key] = [rows[job[c].key] EXCEPT !.accessed = clock]]
          BY <1>4, <3>2 DEF LookupTouch
        <4> QED
          BY <4>2, <4>3 DEF TypeOK
      <3> QED
        BY <3>1, <3>2
    <2> QED
      BY <1>4, <2>2 DEF LookupTouch, Goto, TypeOK, Located
  <1>5. ASSUME NEW c \in Callers, LookupFails(c) PROVE TypeOK' /\ Located'
    BY <1>5 DEF LookupFails, Return, Goto, TypeOK, Located
  <1>6. ASSUME NEW c \in Callers, LeaseKey(c) PROVE TypeOK' /\ Located'
    BY <1>6 DEF LeaseKey, Goto, TypeOK, Located
  <1>7. ASSUME NEW c \in Callers, OpenObject(c) PROVE TypeOK' /\ Located'
    BY <1>7 DEF OpenObject, Goto, TypeOK, Located
  <1>8. ASSUME NEW c \in Callers, Release(c) PROVE TypeOK' /\ Located'
    BY <1>8 DEF Release, Return, Goto, TypeOK, Located
  <1>9. ASSUME NEW c \in Callers, LeaveMiss(c) PROVE TypeOK' /\ Located'
    BY <1>9 DEF LeaveMiss, Return, Goto, TypeOK, Located
  <1>10. ASSUME NEW c \in Callers, NEW s \in Sizes, NewPartial(c, s) PROVE TypeOK' /\ Located'
    <2>1. PICK f \in Files : CreatePartial(c, f, s)
      BY <1>10 DEF NewPartial
    <2>2. job[c] \in Job /\ job[c].key \in Keys /\ s \in Nat
      BY <2>1 DEF CreatePartial, Located
    <2>3. [[job[c] EXCEPT !.file = f] EXCEPT !.size = s] \in Job
      BY <2>2 DEF Job
    <2>4. job' = [job EXCEPT ![c] = [[job[c] EXCEPT !.file = f] EXCEPT !.size = s]]
      BY <2>1, <2>2 DEF CreatePartial, TypeOK, Job
    <2>5. content' \in [Files -> Bytes]
      BY <2>1, <2>2 DEF CreatePartial, TypeOK, Bytes
    <2>6. place' \in [Files -> Places]
      BY <2>1 DEF CreatePartial, TypeOK
    <2>7. job'[c].key \in Keys /\ job'[c].file \in Files
      BY <2>2, <2>4 DEF TypeOK, Job
    <2>8. Located'
      BY <2>1, <2>3, <2>4, <2>7 DEF CreatePartial, Goto, TypeOK, Located
    <2> QED
      BY <2>1, <2>3, <2>4, <2>5, <2>6, <2>8 DEF CreatePartial, Goto, TypeOK
  <1>11. ASSUME NEW c \in Callers, WritePartial(c) PROVE TypeOK' /\ Located'
    <2>1. job[c].file \in Files
      BY <1>11 DEF WritePartial, Located
    <2>2. [content[job[c].file] EXCEPT !.len = @ + 1] \in Bytes
      BY <2>1 DEF TypeOK, Bytes
    <2>3. content' = [content EXCEPT ![job[c].file] = [content[job[c].file] EXCEPT !.len = @ + 1]]
      BY <1>11 DEF WritePartial
    <2>4. content' \in [Files -> Bytes]
      BY <2>2, <2>3 DEF TypeOK
    <2> QED
      BY <1>11, <2>4 DEF WritePartial, TypeOK, Located
  <1>12. ASSUME NEW c \in Callers, AbandonPartial(c) PROVE TypeOK' /\ Located'
    BY <1>12 DEF AbandonPartial, Return, Goto, TypeOK, Located
  <1>13. ASSUME NEW c \in Callers, CommitRename(c) PROVE TypeOK' /\ Located'
    BY <1>13 DEF CommitRename, Goto, TypeOK, Located
  <1>14. ASSUME NEW c \in Callers, CommitRecord(c) PROVE TypeOK' /\ Located'
    BY <1>14 DEF CommitRecord, Goto, Row, Job, Bytes, TypeOK, Located
  <1>15. ASSUME NEW c \in Callers, CommitFails(c) PROVE TypeOK' /\ Located'
    BY <1>15 DEF CommitFails, Return, Goto, TypeOK, Located
  <1>16. ASSUME NEW c \in Callers, EvictMeasure(c) PROVE TypeOK' /\ Located'
    <2>1. used' \in [Callers -> Nat]
      <3>1. IndexedBytes \in Nat
        BY IndexedTyped DEF TypeOK
      <3> QED
        BY <1>16, <3>1 DEF EvictMeasure, MeasureAs, TypeOK
    <2>2. CASE IndexedBytes > MaxBytes
      BY <1>16, <2>1, <2>2 DEF EvictMeasure, MeasureAs, Goto, TypeOK, Located
    <2>3. CASE ~(IndexedBytes > MaxBytes)
      <3>1. /\ Return(c)
            /\ UNCHANGED <<phase, disk, leases, clock, evictor, covered, published, unread>>
            /\ unswept' = FALSE
        BY <1>16, <2>3 DEF EvictMeasure, MeasureAs
      <3> QED
        BY <3>1, <2>1 DEF Return, Goto, TypeOK, Located
    <2> QED
      BY <2>2, <2>3
  <1>17. ASSUME NEW c \in Callers, EvictSelect(c) PROVE TypeOK' /\ Located'
    BY <1>17 DEF EvictSelect, Goto, Entry, Row, TypeOK, Located
  <1>18. ASSUME NEW c \in Callers, EvictScan(c) PROVE TypeOK' /\ Located'
    <2>1. PICK e \in view[c] :
            IF Leased(e) THEN SkipTo(c, view[c] \ {e}, e) ELSE Choose(c, e)
      BY <1>18 DEF EvictScan, Scan
    <2>2. e \in Entry /\ e.key \in Keys
      BY <2>1 DEF TypeOK, Entry
    <2>3. CASE Leased(e)
      BY <1>18, <2>1, <2>2, <2>3 DEF EvictScan, Scan, SkipTo, TypeOK, Located
    <2>4. CASE ~Leased(e)
      BY <1>18, <2>1, <2>2, <2>4 DEF EvictScan, Scan, Choose, Goto, TypeOK, Located
    <2> QED
      BY <2>3, <2>4
  <1>19. ASSUME NEW c \in Callers, EvictGivesUp(c) PROVE TypeOK' /\ Located'
    BY <1>19 DEF EvictGivesUp, ForgetPass, Return, Goto, TypeOK, Located
  <1>20. ASSUME NEW c \in Callers, EvictDelete(c) PROVE TypeOK' /\ Located'
    BY <1>20 DEF EvictDelete, Goto, TypeOK, Located
  <1>21. ASSUME NEW c \in Callers, EvictRemove(c) PROVE TypeOK' /\ Located'
    <2>1. used' \in [Callers -> Nat] /\ place' \in [Files -> Places]
      <3>1. c \in Callers /\ used \in [Callers -> Nat]
        BY DEF TypeOK
      <3>2. place' \in [Files -> Places]
        BY <1>21 DEF EvictRemove, TypeOK
      <3>3. victim[c].size \in Nat /\ used[c] \in Nat
        BY <1>21 DEF EvictRemove, Located, Entry, TypeOK
      <3>4. CASE used[c] - victim[c].size > MaxBytes
        <4>1. used[c] - victim[c].size \in Nat
          BY <3>3, <3>4
        <4>2. used' = [used EXCEPT ![c] = used[c] - victim[c].size]
          BY <1>21, <3>4 DEF EvictRemove
        <4> QED
          BY ONLY <3>1, <3>2, <4>1, <4>2
      <3>5. CASE ~(used[c] - victim[c].size > MaxBytes)
        <4>1. used' = [used EXCEPT ![c] = 0]
          BY <1>21, <3>5 DEF EvictRemove, ForgetPass
        <4> QED
          BY ONLY <3>1, <3>2, <4>1
      <3> QED
        BY <3>4, <3>5
    <2>2. CASE used[c] - victim[c].size > MaxBytes
      BY <1>21, <2>1, <2>2 DEF EvictRemove, Goto, TypeOK, Located
    <2>3. CASE ~(used[c] - victim[c].size > MaxBytes)
      BY <1>21, <2>1, <2>3 DEF EvictRemove, ForgetPass, Return, Goto, TypeOK, Located
    <2> QED
      BY <2>2, <2>3
  <1>22. ASSUME NEW c \in Callers, EvictFails(c) PROVE TypeOK' /\ Located'
    BY <1>22 DEF EvictFails, ForgetPass, Return, Goto, TypeOK, Located
  <1>23. ASSUME Start PROVE TypeOK' /\ Located'
    BY <1>23 DEF Start, TypeOK, Located
  <1>24. ASSUME RemovePartials PROVE TypeOK' /\ Located'
    BY <1>24 DEF RemovePartials, Purge, Done, TypeOK, Located
  <1>25. ASSUME ReconcileRows PROVE TypeOK' /\ Located'
    BY <1>25 DEF ReconcileRows, Done, Present, TypeOK, Located
  <1>26. ASSUME ReconcileObjects PROVE TypeOK' /\ Located'
    BY <1>26 DEF ReconcileObjects, Done, TypeOK, Located
  <1>27. ASSUME Crash PROVE TypeOK' /\ Located'
    BY <1>27 DEF Crash, TypeOK, Located
  <1>28. ASSUME NEW f \in Files, DamageObject(f) PROVE TypeOK' /\ Located'
    <2>1. content' \in [Files -> Bytes]
      <3>1. CASE UNCHANGED content
        BY <3>1 DEF TypeOK
      <3>2. CASE content[f].len > 0 /\ content' = [content EXCEPT ![f].len = @ - 1]
        <4>1. [content[f] EXCEPT !.len = @ - 1] \in Bytes
          BY <3>2 DEF TypeOK, Bytes
        <4> QED
          BY <3>2, <4>1 DEF TypeOK
      <3> QED
        BY <1>28, <3>1, <3>2 DEF DamageObject
    <2> QED
      BY <1>28, <2>1 DEF DamageObject, TypeOK, Located
  <1>29. ASSUME Tick PROVE TypeOK' /\ Located'
    BY <1>29 DEF Tick, TypeOK, Located
  <1>30. CASE UNCHANGED vars
    BY <1>30 DEF vars, disk, evictor, ghosts, TypeOK, Located
  <1> QED
    BY <1>1, <1>2, <1>3, <1>4, <1>5, <1>6, <1>7, <1>8, <1>9, <1>10, <1>11, <1>12, <1>13, <1>14, <1>15, <1>16, <1>17, <1>18, <1>19, <1>20, <1>21, <1>22, <1>23, <1>24, <1>25, <1>26, <1>27, <1>28, <1>29, <1>30 DEF Next, Lookup, Lease, Fill, Commit, Evict, NewAudioManager, Reconcile

\* Every variable keeps its type: no statement reads an unassigned local or a
\* row, lease count or file that does not exist.
THEOREM TypeCorrect == Spec => [](TypeOK /\ Located)
  <1> QED
    BY TypingInit, TypingStep, PTL DEF Spec

---------------------------------------------------------------------------
(* Sealed objects.                                                         *)

\* Published bytes stay with their file, which never goes back to tmp/.
PublishedStay ==
  \A f \in Files : published[f] # None =>
    place[f] \in {"objects", "gone"} /\ content[f].key = published[f].key

\* A row describes the bytes its file was published with.
RowsPublished ==
  \A k \in Keys : rows[k] # None =>
    published[rows[k].file] = [key |-> k, len |-> rows[k].size]

\* So does the entry a lookup has read, whatever became of the row since.
HitsPublished ==
  \A c \in Callers : pc[c] \in Hitting =>
    published[job[c].file] = [key |-> job[c].key, len |-> job[c].size]

\* So do the rows an eviction has read, and its candidate.
ViewsPublished ==
  \A c \in Callers : \A e \in view[c] :
    published[e.file] = [key |-> e.key, len |-> e.size]

VictimsPublished ==
  \A c \in Callers : pc[c] \in {"delete", "remove"} =>
    published[victim[c].file] = [key |-> victim[c].key, len |-> victim[c].size]

\* The file of a fill is not published before its row is recorded, and is then
\* complete.
PartialsFresh ==
  \A c \in Callers : pc[c] \in {"filling", "record"} =>
    /\ published[job[c].file] = None
    /\ place[job[c].file] = IF pc[c] = "filling" THEN "tmp" ELSE "objects"
    /\ content[job[c].file].key = job[c].key
    /\ pc[c] = "record" => content[job[c].file].len = job[c].size
    /\ job[c].size \in Sizes

\* No two fills share a file.
PartialsOwned ==
  \A c, d \in Callers :
    pc[c] \in {"filling", "record"} /\ pc[d] \in {"filling", "record"} /\ c # d
      => job[c].file # job[d].file

\* Nothing is being served before the process has recovered.
IdleUnlessUp == phase # "up" => \A c \in Callers : pc[c] = "idle"

Sealing ==
  /\ PublishedStay /\ RowsPublished /\ HitsPublished
  /\ ViewsPublished /\ VictimsPublished
  /\ PartialsFresh /\ PartialsOwned /\ IdleUnlessUp /\ NoPartialHit

\* Everything a lookup, an eviction or the index refers to is published.
LEMMA ReferencesPublished ==
  ASSUME TypeOK, Located, Sealing
  PROVE  /\ \A c \in Callers : pc[c] \in Hitting => published[job[c].file] # None
         /\ \A c \in Callers : \A e \in view[c] : published[e.file] # None
         /\ \A c \in Callers : pc[c] \in {"delete", "remove"} => published[victim[c].file] # None
         /\ \A k \in Keys : rows[k] # None => published[rows[k].file] # None
  <1>1. \A k \in Keys, n \in Nat : [key |-> k, len |-> n] # None
    BY NoneAssumption DEF Bytes
  <1>2. ASSUME NEW c \in Callers, pc[c] \in Hitting PROVE published[job[c].file] # None
    <2>1. pc[c] # "idle"
      BY <1>2 DEF Hitting
    <2>2. job[c].key \in Keys /\ job[c].size \in Nat
      BY <2>1 DEF Located, Job
    <2> QED
      BY <1>1, <1>2, <2>2 DEF Sealing, HitsPublished
  <1>3. ASSUME NEW c \in Callers, NEW e \in view[c] PROVE published[e.file] # None
    <2>1. e \in Entry
      BY DEF TypeOK
    <2> QED
      BY <1>1, <2>1 DEF Entry, Sealing, ViewsPublished
  <1>4. ASSUME NEW c \in Callers, pc[c] \in {"delete", "remove"}
        PROVE  published[victim[c].file] # None
    BY <1>1, <1>4 DEF Located, Entry, Sealing, VictimsPublished
  <1>5. ASSUME NEW k \in Keys, rows[k] # None PROVE published[rows[k].file] # None
    <2>1. rows[k].size \in Nat
      BY <1>5 DEF TypeOK, Row
    <2> QED
      BY <1>1, <1>5, <2>1 DEF Sealing, RowsPublished
  <1> QED
    BY <1>2, <1>3, <1>4, <1>5

LEMMA SealingStep == TypeOK /\ Located /\ Sealing /\ [Next]_vars => Sealing'
  <1> SUFFICES ASSUME TypeOK, Located, Sealing, [Next]_vars PROVE Sealing'
    OBVIOUS
  <1> USE SizesAssumption
  <1> USE DEF disk, evictor, ghosts, Hitting, Sealed, Filling, Evicting, Sealing, PublishedStay, RowsPublished, HitsPublished, ViewsPublished, VictimsPublished, PartialsFresh, PartialsOwned, IdleUnlessUp, NoPartialHit
  <1>1. ASSUME NEW c \in Callers, NEW k \in Keys, LookupSelect(c, k) PROVE Sealing'
    <2>1. CASE rows[k] = None
      <3>1. /\ job' = [job EXCEPT ![c] = [key |-> k, file |-> None, size |-> 0]]
            /\ pc' = [pc EXCEPT ![c] = "missed"]
            /\ UNCHANGED <<phase, rows, place, content, view, victim, published>>
            /\ phase = "up"
        BY <1>1, <2>1 DEF LookupSelect, Miss, Goto
      <3>2. /\ pc'[c] = "missed"
            /\ \A d \in Callers \ {c} : pc'[d] = pc[d] /\ job'[d] = job[d]
        BY <3>1 DEF TypeOK
      <3> QED
        BY <3>1, <3>2
    <2>2. CASE rows[k] # None
      <3>1. job' = [job EXCEPT ![c] = [key |-> k, file |-> rows[k].file, size |-> rows[k].size]]
        BY <1>1, <2>2 DEF LookupSelect
      <3>2. pc' = [pc EXCEPT ![c] = "stat"]
        BY <1>1, <2>2 DEF LookupSelect, Goto
      <3> QED
        BY <1>1, <2>2, <3>1, <3>2 DEF LookupSelect, TypeOK
    <2> QED
      BY <2>1, <2>2
  <1>2. ASSUME NEW c \in Callers, LookupStat(c) PROVE Sealing'
    <2>1. CASE StatResult(c, FALSE)
      BY <2>1 DEF StatResult, Goto, TypeOK
    <2>2. CASE ~StatResult(c, FALSE)
      <3>1. /\ StatResult(c, TRUE)
            /\ place[job[c].file] = "objects" /\ content[job[c].file].len = job[c].size
        BY <1>2, <2>2 DEF LookupStat
      <3>2. job[c].file \in Files /\ job[c].size \in Nat /\ job[c].key \in Keys
        BY <3>1 DEF StatResult, Located, Job
      <3>3. content[job[c].file].key = job[c].key
        <4>1. pc[c] \in Hitting
          BY <3>1 DEF StatResult
        <4>2. published[job[c].file] # None
          BY <4>1, ReferencesPublished
        <4>3. published[job[c].file] = [key |-> job[c].key, len |-> job[c].size]
          BY <4>1
        <4> QED
          BY <3>2, <4>2, <4>3
      <3>4. content[job[c].file] = [key |-> job[c].key, len |-> job[c].size]
        BY <3>1, <3>2, <3>3 DEF TypeOK, Bytes
      <3> QED
        BY <3>1, <3>4 DEF StatResult, Goto, TypeOK
    <2> QED
      BY <2>1, <2>2
  <1>3. ASSUME NEW c \in Callers, LookupDrop(c) PROVE Sealing'
    BY <1>3 DEF LookupDrop, Miss, Goto, Job, TypeOK, Located
  <1>4. ASSUME NEW c \in Callers, LookupTouch(c) PROVE Sealing'
    BY <1>4 DEF LookupTouch, Goto, TypeOK, Located
  <1>5. ASSUME NEW c \in Callers, LookupFails(c) PROVE Sealing'
    BY <1>5 DEF LookupFails, Return, Goto, TypeOK, Located
  <1>6. ASSUME NEW c \in Callers, LeaseKey(c) PROVE Sealing'
    BY <1>6 DEF LeaseKey, Goto, TypeOK, Located
  <1>7. ASSUME NEW c \in Callers, OpenObject(c) PROVE Sealing'
    BY <1>7 DEF OpenObject, Goto, TypeOK, Located
  <1>8. ASSUME NEW c \in Callers, Release(c) PROVE Sealing'
    BY <1>8 DEF Release, Return, Goto, TypeOK, Located
  <1>9. ASSUME NEW c \in Callers, LeaveMiss(c) PROVE Sealing'
    BY <1>9 DEF LeaveMiss, Return, Goto, TypeOK, Located
  <1>10. ASSUME NEW c \in Callers, NEW s \in Sizes, NewPartial(c, s) PROVE Sealing'
    <2>1. PICK f \in Files : place[f] = "unused" /\ CreatePartial(c, f, s)
      BY <1>10 DEF NewPartial
    <2>2. published[f] = None
      BY <2>1
    <2>3. /\ pc' = [pc EXCEPT ![c] = "filling"]
          /\ job'[c].file = f /\ job'[c].size = s /\ job'[c].key = job[c].key
          /\ \A d \in Callers \ {c} : job'[d] = job[d] /\ pc'[d] = pc[d]
      <3>1. job[c] \in Job
        BY <2>1 DEF CreatePartial, Located
      <3> QED
        BY <2>1, <3>1 DEF CreatePartial, Goto, TypeOK, Job
    <2>4. /\ place' = [place EXCEPT ![f] = "tmp"]
          /\ content' = [content EXCEPT ![f] = [key |-> job[c].key, len |-> 0]]
          /\ UNCHANGED <<phase, rows, view, victim, published>>
          /\ pc[c] = "missed"
      BY <2>1 DEF CreatePartial
    <2>5. /\ content'[f].key = job[c].key /\ place'[f] = "tmp"
          /\ \A g \in Files \ {f} : content'[g] = content[g] /\ place'[g] = place[g]
      BY <2>4 DEF TypeOK
    <2>6. \A d \in Callers : pc'[d] = IF d = c THEN "filling" ELSE pc[d]
      BY <2>3 DEF TypeOK
    <2>7. \A d \in Callers : pc[d] \in {"filling", "record"} => job[d].file # f
      BY <2>1
    <2>8. PublishedStay' /\ RowsPublished' /\ ViewsPublished'
      BY <2>2, <2>4, <2>5
    <2>9. HitsPublished' /\ VictimsPublished'
      BY <2>3, <2>4, <2>6
    <2>10. PartialsFresh'
      BY <2>2, <2>3, <2>4, <2>5, <2>6, <2>7 DEF Located
    <2>11. PartialsOwned'
      BY <2>3, <2>6, <2>7
    <2>12. IdleUnlessUp'
      BY <2>4, <2>6
    <2>13. NoPartialHit'
      <3> SUFFICES ASSUME NEW d \in Callers, pc'[d] \in Sealed
                   PROVE  content'[job'[d].file] = [key |-> job'[d].key, len |-> job'[d].size]
        OBVIOUS
      <3>1. d # c /\ pc[d] \in Sealed
        BY <2>6
      <3>2. published[job[d].file] # None /\ job[d].file \in Files
        BY <3>1, ReferencesPublished DEF Located
      <3>3. content[job[d].file] = [key |-> job[d].key, len |-> job[d].size]
        BY <3>1
      <3>4. job[d].file # f /\ job'[d] = job[d]
        BY <2>2, <2>3, <3>1, <3>2
      <3> QED
        BY <2>5, <3>2, <3>3, <3>4
    <2> QED
      BY <2>8, <2>9, <2>10, <2>11, <2>12, <2>13
  <1>11. ASSUME NEW c \in Callers, WritePartial(c) PROVE Sealing'
    <2>1. /\ job[c].file \in Files /\ published[job[c].file] = None
          /\ pc[c] = "filling"
          /\ UNCHANGED <<phase, rows, place, pc, job, view, victim, published>>
      BY <1>11 DEF WritePartial, Located
    <2>2. /\ content'[job[c].file].key = content[job[c].file].key
          /\ \A g \in Files \ {job[c].file} : content'[g] = content[g]
      BY <1>11, <2>1 DEF WritePartial, TypeOK, Bytes
    <2> QED
      BY <2>1, <2>2, ReferencesPublished DEF Located
  <1>12. ASSUME NEW c \in Callers, AbandonPartial(c) PROVE Sealing'
    BY <1>12 DEF AbandonPartial, Return, Goto, TypeOK, Located
  <1>13. ASSUME NEW c \in Callers, CommitRename(c) PROVE Sealing'
    BY <1>13 DEF CommitRename, Goto, TypeOK, Located
  <1>14. ASSUME NEW c \in Callers, CommitRecord(c) PROVE Sealing'
    <2> DEFINE f == job[c].file
    <2>1. /\ f \in Files /\ job[c].key \in Keys
          /\ published[f] = None /\ place[f] = "objects"
          /\ content[f].key = job[c].key /\ content[f].len = job[c].size
      BY <1>14 DEF CommitRecord, Located
    <2>2. content[f] = [key |-> job[c].key, len |-> job[c].size]
      BY <2>1 DEF TypeOK, Bytes
    <2>3. /\ published' = [published EXCEPT ![f] = content[f]]
          /\ rows' = [rows EXCEPT ![job[c].key] =
                        [file |-> f, size |-> job[c].size, accessed |-> clock]]
          /\ pc' = [pc EXCEPT ![c] = "measure"] /\ pc[c] = "record"
          /\ UNCHANGED <<phase, place, content, job, view, victim>>
      BY <1>14 DEF CommitRecord, Goto
    <2>4. /\ published'[f] = [key |-> job[c].key, len |-> job[c].size]
          /\ \A g \in Files \ {f} : published'[g] = published[g]
          /\ \A d \in Callers : pc'[d] = IF d = c THEN "measure" ELSE pc[d]
      BY <2>1, <2>2, <2>3 DEF TypeOK
    <2>5. \A x : published[x] # None => x # f
      BY <2>1
    <2>6. PublishedStay'
      BY <2>1, <2>2, <2>3, <2>4
    <2>7. RowsPublished'
      <3> SUFFICES ASSUME NEW k \in Keys, rows'[k] # None
                   PROVE  published'[rows'[k].file] = [key |-> k, len |-> rows'[k].size]
        OBVIOUS
      <3>1. CASE k = job[c].key
        BY <2>1, <2>3, <2>4, <3>1 DEF TypeOK
      <3>2. CASE k # job[c].key
        <4>1. rows'[k] = rows[k] /\ rows[k].file \in Files
          BY <2>3, <3>2 DEF TypeOK, Row
        <4>2. published[rows[k].file] = [key |-> k, len |-> rows[k].size]
          BY <4>1
        <4>3. rows[k].file # f
          BY <4>1, <2>1, ReferencesPublished
        <4> QED
          BY <2>4, <4>1, <4>2, <4>3
      <3> QED
        BY <3>1, <3>2
    <2>8. HitsPublished'
      <3> SUFFICES ASSUME NEW d \in Callers, pc'[d] \in Hitting
                   PROVE  published'[job[d].file] = [key |-> job[d].key, len |-> job[d].size]
        BY <2>3
      <3>1. pc[d] \in Hitting /\ job[d].file \in Files
        BY <2>4 DEF Located
      <3>2. job[d].file # f
        BY <3>1, <2>1, ReferencesPublished
      <3> QED
        BY <3>1, <3>2, <2>4
    <2>9. ViewsPublished'
      <3> SUFFICES ASSUME NEW d \in Callers, NEW e \in view[d]
                   PROVE  published'[e.file] = [key |-> e.key, len |-> e.size]
        BY <2>3
      <3>1. e.file \in Files
        BY DEF TypeOK, Entry
      <3>2. e.file # f
        BY <2>1, ReferencesPublished
      <3> QED
        BY <3>1, <3>2, <2>4
    <2>10. VictimsPublished'
      <3> SUFFICES ASSUME NEW d \in Callers, pc'[d] \in {"delete", "remove"}
                   PROVE  published'[victim[d].file]
                            = [key |-> victim[d].key, len |-> victim[d].size]
        BY <2>3
      <3>1. pc[d] \in {"delete", "remove"} /\ victim[d].file \in Files
        BY <2>4 DEF Located, Entry
      <3>2. victim[d].file # f
        BY <3>1, <2>1, ReferencesPublished
      <3> QED
        BY <3>1, <3>2, <2>4
    <2>11. PartialsFresh' /\ PartialsOwned'
      BY <2>1, <2>3, <2>4 DEF Located
    <2>12. IdleUnlessUp' /\ NoPartialHit'
      BY <2>3, <2>4
    <2> QED
      BY <2>6, <2>7, <2>8, <2>9, <2>10, <2>11, <2>12
  <1>15. ASSUME NEW c \in Callers, CommitFails(c) PROVE Sealing'
    BY <1>15 DEF CommitFails, Return, Goto, TypeOK, Located
  <1>16. ASSUME NEW c \in Callers, EvictMeasure(c) PROVE Sealing'
    <2>1. CASE IndexedBytes > MaxBytes
      BY <1>16, <2>1 DEF EvictMeasure, MeasureAs, Goto, TypeOK, Located
    <2>2. CASE ~(IndexedBytes > MaxBytes)
      <3>1. /\ pc' = [pc EXCEPT ![c] = "idle"] /\ job' = [job EXCEPT ![c] = None]
            /\ UNCHANGED <<phase, disk, leases, clock, view, skipped, victim, covered, published>>
        BY <1>16, <2>2 DEF EvictMeasure, MeasureAs, Return, Goto
      <3> QED
        BY <3>1 DEF TypeOK, Located
    <2> QED
      BY <2>1, <2>2
  <1>17. ASSUME NEW c \in Callers, EvictSelect(c) PROVE Sealing'
    BY <1>17 DEF EvictSelect, Goto, Entry, Row, TypeOK, Located
  <1>18. ASSUME NEW c \in Callers, EvictScan(c) PROVE Sealing'
    <2>1. PICK e \in view[c] :
            IF Leased(e) THEN SkipTo(c, view[c] \ {e}, e) ELSE Choose(c, e)
      BY <1>18 DEF EvictScan, Scan
    <2>2. /\ pc[c] = "scan"
          /\ UNCHANGED <<phase, rows, place, content, job, published>>
      BY <1>18 DEF EvictScan, Scan
    <2>3. CASE Leased(e)
      BY <2>1, <2>2, <2>3 DEF SkipTo, TypeOK
    <2>4. CASE ~Leased(e)
      <3>1. /\ victim'[c] = e /\ view'[c] = {} /\ pc'[c] = "delete"
            /\ \A d \in Callers \ {c} : victim'[d] = victim[d] /\ view'[d] = view[d] /\ pc'[d] = pc[d]
        BY <2>1, <2>4 DEF Choose, Goto, TypeOK
      <3> QED
        BY <2>2, <3>1
    <2> QED
      BY <2>3, <2>4
  <1>19. ASSUME NEW c \in Callers, EvictGivesUp(c) PROVE Sealing'
    BY <1>19 DEF EvictGivesUp, ForgetPass, Return, Goto, TypeOK, Located
  <1>20. ASSUME NEW c \in Callers, EvictDelete(c) PROVE Sealing'
    BY <1>20 DEF EvictDelete, Goto, TypeOK, Located
  <1>21. ASSUME NEW c \in Callers, EvictRemove(c) PROVE Sealing'
    <2>1. /\ victim[c].file \in Files
          /\ published[victim[c].file] = [key |-> victim[c].key, len |-> victim[c].size]
      BY <1>21 DEF EvictRemove, Located, Entry
    <2>2. published[victim[c].file] # None
      BY <1>21, ReferencesPublished DEF EvictRemove
    <2>3. /\ place' = [place EXCEPT ![victim[c].file] = "gone"]
          /\ UNCHANGED <<phase, rows, content, published>>
          /\ pc[c] = "remove"
          /\ pc' = [pc EXCEPT ![c] = "select"] \/ pc' = [pc EXCEPT ![c] = "idle"]
          /\ \A d \in Callers \ {c} : job'[d] = job[d] /\ view'[d] = view[d] /\ victim'[d] = victim[d]
          /\ view'[c] = view[c] \/ view'[c] = {}
      BY <1>21 DEF EvictRemove, ForgetPass, Return, Goto, TypeOK
    <2>4. /\ \A g \in Files \ {victim[c].file} : place'[g] = place[g]
          /\ place'[victim[c].file] = "gone"
          /\ \A d \in Callers \ {c} : pc'[d] = pc[d]
          /\ pc'[c] \in {"select", "idle"}
      BY <2>1, <2>3 DEF TypeOK
    <2>5. PublishedStay' /\ RowsPublished'
      BY <2>3, <2>4
    <2>6. HitsPublished' /\ ViewsPublished' /\ VictimsPublished'
      BY <2>3, <2>4
    <2>7. PartialsFresh' /\ PartialsOwned'
      BY <2>2, <2>3, <2>4 DEF Located
    <2>8. IdleUnlessUp' /\ NoPartialHit'
      BY <2>3, <2>4
    <2> QED
      BY <2>5, <2>6, <2>7, <2>8
  <1>22. ASSUME NEW c \in Callers, EvictFails(c) PROVE Sealing'
    BY <1>22 DEF EvictFails, ForgetPass, Return, Goto, TypeOK, Located
  <1>23. ASSUME Start PROVE Sealing'
    BY <1>23 DEF Start, TypeOK, Located
  <1>24. ASSUME RemovePartials PROVE Sealing'
    BY <1>24 DEF RemovePartials, Purge, Done, TypeOK, Located
  <1>25. ASSUME ReconcileRows PROVE Sealing'
    BY <1>25 DEF ReconcileRows, Done, Present, TypeOK, Located
  <1>26. ASSUME ReconcileObjects PROVE Sealing'
    BY <1>26 DEF ReconcileObjects, Done, TypeOK, Located
  <1>27. ASSUME Crash PROVE Sealing'
    BY <1>27 DEF Crash, TypeOK, Located
  <1>28. ASSUME NEW f \in Files, DamageObject(f) PROVE Sealing'
    <2>1. /\ phase = "down" /\ place[f] = "objects"
          /\ UNCHANGED <<phase, rows, pc, job, view, victim, published>>
          /\ place' = [place EXCEPT ![f] = "gone"] \/ UNCHANGED place
      BY <1>28 DEF DamageObject
    <2>2. \A g \in Files : content'[g].key = content[g].key
      <3>1. CASE UNCHANGED content
        BY <3>1
      <3>2. CASE content' = [content EXCEPT ![f].len = @ - 1]
        BY <3>2 DEF TypeOK, Bytes
      <3> QED
        BY <1>28, <3>1, <3>2 DEF DamageObject
    <2>3. \A c \in Callers : pc[c] = "idle"
      BY <2>1
    <2> QED
      BY <2>1, <2>2, <2>3 DEF TypeOK
  <1>29. ASSUME Tick PROVE Sealing'
    BY <1>29 DEF Tick, TypeOK, Located
  <1>30. CASE UNCHANGED vars
    BY <1>30 DEF vars, disk, evictor, ghosts, TypeOK, Located
  <1> QED
    BY <1>1, <1>2, <1>3, <1>4, <1>5, <1>6, <1>7, <1>8, <1>9, <1>10, <1>11, <1>12, <1>13, <1>14, <1>15, <1>16, <1>17, <1>18, <1>19, <1>20, <1>21, <1>22, <1>23, <1>24, <1>25, <1>26, <1>27, <1>28, <1>29, <1>30 DEF Next, Lookup, Lease, Fill, Commit, Evict, NewAudioManager, Reconcile

LEMMA SealingInit == Init => Sealing
  BY DEF Init, Sealing, PublishedStay, RowsPublished, HitsPublished, ViewsPublished,
         VictimsPublished, PartialsFresh, PartialsOwned, IdleUnlessUp, NoPartialHit,
         Hitting, Sealed

\* The inductive invariant holds throughout.
THEOREM SealingHolds == Spec => []Sealing
  <1> QED
    BY SealingInit, SealingStep, TypeCorrect, PTL DEF Spec

\* A hit is a complete object of the key that was asked for (audio.go:18-20),
\* whatever races, failed statements, crashes and damage came before it.
THEOREM HitsAreComplete == Spec => []NoPartialHit
  <1>1. Sealing => NoPartialHit
    BY DEF Sealing
  <1> QED
    BY <1>1, SealingHolds, PTL
---------------------------------------------------------------------------
(* Leases.                                                                 *)

\* A lease that was taken in time: its object is there, and no eviction has
\* chosen it.
CoveredSafe ==
  \A c \in Callers : pc[c] = "leased" /\ covered[c] =>
    /\ place[job[c].file] = "objects"
    /\ \A d \in Callers : pc[d] \in {"delete", "remove"} => victim[d].file # job[c].file

\* A step that neither takes, releases nor forgets a lease.
HoldersKept ==
  /\ UNCHANGED leases
  /\ \A d \in Callers : /\ pc'[d] \in Leasing <=> pc[d] \in Leasing
                        /\ pc[d] \in Leasing => job'[d] = job[d]

LEMMA HoldersFinite ==
  \A k : IsFiniteSet(Holders(k)) /\ Cardinality(Holders(k)) \in Nat
  <1> SUFFICES ASSUME NEW k PROVE IsFiniteSet(Holders(k)) /\ Cardinality(Holders(k)) \in Nat
    OBVIOUS
  <1>1. Holders(k) \subseteq Callers
    BY DEF Holders
  <1>2. IsFiniteSet(Holders(k))
    BY <1>1, FiniteAssumption, FS_Subset
  <1> QED
    BY <1>2, FS_CardinalityType

\* The lease table follows the responses through every step.
LEMMA CountStep == TypeOK /\ Located /\ LeasesCounted /\ [Next]_vars => LeasesCounted'
  <1> SUFFICES ASSUME TypeOK, Located, LeasesCounted, [Next]_vars PROVE LeasesCounted'
    OBVIOUS
  <1> USE DEF disk, evictor, ghosts, Leasing
  <1>a. ASSUME HoldersKept PROVE LeasesCounted'
    <2>1. \A k \in Keys : Holders(k)' = Holders(k)
      BY <1>a DEF HoldersKept, Holders
    <2> QED
      BY <1>a, <2>1 DEF HoldersKept, LeasesCounted
  <1>1. ASSUME NEW c \in Callers, NEW k \in Keys, LookupSelect(c, k) PROVE LeasesCounted'
    BY <1>a, <1>1 DEF LookupSelect, Miss, Goto, HoldersKept, TypeOK
  <1>2. ASSUME NEW c \in Callers, LookupStat(c) PROVE LeasesCounted'
    BY <1>a, <1>2 DEF LookupStat, StatResult, Goto, HoldersKept, TypeOK
  <1>3. ASSUME NEW c \in Callers, LookupDrop(c) PROVE LeasesCounted'
    BY <1>a, <1>3 DEF LookupDrop, Miss, Goto, HoldersKept, TypeOK
  <1>4. ASSUME NEW c \in Callers, LookupTouch(c) PROVE LeasesCounted'
    BY <1>a, <1>4 DEF LookupTouch, Goto, HoldersKept, TypeOK
  <1>5. ASSUME NEW c \in Callers, LookupFails(c) PROVE LeasesCounted'
    BY <1>a, <1>5 DEF LookupFails, Return, Goto, HoldersKept, TypeOK
  <1>6. ASSUME NEW c \in Callers, LeaseKey(c) PROVE LeasesCounted'
    <2> DEFINE k == job[c].key
    <2>1. /\ k \in Keys /\ pc[c] = "hit"
          /\ leases' = [leases EXCEPT ![k] = @ + 1]
          /\ pc' = [pc EXCEPT ![c] = "leased"] /\ UNCHANGED job
      BY <1>6 DEF LeaseKey, Goto, Located
    <2>2. c \notin Holders(k) /\ Holders(k)' = Holders(k) \cup {c}
      BY <2>1 DEF Holders, TypeOK
    <2>3. Cardinality(Holders(k)') = Cardinality(Holders(k)) + 1
      BY <2>2, HoldersFinite, FS_AddElement
    <2>4. \A j \in Keys \ {k} : Holders(j)' = Holders(j) /\ leases'[j] = leases[j]
      BY <2>1 DEF Holders, TypeOK
    <2>5. leases'[k] = leases[k] + 1
      BY <2>1 DEF TypeOK
    <2> QED
      BY <2>1, <2>3, <2>4, <2>5 DEF LeasesCounted
  <1>7. ASSUME NEW c \in Callers, OpenObject(c) PROVE LeasesCounted'
    BY <1>a, <1>7 DEF OpenObject, Goto, HoldersKept, TypeOK
  <1>8. ASSUME NEW c \in Callers, Release(c) PROVE LeasesCounted'
    <2>k. PICK k \in Keys : k = job[c].key
      BY <1>8 DEF Release, Located
    <2>1. /\ k = job[c].key /\ pc[c] \in Leasing
          /\ leases' = [leases EXCEPT ![k] = IF leases[k] <= 1 THEN 0 ELSE leases[k] - 1]
          /\ pc' = [pc EXCEPT ![c] = "idle"] /\ job' = [job EXCEPT ![c] = None]
      BY <1>8, <2>k DEF Release, Return, Goto
    <2>2. c \in Holders(k) /\ Holders(k)' = Holders(k) \ {c}
      <3>1. pc'[c] = "idle" /\ \A d \in Callers \ {c} : pc'[d] = pc[d] /\ job'[d] = job[d]
        BY <2>1 DEF TypeOK
      <3>2. \A d \in Callers :
              (pc'[d] \in Leasing /\ job'[d].key = k)
                <=> (pc[d] \in Leasing /\ job[d].key = k /\ d # c)
        BY <3>1
      <3> QED
        BY <2>1, <3>2 DEF Holders
    <2>3. Cardinality(Holders(k)') = Cardinality(Holders(k)) - 1
      BY <2>2, HoldersFinite, FS_RemoveElement
    <2>4. \A j \in Keys \ {k} : Holders(j)' = Holders(j) /\ leases'[j] = leases[j]
      BY <2>1 DEF Holders, TypeOK
    <2>5. Cardinality(Holders(k)) # 0
      BY <2>2, HoldersFinite, FS_EmptySet
    <2>6. leases'[k] = leases[k] - 1
      BY <2>1, <2>5, HoldersFinite DEF LeasesCounted, TypeOK
    <2>7. leases'[k] = Cardinality(Holders(k)')
      BY <2>1, <2>3, <2>6 DEF LeasesCounted
    <2> QED
      BY <2>1, <2>4, <2>7, HoldersFinite DEF LeasesCounted
  <1>9. ASSUME NEW c \in Callers, LeaveMiss(c) PROVE LeasesCounted'
    BY <1>a, <1>9 DEF LeaveMiss, Return, Goto, HoldersKept, TypeOK
  <1>10. ASSUME NEW c \in Callers, NEW s \in Sizes, NewPartial(c, s) PROVE LeasesCounted'
    BY <1>a, <1>10 DEF NewPartial, CreatePartial, Goto, HoldersKept, TypeOK
  <1>11. ASSUME NEW c \in Callers, WritePartial(c) PROVE LeasesCounted'
    BY <1>a, <1>11 DEF WritePartial, HoldersKept, TypeOK
  <1>12. ASSUME NEW c \in Callers, AbandonPartial(c) PROVE LeasesCounted'
    BY <1>a, <1>12 DEF AbandonPartial, Return, Goto, HoldersKept, TypeOK
  <1>13. ASSUME NEW c \in Callers, CommitRename(c) PROVE LeasesCounted'
    BY <1>a, <1>13 DEF CommitRename, Goto, HoldersKept, TypeOK
  <1>14. ASSUME NEW c \in Callers, CommitRecord(c) PROVE LeasesCounted'
    BY <1>a, <1>14 DEF CommitRecord, Goto, HoldersKept, TypeOK
  <1>15. ASSUME NEW c \in Callers, CommitFails(c) PROVE LeasesCounted'
    BY <1>a, <1>15 DEF CommitFails, Return, Goto, HoldersKept, TypeOK
  <1>16. ASSUME NEW c \in Callers, EvictMeasure(c) PROVE LeasesCounted'
    BY <1>a, <1>16 DEF EvictMeasure, MeasureAs, Return, Goto, HoldersKept, TypeOK
  <1>17. ASSUME NEW c \in Callers, EvictSelect(c) PROVE LeasesCounted'
    BY <1>a, <1>17 DEF EvictSelect, Goto, HoldersKept, TypeOK
  <1>18. ASSUME NEW c \in Callers, EvictScan(c) PROVE LeasesCounted'
    BY <1>a, <1>18 DEF EvictScan, Scan, SkipTo, Choose, Oldest, Goto, HoldersKept, TypeOK
  <1>19. ASSUME NEW c \in Callers, EvictGivesUp(c) PROVE LeasesCounted'
    BY <1>a, <1>19 DEF EvictGivesUp, ForgetPass, Return, Goto, HoldersKept, TypeOK
  <1>20. ASSUME NEW c \in Callers, EvictDelete(c) PROVE LeasesCounted'
    BY <1>a, <1>20 DEF EvictDelete, Goto, HoldersKept, TypeOK
  <1>21. ASSUME NEW c \in Callers, EvictRemove(c) PROVE LeasesCounted'
    BY <1>a, <1>21 DEF EvictRemove, ForgetPass, Return, Goto, HoldersKept, TypeOK
  <1>22. ASSUME NEW c \in Callers, EvictFails(c) PROVE LeasesCounted'
    <2>1. pc[c] \in Evicting /\ pc' = [pc EXCEPT ![c] = "idle"] /\ job' = [job EXCEPT ![c] = None]
      BY <1>22 DEF EvictFails, Return, Goto
    <2>2. HoldersKept
      BY <1>22, <2>1 DEF EvictFails, HoldersKept, Evicting, TypeOK
    <2> QED
      BY <1>a, <2>2
  <1>23. ASSUME Start PROVE LeasesCounted'
    BY <1>a, <1>23 DEF Start, HoldersKept, TypeOK
  <1>24. ASSUME RemovePartials PROVE LeasesCounted'
    BY <1>a, <1>24 DEF RemovePartials, Purge, Done, HoldersKept, TypeOK
  <1>25. ASSUME ReconcileRows PROVE LeasesCounted'
    BY <1>a, <1>25 DEF ReconcileRows, Done, Present, HoldersKept, TypeOK
  <1>26. ASSUME ReconcileObjects PROVE LeasesCounted'
    BY <1>a, <1>26 DEF ReconcileObjects, Done, HoldersKept, TypeOK
  <1>27. ASSUME Crash PROVE LeasesCounted'
    <2>1. \A k \in Keys : Holders(k)' = {} /\ leases'[k] = 0
      BY <1>27 DEF Crash, Holders
    <2> QED
      BY <2>1, FS_EmptySet DEF LeasesCounted
  <1>28. ASSUME NEW f \in Files, DamageObject(f) PROVE LeasesCounted'
    BY <1>a, <1>28 DEF DamageObject, HoldersKept, TypeOK
  <1>29. ASSUME Tick PROVE LeasesCounted'
    BY <1>a, <1>29 DEF Tick, HoldersKept, TypeOK
  <1>30. CASE UNCHANGED vars
    BY <1>a, <1>30 DEF vars, disk, evictor, ghosts, HoldersKept, TypeOK
  <1> QED
    BY <1>1, <1>2, <1>3, <1>4, <1>5, <1>6, <1>7, <1>8, <1>9, <1>10, <1>11, <1>12, <1>13, <1>14, <1>15, <1>16, <1>17, <1>18, <1>19, <1>20, <1>21, <1>22, <1>23, <1>24, <1>25, <1>26, <1>27, <1>28, <1>29, <1>30 DEF Next, Lookup, Lease, Fill, Commit, Evict, NewAudioManager, Reconcile

\* So does the protection of the leases taken in time.
LEMMA CoverStep ==
  TypeOK /\ Located /\ Sealing /\ LeasesCounted /\ CoveredSafe /\ [Next]_vars => CoveredSafe'
  <1> SUFFICES ASSUME TypeOK, Located, Sealing, LeasesCounted, CoveredSafe, [Next]_vars
               PROVE  CoveredSafe'
    OBVIOUS
  <1> USE DEF disk, evictor, ghosts, CoveredSafe
  <1>a. \A c \in Callers : pc[c] = "leased" =>
          /\ published[job[c].file] = [key |-> job[c].key, len |-> job[c].size]
          /\ published[job[c].file] # None /\ job[c].file \in Files
          /\ job[c].key \in Keys /\ leases[job[c].key] > 0
    <2> SUFFICES ASSUME NEW c \in Callers, pc[c] = "leased"
                 PROVE  /\ published[job[c].file] = [key |-> job[c].key, len |-> job[c].size]
                        /\ published[job[c].file] # None /\ job[c].file \in Files
                        /\ job[c].key \in Keys /\ leases[job[c].key] > 0
      OBVIOUS
    <2>1. pc[c] \in Hitting
      BY DEF Hitting
    <2>2. job[c].key \in Keys /\ job[c].file \in Files
      BY <2>1 DEF Located
    <2>3. c \in Holders(job[c].key)
      BY DEF Holders, Leasing
    <2>4. Cardinality(Holders(job[c].key)) # 0
      BY <2>3, HoldersFinite, FS_EmptySet
    <2>5. leases[job[c].key] > 0
      BY <2>2, <2>4, HoldersFinite DEF LeasesCounted
    <2> QED
      BY <2>1, <2>2, <2>5, ReferencesPublished DEF Sealing, HitsPublished
  <1>b. \A c \in Callers : pc[c] \in {"filling", "record"} => published[job[c].file] = None
    BY DEF Sealing, PartialsFresh
  <1>1. ASSUME NEW c \in Callers, NEW k \in Keys, LookupSelect(c, k) PROVE CoveredSafe'
    BY <1>a, <1>b, <1>1 DEF LookupSelect, Miss, Goto, TypeOK, Located
  <1>2. ASSUME NEW c \in Callers, LookupStat(c) PROVE CoveredSafe'
    BY <1>a, <1>b, <1>2 DEF LookupStat, StatResult, Goto, TypeOK, Located
  <1>3. ASSUME NEW c \in Callers, LookupDrop(c) PROVE CoveredSafe'
    BY <1>a, <1>b, <1>3 DEF LookupDrop, Miss, Goto, TypeOK, Located
  <1>4. ASSUME NEW c \in Callers, LookupTouch(c) PROVE CoveredSafe'
    BY <1>a, <1>b, <1>4 DEF LookupTouch, Goto, TypeOK, Located
  <1>5. ASSUME NEW c \in Callers, LookupFails(c) PROVE CoveredSafe'
    BY <1>a, <1>b, <1>5 DEF LookupFails, Return, Goto, TypeOK, Located
  <1>6. ASSUME NEW c \in Callers, LeaseKey(c) PROVE CoveredSafe'
    BY <1>a, <1>b, <1>6 DEF LeaseKey, Goto, TypeOK, Located
  <1>7. ASSUME NEW c \in Callers, OpenObject(c) PROVE CoveredSafe'
    BY <1>a, <1>b, <1>7 DEF OpenObject, Goto, TypeOK, Located
  <1>8. ASSUME NEW c \in Callers, Release(c) PROVE CoveredSafe'
    BY <1>a, <1>b, <1>8 DEF Release, Return, Goto, TypeOK, Located
  <1>9. ASSUME NEW c \in Callers, LeaveMiss(c) PROVE CoveredSafe'
    BY <1>a, <1>b, <1>9 DEF LeaveMiss, Return, Goto, TypeOK, Located
  <1>10. ASSUME NEW c \in Callers, NEW s \in Sizes, NewPartial(c, s) PROVE CoveredSafe'
    BY <1>a, <1>b, <1>10 DEF NewPartial, CreatePartial, Goto, TypeOK, Located
  <1>11. ASSUME NEW c \in Callers, WritePartial(c) PROVE CoveredSafe'
    BY <1>a, <1>b, <1>11 DEF WritePartial, TypeOK, Located
  <1>12. ASSUME NEW c \in Callers, AbandonPartial(c) PROVE CoveredSafe'
    <2>1. /\ pc[c] \in {"filling", "record"} /\ job[c].file \in Files
          /\ place' = [place EXCEPT ![job[c].file] = "gone"]
          /\ pc' = [pc EXCEPT ![c] = "idle"] /\ job' = [job EXCEPT ![c] = None]
          /\ UNCHANGED <<victim, covered>>
      BY <1>12 DEF AbandonPartial, Return, Goto, Located
    <2>2. \A d \in Callers : pc[d] = "leased" => job[d].file # job[c].file
      BY <1>a, <1>b, <2>1
    <2>3. /\ pc'[c] = "idle"
          /\ \A d \in Callers \ {c} : pc'[d] = pc[d] /\ job'[d] = job[d]
          /\ \A f \in Files \ {job[c].file} : place'[f] = place[f]
      BY <2>1 DEF TypeOK
    <2> QED
      BY <1>a, <2>1, <2>2, <2>3
  <1>13. ASSUME NEW c \in Callers, CommitRename(c) PROVE CoveredSafe'
    BY <1>a, <1>b, <1>13 DEF CommitRename, Goto, TypeOK, Located
  <1>14. ASSUME NEW c \in Callers, CommitRecord(c) PROVE CoveredSafe'
    BY <1>a, <1>b, <1>14 DEF CommitRecord, Goto, TypeOK, Located
  <1>15. ASSUME NEW c \in Callers, CommitFails(c) PROVE CoveredSafe'
    <2>1. /\ pc[c] \in {"filling", "record"} /\ job[c].file \in Files
          /\ place' = [place EXCEPT ![job[c].file] = "gone"]
          /\ pc' = [pc EXCEPT ![c] = "idle"] /\ job' = [job EXCEPT ![c] = None]
          /\ UNCHANGED <<victim, covered>>
      BY <1>15 DEF CommitFails, Return, Goto, Located
    <2>2. \A d \in Callers : pc[d] = "leased" => job[d].file # job[c].file
      BY <1>a, <1>b, <2>1
    <2>3. /\ pc'[c] = "idle"
          /\ \A d \in Callers \ {c} : pc'[d] = pc[d] /\ job'[d] = job[d]
          /\ \A f \in Files \ {job[c].file} : place'[f] = place[f]
      BY <2>1 DEF TypeOK
    <2> QED
      BY <1>a, <2>1, <2>2, <2>3
  <1>16. ASSUME NEW c \in Callers, EvictMeasure(c) PROVE CoveredSafe'
    BY <1>a, <1>b, <1>16 DEF EvictMeasure, MeasureAs, Return, Goto, TypeOK, Located
  <1>17. ASSUME NEW c \in Callers, EvictSelect(c) PROVE CoveredSafe'
    BY <1>a, <1>b, <1>17 DEF EvictSelect, Goto, TypeOK, Located
  <1>18. ASSUME NEW c \in Callers, EvictScan(c) PROVE CoveredSafe'
    <2>1. PICK e \in view[c] :
            IF Leased(e) THEN SkipTo(c, view[c] \ {e}, e) ELSE Choose(c, e)
      BY <1>18 DEF EvictScan, Scan
    <2>2. pc[c] = "scan" /\ UNCHANGED <<place, job, leases, covered>>
      BY <1>18 DEF EvictScan, Scan
    <2>3. CASE Leased(e)
      BY <2>1, <2>2, <2>3 DEF SkipTo
    <2>4. CASE ~Leased(e)
      <3>1. /\ victim'[c] = e /\ pc'[c] = "delete"
            /\ \A d \in Callers \ {c} : victim'[d] = victim[d] /\ pc'[d] = pc[d]
        BY <2>1, <2>4 DEF Choose, Goto, TypeOK
      <3>2. published[e.file] = [key |-> e.key, len |-> e.size] /\ ~(leases[e.key] > 0)
        BY <2>4 DEF Leased, Sealing, ViewsPublished
      <3>3. ASSUME NEW d \in Callers, pc[d] = "leased" PROVE e.file # job[d].file
        <4>1. published[job[d].file] = [key |-> job[d].key, len |-> job[d].size]
              /\ leases[job[d].key] > 0
          BY <1>a, <3>3
        <4>2. published[job[d].file].key # published[e.file].key
          BY <3>2, <4>1
        <4> QED
          BY <4>2
      <3> QED
        BY <2>2, <3>1, <3>3
    <2> QED
      BY <2>3, <2>4
  <1>19. ASSUME NEW c \in Callers, EvictGivesUp(c) PROVE CoveredSafe'
    BY <1>a, <1>b, <1>19 DEF EvictGivesUp, ForgetPass, Return, Goto, TypeOK, Located
  <1>20. ASSUME NEW c \in Callers, EvictDelete(c) PROVE CoveredSafe'
    BY <1>a, <1>b, <1>20 DEF EvictDelete, Goto, TypeOK, Located
  <1>21. ASSUME NEW c \in Callers, EvictRemove(c) PROVE CoveredSafe'
    <2>1. CASE used[c] - victim[c].size > MaxBytes
      BY <1>a, <1>b, <1>21, <2>1 DEF EvictRemove, Goto, TypeOK, Located
    <2>2. CASE ~(used[c] - victim[c].size > MaxBytes)
      <3>1. /\ pc[c] = "remove" /\ pc' = [pc EXCEPT ![c] = "idle"]
            /\ job' = [job EXCEPT ![c] = None] /\ victim' = [victim EXCEPT ![c] = None]
            /\ place' = [place EXCEPT ![victim[c].file] = "gone"]
            /\ UNCHANGED <<content, covered, leases, published>>
        BY <1>21, <2>2 DEF EvictRemove, ForgetPass, Return, Goto
      <3> QED
        BY <1>a, <1>b, <3>1 DEF TypeOK, Located
    <2> QED
      BY <2>1, <2>2
  <1>22. ASSUME NEW c \in Callers, EvictFails(c) PROVE CoveredSafe'
    BY <1>a, <1>b, <1>22 DEF EvictFails, ForgetPass, Return, Goto, TypeOK, Located
  <1>23. ASSUME Start PROVE CoveredSafe'
    BY <1>a, <1>b, <1>23 DEF Start, TypeOK, Located
  <1>24. ASSUME RemovePartials PROVE CoveredSafe'
    <2>1. \A d \in Callers : pc[d] = "idle"
      BY <1>24 DEF RemovePartials, Purge, Done, Sealing, IdleUnlessUp
    <2>2. UNCHANGED <<pc, job, victim, covered>>
      BY <1>24 DEF RemovePartials, Purge
    <2> QED
      BY <2>1, <2>2
  <1>25. ASSUME ReconcileRows PROVE CoveredSafe'
    BY <1>a, <1>b, <1>25 DEF ReconcileRows, Done, Present, TypeOK, Located
  <1>26. ASSUME ReconcileObjects PROVE CoveredSafe'
    <2>1. \A d \in Callers : pc[d] = "idle"
      BY <1>26 DEF ReconcileObjects, Done, Sealing, IdleUnlessUp
    <2>2. UNCHANGED <<pc, job, victim, covered>>
      BY <1>26 DEF ReconcileObjects
    <2> QED
      BY <2>1, <2>2
  <1>27. ASSUME Crash PROVE CoveredSafe'
    BY <1>a, <1>b, <1>27 DEF Crash, TypeOK, Located
  <1>28. ASSUME NEW f \in Files, DamageObject(f) PROVE CoveredSafe'
    <2>1. \A d \in Callers : pc[d] = "idle"
      BY <1>28 DEF DamageObject, Sealing, IdleUnlessUp
    <2>2. UNCHANGED <<pc, job, victim, covered>>
      BY <1>28 DEF DamageObject
    <2> QED
      BY <2>1, <2>2
  <1>29. ASSUME Tick PROVE CoveredSafe'
    BY <1>a, <1>b, <1>29 DEF Tick, TypeOK, Located
  <1>30. CASE UNCHANGED vars
    BY <1>30 DEF vars, disk, evictor, ghosts, TypeOK, Located
  <1> QED
    BY <1>1, <1>2, <1>3, <1>4, <1>5, <1>6, <1>7, <1>8, <1>9, <1>10, <1>11, <1>12, <1>13, <1>14, <1>15, <1>16, <1>17, <1>18, <1>19, <1>20, <1>21, <1>22, <1>23, <1>24, <1>25, <1>26, <1>27, <1>28, <1>29, <1>30 DEF Next, Lookup, Lease, Fill, Commit, Evict, NewAudioManager, Reconcile

\* The lease table counts exactly the responses that hold a key.
THEOREM LeasesAreCounted == Spec => []LeasesCounted
  <1>1. Init => LeasesCounted
    <2> SUFFICES ASSUME Init, NEW k \in Keys PROVE leases[k] = Cardinality(Holders(k))
      BY DEF LeasesCounted
    <2>1. Holders(k) = {} /\ leases[k] = 0
      BY DEF Init, Holders, Leasing
    <2> QED
      BY <2>1, FS_EmptySet
  <1> QED
    BY <1>1, CountStep, TypeCorrect, PTL DEF Spec

\* A lease taken before an eviction has chosen its object keeps that object
\* in place until the response has opened it.
THEOREM LeasesProtect == Spec => []LeaseProtects
  <1>1. Init => CoveredSafe
    BY DEF Init, CoveredSafe
  <1>2. CoveredSafe => LeaseProtects
    BY DEF CoveredSafe, LeaseProtects
  <1> QED
    BY <1>1, <1>2, CoverStep, TypeCorrect, SealingHolds, LeasesAreCounted, PTL DEF Spec

---------------------------------------------------------------------------
(* Refinement.                                                             *)

LEMMA StoreInit == Init => Store!Init
  BY DEF Init, Store!Init, StoreIndex, StoreServing

\* The bytes of an object that is being read do not change.
ServingKept ==
  \A d \in Callers : /\ pc'[d] = "reading" <=> pc[d] = "reading"
                     /\ pc[d] = "reading" => content'[job'[d].file] = content[job[d].file]

\* Every statement is one step of the store, or none.
LEMMA StoreStep ==
  TypeOK /\ Located /\ Sealing /\ [Next]_vars => [Store!Next]_(Store!vars)
  <1> SUFFICES ASSUME TypeOK, Located, Sealing, [Next]_vars
               PROVE  [Store!Next]_(Store!vars)
    OBVIOUS
  <1> USE DEF disk, evictor, ghosts
  <1>a. ASSUME ServingKept PROVE StoreServing' = StoreServing
    BY <1>a DEF ServingKept, StoreServing
  <1>b. ASSUME ServingKept, UNCHANGED <<rows, published>> PROVE [Store!Next]_(Store!vars)
    BY <1>a, <1>b DEF StoreIndex, Store!vars
  <1>c. ASSUME ServingKept, UNCHANGED published, NEW K \in SUBSET Keys,
               rows' = [k \in Keys |-> IF k \in K THEN None ELSE rows[k]]
        PROVE  [Store!Next]_(Store!vars)
    <2>1. StoreIndex' = [k \in Keys |-> IF k \in K THEN None ELSE StoreIndex[k]]
      BY <1>c DEF StoreIndex
    <2>2. Store!Forget(K)
      BY <1>a, <1>c, <2>1 DEF Store!Forget
    <2> QED
      BY <2>2 DEF Store!Next
  <1>d. \A d \in Callers : pc[d] = "reading" =>
          job[d].file \in Files /\ published[job[d].file] # None
    BY ReferencesPublished DEF Located, Hitting
  <1>1. ASSUME NEW c \in Callers, NEW k \in Keys, LookupSelect(c, k) PROVE [Store!Next]_(Store!vars)
    BY <1>b, <1>1 DEF LookupSelect, Miss, Goto, ServingKept, TypeOK
  <1>2. ASSUME NEW c \in Callers, LookupStat(c) PROVE [Store!Next]_(Store!vars)
    BY <1>b, <1>2 DEF LookupStat, StatResult, Goto, ServingKept, TypeOK
  <1>3. ASSUME NEW c \in Callers, LookupDrop(c) PROVE [Store!Next]_(Store!vars)
    <2>1. ServingKept /\ UNCHANGED published
      BY <1>3 DEF LookupDrop, Miss, Goto, ServingKept, TypeOK
    <2>2. CASE UNCHANGED rows
      BY <1>b, <2>1, <2>2
    <2>3. CASE rows' = [rows EXCEPT ![job[c].key] = None]
      <3>1. job[c].key \in Keys
        BY <1>3 DEF LookupDrop, Miss, Goto, Located, Entry
      <3>2. rows' = [k \in Keys |-> IF k \in {job[c].key} THEN None ELSE rows[k]]
        BY <2>3, <3>1 DEF TypeOK
      <3> QED
        BY <1>c, <2>1, <3>1, <3>2
    <2> QED
      BY <1>3, <2>2, <2>3 DEF LookupDrop, Miss, Goto
  <1>4. ASSUME NEW c \in Callers, LookupTouch(c) PROVE [Store!Next]_(Store!vars)
    <2>1. ServingKept /\ UNCHANGED published
      BY <1>4 DEF LookupTouch, Goto, ServingKept, TypeOK
    <2>2. StoreIndex' = StoreIndex
      <3> SUFFICES ASSUME NEW k \in Keys
                   PROVE  /\ rows'[k] = None <=> rows[k] = None
                          /\ rows[k] # None => rows'[k].file = rows[k].file
        BY DEF StoreIndex
      <3>1. CASE rows[job[c].key] = None
        BY <1>4, <3>1 DEF LookupTouch
      <3>2. CASE rows[job[c].key] # None
        <4>1. rows' = [rows EXCEPT ![job[c].key].accessed = clock]
          BY <1>4, <3>2 DEF LookupTouch
        <4>2. rows[job[c].key] \in Row /\ job[c].key \in Keys
          BY <1>4, <3>2 DEF LookupTouch, TypeOK, Located
        <4>3. rows'[job[c].key] = [rows[job[c].key] EXCEPT !.accessed = clock]
          BY <4>1, <4>2 DEF TypeOK
        <4>4. rows'[job[c].key] \in Row /\ rows'[job[c].key].file = rows[job[c].key].file
          BY <4>2, <4>3 DEF TypeOK, Row
        <4> QED
          BY <4>1, <4>2, <4>4, <3>2, NoneAssumption DEF TypeOK
      <3> QED
        BY <3>1, <3>2
    <2> QED
      BY <1>a, <2>1, <2>2 DEF Store!vars
  <1>5. ASSUME NEW c \in Callers, LookupFails(c) PROVE [Store!Next]_(Store!vars)
    BY <1>b, <1>5 DEF LookupFails, Return, Goto, ServingKept, TypeOK
  <1>6. ASSUME NEW c \in Callers, LeaseKey(c) PROVE [Store!Next]_(Store!vars)
    BY <1>b, <1>6 DEF LeaseKey, Goto, ServingKept, TypeOK
  <1>7. ASSUME NEW c \in Callers, OpenObject(c) PROVE [Store!Next]_(Store!vars)
    <2> DEFINE f == job[c].file
    <2>1. /\ pc[c] = "leased" /\ f \in Files
          /\ UNCHANGED <<rows, published, content, job>>
      BY <1>7 DEF OpenObject, Located, Hitting
    <2>2. CASE place[f] # "objects"
      <3>1. ServingKept
        BY <1>7, <2>1, <2>2 DEF OpenObject, Goto, ServingKept, TypeOK
      <3> QED
        BY <1>b, <2>1, <3>1
    <2>3. CASE place[f] = "objects"
      <3>1. published[f] # None
        BY <2>1, ReferencesPublished DEF Hitting
      <3>2. content[f] = published[f]
        <4>1. published[f] = [key |-> job[c].key, len |-> job[c].size]
          BY <2>1 DEF Sealing, HitsPublished, Hitting
        <4>2. content[f] = [key |-> job[c].key, len |-> job[c].size]
          BY <2>1 DEF Sealing, NoPartialHit, Sealed
        <4> QED
          BY <4>1, <4>2
      <3>3. pc' = [pc EXCEPT ![c] = "reading"]
        BY <1>7, <2>3 DEF OpenObject, Goto
      <3>4. StoreServing' = [StoreServing EXCEPT ![c] = published[f]] /\ StoreServing[c] = None
        BY <2>1, <3>2, <3>3 DEF StoreServing, TypeOK
      <3>5. StoreIndex' = StoreIndex
        BY <2>1 DEF StoreIndex
      <3>6. Store!Serve(c, f)
        BY <2>1, <3>1, <3>4, <3>5 DEF Store!Serve
      <3> QED
        BY <2>1, <3>6 DEF Store!Next
    <2> QED
      BY <2>2, <2>3
  <1>8. ASSUME NEW c \in Callers, Release(c) PROVE [Store!Next]_(Store!vars)
    <2>1. StoreServing' = [d \in Callers |-> IF d \in {c} THEN None ELSE StoreServing[d]]
      BY <1>8 DEF Release, Return, Goto, StoreServing, TypeOK
    <2>2. StoreIndex' = StoreIndex /\ UNCHANGED published
      BY <1>8 DEF Release, Return, Goto, StoreIndex
    <2>3. Store!Finish({c})
      BY <2>1, <2>2 DEF Store!Finish
    <2> QED
      BY <2>3 DEF Store!Next
  <1>9. ASSUME NEW c \in Callers, LeaveMiss(c) PROVE [Store!Next]_(Store!vars)
    BY <1>b, <1>9 DEF LeaveMiss, Return, Goto, ServingKept, TypeOK
  <1>10. ASSUME NEW c \in Callers, NEW s \in Sizes, NewPartial(c, s) PROVE [Store!Next]_(Store!vars)
    <2>1. PICK f \in Files : place[f] = "unused" /\ CreatePartial(c, f, s)
      BY <1>10 DEF NewPartial
    <2>2. published[f] = None
      BY <2>1 DEF Sealing, PublishedStay
    <2>3. \A d \in Callers : pc[d] = "reading" => job[d].file # f /\ job[d].file \in Files
      BY <1>d, <2>2
    <2>4. /\ \A d \in Callers \ {c} : pc'[d] = pc[d] /\ job'[d] = job[d]
          /\ pc[c] = "missed" /\ pc'[c] = "filling"
          /\ \A g \in Files \ {f} : content'[g] = content[g]
          /\ UNCHANGED <<rows, published>>
      BY <2>1 DEF CreatePartial, Goto, TypeOK
    <2>5. ServingKept
      BY <2>3, <2>4 DEF ServingKept
    <2> QED
      BY <1>b, <2>4, <2>5
  <1>11. ASSUME NEW c \in Callers, WritePartial(c) PROVE [Store!Next]_(Store!vars)
    <2>1. /\ pc[c] = "filling" /\ published[job[c].file] = None
          /\ UNCHANGED <<rows, published, pc, job>>
      BY <1>11 DEF WritePartial, Sealing, PartialsFresh
    <2>2. \A g \in Files \ {job[c].file} : content'[g] = content[g]
      BY <1>11 DEF WritePartial, TypeOK
    <2>3. ServingKept
      BY <1>d, <2>1, <2>2 DEF ServingKept
    <2> QED
      BY <1>b, <2>1, <2>3
  <1>12. ASSUME NEW c \in Callers, AbandonPartial(c) PROVE [Store!Next]_(Store!vars)
    BY <1>b, <1>12 DEF AbandonPartial, Return, Goto, ServingKept, TypeOK
  <1>13. ASSUME NEW c \in Callers, CommitRename(c) PROVE [Store!Next]_(Store!vars)
    BY <1>b, <1>13 DEF CommitRename, Goto, ServingKept, TypeOK
  <1>14. ASSUME NEW c \in Callers, CommitRecord(c) PROVE [Store!Next]_(Store!vars)
    <2> DEFINE f == job[c].file
               k == job[c].key
    <2>1. /\ pc[c] = "record" /\ f \in Files /\ k \in Keys /\ job[c].size \in Sizes
          /\ published[f] = None
          /\ content[f].key = k /\ content[f].len = job[c].size
      BY <1>14 DEF CommitRecord, Located, Sealing, PartialsFresh
    <2>2. content[f] = [key |-> k, len |-> job[c].size]
      BY <2>1 DEF TypeOK, Bytes
    <2>3. published' = [published EXCEPT ![f] = [key |-> k, len |-> job[c].size]]
      BY <1>14, <2>2 DEF CommitRecord
    <2>4. StoreIndex' = [StoreIndex EXCEPT ![k] = f]
      <3>1. rows' = [rows EXCEPT ![k] = [file |-> f, size |-> job[c].size, accessed |-> clock]]
        BY <1>14 DEF CommitRecord
      <3>2. [file |-> f, size |-> job[c].size, accessed |-> clock] # None
        <4>1. job[c].size \in Nat /\ clock \in Nat
          BY <2>1, SizesAssumption DEF TypeOK
        <4>2. [file |-> f, size |-> job[c].size, accessed |-> clock] \in Row
          BY <2>1, <4>1 DEF Row
        <4> QED
          BY <4>2, NoneAssumption
      <3> QED
        BY <2>1, <3>1, <3>2 DEF StoreIndex, TypeOK
    <2>5. ServingKept
      BY <1>14, <2>1 DEF CommitRecord, Goto, ServingKept, TypeOK
    <2>6. Store!Publish(k, f)
      BY <1>a, <2>1, <2>3, <2>4, <2>5 DEF Store!Publish
    <2> QED
      BY <2>1, <2>6 DEF Store!Next
  <1>15. ASSUME NEW c \in Callers, CommitFails(c) PROVE [Store!Next]_(Store!vars)
    BY <1>b, <1>15 DEF CommitFails, Return, Goto, ServingKept, TypeOK
  <1>16. ASSUME NEW c \in Callers, EvictMeasure(c) PROVE [Store!Next]_(Store!vars)
    BY <1>b, <1>16 DEF EvictMeasure, MeasureAs, Return, Goto, ServingKept, TypeOK
  <1>17. ASSUME NEW c \in Callers, EvictSelect(c) PROVE [Store!Next]_(Store!vars)
    BY <1>b, <1>17 DEF EvictSelect, Goto, ServingKept, TypeOK
  <1>18. ASSUME NEW c \in Callers, EvictScan(c) PROVE [Store!Next]_(Store!vars)
    BY <1>b, <1>18 DEF EvictScan, Scan, SkipTo, Choose, Oldest, Goto, ServingKept, TypeOK
  <1>19. ASSUME NEW c \in Callers, EvictGivesUp(c) PROVE [Store!Next]_(Store!vars)
    BY <1>b, <1>19 DEF EvictGivesUp, ForgetPass, Return, Goto, ServingKept, TypeOK
  <1>20. ASSUME NEW c \in Callers, EvictDelete(c) PROVE [Store!Next]_(Store!vars)
    <2>1. ServingKept /\ UNCHANGED published
      BY <1>20 DEF EvictDelete, Goto, ServingKept, TypeOK
    <2>2. CASE UNCHANGED rows
      BY <1>b, <2>1, <2>2
    <2>3. CASE rows' = [rows EXCEPT ![victim[c].key] = None]
      <3>1. victim[c].key \in Keys
        BY <1>20 DEF EvictDelete, Goto, Located, Entry
      <3>2. rows' = [k \in Keys |-> IF k \in {victim[c].key} THEN None ELSE rows[k]]
        BY <2>3, <3>1 DEF TypeOK
      <3> QED
        BY <1>c, <2>1, <3>1, <3>2
    <2> QED
      BY <1>20, <2>2, <2>3 DEF EvictDelete, Goto
  <1>21. ASSUME NEW c \in Callers, EvictRemove(c) PROVE [Store!Next]_(Store!vars)
    BY <1>b, <1>21 DEF EvictRemove, ForgetPass, Return, Goto, ServingKept, TypeOK
  <1>22. ASSUME NEW c \in Callers, EvictFails(c) PROVE [Store!Next]_(Store!vars)
    BY <1>b, <1>22 DEF EvictFails, Evicting, ForgetPass, Return, Goto, ServingKept, TypeOK
  <1>23. ASSUME Start PROVE [Store!Next]_(Store!vars)
    BY <1>b, <1>23 DEF Start, ServingKept, TypeOK
  <1>24. ASSUME RemovePartials PROVE [Store!Next]_(Store!vars)
    BY <1>b, <1>24 DEF RemovePartials, Purge, Done, ServingKept, TypeOK
  <1>25. ASSUME ReconcileRows PROVE [Store!Next]_(Store!vars)
    <2>1. ServingKept /\ UNCHANGED published
      BY <1>25 DEF ReconcileRows, Done, Present, ServingKept
    <2>2. PICK done \in SUBSET Keys :
            rows' = [k \in Keys |-> IF k \in done THEN None ELSE rows[k]]
      BY <1>25 DEF ReconcileRows
    <2> QED
      BY <1>c, <2>1, <2>2
  <1>26. ASSUME ReconcileObjects PROVE [Store!Next]_(Store!vars)
    BY <1>b, <1>26 DEF ReconcileObjects, Done, ServingKept, TypeOK
  <1>27. ASSUME Crash PROVE [Store!Next]_(Store!vars)
    <2>1. StoreServing' = [d \in Callers |-> IF d \in Callers THEN None ELSE StoreServing[d]]
      BY <1>27 DEF Crash, StoreServing, TypeOK
    <2>2. StoreIndex' = StoreIndex /\ UNCHANGED published
      BY <1>27 DEF Crash, StoreIndex
    <2>3. Store!Finish(Callers)
      BY <2>1, <2>2 DEF Store!Finish
    <2> QED
      BY <2>3 DEF Store!Next
  <1>28. ASSUME NEW f \in Files, DamageObject(f) PROVE [Store!Next]_(Store!vars)
    <2>1. ServingKept
      BY <1>28 DEF DamageObject, Sealing, IdleUnlessUp, ServingKept
    <2> QED
      BY <1>28, <1>b, <2>1 DEF DamageObject
  <1>29. ASSUME Tick PROVE [Store!Next]_(Store!vars)
    BY <1>b, <1>29 DEF Tick, ServingKept, TypeOK
  <1>30. CASE UNCHANGED vars
    BY <1>b, <1>30 DEF vars, disk, evictor, ghosts, ServingKept, TypeOK
  <1> QED
    BY <1>1, <1>2, <1>3, <1>4, <1>5, <1>6, <1>7, <1>8, <1>9, <1>10, <1>11, <1>12, <1>13, <1>14, <1>15, <1>16, <1>17, <1>18, <1>19, <1>20, <1>21, <1>22, <1>23, <1>24, <1>25, <1>26, <1>27, <1>28, <1>29, <1>30 DEF Next, Lookup, Lease, Fill, Commit, Evict, NewAudioManager, Reconcile

\* The cache implements the store of sealed objects: what a response is served
\* is what was published, whole, under a name used once.
THEOREM ImplementsStore == Spec => StoreSpec
  <1>1. Spec => Store!Spec
    BY StoreInit, StoreStep, TypeCorrect, SealingHolds, PTL DEF Spec, Store!Spec
  <1> QED
    BY <1>1 DEF StoreSpec

---------------------------------------------------------------------------
(* Order of eviction.                                                      *)

\* Whatever carries a time of last access was accessed by now.
Past ==
  /\ \A k \in Keys : rows[k] # None => rows[k].accessed <= clock
  /\ \A c \in Callers : \A e \in view[c] : e.accessed <= clock
  /\ \A c \in Callers : pc[c] \in {"delete", "remove"} => victim[c].accessed <= clock

\* While a pass reads the table nobody writes it: each row is still to be
\* examined, as it is, or was found leased.
Examined ==
  \A c \in Callers : pc[c] = "scan" =>
    \A k \in Keys : rows[k] # None =>
      \/ k \in skipped[c]
      \/ [key |-> k, file |-> rows[k].file, size |-> rows[k].size,
          accessed |-> rows[k].accessed] \in view[c]

Ordered == Past /\ Examined /\ LeastRecentFirst

\* A row that is written is written with the time of now, while no pass reads
\* the table.
LEMMA OrderWritten ==
  ASSUME TypeOK, Located, Ordered, UNCHANGED <<clock, view, skipped, victim>>,
         \A k \in Keys : rows'[k] # None =>
           \/ rows[k] # None /\ rows'[k].accessed = rows[k].accessed
           \/ rows'[k].accessed = clock,
         \A d \in Callers : pc[d] # "scan",
         \A d \in Callers : pc'[d] \in {"scan", "delete", "remove"} => pc'[d] = pc[d]
  PROVE  Ordered'
  <1> USE DEF Ordered, Past, Examined, LeastRecentFirst
  <1>1. clock \in Nat
    BY DEF TypeOK
  <1>2. Past'
    BY <1>1
  <1>3. Examined'
    OBVIOUS
  <1>4. ASSUME NEW c \in Callers, pc[c] = "delete", NEW k \in Keys, rows'[k] # None,
               rows'[k].accessed < victim[c].accessed
        PROVE  k \in skipped[c]
    <2>1. victim[c].accessed <= clock /\ victim[c].accessed \in Nat
      BY <1>4 DEF Located, Entry
    <2>2. rows'[k].accessed # clock
      BY <1>1, <1>4, <2>1
    <2> QED
      BY <1>4, <2>2
  <1>5. LeastRecentFirst'
    BY <1>4
  <1> QED
    BY <1>2, <1>3, <1>5

LEMMA OrderStep == TypeOK /\ Located /\ Ordered /\ [Next]_vars => Ordered'
  <1> SUFFICES ASSUME TypeOK, Located, Ordered, [Next]_vars PROVE Ordered'
    OBVIOUS
  <1> USE DEF disk, evictor, ghosts, Ordered, Past, Examined, LeastRecentFirst
  <1>1. ASSUME NEW c \in Callers, NEW k \in Keys, LookupSelect(c, k) PROVE Ordered'
    BY <1>1 DEF LookupSelect, Miss, Goto, TypeOK, Located
  <1>2. ASSUME NEW c \in Callers, LookupStat(c) PROVE Ordered'
    BY <1>2 DEF LookupStat, StatResult, Goto, TypeOK, Located
  <1>3. ASSUME NEW c \in Callers, LookupDrop(c) PROVE Ordered'
    BY <1>3 DEF LookupDrop, Miss, Goto, TypeOK, Located
  <1>4. ASSUME NEW c \in Callers, LookupTouch(c) PROVE Ordered'
    <2>1. /\ pc[c] = "touch" /\ Writable /\ UNCHANGED <<clock, view, skipped, victim>>
          /\ job[c].key \in Keys /\ clock \in Nat
          /\ pc' = [pc EXCEPT ![c] = "hit"]
      BY <1>4 DEF LookupTouch, Goto, TypeOK, Located
    <2>2. \A k \in Keys : rows'[k] # None =>
            rows[k] # None /\ (rows'[k].accessed = rows[k].accessed \/ rows'[k].accessed = clock)
      <3> SUFFICES ASSUME NEW k \in Keys, rows'[k] # None
                   PROVE  /\ rows[k] # None
                          /\ rows'[k].accessed = rows[k].accessed \/ rows'[k].accessed = clock
        OBVIOUS
      <3> DEFINE t == job[c].key
      <3>1. CASE rows[t] = None
        BY <1>4, <3>1 DEF LookupTouch
      <3>2. CASE rows[t] # None
        <4>1. rows' = [rows EXCEPT ![t].accessed = clock] /\ rows[t] \in Row
          BY <1>4, <2>1, <3>2 DEF LookupTouch, TypeOK
        <4>2. k = t => rows'[k].accessed = clock
          BY <4>1 DEF TypeOK, Row
        <4>3. k # t => rows'[k] = rows[k]
          BY <4>1 DEF TypeOK
        <4> QED
          BY <3>2, <4>2, <4>3
      <3> QED
        BY <3>1, <3>2
    <2>3. /\ \A d \in Callers : pc[d] # "scan"
          /\ \A d \in Callers : pc'[d] \in {"scan", "delete", "remove"} => pc'[d] = pc[d]
      BY <2>1 DEF Writable, TypeOK
    <2> QED
      BY <2>1, <2>2, <2>3, OrderWritten
  <1>5. ASSUME NEW c \in Callers, LookupFails(c) PROVE Ordered'
    BY <1>5 DEF LookupFails, Return, Goto, TypeOK, Located
  <1>6. ASSUME NEW c \in Callers, LeaseKey(c) PROVE Ordered'
    BY <1>6 DEF LeaseKey, Goto, TypeOK, Located
  <1>7. ASSUME NEW c \in Callers, OpenObject(c) PROVE Ordered'
    BY <1>7 DEF OpenObject, Goto, TypeOK, Located
  <1>8. ASSUME NEW c \in Callers, Release(c) PROVE Ordered'
    BY <1>8 DEF Release, Return, Goto, TypeOK, Located
  <1>9. ASSUME NEW c \in Callers, LeaveMiss(c) PROVE Ordered'
    BY <1>9 DEF LeaveMiss, Return, Goto, TypeOK, Located
  <1>10. ASSUME NEW c \in Callers, NEW s \in Sizes, NewPartial(c, s) PROVE Ordered'
    BY <1>10 DEF NewPartial, CreatePartial, Goto, TypeOK, Located
  <1>11. ASSUME NEW c \in Callers, WritePartial(c) PROVE Ordered'
    BY <1>11 DEF WritePartial, TypeOK, Located
  <1>12. ASSUME NEW c \in Callers, AbandonPartial(c) PROVE Ordered'
    BY <1>12 DEF AbandonPartial, Return, Goto, TypeOK, Located
  <1>13. ASSUME NEW c \in Callers, CommitRename(c) PROVE Ordered'
    BY <1>13 DEF CommitRename, Goto, TypeOK, Located
  <1>14. ASSUME NEW c \in Callers, CommitRecord(c) PROVE Ordered'
    <2>1. /\ pc[c] = "record" /\ Writable /\ UNCHANGED <<clock, view, skipped, victim>>
          /\ job[c].key \in Keys /\ clock \in Nat
          /\ pc' = [pc EXCEPT ![c] = "measure"]
      BY <1>14 DEF CommitRecord, Goto, TypeOK, Located
    <2>2. \A k \in Keys : rows'[k] # None =>
            \/ rows[k] # None /\ rows'[k].accessed = rows[k].accessed
            \/ rows'[k].accessed = clock
      BY <1>14 DEF CommitRecord, TypeOK
    <2>3. /\ \A d \in Callers : pc[d] # "scan"
          /\ \A d \in Callers : pc'[d] \in {"scan", "delete", "remove"} => pc'[d] = pc[d]
      BY <2>1 DEF Writable, TypeOK
    <2> QED
      BY <2>1, <2>2, <2>3, OrderWritten
  <1>15. ASSUME NEW c \in Callers, CommitFails(c) PROVE Ordered'
    BY <1>15 DEF CommitFails, Return, Goto, TypeOK, Located
  <1>16. ASSUME NEW c \in Callers, EvictMeasure(c) PROVE Ordered'
    BY <1>16 DEF EvictMeasure, MeasureAs, Return, Goto, TypeOK, Located
  <1>17. ASSUME NEW c \in Callers, EvictSelect(c) PROVE Ordered'
    BY <1>17 DEF EvictSelect, Goto, TypeOK, Located
  <1>18. ASSUME NEW c \in Callers, EvictScan(c) PROVE Ordered'
    <2>1. PICK e \in view[c] :
            /\ Oldest(c, e)
            /\ IF Leased(e) THEN SkipTo(c, view[c] \ {e}, e) ELSE Choose(c, e)
      BY <1>18 DEF EvictScan, Scan
    <2>2. pc[c] = "scan" /\ UNCHANGED <<rows, clock>>
      BY <1>18 DEF EvictScan, Scan
    <2>3. CASE Leased(e)
      <3>1. /\ view' = [view EXCEPT ![c] = view[c] \ {e}]
            /\ skipped' = [skipped EXCEPT ![c] = @ \cup {e.key}]
            /\ UNCHANGED <<pc, victim>>
        BY <2>1, <2>3 DEF SkipTo
      <3>2. /\ view'[c] = view[c] \ {e} /\ skipped'[c] = skipped[c] \cup {e.key}
            /\ \A d \in Callers \ {c} : view'[d] = view[d] /\ skipped'[d] = skipped[d]
        BY <3>1 DEF TypeOK
      <3>3. Past'
        BY <2>2, <3>1, <3>2
      <3>4. Examined'
        BY <2>2, <3>1, <3>2
      <3>5. LeastRecentFirst'
        BY <2>2, <3>1, <3>2
      <3> QED
        BY <3>3, <3>4, <3>5
    <2>4. CASE ~Leased(e)
      <3>1. /\ view'[c] = {} /\ victim'[c] = e /\ pc'[c] = "delete" /\ UNCHANGED skipped
            /\ \A d \in Callers \ {c} : /\ view'[d] = view[d] /\ victim'[d] = victim[d]
                                        /\ pc'[d] = pc[d]
        BY <2>1, <2>4 DEF Choose, Goto, TypeOK
      <3>2. Past'
        BY <2>2, <3>1
      <3>3. Examined'
        BY <2>2, <3>1
      <3>4. ASSUME NEW k \in Keys, rows[k] # None, k \notin skipped[c]
            PROVE  ~(rows[k].accessed < e.accessed)
        <4>1. [key |-> k, file |-> rows[k].file, size |-> rows[k].size,
               accessed |-> rows[k].accessed] \in view[c]
          BY <2>2, <3>4
        <4>2. e.accessed <= rows[k].accessed
          BY <2>1, <4>1 DEF Oldest
        <4>3. e.accessed \in Nat /\ rows[k].accessed \in Nat
          BY <2>1, <3>4 DEF TypeOK, Entry, Row
        <4> QED
          BY <4>2, <4>3
      <3>5. LeastRecentFirst'
        BY <2>2, <3>1, <3>4
      <3> QED
        BY <3>2, <3>3, <3>5
    <2> QED
      BY <2>3, <2>4
  <1>19. ASSUME NEW c \in Callers, EvictGivesUp(c) PROVE Ordered'
    BY <1>19 DEF EvictGivesUp, ForgetPass, Return, Goto, TypeOK, Located
  <1>20. ASSUME NEW c \in Callers, EvictDelete(c) PROVE Ordered'
    BY <1>20 DEF EvictDelete, Goto, TypeOK, Located
  <1>21. ASSUME NEW c \in Callers, EvictRemove(c) PROVE Ordered'
    <2>1. CASE used[c] - victim[c].size > MaxBytes
      BY <1>21, <2>1 DEF EvictRemove, Goto, TypeOK, Located
    <2>2. CASE ~(used[c] - victim[c].size > MaxBytes)
      BY <1>21, <2>2 DEF EvictRemove, ForgetPass, Return, Goto, TypeOK, Located
    <2> QED
      BY <2>1, <2>2
  <1>22. ASSUME NEW c \in Callers, EvictFails(c) PROVE Ordered'
    BY <1>22 DEF EvictFails, Evicting, ForgetPass, Return, Goto, TypeOK, Located
  <1>23. ASSUME Start PROVE Ordered'
    BY <1>23 DEF Start, TypeOK, Located
  <1>24. ASSUME RemovePartials PROVE Ordered'
    BY <1>24 DEF RemovePartials, Purge, Done, TypeOK, Located
  <1>25. ASSUME ReconcileRows PROVE Ordered'
    BY <1>25 DEF ReconcileRows, Done, Present, TypeOK, Located
  <1>26. ASSUME ReconcileObjects PROVE Ordered'
    BY <1>26 DEF ReconcileObjects, Done, TypeOK, Located
  <1>27. ASSUME Crash PROVE Ordered'
    BY <1>27 DEF Crash, TypeOK, Located
  <1>28. ASSUME NEW f \in Files, DamageObject(f) PROVE Ordered'
    BY <1>28 DEF DamageObject, TypeOK, Located
  <1>29. ASSUME Tick PROVE Ordered'
    <2>1. clock \in Nat /\ clock' = clock + 1 /\ UNCHANGED <<rows, view, skipped, victim, pc>>
      BY <1>29 DEF Tick, TypeOK
    <2>2. \A k \in Keys : rows[k] # None => rows[k].accessed \in Nat
      BY DEF TypeOK, Row
    <2>3. \A d \in Callers : \A e \in view[d] : e.accessed \in Nat
      BY DEF TypeOK, Entry
    <2>4. \A d \in Callers : pc[d] \in {"delete", "remove"} => victim[d].accessed \in Nat
      BY DEF Located, Entry
    <2>5. Past'
      BY <2>1, <2>2, <2>3, <2>4
    <2>6. Examined' /\ LeastRecentFirst'
      BY <2>1
    <2> QED
      BY <2>5, <2>6
  <1>30. CASE UNCHANGED vars
    BY <1>30 DEF vars, TypeOK, Located
  <1> QED
    BY <1>1, <1>2, <1>3, <1>4, <1>5, <1>6, <1>7, <1>8, <1>9, <1>10, <1>11, <1>12, <1>13, <1>14, <1>15, <1>16, <1>17, <1>18, <1>19, <1>20, <1>21, <1>22, <1>23, <1>24, <1>25, <1>26, <1>27, <1>28, <1>29, <1>30 DEF Next, Lookup, Lease, Fill, Commit, Evict, NewAudioManager, Reconcile

\* Eviction takes the least recently accessed entry it did not find leased
\* (audio.go:203-220), however many touch, commit and evict meanwhile.
THEOREM EvictsOldestFirst == Spec => []LeastRecentFirst
  <1>1. Init => Ordered
    BY DEF Init, Ordered, Past, Examined, LeastRecentFirst
  <1>2. Ordered => LeastRecentFirst
    BY DEF Ordered
  <1> QED
    BY <1>1, <1>2, OrderStep, TypeCorrect, PTL DEF Spec

---------------------------------------------------------------------------
(* Recovery.                                                               *)

\* What the stages of a start that are over have achieved.
Recovered ==
  /\ phase \in {"reconcile", "sweep"} => Partials = {}
  /\ phase = "sweep" => \A k \in Keys : rows[k] # None => place[rows[k].file] = "objects"

\* What RecoveryExact says of a step.
StartsExact ==
  /\ phase # "up" /\ phase' = "up" => Partials' = {} /\ Objects' = Indexed'
  /\ phase \notin {"up", "down"} =>
       \A k \in Present : \/ rows'[k] = rows[k] /\ place'[rows[k].file] = "objects"
                          \/ phase = "reconcile" /\ k \in unread'

\* Requests have no part in it: they act while the process is up.
LEMMA RequestsUp ==
  ASSUME TypeOK, Sealing, NEW c \in Callers,
         Lookup(c) \/ Lease(c) \/ Fill(c) \/ Commit(c) \/ Evict(c)
  PROVE  phase = "up" /\ phase' = "up"
  <1>1. phase' = phase
    BY DEF Lookup, Lease, Fill, Commit, Evict, disk, evictor, ghosts, LookupSelect, LookupStat,
           StatResult, LookupDrop, LookupTouch, LookupFails, LeaseKey, OpenObject, Release,
           LeaveMiss, NewPartial, CreatePartial, WritePartial, AbandonPartial, CommitRename,
           CommitRecord, CommitFails, EvictMeasure, MeasureAs, EvictSelect, EvictScan, Scan,
           EvictGivesUp, EvictDelete, EvictRemove, EvictFails
  <1>2. phase = "up" \/ pc[c] # "idle"
    BY DEF Lookup, Lease, Fill, Commit, Evict, LookupSelect, LookupStat,
           StatResult, LookupDrop, LookupTouch, LookupFails, LeaseKey, OpenObject, Release,
           LeaveMiss, NewPartial, CreatePartial, WritePartial, AbandonPartial, CommitRename,
           CommitRecord, CommitFails, EvictMeasure, MeasureAs, EvictSelect, EvictScan, Scan,
           EvictGivesUp, EvictDelete, EvictRemove, EvictFails, Evicting
  <1> QED
    BY <1>1, <1>2 DEF Sealing, IdleUnlessUp

LEMMA RecoveryStep ==
  TypeOK /\ Sealing /\ Recovered /\ [Next]_vars => Recovered' /\ (StartsExact \/ UNCHANGED vars)
  <1> SUFFICES ASSUME TypeOK, Sealing, Recovered, [Next]_vars
               PROVE  Recovered' /\ (StartsExact \/ UNCHANGED vars)
    OBVIOUS
  <1> USE DEF disk, evictor, ghosts, Recovered, StartsExact
  <1>1. ASSUME NEW c \in Callers, Lookup(c) \/ Lease(c) \/ Fill(c) \/ Commit(c) \/ Evict(c)
        PROVE  Recovered' /\ StartsExact
    BY <1>1, RequestsUp
  <1>2. ASSUME Start PROVE Recovered' /\ StartsExact
    BY <1>2 DEF Start
  <1>3. ASSUME RemovePartials PROVE Recovered' /\ StartsExact
    <2>1. PICK done \in SUBSET Partials : Purge(done) /\ Done(done, Partials, "reconcile")
      BY <1>3 DEF RemovePartials
    <2>2. /\ place' = [f \in Files |-> IF f \in done THEN "gone" ELSE place[f]]
          /\ phase = "purge" /\ phase' \in {"reconcile", "down"}
          /\ phase' = "reconcile" => done = Partials
          /\ UNCHANGED rows
      BY <2>1 DEF Purge, Done
    <2>3. done = Partials => Partials' = {}
      BY <2>2 DEF Partials, TypeOK
    <2>4. \A k \in Present : place'[rows[k].file] = "objects"
      BY <2>2 DEF Present, Partials, TypeOK, Row
    <2> QED
      BY <2>2, <2>3, <2>4
  <1>4. ASSUME ReconcileRows PROVE Recovered' /\ StartsExact
    <2>1. PICK failed \in SUBSET Present :
            \E done \in SUBSET ({k \in Keys : rows[k] # None} \ (Present \ failed)) :
              /\ rows' = [k \in Keys |-> IF k \in done THEN None ELSE rows[k]]
              /\ unread' = failed
              /\ Done(done, {k \in Keys : rows[k] # None} \ (Present \ failed), "sweep")
      BY <1>4 DEF ReconcileRows
    <2> DEFINE missing == {k \in Keys : rows[k] # None} \ (Present \ failed)
    <2>2. PICK done \in SUBSET missing :
            /\ rows' = [k \in Keys |-> IF k \in done THEN None ELSE rows[k]]
            /\ unread' = failed
            /\ Done(done, missing, "sweep")
      BY <2>1
    <2>3. phase = "reconcile" /\ UNCHANGED place
      BY <1>4 DEF ReconcileRows
    <2>4. phase' \in {"sweep", "down"} /\ (phase' = "sweep" => done = missing)
      BY <2>2 DEF Done
    <2>5. Partials' = {}
      BY <2>3 DEF Partials
    <2>6. \A k \in Present : k \in Keys /\ (rows'[k] = rows[k] \/ k \in failed)
      BY <2>2 DEF Present
    <2>7. \A k \in Present : place'[rows[k].file] = "objects"
      BY <2>3 DEF Present
    <2>8. ASSUME done = missing, NEW k \in Keys, rows'[k] # None
          PROVE  place'[rows'[k].file] = "objects"
      <3>1. rows[k] # None /\ rows'[k] = rows[k] /\ k \notin missing
        BY <2>2, <2>8
      <3> QED
        BY <2>3, <3>1 DEF Present
    <2> QED
      BY <2>2, <2>3, <2>4, <2>5, <2>6, <2>7, <2>8
  <1>5. ASSUME ReconcileObjects PROVE Recovered' /\ StartsExact
    <2>1. PICK done \in SUBSET (Objects \ Indexed) :
            /\ place' = [f \in Files |-> IF f \in done THEN "gone" ELSE place[f]]
            /\ Done(done, Objects \ Indexed, "up")
      BY <1>5 DEF ReconcileObjects
    <2>2. /\ phase = "sweep" /\ UNCHANGED rows
          /\ phase' \in {"up", "down"} /\ (phase' = "up" => done = Objects \ Indexed)
      BY <1>5, <2>1 DEF ReconcileObjects, Done
    <2>3. \A k \in Keys : rows[k] # None => rows[k].file \in Files /\ rows[k].file \in Indexed
      BY DEF TypeOK, Row, Indexed
    <2>4. \A k \in Present : place'[rows[k].file] = "objects" /\ rows'[k] = rows[k]
      BY <2>1, <2>2, <2>3 DEF Present
    <2>5. Partials' = {}
      <3>1. Partials = {}
        BY <2>2
      <3> QED
        BY <2>1, <3>1 DEF Partials
    <2>6. ASSUME done = Objects \ Indexed PROVE Objects' = Indexed'
      <3>1. Indexed' = Indexed
        BY <2>2 DEF Indexed
      <3>2. Objects' = Objects \ done
        BY <2>1 DEF Objects
      <3>3. Indexed \subseteq Objects
        BY <2>2, <2>3 DEF Indexed, Objects
      <3> QED
        BY <2>6, <3>1, <3>2, <3>3
    <2> QED
      BY <2>2, <2>4, <2>5, <2>6
  <1>6. ASSUME Crash PROVE Recovered' /\ StartsExact
    BY <1>6 DEF Crash
  <1>7. ASSUME NEW f \in Files, DamageObject(f) PROVE Recovered' /\ StartsExact
    BY <1>7 DEF DamageObject
  <1>8. ASSUME Tick PROVE Recovered' /\ StartsExact
    BY <1>8 DEF Tick
  <1>9. CASE UNCHANGED vars
    BY <1>9 DEF vars, Partials
  <1> QED
    BY <1>1, <1>2, <1>3, <1>4, <1>5, <1>6, <1>7, <1>8, <1>9 DEF Next, NewAudioManager, Reconcile

\* A start loses no row whose object it could examine, and when it succeeds
\* files and rows agree (audio.go:58-129), however many starts failed half-way
\* before, and whichever of their calls did.
THEOREM RecoveriesAreExact == Spec => RecoveryExact
  <1>1. Init => Recovered
    BY DEF Init, Recovered
  <1>2. StartsExact \/ UNCHANGED vars => [StartsExact]_vars
    OBVIOUS
  <1>3. [][StartsExact]_vars => RecoveryExact
    BY DEF StartsExact, RecoveryExact
  <1> QED
    BY <1>1, <1>2, <1>3, RecoveryStep, TypeCorrect, SealingHolds, PTL DEF Spec

---------------------------------------------------------------------------
(* The limit.                                                              *)

\* Eviction c will leave the index within the limit, unless it ends early: it
\* has yet to measure it, or its running total covers what the index holds,
\* less what it has read of the victim it takes.
Settles(c) ==
  \/ pc[c] = "measure"
  \/ /\ pc[c] \in {"select", "scan"} /\ IndexedBytes <= used[c]
     /\ pc[c] = "scan" => \A e \in view[c] : IndexedBytes - RowBytes[e.key] <= used[c] - e.size
  \/ pc[c] = "delete" /\ IndexedBytes - RowBytes[victim[c].key] <= used[c] - victim[c].size
  \/ pc[c] = "remove" /\ IndexedBytes <= used[c] - victim[c].size

\* Over the limit, some eviction will settle it, or one has ended early. The
\* last to record a row has measured, or will measure, all of them.
Settling ==
  /\ phase # "up" => unswept
  /\ unswept \/ IndexedBytes <= MaxBytes \/ \E c \in Callers : Settles(c)

\* A step that adds nothing to the index, whichever key is left out.
Shrinks ==
  /\ IndexedBytes' <= IndexedBytes
  /\ \A k \in Keys : IndexedBytes' - RowBytes'[k] <= IndexedBytes - RowBytes[k]

LEMMA IndexedStaysTyped ==
  ASSUME rows' \in [Keys -> Row \cup {None}]
  PROVE  IndexedBytes' \in Nat /\ RowBytes' \in [Keys -> Nat]
  <1>1. RowBytes' \in [Keys -> Nat]
    BY DEF RowBytes, Row
  <1> QED
    BY <1>1, FiniteAssumption, SumType DEF IndexedBytes

LEMMA OneShrinks ==
  ASSUME TypeOK, TypeOK', NEW k \in Keys, RowBytes'[k] <= RowBytes[k],
         \A j \in Keys \ {k} : rows'[j] = rows[j]
  PROVE  Shrinks
  <1>1. /\ IndexedBytes \in Nat /\ RowBytes \in [Keys -> Nat]
        /\ IndexedBytes' \in Nat /\ RowBytes' \in [Keys -> Nat]
    BY IndexedTyped, IndexedStaysTyped DEF TypeOK
  <1>2. \A j \in Keys \ {k} : RowBytes'[j] = RowBytes[j]
    BY DEF RowBytes
  <1>3. IndexedBytes' - RowBytes'[k] = IndexedBytes - RowBytes[k]
    BY <1>1, <1>2, FiniteAssumption, SumChanges DEF IndexedBytes
  <1>4. IndexedBytes' <= IndexedBytes
    BY <1>1, <1>3
  <1> QED
    BY <1>1, <1>2, <1>3, <1>4 DEF Shrinks

LEMMA NoneShrinks ==
  ASSUME TypeOK, rows' = rows
  PROVE  Shrinks /\ IndexedBytes' = IndexedBytes /\ RowBytes' = RowBytes
  <1>1. IndexedBytes \in Nat /\ RowBytes \in [Keys -> Nat]
    BY IndexedTyped DEF TypeOK
  <1>2. IndexedBytes' = IndexedBytes /\ RowBytes' = RowBytes
    BY DEF IndexedBytes, RowBytes
  <1> QED
    BY <1>1, <1>2 DEF Shrinks

\* An eviction that settles goes on to, whatever shrinks the index meanwhile.
LEMMA SettlesStay ==
  ASSUME TypeOK, TypeOK', Located, Shrinks, NEW d \in Callers, Settles(d),
         pc'[d] = pc[d], view'[d] = view[d], used'[d] = used[d], victim'[d] = victim[d]
  PROVE  Settles(d)'
  <1>1. /\ IndexedBytes \in Nat /\ RowBytes \in [Keys -> Nat]
        /\ IndexedBytes' \in Nat /\ RowBytes' \in [Keys -> Nat] /\ used[d] \in Nat
    BY IndexedTyped, IndexedStaysTyped DEF TypeOK
  <1>2. CASE pc[d] = "measure"
    BY <1>2 DEF Settles
  <1>3. CASE pc[d] \in {"select", "scan"}
    <2>1. IndexedBytes' <= used'[d]
      BY <1>1, <1>3 DEF Settles, Shrinks
    <2>2. ASSUME pc[d] = "scan", NEW e \in view[d]
          PROVE  IndexedBytes' - RowBytes'[e.key] <= used[d] - e.size
      <3>1. e.key \in Keys /\ e.size \in Nat
        BY <2>2 DEF TypeOK, Entry
      <3>2. IndexedBytes - RowBytes[e.key] <= used[d] - e.size
        BY <2>2 DEF Settles
      <3>3. IndexedBytes' - RowBytes'[e.key] <= IndexedBytes - RowBytes[e.key]
        BY <3>1 DEF Shrinks
      <3> QED
        BY <1>1, <3>1, <3>2, <3>3
    <2> QED
      BY <1>3, <2>1, <2>2 DEF Settles
  <1>4. CASE pc[d] \in {"delete", "remove"}
    <2>1. victim[d].key \in Keys /\ victim[d].size \in Nat
      BY <1>4 DEF Located, Entry
    <2>2. IndexedBytes' - RowBytes'[victim[d].key] <= IndexedBytes - RowBytes[victim[d].key]
      BY <2>1 DEF Shrinks
    <2>3. CASE pc[d] = "delete"
      <3>1. IndexedBytes - RowBytes[victim[d].key] <= used[d] - victim[d].size
        BY <2>3 DEF Settles
      <3>2. IndexedBytes' - RowBytes'[victim[d].key] <= used[d] - victim[d].size
        BY <1>1, <2>1, <2>2, <3>1
      <3> QED
        BY <2>3, <3>2 DEF Settles
    <2>4. CASE pc[d] = "remove"
      <3>1. IndexedBytes <= used[d] - victim[d].size /\ IndexedBytes' <= IndexedBytes
        BY <2>4 DEF Settles, Shrinks
      <3>2. IndexedBytes' <= used[d] - victim[d].size
        BY <1>1, <2>1, <3>1
      <3> QED
        BY <2>4, <3>2 DEF Settles
    <2> QED
      BY <1>4, <2>3, <2>4
  <1> QED
    BY <1>2, <1>3, <1>4 DEF Settles

\* A step of request c that adds nothing to the index and goes on to settle it
\* where c was to.
LEMMA SettlingKept ==
  ASSUME TypeOK, TypeOK', Located, Settling, Shrinks, phase' = phase, unswept => unswept',
         NEW c \in Callers,
         \A d \in Callers \ {c} : /\ pc'[d] = pc[d] /\ view'[d] = view[d]
                                  /\ used'[d] = used[d] /\ victim'[d] = victim[d],
         Settles(c) => unswept' \/ IndexedBytes' <= MaxBytes \/ Settles(c)'
  PROVE  Settling'
  <1>1. IndexedBytes \in Nat /\ IndexedBytes' \in Nat
    BY IndexedTyped, IndexedStaysTyped DEF TypeOK
  <1>2. IndexedBytes <= MaxBytes => IndexedBytes' <= MaxBytes
    BY <1>1, LimitAssumption DEF Shrinks
  <1>3. ASSUME NEW d \in Callers \ {c}, Settles(d) PROVE Settles(d)'
    BY <1>3, SettlesStay
  <1> QED
    BY <1>2, <1>3 DEF Settling

LEMMA SettlingStep == TypeOK /\ TypeOK' /\ Located /\ Sealing /\ Settling /\ [Next]_vars => Settling'
  <1> SUFFICES ASSUME TypeOK, TypeOK', Located, Sealing, Settling, [Next]_vars PROVE Settling'
    OBVIOUS
  <1> USE DEF disk, evictor, ghosts
  <1>a. ASSUME NEW c \in Callers, pc[c] \notin Evicting, NEW l, pc' = [pc EXCEPT ![c] = l],
               UNCHANGED <<phase, unswept, evictor>>, Shrinks
        PROVE  Settling'
    <2>1. ~ Settles(c)
      BY <1>a DEF Settles, Evicting
    <2>2. \A d \in Callers \ {c} : pc'[d] = pc[d]
      BY <1>a DEF TypeOK
    <2> QED
      BY <1>a, <2>1, <2>2, SettlingKept
  <1>b. ASSUME NEW c \in Callers, pc[c] \notin Evicting, NEW l, pc' = [pc EXCEPT ![c] = l],
               UNCHANGED <<phase, unswept, evictor, rows>>
        PROVE  Settling'
    BY <1>a, <1>b, NoneShrinks
  <1>c. ASSUME UNCHANGED <<unswept, rows, pc, evictor>>, phase' # "up" => unswept
        PROVE  Settling'
    <2>1. IndexedBytes' = IndexedBytes /\ RowBytes' = RowBytes
      BY <1>c, NoneShrinks
    <2> QED
      BY <1>c, <2>1 DEF Settling, Settles
  <1>1. ASSUME NEW c \in Callers, NEW k \in Keys, LookupSelect(c, k) PROVE Settling'
    <2>1. CASE rows[k] = None
      BY <1>1, <1>b, <2>1 DEF LookupSelect, Miss, Goto, Evicting
    <2>2. CASE rows[k] # None
      BY <1>1, <1>b, <2>2 DEF LookupSelect, Goto, Evicting
    <2> QED
      BY <2>1, <2>2
  <1>2. ASSUME NEW c \in Callers, LookupStat(c) PROVE Settling'
    BY <1>2, <1>b DEF LookupStat, StatResult, Goto, Evicting
  <1>3. ASSUME NEW c \in Callers, LookupDrop(c) PROVE Settling'
    <2>1. /\ pc[c] = "drop" /\ pc' = [pc EXCEPT ![c] = "missed"] /\ job[c].key \in Keys
          /\ UNCHANGED <<phase, unswept, evictor>>
      BY <1>3 DEF LookupDrop, Miss, Goto, Located
    <2>2. CASE rows' = [rows EXCEPT ![job[c].key] = None]
      <3>1. RowBytes'[job[c].key] = 0 /\ \A j \in Keys \ {job[c].key} : rows'[j] = rows[j]
        BY <2>1, <2>2 DEF RowBytes, TypeOK
      <3>2. RowBytes[job[c].key] \in Nat
        BY <2>1, IndexedTyped DEF TypeOK
      <3>3. Shrinks
        BY <2>1, <3>1, <3>2, OneShrinks
      <3> QED
        BY <1>a, <2>1, <3>3 DEF Evicting
    <2>3. CASE UNCHANGED rows
      BY <1>b, <2>1, <2>3 DEF Evicting
    <2> QED
      BY <1>3, <2>2, <2>3 DEF LookupDrop
  <1>4. ASSUME NEW c \in Callers, LookupTouch(c) PROVE Settling'
    <2>1. /\ pc[c] = "touch" /\ pc' = [pc EXCEPT ![c] = "hit"] /\ job[c].key \in Keys
          /\ UNCHANGED <<phase, unswept, evictor>>
      BY <1>4 DEF LookupTouch, Goto, Located
    <2>2. CASE rows[job[c].key] = None
      BY <1>4, <1>b, <2>1, <2>2 DEF LookupTouch, Evicting
    <2>3. CASE rows[job[c].key] # None
      <3>1. rows[job[c].key] \in Row /\ rows' = [rows EXCEPT ![job[c].key].accessed = clock]
        BY <1>4, <2>1, <2>3 DEF LookupTouch, TypeOK
      <3>2. rows'[job[c].key].size = rows[job[c].key].size /\ rows'[job[c].key] \in Row
        BY <2>1, <3>1 DEF TypeOK, Row
      <3>3. \A j \in Keys \ {job[c].key} : rows'[j] = rows[j]
        BY <3>1 DEF TypeOK
      <3>4. RowBytes'[job[c].key] = RowBytes[job[c].key]
        BY <2>1, <2>3, <3>2, NoneAssumption DEF RowBytes
      <3>5. RowBytes[job[c].key] \in Nat
        BY <2>1, IndexedTyped DEF TypeOK
      <3>6. Shrinks
        BY <2>1, <3>3, <3>4, <3>5, OneShrinks
      <3> QED
        BY <1>a, <2>1, <3>6 DEF Evicting
    <2> QED
      BY <2>2, <2>3
  <1>5. ASSUME NEW c \in Callers, LookupFails(c) PROVE Settling'
    BY <1>5, <1>b DEF LookupFails, Return, Goto, Evicting
  <1>6. ASSUME NEW c \in Callers, LeaseKey(c) PROVE Settling'
    BY <1>6, <1>b DEF LeaseKey, Goto, Evicting
  <1>7. ASSUME NEW c \in Callers, OpenObject(c) PROVE Settling'
    BY <1>7, <1>b DEF OpenObject, Goto, Evicting
  <1>8. ASSUME NEW c \in Callers, Release(c) PROVE Settling'
    BY <1>8, <1>b DEF Release, Return, Goto, Evicting
  <1>9. ASSUME NEW c \in Callers, LeaveMiss(c) PROVE Settling'
    BY <1>9, <1>b DEF LeaveMiss, Return, Goto, Evicting
  <1>10. ASSUME NEW c \in Callers, NEW s \in Sizes, NewPartial(c, s) PROVE Settling'
    BY <1>10, <1>b DEF NewPartial, CreatePartial, Goto, Evicting
  <1>11. ASSUME NEW c \in Callers, WritePartial(c) PROVE Settling'
    BY <1>11, <1>c DEF WritePartial, Settling
  <1>12. ASSUME NEW c \in Callers, AbandonPartial(c) PROVE Settling'
    BY <1>12, <1>b DEF AbandonPartial, Return, Goto, Evicting
  <1>13. ASSUME NEW c \in Callers, CommitRename(c) PROVE Settling'
    BY <1>13, <1>b DEF CommitRename, Goto, Evicting
  <1>14. ASSUME NEW c \in Callers, CommitRecord(c) PROVE Settling'
    <2>1. pc'[c] = "measure" /\ UNCHANGED <<phase, unswept>>
      BY <1>14 DEF CommitRecord, Goto, TypeOK
    <2> QED
      BY <2>1 DEF Settling, Settles
  <1>15. ASSUME NEW c \in Callers, CommitFails(c) PROVE Settling'
    BY <1>15, <1>b DEF CommitFails, Return, Goto, Evicting
  <1>16. ASSUME NEW c \in Callers, EvictMeasure(c) PROVE Settling'
    <2>1. UNCHANGED <<phase, rows>> /\ pc[c] = "measure"
      BY <1>16 DEF EvictMeasure, MeasureAs
    <2>2. IndexedBytes' = IndexedBytes /\ IndexedBytes \in Nat
      BY <2>1, NoneShrinks, IndexedTyped DEF TypeOK
    <2>3. CASE IndexedBytes > MaxBytes
      <3>1. used'[c] = IndexedBytes /\ pc'[c] = "select" /\ UNCHANGED unswept
        BY <1>16, <2>3 DEF EvictMeasure, MeasureAs, Goto, TypeOK
      <3>2. Settles(c)'
        BY <2>2, <3>1 DEF Settles
      <3> QED
        BY <2>1, <3>1, <3>2 DEF Settling
    <2>4. CASE ~(IndexedBytes > MaxBytes)
      <3>1. phase = "up"
        BY <1>16, RequestsUp DEF Evict
      <3> QED
        BY <2>1, <2>2, <2>4, <3>1, LimitAssumption DEF Settling
    <2> QED
      BY <2>3, <2>4
  <1>17. ASSUME NEW c \in Callers, EvictSelect(c) PROVE Settling'
    <2>1. /\ pc[c] = "select" /\ pc' = [pc EXCEPT ![c] = "scan"]
          /\ view' = [view EXCEPT ![c] =
               {[key |-> k, file |-> rows[k].file, size |-> rows[k].size,
                 accessed |-> rows[k].accessed] : k \in {k \in Keys : rows[k] # None}}]
          /\ UNCHANGED <<phase, rows, used, victim, unswept>>
      BY <1>17 DEF EvictSelect, Goto
    <2>2. \A e \in view'[c] : e.key \in Keys /\ RowBytes[e.key] = e.size
      BY <2>1 DEF TypeOK, RowBytes
    <2>3. /\ IndexedBytes' = IndexedBytes /\ RowBytes' = RowBytes /\ Shrinks
          /\ IndexedBytes \in Nat /\ RowBytes \in [Keys -> Nat] /\ used[c] \in Nat
      BY <2>1, NoneShrinks, IndexedTyped DEF TypeOK
    <2>4. /\ pc'[c] = "scan" /\ used'[c] = used[c]
          /\ \A d \in Callers \ {c} : pc'[d] = pc[d] /\ view'[d] = view[d]
      BY <2>1 DEF TypeOK
    <2>5. ASSUME Settles(c) PROVE Settles(c)'
      <3>1. IndexedBytes <= used[c]
        BY <2>1, <2>5 DEF Settles
      <3>2. \A e \in view'[c] : IndexedBytes' - RowBytes'[e.key] <= used'[c] - e.size
        BY <2>2, <2>3, <2>4, <3>1
      <3> QED
        BY <2>3, <2>4, <3>1, <3>2 DEF Settles
    <2> QED
      BY <2>1, <2>3, <2>4, <2>5, SettlingKept
  <1>18. ASSUME NEW c \in Callers, EvictScan(c) PROVE Settling'
    <2>1. PICK e \in view[c] : IF Leased(e) THEN SkipTo(c, view[c] \ {e}, e) ELSE Choose(c, e)
      BY <1>18 DEF EvictScan, Scan
    <2>2. pc[c] = "scan" /\ UNCHANGED <<phase, rows, used, unswept>>
      BY <1>18 DEF EvictScan, Scan
    <2>3. IndexedBytes' = IndexedBytes /\ RowBytes' = RowBytes /\ Shrinks
      BY <2>2, NoneShrinks
    <2>4. CASE Leased(e)
      <3>1. /\ pc' = pc /\ victim' = victim /\ view'[c] = view[c] \ {e}
            /\ \A d \in Callers \ {c} : view'[d] = view[d]
        BY <2>1, <2>4 DEF SkipTo, TypeOK
      <3>2. Settles(c) => Settles(c)'
        BY <2>2, <2>3, <3>1 DEF Settles
      <3> QED
        BY <2>2, <2>3, <3>1, <3>2, SettlingKept
    <2>5. CASE ~Leased(e)
      <3>1. /\ pc'[c] = "delete" /\ victim'[c] = e
            /\ \A d \in Callers \ {c} : pc'[d] = pc[d] /\ view'[d] = view[d] /\ victim'[d] = victim[d]
        BY <2>1, <2>5 DEF Choose, Goto, TypeOK
      <3>2. Settles(c) => Settles(c)'
        BY <2>1, <2>2, <2>3, <3>1 DEF Settles
      <3> QED
        BY <2>2, <2>3, <3>1, <3>2, SettlingKept
    <2> QED
      BY <2>4, <2>5
  <1>19. ASSUME NEW c \in Callers, EvictGivesUp(c) PROVE Settling'
    BY <1>19 DEF EvictGivesUp, Settling
  <1>20. ASSUME NEW c \in Callers, EvictDelete(c) PROVE Settling'
    <2>1. /\ pc[c] = "delete" /\ pc' = [pc EXCEPT ![c] = "remove"]
          /\ rows' = [rows EXCEPT ![victim[c].key] = None]
          /\ UNCHANGED <<phase, evictor, unswept>>
      BY <1>20 DEF EvictDelete, Goto
    <2> DEFINE k == victim[c].key
    <2>2. k \in Keys /\ victim[c].size \in Nat
      BY <2>1 DEF Located, Entry
    <2>3. RowBytes'[k] = 0 /\ \A j \in Keys \ {k} : rows'[j] = rows[j]
      BY <2>1, <2>2 DEF RowBytes, TypeOK
    <2>4. /\ IndexedBytes \in Nat /\ RowBytes[k] \in Nat /\ IndexedBytes' \in Nat
          /\ used[c] \in Nat
      BY <2>2, IndexedTyped, IndexedStaysTyped DEF TypeOK
    <2>5. Shrinks
      BY <2>2, <2>3, <2>4, OneShrinks
    <2>6. /\ pc'[c] = "remove" /\ \A d \in Callers \ {c} : pc'[d] = pc[d]
      BY <2>1 DEF TypeOK
    <2>7. ASSUME Settles(c) PROVE Settles(c)'
      <3>1. IndexedBytes - RowBytes[k] <= used[c] - victim[c].size
        BY <2>1, <2>7 DEF Settles
      <3>2. IndexedBytes' - RowBytes'[k] <= IndexedBytes - RowBytes[k]
        BY <2>2, <2>5 DEF Shrinks
      <3>3. IndexedBytes' <= used[c] - victim[c].size
        BY <2>2, <2>3, <2>4, <3>1, <3>2
      <3> QED
        BY <2>1, <2>6, <3>3 DEF Settles
    <2> QED
      BY <2>1, <2>5, <2>6, <2>7, SettlingKept
  <1>21. ASSUME NEW c \in Callers, EvictRemove(c) PROVE Settling'
    <2>1. pc[c] = "remove" /\ UNCHANGED <<phase, rows, unswept>>
      BY <1>21 DEF EvictRemove
    <2>2. victim[c].size \in Nat /\ used[c] \in Nat /\ IndexedBytes \in Nat
      BY <2>1, IndexedTyped DEF Located, Entry, TypeOK
    <2>3. Shrinks /\ IndexedBytes' = IndexedBytes
      BY <2>1, NoneShrinks
    <2>4. Settles(c) => IndexedBytes <= used[c] - victim[c].size
      BY <2>1 DEF Settles
    <2>5. CASE used[c] - victim[c].size > MaxBytes
      <3>1. /\ pc' = [pc EXCEPT ![c] = "select"] /\ UNCHANGED view
            /\ used' = [used EXCEPT ![c] = used[c] - victim[c].size]
            /\ victim' = [victim EXCEPT ![c] = None]
        BY <1>21, <2>5 DEF EvictRemove, Goto
      <3>2. /\ pc'[c] = "select" /\ used'[c] = used[c] - victim[c].size
            /\ \A d \in Callers \ {c} : pc'[d] = pc[d] /\ used'[d] = used[d] /\ victim'[d] = victim[d]
        BY <3>1 DEF TypeOK
      <3>3. Settles(c) => Settles(c)'
        BY <2>3, <2>4, <3>2 DEF Settles
      <3> QED
        BY <2>1, <2>3, <3>1, <3>2, <3>3, SettlingKept
    <2>6. CASE ~(used[c] - victim[c].size > MaxBytes)
      <3>1. Settles(c) => IndexedBytes' <= MaxBytes
        BY <2>2, <2>3, <2>4, <2>6, LimitAssumption
      <3>2. \A d \in Callers \ {c} : /\ pc'[d] = pc[d] /\ view'[d] = view[d]
                                    /\ used'[d] = used[d] /\ victim'[d] = victim[d]
        BY <1>21, <2>6 DEF EvictRemove, ForgetPass, Return, Goto, TypeOK
      <3> QED
        BY <2>1, <2>3, <3>1, <3>2, SettlingKept
    <2> QED
      BY <2>5, <2>6
  <1>22. ASSUME NEW c \in Callers, EvictFails(c) PROVE Settling'
    BY <1>22 DEF EvictFails, Settling
  <1>23. ASSUME Start PROVE Settling'
    BY <1>23, <1>c DEF Start, Settling
  <1>24. ASSUME RemovePartials PROVE Settling'
    BY <1>24, <1>c DEF RemovePartials, Purge, Done, Settling
  <1>25. ASSUME ReconcileRows PROVE Settling'
    BY <1>25 DEF ReconcileRows, Done, Present, Settling
  <1>26. ASSUME ReconcileObjects PROVE Settling'
    BY <1>26, <1>c DEF ReconcileObjects, Done, Settling
  <1>27. ASSUME Crash PROVE Settling'
    BY <1>27 DEF Crash, Settling
  <1>28. ASSUME NEW f \in Files, DamageObject(f) PROVE Settling'
    BY <1>28, <1>c DEF DamageObject, Settling
  <1>29. ASSUME Tick PROVE Settling'
    BY <1>29, <1>c DEF Tick, Settling
  <1>30. CASE UNCHANGED vars
    BY <1>30, <1>c DEF vars, Settling
  <1> QED
    BY <1>1, <1>2, <1>3, <1>4, <1>5, <1>6, <1>7, <1>8, <1>9, <1>10, <1>11, <1>12, <1>13, <1>14, <1>15, <1>16, <1>17, <1>18, <1>19, <1>20, <1>21, <1>22, <1>23, <1>24, <1>25, <1>26, <1>27, <1>28, <1>29, <1>30 DEF Next, Lookup, Lease, Fill, Commit, Evict, NewAudioManager, Reconcile

\* When no fill and no eviction is under way the index is within the limit,
\* unless an eviction ended early since it last was (audio.go:163-180, 197-236):
\* commits and evictions that overlap leave nothing over, for every limit,
\* number of requests and sizes.
THEOREM CommitsKeepLimit == Spec => []SweptWithinLimit
  <1>1. Init => Settling
    <2>1. ASSUME Init PROVE IndexedBytes = 0
      BY <2>1, FiniteAssumption, SumOfZeros DEF Init, IndexedBytes, RowBytes
    <2>2. 0 <= MaxBytes
      BY LimitAssumption
    <2> QED
      BY <2>1, <2>2 DEF Init, Settling
  <1>2. Settling => SweptWithinLimit
    BY DEF Settling, Settles, SweptWithinLimit, AtRest, Filling, Evicting
  <1> QED
    BY <1>1, <1>2, SettlingStep, TypeCorrect, SealingHolds, PTL DEF Spec
=================================================================================
