------------------------------- MODULE LoginProofs -------------------------------
(***************************************************************************)
(* What SourceLogin keeps for any number of requests, keys and sessions,   *)
(* and, at the end, SetupPage for any number of codes.                     *)
(*                                                                         *)
(* SavedIsIssued is not inductive: it needs to know what a login that is   *)
(* about to save has found, which needs to know what is in the jar while   *)
(* it holds the mutex. IInv says so stage by stage.                        *)
(***************************************************************************)
EXTENDS SourceLogin, SetupPage, SequenceTheorems, TLAPS

Holding == {"locked", "account", "read"}

\* The mutex is held by the caller that is at one of these stages.
Held == \A c \in Callers : mu = c <=> job[c].at \in Holding

\* The subject of a request is of the kind it is about.
Subjects ==
  \A c \in Callers :
    /\ At(c, "lock", {"check"}) \/ At(c, "locked", {"check"}) => job[c].subject \in Keys
    /\ At(c, "lock", {"import", "profile"}) \/ At(c, "locked", {"import", "profile"}) \/ job[c].at = "sync"
         => job[c].subject \in Sessions
    /\ At(c, "lock", {"call"}) \/ At(c, "locked", {"call"}) => FALSE

\* A key whose login is being verified or saved stays granted to one session.
Granted(k) == k \in Keys /\ qr[k] \in {"confirmed", "spent"} /\ grant[k] \in issued
Confirmed == \A k \in Keys : qr[k] = "confirmed" => grant[k] \in issued

\* While a login is verified, the jar has the session it is about, if it was given
\* one; and once the source has answered for it, one that the source gave out.
Verifying ==
  \A c \in Callers : job[c].at \in {"account", "read"} =>
    /\ \/ job[c].op = "check" /\ Granted(job[c].subject)
       \/ job[c].op \in {"import", "profile"} /\ job[c].at = "account" /\ job[c].subject \in Sessions
    /\ ~job[c].overtaken =>
         /\ job[c].op = "check" /\ ~job[c].bare => jar = grant[job[c].subject]
         /\ job[c].op # "check" => jar = job[c].subject
         /\ job[c].at = "read" => jar \in issued \cup {None}

\* What a login is about to save is what it has verified.
Found ==
  \A c \in Callers : job[c].at = "save" =>
    /\ job[c].found \in Sessions
    /\ ~job[c].overtaken => job[c].found \in issued
    /\ job[c].op = "check" =>
         /\ Granted(job[c].subject)
         /\ ~job[c].overtaken /\ ~job[c].bare => job[c].found = grant[job[c].subject]

\* Nothing is under way while the process is down.
Running == \A c \in Callers : job[c] # Idle => secret \in 1..MaxSecrets

IInv ==
  /\ TypeOK /\ Held /\ Subjects /\ Confirmed /\ Verifying /\ Found /\ Running
  /\ SavedIsIssued

LEMMA Start == Init => IInv
<1> SUFFICES ASSUME Init PROVE IInv
  OBVIOUS
<1>1. \A c \in Callers : job[c] = Idle /\ job[c].at = "idle"
  BY DEF Init, Idle, Job
<1>2. TypeOK
  BY SecretsAssumption DEF Init, TypeOK, Idle, Job, Jobs
<1>3. Held /\ Subjects /\ Confirmed /\ Verifying /\ Found
  BY <1>1, NoneAssumption DEF Init, Held, Holding, Subjects, At, Confirmed, Verifying, Found
<1> QED
  BY <1>1, <1>2, <1>3 DEF Init, IInv, Running, SavedIsIssued

\* A job that a step gives to a caller is one.
LEMMA JobsKept ==
  ASSUME TypeOK, NEW c \in Callers, NEW j \in Jobs, job' = [job EXCEPT ![c] = j]
  PROVE  job' \in [Callers -> Jobs] /\ job'[c] = j /\ \A d \in Callers \ {c} : job'[d] = job[d]
BY DEF TypeOK

LEMMA IdleIsJob == Idle \in Jobs
BY DEF Idle, Job, Jobs

\* Steps that end a request and leave the jar and the row alone.
LEMMA FinishKeeps ==
  ASSUME IInv, NEW c \in Callers, Finish(c),
         mu' = IF mu = c THEN None ELSE mu, UNCHANGED <<jar, stored, secret, grant, issued, accepted>>,
         qr' \in [Keys -> {"unused", "waiting", "confirmed", "spent"}],
         \A k \in Keys : qr[k] \in {"confirmed", "spent"} => qr'[k] = qr[k],
         \A k \in Keys : qr'[k] = "confirmed" => qr[k] = "confirmed"
  PROVE  IInv'
<1> USE DEF IInv
<1>1. job' \in [Callers -> Jobs] /\ job'[c] = Idle /\ \A d \in Callers \ {c} : job'[d] = job[d]
  BY JobsKept, IdleIsJob DEF Finish
<1>2. job'[c].at = "idle"
  BY <1>1 DEF Idle, Job
<1>3. TypeOK'
  BY <1>1 DEF TypeOK, stored
<1>4. Held'
  BY <1>1, <1>2, NoneAssumption DEF Held, Holding, TypeOK
<1>5. Subjects' /\ Confirmed' /\ Verifying' /\ Found'
  BY <1>1, <1>2 DEF Subjects, At, Confirmed, Verifying, Found, Granted, stored
<1>6. Running' /\ SavedIsIssued'
  BY <1>1 DEF Running, SavedIsIssued, stored
<1> QED BY <1>3, <1>4, <1>5, <1>6

\* Every step keeps the invariant.
LEMMA Step == IInv /\ [Next]_vars => IInv'
<1> SUFFICES ASSUME IInv, [Next]_vars PROVE IInv'
  OBVIOUS
<1> USE DEF IInv
<1>1. CASE UNCHANGED vars
  BY <1>1 DEF vars, source, stored, TypeOK, Held, Subjects, At, Confirmed, Verifying, Found, Granted,
              Running, SavedIsIssued
<1>2. ASSUME NEW k \in Keys, Confirm(k) \/ Expire(k) PROVE IInv'
  <2>1. UNCHANGED <<jar, mu, job, stored, secret>> /\ issued \subseteq issued' /\ TypeOK'
    BY <1>2 DEF Confirm, Expire, TypeOK, stored
  <2>2. Confirmed'
    BY <1>2 DEF Confirm, Expire, Confirmed, TypeOK
  <2>3. \A x : Granted(x) => Granted(x)' /\ grant'[x] = grant[x]
    BY <1>2 DEF Confirm, Expire, Granted, TypeOK
  <2>4. Held' /\ Subjects' /\ Running' /\ SavedIsIssued'
    BY <2>1 DEF Held, Subjects, At, Running, SavedIsIssued, stored
  <2>5. Verifying' /\ Found'
    BY <2>1, <2>3 DEF Verifying, Found
  <2> QED BY <2>1, <2>2, <2>4, <2>5
<1>3. ASSUME NEW s \in Sessions, Revoke(s) PROVE IInv'
  BY <1>3 DEF Revoke, stored, TypeOK, Held, Subjects, At, Confirmed, Verifying, Found, Granted,
              Running, SavedIsIssued
<1>4. CASE Crash
  <2>1. \A c \in Callers : job'[c] = Idle /\ job'[c].at = "idle"
    BY <1>4 DEF Crash, Idle, Job
  <2>2. TypeOK'
    BY <1>4, IdleIsJob, SecretsAssumption DEF Crash, TypeOK, source, stored
  <2>3. Held' /\ Subjects' /\ Verifying' /\ Found' /\ Running'
    BY <1>4, <2>1, NoneAssumption DEF Crash, Held, Holding, Subjects, At, Verifying, Found, Running
  <2> QED BY <1>4, <2>2, <2>3 DEF Crash, source, stored, Confirmed, SavedIsIssued
<1>5. CASE StartWithKey \/ StartWithoutKey \/ StartTorn
  <2>1. UNCHANGED <<source, jar, mu, job, row>> /\ secret = 0
    BY <1>5 DEF StartWithKey, StartWithoutKey, Generate, StartTorn, Up
  <2>2. TypeOK'
    BY <1>5, <2>1, SecretsAssumption
       DEF StartWithKey, StartWithoutKey, Generate, StartTorn, Up, TypeOK, source
  <2>3. Running'
    BY <2>1 DEF Running
  <2> QED BY <2>1, <2>2, <2>3 DEF source, Held, Subjects, At, Confirmed, Verifying, Found, Granted, SavedIsIssued
<1>6. ASSUME NEW c \in Callers, Asked(c) PROVE IInv'
  <2> DEFINE Fit(j) == /\ j \in Jobs /\ j.at \in {"lock", "load"}
                       /\ (j.op = "check" => j.subject \in Keys)
                       /\ (j.op \in {"import", "profile"} /\ j.at = "lock" => j.subject \in Sessions)
                       /\ (j.op = "call" => j.at = "load")
  <2>a. ASSUME Begin(c) PROVE \E j : Fit(j) /\ Arrive(c, j)
    <3>1. Fit(Job("lock", "begin", None))
      BY DEF Job, Jobs
    <3> QED BY <2>a, <3>1 DEF Begin
  <2>b. ASSUME NEW k \in Keys, Poll(c, k) PROVE \E j : Fit(j) /\ Arrive(c, j)
    <3>1. Fit(Job("lock", "check", k))
      BY DEF Job, Jobs
    <3> QED BY <2>b, <3>1 DEF Poll
  <2>c. ASSUME NEW s \in Sessions, ImportCookie(c, s) PROVE \E j : Fit(j) /\ Arrive(c, j)
    <3>1. Fit(Job("lock", "import", s))
      BY DEF Job, Jobs
    <3> QED BY <2>c, <3>1 DEF ImportCookie
  <2>d. ASSUME LibraryCall(c) PROVE \E j : Fit(j) /\ Arrive(c, j)
    <3>1. PICK o \in {"profile", "call"} : Arrive(c, Job("load", o, None))
      BY <2>d DEF LibraryCall
    <3>2. Fit(Job("load", o, None))
      BY DEF Job, Jobs
    <3> QED BY <3>1, <3>2
  <2>e. PICK j : Fit(j) /\ Arrive(c, j)
    BY <1>6, <2>a, <2>b, <2>c, <2>d DEF Asked
  <2>1. Arrive(c, j) /\ Fit(j)
    BY <2>e
  <2>2. job' \in [Callers -> Jobs] /\ job'[c] = j /\ \A d \in Callers \ {c} : job'[d] = job[d]
    BY <2>1, JobsKept DEF Arrive
  <2>3. job[c].at = "idle"
    BY <2>1 DEF Arrive, Idle, Job
  <2>4. UNCHANGED <<source, jar, mu, stored, secret>> /\ secret \in 1..MaxSecrets
    BY <2>1 DEF Arrive, TypeOK
  <2>5. TypeOK' /\ Confirmed' /\ SavedIsIssued' /\ Running'
    BY <2>2, <2>4 DEF TypeOK, Confirmed, SavedIsIssued, Running, source, stored
  <2>6. Held' /\ Verifying' /\ Found'
    BY <2>1, <2>2, <2>3, <2>4 DEF Held, Holding, Verifying, Found, Granted, source
  <2>7. Subjects'
    BY <2>1, <2>2 DEF Subjects, At
  <2> QED BY <2>5, <2>6, <2>7
<1>7. ASSUME NEW c \in Callers, Lock(c) PROVE IInv'
  <2> DEFINE j == [job[c] EXCEPT !.at = "locked"]
  <2>1. j \in Jobs /\ job' = [job EXCEPT ![c] = j]
    BY <1>7 DEF Lock, Goto, TypeOK, Jobs
  <2>2. job' \in [Callers -> Jobs] /\ job'[c] = j /\ \A d \in Callers \ {c} : job'[d] = job[d]
    BY <2>1, JobsKept
  <2>3. j.at = "locked" /\ j.op = job[c].op /\ j.subject = job[c].subject /\ job[c].at = "lock"
    BY <1>7 DEF Lock, TypeOK, Jobs
  <2>4. UNCHANGED <<source, jar, stored, secret>> /\ mu = None /\ mu' = c /\ job[c] # Idle
    BY <1>7 DEF Lock, Idle, Job
  <2> HIDE DEF j
  <2>5. TypeOK' /\ Confirmed' /\ SavedIsIssued' /\ Running'
    BY <2>2, <2>4 DEF TypeOK, Confirmed, SavedIsIssued, Running, source, stored
  <2>6. Held'
    BY <2>2, <2>3, <2>4, NoneAssumption DEF Held, Holding
  <2>7. Verifying' /\ Found' /\ Subjects'
    BY <2>2, <2>3, <2>4 DEF Verifying, Found, Granted, Subjects, At, source
  <2> QED BY <2>5, <2>6, <2>7
<1>8. ASSUME NEW c \in Callers, Handle(c) PROVE IInv'
  <2>1. CASE CreateQRCode(c)
    <3>1. mu = c
      BY <2>1 DEF CreateQRCode, At, Held, Holding
    <3> QED BY <2>1, <3>1, FinishKeeps DEF CreateQRCode, TypeOK, stored
  <2>2. CASE CallFails(c) \/ CheckPending(c) \/ AccountRefused(c) \/ NoMusicU(c)
    <3>1. mu = c
      BY <2>2 DEF CallFails, CheckPending, AccountRefused, RefusedTo, NoMusicU, At, Held, Holding
    <3> QED BY <2>2, <3>1, FinishKeeps
         DEF CallFails, CheckPending, AccountRefused, RefusedTo, NoMusicU, source, TypeOK
  <2>3. CASE SaveFails(c) \/ LoadFails(c)
    <3>1. mu # c
      BY <2>3 DEF SaveFails, LoadFails, Held, Holding
    <3> QED BY <2>3, <3>1, FinishKeeps DEF SaveFails, LoadFails, source, TypeOK
  <2>4. CASE CheckGranted(c) \/ Populate(c)
    <3> DEFINE told(b) == [job[c] EXCEPT !.at = "account", !.bare = b]
    <3>1. PICK b \in BOOLEAN :
            /\ told(b) \in Jobs /\ job' = [job EXCEPT ![c] = told(b)]
            /\ b \/ At(c, "locked", {"import", "profile"}) \/ jar' = grant[job[c].subject]
      <4>1. job[c] \in Jobs /\ (told(job[c].bare) = [job[c] EXCEPT !.at = "account"])
        BY DEF TypeOK, Jobs
      <4>2. job[c].bare \in BOOLEAN /\ \A b \in BOOLEAN : told(b) \in Jobs
        BY <4>1 DEF Jobs
      <4>3. CASE Populate(c) \/ (Goto(c, "account") /\ CheckGranted(c) /\ jar' = grant[job[c].subject])
        <5>1. job' = [job EXCEPT ![c] = told(job[c].bare)]
          BY <4>1, <4>3 DEF Populate, Goto, TypeOK
        <5>2. At(c, "locked", {"import", "profile"}) \/ jar' = grant[job[c].subject]
          BY <4>3 DEF Populate
        <5> QED BY <4>2, <5>1, <5>2
      <4>4. CASE job' = [job EXCEPT ![c].at = "account", ![c].bare = TRUE]
        <5>1. job' = [job EXCEPT ![c] = told(TRUE)]
          BY <4>1, <4>4 DEF TypeOK
        <5> QED BY <4>2, <5>1
      <4>5. \/ Populate(c) \/ (Goto(c, "account") /\ CheckGranted(c) /\ jar' = grant[job[c].subject])
            \/ job' = [job EXCEPT ![c].at = "account", ![c].bare = TRUE]
        <5>1. CheckGranted(c) => \/ jar' = grant[job[c].subject] /\ Goto(c, "account")
                                 \/ job' = [job EXCEPT ![c].at = "account", ![c].bare = TRUE]
          BY ONLY DEF CheckGranted
        <5> QED BY ONLY <2>4, <5>1
      <4> HIDE DEF told
      <4> QED BY ONLY <4>3, <4>4, <4>5
    <3>2. PICK j : j = told(b)
      OBVIOUS
    <3>3. job' \in [Callers -> Jobs] /\ job'[c] = j /\ \A d \in Callers \ {c} : job'[d] = job[d]
      BY <3>1, <3>2, JobsKept
    <3>4. j.at = "account" /\ j.op = job[c].op /\ j.subject = job[c].subject /\ j.bare = b
          /\ job[c].at = "locked" /\ job[c] # Idle
      BY <2>4, <3>2 DEF CheckGranted, Populate, At, TypeOK, Jobs, Idle, Job
    <3> HIDE DEF told
    <3>5. UNCHANGED <<issued, accepted, grant, mu, stored, secret>> /\ mu = c
      BY <2>4, <3>4 DEF CheckGranted, Populate, source, Held, Holding
    <3>6. qr' = qr \/ (CheckGranted(c) /\ qr' = [qr EXCEPT ![job[c].subject] = "spent"])
      BY <2>4 DEF CheckGranted, Populate, source
    <3>7. \A x : Granted(x) => Granted(x)'
      BY <3>5, <3>6 DEF CheckGranted, Granted, TypeOK
    <3>8. Confirmed' /\ qr' \in [Keys -> {"unused", "waiting", "confirmed", "spent"}]
      BY <3>5, <3>6 DEF CheckGranted, Confirmed, TypeOK
    <3>9. /\ jar' \in Sessions \cup {None}
          /\ \/ j.op = "check" /\ Granted(j.subject) /\ (~j.bare => jar' = grant[j.subject])
             \/ j.op \in {"import", "profile"} /\ j.subject \in Sessions /\ jar' = j.subject
      <4>1. CASE CheckGranted(c)
        <5>1. j.op = "check" /\ Granted(j.subject)
          BY <3>4, <4>1 DEF CheckGranted, At, Subjects, Confirmed, Granted
        <5>2. jar' \in {jar, grant[job[c].subject]}
          BY <4>1 DEF CheckGranted
        <5> QED BY <3>1, <3>4, <5>1, <5>2 DEF At, Granted, TypeOK
      <4>2. CASE Populate(c)
        BY <3>4, <4>2 DEF Populate, At, Subjects
      <4> QED BY <2>4, <4>1, <4>2
    <3>10. TypeOK' /\ SavedIsIssued' /\ Running'
      BY <3>3, <3>4, <3>5, <3>8, <3>9 DEF TypeOK, SavedIsIssued, Running, stored
    <3>11. Held' /\ \A d \in Callers \ {c} : job[d].at \notin Holding
      BY <3>3, <3>4, <3>5 DEF Held, Holding
    <3>12. Verifying' /\ Found' /\ Subjects'
      BY <3>3, <3>4, <3>5, <3>7, <3>9, <3>11 DEF Verifying, Found, Subjects, At, Holding, Granted
    <3> QED BY <3>8, <3>10, <3>11, <3>12
  <2>5. CASE Account(c)
    <3>1. mu = c /\ job[c].at = "account" /\ jar \in issued \cup {None}
      BY <2>5 DEF Account, AccountKnown, Held, Holding, TypeOK
    <3>2. UNCHANGED <<source, jar, stored, secret>>
      BY <2>5 DEF Account, AccountKnown
    <3>3. CASE job[c].op = "profile"
      BY <2>5, <3>1, <3>2, <3>3, FinishKeeps DEF Account, AccountKnown, source, TypeOK
    <3>4. CASE job[c].op = "check"
      <4> DEFINE j == [job[c] EXCEPT !.at = "read"]
      <4>1. j \in Jobs /\ job' = [job EXCEPT ![c] = j] /\ mu' = mu
        BY <2>5, <3>4 DEF Account, AccountKnown, Goto, TypeOK, Jobs
      <4>2. job' \in [Callers -> Jobs] /\ job'[c] = j /\ \A d \in Callers \ {c} : job'[d] = job[d]
        BY <4>1, JobsKept
      <4>3. j.at = "read" /\ j.op = "check" /\ j.subject = job[c].subject /\ j.bare = job[c].bare
            /\ j.overtaken = job[c].overtaken /\ job[c] # Idle
        BY <3>1, <3>4 DEF TypeOK, Jobs, Idle, Job
      <4> HIDE DEF j
      <4>4. TypeOK' /\ Confirmed' /\ SavedIsIssued' /\ Running' /\ Held'
        BY <3>1, <3>2, <4>1, <4>2, <4>3
           DEF TypeOK, Confirmed, SavedIsIssued, Running, Held, Holding, source, stored
      <4>5. Verifying' /\ Found' /\ Subjects'
        BY <3>1, <3>2, <3>4, <4>2, <4>3 DEF Verifying, Found, Granted, Subjects, At, source
      <4> QED BY <4>4, <4>5
    <3>5. CASE job[c].op = "import"
      <4> DEFINE j == [job[c] EXCEPT !.at = "save", !.found = job[c].subject]
      <4>1. job[c].subject \in Sessions
        BY <3>1, <3>5 DEF Verifying
      <4>2. j \in Jobs /\ job' = [job EXCEPT ![c] = j] /\ mu' = None
        BY <2>5, <3>5, <4>1 DEF Account, AccountKnown, TypeOK, Jobs
      <4>3. job' \in [Callers -> Jobs] /\ job'[c] = j /\ \A d \in Callers \ {c} : job'[d] = job[d]
        BY <4>2, JobsKept
      <4>4. j.at = "save" /\ j.op = "import" /\ j.found = job[c].subject
            /\ j.overtaken = job[c].overtaken /\ job[c] # Idle
        BY <3>1, <3>5 DEF TypeOK, Jobs, Idle, Job
      <4> HIDE DEF j
      <4>5. TypeOK' /\ Confirmed' /\ SavedIsIssued' /\ Running' /\ Held'
        BY <3>1, <3>2, <4>2, <4>3, <4>4, NoneAssumption
           DEF TypeOK, Confirmed, SavedIsIssued, Running, Held, Holding, source, stored
      <4>6. ~job[c].overtaken => jar = job[c].subject
        BY <3>1, <3>5 DEF Verifying
      <4>7. Verifying' /\ Found' /\ Subjects'
        BY <3>1, <3>2, <4>1, <4>3, <4>4, <4>6, NoneAssumption
           DEF Verifying, Found, Granted, Subjects, At, source, TypeOK
      <4> QED BY <4>5, <4>7
    <3> QED BY <2>5, <3>3, <3>4, <3>5 DEF Account, AccountKnown
  <2>6. CASE ReadJar(c)
    <3> DEFINE j == [job[c] EXCEPT !.at = "save", !.found = jar]
    <3>1. mu = c /\ mu' = None /\ job[c].at = "read" /\ jar # None /\ UNCHANGED <<source, jar, stored, secret>>
      BY <2>6 DEF ReadJar, ReadJarAs, Held, Holding
    <3>2. /\ jar \in Sessions /\ job[c].op = "check" /\ Granted(job[c].subject)
          /\ ~job[c].overtaken => jar \in issued /\ (~job[c].bare => jar = grant[job[c].subject])
      BY <3>1 DEF Verifying, TypeOK
    <3>3. j \in Jobs /\ job' = [job EXCEPT ![c] = j]
      BY <2>6, <3>2 DEF ReadJar, ReadJarAs, TypeOK, Jobs
    <3>4. job' \in [Callers -> Jobs] /\ job'[c] = j /\ \A d \in Callers \ {c} : job'[d] = job[d]
      BY <3>3, JobsKept
    <3>5. j.at = "save" /\ j.op = "check" /\ j.found = jar /\ j.subject = job[c].subject
          /\ j.bare = job[c].bare /\ j.overtaken = job[c].overtaken /\ job[c] # Idle
      BY <3>1, <3>2 DEF TypeOK, Jobs, Idle, Job
    <3> HIDE DEF j
    <3>6. TypeOK' /\ Confirmed' /\ SavedIsIssued' /\ Running' /\ Held'
      BY <3>1, <3>4, <3>5, NoneAssumption
         DEF TypeOK, Confirmed, SavedIsIssued, Running, Held, Holding, source, stored
    <3>7. Verifying' /\ Found' /\ Subjects'
      BY <3>1, <3>2, <3>4, <3>5 DEF Verifying, Found, Granted, Subjects, At, source
    <3> QED BY <3>6, <3>7
  <2>7. CASE Save(c)
    <3>1. job[c].at = "save" /\ Finish(c) /\ row' = Sealed(job[c].found, secret, job[c].overtaken)
          /\ UNCHANGED <<source, jar, mu, keyfile, made, secret>>
      BY <2>7 DEF Save
    <3>2. job' \in [Callers -> Jobs] /\ job'[c] = Idle /\ \A d \in Callers \ {c} : job'[d] = job[d]
      BY <3>1, JobsKept, IdleIsJob DEF Finish
    <3>3. job[c] # Idle /\ Idle.at = "idle"
      BY <3>1 DEF Idle, Job
    <3>4. secret \in 1..MaxSecrets /\ job[c].found \in Sessions /\ job[c].overtaken \in BOOLEAN
      BY <3>1, <3>3 DEF Running, Found, TypeOK, Jobs
    <3>5. row' \in Rows /\ row'.session = job[c].found /\ row'.overtaken = job[c].overtaken
      BY <3>1, <3>4 DEF Sealed, Rows
    <3>6. TypeOK' /\ SavedIsIssued'
      BY <3>1, <3>2, <3>5 DEF TypeOK, SavedIsIssued, Found, source
    <3>7. Held' /\ Subjects' /\ Confirmed' /\ Verifying' /\ Found' /\ Running'
      BY <3>1, <3>2, <3>3 DEF Held, Holding, Subjects, At, Confirmed, Verifying, Found, Granted, Running, source
    <3> QED BY <3>6, <3>7
  <2>8. CASE LoadCookie(c)
    <3> DEFINE j == [job[c] EXCEPT !.subject = row.session, !.at = IF job[c].op = "profile" THEN "lock" ELSE "sync"]
    <3>1. row \in Rows /\ row.session \in Sessions /\ job[c].at = "load"
          /\ UNCHANGED <<source, jar, mu, stored, secret>>
      BY <2>8 DEF LoadCookie, Readable, TypeOK, Rows
    <3>2. j \in Jobs /\ job' = [job EXCEPT ![c] = j]
      BY <2>8, <3>1 DEF LoadCookie, TypeOK, Jobs
    <3>3. job' \in [Callers -> Jobs] /\ job'[c] = j /\ \A d \in Callers \ {c} : job'[d] = job[d]
      BY <3>2, JobsKept
    <3>4. j.at = (IF job[c].op = "profile" THEN "lock" ELSE "sync") /\ j.op = job[c].op
          /\ j.subject = row.session /\ job[c] # Idle
      BY <3>1 DEF TypeOK, Jobs, Idle, Job
    <3> HIDE DEF j
    <3>5. TypeOK' /\ Confirmed' /\ SavedIsIssued' /\ Running' /\ Held'
      BY <3>1, <3>3, <3>4 DEF TypeOK, Confirmed, SavedIsIssued, Running, Held, Holding, source, stored
    <3>6. Verifying' /\ Found' /\ Subjects'
      BY <3>1, <3>3, <3>4 DEF Verifying, Found, Granted, Subjects, At, source
    <3> QED BY <3>5, <3>6
  <2>9. CASE SyncSDKCookie(c)
    <3>1. job[c].at = "sync" /\ jar' = job[c].subject /\ job[c].subject \in Sessions
          /\ UNCHANGED <<source, mu, stored, secret>>
      BY <2>9 DEF SyncSDKCookie, Subjects
    <3>2. job' \in [Callers -> Jobs] /\ job'[c] = Idle /\ Idle.at = "idle" /\ mu # c
      BY <2>9, <3>1, IdleIsJob DEF SyncSDKCookie, TypeOK, Jobs, Held, Holding, Idle, Job
    <3>3. \A d \in Callers \ {c} :
            /\ job'[d].at = job[d].at /\ job'[d].op = job[d].op /\ job'[d].found = job[d].found
            /\ job'[d].subject = job[d].subject /\ job'[d].bare = job[d].bare
            /\ job[d].overtaken \in BOOLEAN
            /\ job'[d].overtaken = (job[d].overtaken \/ (d = mu /\ job[d].at # "locked"))
      BY <2>9 DEF SyncSDKCookie, TypeOK, Jobs
    <3>4. Running'
      <4>1. job[c] # Idle
        BY <3>1 DEF Idle, Job
      <4> QED BY <3>1, <4>1 DEF Running
    <3>5. TypeOK' /\ Confirmed' /\ SavedIsIssued'
      BY <3>1, <3>2 DEF TypeOK, Confirmed, SavedIsIssued, source, stored
    <3>6. Held' /\ Subjects' /\ Found'
      BY <3>1, <3>2, <3>3 DEF Held, Holding, Subjects, At, Found, Granted, source
    <3>7. ASSUME NEW d \in Callers, job'[d].at \in {"account", "read"}
          PROVE  d # c /\ job[d].at = job'[d].at /\ d = mu /\ job'[d].overtaken
      BY <3>1, <3>2, <3>3, <3>7 DEF Held, Holding
    <3>8. Verifying'
      BY <3>1, <3>3, <3>7 DEF Verifying, Granted, source
    <3> QED BY <3>4, <3>5, <3>6, <3>8
  <2> QED BY <1>8, <2>1, <2>2, <2>3, <2>4, <2>5, <2>6, <2>7, <2>8, <2>9 DEF Handle
<1> QED BY <1>1, <1>2, <1>3, <1>4, <1>5, <1>6, <1>7, <1>8 DEF Next

---------------------------------------------------------------------------
(* The theorems.                                                           *)

THEOREM Verified == Spec => []IInv
BY Start, Step, PTL DEF Spec

\* The variables keep their types.
THEOREM LoginTypes == Spec => []TypeOK
<1>1. IInv => TypeOK
  BY DEF IInv
<1> QED BY <1>1, Verified, PTL

\* What is saved was given out by the source, unless a library call wrote over
\* the jar while it was verified.
THEOREM SavedSessionsAreIssued == Spec => []SavedIsIssued
<1>1. IInv => SavedIsIssued
  BY DEF IInv
<1> QED BY <1>1, Verified, PTL

\* A login saves the session of its own key, with the same exception and that of a
\* login which was granted without a session.
THEOREM LoginsAreTheirKeys == Spec => []LoginIsItsKeys
<1>1. IInv => LoginIsItsKeys
  BY DEF IInv, LoginIsItsKeys, Found, At
<1> QED BY <1>1, Verified, PTL

\* The key file has the secret of the row and of the process.
KeyKept ==
  /\ row # None => row.sealed = keyfile
  /\ secret # 0 => secret = keyfile

LEMMA KeyKeptStep == KeyFaults = FALSE /\ IInv /\ KeyKept /\ [Next]_vars => KeyKept'
<1> SUFFICES ASSUME KeyFaults = FALSE, IInv, KeyKept, [Next]_vars PROVE KeyKept'
  OBVIOUS
<1> USE DEF KeyKept
<1>1. CASE UNCHANGED <<stored, secret>>
  BY <1>1 DEF stored
<1>2. CASE Crash
  BY <1>2 DEF Crash, stored
<1>3. CASE StartWithKey \/ StartWithoutKey \/ StartTorn
  <2>1. row # None => row.sealed # 0
    BY DEF IInv, TypeOK, Rows
  <2> QED BY <1>3, <2>1 DEF StartWithKey, StartWithoutKey, Generate, StartTorn, Up
<1>4. ASSUME NEW c \in Callers, Save(c) PROVE KeyKept'
  <2>1. job[c] # Idle
    BY <1>4 DEF Save, Idle, Job
  <2>2. secret # 0
    BY <2>1 DEF IInv, Running
  <2> QED BY <1>4, <2>2 DEF Save, Sealed
<1>5. ASSUME NEW c \in Callers, Asked(c) \/ Lock(c) \/ Handle(c), ~Save(c) PROVE UNCHANGED <<stored, secret>>
  BY <1>5 DEF Asked, Begin, Poll, ImportCookie, LibraryCall, Arrive, Lock, Handle, CreateQRCode, CallFails,
     CheckPending, CheckGranted, Populate, Account, AccountKnown, AccountRefused, RefusedTo, ReadJar, ReadJarAs,
     NoMusicU, SaveFails, LoadCookie, LoadFails, SyncSDKCookie
<1>6. ASSUME NEW k \in Keys, Confirm(k) \/ Expire(k) PROVE UNCHANGED <<stored, secret>>
  BY <1>6 DEF Confirm, Expire
<1>7. ASSUME NEW s \in Sessions, Revoke(s) PROVE UNCHANGED <<stored, secret>>
  BY <1>7 DEF Revoke
<1>8. CASE UNCHANGED vars
  BY <1>8 DEF vars, stored
<1> QED BY <1>1, <1>2, <1>3, <1>4, <1>5, <1>6, <1>7, <1>8 DEF Next

\* While the key file can be read, every process that is started can open the
\* session that was saved.
THEOREM SessionsStayReadable ==
  ASSUME KeyFaults = FALSE PROVE Spec => []SessionReadable
<1>1. Init => KeyKept
  BY DEF Init, KeyKept
<1>2. KeyKept => SessionReadable
  BY DEF KeyKept, SessionReadable, Readable
<1>3. IInv /\ KeyKept /\ [Next]_vars => KeyKept'
  BY KeyKeptStep
<1> QED BY <1>1, <1>2, <1>3, Verified, PTL DEF Spec

---------------------------------------------------------------------------
(* The page of the login: one interval polls, and what the page says of a   *)
(* code is true of it, for any number of calls and of polls in flight.      *)

\* Unless calls have overlapped, at most one code is awaited, and nothing polls
\* then; and what polls is the interval the page knows of, until an answer ends it.
OneInterval ==
  ~overlapped =>
    /\ \A a, b \in asking : a = b
    /\ live \subseteq {pollTimer}
    /\ asking # {} \/ text \in Ends => live = {}

LEMMA OneIntervalStep == OneInterval /\ [PageNext]_pageVars => OneInterval'
<1> SUFFICES ASSUME OneInterval, [PageNext]_pageVars PROVE OneInterval'
  OBVIOUS
<1>1. CASE StartQRLogin
  BY <1>1 DEF StartQRLogin, AskFor, OneInterval, Ends
<1>2. ASSUME NEW a \in Asks, CodeMoves(a) \/ Fire(a) PROVE OneInterval'
  BY <1>2 DEF CodeMoves, Fire, page, OneInterval
<1>3. ASSUME NEW a \in Asks, QRArrives(a) PROVE OneInterval'
  BY <1>3 DEF QRArrives, ShowCode, OneInterval, Ends
<1>4. ASSUME NEW a \in Asks, QRFails(a) PROVE OneInterval'
  BY <1>4 DEF QRFails, OneInterval, Ends
<1>5. ASSUME NEW i \in 1 .. MaxPolls, ServerSays(i) PROVE OneInterval'
  BY <1>5 DEF ServerSays, page, OneInterval
<1>6. ASSUME NEW i \in 1 .. MaxPolls, PollAnswers(i) \/ PollFails(i) PROVE OneInterval'
  BY <1>6 DEF PollAnswers, PollFails, Answered, OneInterval, Ends
<1>7. CASE UNCHANGED pageVars
  BY <1>7 DEF pageVars, page, OneInterval
<1> QED BY <1>1, <1>2, <1>3, <1>4, <1>5, <1>6, <1>7 DEF PageNext

\* One interval polls, and none while a code is awaited or once an answer has ended
\* it, unless calls have overlapped (setup_page.go:279, 306, 324-337): for any
\* number of calls, and of polls in flight.
THEOREM OnePolls == PageSpec => []PollsForOne
<1>1. PageInit => OneInterval
  BY DEF PageInit, OneInterval, Ends
<1>2. OneInterval => PollsForOne
  BY DEF OneInterval, PollsForOne
<1> QED BY <1>1, <1>2, OneIntervalStep, PTL DEF PageSpec

---------------------------------------------------------------------------
(* What is said of a code.                                                 *)

Statuses == {"waiting", "awaiting_confirmation", "authorized", "expired"}

\* A code that is s now may once have been said to be e.
Since(e, s) ==
  \/ e = s \/ e = "waiting" \/ s = "expired"
  \/ e = "awaiting_confirmation" /\ s = "authorized"

PollOf == [key : Asks, said : Statuses \cup {Unsaid}]
TruePolls == {p \in PollOf : p.said # Unsaid => Since(p.said, code[p.key])}

\* Answers under way were true once; while a code is awaited by one call, none is
\* shown, and nothing is covered unless an answer has come out of place.
Truthful ==
  /\ code \in [Asks -> Statuses]
  /\ asked \in Nat /\ asking \subseteq Asks
  /\ currentKey \in Asks \cup {NoCode} /\ image \in Asks \cup {NoCode}
  /\ polls \in Seq(TruePolls)
  /\ ~overlapped /\ asking # {} => image = NoCode /\ (~misled => ~overlay)
  /\ SaysWhatHolds

LEMMA SequencesKept ==
  ASSUME NEW S, NEW T, S \subseteq T
  PROVE  Seq(S) \subseteq Seq(T)
  OBVIOUS

LEMMA RemoveAtType ==
  ASSUME NEW S, NEW s \in Seq(S), NEW i \in DOMAIN s
  PROVE  RemoveAt(s, i) \in Seq(S)
<1>1. Len(s) \in Nat /\ i \in 1 .. Len(s) /\ \A j \in 1 .. Len(s) : s[j] \in S
  OBVIOUS
<1>2. SubSeq(s, 1, i - 1) \in Seq(S)
  BY <1>1, SubSeqProperties
<1>3. SubSeq(s, i + 1, Len(s)) \in Seq(S)
  BY <1>1, SubSeqProperties
<1> QED BY <1>2, <1>3, ConcatProperties DEF RemoveAt

\* The answers under way stay true while codes only move on.
LEMMA PollsStayTrue ==
  ASSUME NEW k \in Asks, CodeMoves(k), Truthful
  PROVE  TruePolls \subseteq TruePolls' /\ \A a \in Asks : Since(code[a], code'[a])
<1>1. PICK s \in Statuses : <<code[k], s>> \in Moves /\ code' = [code EXCEPT ![k] = s]
  BY DEF CodeMoves, Statuses
<1>2. \A e \in Statuses : Since(e, code[k]) => Since(e, s)
  BY <1>1 DEF Moves, Since, Statuses
<1>3. \A a \in Asks : code'[a] = IF a = k THEN s ELSE code[a]
  BY <1>1 DEF Truthful
<1>4. Since(code[k], s)
  BY <1>1 DEF Moves, Since
<1> QED BY <1>2, <1>3, <1>4 DEF TruePolls, PollOf, Since

LEMMA TruthfulStep == OneInterval /\ Truthful /\ [PageNext]_pageVars => Truthful'
<1> SUFFICES ASSUME OneInterval, Truthful, [PageNext]_pageVars PROVE Truthful'
  OBVIOUS
<1>1. CASE StartQRLogin
  <2>1. asked + 1 \in Asks
    BY <1>1, BoundsAssumption DEF StartQRLogin, AskFor, Asks, Truthful
  <2>2. SaysWhatHolds'
    BY <1>1 DEF StartQRLogin, AskFor, SaysWhatHolds
  <2> QED BY <1>1, <2>1, <2>2 DEF StartQRLogin, AskFor, Truthful, TruePolls
<1>2. ASSUME NEW a \in Asks, CodeMoves(a) PROVE Truthful'
  <2>1. TruePolls \subseteq TruePolls' /\ \A b \in Asks : Since(code[b], code'[b])
    BY <1>2, PollsStayTrue
  <2>2. polls' \in Seq(TruePolls')
    <3>1. polls' = polls /\ polls \in Seq(TruePolls)
      BY <1>2 DEF Truthful, CodeMoves
    <3> QED BY <2>1, <3>1, SequencesKept
  <2>3. code' \in [Asks -> Statuses]
    BY <1>2 DEF Truthful, CodeMoves, Statuses
  <2>4. SaysWhatHolds'
    BY <1>2, <2>1 DEF Truthful, SaysWhatHolds, CodeMoves, page, Since, Asks, NoCode
  <2> QED BY <1>2, <2>2, <2>3, <2>4 DEF Truthful, CodeMoves, page
<1>3. ASSUME NEW a \in Asks, QRArrives(a) PROVE Truthful'
  <2>1. overlay' /\ ~overlapped' /\ ~misled' => FALSE
    BY <1>3 DEF QRArrives, ShowCode, Truthful
  <2>2. SaysWhatHolds'
    BY <1>3, <2>1 DEF QRArrives, ShowCode, SaysWhatHolds
  <2>3. TruePolls' = TruePolls
    BY <1>3 DEF QRArrives, ShowCode, TruePolls
  <2>4. ~overlapped' => asking' = {}
    BY <1>3 DEF QRArrives, ShowCode, OneInterval
  <2> QED BY <1>3, <2>2, <2>3, <2>4 DEF QRArrives, ShowCode, Truthful
<1>4. ASSUME NEW a \in Asks, QRFails(a) PROVE Truthful'
  <2>1. SaysWhatHolds'
    BY <1>4 DEF QRFails, SaysWhatHolds, Truthful
  <2>2. TruePolls' = TruePolls
    BY <1>4 DEF QRFails, TruePolls
  <2> QED BY <1>4, <2>1, <2>2 DEF QRFails, Truthful
<1>5. ASSUME NEW a \in Asks, Fire(a) PROVE Truthful'
  <2>1. [key |-> currentKey, said |-> Unsaid] \in TruePolls
    BY <1>5 DEF Fire, Truthful, TruePolls, PollOf
  <2>2. polls' \in Seq(TruePolls)
    BY <1>5, <2>1 DEF Fire, Truthful
  <2>3. TruePolls' = TruePolls
    BY <1>5 DEF Fire, TruePolls
  <2>4. SaysWhatHolds'
    BY <1>5 DEF Fire, page, SaysWhatHolds, Truthful
  <2> QED BY <1>5, <2>2, <2>3, <2>4 DEF Fire, page, Truthful
<1>6. ASSUME NEW i \in 1 .. MaxPolls, ServerSays(i) PROVE Truthful'
  <2>1. polls \in Seq(TruePolls) /\ i \in DOMAIN polls /\ polls[i] \in TruePolls
    BY <1>6 DEF ServerSays, Truthful
  <2>2. [polls[i] EXCEPT !.said = code[polls[i].key]] \in TruePolls
    BY <2>1 DEF Truthful, TruePolls, PollOf, Since
  <2>3. polls' \in Seq(TruePolls)
    BY <1>6, <2>1, <2>2 DEF ServerSays
  <2>4. TruePolls' = TruePolls
    BY <1>6 DEF ServerSays, TruePolls
  <2>5. SaysWhatHolds'
    BY <1>6 DEF ServerSays, page, SaysWhatHolds, Truthful
  <2> QED BY <1>6, <2>3, <2>4, <2>5 DEF ServerSays, page, Truthful
<1>7. ASSUME NEW i \in 1 .. MaxPolls, PollAnswers(i) \/ PollFails(i) PROVE Truthful'
  <2>1. polls \in Seq(TruePolls) /\ i \in DOMAIN polls /\ polls[i] \in TruePolls
    BY <1>7 DEF PollAnswers, PollFails, Truthful
  <2>2. polls' \in Seq(TruePolls)
    BY <1>7, <2>1, RemoveAtType DEF PollAnswers, PollFails, Answered
  <2>3. TruePolls' = TruePolls
    BY <1>7 DEF PollAnswers, PollFails, Answered, TruePolls
  <2>4. polls[i].key \in Asks
    BY <2>1 DEF TruePolls, PollOf
  <2>5. ASSUME image' # NoCode, ~misled'
        PROVE  /\ text' = "awaiting_confirmation" => code'[image'] # "waiting"
               /\ text' = "authorized" => code'[image'] \in {"authorized", "expired"}
               /\ text' = "expired" \/ (overlay' /\ ~overlapped') => code'[image'] = "expired"
    <3>1. /\ image = polls[i].key /\ image # NoCode /\ ~misled
          /\ UNCHANGED <<image, code, overlapped>>
      BY <1>7, <2>5 DEF PollAnswers, PollFails, Answered
    <3>2. overlay /\ ~overlapped => code[image] = "expired"
      BY <3>1 DEF Truthful, SaysWhatHolds
    <3>3. CASE PollAnswers(i)
      <4>1. text' = polls[i].said /\ overlay' = (overlay \/ polls[i].said = "expired")
        BY <3>3 DEF PollAnswers
      <4>2. Since(polls[i].said, code[image])
        BY <2>1, <3>1, <3>3 DEF PollAnswers, TruePolls
      <4> QED BY <3>1, <3>2, <4>1, <4>2 DEF Since
    <3>4. CASE PollFails(i)
      BY <3>1, <3>2, <3>4 DEF PollFails
    <3> QED BY <1>7, <3>3, <3>4
  <2>6. SaysWhatHolds'
    BY <2>5 DEF SaysWhatHolds
  <2>7. ~overlapped' /\ asking' # {} => image' = NoCode /\ (~misled' => ~overlay')
    <3>1. ~overlapped /\ asking # {} => image = NoCode
      BY DEF Truthful
    <3>2. ~misled' => image # NoCode
      <4>1. polls[i].key # NoCode
        BY <2>4, BoundsAssumption DEF Asks, NoCode
      <4> QED BY <1>7, <4>1 DEF PollAnswers, PollFails, Answered
    <3> QED BY <1>7, <3>1, <3>2 DEF PollAnswers, PollFails, Answered
  <2> QED BY <1>7, <2>2, <2>3, <2>6, <2>7 DEF PollAnswers, PollFails, Answered, Truthful
<1>8. CASE UNCHANGED pageVars
  <2>1. SaysWhatHolds' /\ TruePolls' = TruePolls
    BY <1>8 DEF pageVars, page, SaysWhatHolds, Truthful, TruePolls
  <2> QED BY <1>8, <2>1 DEF pageVars, page, Truthful
<1> QED BY <1>1, <1>2, <1>3, <1>4, <1>5, <1>6, <1>7, <1>8 DEF PageNext

\* What the page says of the code it shows, and that it covers it, is true of the
\* code, unless an answer came out of place or calls overlapped (setup_page.go:
\* 286-299, 318-337): for any number of calls, and of polls in flight.
THEOREM PageIsTruthful == PageSpec => []SaysWhatHolds
<1>1. PageInit => OneInterval /\ Truthful
  <2> SUFFICES ASSUME PageInit PROVE OneInterval /\ Truthful
    OBVIOUS
  <2>1. polls \in Seq(TruePolls)
    BY DEF PageInit
  <2> QED BY <2>1 DEF PageInit, OneInterval, Ends, Truthful, SaysWhatHolds, Statuses
<1>2. Truthful => SaysWhatHolds
  BY DEF Truthful
<1> QED BY <1>1, <1>2, OneIntervalStep, TruthfulStep, PTL DEF PageSpec
=================================================================================
