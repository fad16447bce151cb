------------------------------- MODULE SourceLogin -------------------------------
(***************************************************************************)
(* Logging in at the source and using the login: the handlers of           *)
(* internal/api/netease_login.go, NativeClient and its one cookie jar      *)
(* (internal/source/netease/native.go), the session row                    *)
(* (internal/session/repository.go), the library calls that copy the row's *)
(* session into the jar (adapter.go), and the file with the key the row is *)
(* sealed with (cmd/tunebridge/main.go).                                   *)
(*                                                                         *)
(* A session is the value of its MUSIC_U cookie; the other cookies travel  *)
(* with it. NativeClient.mu is held from the request to the source until   *)
(* the jar has been read; syncSDKCookie writes the jar without it. The     *)
(* source is the built-in one: an external API server has no jar. Codes    *)
(* 801 and 802 differ only in what the page shows. RefreshToken, which     *)
(* nothing in the program calls, is left out, as are requests refused      *)
(* before anything is done.                                                *)
(***************************************************************************)
EXTENDS Integers

CONSTANTS
  Callers,     \* requests under way: each answers one and takes the next
  Keys,        \* QR login keys the source hands out
  Sessions,    \* sessions, those a user may paste in included
  MaxSecrets,  \* bound on the keys generated for the key file
  Faults,      \* may the source, SQLite or the connection to the client fail?
  KeyFaults,   \* may reading the key file fail?
  None

ASSUME SecretsAssumption == MaxSecrets \in Nat
ASSUME NoneAssumption == None \notin Callers \cup Keys \cup Sessions
ASSUME SwitchAssumption == {Faults, KeyFaults} \subseteq BOOLEAN
ASSUME KindsAssumption == Keys \cap Sessions = {}

VARIABLES
  issued,     \* the sessions the source has given out
  accepted,   \* those of them it still accepts
  qr,         \* what the source has for each key
  grant,      \* the session the user has confirmed for a key
  jar,        \* the session in the cookie jar
  mu,         \* the caller that holds NativeClient.mu
  job,        \* what each caller is at
  row,        \* the row of source_sessions
  keyfile,    \* the secret in session.key, 0 when there is none
  secret,     \* the secret of the running process, 0 while it is down
  made        \* secrets generated so far

source == <<issued, accepted, qr, grant>>
stored == <<row, keyfile, made>>
vars == <<source, jar, mu, job, stored, secret>>

\* A caller's stage, what it was asked ("call" for a library call that starts
\* with syncSDKCookie, "profile" for one that starts with UserProfile), the key
\* or session it was asked about or the session it has loaded, and the session
\* it is about to save. Two are for the properties. "overtaken": was the jar
\* written over while it verified a session? "bare": did the source grant the
\* login without a session to put into the jar?
Job(l, o, x) ==
  [at |-> l, op |-> o, subject |-> x, found |-> None, overtaken |-> FALSE, bare |-> FALSE]
Idle == Job("idle", "call", None)

\* The session saved, the secret it is sealed with, and whether the login that
\* saved it was overtaken.
Sealed(s, n, o) == [session |-> s, sealed |-> n, overtaken |-> o]
Readable == row # None /\ row.sealed = secret

Init ==
  /\ issued \in SUBSET Sessions /\ accepted = issued
  /\ qr = [k \in Keys |-> "unused"]
  /\ grant = [k \in Keys |-> None]
  /\ jar = None /\ mu = None
  /\ job = [c \in Callers |-> Idle]
  /\ row = None
  /\ keyfile = 0 /\ secret = 0 /\ made = 0

At(c, l, os) == job[c].at = l /\ job[c].op \in os
Goto(c, l) == job' = [job EXCEPT ![c].at = l]
Finish(c) == job' = [job EXCEPT ![c] = Idle]

---------------------------------------------------------------------------
(* The source and its user.                                                *)

\* The user confirms the login in the source's app.
Confirm(k) ==
  /\ qr[k] = "waiting"
  /\ \E s \in Sessions \ issued :
       /\ issued' = issued \cup {s} /\ accepted' = accepted \cup {s}
       /\ grant' = [grant EXCEPT ![k] = s]
  /\ qr' = [qr EXCEPT ![k] = "confirmed"]
  /\ UNCHANGED <<jar, mu, job, stored, secret>>

Expire(k) ==
  /\ qr[k] = "waiting"
  /\ qr' = [qr EXCEPT ![k] = "spent"]
  /\ UNCHANGED <<issued, accepted, grant, jar, mu, job, stored, secret>>

Revoke(s) ==
  /\ s \in accepted
  /\ accepted' = accepted \ {s}
  /\ UNCHANGED <<issued, qr, grant, jar, mu, job, stored, secret>>

---------------------------------------------------------------------------
(* The process.                                                            *)

Crash ==
  /\ secret # 0
  /\ secret' = 0 /\ jar' = None /\ mu' = None
  /\ job' = [c \in Callers |-> Idle]
  /\ UNCHANGED <<source, stored>>

Up == secret = 0 /\ UNCHANGED <<source, jar, mu, job, row>>

StartWithKey ==
  /\ Up /\ keyfile # 0
  /\ secret' = keyfile
  /\ UNCHANGED <<keyfile, made>>

Generate ==
  /\ Up /\ made < MaxSecrets
  /\ made' = made + 1 /\ secret' = made + 1 /\ keyfile' = made + 1

\* Slip: a key is generated at every start.
SlipStartWithoutKey == Generate

\* A file that is missing, empty or cannot be read: a key is generated and
\* written over it.
StartWithoutKey == (keyfile = 0 \/ KeyFaults) /\ Generate

\* The process dies after WriteFile has truncated the file.
StartTorn ==
  /\ Up /\ (keyfile = 0 \/ KeyFaults)
  /\ keyfile' = 0
  /\ UNCHANGED <<made, secret>>

---------------------------------------------------------------------------
(* Requests, and the mutex.                                                *)

Arrive(c, j) ==
  /\ secret # 0 /\ job[c] = Idle
  /\ job' = [job EXCEPT ![c] = j]
  /\ UNCHANGED <<source, jar, mu, stored, secret>>

Begin(c) == Arrive(c, Job("lock", "begin", None))
Poll(c, k) == qr[k] # "unused" /\ Arrive(c, Job("lock", "check", k))
ImportCookie(c, s) == Arrive(c, Job("lock", "import", s))
LibraryCall(c) == \E o \in {"profile", "call"} : Arrive(c, Job("load", o, None))

Lock(c) ==
  /\ job[c].at = "lock" /\ mu = None
  /\ mu' = c
  /\ Goto(c, "locked")
  /\ UNCHANGED <<source, jar, stored, secret>>

\* The source cannot be asked, or answers with an error.
CallFails(c) ==
  /\ Faults /\ At(c, "locked", {"begin", "check"})
  /\ mu' = None /\ Finish(c)
  /\ UNCHANGED <<source, jar, stored, secret>>

\* The source hands out a key it has not used before. (With none left in Keys
\* the request ends without one.)
CreateQRCode(c) ==
  /\ At(c, "locked", {"begin"})
  /\ \/ \E k \in Keys : qr[k] = "unused" /\ qr' = [qr EXCEPT ![k] = "waiting"]
     \/ (\A k \in Keys : qr[k] # "unused") /\ UNCHANGED qr
  /\ mu' = None /\ Finish(c)
  /\ UNCHANGED <<issued, accepted, grant, jar, stored, secret>>

---------------------------------------------------------------------------
(* Logging in.                                                             *)

\* Codes 800 to 802.
CheckPending(c) ==
  /\ At(c, "locked", {"check"}) /\ qr[job[c].subject] # "confirmed"
  /\ mu' = None /\ Finish(c)
  /\ UNCHANGED <<source, jar, stored, secret>>

\* Code 803, which the source may give again for a key (native_test.go:286-293).
\* Its session is put into the jar; where it brings no cookies, the jar is left as
\* it was.
CheckGranted(c) ==
  /\ At(c, "locked", {"check"}) /\ qr[job[c].subject] = "confirmed"
  /\ qr' \in {qr, [qr EXCEPT ![job[c].subject] = "spent"]}
  /\ \/ jar' = grant[job[c].subject] /\ Goto(c, "account")
     \/ /\ Faults /\ UNCHANGED jar
        /\ job' = [job EXCEPT ![c].at = "account", ![c].bare = TRUE]
  /\ UNCHANGED <<issued, accepted, grant, mu, stored, secret>>

\* VerifyCookie and UserProfile put the session they are given into the jar.
Populate(c) ==
  /\ At(c, "locked", {"import", "profile"})
  /\ jar' = job[c].subject
  /\ Goto(c, "account")
  /\ UNCHANGED <<source, mu, stored, secret>>

\* A login by key goes on to read the jar; an import has what it was given.
AccountKnown(c, known) ==
  /\ job[c].at = "account" /\ known
  /\ \/ job[c].op = "check" /\ Goto(c, "read") /\ UNCHANGED mu
     \/ /\ job[c].op = "import" /\ mu' = None
        /\ job' = [job EXCEPT ![c].at = "save", ![c].found = job[c].subject]
     \/ job[c].op = "profile" /\ mu' = None /\ Finish(c)
  /\ UNCHANGED <<source, jar, stored, secret>>

\* Slip: the code of the account query is not looked at.
SlipAccount(c) == AccountKnown(c, TRUE)

\* AccountInfo asks the source whose the session in the jar is; an answer with an
\* account for a jar without one is looked into later.
Account(c) == AccountKnown(c, jar \in accepted \/ (jar = None /\ Faults))

RefusedTo(c, m) ==
  /\ job[c].at = "account" /\ (jar \notin accepted \/ Faults)
  /\ mu' = m /\ Finish(c)
  /\ UNCHANGED <<source, jar, stored, secret>>

\* Slip: an early return without the unlock.
SlipAccountRefused(c) == RefusedTo(c, mu)

\* The jar keeps what was refused.
AccountRefused(c) == RefusedTo(c, None)

ReadJarAs(c, s) ==
  /\ job[c].at = "read" /\ jar # None
  /\ job' = [job EXCEPT ![c].at = "save", ![c].found = s]
  /\ mu' = None
  /\ UNCHANGED <<source, jar, stored, secret>>

\* Slip: a session saved before goes first.
SlipReadJar(c) == ReadJarAs(c, IF row # None THEN row.session ELSE jar)

\* cookieStringFromJar.
ReadJar(c) == ReadJarAs(c, jar)

\* "QR login succeeded without MUSIC_U cookie".
NoMusicU(c) ==
  /\ job[c].at = "read" /\ jar = None
  /\ mu' = None /\ Finish(c)
  /\ UNCHANGED <<source, jar, stored, secret>>

\* Repository.Save: one transaction.
Save(c) ==
  /\ job[c].at = "save"
  /\ row' = Sealed(job[c].found, secret, job[c].overtaken)
  /\ Finish(c)
  /\ UNCHANGED <<source, jar, mu, keyfile, made, secret>>

\* Nothing is saved when the client has hung up, although the source may have
\* spent the key.
SaveFails(c) ==
  /\ Faults /\ job[c].at = "save"
  /\ Finish(c)
  /\ UNCHANGED <<source, jar, mu, stored, secret>>

---------------------------------------------------------------------------
(* The library's calls.                                                    *)

LoadCookie(c) ==
  /\ job[c].at = "load" /\ Readable
  /\ job' = [job EXCEPT ![c].subject = row.session,
                        ![c].at = IF job[c].op = "profile" THEN "lock" ELSE "sync"]
  /\ UNCHANGED <<source, jar, mu, stored, secret>>

LoadFails(c) ==
  /\ job[c].at = "load" /\ (~Readable \/ Faults)
  /\ Finish(c)
  /\ UNCHANGED <<source, jar, mu, stored, secret>>

\* syncSDKCookie, whoever holds the mutex; the call then goes out with the jar.
SyncSDKCookie(c) ==
  /\ job[c].at = "sync"
  /\ jar' = job[c].subject
  /\ job' = [d \in Callers |->
               IF d = c THEN Idle
               ELSE [job[d] EXCEPT !.overtaken = @ \/ (d = mu /\ job[d].at # "locked")]]
  /\ UNCHANGED <<source, mu, stored, secret>>

---------------------------------------------------------------------------

Asked(c) ==
  \/ Begin(c)
  \/ \E k \in Keys : Poll(c, k)
  \/ \E s \in Sessions : ImportCookie(c, s)
  \/ LibraryCall(c)

Handle(c) ==
  \/ CreateQRCode(c) \/ CallFails(c) \/ CheckPending(c) \/ CheckGranted(c)
  \/ Populate(c) \/ Account(c) \/ AccountRefused(c)
  \/ ReadJar(c) \/ NoMusicU(c) \/ Save(c) \/ SaveFails(c)
  \/ LoadCookie(c) \/ LoadFails(c) \/ SyncSDKCookie(c)

Next ==
  \/ \E c \in Callers : Asked(c) \/ Lock(c) \/ Handle(c)
  \/ \E k \in Keys : Confirm(k) \/ Expire(k)
  \/ \E s \in Sessions : Revoke(s)
  \/ Crash \/ StartWithKey \/ StartWithoutKey \/ StartTorn

Spec == Init /\ [][Next]_vars

\* A request's own steps are taken: calls to the source have a timeout, and a
\* sync.Mutex hands itself to whoever has waited longest.
Fairness == \A c \in Callers : WF_vars(Handle(c)) /\ SF_vars(Lock(c))
FairSpec == Spec /\ Fairness

---------------------------------------------------------------------------
(* Properties.                                                             *)

Jobs ==
  [at : {"idle", "lock", "locked", "account", "read", "save", "load", "sync"},
   op : {"begin", "check", "import", "profile", "call"},
   subject : Keys \cup Sessions \cup {None},
   found : Sessions \cup {None},
   overtaken : BOOLEAN,
   bare : BOOLEAN]

Rows == [session : Sessions, sealed : 1..MaxSecrets, overtaken : BOOLEAN]

TypeOK ==
  /\ issued \subseteq Sessions /\ accepted \subseteq issued
  /\ qr \in [Keys -> {"unused", "waiting", "confirmed", "spent"}]
  /\ grant \in [Keys -> issued \cup {None}]
  /\ jar \in Sessions \cup {None} /\ mu \in Callers \cup {None}
  /\ job \in [Callers -> Jobs]
  /\ row \in Rows \cup {None}
  /\ {keyfile, secret, made} \subseteq 0..MaxSecrets

\* What is saved is a session the source has given out, and for which it was
\* asked in the jar, also after a login that brought none; unless a library call
\* wrote over the jar in between: no other handler can (native.go:177, 266-269,
\* 290, 540; adapter.go:116).
SavedIsIssued == row # None /\ ~row.overtaken => row.session \in issued

\* A login saves the session of the key it was asked about and no other's,
\* whoever logs in, imports or calls meanwhile and although 803 may come twice,
\* except in two cases: a library call wrote over the jar while it was verified
\* (adapter.go:116), or its 803 brought no session and the jar had another
\* (native.go:234-269).
LoginIsItsKeys ==
  \A c \in Callers :
    At(c, "save", {"check"}) /\ ~job[c].overtaken /\ ~job[c].bare =>
      job[c].found = grant[job[c].subject]

\* A saved session can be opened by the process that runs now, after any
\* restart, as long as the key file can be read (main.go:117-137).
SessionReadable == row # None /\ secret # 0 => Readable

\* Every request ends: no path through a handler keeps the mutex.
HandlersReturn == \A c \in Callers : job[c].at # "idle" ~> job[c].at = "idle"

---------------------------------------------------------------------------
(* What the code does not keep.                                            *)

\* "If the second verification fails, nothing is saved" (current-capabilities.md:57).
SavedWasVerified == row # None => row.session \in issued

\* A login saves the session of its key. Both exceptions of LoginIsItsKeys break
\* it: the session saved may be one imported before, or the saved one again.
LoginIsTheUsers ==
  \A c \in Callers : At(c, "save", {"check"}) => job[c].found = grant[job[c].subject]
==================================================================================
