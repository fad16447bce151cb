-------------------------------- MODULE SetupPage --------------------------------
(***************************************************************************)
(* The script of the login page (internal/api/setup_page.go): a QR code is  *)
(* asked for, shown and polled by an interval until an answer ends it.      *)
(*                                                                         *)
(* The script runs to the end between two awaits; requests of the page may  *)
(* be answered in any order. A call of startQRLogin, the code it is given   *)
(* and the interval it starts have one number. The badge and the form for a *)
(* cookie, which share nothing with the code, are left out.                 *)
(***************************************************************************)
EXTENDS Integers, Sequences, SequencesExt

CONSTANTS
  MaxAsks,   \* bound on the calls of startQRLogin
  MaxPolls   \* bound on the polls in flight

ASSUME BoundsAssumption == MaxAsks \in Nat /\ MaxPolls \in Nat

Asks == 1 .. MaxAsks
Ends == {"authorized", "expired", "interrupted"}

\* null and '': no interval, no code; and what a poll has that is not answered yet.
NoCode == 0
Unsaid == "unsaid"

VARIABLES
  asked,       \* calls of startQRLogin so far
  asking,      \* those whose POST is in flight
  code,        \* the status the source has for each code
  currentKey,
  pollTimer,
  live,        \* the intervals that run
  polls,       \* the polls in flight, in the order they were sent
  image,       \* the code that is shown
  overlay,     \* is it covered, as expired?
  text,        \* what qr-status says
  misled,      \* for the properties: since the last call of startQRLogin, has an
               \* answer come that is about another code than the one shown, or
               \* after one that ended the polling of it, and
  overlapped   \* did a call ever start while another was waiting for its code?

page == <<currentKey, pollTimer, live, image, overlay, text>>
pageVars == <<asked, asking, code, page, polls, misled, overlapped>>

PageInit ==
  /\ asked = 0 /\ asking = {}
  /\ code = [k \in Asks |-> "waiting"]
  /\ currentKey = NoCode /\ pollTimer = NoCode /\ live = {}
  /\ polls = <<>>
  /\ image = NoCode /\ overlay = FALSE /\ text = "generating"
  /\ misled = FALSE /\ overlapped = FALSE

---------------------------------------------------------------------------
(* The source: the user scans and confirms, a code runs out, one that has   *)
(* been used is forgotten.                                                  *)

Moves == {<<"waiting", "awaiting_confirmation">>, <<"awaiting_confirmation", "authorized">>,
          <<"waiting", "expired">>, <<"awaiting_confirmation", "expired">>, <<"authorized", "expired">>}

CodeMoves(k) ==
  /\ k <= asked /\ k \notin asking
  /\ \E s \in {"awaiting_confirmation", "authorized", "expired"} :
       <<code[k], s>> \in Moves /\ code' = [code EXCEPT ![k] = s]
  /\ UNCHANGED <<asked, asking, page, polls, misled, overlapped>>

---------------------------------------------------------------------------
(* startQRLogin.                                                           *)

AskFor(running, covered) ==
  /\ asked < MaxAsks
  /\ asked' = asked + 1 /\ asking' = asking \cup {asked + 1}
  /\ live' = running
  /\ image' = NoCode /\ overlay' = covered /\ text' = "connecting"
  /\ misled' = FALSE /\ overlapped' = (overlapped \/ asking # {})
  /\ UNCHANGED <<code, currentKey, pollTimer, polls>>

\* Slip: the interval goes on.
SlipClick == AskFor(live, FALSE)

\* Slip: the overlay stays.
SlipOverlay == AskFor(live \ {pollTimer}, overlay)

\* The page has loaded, or the user asks for another code.
StartQRLogin == AskFor(live \ {pollTimer}, FALSE)

ShowCode(a, running) ==
  /\ a \in asking
  /\ asking' = asking \ {a}
  /\ currentKey' = a /\ image' = a /\ text' = "scan"
  /\ pollTimer' = a /\ live' = running
  /\ UNCHANGED <<asked, code, polls, overlay, misled, overlapped>>

\* Slip: no interval is started where there has been one.
SlipArrives(a) == ShowCode(a, IF pollTimer = NoCode THEN live \cup {a} ELSE live)

QRArrives(a) == ShowCode(a, live \cup {a})

QRFails(a) ==
  /\ a \in asking
  /\ asking' = asking \ {a}
  /\ text' = "failed"
  /\ UNCHANGED <<asked, code, currentKey, pollTimer, live, image, overlay, polls, misled, overlapped>>

---------------------------------------------------------------------------
(* pollQRStatus.                                                           *)

\* An interval fires.
Fire(t) ==
  /\ t \in live /\ currentKey # NoCode /\ Len(polls) < MaxPolls
  /\ polls' = Append(polls, [key |-> currentKey, said |-> Unsaid])
  /\ UNCHANGED <<asked, asking, code, page, misled, overlapped>>

\* The server has asked the source; an authorized code is in the database now.
ServerSays(i) ==
  /\ i \in DOMAIN polls /\ polls[i].said = Unsaid
  /\ polls' = [polls EXCEPT ![i].said = code[polls[i].key]]
  /\ UNCHANGED <<asked, asking, code, page, misled, overlapped>>

\* Poll i is over.
Answered(i) ==
  /\ polls' = RemoveAt(polls, i)
  /\ misled' = (misled \/ polls[i].key # image \/ pollTimer \notin live)
  /\ UNCHANGED <<asked, asking, code, currentKey, pollTimer, image, overlapped>>

PollAnswers(i) ==
  /\ i \in DOMAIN polls /\ polls[i].said # Unsaid
  /\ text' = polls[i].said
  /\ live' = IF polls[i].said \in Ends THEN live \ {pollTimer} ELSE live
  /\ overlay' = (overlay \/ polls[i].said = "expired")
  /\ Answered(i)

\* No answer, or the server's error: the session could not be verified or saved.
PollFails(i) ==
  /\ i \in DOMAIN polls
  /\ text' = "interrupted"
  /\ live' = live \ {pollTimer}
  /\ UNCHANGED overlay
  /\ Answered(i)

---------------------------------------------------------------------------

PageNext ==
  \/ StartQRLogin
  \/ \E a \in Asks : CodeMoves(a) \/ QRArrives(a) \/ QRFails(a) \/ Fire(a)
  \/ \E i \in 1 .. MaxPolls : ServerSays(i) \/ PollAnswers(i) \/ PollFails(i)

PageSpec == PageInit /\ [][PageNext]_pageVars

\* An interval that runs fires, and the requests it sends are answered or fail.
FairPageSpec ==
  /\ PageSpec
  /\ \A a \in Asks : WF_pageVars(Fire(a))
  /\ \A i \in 1 .. MaxPolls : WF_pageVars(ServerSays(i)) /\ WF_pageVars(PollAnswers(i) \/ PollFails(i))

---------------------------------------------------------------------------
(* Properties.                                                             *)

\* One interval polls, and none while a code is awaited or once an answer has
\* ended it; unless a code was asked for while another was awaited, whose
\* interval nothing can stop then (setup_page.go:279, 306, 324-337).
PollsForOne ==
  ~overlapped =>
    /\ live \subseteq {pollTimer}
    /\ asking # {} \/ text \in Ends => live = {}

\* What the page says of the code it shows, and that it covers it, is true of
\* the code, unless an answer came out of place, or the cover is left from a code
\* that was shown while this one was awaited (setup_page.go:286-299, 318-337).
SaysWhatHolds ==
  image # NoCode /\ ~misled =>
    /\ text = "awaiting_confirmation" => code[image] # "waiting"
    /\ text = "authorized" => code[image] \in {"authorized", "expired"}
    /\ text = "expired" \/ (overlay /\ ~overlapped) => code[image] = "expired"

\* What becomes of the code that is shown is shown, or that polling it or asking
\* for another has failed, unless an answer comes out of place or another code is
\* asked for: no code is left that nothing polls (setup_page.go:286-306, 313-338).
EndIsShown ==
  \A k \in Asks :
    image = k /\ code[k] \in {"authorized", "expired"} 
      ~> image # k \/ text \in Ends \cup {"failed"} \/ misled
=================================================================================
