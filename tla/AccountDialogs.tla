--------------------------- MODULE AccountDialogs ---------------------------
(* The dialogs of an account: a browser session runs in a thread of its     *)
(* own, a connection test in the pool, and both answer by events that the   *)
(* GUI thread takes up later, while the user presses on, closes the dialog  *)
(* or leaves the program.  The older dialogs (gmail, qq) save the settings  *)
(* before they test; the one of a stored account (runtime) does not.        *)
EXTENDS Naturals

CONSTANTS MaxSessions, MaxTasks, MaxSaves   \* bounds: sessions, tests, saved settings

VARIABLES
  kind,       \* "gmail", "qq" or "runtime"
  shown,      \* "open", "closed", "leaving" (the program waits for its workers), "gone"
  oauth,      \* the browser session: "none", "runs", "answered", "quits" (its thread), "over" (the event of its end)
  cancelled,  \* ... was cancelled
  asSaved,    \* ... the settings it was begun with
  testing,    \* the test in the pool: "none", "runs", "answered"
  closeAfterOAuth, closeAfterTest,
  settings,   \* how often the dialog saved settings
  sessions, tests

vars == <<kind, shown, oauth, cancelled, asSaved, testing, closeAfterOAuth, closeAfterTest, settings, sessions, tests>>

Init ==
  /\ kind \in {"gmail", "qq", "runtime"}
  /\ shown = "open" /\ oauth = "none" /\ cancelled = FALSE /\ asSaved = 0 /\ testing = "none"
  /\ closeAfterOAuth = FALSE /\ closeAfterTest = FALSE
  /\ settings = 0 /\ sessions = 0 /\ tests = 0

\* _oauth_active: until the end of the thread was taken up
Active == oauth # "none"
Testing == testing # "none"
\* QDialog.reject
Leaves == shown' = IF shown = "open" THEN "closed" ELSE shown

-----------------------------------------------------------------------------
(* What the user presses. *)

MayAuthorizeAnyTime == ~Active
\* the older dialog refuses while a test runs, the newer one looks at its session only
MayAuthorize == ~Active /\ (kind = "gmail" => ~Testing)

\* the older dialog saves first, and a refused save ends it
Authorizes ==
  /\ kind # "qq" /\ shown = "open" /\ MayAuthorize /\ sessions < MaxSessions
  /\ kind = "gmail" => settings < MaxSaves
  /\ oauth' = "runs" /\ cancelled' = FALSE /\ sessions' = sessions + 1
  /\ settings' = IF kind = "gmail" THEN settings + 1 ELSE settings
  /\ asSaved' = settings'
  /\ closeAfterOAuth' = IF kind = "gmail" THEN FALSE ELSE closeAfterOAuth
  /\ UNCHANGED <<kind, shown, testing, closeAfterTest, tests>>

MayTestAnyTime == ~Testing
MayTest == ~Testing /\ (kind = "gmail" => ~Active)
Tests ==
  /\ shown = "open" /\ MayTest /\ tests < MaxTasks
  /\ kind # "runtime" => settings < MaxSaves
  /\ settings' = IF kind = "runtime" THEN settings ELSE settings + 1
  /\ testing' = "runs" /\ tests' = tests + 1
  /\ UNCHANGED <<kind, shown, oauth, cancelled, asSaved, closeAfterOAuth, closeAfterTest, sessions>>

\* a test that only looks (reverify), and the browser opened again, which goes through the pool while the session runs
Looks ==
  /\ kind = "gmail" /\ shown = "open" /\ ~Testing /\ tests < MaxTasks
  /\ testing' = "runs" /\ tests' = tests + 1
  /\ UNCHANGED <<kind, shown, oauth, cancelled, asSaved, closeAfterOAuth, closeAfterTest, settings, sessions>>

Cancels ==
  /\ shown = "open" /\ Active /\ ~cancelled
  /\ cancelled' = TRUE
  /\ UNCHANGED <<kind, shown, oauth, asSaved, testing, closeAfterOAuth, closeAfterTest, settings, sessions, tests>>

\* accept: saves and closes; the newer dialog looks at its session only
MaySave == ~Active /\ (kind # "runtime" => ~Testing)
Saves ==
  /\ shown = "open" /\ MaySave /\ settings < MaxSaves
  /\ settings' = settings + 1
  /\ shown' = "closed"
  /\ UNCHANGED <<kind, oauth, cancelled, asSaved, testing, closeAfterOAuth, closeAfterTest, sessions, tests>>

\* reject and closeEvent: a session is cancelled and waited for, then a test is
ClosesAfterOAuth ==
  /\ shown = "open" /\ Active
  /\ closeAfterOAuth' = TRUE /\ cancelled' = TRUE
  /\ UNCHANGED <<kind, shown, oauth, asSaved, testing, closeAfterTest, settings, sessions, tests>>
ClosesAfterTest ==
  /\ shown = "open" /\ ~Active /\ Testing
  /\ closeAfterTest' = TRUE
  /\ UNCHANGED <<kind, shown, oauth, cancelled, asSaved, testing, closeAfterOAuth, settings, sessions, tests>>
Closes ==
  /\ shown = "open" /\ ~Active /\ ~Testing
  /\ shown' = "closed"
  /\ UNCHANGED <<kind, oauth, cancelled, asSaved, testing, closeAfterOAuth, closeAfterTest, settings, sessions, tests>>

-----------------------------------------------------------------------------
(* The workers, and the events of theirs that the GUI thread takes up. *)

\* authorised, refused, cancelled or timed out
OAuthAnswers ==
  /\ oauth = "runs" /\ oauth' = "answered"
  /\ UNCHANGED <<kind, shown, cancelled, asSaved, testing, closeAfterOAuth, closeAfterTest, settings, sessions, tests>>
TestAnswers ==
  /\ testing = "runs" /\ testing' = "answered"
  /\ UNCHANGED <<kind, shown, oauth, cancelled, asSaved, closeAfterOAuth, closeAfterTest, settings, sessions, tests>>

\* _on_oauth_finished shows the result; the thread is told to quit, and ends
ShowsAnswer ==
  /\ shown \in {"open", "closed"} /\ oauth = "answered" /\ oauth' = "quits"
  /\ UNCHANGED <<kind, shown, cancelled, asSaved, testing, closeAfterOAuth, closeAfterTest, settings, sessions, tests>>
ThreadEnds ==
  /\ oauth = "quits" /\ oauth' = "over"
  /\ UNCHANGED <<kind, shown, cancelled, asSaved, testing, closeAfterOAuth, closeAfterTest, settings, sessions, tests>>

\* _on_oauth_thread_finished: a test that still runs is waited for by the older dialog, not by the newer one
LeavesNow == FALSE
WaitsForTest == kind = "gmail" /\ Testing
OAuthEnds ==
  /\ shown \in {"open", "closed"} /\ oauth = "over"
  /\ oauth' = "none" /\ cancelled' = FALSE /\ closeAfterOAuth' = FALSE
  /\ IF closeAfterOAuth /\ ~WaitsForTest THEN Leaves ELSE UNCHANGED shown
  /\ closeAfterTest' = (closeAfterTest \/ (closeAfterOAuth /\ WaitsForTest))
  /\ UNCHANGED <<kind, asSaved, testing, settings, sessions, tests>>

ForgetsToClose == FALSE
ClosesNow == closeAfterTest
\* finish of _run_background
TestEnds ==
  /\ shown \in {"open", "closed"} /\ testing = "answered"
  /\ testing' = "none" /\ closeAfterTest' = FALSE
  /\ IF ClosesNow THEN Leaves ELSE UNCHANGED shown
  /\ UNCHANGED <<kind, oauth, cancelled, asSaved, closeAfterOAuth, settings, sessions, tests>>

-----------------------------------------------------------------------------
(* aboutToQuit: the session is cancelled, its thread and the pool are waited for. *)

Exits ==
  /\ shown \in {"open", "closed"}
  /\ shown' = "leaving" /\ cancelled' = (cancelled \/ Active)
  /\ UNCHANGED <<kind, oauth, asSaved, testing, closeAfterOAuth, closeAfterTest, settings, sessions, tests>>

Gone ==
  /\ shown = "leaving" /\ oauth # "runs" /\ testing # "runs"
  /\ shown' = "gone"
  /\ UNCHANGED <<kind, oauth, cancelled, asSaved, testing, closeAfterOAuth, closeAfterTest, settings, sessions, tests>>

User == Authorizes \/ Tests \/ Looks \/ Cancels \/ Saves \/ ClosesAfterOAuth \/ ClosesAfterTest \/ Closes
Workers == OAuthAnswers \/ TestAnswers \/ ThreadEnds
Events == ShowsAnswer \/ OAuthEnds \/ TestEnds
Next == User \/ Workers \/ Events \/ Exits \/ Gone

\* A session ends by its cancellation or its own limit of time, a test by the limits of its connections, and
\* the GUI thread takes up what is queued.
Fairness ==
  /\ WF_vars(OAuthAnswers) /\ WF_vars(TestAnswers) /\ WF_vars(ThreadEnds)
  /\ WF_vars(ShowsAnswer) /\ WF_vars(OAuthEnds) /\ WF_vars(TestEnds) /\ WF_vars(Gone)

Spec == Init /\ [][Next]_vars /\ Fairness

TypeOK ==
  /\ shown \in {"open", "closed", "leaving", "gone"}
  /\ oauth \in {"none", "runs", "answered", "quits", "over"}
  /\ testing \in {"none", "runs", "answered"}
  /\ closeAfterTest => Testing
  /\ kind = "qq" => ~Active

\* A dialog of the older kinds is never closed while a session, a test or an event of theirs is under way
\* that would come back to it, whether the user saves or asks to close once, twice or in between.
DialogOutlivesItsWork == shown = "closed" /\ kind # "runtime" => ~Active /\ ~Testing

\* The settings that a session of the older dialog was begun with are not saved over before it ends.
SessionKeepsItsSettings == Active /\ kind = "gmail" => settings = asSaved

\* A dialog that was asked to close does, and the program that was asked to end does.
CloseHappens ==
  /\ (closeAfterOAuth \/ closeAfterTest) ~> (shown # "open")
  /\ (shown = "leaving") ~> (shown = "gone")
=============================================================================
