---------------------------- MODULE OAuthSession ----------------------------
(***************************************************************************)
(* One Gmail token file: browser sessions that write a new token, readers  *)
(* that load and refresh it, its clearing, and the replacement of          *)
(* credentials.json.  The process lock beside the token serialises them;   *)
(* a session can be cancelled at every stage.                              *)
(***************************************************************************)
EXTENDS Naturals, FiniteSets

CONSTANTS
  Sessions,     \* browser sessions of one process
  Readers,      \* callers of get_gmail_api_service and of clear_local_gmail_token
  MaxTokens,    \* bound on the tokens ever written
  MaxImports    \* bound on replacements of credentials.json

VARIABLES
  session,      \* what run() is doing
  claimed,      \* _active_session_id
  tokenLock,    \* the holder of .oauth.lock
  reader,       \* the callers under way
  token,        \* the file, number 0 for none
  written,      \* number of the latest token written
  oauthClient   \* the client of credentials.json

vars == <<session, claimed, tokenLock, reader, token, written, oauthClient>>

Nobody == "nobody"
Ends == {"AUTHORIZED", "AUTHORIZED_UNVERIFIED", "CANCELLED", "TIMED_OUT", "FAILED"}
States == Ends \cup {"IDLE", "VALIDATING_CREDENTIALS", "PREPARING_CALLBACK", "CALLBACK_READY",
  "OPENING_BROWSER", "WAITING_FOR_USER", "CALLBACK_RECEIVED", "EXCHANGING_TOKEN",
  "VERIFYING_GMAIL", "CANCELLING", "RAISED"}
Tokens == [number : 0..MaxTokens, client : 0..MaxImports, right : BOOLEAN]
NoToken == [number |-> 0, client |-> 0, right |-> FALSE]

Apart ==
  /\ Sessions \cap Readers = {} /\ Nobody \notin Sessions \cup Readers
  /\ MaxTokens \in Nat /\ MaxImports \in Nat

TypeOK ==
  /\ session \in [Sessions -> [state : States, at : {"run", "claim", "lock", "work", "leave", "done"},
                    cancel : BOOLEAN, port : BOOLEAN, client : 0..MaxImports, saved : 0..MaxTokens,
                    answer : {"none", "code", "denied", "foreign"},
                    profile : {"unknown", "right", "other", "unavailable", "refused"}]]
  /\ claimed \in Sessions \cup {Nobody} /\ tokenLock \in Sessions \cup Readers \cup {Nobody}
  /\ reader \in [Readers -> [at : {"idle", "validated", "load", "save", "clear"},
                   client : 0..MaxImports, seen : Tokens]]
  /\ token \in Tokens /\ written \in 0..MaxTokens /\ oauthClient \in 0..MaxImports

NoReader == [at |-> "idle", client |-> 0, seen |-> NoToken]

Init ==
  /\ session = [s \in Sessions |-> [state |-> "IDLE", at |-> "run", cancel |-> FALSE, port |-> FALSE,
                                    client |-> 0, saved |-> 0, answer |-> "none", profile |-> "unknown"]]
  /\ claimed = Nobody /\ tokenLock = Nobody
  /\ reader = [r \in Readers |-> NoReader]
  /\ token = NoToken /\ written = 0 /\ oauthClient = 0

-----------------------------------------------------------------------------
(* The state machine.                                                       *)

\* Variant with a bug: the verification cannot be cancelled.
AllowedUncancelled(from) ==
  IF from = "RAISED" THEN {}
  ELSE IF from = "VERIFYING_GMAIL" THEN {"AUTHORIZED", "AUTHORIZED_UNVERIFIED", "FAILED"}
  ELSE {"VALIDATING_CREDENTIALS", "PREPARING_CALLBACK", "CALLBACK_READY", "OPENING_BROWSER", "WAITING_FOR_USER",
        "CALLBACK_RECEIVED", "EXCHANGING_TOKEN", "VERIFYING_GMAIL", "CANCELLING", "CANCELLED", "TIMED_OUT", "FAILED"}

\* _ALLOWED_TRANSITIONS.
Allowed(from) ==
  LET next == [IDLE |-> {"VALIDATING_CREDENTIALS"},
               VALIDATING_CREDENTIALS |-> {"PREPARING_CALLBACK"},
               PREPARING_CALLBACK |-> {"CALLBACK_READY"},
               CALLBACK_READY |-> {"OPENING_BROWSER"},
               OPENING_BROWSER |-> {"WAITING_FOR_USER"},
               WAITING_FOR_USER |-> {"CALLBACK_RECEIVED", "TIMED_OUT"},
               CALLBACK_RECEIVED |-> {"EXCHANGING_TOKEN"},
               EXCHANGING_TOKEN |-> {"VERIFYING_GMAIL"},
               VERIFYING_GMAIL |-> {"AUTHORIZED", "AUTHORIZED_UNVERIFIED"}]
  IN CASE from \in DOMAIN next \ {"IDLE"} -> next[from] \cup {"CANCELLING", "FAILED"}
       [] from = "IDLE" -> next.IDLE
       [] from = "CANCELLING" -> {"CANCELLED"}
       [] from = "RAISED" -> {}
       [] OTHER -> {"IDLE"}

\* transition: to the same state always, anywhere else only along the table.
Move(from, target) == IF target = from \/ target \in Allowed(from) THEN target ELSE "RAISED"

\* Variant with a bug: no state of the machine.
AfterFailureMisspelt(from) == "FAILURE"

\* _cancelled and _failure, of whatever state the session is in.
AfterCancel(from) == Move(Move(from, "CANCELLING"), "CANCELLED")
AfterFailure(from) == Move(from, "FAILED")

Leaving(s, state) == session' = [session EXCEPT ![s].state = state, ![s].at = "leave"]
Moves(s, target) == session' = [session EXCEPT ![s].state = Move(@, target)]

\* _raise_if_cancelled, before a step that it guards.
Stops(s) == session[s].cancel

At(s, state) == session[s].at = "work" /\ session[s].state = state
Unstopped(s, state) == At(s, state) /\ ~Stops(s)

-----------------------------------------------------------------------------
(* GmailOAuthSession.run.                                                   *)

Runs(s) ==
  /\ session[s].at = "run"
  /\ session' = [session EXCEPT ![s].at = "claim", ![s].state = Move(@, "VALIDATING_CREDENTIALS")]
  /\ UNCHANGED <<claimed, tokenLock, reader, token, written, oauthClient>>

Claims(s) ==
  /\ session[s].at = "claim"
  /\ IF claimed = Nobody
       THEN claimed' = s /\ session' = [session EXCEPT ![s].at = "lock"]
       ELSE Leaving(s, AfterFailure(session[s].state)) /\ UNCHANGED claimed
  /\ UNCHANGED <<tokenLock, reader, token, written, oauthClient>>

TakesLock(s) ==
  /\ session[s].at = "lock" /\ tokenLock = Nobody
  /\ tokenLock' = s
  /\ session' = [session EXCEPT ![s].at = "work"]
  /\ UNCHANGED <<claimed, reader, token, written, oauthClient>>

LockIsBusy(s) ==
  /\ session[s].at = "lock" /\ tokenLock # Nobody
  /\ Leaving(s, AfterFailure(session[s].state))
  /\ UNCHANGED <<claimed, tokenLock, reader, token, written, oauthClient>>

Validates(s) ==
  /\ Unstopped(s, "VALIDATING_CREDENTIALS")
  /\ session' = [session EXCEPT ![s].client = oauthClient, ![s].state = Move(@, "PREPARING_CALLBACK")]
  /\ UNCHANGED <<claimed, tokenLock, reader, token, written, oauthClient>>

BindsPort(s) ==
  /\ At(s, "PREPARING_CALLBACK")
  /\ session' = [session EXCEPT ![s].port = TRUE, ![s].state = Move(@, "CALLBACK_READY")]
  /\ UNCHANGED <<claimed, tokenLock, reader, token, written, oauthClient>>

\* A browser that does not open is a warning.
OpensBrowser(s) ==
  /\ Unstopped(s, "CALLBACK_READY")
  /\ session' = [session EXCEPT ![s].state = Move(Move(@, "OPENING_BROWSER"), "WAITING_FOR_USER")]
  /\ UNCHANGED <<claimed, tokenLock, reader, token, written, oauthClient>>

\* Only the first answer counts; the loop looks at it before the cancellation.
Hears(s) ==
  /\ At(s, "WAITING_FOR_USER") /\ session[s].answer # "none"
  /\ Moves(s, "CALLBACK_RECEIVED")
  /\ UNCHANGED <<claimed, tokenLock, reader, token, written, oauthClient>>

\* Variant with a bug: the wait has no deadline.
TimesOutNever(s) == FALSE

TimesOut(s) ==
  /\ Unstopped(s, "WAITING_FOR_USER") /\ session[s].answer = "none"
  /\ Leaving(s, Move(session[s].state, "TIMED_OUT"))
  /\ UNCHANGED <<claimed, tokenLock, reader, token, written, oauthClient>>

\* A state of another session, a refusal, or a code.
ChecksAnswer(s) ==
  /\ At(s, "CALLBACK_RECEIVED")
  /\ IF session[s].answer # "code" THEN Leaving(s, AfterFailure(session[s].state))
     ELSE ~Stops(s) /\ Moves(s, "EXCHANGING_TOKEN")
  /\ UNCHANGED <<claimed, tokenLock, reader, token, written, oauthClient>>

Exchanges(s) ==
  /\ Unstopped(s, "EXCHANGING_TOKEN")
  /\ Moves(s, "VERIFYING_GMAIL")
  /\ UNCHANGED <<claimed, tokenLock, reader, token, written, oauthClient>>

\* Any of these steps may fail; where the code asks first, a cancellation wins.
Fails(s) ==
  /\ \/ At(s, "PREPARING_CALLBACK")
     \/ \E state \in {"VALIDATING_CREDENTIALS", "CALLBACK_READY", "EXCHANGING_TOKEN", "VERIFYING_GMAIL"} :
          Unstopped(s, state)
  /\ session[s].saved = 0
  /\ Leaving(s, AfterFailure(session[s].state))
  /\ UNCHANGED <<claimed, tokenLock, reader, token, written, oauthClient>>

\* users().getProfile: the right account or another one, no answer now, or a refusal.
LearnsProfile(s) ==
  /\ Unstopped(s, "VERIFYING_GMAIL") /\ session[s].profile = "unknown"
  /\ \E profile \in {"right", "other", "unavailable", "refused"} :
       session' = [session EXCEPT ![s].profile = profile]
  /\ UNCHANGED <<claimed, tokenLock, reader, token, written, oauthClient>>

\* Variant with a bug: the account of the profile is not compared.
ToSaveAny(profile) == profile # "refused"

\* A profile that cannot be read now is no reason to lose the token.
ToSave(profile) == profile \in {"right", "unavailable"}

\* The token of an account that could not be asked for may be of any account.
Saves(s) ==
  /\ Unstopped(s, "VERIFYING_GMAIL") /\ ToSave(session[s].profile)
  /\ session[s].profile # "unknown" /\ session[s].saved = 0 /\ written < MaxTokens
  /\ \E right \in BOOLEAN :
       /\ session[s].profile = "right" => right
       /\ session[s].profile = "other" => ~right
       /\ token' = [number |-> written + 1, client |-> session[s].client, right |-> right]
  /\ written' = written + 1
  /\ session' = [session EXCEPT ![s].saved = written + 1]
  /\ UNCHANGED <<claimed, tokenLock, reader, oauthClient>>

Succeeds(s) ==
  /\ At(s, "VERIFYING_GMAIL") /\ session[s].saved # 0
  /\ Leaving(s, Move(session[s].state,
                     IF session[s].profile = "unavailable" THEN "AUTHORIZED_UNVERIFIED" ELSE "AUTHORIZED"))
  /\ UNCHANGED <<claimed, tokenLock, reader, token, written, oauthClient>>

\* Variant with a bug: a cancellation is looked for once more at the end.
StoppableAlways(s) == TRUE

\* The token that is saved settles it.
Stoppable(s) == session[s].saved = 0

NoticesCancel(s) ==
  /\ session[s].at = "work" /\ Stops(s) /\ Stoppable(s)
  /\ \/ session[s].state \in {"VALIDATING_CREDENTIALS", "CALLBACK_READY", "EXCHANGING_TOKEN", "VERIFYING_GMAIL"}
     \/ session[s].state = "WAITING_FOR_USER" /\ session[s].answer = "none"
     \/ session[s].state = "CALLBACK_RECEIVED" /\ session[s].answer = "code"
  /\ Leaving(s, AfterCancel(session[s].state))
  /\ UNCHANGED <<claimed, tokenLock, reader, token, written, oauthClient>>

\* The finally block.
Leaves(s) ==
  /\ session[s].at = "leave"
  /\ session' = [session EXCEPT ![s].at = "done", ![s].port = FALSE, ![s].answer = "none",
                                ![s].profile = "unknown", ![s].client = 0, ![s].cancel = FALSE]
  /\ tokenLock' = IF tokenLock = s THEN Nobody ELSE tokenLock
  /\ claimed' = IF claimed = s THEN Nobody ELSE claimed
  /\ UNCHANGED <<reader, token, written, oauthClient>>

\* cancel(): refused once the session has ended.
Cancels(s) ==
  /\ session[s].state \notin Ends /\ ~session[s].cancel
  /\ session' = [session EXCEPT ![s].cancel = TRUE]
  /\ UNCHANGED <<claimed, tokenLock, reader, token, written, oauthClient>>

\* A request at the callback port, while it is served.
Answers(s) ==
  /\ At(s, "WAITING_FOR_USER") /\ session[s].answer = "none"
  /\ \E answer \in {"code", "denied", "foreign"} : session' = [session EXCEPT ![s].answer = answer]
  /\ UNCHANGED <<claimed, tokenLock, reader, token, written, oauthClient>>

Step(s) ==
  \/ Runs(s) \/ Claims(s) \/ TakesLock(s) \/ LockIsBusy(s) \/ Validates(s) \/ BindsPort(s) \/ OpensBrowser(s)
  \/ Hears(s) \/ TimesOut(s) \/ ChecksAnswer(s) \/ Exchanges(s) \/ LearnsProfile(s)
  \/ Saves(s) \/ Succeeds(s) \/ Fails(s) \/ NoticesCancel(s)
  \/ Leaves(s)

-----------------------------------------------------------------------------
(* get_gmail_api_service and clear_local_gmail_token.                       *)

ReadsClient(r) ==
  /\ reader[r].at = "idle"
  /\ reader' = [reader EXCEPT ![r].at = "validated", ![r].client = oauthClient]
  /\ UNCHANGED <<session, claimed, tokenLock, token, written, oauthClient>>

\* Variant with a bug: the token is loaded, refreshed and saved outside the lock.
EntersUnlocked(r) ==
  /\ reader[r].at = "validated"
  /\ reader' = [reader EXCEPT ![r].at = "load"]
  /\ UNCHANGED <<session, claimed, tokenLock, token, written, oauthClient>>

Enters(r) ==
  /\ reader[r].at = "validated" /\ tokenLock = Nobody
  /\ tokenLock' = r
  /\ reader' = [reader EXCEPT ![r].at = "load"]
  /\ UNCHANGED <<session, claimed, token, written, oauthClient>>

GivesUp(r) ==
  /\ reader[r].at = "validated" /\ tokenLock # Nobody
  /\ reader' = [reader EXCEPT ![r] = NoReader]
  /\ UNCHANGED <<session, claimed, tokenLock, token, written, oauthClient>>

Releases(r) ==
  /\ reader' = [reader EXCEPT ![r] = NoReader]
  /\ tokenLock' = IF tokenLock = r THEN Nobody ELSE tokenLock

\* A token that is there, of this client and expired goes to the refresh.
Loads(r) ==
  /\ reader[r].at = "load"
  /\ \/ Releases(r)
     \/ /\ token # NoToken /\ token.client = reader[r].client
        /\ reader' = [reader EXCEPT ![r].at = "save", ![r].seen = token]
        /\ UNCHANGED tokenLock
  /\ UNCHANGED <<session, claimed, token, written, oauthClient>>

Refreshes(r) ==
  /\ reader[r].at = "save"
  /\ \/ /\ written < MaxTokens
        /\ token' = [reader[r].seen EXCEPT !.number = written + 1]
        /\ written' = written + 1
     \/ UNCHANGED <<token, written>>
  /\ Releases(r)
  /\ UNCHANGED <<session, claimed, oauthClient>>

StartsClear(r) ==
  /\ reader[r].at = "idle" /\ tokenLock = Nobody
  /\ tokenLock' = r
  /\ reader' = [reader EXCEPT ![r].at = "clear"]
  /\ UNCHANGED <<session, claimed, token, written, oauthClient>>

Clears(r) ==
  /\ reader[r].at = "clear"
  /\ token' = NoToken
  /\ Releases(r)
  /\ UNCHANGED <<session, claimed, written, oauthClient>>

\* import_oauth_credentials takes a lock of its own only.
Imports ==
  /\ oauthClient < MaxImports
  /\ oauthClient' = oauthClient + 1
  /\ UNCHANGED <<session, claimed, tokenLock, reader, token, written>>

Next ==
  \/ \E s \in Sessions : Step(s) \/ Cancels(s) \/ Answers(s)
  \/ \E r \in Readers : \/ ReadsClient(r) \/ Enters(r) \/ GivesUp(r) \/ Loads(r) \/ Refreshes(r)
                        \/ StartsClear(r) \/ Clears(r)
  \/ Imports

-----------------------------------------------------------------------------
(* Properties.                                                              *)

\* oauth_flow.py: the table rejects illegal jumps; no stage of a session, whatever
\* fails there or is cancelled there, asks for one.
NoTransitionIsRejected == \A s \in Sessions : session[s].state # "RAISED"

\* docs/Gmail OAuth, "cancel: the new token is not saved", and a mismatching account does
\* not overwrite the old one: the token file holds nothing of a session that ended badly.
OnlySuccessSaves ==
  \A s \in Sessions :
    session[s].state \in Ends \ {"AUTHORIZED", "AUTHORIZED_UNVERIFIED"} => session[s].saved = 0

\* A verified session leaves a token of the account it was started for.
AuthorizedIsRight ==
  \A s \in Sessions :
    session[s].state = "AUTHORIZED" /\ token # NoToken /\ session[s].saved = token.number => token.right

\* What a refresh writes replaces the very token it has read: it never brings back a
\* token that was cleared, nor one that a session has replaced.
RefreshReplacesItsToken ==
  [][\A r \in Readers : Refreshes(r) /\ token' # token => token = reader[r].seen]_vars

\* Every session ends, with the port, the lock and the claim given back.
SessionsEnd == \A s \in Sessions : session[s].at # "run" ~> session[s].at = "done"
=============================================================================
