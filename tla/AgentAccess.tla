----------------------------- MODULE AgentAccess -----------------------------
(* The rights of one Agent client (agent_integration.py, send_permissions.py,   *)
(* the permission dialog of main_window.py and the checks of mcp_server.py).    *)
(* A setting of the user lies in three places: the capabilities, accounts and   *)
(* workspaces in one table, the sender accounts in others, the modes in the     *)
(* row of the client.  A save replaces them in three transactions, and an       *)
(* identity is read in as many, while the window saves, a process starts and    *)
(* rewrites old rights, and requests are made, confirmed and sent.              *)
(* Denials are left out: the window never sets one.                             *)
EXTENDS Naturals, FiniteSets

CONSTANTS
  Accounts,   \* mail accounts
  Sender,     \* the account the Agent sends with
  Root,       \* the workspace of the data directory
  Settings,   \* what the dialog may save, the first rights among them
  First,      \* the settings a client may have before, one of them of a version that knew no workspaces
  MaxSaves, MaxTrouble

VARIABLES
  profile,    \* the row: state, and the modes of the three scopes and of sending
  keyring,    \* the client's token is in the keyring
  rights,     \* agent_client_permissions: caps, accounts, workspaces
  senders,    \* agent_client_send_account_scopes
  editor,     \* the save, or the creation, of the window: where it is and what it saves
  starter,    \* of a process that starts: the rights it read and is to rewrite
  applying,   \* a task that writes the client's configuration is under way
  usable,     \* accounts that are enabled
  reader,     \* the identity that is being read, for a call or an execution
  outgoing,   \* the request: its mode and status
  live,       \* history: the settings whose parts may be in the tables
  seen,       \* history: the settings that were live while the identity was read
  stale,      \* history: a starting process wrote over rights it had not read
  saves, trouble

vars == <<profile, keyring, rights, senders, editor, starter, applying, usable, reader, outgoing, live, seen, stale, saves, trouble>>

None == "none"
Caps == {"read", "send", "submit"}
Modes == {"all", "selected"}
Scoped(mode, chosen) == IF mode = "selected" THEN chosen ELSE {}

\* set_permissions: the fixed submission of older clients keeps the data directory.
Workspaces(s) ==
  IF s.workspaceMode = "selected" /\ "submit" \in s.caps /\ s.workspaces = {} THEN {Root} ELSE s.workspaces
RightsOf(s) ==
  [caps |-> s.caps, accounts |-> Scoped(s.accountMode, s.accounts),
   workspaces |-> Scoped(s.workspaceMode, Workspaces(s))]
SendersOf(s) == Scoped(s.senderMode, s.senders)
ModesOf(s) ==
  [accountMode |-> s.accountMode, workspaceMode |-> s.workspaceMode, senderMode |-> s.senderMode, sending |-> s.sending]
Idle == [at |-> "idle", to |-> None]

\* What the dialog can hold.
Offered ==
  /\ First \subseteq Settings
  /\ \A s \in Settings :
       /\ s.caps \subseteq Caps /\ s.accounts \cup s.senders \subseteq Accounts
       /\ {s.accountMode, s.senderMode, s.workspaceMode} \subseteq Modes
       /\ s.sending \in {"confirm", "autonomous"}
NoIdentity ==
  [at |-> "idle", purpose |-> None, row |-> None, caps |-> {}, accounts |-> {}, senders |-> {}]

Init ==
  /\ \E s \in First :
       \/ /\ profile = [state |-> "active", modes |-> ModesOf(s)] /\ keyring = TRUE /\ live = {s}
          /\ rights = [caps |-> s.caps, accounts |-> s.accounts, workspaces |-> s.workspaces]
          /\ senders = SendersOf(s)
       \/ /\ profile = [state |-> "absent", modes |-> ModesOf(s)] /\ keyring = FALSE /\ live = {}
          /\ rights = [caps |-> {}, accounts |-> {}, workspaces |-> {}] /\ senders = {}
  /\ editor = Idle /\ starter = {} /\ applying = FALSE
  /\ usable = Accounts
  /\ reader = NoIdentity
  /\ outgoing = [mode |-> None, status |-> None]
  /\ seen = {} /\ stale = FALSE
  /\ saves = 0 /\ trouble = 0

-----------------------------------------------------------------------------
(* A save: replace_agent_client_permissions, replace_extended_scopes,        *)
(* update_agent_client.                                                      *)
Valid(s) == Scoped("selected", s.accounts) \cup s.senders \subseteq usable
Seeing(s) == IF reader.at = "idle" THEN seen ELSE seen \cup s

Opens(s) ==
  /\ editor = Idle /\ saves < MaxSaves /\ profile.state \notin {"absent", "revoked"}
  /\ editor' = [at |-> "rights", to |-> s] /\ saves' = saves + 1
  /\ UNCHANGED <<profile, keyring, rights, senders, starter, applying, usable, reader, outgoing, live, seen, stale, trouble>>

SavesRights ==
  /\ editor.at = "rights" /\ Valid(editor.to)
  /\ rights' = RightsOf(editor.to)
  /\ editor' = [editor EXCEPT !.at = "senders"]
  /\ live' = live \cup {editor.to} /\ seen' = Seeing({editor.to})
  /\ UNCHANGED <<profile, keyring, senders, starter, applying, usable, reader, outgoing, stale, saves, trouble>>

\* A value that names a disabled account is refused before anything is written.
SaveRefused ==
  /\ editor.at = "rights" /\ ~Valid(editor.to) /\ editor' = Idle
  /\ UNCHANGED <<profile, keyring, rights, senders, starter, applying, usable, reader, outgoing, live, seen, stale, saves, trouble>>

SavesSenders ==
  /\ editor.at = "senders"
  /\ senders' = SendersOf(editor.to)
  /\ editor' = [editor EXCEPT !.at = "modes"]
  /\ UNCHANGED <<profile, keyring, rights, starter, applying, usable, reader, outgoing, live, seen, stale, saves, trouble>>

SavesModes ==
  /\ editor.at = "modes"
  /\ profile' = [profile EXCEPT !.modes = ModesOf(editor.to)]
  /\ editor' = Idle
  /\ live' = {editor.to}
  /\ UNCHANGED <<keyring, rights, senders, starter, applying, usable, reader, outgoing, seen, stale, saves, trouble>>

\* A statement fails, or the window dies: what was written stays.
SaveFails ==
  /\ editor.at \in {"rights", "senders", "modes"} /\ trouble < MaxTrouble
  /\ editor' = Idle /\ trouble' = trouble + 1
  /\ UNCHANGED <<profile, keyring, rights, senders, starter, applying, usable, reader, outgoing, live, seen, stale, saves>>

-----------------------------------------------------------------------------
(* create_client_profile: the token, then the row, which is not enabled, then *)
(* a save of its rights.  A row that fails takes the token along.            *)
KeepsToken ==
  /\ profile.state = "absent" /\ editor = Idle /\ keyring' = TRUE
  /\ editor' = [at |-> "row", to |-> None]
  /\ UNCHANGED <<profile, rights, senders, starter, applying, usable, reader, outgoing, live, seen, stale, saves, trouble>>

Creates(s) ==
  /\ editor.at = "row"
  /\ profile' = [state |-> "new", modes |-> ModesOf(s)]
  /\ editor' = [at |-> "rights", to |-> s] /\ live' = {s} /\ saves' = saves + 1
  /\ UNCHANGED <<keyring, rights, senders, starter, applying, usable, reader, outgoing, seen, stale, trouble>>

CreateFails ==
  /\ editor.at = "row" /\ trouble < MaxTrouble /\ trouble' = trouble + 1
  /\ keyring' = FALSE /\ editor' = Idle
  /\ UNCHANGED <<profile, rights, senders, starter, applying, usable, reader, outgoing, live, seen, stale, saves>>

-----------------------------------------------------------------------------
(* ensure_legacy_submit_scopes, at every start of a process.                 *)
LacksRoot(r) == "submit" \in r.caps /\ r.workspaces = {}

StartReads ==
  /\ starter = {} /\ profile.state # "absent" /\ profile.modes.workspaceMode = "selected" /\ LacksRoot(rights)
  /\ starter' = {rights}
  /\ UNCHANGED <<profile, keyring, rights, senders, editor, applying, usable, reader, outgoing, live, seen, stale, saves, trouble>>

StartWrites ==
  /\ \E read \in starter :
       rights' = [read EXCEPT !.workspaces = {Root}] /\ stale' = (stale \/ rights # read)
  /\ starter' = {}
  /\ UNCHANGED <<profile, keyring, senders, editor, applying, usable, reader, outgoing, live, seen, saves, trouble>>

-----------------------------------------------------------------------------
(* set_client_state, from the list of clients and from the end of a task     *)
(* that applies a configuration; an account is disabled or enabled.          *)
SetsState(state) ==
  /\ editor = Idle /\ state # profile.state /\ profile.state \notin {"absent", "revoked"}
  /\ profile' = [profile EXCEPT !.state = state]
  /\ keyring' = (keyring /\ state # "revoked")
  /\ UNCHANGED <<rights, senders, editor, starter, applying, usable, reader, outgoing, live, seen, stale, saves, trouble>>

Applies ==
  /\ ~applying /\ editor = Idle /\ profile.state \notin {"absent", "revoked"} /\ trouble < MaxTrouble
  /\ applying' = TRUE /\ trouble' = trouble + 1
  /\ UNCHANGED <<profile, keyring, rights, senders, editor, starter, usable, reader, outgoing, live, seen, stale, saves>>

Applied ==
  /\ applying /\ applying' = FALSE
  /\ profile' = [profile EXCEPT !.state = "active"]
  /\ UNCHANGED <<keyring, rights, senders, editor, starter, usable, reader, outgoing, live, seen, stale, saves, trouble>>

Switches(a) ==
  /\ trouble < MaxTrouble /\ trouble' = trouble + 1
  /\ usable' = IF a \in usable THEN usable \ {a} ELSE usable \cup {a}
  /\ UNCHANGED <<profile, keyring, rights, senders, editor, starter, applying, reader, outgoing, live, seen, stale, saves>>

-----------------------------------------------------------------------------
(* resolve_identity: the row, then the rights, then the senders.             *)
EffectiveAccounts(mode, chosen) == IF mode = "all" THEN usable ELSE chosen
\* Mutant: nobody chosen is everybody.
EffectiveSendersOfNone(mode, chosen) == IF mode = "all" \/ chosen = {} THEN usable ELSE chosen \cap usable
EffectiveSenders(mode, chosen) == IF mode = "all" THEN usable ELSE chosen \cap usable

\* An execution takes the token from the keyring (get_scoped_token), a call brings its own.
Known(purpose) == profile.state = "active" /\ (purpose # "call" => keyring)
Begins(purpose) ==
  /\ Known(purpose)
  /\ reader' = [NoIdentity EXCEPT !.at = "rights", !.purpose = purpose, !.row = profile.modes]
  /\ seen' = live

ReadsRights ==
  /\ reader.at = "rights"
  /\ reader' = [reader EXCEPT !.at = "senders", !.caps = rights.caps,
                  !.accounts = EffectiveAccounts(reader.row.accountMode, rights.accounts)]
  /\ UNCHANGED <<profile, keyring, rights, senders, editor, starter, applying, usable, outgoing, live, seen, stale, saves, trouble>>

ReadsSenders ==
  /\ reader.at = "senders"
  /\ reader' = [reader EXCEPT !.at = "known", !.senders = EffectiveSenders(reader.row.senderMode, senders)]
  /\ UNCHANGED <<profile, keyring, rights, senders, editor, starter, applying, usable, outgoing, live, seen, stale, saves, trouble>>

\* require_capability and require_send_account, which looks the account up again.
MaySend(identity) == "send" \in identity.caps /\ Sender \in identity.senders /\ Sender \in usable

\* A call of the Agent, _authenticate of mcp_server.py, and send_agent_mail, which stores a request.
Calls ==
  /\ outgoing.status = None /\ reader.at = "idle" /\ Begins("call")
  /\ UNCHANGED <<profile, keyring, rights, senders, editor, starter, applying, usable, outgoing, live, stale, saves, trouble>>

Stores ==
  /\ reader.at = "known" /\ reader.purpose = "call"
  /\ IF MaySend(reader)
     THEN outgoing' = [mode |-> reader.row.sending, status |-> IF reader.row.sending = "autonomous" THEN "ready" ELSE "pending"]
     ELSE outgoing' = outgoing
  /\ reader' = [reader EXCEPT !.at = "idle"]
  /\ UNCHANGED <<profile, keyring, rights, senders, editor, starter, applying, usable, live, seen, stale, saves, trouble>>

\* _execute_send_request, of an autonomous call or when the user confirms.  What it refuses stays as it is:
\* a pending request can be confirmed again, the other one is left behind.
Unclaimed == IF outgoing.mode = "autonomous" THEN "left" ELSE "pending"

\* Mutant: what the call was allowed is still allowed.
ExecutesAsCaller ==
  /\ outgoing.status \in {"pending", "ready"} /\ reader.at = "idle" /\ Known("run")
  /\ reader' = [reader EXCEPT !.at = "known", !.purpose = "ask"] /\ seen' = live
  /\ UNCHANGED <<profile, keyring, rights, senders, editor, starter, applying, usable, outgoing, live, stale, saves, trouble>>
Executes ==
  /\ outgoing.status \in {"pending", "ready"} /\ reader.at = "idle" /\ Begins("run")
  /\ UNCHANGED <<profile, keyring, rights, senders, editor, starter, applying, usable, outgoing, live, stale, saves, trouble>>

\* The claim; execute_agent_send then asks a second time, with an identity of its own.
Claims ==
  /\ reader.at = "known" /\ reader.purpose = "run"
  /\ reader' = [reader EXCEPT !.at = IF MaySend(reader) THEN "claimed" ELSE "idle"]
  /\ outgoing' = [outgoing EXCEPT !.status = IF MaySend(reader) THEN "claimed" ELSE Unclaimed]
  /\ UNCHANGED <<profile, keyring, rights, senders, editor, starter, applying, usable, live, seen, stale, saves, trouble>>

Asks ==
  /\ reader.at = "claimed" /\ Begins("ask")
  /\ UNCHANGED <<profile, keyring, rights, senders, editor, starter, applying, usable, outgoing, live, stale, saves, trouble>>

\* A client that is not known is refused: at the first asking the request stays, at the second it has failed.
Refused ==
  /\ ~Known("run")
  /\ \/ outgoing.status = "ready" /\ reader.at = "idle" /\ outgoing' = [outgoing EXCEPT !.status = "left"]
     \/ reader.at = "claimed" /\ outgoing' = [outgoing EXCEPT !.status = "failed"]
  /\ reader' = [reader EXCEPT !.at = "idle"]
  /\ UNCHANGED <<profile, keyring, rights, senders, editor, starter, applying, usable, live, seen, stale, saves, trouble>>

Sends ==
  /\ reader.at = "known" /\ reader.purpose = "ask"
  /\ outgoing' = [outgoing EXCEPT !.status = IF MaySend(reader) THEN "sent" ELSE "failed"]
  /\ reader' = [reader EXCEPT !.at = "idle"]
  /\ UNCHANGED <<profile, keyring, rights, senders, editor, starter, applying, usable, live, seen, stale, saves, trouble>>

Next ==
  \/ \E s \in Settings : Opens(s) \/ Creates(s)
  \/ KeepsToken \/ CreateFails
  \/ SavesRights \/ SaveRefused \/ SavesSenders \/ SavesModes \/ SaveFails
  \/ StartReads \/ StartWrites
  \/ \E state \in {"active", "paused", "revoked"} : SetsState(state)
  \/ Applies \/ Applied \/ \E a \in Accounts : Switches(a)
  \/ Calls \/ ReadsRights \/ ReadsSenders \/ Stores
  \/ Executes \/ Claims \/ Asks \/ Refused \/ Sends

Spec == Init /\ [][Next]_vars

-----------------------------------------------------------------------------
TypeOK ==
  /\ profile.state \in {"absent", "new", "active", "paused", "revoked"} /\ keyring \in BOOLEAN
  /\ profile.modes.sending \in {"confirm", "autonomous"}
  /\ {profile.modes.accountMode, profile.modes.senderMode, profile.modes.workspaceMode} \subseteq Modes
  /\ rights.caps \subseteq Caps /\ rights.accounts \subseteq Accounts /\ senders \subseteq Accounts
  /\ editor.at \in {"idle", "row", "rights", "senders", "modes"} /\ usable \subseteq Accounts
  /\ reader.at \in {"idle", "rights", "senders", "known", "claimed"}
  /\ outgoing.status \in {None, "pending", "ready", "left", "claimed", "failed", "sent"}
  /\ live \subseteq Settings /\ seen \subseteq Settings

GrantedAccounts(s) == IF s.accountMode = "all" THEN Accounts ELSE s.accounts
GrantedSenders(s) == IF s.senderMode = "all" THEN Accounts ELSE s.senders

\* An identity is read in three statements and a setting is written in three, without a transaction around
\* either; no scope of an identity may be wider than a setting gave it that was stored, or being stored,
\* while it was read.
NoScopeIsWidened ==
  reader.at = "known" /\ ~stale =>
    /\ \E s \in seen : reader.caps \subseteq s.caps
    /\ \E s \in seen : reader.accounts \subseteq GrantedAccounts(s)
    /\ \E s \in seen : reader.senders \subseteq GrantedSenders(s)

\* What the user confirms, or the Agent sends, is authorised again by what is stored when it is executed:
\* a right that was withdrawn since the request was made sends nothing.
SentWasAllowed ==
  outgoing.status = "sent" /\ ~stale =>
    /\ \E s \in seen : "send" \in s.caps
    /\ \E s \in seen : Sender \in GrantedSenders(s)

\* What the code does not keep: a request runs by itself although no setting lets the client send by itself,
\* a revoked client stays revoked.
NothingIsMixed ==
  reader.at = "known" /\ reader.purpose = "call" /\ MaySend(reader) /\ reader.row.sending = "autonomous" =>
    \E s \in seen : "send" \in s.caps /\ s.sending = "autonomous"
RevokedStays == [][profile.state = "revoked" => profile'.state = "revoked"]_vars

=============================================================================
