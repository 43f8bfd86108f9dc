------------------------------ MODULE Accounts ------------------------------
(* One mail account (application_service.py, account_management.py,          *)
(* account_runtime.py, credentials.py, database.py): its row, its secrets in  *)
(* the keyring, its OAuth token and its synchronisation switch are four       *)
(* stores without a common transaction.  The owner's operations run in the    *)
(* window's thread, one at a time; tasks run beside it, of the same process   *)
(* or another: they take over the configured account of an older version and  *)
(* write back what they read.                                                 *)
EXTENDS Naturals, Sequences

CONSTANTS
  Providers,  \* "gmail", "qq" or "other"
  Tasks,      \* receives and listings beside the owner
  MaxOps, MaxFaults

VARIABLES
  provider,
  configured,   \* the address is the one of the older version's configuration
  account,      \* the row: state and enabled
  switch,       \* account_sync_states.enabled
  allOn,        \* auto_receive_state.enabled
  secrets,      \* the account's secrets
  legacySecret, \* the secret of the older version
  remembered,   \* ... as the window's process has it in memory
  token,        \* the account's token file
  marker,       \* .legacy-import-complete
  owner,        \* the operation of the owner: where it is and what it still does
  tasks,        \* a task: where it is, the secret it looks at and what it read
  chosen,       \* history: what the owner made of the account
  told,         \* history: the owner was told that his new secret is saved
  cleaned,      \* history: what the owner was told is deleted
  before,       \* history: tasks under way when the owner last wrote
  overtaken,    \* history: such a task wrote over it
  ops, faults

Known == Providers \subseteq {"gmail", "qq", "other"} /\ MaxOps \in Nat /\ MaxFaults \in Nat

vars == <<provider, configured, account, switch, allOn, secrets, legacySecret, remembered, token, marker, owner, tasks, chosen, told, cleaned, before, overtaken, ops, faults>>

Kinds == {"imap", "smtp"}
NoOne == "none"
Nothing == ""

\* The secrets an account has, in the order of the code, and for which of them it falls back on the older one.
KindsOf == IF provider = "gmail" THEN <<"imap">> ELSE <<"imap", "smtp">>
FallsBack(kind) ==
  /\ configured
  /\ \/ provider = "gmail" /\ kind = "imap"
     \/ provider = "qq"
\* _legacy_credential_name: the older secret that goes with one that is deleted.
GoesWith(kind) ==
  /\ configured
  /\ \/ provider = "gmail" /\ kind = "imap"
     \/ provider = "qq" /\ kind = "smtp"

IdleOwner == [at |-> "idle", op |-> NoOne, todo |-> <<>>, new |-> FALSE, clean |-> {}, failed |-> FALSE, previous |-> Nothing]
IdleTask == [at |-> "idle", todo |-> <<>>, read |-> Nothing, on |-> FALSE, lists |-> FALSE]
Live == account.state = "live"
UnderWay == {t \in Tasks : tasks[t].at # "idle"}

Init ==
  /\ provider \in Providers
  /\ configured \in (IF provider = "other" THEN {FALSE} ELSE BOOLEAN)
  /\ account = IF configured THEN [state |-> "live", enabled |-> TRUE] ELSE [state |-> NoOne, enabled |-> FALSE]
  /\ switch = FALSE /\ allOn \in BOOLEAN
  /\ secrets = [k \in Kinds |-> Nothing]
  /\ legacySecret = IF configured THEN "old" ELSE Nothing
  /\ remembered = legacySecret
  /\ token = Nothing /\ marker = FALSE
  /\ owner = IdleOwner
  /\ tasks = [t \in Tasks |-> IdleTask]
  /\ chosen = account
  /\ told = FALSE /\ cleaned = {} /\ before = {} /\ overtaken = FALSE
  /\ ops = 0 /\ faults = 0

Fails == faults < MaxFaults /\ faults' = faults + 1
\* The owner writes: a task that is under way may yet write what it read before.
Writes == before' = before \cup UnderWay
\* A task writes what it read.
WritesBack(t, changes) == overtaken' = (overtaken \/ (changes /\ t \in before))

-----------------------------------------------------------------------------
(* The operations of the owner.                                              *)
Starts(op) == /\ owner = IdleOwner /\ ops < MaxOps /\ ops' = ops + 1
              /\ UNCHANGED <<provider, allOn, token, marker, tasks, faults>>

\* create_mail_account: the row, made or restored, in one transaction.
Creates(new) ==
  /\ Starts("create") /\ ~Live
  /\ account' = [state |-> "live", enabled |-> TRUE] /\ chosen' = [state |-> "live", enabled |-> TRUE]
  /\ owner' = [IdleOwner EXCEPT !.at = "switch", !.op = "create", !.new = new,
                                !.todo = IF new THEN KindsOf ELSE <<>>]
  /\ Writes
  /\ UNCHANGED <<configured, switch, secrets, legacySecret, remembered, told, cleaned, overtaken>>

\* The switch stays with a disabled account.
AcceptsRowOnly(on, new) ==
  /\ Starts("accept") /\ Live
  /\ account' = [account EXCEPT !.enabled = on] /\ chosen' = [state |-> "live", enabled |-> on]
  /\ owner' = [IdleOwner EXCEPT !.at = IF on THEN "switch" ELSE "secrets", !.op = "accept", !.new = new,
                                !.todo = IF new THEN KindsOf ELSE <<>>]
  /\ Writes
  /\ UNCHANGED <<configured, switch, secrets, legacySecret, remembered, told, cleaned, overtaken>>
\* RuntimeAccountDialog.accept: a disabled account loses its switch in the transaction of the row.
Accepts(on, new) ==
  /\ Starts("accept") /\ Live
  /\ account' = [account EXCEPT !.enabled = on] /\ chosen' = [state |-> "live", enabled |-> on]
  /\ switch' = (switch /\ on)
  /\ owner' = [IdleOwner EXCEPT !.at = IF on THEN "switch" ELSE "secrets", !.op = "accept", !.new = new,
                                !.todo = IF new THEN KindsOf ELSE <<>>]
  /\ Writes
  /\ UNCHANGED <<configured, secrets, legacySecret, remembered, told, cleaned, overtaken>>

\* create_mail_account and update_mail_account: the switch of all accounts is copied after the row.
CopiesSwitch ==
  /\ owner.at = "switch"
  /\ switch' = allOn
  /\ owner' = [owner EXCEPT !.at = "secrets"]
  /\ Writes
  /\ UNCHANGED <<provider, configured, account, allOn, secrets, legacySecret, remembered, token, marker, tasks, chosen, told, cleaned, overtaken, ops, faults>>

\* CredentialService.set: a failed write puts the previous value back.
SetsSecret ==
  /\ owner.at = "secrets" /\ owner.todo # <<>>
  /\ \/ /\ secrets' = [secrets EXCEPT ![Head(owner.todo)] = "new"]
        /\ owner' = [owner EXCEPT !.todo = Tail(@)]
        /\ cleaned' = cleaned \ {"secrets"} /\ Writes
        /\ UNCHANGED <<told, faults>>
     \/ /\ Fails
        /\ owner' = IdleOwner /\ told' = FALSE
        /\ UNCHANGED <<secrets, cleaned, before>>
  /\ UNCHANGED <<provider, configured, account, switch, allOn, legacySecret, remembered, token, marker, tasks, chosen, overtaken, ops>>

IsTold ==
  /\ owner.at = "secrets" /\ owner.todo = <<>>
  /\ told' = (told \/ owner.new)
  /\ owner' = IdleOwner
  /\ UNCHANGED <<provider, configured, account, switch, allOn, secrets, legacySecret, remembered, token, marker, tasks, chosen, cleaned, before, overtaken, ops, faults>>

\* remove_mail_account: with the token to be deleted its path comes from the account's context,
\* which takes over the older secret and token first.
Removes(clean) ==
  /\ Starts("remove") /\ Live
  /\ owner' = [IdleOwner EXCEPT !.at = IF "token" \in clean /\ provider = "gmail" THEN "paths" ELSE "row",
                                !.op = "remove", !.clean = clean]
  /\ UNCHANGED <<configured, account, switch, secrets, legacySecret, remembered, chosen, told, cleaned, before, overtaken>>

FindsToken ==
  /\ owner.at = "paths"
  /\ \/ /\ secrets' = [k \in Kinds |-> IF FallsBack(k) /\ secrets[k] = Nothing THEN legacySecret ELSE secrets[k]]
        /\ token' = IF configured /\ ~marker /\ token = Nothing THEN "old" ELSE token
        /\ marker' = (marker \/ configured)
        /\ owner' = [owner EXCEPT !.at = "row"]
        /\ cleaned' = {c \in cleaned : c # "secrets" \/ secrets' = secrets}
        /\ UNCHANGED faults
     \/ /\ Fails
        /\ owner' = [owner EXCEPT !.at = "row", !.clean = @ \ {"token"}, !.failed = TRUE]
        /\ UNCHANGED <<secrets, token, marker, cleaned>>
  /\ UNCHANGED <<provider, configured, account, switch, allOn, legacySecret, remembered, tasks, chosen, told, before, overtaken, ops>>

RemovesRow ==
  /\ owner.at = "row"
  /\ account' = [state |-> "removed", enabled |-> FALSE] /\ chosen' = [state |-> "removed", enabled |-> FALSE]
  /\ switch' = FALSE
  /\ owner' = [owner EXCEPT !.at = "clean", !.todo = IF "secrets" \in owner.clean THEN <<"imap", "smtp">> ELSE <<>>]
  /\ Writes
  /\ UNCHANGED <<provider, configured, allOn, secrets, legacySecret, remembered, token, marker, tasks, told, cleaned, overtaken, ops, faults>>

\* The older secret is forgotten: only the account's own is deleted.
DeletesOwnSecretOnly ==
  /\ owner.at = "clean" /\ owner.todo # <<>>
  /\ secrets' = [secrets EXCEPT ![Head(owner.todo)] = Nothing]
  /\ owner' = [owner EXCEPT !.todo = Tail(@)]
  /\ told' = FALSE /\ Writes
  /\ UNCHANGED <<provider, configured, account, switch, allOn, legacySecret, remembered, token, marker, tasks, chosen, cleaned, overtaken, ops, faults>>

\* A secret that cannot be deleted does not stop the others.
DeletesSecret ==
  /\ owner.at = "clean" /\ owner.todo # <<>>
  /\ LET kind == Head(owner.todo) IN
     \/ /\ secrets' = [secrets EXCEPT ![kind] = Nothing]
        /\ legacySecret' = IF GoesWith(kind) THEN Nothing ELSE legacySecret
        /\ owner' = [owner EXCEPT !.todo = Tail(@)]
        /\ UNCHANGED faults
     \/ /\ Fails
        /\ owner' = [owner EXCEPT !.todo = Tail(@), !.failed = TRUE]
        /\ UNCHANGED <<secrets, legacySecret>>
  /\ told' = FALSE /\ Writes
  /\ UNCHANGED <<provider, configured, account, switch, allOn, remembered, token, marker, tasks, chosen, cleaned, overtaken, ops>>
DeletesToken ==
  /\ owner.at = "clean" /\ owner.todo = <<>>
  /\ \/ /\ token' = IF "token" \in owner.clean THEN Nothing ELSE token
        /\ cleaned' = IF owner.failed THEN cleaned ELSE cleaned \cup owner.clean
        /\ UNCHANGED faults
     \/ "token" \in owner.clean /\ Fails /\ UNCHANGED <<token, cleaned>>
  /\ owner' = IdleOwner /\ Writes
  /\ UNCHANGED <<provider, configured, account, switch, allOn, secrets, legacySecret, remembered, marker, tasks, chosen, told, overtaken, ops>>

\* AccountSettingsController, the dialogs of the older version: secret, configuration, row, and for QQ
\* the account's secrets.
SavesLegacy(new) ==
  /\ Starts("save") /\ ~Live /\ provider # "other"
  /\ new \/ remembered # Nothing
  /\ owner' = [IdleOwner EXCEPT !.at = "env", !.op = "save", !.new = new, !.previous = remembered]
  /\ IF new THEN /\ legacySecret' = "new" /\ remembered' = "new"
                 /\ cleaned' = cleaned \ {"secrets"}
            ELSE UNCHANGED <<legacySecret, remembered, cleaned>>
  /\ Writes
  /\ UNCHANGED <<configured, account, switch, secrets, chosen, told, overtaken>>

\* When the configuration cannot be written, the secret the process remembers is put back.  A
\* configuration that names the address anew makes the account's own what the older version left.
WritesEnv ==
  /\ owner.at = "env"
  /\ \/ /\ configured' = TRUE /\ owner' = [owner EXCEPT !.at = "upsert"]
        /\ cleaned' = IF configured THEN cleaned ELSE {}
        /\ UNCHANGED <<legacySecret, remembered, faults>>
     \/ /\ Fails
        /\ IF owner.new THEN legacySecret' = owner.previous /\ remembered' = owner.previous
                        ELSE UNCHANGED <<legacySecret, remembered>>
        /\ owner' = IdleOwner /\ UNCHANGED <<configured, cleaned>>
  /\ Writes
  /\ UNCHANGED <<provider, account, switch, allOn, secrets, token, marker, tasks, chosen, told, overtaken, ops>>

\* The record of the configuration replaces the row.
UpsertedAnew == IF configured THEN [state |-> "live", enabled |-> TRUE] ELSE account
\* sync_mail_accounts, _upsert_account_record: a row that is there keeps its state and switches.
Upserted ==
  IF configured /\ account.state = NoOne THEN [state |-> "live", enabled |-> TRUE] ELSE account
SavesAccount ==
  /\ owner.at = "upsert"
  /\ account' = Upserted
  /\ chosen' = IF configured /\ chosen.state = NoOne THEN [state |-> "live", enabled |-> TRUE] ELSE chosen
  /\ owner' = IF owner.new /\ provider = "qq" /\ account'.state = "live"
              THEN [owner EXCEPT !.at = "secrets", !.todo = KindsOf]
              ELSE IdleOwner
  /\ Writes
  /\ UNCHANGED <<provider, configured, switch, allOn, secrets, legacySecret, remembered, token, marker, tasks, told, cleaned, overtaken, ops, faults>>

\* save_auto_receive_state of the window: the switch of all accounts, and of each that is enabled.
SwitchesAll ==
  /\ owner = IdleOwner /\ ops < MaxOps /\ ops' = ops + 1
  /\ allOn' = ~allOn
  /\ switch' = IF account.enabled THEN ~allOn ELSE switch
  /\ Writes
  /\ UNCHANGED <<provider, configured, account, secrets, legacySecret, remembered, token, marker, owner, tasks, chosen, told, cleaned, overtaken, faults>>

\* delete_credential, of the dialogs of the older version.
DeletesLegacy ==
  /\ Starts("delete") /\ ~Live /\ provider # "other"
  /\ legacySecret' = Nothing /\ remembered' = Nothing
  /\ Writes
  /\ UNCHANGED <<configured, account, switch, secrets, owner, chosen, told, cleaned, overtaken>>

\* The process ends between two writes of an operation.
OwnerDies ==
  /\ owner # IdleOwner /\ Fails
  /\ owner' = IdleOwner
  /\ remembered' = legacySecret
  /\ told' = (told /\ owner.at # "secrets")
  /\ UNCHANGED <<provider, configured, account, switch, allOn, secrets, legacySecret, token, marker, tasks, chosen, cleaned, before, overtaken, ops>>

-----------------------------------------------------------------------------
(* The tasks: AccountRuntimeRouter.context, then the work.                   *)
Goes(t, task) == tasks' = [tasks EXCEPT ![t] = task]
Ends(t) == Goes(t, IdleTask) /\ before' = before \ {t}
InContext == [IdleTask EXCEPT !.at = "secrets", !.todo = KindsOf]

\* get_account: an account that is removed or disabled has no context.
Receives(t) ==
  /\ tasks[t] = IdleTask /\ Live /\ account.enabled
  /\ Goes(t, InContext)
  /\ UNCHANGED <<provider, configured, account, switch, allOn, secrets, legacySecret, remembered, token, marker, owner, chosen, told, cleaned, before, overtaken, ops, faults>>
\* list_mail_accounts: the configured account is written first; for Gmail the state of the session
\* needs the context, of a disabled account too.
Lists(t) ==
  /\ tasks[t] = IdleTask
  /\ account' = Upserted
  /\ chosen' = IF configured /\ chosen.state = NoOne THEN [state |-> "live", enabled |-> TRUE] ELSE chosen
  /\ IF provider = "gmail" /\ account'.state = "live"
     THEN Goes(t, [IdleTask EXCEPT !.at = "listed", !.lists = TRUE]) ELSE UNCHANGED tasks
  /\ UNCHANGED <<provider, configured, switch, allOn, secrets, legacySecret, remembered, token, marker, owner, told, cleaned, before, overtaken, ops, faults>>

Enters(t) ==
  /\ tasks[t].at = "listed"
  /\ IF Live THEN Goes(t, [InContext EXCEPT !.lists = TRUE]) /\ UNCHANGED before ELSE Ends(t)
  /\ UNCHANGED <<provider, configured, account, switch, allOn, secrets, legacySecret, remembered, token, marker, owner, chosen, told, cleaned, overtaken, ops, faults>>

\* The older secret goes before the account's own.
ReadsOlderFirst(t) ==
  /\ tasks[t].at = "secrets" /\ tasks[t].todo # <<>>
  /\ IF FallsBack(Head(tasks[t].todo)) /\ legacySecret # Nothing
     THEN Goes(t, [tasks[t] EXCEPT !.at = "migrates", !.read = legacySecret])
     ELSE Goes(t, [tasks[t] EXCEPT !.todo = Tail(@)])
  /\ UNCHANGED <<provider, configured, account, switch, allOn, secrets, legacySecret, remembered, token, marker, owner, chosen, told, cleaned, before, overtaken, ops, faults>>
\* get_for_account: the account's own secret, else the older one, which is taken over.
ReadsSecret(t) ==
  /\ tasks[t].at = "secrets" /\ tasks[t].todo # <<>>
  /\ LET kind == Head(tasks[t].todo) IN
     IF secrets[kind] = Nothing /\ FallsBack(kind) /\ legacySecret # Nothing
     THEN Goes(t, [tasks[t] EXCEPT !.at = "migrates", !.read = legacySecret])
     ELSE Goes(t, [tasks[t] EXCEPT !.todo = Tail(@)])
  /\ UNCHANGED <<provider, configured, account, switch, allOn, secrets, legacySecret, remembered, token, marker, owner, chosen, told, cleaned, before, overtaken, ops, faults>>

TakesSecret(t) ==
  /\ tasks[t].at = "migrates"
  /\ \/ /\ secrets' = [secrets EXCEPT ![Head(tasks[t].todo)] = tasks[t].read]
        /\ Goes(t, [tasks[t] EXCEPT !.at = "secrets", !.todo = Tail(@), !.read = Nothing])
        /\ WritesBack(t, secrets' # secrets)
        /\ UNCHANGED <<before, faults>>
     \/ Fails /\ Ends(t) /\ UNCHANGED <<secrets, overtaken>>
  /\ UNCHANGED <<provider, configured, account, switch, allOn, legacySecret, remembered, token, marker, owner, chosen, told, cleaned, ops>>

\* ensure_account_oauth_storage: the older token is copied once.
LooksAtToken(t) ==
  /\ tasks[t].at = "secrets" /\ tasks[t].todo = <<>>
  /\ Goes(t, [tasks[t] EXCEPT !.at = IF provider # "gmail" \/ ~configured \/ marker THEN "works"
                                     ELSE IF token = Nothing THEN "copies" ELSE "marks"])
  /\ UNCHANGED <<provider, configured, account, switch, allOn, secrets, legacySecret, remembered, token, marker, owner, chosen, told, cleaned, before, overtaken, ops, faults>>

CopiesToken(t) ==
  /\ tasks[t].at = "copies"
  /\ \/ token' = "old" /\ Goes(t, [tasks[t] EXCEPT !.at = "marks"]) /\ WritesBack(t, token' # token) /\ UNCHANGED <<before, faults>>
     \/ Fails /\ Ends(t) /\ UNCHANGED <<token, overtaken>>
  /\ UNCHANGED <<provider, configured, account, switch, allOn, secrets, legacySecret, remembered, marker, owner, chosen, told, cleaned, ops>>

Marks(t) ==
  /\ tasks[t].at = "marks"
  /\ \/ marker' = TRUE /\ Goes(t, [tasks[t] EXCEPT !.at = "works"]) /\ UNCHANGED <<before, faults>>
     \/ Fails /\ Ends(t) /\ UNCHANGED marker
  /\ UNCHANGED <<provider, configured, account, switch, allOn, secrets, legacySecret, remembered, token, owner, chosen, told, cleaned, overtaken, ops>>

\* save_auto_receive_state of a receive: it reads the whole state and writes it back.
ReadsState(t) ==
  /\ tasks[t].at = "works"
  /\ IF tasks[t].lists THEN Ends(t)
     ELSE Goes(t, [tasks[t] EXCEPT !.at = "saves", !.on = switch]) /\ UNCHANGED before
  /\ UNCHANGED <<provider, configured, account, switch, allOn, secrets, legacySecret, remembered, token, marker, owner, chosen, told, cleaned, overtaken, ops, faults>>

SavesState(t) ==
  /\ tasks[t].at = "saves"
  /\ switch' = tasks[t].on /\ WritesBack(t, switch' # switch)
  /\ Ends(t)
  /\ UNCHANGED <<provider, configured, account, allOn, secrets, legacySecret, remembered, token, marker, owner, chosen, told, cleaned, ops, faults>>

Next ==
  \/ \E new \in BOOLEAN : Creates(new) \/ SavesLegacy(new) \/ \E on \in BOOLEAN : Accepts(on, new)
  \/ CopiesSwitch \/ SetsSecret \/ IsTold
  \/ \E clean \in SUBSET {"secrets", "token"} : Removes(clean)
  \/ FindsToken \/ RemovesRow \/ DeletesSecret \/ DeletesToken
  \/ WritesEnv \/ SavesAccount \/ SwitchesAll \/ DeletesLegacy \/ OwnerDies
  \/ \E t \in Tasks :
       \/ Receives(t) \/ Lists(t) \/ Enters(t) \/ ReadsSecret(t) \/ TakesSecret(t)
       \/ LooksAtToken(t) \/ CopiesToken(t) \/ Marks(t) \/ ReadsState(t) \/ SavesState(t)

Spec == Init /\ [][Next]_vars

-----------------------------------------------------------------------------
TypeOK ==
  /\ provider \in Providers /\ configured \in BOOLEAN /\ switch \in BOOLEAN /\ allOn \in BOOLEAN
  /\ account \in [state : {NoOne, "live", "removed"}, enabled : BOOLEAN]
  /\ secrets \in [Kinds -> {Nothing, "old", "new"}]
  /\ legacySecret \in {Nothing, "old", "new"} /\ remembered \in {Nothing, "old", "new"}
  /\ token \in {Nothing, "old"} /\ marker \in BOOLEAN
  /\ owner.at \in {"idle", "switch", "secrets", "paths", "row", "clean", "env", "upsert"}
  /\ \A t \in Tasks : tasks[t].at \in {"idle", "listed", "secrets", "migrates", "copies", "marks", "works", "saves"}
  /\ before \subseteq Tasks /\ cleaned \subseteq {"secrets", "token"}

\* Whatever writes the configured account over and over, the account is in the state, and enabled or not,
\* as its owner left it.
RowIsAsChosen == account = chosen
\* What a removal told its owner to be deleted stays deleted, also when the account is made again: only a
\* task that was under way then can bring it back.
CleanedIsClean ==
  ~overtaken =>
    /\ "secrets" \in cleaned =>
         (\A k \in Kinds : secrets[k] = Nothing) /\ (provider # "other" /\ configured => legacySecret = Nothing)
    /\ "token" \in cleaned => token = Nothing
\* The secret its owner was told to be saved is the account's: only a task that was under way then can put
\* the older one in its place.
ToldIsTrue == told /\ ~overtaken => \A i \in DOMAIN KindsOf : secrets[KindsOf[i]] = "new"
\* An account is synchronised only while it and the synchronisation of all are enabled.
SwitchFollows == switch /\ ~overtaken => Live /\ account.enabled /\ allOn
=============================================================================
