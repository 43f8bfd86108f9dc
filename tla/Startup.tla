------------------------------- MODULE Startup ------------------------------
(* ApplicationService.initialize: a database of an older version is backed  *)
(* up, migrated, and what it holds is completed: the mailboxes a client may *)
(* read, the packages of the older messages, the contacts of the packages.  *)
(* The window and the MCP server may start at once, each may stop anywhere, *)
(* and the owner already works in the one that is ready.                    *)
EXTENDS Naturals, FiniteSets, Sequences

CONSTANTS
  Procs, Messages, Files,
  From,                               \* the versions a start may find
  MaxTurns, MaxChoices                \* bounds: starts and failures together; choices of the owner

VARIABLES
  version,     \* what the committed schema is of: see Versions
  receives,    \* mail_accounts.receive_enabled of the account of the older version
  owner,       \* account_id of the received_messages of the older version
  config,      \* the receiving account of the settings: legacy_accounts_from_config
  scope,       \* agent_client_mailbox_scopes of the client
  linked,      \* received_messages with a package_id
  bare,        \* mail_packages without contacts_json
  staging,     \* .staging/<package_id>.tmp: the files in it
  root,        \* package_root: the files in it
  saved,     \* data_root/backups: what was saved of the database
  proc,        \* a starting process
  unread,      \* files some start could not read: their resource is stored as failed
  original, chosen, overtaken, starts, choices, failures

database == <<version, receives, owner, config, scope, linked, bare>>
packages == <<staging, root, unread>>
ghosts == <<original, chosen, overtaken, starts, choices, failures>>
vars == <<database, packages, saved, proc, ghosts>>

\* 0 no database, 1 before mail_packages, 2 v1.2.1, 3 v1.3, 4 v1.4, 5 v1.6 agent clients, 6 v1.7, 7 v1.7.1
Versions == 0..7
Current == 7
Flags == <<"archive", "account", "agent", "outbound", "v17", "v171", "v13">>
Whole == Files \cup {"manifest"}
Image == [version |-> version, linked |-> linked]

\* legacy_archive_backfill_needed ... v13_mail_migration_needed: each opens the database for itself
NeedsArchive == version >= 1 /\ linked # Messages
NeedsAccounts == version \in 1..4
NeedsAgent == version \in 2..4
NeedsOutbound == version = 1
NeedsV17 == version \in 2..5
NeedsV171Older == version \in 2..5
NeedsV171 == version \in 2..6
NeedsV13 == version = 2 \/ bare # {}
Needed(flag) ==
  \/ flag = "archive" /\ NeedsArchive
  \/ flag = "account" /\ NeedsAccounts
  \/ flag = "agent" /\ NeedsAgent
  \/ flag = "outbound" /\ NeedsOutbound
  \/ flag = "v17" /\ NeedsV17
  \/ flag = "v171" /\ NeedsV171
  \/ flag = "v13" /\ NeedsV13

\* The versions a start may find are known, and no file of a package has the name of its manifest.
Known == From \subseteq Versions /\ "manifest" \notin Files

Said(on) == IF on THEN "on" ELSE "off"
Off == [at |-> "off", read |-> 0, flags |-> {}, todo |-> {}, row |-> "none", left |-> {}, inRoot |-> FALSE]

\* A message of an older version is archived in version 2 and later unless its archiving failed before.
Init ==
  /\ version \in From
  /\ receives \in BOOLEAN /\ (version < 5 => ~receives)
  /\ owner = IF version < 4 THEN "none" ELSE "a"
  /\ config = "a"
  /\ scope \in {"nobody", "none", "own"}
  /\ version < 5 => scope = "nobody"
  /\ scope = "own" => version >= 6
  /\ linked \in SUBSET Messages /\ (version < 2 => linked = {})
  /\ bare \in SUBSET linked /\ (version = 2 => bare = linked)
  /\ staging = [m \in Messages |-> {}]
  /\ root = [m \in Messages |-> IF m \in linked THEN Whole ELSE {}]
  /\ unread = [m \in Messages |-> {}]
  /\ saved = {}
  /\ proc = [p \in Procs |-> Off]
  /\ original = Image
  /\ chosen = [receives |-> IF version < 5 THEN "unasked" ELSE Said(receives),
               scope |-> IF version < 6 THEN "unasked" ELSE scope]
  /\ overtaken = FALSE
  /\ starts = 0 /\ choices = 0 /\ failures = 0

Goes(p, where) == proc' = [proc EXCEPT ![p].at = where]

NextRow(p) ==
  proc' = [proc EXCEPT ![p].at = "rows", ![p].row = "none", ![p].left = {}, ![p].inRoot = FALSE]

Starts(p) ==
  /\ proc[p].at = "off" /\ starts + failures < MaxTurns
  /\ Goes(p, "flags")
  /\ starts' = starts + 1
  /\ UNCHANGED <<database, packages, saved, original, chosen, overtaken, choices, failures>>

ReadsFlag(p) ==
  LET flag == Flags[proc[p].read + 1] IN
  /\ proc[p].at = "flags" /\ proc[p].read < Len(Flags)
  /\ proc' = [proc EXCEPT ![p].read = @ + 1,
                          ![p].flags = IF Needed(flag) THEN @ \cup {flag} ELSE @]
  /\ UNCHANGED <<database, packages, saved, ghosts>>

\* create_database_backup; what fails here ends the start (Stops)
BacksUp(p) ==
  /\ proc[p].at = "flags" /\ proc[p].read = Len(Flags)
  /\ saved' = IF proc[p].flags = {} THEN saved ELSE saved \cup {Image}
  /\ Goes(p, "init")
  /\ UNCHANGED <<database, packages, ghosts>>

OpensByFlag(p) == "account" \in proc[p].flags
\* _upgrade_provider_runtime_v142 runs when the version read in the transaction is before its own
OpensReceiving(p) == version < 5

\* _backfill_multi_account_ownership: a row without an account gets that of the settings
OwnedAnew == config
Owned == IF owner = "none" THEN config ELSE owner

\* init_db: one transaction, from the schema to the ownership of the older rows
InitsDb(p) ==
  /\ proc[p].at = "init"
  /\ receives' = (receives \/ OpensReceiving(p))
  /\ owner' = Owned
  /\ version' = Current
  /\ Goes(p, "seed")
  /\ UNCHANGED <<config, scope, linked, bare, packages, saved, ghosts>>

SeedsEveryStart(p) == TRUE
SeedsAtAll(p) == "v17" \in proc[p].flags

\* seed_v17_legacy_mailbox_scopes: what the client has now is read, then replaced
ReadsScope(p) ==
  /\ proc[p].at = "seed"
  /\ Goes(p, IF SeedsAtAll(p) /\ scope = "none" THEN "seeds" ELSE "archive")
  /\ UNCHANGED <<database, packages, saved, ghosts>>

Seeds(p) ==
  /\ proc[p].at = "seeds"
  /\ scope' = "seeded"
  /\ Goes(p, "archive")
  /\ UNCHANGED <<version, receives, owner, config, linked, bare, packages, saved, ghosts>>

\* backfill_legacy_mail_packages lists the messages without a package
Lists(p) ==
  /\ proc[p].at = "archive"
  /\ proc' = [proc EXCEPT ![p].todo = IF "archive" \in proc[p].flags THEN Messages \ linked ELSE {},
                          ![p].at = "rows"]
  /\ UNCHANGED <<database, packages, saved, ghosts>>

FilesOfNewOnly(m) == IF staging[m] = {} THEN Files ELSE {}
\* every file is copied again, whatever an earlier start left in the directory
FilesToCopy(m) == Files

Takes(p) ==
  /\ proc[p].at = "rows"
  /\ \E m \in proc[p].todo :
       proc' = [proc EXCEPT ![p].at = "copies", ![p].row = m,
                            ![p].todo = @ \ {m}, ![p].left = FilesToCopy(m),
                            ![p].inRoot = root[m] # {}]
  /\ UNCHANGED <<database, packages, saved, ghosts>>

Writes(p, file) ==
  LET m == proc[p].row IN
  IF proc[p].inRoot
  THEN root' = [root EXCEPT ![m] = @ \cup {file}] /\ UNCHANGED staging
  ELSE staging' = [staging EXCEPT ![m] = @ \cup {file}] /\ UNCHANGED root

\* _copy_atomic makes the directory again when the other process has moved it away; a file that cannot be
\* read is stored as failed and the message is not taken again.
Copies(p) ==
  /\ proc[p].at = "copies"
  /\ \E file \in proc[p].left :
       /\ \/ Writes(p, file) /\ UNCHANGED <<unread, failures>>
          \/ /\ starts + failures < MaxTurns
             /\ failures' = failures + 1
             /\ unread' = [unread EXCEPT ![proc[p].row] = @ \cup {file}]
             /\ UNCHANGED <<staging, root>>
       /\ proc' = [proc EXCEPT ![p].left = @ \ {file}]
  /\ UNCHANGED <<database, saved, original, chosen, overtaken, starts, choices>>

WritesManifest(p) ==
  /\ proc[p].at = "copies" /\ proc[p].left = {}
  /\ Writes(p, "manifest") /\ UNCHANGED unread
  /\ Goes(p, IF proc[p].inRoot THEN "store" ELSE "publish")
  /\ UNCHANGED <<database, saved, ghosts>>

\* What fails between package_root.exists() and the replacement is RowFails.
Publishes(p) ==
  LET m == proc[p].row IN
  /\ proc[p].at = "publish"
  /\ IF root[m] = {}
     THEN /\ root' = [root EXCEPT ![m] = staging[m]] /\ staging' = [staging EXCEPT ![m] = {}]
          /\ UNCHANGED unread
     ELSE UNCHANGED packages
  /\ Goes(p, "store")
  /\ UNCHANGED <<database, saved, ghosts>>

\* store_mail_archive_atomically: the package, its resources and the link of the message in one transaction
Stores(p) ==
  /\ proc[p].at = "store"
  /\ linked' = linked \cup {proc[p].row}
  /\ NextRow(p)
  /\ UNCHANGED <<version, receives, owner, config, scope, bare, packages, saved, ghosts>>

\* The exception of one message is counted; what it left on the disk stays.
RowFails(p) ==
  /\ proc[p].at \in {"copies", "publish", "store"} /\ starts + failures < MaxTurns
  /\ failures' = failures + 1
  /\ NextRow(p)
  /\ UNCHANGED <<database, packages, saved, original, chosen, overtaken, starts, choices>>

\* backfill_mail_contact_facts: a package whose raw.eml cannot be read stays without, and the service is ready
FillsContacts(p) ==
  /\ proc[p].at = "rows" /\ proc[p].todo = {}
  /\ \E illegible \in SUBSET bare :
       bare' = IF "v13" \in proc[p].flags THEN illegible ELSE bare
  /\ proc' = [proc EXCEPT ![p] = [Off EXCEPT !.at = "ready"]]
  /\ UNCHANGED <<version, receives, owner, config, scope, linked, packages, saved, ghosts>>

\* an exception out of initialize, the end of the process, or its death: nothing is kept but what was written
Stops(p) ==
  /\ proc[p].at # "off"
  /\ proc' = [proc EXCEPT ![p] = Off]
  /\ UNCHANGED <<database, packages, saved, ghosts>>

\* The owner works in a process that is ready: he switches receiving, says
\* what the client may read, or enters another address in the settings.
OwnerChooses(p) ==
  /\ proc[p].at = "ready" /\ choices < MaxChoices
  /\ choices' = choices + 1
  /\ \/ \E on \in BOOLEAN :
          /\ receives' = on
          /\ chosen' = [chosen EXCEPT !.receives = Said(on)]
          /\ UNCHANGED <<config, scope, overtaken>>
     \/ /\ config' = "b"
        /\ UNCHANGED <<receives, scope, chosen, overtaken>>
     \/ \E may \in {"none", "own"} :
          /\ scope' = may
          /\ chosen' = [chosen EXCEPT !.scope = may]
          /\ overtaken' = \E q \in Procs : proc[q].at \notin {"off", "ready"} /\ SeedsAtAll(q)
          /\ UNCHANGED <<config, receives>>
  /\ UNCHANGED <<version, owner, linked, bare, packages, saved, proc, original, starts, failures>>

Next ==
  \E p \in Procs :
    \/ Starts(p) \/ ReadsFlag(p) \/ BacksUp(p) \/ InitsDb(p)
    \/ ReadsScope(p) \/ Seeds(p)
    \/ Lists(p) \/ Takes(p) \/ Copies(p) \/ WritesManifest(p) \/ Publishes(p) \/ Stores(p) \/ RowFails(p)
    \/ FillsContacts(p) \/ Stops(p) \/ OwnerChooses(p)

Spec == Init /\ [][Next]_vars

TypeOK ==
  /\ version \in Versions /\ receives \in BOOLEAN
  /\ owner \in {"none", "a", "b"} /\ config \in {"a", "b"}
  /\ scope \in {"nobody", "none", "own", "seeded"}
  /\ bare \subseteq linked /\ linked \subseteq Messages
  /\ \A m \in Messages : staging[m] \subseteq Whole /\ root[m] \subseteq Whole
  /\ \A p \in Procs : proc[p].todo \subseteq Messages /\ proc[p].left \subseteq Files
  /\ saved \subseteq [version : Versions, linked : SUBSET Messages]

\* Whatever two starts and their deaths do, nothing of the database that was found is migrated or completed
\* before a backup of it exists (the backup before init_db).
BackedUpFirst ==
  Image # original /\ original.version > 0 => original \in saved

\* What the owner chose stays: receiving is opened once, in the upgrade, and mailboxes are given to a client
\* only by the start that upgraded it, not after he has chosen. A start that read its flags before the upgrade
\* and seeds after his choice is the exception the code makes.
ChoicesSurvive ==
  /\ chosen.receives # "unasked" => Said(receives) = chosen.receives
  /\ chosen.scope # "unasked" /\ ~overtaken => scope = chosen.scope

\* The account a start gave the older mail stays its account, whatever the settings say at a later start.
OwnershipStays == [][owner # "none" => owner' = owner]_owner

\* A message linked to a package has there its manifest and all its files but those a start could not read,
\* whichever starts were interrupted or worked on it at once.
LinkedIsWhole == \A m \in linked : Whole \ unread[m] \subseteq root[m]
=============================================================================
