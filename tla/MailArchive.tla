----------------------------- MODULE MailArchive ----------------------------
(***************************************************************************)
(* The archive of mails: which package an observation belongs to, the      *)
(* files written for it and the transaction that makes it a fact.  The     *)
(* lock of a package is a thread lock: archivers of one process wait for   *)
(* each other, those of two processes do not.                              *)
(***************************************************************************)
EXTENDS Naturals, FiniteSets, Sequences

CONSTANTS
  Mails,        \* mails that share a Message-ID and differ in content
  Archivers,    \* calls of archive_normalized_mail
  ProcessOf,    \* the process of an archiver
  UidIn,        \* UidIn[epoch][mail], the UID the server gives a mail
  MaxRuns,      \* bound on the calls
  MaxTrouble    \* bound on failing writes, failing downloads and crashes

VARIABLES
  row,      \* mail_packages and mail_resources, by package
  seats,    \* mail_package_mailboxes: where a package was seen
  dir,      \* the published directory of a package
  work,     \* what each archiver is doing
  epoch,    \* the UIDVALIDITY of the mailbox
  trusted,  \* the host of the download is a trusted domain
  told,     \* mails reported as archived
  runs, mishaps,
  shadowed, \* packages stored by an archiver whose own files were thrown away
  strained  \* packages whose files and rows may stem from different runs

vars == <<row, seats, dir, work, epoch, trusted, told, runs, mishaps, shadowed, strained>>

Nobody == "nobody"
Parts == {"attachment", "download"}
NoDir == [there |-> FALSE, raw |-> Nobody, files |-> {}, listed |-> FALSE, manifest |-> {}]
NoRow == [state |-> "none", raw |-> Nobody, names |-> {}]
Idle == [at |-> "idle", mail |-> Nobody, uid |-> 0, pkg |-> Nobody, fresh |-> FALSE,
         stage |-> NoDir, names |-> {}, had |-> FALSE, failed |-> FALSE]
Epochs == DOMAIN UidIn

\* Within one UIDVALIDITY the server gives each mail a UID of its own.
Numbered ==
  /\ Nobody \notin Mails
  /\ UidIn \in Seq([Mails -> Nat \ {0}]) /\ UidIn # <<>>
  /\ \A e \in Epochs : \A m, n \in Mails : UidIn[e][m] = UidIn[e][n] => m = n

\* The package that stable_package_id gives a mail bears the name of the mail.
Dirs == [there : BOOLEAN, raw : Mails \cup {Nobody}, files : SUBSET Parts,
         listed : BOOLEAN, manifest : SUBSET Parts]

TypeOK ==
  /\ row \in [Mails -> [state : {"none", "partial", "ready"}, raw : Mails \cup {Nobody}, names : SUBSET Parts]]
  /\ dir \in [Mails -> Dirs]
  /\ \A s \in seats : s.pkg \in Mails /\ s.epoch \in Epochs /\ s.uid \in Nat \ {0}
  /\ \A a \in Archivers :
       /\ work[a].at \in {"idle", "look", "raw", "attachment", "download", "manifest", "publish", "store"}
       /\ work[a].stage \in Dirs /\ work[a].names \subseteq Parts
  /\ told \subseteq Mails /\ shadowed \subseteq Mails /\ strained \subseteq Mails
  /\ epoch \in Epochs /\ trusted \in BOOLEAN

Init ==
  /\ row = [m \in Mails |-> NoRow] /\ seats = {}
  /\ dir = [m \in Mails |-> NoDir]
  /\ work = [a \in Archivers |-> Idle]
  /\ epoch = 1 /\ trusted = TRUE /\ told = {}
  /\ runs = 0 /\ mishaps = 0 /\ shadowed = {} /\ strained = {}

At(a, place) == work[a].at = place
Sets(a, w) == work' = [work EXCEPT ![a] = w]
Mishap == mishaps < MaxTrouble /\ mishaps' = mishaps + 1
Peers(a) == {b \in Archivers : b # a /\ work[b].at \notin {"idle", "look"} /\ work[b].pkg = work[a].pkg}

-----------------------------------------------------------------------------
(* Which package.                                                           *)

\* A receive knows the UID of the mail, the archive of a send has none.
Starts(a, m, observed) ==
  /\ At(a, "idle") /\ runs < MaxRuns
  /\ \A b \in Archivers : ProcessOf[b] = ProcessOf[a] => At(b, "idle")
  /\ runs' = runs + 1
  /\ Sets(a, [Idle EXCEPT !.at = "look", !.mail = m, !.uid = IF observed THEN UidIn[epoch][m] ELSE 0])
  /\ UNCHANGED <<row, seats, dir, epoch, trusted, told, mishaps, shadowed, strained>>

\* Mutant: a UID is a UID.
SeenAtAnyTime(uid) == {p \in Mails : \E s \in seats : s.pkg = p /\ s.uid = uid}

SeenAt(uid) == {p \in Mails : \E s \in seats : s.pkg = p /\ s.uid = uid /\ s.epoch = epoch}

\* get_mail_package_by_identity: the place in the mailbox, else the evidence of the content.
Seen(uid) == IF uid = 0 THEN {} ELSE SeenAt(uid)
Alike(m) == {p \in Mails : row[p].state # "none" /\ row[p].raw = m}
Existing(m, uid) ==
  IF Cardinality(Seen(uid)) = 1 THEN Seen(uid)
  ELSE IF Seen(uid) # {} \/ Cardinality(Alike(m)) # 1 THEN {} ELSE Alike(m)

\* An archived package is left alone when its directory, manifest and raw file are there.
IsWhole(p) == row[p].state = "ready" /\ dir[p].there /\ dir[p].listed /\ dir[p].raw # Nobody

\* Mutant: every archive is written in place.
IsNewNever(p) == FALSE

\* The package has no directory yet.
IsNew(p) == ~dir[p].there

Looks(a) ==
  /\ At(a, "look")
  /\ LET m == work[a].mail
         found == Existing(m, work[a].uid)
         pkg == IF found = {} THEN m ELSE CHOOSE p \in found : TRUE
     IN IF found # {} /\ IsWhole(pkg)
          THEN /\ Sets(a, Idle) /\ told' = told \cup {m}
          ELSE /\ Sets(a, [work[a] EXCEPT !.at = "raw", !.pkg = pkg, !.fresh = IsNew(pkg),
                                          !.had = found # {} /\ "download" \in row[pkg].names])
               /\ UNCHANGED told
  /\ UNCHANGED <<row, seats, dir, epoch, trusted, runs, mishaps, shadowed, strained>>

-----------------------------------------------------------------------------
(* Its files: in a staging directory, or in place when the package has one. *)

Place(a) == IF work[a].fresh THEN work[a].stage ELSE dir[work[a].pkg]

\* The archiver goes on with its record w and the content d of its directory.
Puts(a, w, d) ==
  IF work[a].fresh THEN Sets(a, [w EXCEPT !.stage = d]) /\ UNCHANGED dir
  ELSE Sets(a, w) /\ dir' = [dir EXCEPT ![work[a].pkg] = d]

\* Two archivers in one directory, or one that ends half way, leave files of two runs.
Strains(a) == strained' = IF work[a].fresh THEN strained ELSE strained \cup {work[a].pkg}

WritesRaw(a) ==
  /\ At(a, "raw")
  /\ Puts(a, [work[a] EXCEPT !.at = "attachment"], [Place(a) EXCEPT !.there = TRUE, !.raw = work[a].mail])
  /\ strained' = IF Peers(a) # {} THEN strained \cup {work[a].pkg} ELSE strained
  /\ UNCHANGED <<row, seats, epoch, trusted, told, runs, mishaps, shadowed>>

WritesAttachment(a) ==
  /\ At(a, "attachment")
  /\ Puts(a, [work[a] EXCEPT !.at = "download", !.names = {"attachment"}],
          [Place(a) EXCEPT !.files = @ \cup {"attachment"}])
  /\ UNCHANGED <<row, seats, epoch, trusted, told, runs, mishaps, shadowed, strained>>

\* A part that cannot be written is an error of the archive, not the end of it.
AttachmentFails(a) ==
  /\ At(a, "attachment") /\ Mishap
  /\ Sets(a, [work[a] EXCEPT !.at = "download", !.failed = TRUE])
  /\ UNCHANGED <<row, seats, dir, epoch, trusted, told, runs, shadowed, strained>>

\* Mutant: every run downloads anew.
PreservedNever(a) == FALSE

\* A download that is still there with its hash is kept.
Preserved(a) == work[a].had /\ "download" \in Place(a).files

Downloads(a) ==
  /\ At(a, "download") /\ trusted
  /\ Puts(a, [work[a] EXCEPT !.at = "manifest", !.names = @ \cup {"download"}],
          [Place(a) EXCEPT !.files = @ \cup {"download"}])
  /\ UNCHANGED <<row, seats, epoch, trusted, told, runs, mishaps, shadowed, strained>>

DownloadFails(a) ==
  /\ At(a, "download") /\ trusted /\ ~Preserved(a) /\ Mishap
  /\ Sets(a, [work[a] EXCEPT !.at = "manifest", !.failed = TRUE])
  /\ UNCHANGED <<row, seats, dir, epoch, trusted, told, runs, shadowed, strained>>

\* A download of an earlier run keeps its row, which nothing deletes, and leaves the manifest.
SkipsDownload(a) ==
  /\ At(a, "download") /\ ~trusted
  /\ Sets(a, [work[a] EXCEPT !.at = "manifest"])
  /\ strained' = IF "download" \in row[work[a].pkg].names THEN strained \cup {work[a].pkg} ELSE strained
  /\ UNCHANGED <<row, seats, dir, epoch, trusted, told, runs, mishaps, shadowed>>

WritesManifest(a) ==
  /\ At(a, "manifest")
  /\ Puts(a, [work[a] EXCEPT !.at = IF work[a].fresh THEN "publish" ELSE "store"],
          [Place(a) EXCEPT !.listed = TRUE, !.manifest = work[a].names])
  /\ UNCHANGED <<row, seats, epoch, trusted, told, runs, mishaps, shadowed, strained>>

\* One rename publishes the staging directory, unless another process has been faster.
Published(a) == IF dir[work[a].pkg].there THEN dir[work[a].pkg] ELSE work[a].stage

Publishes(a) ==
  /\ At(a, "publish")
  /\ dir' = [dir EXCEPT ![work[a].pkg] = Published(a)]
  /\ Sets(a, [work[a] EXCEPT !.at = "store", !.stage = NoDir])
  /\ LET lost == IF dir[work[a].pkg].there THEN {work[a].pkg} ELSE {} IN
       shadowed' = shadowed \cup lost /\ strained' = strained \cup lost
  /\ UNCHANGED <<row, seats, epoch, trusted, told, runs, mishaps>>

\* The raw file, the manifest or the rename fails: the error leaves the archiver.
Fails(a) ==
  /\ work[a].at \in {"raw", "manifest", "publish"} /\ Mishap
  /\ Sets(a, Idle) /\ Strains(a)
  /\ UNCHANGED <<row, seats, dir, epoch, trusted, told, runs, shadowed>>

-----------------------------------------------------------------------------
(* Its rows: store_mail_archive_atomically.                                 *)

\* Mutant: errors of parts are only logged.
OutcomeReady(a) == "ready"

\* Mutant: a state no column knows.
OutcomeWord(a) == "complete"

Outcome(a) == IF work[a].failed THEN "partial" ELSE "ready"

\* Rows of resources are inserted or updated, never deleted; a failed part loses its path.
Named(a) == work[a].names \cup (row[work[a].pkg].names \cap {"download"})

Stores(a) ==
  /\ At(a, "store")
  /\ LET p == work[a].pkg IN
       /\ row' = [row EXCEPT ![p] = [state |-> Outcome(a), raw |-> work[a].mail, names |-> Named(a)]]
       /\ seats' = IF work[a].uid = 0 THEN seats
                   ELSE {s \in seats : s.pkg # p} \cup {[pkg |-> p, uid |-> work[a].uid, epoch |-> epoch]}
       /\ told' = IF work[a].failed THEN told ELSE told \cup {work[a].mail}
       /\ strained' = IF Peers(a) # {} THEN strained \cup {p} ELSE strained
  /\ Sets(a, Idle)
  /\ UNCHANGED <<dir, epoch, trusted, runs, mishaps, shadowed>>

StoreFails(a) ==
  /\ At(a, "store") /\ Mishap
  /\ Sets(a, Idle)
  /\ strained' = strained \cup {work[a].pkg}
  /\ UNCHANGED <<row, seats, dir, epoch, trusted, told, runs, shadowed>>

-----------------------------------------------------------------------------
(* The surroundings.                                                        *)

\* A process ends: its staging directories stay behind.
Dies(process) ==
  /\ Mishap
  /\ LET dead == {a \in Archivers : ProcessOf[a] = process /\ ~At(a, "idle")} IN
       /\ dead # {}
       /\ work' = [a \in Archivers |-> IF a \in dead THEN Idle ELSE work[a]]
       /\ strained' = strained \cup {work[a].pkg : a \in {b \in dead : ~work[b].fresh /\ work[b].at # "look"}}
                               \cup {work[a].pkg : a \in {b \in dead : At(b, "store")}}
  /\ UNCHANGED <<row, seats, dir, epoch, trusted, told, runs, shadowed>>

\* The mailbox is created anew while no session is in it.
Renumbers ==
  /\ epoch + 1 \in Epochs /\ \A a \in Archivers : work[a].uid = 0
  /\ epoch' = epoch + 1
  /\ UNCHANGED <<row, seats, dir, work, trusted, told, runs, mishaps, shadowed, strained>>

Distrusts ==
  /\ trusted /\ trusted' = FALSE
  /\ UNCHANGED <<row, seats, dir, work, epoch, told, runs, mishaps, shadowed, strained>>

Next ==
  \/ \E a \in Archivers :
       \/ \E m \in Mails, observed \in BOOLEAN : Starts(a, m, observed)
       \/ Looks(a) \/ WritesRaw(a) \/ WritesAttachment(a) \/ AttachmentFails(a)
       \/ Downloads(a) \/ DownloadFails(a) \/ SkipsDownload(a)
       \/ WritesManifest(a) \/ Publishes(a) \/ Fails(a) \/ Stores(a) \/ StoreFails(a)
  \/ \E a \in Archivers : Dies(ProcessOf[a])
  \/ Renumbers \/ Distrusts

Spec == Init /\ [][Next]_vars

-----------------------------------------------------------------------------
(* Properties.                                                              *)

Whole(p) ==
  /\ dir[p].there /\ dir[p].raw = row[p].raw
  /\ "attachment" \in dir[p].files /\ row[p].names \subseteq dir[p].files

\* A ready package has its directory, its own raw file and every file its rows name,
\* unless an archiver of another process published first.
ReadyIsWhole == \A p \in Mails : row[p].state = "ready" /\ p \notin shadowed => Whole(p)

\* The same without the exception.
ReadyIsAlwaysWhole == \A p \in Mails : row[p].state = "ready" => Whole(p)

\* A mail reported as archived, now or as a duplicate, has a ready package of its own
\* content: a UID of another epoch or a shared Message-ID never stands for another mail.
ToldIsKept == \A m \in told : \E p \in Mails : row[p].raw = m /\ dir[p].raw = m

\* A directory that has been published holds a raw file and a manifest, wherever a run ends.
PublishedIsComplete == \A p \in Mails : dir[p].there => dir[p].raw # Nobody /\ dir[p].listed

\* A package whose runs all ended, and of which no two met, has a manifest that names what
\* its rows name.
ManifestAgrees ==
  \A p \in Mails :
    row[p].state # "none" /\ p \notin strained /\ (\A a \in Archivers : work[a].pkg # p) =>
      dir[p].manifest = row[p].names
=============================================================================
