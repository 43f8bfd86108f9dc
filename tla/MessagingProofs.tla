-------------------------- MODULE MessagingProofs ---------------------------
(***************************************************************************)
(* What takes messages in and sends them out, for any number of calls,     *)
(* attachments, mails, clicks, messages and requests: each part has an     *)
(* inductive invariant of its own, and a step of one leaves the others.    *)
(***************************************************************************)
EXTENDS Messaging, TLAPS, SequenceTheorems, FiniteSetTheorems, NaturalsInduction, WellFoundedInduction

-----------------------------------------------------------------------------
(* FileSend: one call at a time has the attempt of the row.                 *)

CallPlaces ==
  {"idle", "hash", "look", "stage", "verify", "read", "attempt", "create", "mark", "resource", "copies", "send",
   "answer", "fails", "fails2", "fails3", "record", "archive", "sent2", "sent3", "partial2", "partial3"}
CallTypes ==
  [at : CallPlaces,
   seen : 0..MaxVersion, sha : 0..MaxVersion, copy : 0..MaxVersion,
   prev : File!Statuses, told : {"nothing", "refused", "duplicate", "sent"}]

FileIsTyped ==
  /\ way \in {"agent", "cli", "window"}
  /\ source \in File!Versions /\ staged \in {0} \cup File!Versions /\ fileConfirmed \in File!Versions
  /\ row \in [status : File!Statuses, sha : {0} \cup File!Versions, archive : {0} \cup File!Versions]
  /\ outbound \in {"none", "sending", "failed", "sent", "partial"}
  /\ resource \in {"none", "staged", "sending", "failed", "sent", "partial", "sent_archive_failed"}
  /\ inbox \in Seq(0..MaxVersion) /\ fileAnswered \in BOOLEAN /\ lost \in BOOLEAN /\ starts \in Nat

\* Has the attempt of the row under way.
Owner(x) ==
  \/ x.at \in {"copies", "send", "answer", "record", "fails"}
  \/ x.at \in {"create", "mark", "resource"} /\ x.prev = "none"

\* The server took the mail, and it is not known to be lost.
Taken == inbox # <<>> /\ (fileAnswered \/ ~lost)

HasRow(x) ==
  /\ Owner(x) => row.status = "attempt_created" /\ row.sha = x.sha
  /\ x.at = "archive" => row.status \in {"sent", "sent_archive_failed"} /\ row.sha = x.sha

HasHash(x) ==
  /\ x.at = "attempt" \/ x.at = "archive" \/ Owner(x) =>
       /\ way # "cli" => x.sha = x.seen
       /\ way = "window" => x.sha = fileConfirmed
  /\ x.at \in {"send", "answer", "record", "archive"} => x.copy = x.sha
  /\ way = "window" =>
       /\ x.at \in {"look", "stage", "verify", "read"} => x.seen = fileConfirmed
       /\ x.at = "read" => staged = x.seen

HasMail(x) ==
  /\ x.at \in {"answer", "record", "archive"} => inbox # <<>> /\ inbox[Len(inbox)] = x.copy
  /\ x.at = "answer" => ~fileAnswered
  /\ x.at \in {"record", "archive", "sent2", "sent3", "partial2", "partial3"} \/ x.told = "sent" => fileAnswered
  /\ Taken /\ Owner(x) => x.at \in {"answer", "record"}

CallIsRight(x) == HasRow(x) /\ HasHash(x) /\ HasMail(x)

RowIsOfTheMail ==
  /\ Taken => row.status \notin {"none", "failed"}
  /\ row.status \in {"sent", "sent_archive_failed"} => fileAnswered
  /\ row.archive # 0 => fileAnswered /\ row.archive = inbox[Len(inbox)]
  /\ fileAnswered => inbox # <<>>

CallsAreApart ==
  /\ \A c, d \in Calls : Owner(call[c]) /\ Owner(call[d]) => c = d
  /\ way = "window" => /\ \A c, d \in Calls : call[c].at # "idle" /\ call[d].at # "idle" => c = d
                       /\ starts = 0 => \A c \in Calls : call[c].at = "idle"

FileInv ==
  /\ FileIsTyped /\ RowIsOfTheMail /\ call \in [Calls -> CallTypes] /\ CallsAreApart
  /\ \A c \in Calls : CallIsRight(call[c])

\* The parts of a call.
LEMMA CallTyped ==
  ASSUME FileInv, NEW c \in Calls
  PROVE  /\ call[c] \in CallTypes /\ CallIsRight(call[c])
         /\ call[c].at \in {"idle", "hash", "look", "stage", "verify", "read", "attempt", "create", "mark",
             "resource", "copies",
              "send", "answer", "fails", "fails2", "fails3", "record", "archive", "sent2", "sent3", "partial2",
                  "partial3"}
         /\ call[c].seen \in 0..MaxVersion /\ call[c].sha \in 0..MaxVersion /\ call[c].copy \in 0..MaxVersion
         /\ call[c].prev \in File!Statuses /\ call[c].told \in {"nothing", "refused", "duplicate", "sent"}
<1>1. call[c] \in CallTypes /\ CallIsRight(call[c]) BY DEF FileInv
<1> QED BY <1>1 DEF CallTypes, CallPlaces

\* The versions of a file, and none.
LEMMA VersionsAre ==
  ASSUME File!Known
  PROVE  /\ File!Versions \subseteq 0..MaxVersion /\ 1 \in File!Versions /\ 0 \in 0..MaxVersion
         /\ {0} \cup File!Versions = 0..MaxVersion
BY DEF File!Known, File!Versions

\* A call that goes on with its mark, hash or copy changed is a call.
LEMMA GoesOn ==
  ASSUME NEW x \in CallTypes, NEW v \in 0..MaxVersion, NEW a \in CallPlaces
  PROVE  /\ [x EXCEPT !.at = a] \in CallTypes
         /\ [x EXCEPT !.at = a, !.seen = v] \in CallTypes
         /\ [x EXCEPT !.at = a, !.sha = v] \in CallTypes
         /\ [x EXCEPT !.at = a, !.copy = v] \in CallTypes
<1>1. [x EXCEPT !.at = a] \in CallTypes BY DEF CallTypes
<1>2. [x EXCEPT !.at = a, !.seen = v] \in CallTypes BY DEF CallTypes
<1>3. [x EXCEPT !.at = a, !.sha = v] \in CallTypes BY DEF CallTypes
<1>4. [x EXCEPT !.at = a, !.copy = v] \in CallTypes BY DEF CallTypes
<1> QED BY <1>1, <1>2, <1>3, <1>4

\* So is one that has been told how it ended.
LEMMA IsTold ==
  ASSUME File!Known, NEW v \in 0..MaxVersion, NEW what \in {"refused", "duplicate", "sent"}
  PROVE  [File!NoCall EXCEPT !.told = what, !.copy = v] \in CallTypes
BY VersionsAre DEF CallTypes, CallPlaces, File!NoCall, File!Statuses

\* The invariant holds at the start.
LEMMA FileInit == ASSUME File!Known, File!Init PROVE FileInv
<1> USE DEF File!Init
<1>1. File!NoCall \in CallTypes /\ File!NoCall.at = "idle" /\ File!NoCall.told = "nothing"
  BY VersionsAre DEF File!NoCall, CallTypes, CallPlaces, File!Statuses
<1>2. CallIsRight(File!NoCall) BY <1>1 DEF CallIsRight, HasRow, HasHash, HasMail, Owner
<1>3. FileIsTyped
  <2>1. row \in [status : File!Statuses, sha : {0} \cup File!Versions, archive : {0} \cup File!Versions]
    BY DEF File!Statuses
  <2>2. inbox \in Seq(0..MaxVersion) OBVIOUS
  <2>3. way \in {"agent", "cli", "window"} BY DEF File!Known
  <2> QED BY <2>1, <2>2, <2>3, VersionsAre DEF FileIsTyped
<1>4. RowIsOfTheMail BY DEF RowIsOfTheMail, Taken
<1>5. \A c \in Calls : call[c] = File!NoCall OBVIOUS
<1>6. CallsAreApart BY <1>1, <1>5 DEF CallsAreApart, Owner
<1>7. call \in [Calls -> CallTypes] BY <1>1
<1> QED BY <1>2, <1>3, <1>4, <1>5, <1>6, <1>7 DEF FileInv

\* One call moves on; the others stay right, as none of them has the attempt.
LEMMA CallsOn ==
  ASSUME FileInv, NEW c \in Calls, NEW r \in CallTypes, call' = [call EXCEPT ![c] = r], way' = way,
         FileIsTyped', RowIsOfTheMail', CallIsRight(r)', starts <= starts',
         Owner(r) => Owner(call[c]) \/ row.status # "attempt_created",
         way = "window" /\ r.at # "idle" => call[c].at # "idle" \/ (starts = 0 /\ starts' > 0),
         \A x \in CallTypes : /\ CallIsRight(x) /\ (Owner(call[c]) => ~Owner(x))
                              /\ (way = "window" /\ call[c].at # "idle" => x.at = "idle")
                              => CallIsRight(x)'
  PROVE  FileInv'
<1>1. call' \in [Calls -> CallTypes] /\ call'[c] = r /\ \A d \in Calls \ {c} : call'[d] = call[d] BY DEF FileInv
<1>2. FileIsTyped /\ CallsAreApart BY DEF FileInv
<1>3. ASSUME NEW d \in Calls PROVE CallIsRight(call[d])'
  <2>1. CASE d = c BY <2>1, <1>1 DEF CallIsRight, HasRow, HasHash, HasMail
  <2>2. CASE d # c
    <3>1. PICK x \in CallTypes : x = call[d] /\ CallIsRight(x) BY CallTyped
    <3>2. (Owner(call[c]) => ~Owner(x)) /\ (way = "window" /\ call[c].at # "idle" => x.at = "idle")
      BY <2>2, <3>1, <1>2 DEF CallsAreApart
    <3>3. CallIsRight(x)' BY <3>1, <3>2
    <3>4. call'[d] = x BY <1>1, <2>2, <3>1
    <3> QED BY <3>3, <3>4 DEF CallIsRight, HasRow, HasHash, HasMail
  <2> QED BY <2>1, <2>2
<1>4. ASSUME NEW d \in Calls, NEW e \in Calls, Owner(call'[d]), Owner(call'[e]) PROVE d = e
  <2>1. \A f \in Calls \ {c} : Owner(call'[f]) => Owner(call[f]) BY <1>1
  <2>2. \A f \in Calls \ {c} : Owner(r) => ~Owner(call[f])
    <3>1. ASSUME NEW f \in Calls \ {c}, Owner(r), Owner(call[f]) PROVE FALSE
      <4>1. row.status = "attempt_created" BY <3>1, CallTyped DEF CallIsRight, HasRow
      <4>2. Owner(call[c]) BY <3>1, <4>1
      <4> QED BY <3>1, <4>2, <1>2 DEF CallsAreApart
    <3> QED BY <3>1
  <2> QED BY <1>1, <1>2, <1>4, <2>1, <2>2 DEF CallsAreApart
<1>5. starts \in Nat /\ starts' \in Nat BY <1>2 DEF FileIsTyped
<1>7. ASSUME way = "window", NEW d \in Calls, NEW e \in Calls, call'[d].at # "idle", call'[e].at # "idle" PROVE d = e
  BY <1>1, <1>2, <1>7 DEF CallsAreApart
<1>8. ASSUME way = "window", starts' = 0, NEW d \in Calls PROVE call'[d].at = "idle"
  <2>1. starts = 0 BY <1>5, <1>8
  <2> QED BY <1>8, <2>1, <1>1, <1>2 DEF CallsAreApart
<1>6. CallsAreApart'
  <2>1. \A d, e \in Calls : Owner(call'[d]) /\ Owner(call'[e]) => d = e BY <1>4
  <2>2. way' = "window" =>
          /\ \A d, e \in Calls : call'[d].at # "idle" /\ call'[e].at # "idle" => d = e
          /\ starts' = 0 => \A d \in Calls : call'[d].at = "idle"
    BY <1>7, <1>8
  <2>3. (\A d, e \in Calls : Owner(call[d]) /\ Owner(call[e]) => d = e)' BY <2>1 DEF Owner
  <2> QED BY <2>2, <2>3 DEF CallsAreApart
<1> QED BY <1>1, <1>3, <1>6 DEF FileInv

theMail == <<way, fileConfirmed, staged, row, inbox, fileAnswered, lost>>

\* A step that only moves its call, or says what became of the outbound message.
LEMMA CallWalks ==
  ASSUME FileInv, NEW c \in Calls, NEW r \in CallTypes, call' = [call EXCEPT ![c] = r], UNCHANGED <<theMail, source,
      starts>>,
         outbound' \in {"none", "sending", "failed", "sent", "partial"},
         resource' \in {"none", "staged", "sending", "failed", "sent", "partial", "sent_archive_failed"},
         CallIsRight(r), Owner(r) => Owner(call[c]), r.at # "idle" => call[c].at # "idle"
  PROVE  FileInv'
<1> USE DEF theMail
<1>1. \A x \in CallTypes : CallIsRight(x) <=> CallIsRight(x)' BY DEF CallIsRight, HasRow, HasHash, HasMail, Taken
<1>2. FileIsTyped' /\ RowIsOfTheMail' BY DEF FileInv, FileIsTyped, RowIsOfTheMail, Taken
<1>3. starts <= starts' BY DEF FileInv, FileIsTyped
<1> QED BY <1>1, <1>2, <1>3, CallsOn

\* Each action keeps the invariant.
LEMMA HashesStep ==
  ASSUME File!Known, FileInv, NEW c \in Calls, File!Hashes(c)
  PROVE  FileInv'
<1>1. PICK r : r = IF way = "window"
    /\ source # fileConfirmed THEN [File!NoCall EXCEPT !.told = "refused", !.copy = call[c].copy]
              ELSE [call[c] EXCEPT !.at = "look", !.seen = source] OBVIOUS
<1>2. r \in CallTypes
  <2>1. source \in 0..MaxVersion BY VersionsAre DEF FileInv, FileIsTyped
  <2> QED BY <1>1, <2>1, CallTyped, GoesOn, IsTold DEF CallPlaces
<1>3. call' = [call EXCEPT ![c] = r] /\ UNCHANGED <<theMail, source, starts>>
  BY <1>1
  DEF File!Hashes, File!Goes, File!Tells, File!Fault, File!files, File!mail, File!facts, File!bounds, theMail, FileInv
<1>4. /\ outbound' \in {"none", "sending", "failed", "sent", "partial"}
      /\ resource' \in {"none", "staged", "sending", "failed", "sent", "partial", "sent_archive_failed"}
  BY DEF File!Hashes, File!Goes, File!Tells, File!Fault, File!files, File!mail, File!facts, File!bounds, FileInv,
    FileIsTyped, File!Initial
<1>5. CallIsRight(r) /\ (Owner(r) => Owner(call[c])) /\ (r.at # "idle" => call[c].at # "idle")
  BY <1>1, <1>2, CallTyped DEF File!Hashes, CallIsRight, HasRow, HasHash, HasMail, Owner, File!NoCall, FileInv
<1> QED BY <1>2, <1>3, <1>4, <1>5, CallWalks

LEMMA LooksAtStagedStep ==
  ASSUME File!Known, FileInv, NEW c \in Calls, File!LooksAtStaged(c)
  PROVE  FileInv'
<1>1. PICK r : r = IF staged = 0 THEN [call[c] EXCEPT !.at = "stage"]
              ELSE IF staged = call[c].seen THEN [call[c] EXCEPT !.at = "read"]
                  ELSE [File!NoCall EXCEPT !.told = "refused", !.copy = call[c].copy] OBVIOUS
<1>2. r \in CallTypes BY <1>1, CallTyped, GoesOn, IsTold DEF CallPlaces
<1>3. call' = [call EXCEPT ![c] = r] /\ UNCHANGED <<theMail, source, starts>>
  BY <1>1
  DEF File!LooksAtStaged, File!Goes, File!Tells, File!Fault, File!files, File!mail, File!facts, File!bounds,
    theMail, FileInv, File!StagedWillDo
<1>4. /\ outbound' \in {"none", "sending", "failed", "sent", "partial"}
      /\ resource' \in {"none", "staged", "sending", "failed", "sent", "partial", "sent_archive_failed"}
  BY DEF File!LooksAtStaged, File!Goes, File!Tells, File!Fault, File!files, File!mail, File!facts, File!bounds,
    FileInv, FileIsTyped, File!Initial, File!StagedWillDo
<1>5. CallIsRight(r) /\ (Owner(r) => Owner(call[c])) /\ (r.at # "idle" => call[c].at # "idle")
  BY <1>1, <1>2, CallTyped
  DEF File!LooksAtStaged, CallIsRight, HasRow, HasHash, HasMail, Owner, File!NoCall, FileInv, File!StagedWillDo
<1> QED BY <1>2, <1>3, <1>4, <1>5, CallWalks

LEMMA VerifiesStep ==
  ASSUME File!Known, FileInv, NEW c \in Calls, File!Verifies(c)
  PROVE  FileInv'
<1>1. PICK r : r = IF staged = call[c].seen THEN [call[c] EXCEPT !.at = "read"]
    ELSE [File!NoCall EXCEPT !.told = "refused", !.copy = call[c].copy] OBVIOUS
<1>2. r \in CallTypes BY <1>1, CallTyped, GoesOn, IsTold DEF CallPlaces
<1>3. call' = [call EXCEPT ![c] = r] /\ UNCHANGED <<theMail, source, starts>>
  BY <1>1
  DEF File!Verifies, File!Goes, File!Tells, File!Fault, File!files, File!mail, File!facts, File!bounds, theMail,
    FileInv
<1>4. /\ outbound' \in {"none", "sending", "failed", "sent", "partial"}
      /\ resource' \in {"none", "staged", "sending", "failed", "sent", "partial", "sent_archive_failed"}
  BY DEF File!Verifies, File!Goes, File!Tells, File!Fault, File!files, File!mail, File!facts, File!bounds, FileInv,
    FileIsTyped, File!Initial
<1>5. CallIsRight(r) /\ (Owner(r) => Owner(call[c])) /\ (r.at # "idle" => call[c].at # "idle")
  BY <1>1, <1>2, CallTyped DEF File!Verifies, CallIsRight, HasRow, HasHash, HasMail, Owner, File!NoCall, FileInv
<1> QED BY <1>2, <1>3, <1>4, <1>5, CallWalks

LEMMA ReadsStep ==
  ASSUME File!Known, FileInv, NEW c \in Calls, File!Reads(c)
  PROVE  FileInv'
<1>0. PICK f : f = File!File OBVIOUS
<1>1. PICK r : r = IF way = "agent"
    /\ f # call[c].seen THEN [File!NoCall EXCEPT !.told = "refused", !.copy = call[c].copy]
              ELSE [call[c] EXCEPT !.at = "attempt", !.sha = f] OBVIOUS
<1>2. f \in 0..MaxVersion /\ (way # "cli" => f = staged) /\ way \in {"agent", "cli", "window"}
  BY <1>0, VersionsAre DEF File!File, FileInv, FileIsTyped
<1>3. r \in CallTypes BY <1>1, <1>2, CallTyped, GoesOn, IsTold DEF CallPlaces
<1>4. call' = [call EXCEPT ![c] = r] /\ UNCHANGED <<theMail, source, starts, outbound, resource>>
    /\ call[c].at = "read"
  BY <1>0, <1>1 DEF File!Reads, File!Tells, File!files, File!mail, File!facts, File!bounds, theMail, FileInv
<1>5. /\ outbound' \in {"none", "sending", "failed", "sent", "partial"}
      /\ resource' \in {"none", "staged", "sending", "failed", "sent", "partial", "sent_archive_failed"}
  BY <1>4 DEF FileInv, FileIsTyped
<1>6. CASE way = "agent" /\ f # call[c].seen
  <2>1. r.at = "idle" /\ r.told = "refused" BY <1>1, <1>6, CallTyped DEF File!NoCall
  <2>2. CallIsRight(r) /\ ~Owner(r) BY <2>1 DEF CallIsRight, HasRow, HasHash, HasMail, Owner
  <2> QED BY <1>3, <1>4, <1>5, <2>1, <2>2, CallWalks
<1>7. CASE ~ (way = "agent" /\ f # call[c].seen)
  <2>1. r.at = "attempt" /\ r.sha = f /\ r.seen = call[c].seen /\ r.told = call[c].told
    BY <1>1, <1>7, CallTyped DEF CallTypes, CallPlaces
  <2>2. HasHash(call[c]) /\ HasMail(call[c]) BY CallTyped DEF CallIsRight
  <2>3. (way # "cli" => f = r.seen) /\ (way = "window" => f = fileConfirmed)
    BY <1>2, <1>4, <1>7, <2>1, <2>2 DEF HasHash
  <2>4. CallIsRight(r) /\ ~Owner(r)
    BY <2>1, <2>2, <2>3 DEF CallIsRight, HasRow, HasHash, HasMail, Owner
  <2> QED BY <1>3, <1>4, <1>5, <2>1, <2>4, CallWalks
<1> QED BY <1>6, <1>7

LEMMA CreatesStep ==
  ASSUME File!Known, FileInv, NEW c \in Calls, File!Creates(c)
  PROVE  FileInv'
<1>1. PICK r : r = [call[c] EXCEPT !.at = IF call[c].prev = "none" THEN "mark" ELSE "resource"] OBVIOUS
<1>2. r \in CallTypes
  BY <1>1, CallTyped, VersionsAre DEF CallTypes, CallPlaces, File!NoCall, File!Statuses
<1>3. call' = [call EXCEPT ![c] = r] /\ UNCHANGED <<theMail, source, starts>>
  BY <1>1
  DEF File!Creates, File!Goes, File!Tells, File!Fault, File!files, File!mail, File!facts, File!bounds, theMail,
    FileInv
<1>4. /\ outbound' \in {"none", "sending", "failed", "sent", "partial"}
      /\ resource' \in {"none", "staged", "sending", "failed", "sent", "partial", "sent_archive_failed"}
  BY DEF File!Creates, File!Goes, File!Tells, File!Fault, File!files, File!mail, File!facts, File!bounds, FileInv,
    FileIsTyped, File!Initial
<1>5. CallIsRight(r) /\ (Owner(r) => Owner(call[c])) /\ (r.at # "idle" => call[c].at # "idle")
  BY <1>1, <1>2, CallTyped DEF File!Creates, CallIsRight, HasRow, HasHash, HasMail, Owner, File!NoCall, FileInv
<1> QED BY <1>2, <1>3, <1>4, <1>5, CallWalks

LEMMA MarksStep ==
  ASSUME File!Known, FileInv, NEW c \in Calls, File!Marks(c)
  PROVE  FileInv'
<1>1. PICK r : r = [call[c] EXCEPT !.at = "resource"] OBVIOUS
<1>2. r \in CallTypes
  BY <1>1, CallTyped, VersionsAre DEF CallTypes, CallPlaces, File!NoCall, File!Statuses
<1>3. call' = [call EXCEPT ![c] = r] /\ UNCHANGED <<theMail, source, starts>>
  BY <1>1
  DEF File!Marks, File!Goes, File!Tells, File!Fault, File!files, File!mail, File!facts, File!bounds, theMail, FileInv
<1>4. /\ outbound' \in {"none", "sending", "failed", "sent", "partial"}
      /\ resource' \in {"none", "staged", "sending", "failed", "sent", "partial", "sent_archive_failed"}
  BY DEF File!Marks, File!Goes, File!Tells, File!Fault, File!files, File!mail, File!facts, File!bounds, FileInv,
    FileIsTyped, File!Initial
<1>5. CallIsRight(r) /\ (Owner(r) => Owner(call[c])) /\ (r.at # "idle" => call[c].at # "idle")
  BY <1>1, <1>2, CallTyped DEF File!Marks, CallIsRight, HasRow, HasHash, HasMail, Owner, File!NoCall, FileInv
<1> QED BY <1>2, <1>3, <1>4, <1>5, CallWalks

LEMMA StoresResourceStep ==
  ASSUME File!Known, FileInv, NEW c \in Calls, File!StoresResource(c)
  PROVE  FileInv'
<1>1. PICK r : r = IF call[c].prev = "none" THEN [call[c] EXCEPT !.at = "copies"]
    ELSE [File!NoCall EXCEPT !.told = "duplicate", !.copy = call[c].copy] OBVIOUS
<1>2. r \in CallTypes BY <1>1, CallTyped, GoesOn, IsTold DEF CallPlaces
<1>3. call' = [call EXCEPT ![c] = r] /\ UNCHANGED <<theMail, source, starts>>
  BY <1>1
  DEF File!StoresResource, File!Goes, File!Tells, File!Fault, File!files, File!mail, File!facts, File!bounds,
    theMail, FileInv
<1>4. /\ outbound' \in {"none", "sending", "failed", "sent", "partial"}
      /\ resource' \in {"none", "staged", "sending", "failed", "sent", "partial", "sent_archive_failed"}
  BY DEF File!StoresResource, File!Goes, File!Tells, File!Fault, File!files, File!mail, File!facts, File!bounds,
    FileInv, FileIsTyped, File!Initial
<1>5. CallIsRight(r) /\ (Owner(r) => Owner(call[c])) /\ (r.at # "idle" => call[c].at # "idle")
  BY <1>1, <1>2, CallTyped DEF File!StoresResource, CallIsRight, HasRow, HasHash, HasMail, Owner, File!NoCall, FileInv
<1> QED BY <1>2, <1>3, <1>4, <1>5, CallWalks

LEMMA CopiedStep ==
  ASSUME File!Known, FileInv, NEW c \in Calls, File!CopiesToSend(c), File!CopyWillDo(c),
      call' = [call EXCEPT ![c].at = "send", ![c].copy = File!File]
  PROVE  FileInv'
<1>1. PICK r : r = [call[c] EXCEPT !.at = "send", !.copy = File!File] OBVIOUS
<1>2. r \in CallTypes
  <2>1. File!File \in 0..MaxVersion BY VersionsAre DEF FileInv, FileIsTyped, File!File
  <2> QED BY <1>1, <2>1, CallTyped, GoesOn DEF CallPlaces
<1>3. call' = [call EXCEPT ![c] = r] /\ UNCHANGED <<theMail, source, starts>>
  BY <1>1
  DEF File!CopiesToSend, File!Goes, File!Tells, File!Fault, File!files, File!mail, File!facts, File!bounds, theMail,
    FileInv, File!CopyWillDo, File!File
<1>4. /\ outbound' \in {"none", "sending", "failed", "sent", "partial"}
      /\ resource' \in {"none", "staged", "sending", "failed", "sent", "partial", "sent_archive_failed"}
  BY DEF File!CopiesToSend, File!Goes, File!Tells, File!Fault, File!files, File!mail, File!facts, File!bounds,
    FileInv, FileIsTyped, File!Initial, File!CopyWillDo, File!File
<1>5. CallIsRight(r) /\ (Owner(r) => Owner(call[c])) /\ (r.at # "idle" => call[c].at # "idle")
  BY <1>1, <1>2, CallTyped
  DEF File!CopiesToSend, CallIsRight, HasRow, HasHash, HasMail, Owner, File!NoCall, FileInv, File!CopyWillDo,
    File!File
<1> QED BY <1>2, <1>3, <1>4, <1>5, CallWalks

LEMMA NotCopiedStep ==
  ASSUME File!Known, FileInv, NEW c \in Calls, File!CopiesToSend(c), File!Goes(c, "fails")
  PROVE  FileInv'
<1>1. PICK r : r = [call[c] EXCEPT !.at = "fails"] OBVIOUS
<1>2. r \in CallTypes
  BY <1>1, CallTyped, VersionsAre DEF CallTypes, CallPlaces, File!NoCall, File!Statuses
<1>3. call' = [call EXCEPT ![c] = r] /\ UNCHANGED <<theMail, source, starts>>
  BY <1>1
  DEF File!CopiesToSend, File!Goes, File!Tells, File!Fault, File!files, File!mail, File!facts, File!bounds, theMail,
    FileInv, File!CopyWillDo, File!File
<1>4. /\ outbound' \in {"none", "sending", "failed", "sent", "partial"}
      /\ resource' \in {"none", "staged", "sending", "failed", "sent", "partial", "sent_archive_failed"}
  BY DEF File!CopiesToSend, File!Goes, File!Tells, File!Fault, File!files, File!mail, File!facts, File!bounds,
    FileInv, FileIsTyped, File!Initial, File!CopyWillDo, File!File
<1>5. CallIsRight(r) /\ (Owner(r) => Owner(call[c])) /\ (r.at # "idle" => call[c].at # "idle")
  BY <1>1, <1>2, CallTyped
  DEF File!CopiesToSend, CallIsRight, HasRow, HasHash, HasMail, Owner, File!NoCall, FileInv, File!CopyWillDo,
    File!File
<1> QED BY <1>2, <1>3, <1>4, <1>5, CallWalks

LEMMA RefusedStageStep ==
  ASSUME File!Known, FileInv, NEW c \in Calls, File!IsRefused(c), File!Goes(c, "fails")
  PROVE  FileInv'
<1>1. PICK r : r = [call[c] EXCEPT !.at = "fails"] OBVIOUS
<1>2. r \in CallTypes
  BY <1>1, CallTyped, VersionsAre DEF CallTypes, CallPlaces, File!NoCall, File!Statuses
<1>3. call' = [call EXCEPT ![c] = r] /\ UNCHANGED <<theMail, source, starts>>
  BY <1>1
  DEF File!IsRefused, File!Goes, File!Tells, File!Fault, File!files, File!mail, File!facts, File!bounds, theMail,
    FileInv
<1>4. /\ outbound' \in {"none", "sending", "failed", "sent", "partial"}
      /\ resource' \in {"none", "staged", "sending", "failed", "sent", "partial", "sent_archive_failed"}
  BY DEF File!IsRefused, File!Goes, File!Tells, File!Fault, File!files, File!mail, File!facts, File!bounds, FileInv,
    FileIsTyped, File!Initial
<1>5. CallIsRight(r) /\ (Owner(r) => Owner(call[c])) /\ (r.at # "idle" => call[c].at # "idle")
  BY <1>1, <1>2, CallTyped DEF File!IsRefused, CallIsRight, HasRow, HasHash, HasMail, Owner, File!NoCall, FileInv
<1> QED BY <1>2, <1>3, <1>4, <1>5, CallWalks

LEMMA RefusedOtherwiseStep ==
  ASSUME File!Known, FileInv, NEW c \in Calls, File!IsRefused(c), File!Tells(c, "refused")
  PROVE  FileInv'
<1>1. PICK r : r = [File!NoCall EXCEPT !.told = "refused", !.copy = call[c].copy] OBVIOUS
<1>2. r \in CallTypes
  BY <1>1, CallTyped, VersionsAre DEF CallTypes, CallPlaces, File!NoCall, File!Statuses
<1>3. call' = [call EXCEPT ![c] = r] /\ UNCHANGED <<theMail, source, starts>>
  BY <1>1
  DEF File!IsRefused, File!Goes, File!Tells, File!Fault, File!files, File!mail, File!facts, File!bounds, theMail,
    FileInv
<1>4. /\ outbound' \in {"none", "sending", "failed", "sent", "partial"}
      /\ resource' \in {"none", "staged", "sending", "failed", "sent", "partial", "sent_archive_failed"}
  BY DEF File!IsRefused, File!Goes, File!Tells, File!Fault, File!files, File!mail, File!facts, File!bounds, FileInv,
    FileIsTyped, File!Initial
<1>5. CallIsRight(r) /\ (Owner(r) => Owner(call[c])) /\ (r.at # "idle" => call[c].at # "idle")
  BY <1>1, <1>2, CallTyped DEF File!IsRefused, CallIsRight, HasRow, HasHash, HasMail, Owner, File!NoCall, FileInv
<1> QED BY <1>2, <1>3, <1>4, <1>5, CallWalks

LEMMA FailsSecondStep ==
  ASSUME File!Known, FileInv, NEW c \in Calls, File!Fails(c), call[c].at = "fails2"
  PROVE  FileInv'
<1>1. PICK r : r = [call[c] EXCEPT !.at = "fails3"] OBVIOUS
<1>2. r \in CallTypes
  BY <1>1, CallTyped, VersionsAre DEF CallTypes, CallPlaces, File!NoCall, File!Statuses
<1>3. call' = [call EXCEPT ![c] = r] /\ UNCHANGED <<theMail, source, starts>>
  BY <1>1
  DEF File!Fails, File!Goes, File!Tells, File!Fault, File!files, File!mail, File!facts, File!bounds, theMail, FileInv
<1>4. /\ outbound' \in {"none", "sending", "failed", "sent", "partial"}
      /\ resource' \in {"none", "staged", "sending", "failed", "sent", "partial", "sent_archive_failed"}
  BY DEF File!Fails, File!Goes, File!Tells, File!Fault, File!files, File!mail, File!facts, File!bounds, FileInv,
    FileIsTyped, File!Initial
<1>5. CallIsRight(r) /\ (Owner(r) => Owner(call[c])) /\ (r.at # "idle" => call[c].at # "idle")
  BY <1>1, <1>2, CallTyped DEF File!Fails, CallIsRight, HasRow, HasHash, HasMail, Owner, File!NoCall, FileInv
<1> QED BY <1>2, <1>3, <1>4, <1>5, CallWalks

LEMMA FailsThirdStep ==
  ASSUME File!Known, FileInv, NEW c \in Calls, File!Fails(c), call[c].at = "fails3"
  PROVE  FileInv'
<1>1. PICK r : r = [File!NoCall EXCEPT !.told = "refused", !.copy = call[c].copy] OBVIOUS
<1>2. r \in CallTypes
  BY <1>1, CallTyped, VersionsAre DEF CallTypes, CallPlaces, File!NoCall, File!Statuses
<1>3. call' = [call EXCEPT ![c] = r] /\ UNCHANGED <<theMail, source, starts>>
  BY <1>1
  DEF File!Fails, File!Goes, File!Tells, File!Fault, File!files, File!mail, File!facts, File!bounds, theMail, FileInv
<1>4. /\ outbound' \in {"none", "sending", "failed", "sent", "partial"}
      /\ resource' \in {"none", "staged", "sending", "failed", "sent", "partial", "sent_archive_failed"}
  BY DEF File!Fails, File!Goes, File!Tells, File!Fault, File!files, File!mail, File!facts, File!bounds, FileInv,
    FileIsTyped, File!Initial
<1>5. CallIsRight(r) /\ (Owner(r) => Owner(call[c])) /\ (r.at # "idle" => call[c].at # "idle")
  BY <1>1, <1>2, CallTyped DEF File!Fails, CallIsRight, HasRow, HasHash, HasMail, Owner, File!NoCall, FileInv
<1> QED BY <1>2, <1>3, <1>4, <1>5, CallWalks

LEMMA FinishesFirstStep ==
  ASSUME File!Known, FileInv, NEW c \in Calls, File!Finishes(c), call[c].at \in {"sent2", "partial2"}
  PROVE  FileInv'
<1>1. PICK r : r = [call[c] EXCEPT !.at = IF call[c].at = "sent2" THEN "sent3" ELSE "partial3"] OBVIOUS
<1>2. r \in CallTypes
  BY <1>1, CallTyped, VersionsAre DEF CallTypes, CallPlaces, File!NoCall, File!Statuses
<1>3. call' = [call EXCEPT ![c] = r] /\ UNCHANGED <<theMail, source, starts>>
  BY <1>1
  DEF File!Finishes, File!Goes, File!Tells, File!Fault, File!files, File!mail, File!facts, File!bounds, theMail,
    FileInv
<1>4. /\ outbound' \in {"none", "sending", "failed", "sent", "partial"}
      /\ resource' \in {"none", "staged", "sending", "failed", "sent", "partial", "sent_archive_failed"}
  BY DEF File!Finishes, File!Goes, File!Tells, File!Fault, File!files, File!mail, File!facts, File!bounds, FileInv,
    FileIsTyped, File!Initial
<1>5. CallIsRight(r) /\ (Owner(r) => Owner(call[c])) /\ (r.at # "idle" => call[c].at # "idle")
  BY <1>1, <1>2, CallTyped DEF File!Finishes, CallIsRight, HasRow, HasHash, HasMail, Owner, File!NoCall, FileInv
<1> QED BY <1>2, <1>3, <1>4, <1>5, CallWalks

LEMMA FinishesLastStep ==
  ASSUME File!Known, FileInv, NEW c \in Calls, File!Finishes(c), call[c].at \in {"sent3", "partial3"}
  PROVE  FileInv'
<1>1. PICK r : r = [File!NoCall EXCEPT !.told = "sent", !.copy = call[c].copy] OBVIOUS
<1>2. r \in CallTypes
  BY <1>1, CallTyped, VersionsAre DEF CallTypes, CallPlaces, File!NoCall, File!Statuses
<1>3. call' = [call EXCEPT ![c] = r] /\ UNCHANGED <<theMail, source, starts>>
  BY <1>1
  DEF File!Finishes, File!Goes, File!Tells, File!Fault, File!files, File!mail, File!facts, File!bounds, theMail,
    FileInv
<1>4. /\ outbound' \in {"none", "sending", "failed", "sent", "partial"}
      /\ resource' \in {"none", "staged", "sending", "failed", "sent", "partial", "sent_archive_failed"}
  BY DEF File!Finishes, File!Goes, File!Tells, File!Fault, File!files, File!mail, File!facts, File!bounds, FileInv,
    FileIsTyped, File!Initial
<1>5. CallIsRight(r) /\ (Owner(r) => Owner(call[c])) /\ (r.at # "idle" => call[c].at # "idle")
  BY <1>1, <1>2, CallTyped DEF File!Finishes, CallIsRight, HasRow, HasHash, HasMail, Owner, File!NoCall, FileInv
<1> QED BY <1>2, <1>3, <1>4, <1>5, CallWalks

LEMMA DiesStep ==
  ASSUME File!Known, FileInv, NEW c \in Calls, File!Dies(c)
  PROVE  FileInv'
<1>1. PICK r : r = File!NoCall OBVIOUS
<1>2. r \in CallTypes
  BY <1>1, CallTyped, VersionsAre DEF CallTypes, CallPlaces, File!NoCall, File!Statuses
<1>3. call' = [call EXCEPT ![c] = r] /\ UNCHANGED <<theMail, source, starts>>
  BY <1>1
  DEF File!Dies, File!Goes, File!Tells, File!Fault, File!files, File!mail, File!facts, File!bounds, theMail, FileInv
<1>4. /\ outbound' \in {"none", "sending", "failed", "sent", "partial"}
      /\ resource' \in {"none", "staged", "sending", "failed", "sent", "partial", "sent_archive_failed"}
  BY DEF File!Dies, File!Goes, File!Tells, File!Fault, File!files, File!mail, File!facts, File!bounds, FileInv,
    FileIsTyped, File!Initial
<1>5. CallIsRight(r) /\ (Owner(r) => Owner(call[c])) /\ (r.at # "idle" => call[c].at # "idle")
  BY <1>1, <1>2, CallTyped DEF File!Dies, CallIsRight, HasRow, HasHash, HasMail, Owner, File!NoCall, FileInv
<1> QED BY <1>2, <1>3, <1>4, <1>5, CallWalks

\* The file may be edited at any time.
LEMMA EditsStep == ASSUME File!Known, FileInv, File!Edits PROVE FileInv'
<1> USE DEF File!Edits, File!facts, File!mail, File!bounds
<1>1. source' \in File!Versions BY DEF FileInv, FileIsTyped, File!Versions, File!Known
<1>2. FileIsTyped' BY <1>1 DEF FileInv, FileIsTyped
<1> QED BY <1>2 DEF FileInv, RowIsOfTheMail, Taken, CallsAreApart, CallIsRight, HasRow, HasHash, HasMail

LEMMA BeginsStep ==
  ASSUME File!Known, FileInv, NEW c \in Calls, File!Begins(c)
  PROVE  FileInv'
<1>1. PICK r : r = [File!NoCall EXCEPT !.at = IF way = "cli" THEN "read" ELSE "hash"] OBVIOUS
<1>2. r \in CallTypes /\ r.at \in {"read", "hash"} /\ (r.at = "read" => way = "cli") /\ r.told = "nothing"
  BY <1>1, VersionsAre DEF CallTypes, CallPlaces, File!NoCall, File!Statuses
<1>3. call' = [call EXCEPT ![c] = r] /\ UNCHANGED <<theMail, source, outbound, resource>> /\ starts' = starts + 1
  BY <1>1 DEF File!Begins, File!files, File!facts, File!mail, theMail
<1>4. FileIsTyped /\ starts \in Nat BY DEF FileInv, FileIsTyped
<1>5. way = "window" => starts = 0 /\ starts' > 0 BY <1>3, <1>4 DEF File!Begins
<1>6. \A x \in CallTypes : CallIsRight(x) <=> CallIsRight(x)'
  BY <1>3 DEF theMail, CallIsRight, HasRow, HasHash, HasMail, Taken
<1>7. FileIsTyped' /\ RowIsOfTheMail' BY <1>3, <1>4 DEF theMail, FileInv, FileIsTyped, RowIsOfTheMail, Taken
<1>8. CallIsRight(r) /\ ~Owner(r) BY <1>2 DEF CallIsRight, HasRow, HasHash, HasMail, Owner
<1>9. UNCHANGED way /\ starts <= starts' BY <1>3, <1>4 DEF theMail
<1>10. CallIsRight(r)' BY <1>2, <1>6, <1>8
<1> QED BY <1>2, <1>3, <1>5, <1>6, <1>7, <1>8, <1>9, <1>10, CallsOn

\* A request of the window has one call: nobody else reads the copy it stages.
LEMMA StagesStep ==
  ASSUME File!Known, FileInv, NEW c \in Calls, File!Stages(c)
  PROVE  FileInv'
<1>1. PICK r : r = [call[c] EXCEPT !.at = "verify"] OBVIOUS
<1>2. r \in CallTypes /\ r.at = "verify" /\ r.seen = call[c].seen /\ r.told = call[c].told
  BY <1>1, CallTyped DEF CallTypes, CallPlaces
<1>3. /\ call' = [call EXCEPT ![c] = r] /\ staged' = source /\ call[c].at = "stage"
      /\ UNCHANGED <<way, fileConfirmed, row, inbox, fileAnswered, lost, source, starts, outbound, resource>>
  BY <1>1 DEF File!Stages, File!Goes, File!facts, File!mail, File!bounds
<1>4. FileIsTyped' /\ RowIsOfTheMail' BY <1>3 DEF FileInv, FileIsTyped, RowIsOfTheMail, Taken
<1>5. CallIsRight(r)' /\ ~Owner(r)
  BY <1>2, <1>3, CallTyped DEF CallIsRight, HasRow, HasHash, HasMail, Owner
<1>6. ASSUME NEW x \in CallTypes, CallIsRight(x), way = "window" => x.at = "idle" PROVE CallIsRight(x)'
  BY <1>3, <1>6 DEF CallIsRight, HasRow, HasHash, HasMail, Taken
<1>7. starts <= starts' BY <1>3 DEF FileInv, FileIsTyped
<1> QED BY <1>2, <1>3, <1>4, <1>5, <1>6, <1>7, CallsOn

\* The attempt is given to a call when none has it, and never again once the mail was taken.
LEMMA AttemptsStep ==
  ASSUME File!Known, FileInv, NEW c \in Calls, File!Attempts(c)
  PROVE  FileInv'
<1>0. FileIsTyped /\ RowIsOfTheMail /\ CallIsRight(call[c]) /\ call[c].at = "attempt"
  BY CallTyped DEF FileInv, File!Attempts
<1>1. starts <= starts'
    /\ UNCHANGED <<way, fileConfirmed, staged, inbox, fileAnswered, lost, source, starts, outbound, resource>>
  BY <1>0 DEF FileIsTyped, File!Attempts, File!files, File!facts, File!mail, File!bounds
<1>2. CASE File!IsDuplicate
  <2>1. PICK r : r = [call[c] EXCEPT !.at = "create", !.prev = row.status] OBVIOUS
  <2>2. row.status \in {"sent", "sent_archive_failed", "attempt_created"} BY <1>2 DEF File!IsDuplicate
  <2>3. r \in CallTypes /\ r.at = "create" /\ r.prev # "none" /\ r.told = call[c].told
    BY <2>1, <2>2, CallTyped DEF CallTypes, CallPlaces, File!Statuses
  <2>4. call' = [call EXCEPT ![c] = r] /\ UNCHANGED row BY <1>2, <2>1 DEF File!Attempts
  <2>5. CallIsRight(r) /\ ~Owner(r) BY <1>0, <2>3 DEF CallIsRight, HasRow, HasHash, HasMail, Owner
  <2>6. UNCHANGED theMail BY <1>1, <2>4 DEF theMail
  <2>7. /\ outbound' \in {"none", "sending", "failed", "sent", "partial"}
        /\ resource' \in {"none", "staged", "sending", "failed", "sent", "partial", "sent_archive_failed"}
    BY <1>0, <1>1 DEF FileIsTyped
  <2> QED BY <1>0, <1>1, <2>3, <2>4, <2>5, <2>6, <2>7, CallWalks
<1>3. CASE ~File!IsDuplicate
  <2>1. PICK r : r = [call[c] EXCEPT !.at = "create"] OBVIOUS
  <2>2. row.status \in {"none", "failed"}
    BY <1>0, <1>3 DEF File!IsDuplicate, FileIsTyped, File!Statuses
  <2>3. /\ r \in CallTypes /\ r.at = "create" /\ r.told = call[c].told /\ r.sha = call[c].sha /\ r.seen = call[c].seen
        /\ r.prev = call[c].prev
    BY <2>1, CallTyped DEF CallTypes, CallPlaces
  <2>4. call' = [call EXCEPT ![c] = r] /\ row' = [row EXCEPT !.status = "attempt_created", !.sha = call[c].sha]
    BY <1>3, <2>1 DEF File!Attempts, FileInv
  <2>5. /\ row'.status = "attempt_created" /\ row'.sha = r.sha /\ row'.archive = row.archive
        /\ row' \in [status : File!Statuses, sha : {0} \cup File!Versions, archive : {0} \cup File!Versions]
    BY <1>0, <2>3, <2>4, CallTyped, VersionsAre DEF FileIsTyped, File!Statuses
  <2>6. ~Taken /\ ~Taken' BY <1>0, <1>1, <2>2 DEF RowIsOfTheMail, Taken
  <2>7. FileIsTyped' BY <1>0, <1>1, <2>5 DEF FileIsTyped
  <2>8. RowIsOfTheMail' BY <1>0, <1>1, <2>5, <2>6 DEF RowIsOfTheMail
  <2>9. CallIsRight(r)'
    BY <1>0, <1>1, <2>3, <2>5, <2>6 DEF CallIsRight, HasRow, HasHash, HasMail, Owner
  <2>10. ASSUME NEW x \in CallTypes, CallIsRight(x) PROVE CallIsRight(x)'
    <3>1. ~Owner(x) /\ x.at # "archive" BY <2>2, <2>10 DEF CallIsRight, HasRow
    <3> QED BY <1>1, <2>6, <2>10, <3>1 DEF CallIsRight, HasRow, HasHash, HasMail
  <2> QED BY <1>0, <1>1, <2>2, <2>3, <2>4, <2>7, <2>8, <2>9, <2>10, CallsOn
<1> QED BY <1>2, <1>3

\* Who has the attempt sends to a server that has no mail of the request yet, but one that is known to be lost.
LEMMA ServerTakesStep ==
  ASSUME File!Known, FileInv, NEW c \in Calls, File!ServerTakes(c)
  PROVE  FileInv' /\ ~Taken
<1>0. FileIsTyped /\ RowIsOfTheMail /\ CallIsRight(call[c]) /\ call[c].at = "send"
  BY CallTyped DEF FileInv, File!ServerTakes
<1>1. starts <= starts'
    /\ UNCHANGED <<way, fileConfirmed, staged, row, fileAnswered, lost, source, starts, outbound, resource>>
  BY <1>0 DEF FileIsTyped, File!ServerTakes, File!files, File!facts, File!bounds
<1>2. PICK r : r = [call[c] EXCEPT !.at = "answer"] OBVIOUS
<1>3. /\ r \in CallTypes /\ r.at = "answer" /\ r.told = call[c].told /\ r.sha = call[c].sha /\ r.seen = call[c].seen
      /\ r.copy = call[c].copy
  BY <1>2, CallTyped DEF CallTypes, CallPlaces
<1>4. call' = [call EXCEPT ![c] = r] /\ inbox' = Append(inbox, call[c].copy) BY <1>2 DEF File!ServerTakes, File!Goes
<1>5. inbox' \in Seq(0..MaxVersion) /\ inbox' # <<>> /\ inbox'[Len(inbox')] = call[c].copy
  BY <1>0, <1>4, CallTyped DEF FileIsTyped
<1>6. Owner(call[c]) /\ Owner(r) /\ ~Taken /\ row.status = "attempt_created"
  BY <1>0, <1>3 DEF CallIsRight, HasRow, HasMail, Owner
<1>7. ~fileAnswered BY <1>0, <1>6 DEF RowIsOfTheMail, Taken
<1>8. FileIsTyped' BY <1>0, <1>1, <1>5 DEF FileIsTyped
<1>9. RowIsOfTheMail' BY <1>0, <1>1, <1>5, <1>6, <1>7 DEF RowIsOfTheMail
<1>10. CallIsRight(r)'
  BY <1>0, <1>1, <1>3, <1>5, <1>6, <1>7 DEF CallIsRight, HasRow, HasHash, HasMail, Owner
<1>11. ASSUME NEW x \in CallTypes, CallIsRight(x), ~Owner(x) PROVE CallIsRight(x)'
  <2>1. x.at \notin {"answer", "record", "archive"} BY <1>6, <1>11 DEF CallIsRight, HasRow, Owner
  <2> QED BY <1>1, <1>11, <2>1 DEF CallIsRight, HasRow, HasHash, HasMail
<1>12. FileInv' BY <1>0, <1>1, <1>3, <1>4, <1>6, <1>8, <1>9, <1>10, <1>11, CallsOn
<1> QED BY <1>6, <1>12

LEMMA IsAnsweredStep ==
  ASSUME File!Known, FileInv, NEW c \in Calls, File!IsAnswered(c)
  PROVE  FileInv'
<1>0. FileIsTyped /\ RowIsOfTheMail /\ CallIsRight(call[c]) /\ call[c].at = "answer"
  BY CallTyped DEF FileInv, File!IsAnswered
<1>1. starts <= starts' /\ UNCHANGED <<way, fileConfirmed, staged, row, inbox, source, starts, outbound, resource>>
  BY <1>0 DEF FileIsTyped, File!IsAnswered, File!files, File!facts
<1>2. /\ Owner(call[c]) /\ row.status = "attempt_created" /\ ~fileAnswered /\ inbox # <<>>
      /\ inbox[Len(inbox)] = call[c].copy
  BY <1>0 DEF CallIsRight, HasRow, HasMail, Owner
<1>3. CASE fileAnswered' = TRUE /\ File!Goes(c, "record") /\ UNCHANGED lost
  <2>1. PICK r : r = [call[c] EXCEPT !.at = "record"] OBVIOUS
  <2>2. /\ r \in CallTypes /\ r.at = "record" /\ r.told = call[c].told /\ r.sha = call[c].sha /\ r.seen = call[c].seen
        /\ r.copy = call[c].copy
    BY <2>1, CallTyped DEF CallTypes, CallPlaces
  <2>3. call' = [call EXCEPT ![c] = r] BY <1>3, <2>1 DEF File!Goes
  <2>4. FileIsTyped' /\ RowIsOfTheMail' BY <1>0, <1>1, <1>2, <1>3 DEF FileIsTyped, RowIsOfTheMail
  <2>5. CallIsRight(r)'
    BY <1>0, <1>1, <1>2, <1>3, <2>2 DEF CallIsRight, HasRow, HasHash, HasMail, Owner
  <2>6. ASSUME NEW x \in CallTypes, CallIsRight(x), ~Owner(x) PROVE CallIsRight(x)'
    <3>1. x.at # "answer" BY <2>6 DEF Owner
    <3> QED BY <1>1, <1>3, <2>6, <3>1 DEF CallIsRight, HasRow, HasHash, HasMail
  <2> QED BY <1>0, <1>1, <1>2, <2>2, <2>3, <2>4, <2>5, <2>6, CallsOn
<1>4. CASE lost' = TRUE /\ File!Goes(c, "fails") /\ UNCHANGED fileAnswered
  <2>1. PICK r : r = [call[c] EXCEPT !.at = "fails"] OBVIOUS
  <2>2. /\ r \in CallTypes /\ r.at = "fails" /\ r.told = call[c].told /\ r.sha = call[c].sha /\ r.seen = call[c].seen
        /\ r.copy = call[c].copy
    BY <2>1, CallTyped DEF CallTypes, CallPlaces
  <2>3. call' = [call EXCEPT ![c] = r] BY <1>4, <2>1 DEF File!Goes
  <2>4. FileIsTyped' /\ RowIsOfTheMail' /\ ~Taken' BY <1>0, <1>1, <1>2, <1>4 DEF FileIsTyped, RowIsOfTheMail, Taken
  <2>5. CallIsRight(r)'
    BY <1>0, <1>1, <1>2, <1>4, <2>2, <2>4 DEF CallIsRight, HasRow, HasHash, HasMail, Owner
  <2>6. ASSUME NEW x \in CallTypes, CallIsRight(x), ~Owner(x) PROVE CallIsRight(x)'
    BY <1>1, <1>4, <2>6 DEF CallIsRight, HasRow, HasHash, HasMail
  <2> QED BY <1>0, <1>1, <1>2, <2>2, <2>3, <2>4, <2>5, <2>6, CallsOn
<1> QED BY <1>3, <1>4 DEF File!IsAnswered

LEMMA FailsFirstStep ==
  ASSUME File!Known, FileInv, NEW c \in Calls, File!Fails(c), call[c].at = "fails"
  PROVE  FileInv'
<1>0. FileIsTyped /\ RowIsOfTheMail /\ CallIsRight(call[c]) /\ call[c].at = "fails"
  BY CallTyped DEF FileInv, File!Fails
<1>1. starts <= starts'
    /\ UNCHANGED <<way, fileConfirmed, staged, inbox, fileAnswered, lost, source, starts, outbound, resource>>
  BY <1>0 DEF FileIsTyped, File!Fails, File!files, File!facts, File!mail, File!bounds
<1>2. PICK r : r = [call[c] EXCEPT !.at = "fails2"] OBVIOUS
<1>3. /\ r \in CallTypes /\ r.at = "fails2" /\ r.told = call[c].told /\ r.sha = call[c].sha /\ r.seen = call[c].seen
      /\ r.copy = call[c].copy
  BY <1>2, CallTyped DEF CallTypes, CallPlaces
<1>4. call' = [call EXCEPT ![c] = r] BY <1>0, <1>2 DEF File!Fails, File!Goes
<1>5. /\ row' \in [status : File!Statuses, sha : {0} \cup File!Versions, archive : {0} \cup File!Versions]
      /\ row'.status = "failed" /\ row'.sha = row.sha /\ row'.archive = row.archive
  BY <1>0, CallTyped, VersionsAre DEF File!Fails, FileIsTyped, File!Statuses
<1>6. Owner(call[c]) /\ row.status = "attempt_created" /\ ~Taken BY <1>0 DEF CallIsRight, HasRow, HasMail, Owner
<1>7. FileIsTyped' BY <1>0, <1>1, <1>5 DEF FileIsTyped
<1>8. RowIsOfTheMail' BY <1>0, <1>1, <1>5, <1>6 DEF RowIsOfTheMail, Taken
<1>9. CallIsRight(r)' /\ (Owner(r) => Owner(call[c]))
  BY <1>0, <1>1, <1>3, <1>5, <1>6 DEF CallIsRight, HasRow, HasHash, HasMail, Owner, Taken
<1>10. ASSUME NEW x \in CallTypes, CallIsRight(x), Owner(call[c]) => ~Owner(x) PROVE CallIsRight(x)'
  <2>1. ~Owner(x) BY <1>6, <1>10 DEF CallIsRight, HasRow
  <2>2. Owner(call[c]) => x.at # "archive" BY <1>6, <1>10 DEF CallIsRight, HasRow
  <2>3. HasRow(x)' BY <1>1, <1>5, <1>6, <1>10, <2>1, <2>2 DEF CallIsRight, HasRow
  <2> QED BY <1>1, <1>10, <2>1, <2>3 DEF CallIsRight, HasHash, HasMail, Taken
<1> QED BY <1>0, <1>1, <1>3, <1>4, <1>7, <1>8, <1>9, <1>10, CallsOn

LEMMA RecordsSentStep ==
  ASSUME File!Known, FileInv, NEW c \in Calls, File!RecordsSent(c)
  PROVE  FileInv'
<1>0. FileIsTyped /\ RowIsOfTheMail /\ CallIsRight(call[c]) /\ call[c].at = "record"
  BY CallTyped DEF FileInv, File!RecordsSent
<1>1. starts <= starts'
    /\ UNCHANGED <<way, fileConfirmed, staged, inbox, fileAnswered, lost, source, starts, outbound, resource>>
  BY <1>0 DEF FileIsTyped, File!RecordsSent, File!files, File!facts, File!mail, File!bounds
<1>2. PICK r : r = [call[c] EXCEPT !.at = "archive"] OBVIOUS
<1>3. /\ r \in CallTypes /\ r.at = "archive" /\ r.told = call[c].told /\ r.sha = call[c].sha /\ r.seen = call[c].seen
      /\ r.copy = call[c].copy
  BY <1>2, CallTyped DEF CallTypes, CallPlaces
<1>4. call' = [call EXCEPT ![c] = r] BY <1>0, <1>2 DEF File!RecordsSent, File!Goes
<1>5. /\ row' \in [status : File!Statuses, sha : {0} \cup File!Versions, archive : {0} \cup File!Versions]
      /\ row'.status = "sent" /\ row'.sha = row.sha /\ row'.archive = row.archive
  BY <1>0, CallTyped, VersionsAre DEF File!RecordsSent, FileIsTyped, File!Statuses
<1>6. Owner(call[c]) /\ row.status = "attempt_created" /\ fileAnswered BY <1>0 DEF CallIsRight, HasRow, HasMail, Owner
<1>7. FileIsTyped' BY <1>0, <1>1, <1>5 DEF FileIsTyped
<1>8. RowIsOfTheMail' BY <1>0, <1>1, <1>5, <1>6 DEF RowIsOfTheMail, Taken
<1>9. CallIsRight(r)' /\ (Owner(r) => Owner(call[c]))
  BY <1>0, <1>1, <1>3, <1>5, <1>6 DEF CallIsRight, HasRow, HasHash, HasMail, Owner, Taken
<1>10. ASSUME NEW x \in CallTypes, CallIsRight(x), Owner(call[c]) => ~Owner(x) PROVE CallIsRight(x)'
  <2>1. ~Owner(x) BY <1>6, <1>10 DEF CallIsRight, HasRow
  <2>2. Owner(call[c]) => x.at # "archive" BY <1>6, <1>10 DEF CallIsRight, HasRow
  <2>3. HasRow(x)' BY <1>1, <1>5, <1>6, <1>10, <2>1, <2>2 DEF CallIsRight, HasRow
  <2> QED BY <1>1, <1>10, <2>1, <2>3 DEF CallIsRight, HasHash, HasMail, Taken
<1> QED BY <1>0, <1>1, <1>3, <1>4, <1>7, <1>8, <1>9, <1>10, CallsOn

LEMMA ArchivedCopyStep ==
  ASSUME File!Known, FileInv, NEW c \in Calls, File!Archives(c), row' = [row EXCEPT !.archive = call[c].copy],
      File!Goes(c, "sent2")
  PROVE  FileInv'
<1>0. FileIsTyped /\ RowIsOfTheMail /\ CallIsRight(call[c]) /\ call[c].at = "archive"
  BY CallTyped DEF FileInv, File!Archives
<1>1. starts <= starts'
    /\ UNCHANGED <<way, fileConfirmed, staged, inbox, fileAnswered, lost, source, starts, outbound, resource>>
  BY <1>0 DEF FileIsTyped, File!Archives, File!files, File!facts, File!mail, File!bounds
<1>2. PICK r : r = [call[c] EXCEPT !.at = "sent2"] OBVIOUS
<1>3. /\ r \in CallTypes /\ r.at = "sent2" /\ r.told = call[c].told /\ r.sha = call[c].sha /\ r.seen = call[c].seen
      /\ r.copy = call[c].copy
  BY <1>2, CallTyped DEF CallTypes, CallPlaces
<1>4. call' = [call EXCEPT ![c] = r] BY <1>0, <1>2 DEF File!Archives, File!Goes
<1>5. /\ row' \in [status : File!Statuses, sha : {0} \cup File!Versions, archive : {0} \cup File!Versions]
      /\ row'.status = row.status /\ row'.sha = row.sha /\ row'.archive = call[c].copy
  BY <1>0, CallTyped, VersionsAre DEF File!Archives, FileIsTyped, File!Statuses
<1>6. fileAnswered /\ row.status \in {"sent", "sent_archive_failed"} /\ ~Owner(call[c])
    /\ inbox[Len(inbox)] = call[c].copy
  BY <1>0 DEF CallIsRight, HasRow, HasMail, Owner
<1>7. FileIsTyped' BY <1>0, <1>1, <1>5 DEF FileIsTyped
<1>8. RowIsOfTheMail' BY <1>0, <1>1, <1>5, <1>6 DEF RowIsOfTheMail, Taken
<1>9. CallIsRight(r)' /\ (Owner(r) => Owner(call[c]))
  BY <1>0, <1>1, <1>3, <1>5, <1>6 DEF CallIsRight, HasRow, HasHash, HasMail, Owner, Taken
<1>10. ASSUME NEW x \in CallTypes, CallIsRight(x), Owner(call[c]) => ~Owner(x) PROVE CallIsRight(x)'
  <2>1. ~Owner(x) BY <1>6, <1>10 DEF CallIsRight, HasRow
  <2>2. Owner(call[c]) => x.at # "archive" BY <1>6, <1>10 DEF CallIsRight, HasRow
  <2>3. HasRow(x)' BY <1>1, <1>5, <1>6, <1>10, <2>1, <2>2 DEF CallIsRight, HasRow
  <2> QED BY <1>1, <1>10, <2>1, <2>3 DEF CallIsRight, HasHash, HasMail, Taken
<1> QED BY <1>0, <1>1, <1>3, <1>4, <1>7, <1>8, <1>9, <1>10, CallsOn

LEMMA NotArchivedStep ==
  ASSUME File!Known, FileInv, NEW c \in Calls, File!Archives(c), row' = [row EXCEPT !.status = File!WithoutArchive],
      File!Goes(c, "partial2")
  PROVE  FileInv'
<1>0. FileIsTyped /\ RowIsOfTheMail /\ CallIsRight(call[c]) /\ call[c].at = "archive"
  BY CallTyped DEF FileInv, File!Archives
<1>1. starts <= starts'
    /\ UNCHANGED <<way, fileConfirmed, staged, inbox, fileAnswered, lost, source, starts, outbound, resource>>
  BY <1>0 DEF FileIsTyped, File!Archives, File!files, File!facts, File!mail, File!bounds
<1>2. PICK r : r = [call[c] EXCEPT !.at = "partial2"] OBVIOUS
<1>3. /\ r \in CallTypes /\ r.at = "partial2" /\ r.told = call[c].told /\ r.sha = call[c].sha /\ r.seen = call[c].seen
      /\ r.copy = call[c].copy
  BY <1>2, CallTyped DEF CallTypes, CallPlaces
<1>4. call' = [call EXCEPT ![c] = r] BY <1>0, <1>2 DEF File!Archives, File!Goes, File!WithoutArchive
<1>5. /\ row' \in [status : File!Statuses, sha : {0} \cup File!Versions, archive : {0} \cup File!Versions]
      /\ row'.status = "sent_archive_failed" /\ row'.sha = row.sha /\ row'.archive = row.archive
  BY <1>0, CallTyped, VersionsAre DEF File!Archives, FileIsTyped, File!Statuses, File!WithoutArchive
<1>6. fileAnswered /\ row.status \in {"sent", "sent_archive_failed"} /\ ~Owner(call[c])
    /\ inbox[Len(inbox)] = call[c].copy
  BY <1>0 DEF CallIsRight, HasRow, HasMail, Owner
<1>7. FileIsTyped' BY <1>0, <1>1, <1>5 DEF FileIsTyped
<1>8. RowIsOfTheMail' BY <1>0, <1>1, <1>5, <1>6 DEF RowIsOfTheMail, Taken
<1>9. CallIsRight(r)' /\ (Owner(r) => Owner(call[c]))
  BY <1>0, <1>1, <1>3, <1>5, <1>6 DEF CallIsRight, HasRow, HasHash, HasMail, Owner, Taken
<1>10. ASSUME NEW x \in CallTypes, CallIsRight(x), Owner(call[c]) => ~Owner(x) PROVE CallIsRight(x)'
  <2>1. ~Owner(x) BY <1>6, <1>10 DEF CallIsRight, HasRow
  <2>2. Owner(call[c]) => x.at # "archive" BY <1>6, <1>10 DEF CallIsRight, HasRow
  <2>3. HasRow(x)' BY <1>1, <1>5, <1>6, <1>10, <2>1, <2>2 DEF CallIsRight, HasRow
  <2> QED BY <1>1, <1>10, <2>1, <2>3 DEF CallIsRight, HasHash, HasMail, Taken
<1> QED BY <1>0, <1>1, <1>3, <1>4, <1>7, <1>8, <1>9, <1>10, CallsOn

\* Every step keeps the invariant.
LEMMA FileStep == ASSUME File!Known, FileInv, [File!Next]_(File!vars) PROVE FileInv'
<1>1. CASE UNCHANGED File!vars
  BY <1>1
  DEF File!vars, File!files, File!facts, File!mail, File!bounds, FileInv, FileIsTyped, RowIsOfTheMail, Taken,
    CallsAreApart,
    CallIsRight, HasRow, HasHash, HasMail
<1>2. ASSUME NEW c \in Calls,
             \/ File!Begins(c) \/ File!Hashes(c) \/ File!LooksAtStaged(c) \/ File!Stages(c) \/ File!Verifies(c)
                 \/ File!Reads(c)
             \/ File!Attempts(c) \/ File!Creates(c) \/ File!Marks(c) \/ File!StoresResource(c) \/ File!CopiesToSend(c)
             \/ File!IsRefused(c) \/ File!ServerTakes(c) \/ File!IsAnswered(c) \/ File!Fails(c)
             \/ File!RecordsSent(c) \/ File!Archives(c) \/ File!Finishes(c) \/ File!Dies(c)
      PROVE  FileInv'
  <2>1. CASE File!CopiesToSend(c) BY <2>1, CopiedStep, NotCopiedStep DEF File!CopiesToSend
  <2>2. CASE File!IsRefused(c) BY <2>2, RefusedStageStep, RefusedOtherwiseStep DEF File!IsRefused
  <2>3. CASE File!Fails(c)
    <3>1. call[c].at \in {"fails", "fails2", "fails3"} BY <2>3 DEF File!Fails
    <3> QED BY <2>3, <3>1, FailsFirstStep, FailsSecondStep, FailsThirdStep
  <2>4. CASE File!Finishes(c)
    <3>1. call[c].at \in {"sent2", "sent3", "partial2", "partial3"} BY <2>4 DEF File!Finishes
    <3> QED BY <2>4, <3>1, FinishesFirstStep, FinishesLastStep
  <2>5. CASE File!Archives(c) BY <2>5, ArchivedCopyStep, NotArchivedStep DEF File!Archives
  <2>6. CASE File!Begins(c) \/ File!Hashes(c) \/ File!LooksAtStaged(c) \/ File!Stages(c) \/ File!Verifies(c)
      \/ File!Reads(c)
    BY <2>6, BeginsStep, HashesStep, LooksAtStagedStep, StagesStep, VerifiesStep, ReadsStep
  <2>7. CASE File!Attempts(c) \/ File!Creates(c) \/ File!Marks(c) \/ File!StoresResource(c)
    BY <2>7, AttemptsStep, CreatesStep, MarksStep, StoresResourceStep
  <2>8. CASE File!ServerTakes(c) \/ File!IsAnswered(c) \/ File!RecordsSent(c) \/ File!Dies(c)
    BY <2>8, ServerTakesStep, IsAnsweredStep, RecordsSentStep, DiesStep
  <2> QED BY <1>2, <2>1, <2>2, <2>3, <2>4, <2>5, <2>6, <2>7, <2>8
<1> QED BY <1>1, <1>2, EditsStep DEF File!Next

\* The server is given a mail of the request when it has none but one that is known to be lost.
LEMMA FileActs ==
  ASSUME File!Known, FileInv, [File!Next]_(File!vars), Len(inbox) > 0, fileAnswered \/ ~lost
  PROVE  inbox' = inbox
<1>1. Taken
  <2>1. inbox \in Seq(0..MaxVersion) BY DEF FileInv, FileIsTyped
  <2>2. inbox # <<>> BY <2>1, EmptySeq
  <2> QED BY <2>2 DEF Taken
<1>2. \A c \in Calls : ~File!ServerTakes(c) BY <1>1, ServerTakesStep
<1> QED
  BY <1>2 DEF File!Next, File!vars, File!mail, File!Edits, File!Begins, File!Hashes, File!LooksAtStaged, File!Stages,
  File!Verifies, File!Reads, File!Attempts, File!Creates, File!Marks, File!StoresResource, File!CopiesToSend,
      File!IsRefused,
  File!IsAnswered, File!Fails, File!RecordsSent, File!Archives, File!Finishes, File!Dies

\* What the invariant says of the properties.
LEMMA FileSafe ==
  ASSUME File!Known, FileInv
  PROVE  File!TypeOK /\ File!SentAsHashed /\ File!RowIsTrue
<1>1. FileIsTyped /\ RowIsOfTheMail BY DEF FileInv
<1>2. File!TypeOK BY <1>1, CallTyped DEF FileIsTyped, File!TypeOK
<1>3. ASSUME NEW c \in Calls, call[c].at \in {"send", "answer", "record", "archive"}
      PROVE  /\ call[c].copy = row.sha
             /\ way # "cli" => call[c].copy = call[c].seen
             /\ way = "window" => call[c].copy = fileConfirmed
  BY <1>3, CallTyped DEF CallIsRight, HasRow, HasHash, Owner
<1>4. File!SentAsHashed BY <1>3 DEF File!SentAsHashed
<1>5. row.status = "failed" => ~fileAnswered BY <1>1 DEF RowIsOfTheMail, Taken
<1>6. \A c \in Calls : call[c].told = "sent" => fileAnswered BY CallTyped DEF CallIsRight, HasMail
<1>7. File!RowIsTrue BY <1>1, <1>5, <1>6 DEF RowIsOfTheMail, File!RowIsTrue
<1> QED BY <1>2, <1>4, <1>7

-----------------------------------------------------------------------------
(* ComposedMail: what is known of a mail, and of the one under way.         *)

Resources ==
  [status : {"none", "staged", "failed", "sent", "sent_archive_failed"}, sha : 0..MaxVersion, archive : 0..MaxVersion]

Written == {<<>>, <<"sent">>, <<"sent_archive_failed">>, <<"failed">>}

MailIsTyped ==
  /\ file \in [Mail!Index -> 0..MaxVersion] /\ sha \in [Mail!Index -> 0..MaxVersion]
  /\ copy \in [Mail!Index -> 0..(MaxVersion + 1)] /\ message \in [Mail!Index -> 0..(MaxVersion + 1)]
  /\ n \in 0..MaxMails /\ i \in 0..Files
  /\ at \in {"idle", "hash", "create", "stage", "check", "unstaged", "build", "send", "fails", "failsFile",
      "failsRow",
             "archive", "row", "final"}
  /\ out \in [Mail!Mails -> {"none", "sending", "failed", "sent", "partial"}]
  /\ res \in [Mail!Mails -> [Mail!Index -> Resources]]
  /\ sentRows \in [Mail!Mails -> [Mail!Index -> Written]]
  /\ taken \in [Mail!Mails -> [Mail!Index -> 0..(MaxVersion + 1)]]
  /\ answered \subseteq Mail!Mails
  /\ told \in [Mail!Mails -> {"nothing", "refused", "failed", "error", "sent"}]

\* An attachment of a mail, with the row that says what became of it.
FileIsRight(m, f) ==
  /\ m \in answered =>
       /\ taken[m][f] = res[m][f].sha /\ res[m][f].archive \in {0, taken[m][f]}
       /\ res[m][f].status = "sent" => res[m][f].archive = taken[m][f]
  /\ m \notin answered => res[m][f].status \in {"none", "staged", "failed"} /\ res[m][f].archive = 0
  /\ \/ sentRows[m][f] = <<>>
     \/ /\ sentRows[m][f] = <<res[m][f].status>>
        /\ res[m][f].status \in IF m \in answered THEN {"sent", "sent_archive_failed"} ELSE {"failed"}

StateIsRight(m) ==
  /\ out[m] = "sent" => m \in answered /\ \A f \in Mail!Index : res[m][f].status = "sent"
  /\ out[m] = "partial" => m \in answered /\ \E f \in Mail!Index : res[m][f].status = "sent_archive_failed"
  /\ out[m] = "failed" => m \notin answered
  /\ told[m] = "sent" => out[m] \in {"sent", "partial"}
MailIsRight(m) == StateIsRight(m) /\ \A f \in Mail!Index : FileIsRight(m, f)

IsFresh(m) ==
  /\ out[m] = "none" /\ told[m] = "nothing" /\ m \notin answered
  /\ res[m] = [f \in Mail!Index |-> Mail!NoResource] /\ sentRows[m] = [f \in Mail!Index |-> <<>>]

\* What the mail under way has by now.
AttachmentIsPlaced(f) ==
  /\ (at \in {"stage", "check"} /\ f < i) \/ at \in {"build", "send", "fails", "archive", "row", "final"} =>
      res[n][f].sha = sha[f]
  /\ at \in {"stage", "check", "unstaged", "build", "send", "fails"} => sentRows[n][f] = <<>>
  /\ at \in {"archive", "row", "failsFile", "failsRow"} /\ i <= f => sentRows[n][f] = <<>>
  /\ \/ at \in {"archive", "row"} /\ f < i
     \/ at = "row" /\ f = i
     \/ at = "final"
     => res[n][f].status \in {"sent", "sent_archive_failed"}
  /\ at = "failsRow" /\ f = i => res[n][f].status = "failed"
  /\ at = "send" => message[f] = sha[f]
MailIsPlaced ==
  at # "idle" =>
    /\ n \in Mail!Mails /\ i \in Mail!Index /\ told[n] = "nothing"
    /\ at \in {"hash", "create"} => IsFresh(n)
    /\ at \in {"create", "build", "send", "fails"} => i = 1
    /\ at \in {"stage", "check", "unstaged", "build", "send", "fails", "archive", "row", "final"} =>
        out[n] = "sending"
    /\ at \in {"failsFile", "failsRow"} => out[n] = "failed"
    /\ (n \in answered) = (at \in {"archive", "row", "final"})
    /\ \A f \in Mail!Index : AttachmentIsPlaced(f)

MailInv ==
  /\ MailIsTyped /\ MailIsPlaced
  /\ \A m \in Mail!Mails : MailIsRight(m) /\ (m > n => IsFresh(m))

AsItWas(m) ==
  /\ out'[m] = out[m] /\ res'[m] = res[m] /\ sentRows'[m] = sentRows[m] /\ taken'[m] = taken[m] /\ told'[m] = told[m]
  /\ (m \in answered') = (m \in answered)

\* The invariant holds at the start.
LEMMA MailInit == ASSUME Mail!Bounded, Mail!Init PROVE MailInv
<1> USE DEF Mail!Init, Mail!Bounded
<1>1. Mail!NoResource \in Resources BY DEF Resources, Mail!NoResource
<1>2. MailIsTyped BY <1>1 DEF MailIsTyped, Mail!Empty, Mail!Index, Mail!Mails, Written
<1>3. MailIsPlaced BY DEF MailIsPlaced
<1>4. ASSUME NEW m \in Mail!Mails PROVE MailIsRight(m) /\ IsFresh(m)
  <2>1. IsFresh(m) BY DEF IsFresh
  <2>2. StateIsRight(m) BY DEF StateIsRight
  <2>3. \A f \in Mail!Index : res[m][f] = Mail!NoResource /\ sentRows[m][f] = <<>> OBVIOUS
  <2> QED BY <2>1, <2>2, <2>3 DEF MailIsRight, FileIsRight, Mail!NoResource
<1> QED BY <1>2, <1>3, <1>4 DEF MailInv

\* The parts of a mail.
LEMMA MailTyped ==
  ASSUME Mail!Bounded, MailInv, at # "idle"
  PROVE  /\ n \in Mail!Mails /\ i \in Mail!Index /\ n \in Nat /\ i \in 1..Files /\ Files \in Nat
            /\ told[n] = "nothing"
         /\ MailIsTyped /\ MailIsRight(n)
         /\ \A f \in Mail!Index : res[n][f] \in Resources /\ FileIsRight(n, f) /\ AttachmentIsPlaced(f)
<1>1. n \in Mail!Mails /\ i \in Mail!Index /\ told[n] = "nothing" /\ \A f \in Mail!Index : AttachmentIsPlaced(f)
  BY DEF MailInv, MailIsPlaced
<1>2. n \in Nat /\ i \in 1..Files /\ Files \in Nat BY <1>1 DEF Mail!Bounded, Mail!Mails, Mail!Index
<1>3. MailIsTyped /\ MailIsRight(n) BY <1>1 DEF MailInv
<1>4. \A f \in Mail!Index : res[n][f] \in Resources /\ FileIsRight(n, f) BY <1>1, <1>3 DEF MailIsTyped, MailIsRight
<1> QED BY <1>1, <1>2, <1>3, <1>4

\* A mail that no step was about stays right.
LEMMA MailsAsTheyWere ==
  ASSUME MailInv, NEW m \in Mail!Mails, AsItWas(m)
  PROVE  MailIsRight(m)' /\ (IsFresh(m) => IsFresh(m)')
<1>1. MailIsRight(m) BY DEF MailInv
<1> QED BY <1>1 DEF AsItWas, MailIsRight, StateIsRight, FileIsRight, IsFresh

\* A step about the mail under way leaves the others as they are.
LEMMA MailsOn ==
  ASSUME Mail!Bounded, MailInv, at # "idle", n' = n, MailIsTyped', MailIsPlaced', StateIsRight(n)',
         \A f \in Mail!Index : FileIsRight(n, f)',
         \A m \in Mail!Mails \ {n} : AsItWas(m)
  PROVE  MailInv'
<1>1. ASSUME NEW m \in Mail!Mails PROVE MailIsRight(m)' /\ (m > n => IsFresh(m)')
  <2>1. CASE m = n
    <3>1. ~(m > n) BY <2>1, MailTyped
    <3> QED BY <2>1, <3>1 DEF MailIsRight, StateIsRight, FileIsRight
  <2>2. CASE m # n
    <3>1. m > n => IsFresh(m) BY DEF MailInv
    <3> QED BY <2>2, <3>1, MailsAsTheyWere
  <2> QED BY <2>1, <2>2
<1> QED BY <1>1 DEF MailInv

\* A step that only moves on.
LEMMA MailWalks ==
  ASSUME MailInv, UNCHANGED <<n, out, res, sentRows, taken, answered, told>>, MailIsTyped', MailIsPlaced'
  PROVE  MailInv'
<1>1. ASSUME NEW m \in Mail!Mails PROVE MailIsRight(m)' /\ (m > n => IsFresh(m)')
  <2>1. AsItWas(m) BY DEF AsItWas
  <2>2. m > n => IsFresh(m) BY DEF MailInv
  <2> QED BY <2>1, <2>2, MailsAsTheyWere
<1> QED BY <1>1 DEF MailInv

\* Each action keeps the invariant.
LEMMA EditsFileStep == ASSUME Mail!Bounded, MailInv, NEW f \in Mail!Index, Mail!EditsFile(f) PROVE MailInv'
<1> USE DEF Mail!EditsFile, Mail!outVars, Mail!mailVars
<1>1. file[f] + 1 \in 0..MaxVersion BY DEF MailInv, MailIsTyped, Mail!Bounded
<1>2. file' \in [Mail!Index -> 0..MaxVersion] BY <1>1 DEF MailInv, MailIsTyped
<1>3. MailIsTyped' BY <1>2 DEF MailInv, MailIsTyped
<1>4. MailIsPlaced' BY DEF MailInv, MailIsPlaced, AttachmentIsPlaced, IsFresh
<1> QED BY <1>3, <1>4, MailWalks

LEMMA SpoilsStep == ASSUME Mail!Bounded, MailInv, NEW f \in Mail!Index, Mail!Spoils(f) PROVE MailInv'
<1> USE DEF Mail!Spoils, Mail!outVars, Mail!mailVars
<1>1. MaxVersion + 1 \in 0..(MaxVersion + 1) BY DEF Mail!Bounded
<1>2. copy' \in [Mail!Index -> 0..(MaxVersion + 1)] BY <1>1 DEF MailInv, MailIsTyped
<1>3. MailIsTyped' BY <1>2 DEF MailInv, MailIsTyped
<1>4. MailIsPlaced' BY DEF MailInv, MailIsPlaced, AttachmentIsPlaced, IsFresh
<1> QED BY <1>3, <1>4, MailWalks

LEMMA ClicksStep == ASSUME Mail!Bounded, MailInv, Mail!Clicks PROVE MailInv'
<1> USE DEF Mail!Clicks, Mail!outVars, Mail!mailVars
<1>1. n \in Nat /\ n + 1 \in Mail!Mails /\ n + 1 \in 0..MaxMails /\ n' = n + 1 /\ 1 \in Mail!Index /\ 1 \in 0..Files
  BY DEF MailInv, MailIsTyped, Mail!Bounded, Mail!Mails, Mail!Index
<1>2. Mail!Empty \in [Mail!Index -> 0..MaxVersion] /\ Mail!Empty \in [Mail!Index -> 0..(MaxVersion + 1)]
  BY DEF Mail!Empty, Mail!Bounded
<1>3. MailIsTyped' BY <1>1, <1>2 DEF MailInv, MailIsTyped
<1>4. PICK k : k = n + 1 /\ n' = k /\ IsFresh(k) BY <1>1 DEF MailInv
<1>5. IsFresh(k)' BY <1>4 DEF IsFresh
<1>6. MailIsPlaced'
  <2>1. n' \in Mail!Mails /\ i' \in Mail!Index /\ told'[n'] = "nothing" /\ n' \notin answered'
    BY <1>1, <1>4 DEF IsFresh
  <2>2. (\A f \in Mail!Index : AttachmentIsPlaced(f))' BY DEF AttachmentIsPlaced
  <2>3. IsFresh(n)' BY <1>4, <1>5 DEF IsFresh
  <2> QED BY <2>1, <2>2, <2>3 DEF MailIsPlaced
<1>7. ASSUME NEW m \in Mail!Mails PROVE MailIsRight(m)' /\ (m > n' => IsFresh(m)')
  <2>1. m \in Nat /\ (m > n' => m > n) BY <1>1 DEF Mail!Mails
  <2>2. AsItWas(m) BY DEF AsItWas
  <2>3. m > n' => IsFresh(m) BY <2>1 DEF MailInv
  <2> QED BY <2>2, <2>3, MailsAsTheyWere
<1> QED BY <1>3, <1>6, <1>7 DEF MailInv

\* The call of the mail ends.
LEMMA MailEnds ==
  ASSUME Mail!Bounded, MailInv, at # "idle", at' = "idle", i' \in 0..Files,
         UNCHANGED <<file, n, sha, copy, message, res, sentRows, taken, answered>>,
         \/ UNCHANGED <<out, told>>
         \/ \E what \in {"refused", "failed", "error"} : out' = out /\ told' = [told EXCEPT ![n] = what]
  PROVE  MailInv'
<1>1. n \in Mail!Mails /\ MailIsTyped /\ MailIsRight(n) BY MailTyped
<1>2. told' \in [Mail!Mails -> {"nothing", "refused", "failed", "error", "sent"}] BY <1>1 DEF MailIsTyped
<1>3. MailIsTyped' BY <1>1, <1>2 DEF MailIsTyped
<1>4. MailIsPlaced' BY DEF MailIsPlaced
<1>5. \A m \in Mail!Mails \ {n} : AsItWas(m) BY <1>1 DEF AsItWas, MailIsTyped
<1>6. told'[n] = told[n] \/ told'[n] # "sent" BY <1>1 DEF MailIsTyped
<1>7. StateIsRight(n)' BY <1>1, <1>6 DEF MailIsRight, StateIsRight
<1>8. \A f \in Mail!Index : FileIsRight(n, f)' BY <1>1 DEF MailIsRight, FileIsRight
<1> QED BY <1>3, <1>4, <1>5, <1>7, <1>8, MailsOn

LEMMA HashesFileStep == ASSUME Mail!Bounded, MailInv, Mail!HashesFile PROVE MailInv'
<1> USE DEF Mail!HashesFile, Mail!outVars, Mail!mailVars, Mail!Goes
<1>0. /\ n \in Mail!Mails /\ i \in Mail!Index /\ i \in 1..Files /\ Files \in Nat /\ told[n] = "nothing" /\ MailIsTyped
      /\ IsFresh(n) /\ n \notin answered
  BY MailTyped DEF MailInv, MailIsPlaced
<1>1. CASE sha' = [sha EXCEPT ![i] = file[i]] /\ Mail!NextFile("hash", "create") /\ UNCHANGED <<told, trouble>>
  <2>1. at' \in {"hash", "create"} /\ i' \in 1..Files BY <1>0, <1>1 DEF Mail!NextFile
  <2>2. file[i] \in 0..MaxVersion BY <1>0 DEF MailIsTyped
  <2>3. sha' \in [Mail!Index -> 0..MaxVersion] BY <1>0, <1>1, <2>2 DEF MailIsTyped
  <2>8. i' \in 0..Files BY <1>0, <2>1
  <2>4. MailIsTyped' BY <1>0, <1>1, <2>1, <2>3, <2>8 DEF MailIsTyped
  <2>5. IsFresh(n)' BY <1>0, <1>1 DEF IsFresh
  <2>6. (\A f \in Mail!Index : AttachmentIsPlaced(f))' BY <2>1 DEF AttachmentIsPlaced
  <2>9. at' = "create" => i' = 1 BY <1>1 DEF Mail!NextFile
  <2>7. MailIsPlaced' BY <1>0, <1>1, <2>1, <2>5, <2>6, <2>9 DEF MailIsPlaced, Mail!Index
  <2> QED BY <1>1, <2>4, <2>7, MailWalks
<1>2. CASE Mail!Fault /\ Mail!Tells("refused") /\ UNCHANGED <<sha, i>>
  BY <1>0, <1>2, MailEnds DEF Mail!Tells, MailIsTyped
<1> QED BY <1>1, <1>2

LEMMA CreatesMailStep == ASSUME Mail!Bounded, MailInv, Mail!CreatesMail PROVE MailInv'
<1> USE DEF Mail!CreatesMail, Mail!mailVars, Mail!Goes
<1>0. /\ n \in Mail!Mails /\ i \in Mail!Index /\ told[n] = "nothing" /\ MailIsTyped /\ MailIsRight(n)
      /\ IsFresh(n) /\ n \notin answered
  BY MailTyped DEF MailInv, MailIsPlaced
<1>1. out' \in [Mail!Mails -> {"none", "sending", "failed", "sent", "partial"}] /\ out'[n] = "sending"
  BY <1>0 DEF MailIsTyped
<1>2. MailIsTyped' BY <1>0, <1>1 DEF MailIsTyped
<1>3. \A f \in Mail!Index : sentRows[n][f] = <<>> BY <1>0 DEF IsFresh
<1>9. i = 1 BY DEF MailInv, MailIsPlaced
<1>4. (\A f \in Mail!Index : AttachmentIsPlaced(f))' BY <1>3, <1>9 DEF AttachmentIsPlaced, Mail!Index
<1>5. MailIsPlaced' BY <1>0, <1>1, <1>4 DEF MailIsPlaced
<1>6. \A m \in Mail!Mails \ {n} : AsItWas(m) BY <1>0 DEF AsItWas, MailIsTyped
<1>7. StateIsRight(n)' BY <1>0, <1>1 DEF StateIsRight
<1>8. \A f \in Mail!Index : FileIsRight(n, f)' BY <1>0 DEF MailIsRight, FileIsRight
<1> QED BY <1>2, <1>5, <1>6, <1>7, <1>8, MailsOn

LEMMA CopiesFileStep == ASSUME Mail!Bounded, MailInv, Mail!CopiesFile PROVE MailInv'
<1> USE DEF Mail!CopiesFile, Mail!outVars, Mail!mailVars, Mail!Goes
<1>0. /\ n \in Mail!Mails /\ i \in Mail!Index /\ told[n] = "nothing" /\ MailIsTyped
      /\ n \notin answered /\ out[n] = "sending" /\ \A f \in Mail!Index : AttachmentIsPlaced(f)
  BY MailTyped DEF MailInv, MailIsPlaced
<1>1. file[i] \in 0..(MaxVersion + 1) BY <1>0 DEF MailIsTyped, Mail!Bounded
<1>2. copy' \in [Mail!Index -> 0..(MaxVersion + 1)] BY <1>0, <1>1 DEF MailIsTyped
<1>3. MailIsTyped' BY <1>0, <1>2 DEF MailIsTyped
<1>4. (\A f \in Mail!Index : AttachmentIsPlaced(f))' BY <1>0 DEF AttachmentIsPlaced
<1>5. MailIsPlaced' BY <1>0, <1>4 DEF MailIsPlaced
<1> QED BY <1>3, <1>5, MailWalks

LEMMA StagesFileStep == ASSUME Mail!Bounded, MailInv, Mail!StagesFile PROVE MailInv'
<1> USE DEF Mail!StagesFile, Mail!mailVars, Mail!Goes
<1>0. /\ n \in Mail!Mails /\ i \in Mail!Index /\ i \in 1..Files /\ Files \in Nat /\ told[n] = "nothing" /\ MailIsTyped
      /\ n \notin answered /\ out[n] = "sending" /\ MailIsRight(n) /\ at = "check"
      /\ \A f \in Mail!Index : AttachmentIsPlaced(f) /\ FileIsRight(n, f) /\ res[n][f] \in Resources
  BY MailTyped DEF MailInv, MailIsPlaced
<1>1. CASE /\ Mail!CopyIsRight(i) /\ res' = [res EXCEPT ![n][i].status = "staged", ![n][i].sha = sha[i]]
           /\ Mail!NextFile("stage", "build") /\ UNCHANGED trouble
  <2>1. PICK x : x = [res[n][i] EXCEPT !.status = "staged", !.sha = sha[i]] OBVIOUS
  <2>2. sha[i] \in 0..MaxVersion BY <1>0 DEF MailIsTyped
  <2>3. x \in Resources /\ x.status = "staged" /\ x.sha = sha[i] /\ x.archive = res[n][i].archive
    BY <1>0, <2>1, <2>2 DEF Resources
  <2>4. res' = [res EXCEPT ![n] = [res[n] EXCEPT ![i] = x]]
    <3>1. PICK y : y = [res[n][i] EXCEPT !.status = "staged"] OBVIOUS
    <3>2. x = [y EXCEPT !.sha = sha[i]] BY <2>1, <3>1
    <3>3. PICK s : s = [res EXCEPT ![n] = [res[n] EXCEPT ![i] = y]] OBVIOUS
    <3>4. s = [res EXCEPT ![n][i].status = "staged"] BY <3>1, <3>3
    <3>5. res' = [s EXCEPT ![n] = [s[n] EXCEPT ![i] = [s[n][i] EXCEPT !.sha = sha[i]]]] BY <1>1, <3>4
    <3>6. s[n] = [res[n] EXCEPT ![i] = y] /\ s[n][i] = y BY <1>0, <3>3 DEF MailIsTyped
    <3>7. [s[n] EXCEPT ![i] = x] = [res[n] EXCEPT ![i] = x] BY <1>0, <3>6 DEF MailIsTyped
    <3>8. res' = [s EXCEPT ![n] = [res[n] EXCEPT ![i] = x]] BY <3>2, <3>5, <3>6, <3>7
    <3> QED BY <1>0, <3>3, <3>8 DEF MailIsTyped
  <2>5. /\ res'[n][i] = x /\ \A f \in Mail!Index \ {i} : res'[n][f] = res[n][f]
        /\ \A m \in Mail!Mails \ {n} : res'[m] = res[m]
        /\ res' \in [Mail!Mails -> [Mail!Index -> Resources]]
    BY <1>0, <2>3, <2>4 DEF MailIsTyped
  <2>6. \/ at' = "stage" /\ i' = i + 1 /\ i < Files
        \/ at' = "build" /\ i' = 1 /\ i = Files
    BY <1>0, <1>1 DEF Mail!NextFile
  <2>7. i' \in 1..Files BY <1>0, <2>6
  <2>8. MailIsTyped' BY <1>0, <1>1, <2>5, <2>6, <2>7 DEF MailIsTyped
  <2>9. ASSUME NEW f \in Mail!Index PROVE AttachmentIsPlaced(f)'
    <3>1. f \in 1..Files /\ sentRows[n][f] = <<>> BY <1>0 DEF Mail!Index, AttachmentIsPlaced
    <3>2. f < i \/ f = i => res'[n][f].sha = sha[f] BY <1>0, <2>3, <2>5 DEF AttachmentIsPlaced
    <3>3. (at' = "stage" /\ f < i') \/ at' = "build" => f < i \/ f = i BY <1>0, <2>6, <3>1
    <3> QED BY <2>6, <3>1, <3>2, <3>3 DEF AttachmentIsPlaced
  <2>10. MailIsPlaced' BY <1>0, <1>1, <2>6, <2>7, <2>9 DEF MailIsPlaced, Mail!Index
  <2>11. \A m \in Mail!Mails \ {n} : AsItWas(m) BY <2>5 DEF AsItWas
  <2>12. StateIsRight(n)' BY <1>0 DEF StateIsRight, MailIsRight
  <2>13. ASSUME NEW f \in Mail!Index PROVE FileIsRight(n, f)'
    BY <1>0, <2>3, <2>5 DEF FileIsRight, AttachmentIsPlaced
  <2> QED BY <1>0, <2>8, <2>10, <2>11, <2>12, <2>13, MailsOn
<1>2. CASE UNCHANGED <<res, i>> /\ at' = "unstaged"
  <2>1. MailIsTyped' BY <1>0, <1>2 DEF MailIsTyped
  <2>2. (\A f \in Mail!Index : AttachmentIsPlaced(f))' BY <1>0, <1>2 DEF AttachmentIsPlaced
  <2>3. MailIsPlaced' BY <1>0, <1>2, <2>2 DEF MailIsPlaced
  <2> QED BY <1>2, <2>1, <2>3, MailWalks
<1> QED BY <1>1, <1>2

LEMMA FailsUnstagedStep == ASSUME Mail!Bounded, MailInv, Mail!FailsUnstaged PROVE MailInv'
<1> USE DEF Mail!FailsUnstaged, Mail!mailVars, Mail!Tells
<1>0. n \in Mail!Mails /\ MailIsTyped /\ MailIsRight(n) /\ n \notin answered BY MailTyped DEF MailInv, MailIsPlaced
<1>1. /\ out' \in [Mail!Mails -> {"none", "sending", "failed", "sent", "partial"}] /\ out'[n] = "failed"
      /\ told' \in [Mail!Mails -> {"nothing", "refused", "failed", "error", "sent"}] /\ told'[n] = "failed"
  BY <1>0 DEF MailIsTyped
<1>2. MailIsTyped' BY <1>0, <1>1 DEF MailIsTyped
<1>3. MailIsPlaced' BY DEF MailIsPlaced
<1>4. \A m \in Mail!Mails \ {n} : AsItWas(m) BY <1>0 DEF AsItWas, MailIsTyped
<1>5. StateIsRight(n)' BY <1>0, <1>1 DEF StateIsRight
<1>6. \A f \in Mail!Index : FileIsRight(n, f)' BY <1>0 DEF MailIsRight, FileIsRight
<1> QED BY <1>2, <1>3, <1>4, <1>5, <1>6, MailsOn

LEMMA BuildsStep == ASSUME Mail!Bounded, MailInv, Mail!Builds PROVE MailInv'
<1> USE DEF Mail!Builds, Mail!outVars, Mail!mailVars, Mail!Goes
<1>0. /\ n \in Mail!Mails /\ i \in Mail!Index /\ told[n] = "nothing" /\ MailIsTyped
      /\ n \notin answered /\ out[n] = "sending" /\ \A f \in Mail!Index : AttachmentIsPlaced(f) /\ i = 1
  BY MailTyped DEF MailInv, MailIsPlaced
<1>1. at' \in {"send", "fails"} /\ (at' = "send" => \A f \in Mail!Index : message'[f] = sha[f])
  BY DEF Mail!CopyIsRight
<1>2. MailIsTyped' BY <1>0, <1>1 DEF MailIsTyped
<1>3. (\A f \in Mail!Index : AttachmentIsPlaced(f))' BY <1>0, <1>1 DEF AttachmentIsPlaced
<1>4. MailIsPlaced' BY <1>0, <1>1, <1>3 DEF MailIsPlaced
<1> QED BY <1>2, <1>4, MailWalks

LEMMA SmtpRefusesStep == ASSUME Mail!Bounded, MailInv, Mail!SmtpRefuses PROVE MailInv'
<1> USE DEF Mail!SmtpRefuses, Mail!outVars, Mail!mailVars, Mail!Goes
<1>0. /\ n \in Mail!Mails /\ i \in Mail!Index /\ told[n] = "nothing" /\ MailIsTyped
      /\ n \notin answered /\ out[n] = "sending" /\ \A f \in Mail!Index : AttachmentIsPlaced(f) /\ i = 1
  BY MailTyped DEF MailInv, MailIsPlaced
<1>1. MailIsTyped' BY <1>0 DEF MailIsTyped
<1>2. (\A f \in Mail!Index : AttachmentIsPlaced(f))' BY <1>0 DEF AttachmentIsPlaced
<1>3. MailIsPlaced' BY <1>0, <1>2 DEF MailIsPlaced
<1> QED BY <1>1, <1>3, MailWalks

\* What was taken is what each attachment was hashed with.
LEMMA SmtpTakesStep == ASSUME Mail!Bounded, MailInv, Mail!SmtpTakes PROVE MailInv'
<1> USE DEF Mail!SmtpTakes, Mail!outVars, Mail!Goes
<1>0. /\ n \in Mail!Mails /\ i \in Mail!Index /\ told[n] = "nothing" /\ MailIsTyped /\ MailIsRight(n) /\ at = "send"
      /\ n \notin answered /\ out[n] = "sending" /\ i = 1
      /\ \A f \in Mail!Index : AttachmentIsPlaced(f) /\ FileIsRight(n, f) /\ res[n][f] \in Resources
  BY MailTyped DEF MailInv, MailIsPlaced
<1>1. /\ taken' \in [Mail!Mails -> [Mail!Index -> 0..(MaxVersion + 1)]] /\ taken'[n] = message
      /\ \A m \in Mail!Mails \ {n} : taken'[m] = taken[m]
  BY <1>0 DEF MailIsTyped
<1>2. StateIsRight(n)' BY <1>0 DEF StateIsRight, MailIsRight
<1>3. CASE answered' = answered \cup {n} /\ at' = "archive"
  <2>1. MailIsTyped' BY <1>0, <1>1, <1>3 DEF MailIsTyped
  <2>2. ASSUME NEW f \in Mail!Index PROVE AttachmentIsPlaced(f)'
    <3>1. f \in 1..Files BY DEF Mail!Index
    <3>2. ~(f < i) BY <1>0, <3>1
    <3> QED BY <1>0, <1>3, <3>2 DEF AttachmentIsPlaced
  <2>3. MailIsPlaced' BY <1>0, <1>3, <2>2 DEF MailIsPlaced
  <2>4. \A m \in Mail!Mails \ {n} : AsItWas(m) BY <1>1, <1>3 DEF AsItWas
  <2>5. ASSUME NEW f \in Mail!Index PROVE FileIsRight(n, f)'
    BY <1>0, <1>1, <1>3 DEF FileIsRight, AttachmentIsPlaced, Resources
  <2> QED BY <1>0, <1>2, <2>1, <2>3, <2>4, <2>5, MailsOn
<1>4. CASE answered' = answered /\ at' = "fails"
  <2>1. MailIsTyped' BY <1>0, <1>1, <1>4 DEF MailIsTyped
  <2>2. ASSUME NEW f \in Mail!Index PROVE AttachmentIsPlaced(f)' BY <1>0, <1>4 DEF AttachmentIsPlaced
  <2>3. MailIsPlaced' BY <1>0, <1>4, <2>2 DEF MailIsPlaced
  <2>4. \A m \in Mail!Mails \ {n} : AsItWas(m) BY <1>1, <1>4 DEF AsItWas
  <2>5. ASSUME NEW f \in Mail!Index PROVE FileIsRight(n, f)' BY <1>0, <1>4 DEF FileIsRight
  <2> QED BY <1>0, <1>2, <2>1, <2>3, <2>4, <2>5, MailsOn
<1> QED BY <1>3, <1>4

LEMMA FailsMailStep == ASSUME Mail!Bounded, MailInv, Mail!FailsMail PROVE MailInv'
<1> USE DEF Mail!FailsMail, Mail!mailVars, Mail!Goes
<1>0. /\ n \in Mail!Mails /\ i \in Mail!Index /\ told[n] = "nothing" /\ MailIsTyped /\ MailIsRight(n) /\ at = "fails"
      /\ n \notin answered /\ \A f \in Mail!Index : AttachmentIsPlaced(f)
  BY MailTyped DEF MailInv, MailIsPlaced
<1>1. out' \in [Mail!Mails -> {"none", "sending", "failed", "sent", "partial"}] /\ out'[n] = "failed"
  BY <1>0 DEF MailIsTyped
<1>2. MailIsTyped' BY <1>0, <1>1 DEF MailIsTyped
<1>3. ASSUME NEW f \in Mail!Index PROVE AttachmentIsPlaced(f)' BY <1>0 DEF AttachmentIsPlaced
<1>4. MailIsPlaced' BY <1>0, <1>1, <1>3 DEF MailIsPlaced
<1>5. \A m \in Mail!Mails \ {n} : AsItWas(m) BY <1>0 DEF AsItWas, MailIsTyped
<1>6. StateIsRight(n)' BY <1>0, <1>1 DEF StateIsRight
<1>7. \A f \in Mail!Index : FileIsRight(n, f)' BY <1>0 DEF MailIsRight, FileIsRight
<1> QED BY <1>2, <1>4, <1>5, <1>6, <1>7, MailsOn

LEMMA FailsFileStep == ASSUME Mail!Bounded, MailInv, Mail!FailsFile PROVE MailInv'
<1> USE DEF Mail!FailsFile, Mail!mailVars, Mail!Goes
<1>0. /\ n \in Mail!Mails /\ i \in Mail!Index /\ i \in 1..Files /\ told[n] = "nothing" /\ MailIsTyped
         /\ MailIsRight(n)
      /\ at = "failsFile" /\ n \notin answered /\ out[n] = "failed"
      /\ \A f \in Mail!Index : AttachmentIsPlaced(f) /\ FileIsRight(n, f) /\ res[n][f] \in Resources
  BY MailTyped DEF MailInv, MailIsPlaced
<1>1. PICK x : x = [res[n][i] EXCEPT !.status = "failed"] OBVIOUS
<1>2. x \in Resources /\ x.status = "failed" /\ x.archive = res[n][i].archive BY <1>0, <1>1 DEF Resources
<1>3. res' = [res EXCEPT ![n] = [res[n] EXCEPT ![i] = x]] BY <1>0, <1>1 DEF MailIsTyped
<1>4. /\ res'[n][i] = x /\ \A f \in Mail!Index \ {i} : res'[n][f] = res[n][f]
      /\ \A m \in Mail!Mails \ {n} : res'[m] = res[m]
      /\ res' \in [Mail!Mails -> [Mail!Index -> Resources]]
  <2>1. PICK all : all = [res[n] EXCEPT ![i] = x] OBVIOUS
  <2>2. res' = [res EXCEPT ![n] = all] BY <1>3, <2>1
  <2>3. all[i] = x /\ (\A f \in Mail!Index \ {i} : all[f] = res[n][f]) /\ all \in [Mail!Index -> Resources]
    BY <1>0, <1>2, <2>1 DEF MailIsTyped
  <2>4. res'[n] = all /\ (\A m \in Mail!Mails \ {n} : res'[m] = res[m])
      /\ res' \in [Mail!Mails -> [Mail!Index -> Resources]]
    BY <1>0, <2>2, <2>3 DEF MailIsTyped
  <2> QED BY <2>3, <2>4
<1>5. MailIsTyped' BY <1>0, <1>4 DEF MailIsTyped
<1>6. ASSUME NEW f \in Mail!Index PROVE AttachmentIsPlaced(f)' BY <1>0, <1>2, <1>4 DEF AttachmentIsPlaced
<1>7. MailIsPlaced' BY <1>0, <1>6 DEF MailIsPlaced
<1>8. \A m \in Mail!Mails \ {n} : AsItWas(m) BY <1>4 DEF AsItWas
<1>9. StateIsRight(n)' BY <1>0 DEF StateIsRight, MailIsRight
<1>10. ASSUME NEW f \in Mail!Index PROVE FileIsRight(n, f)'
  <2>1. sentRows[n][i] = <<>> BY <1>0 DEF AttachmentIsPlaced
  <2> QED BY <1>0, <1>2, <1>4, <2>1 DEF FileIsRight
<1> QED BY <1>0, <1>5, <1>7, <1>8, <1>9, <1>10, MailsOn

LEMMA ArchivesFileStep == ASSUME Mail!Bounded, MailInv, Mail!ArchivesFile PROVE MailInv'
<1> USE DEF Mail!ArchivesFile, Mail!mailVars, Mail!Goes
<1>0. /\ n \in Mail!Mails /\ i \in Mail!Index /\ i \in 1..Files /\ told[n] = "nothing" /\ MailIsTyped
         /\ MailIsRight(n)
      /\ at = "archive" /\ n \in answered /\ out[n] = "sending"
      /\ \A f \in Mail!Index : AttachmentIsPlaced(f) /\ FileIsRight(n, f) /\ res[n][f] \in Resources
  BY MailTyped DEF MailInv, MailIsPlaced
<1>1. sha[i] \in 0..MaxVersion /\ taken[n][i] = sha[i] BY <1>0 DEF MailIsTyped, AttachmentIsPlaced, FileIsRight
<1>2. PICK x : /\ res' = [res EXCEPT ![n][i] = x]
               /\ (x = Mail!Archived(i) /\ Mail!CopyIsRight(i)) \/ x = Mail!NotArchived(i)
  OBVIOUS
<1>3. /\ x \in Resources /\ x.sha = sha[i] /\ x.archive \in {0, sha[i]}
      /\ x.status \in {"sent", "sent_archive_failed"} /\ (x.status = "sent" => x.archive = sha[i])
  BY <1>0, <1>1, <1>2 DEF Resources, Mail!Archived, Mail!NotArchived, Mail!CopyIsRight, MailIsTyped, Mail!Bounded
<1>4. /\ res'[n][i] = x /\ \A f \in Mail!Index \ {i} : res'[n][f] = res[n][f]
      /\ \A m \in Mail!Mails \ {n} : res'[m] = res[m]
      /\ res' \in [Mail!Mails -> [Mail!Index -> Resources]]
  BY <1>0, <1>2, <1>3 DEF MailIsTyped
<1>5. MailIsTyped' BY <1>0, <1>4 DEF MailIsTyped
<1>6. ASSUME NEW f \in Mail!Index PROVE AttachmentIsPlaced(f)' BY <1>0, <1>3, <1>4 DEF AttachmentIsPlaced
<1>7. MailIsPlaced' BY <1>0, <1>6 DEF MailIsPlaced
<1>8. \A m \in Mail!Mails \ {n} : AsItWas(m) BY <1>4 DEF AsItWas
<1>9. StateIsRight(n)' BY <1>0 DEF StateIsRight, MailIsRight
<1>10. ASSUME NEW f \in Mail!Index PROVE FileIsRight(n, f)'
  <2>1. sentRows[n][i] = <<>> BY <1>0 DEF AttachmentIsPlaced
  <2> QED BY <1>0, <1>1, <1>3, <1>4, <2>1 DEF FileIsRight
<1> QED BY <1>0, <1>5, <1>7, <1>8, <1>9, <1>10, MailsOn

LEMMA WritesRowStep == ASSUME Mail!Bounded, MailInv, Mail!WritesRow PROVE MailInv'
<1> USE DEF Mail!WritesRow, Mail!mailVars, Mail!Goes
<1>0. /\ n \in Mail!Mails /\ i \in Mail!Index /\ i \in 1..Files /\ Files \in Nat /\ told[n] = "nothing" /\ MailIsTyped
      /\ MailIsRight(n) /\ at \in {"row", "failsRow"} /\ (n \in answered) = (at = "row")
      /\ out[n] = IF at = "row" THEN "sending" ELSE "failed"
      /\ \A f \in Mail!Index : AttachmentIsPlaced(f) /\ FileIsRight(n, f) /\ res[n][f] \in Resources
  BY MailTyped DEF MailInv, MailIsPlaced
<1>1. /\ sentRows[n][i] = <<>>
      /\ res[n][i].status \in IF at = "row" THEN {"sent", "sent_archive_failed"} ELSE {"failed"}
  BY <1>0 DEF AttachmentIsPlaced
<1>2. Append(<<>>, res[n][i].status) = <<res[n][i].status>> OBVIOUS
<1>3. sentRows' = [sentRows EXCEPT ![n] = [sentRows[n] EXCEPT ![i] = <<res[n][i].status>>]]
  BY <1>0, <1>1, <1>2 DEF MailIsTyped
<1>4. <<res[n][i].status>> \in Written BY <1>0, <1>1 DEF Written
<1>5. /\ sentRows'[n][i] = <<res[n][i].status>> /\ \A f \in Mail!Index \ {i} : sentRows'[n][f] = sentRows[n][f]
      /\ \A m \in Mail!Mails \ {n} : sentRows'[m] = sentRows[m]
      /\ sentRows' \in [Mail!Mails -> [Mail!Index -> Written]]
  <2>1. PICK all : all = [sentRows[n] EXCEPT ![i] = <<res[n][i].status>>] OBVIOUS
  <2>2. sentRows' = [sentRows EXCEPT ![n] = all] BY <1>3, <2>1
  <2>3. /\ all[i] = <<res[n][i].status>> /\ (\A f \in Mail!Index \ {i} : all[f] = sentRows[n][f])
        /\ all \in [Mail!Index -> Written]
    BY <1>0, <1>4, <2>1 DEF MailIsTyped
  <2>4. /\ sentRows'[n] = all /\ (\A m \in Mail!Mails \ {n} : sentRows'[m] = sentRows[m])
        /\ sentRows' \in [Mail!Mails -> [Mail!Index -> Written]]
    <3>1. n \in Mail!Mails /\ sentRows \in [Mail!Mails -> [Mail!Index -> Written]] BY <1>0 DEF MailIsTyped
    <3> HIDE DEF Mail!WritesRow
    <3> QED BY <2>2, <2>3, <3>1
  <2> QED BY <2>3, <2>4
<1>6. PICK where, next, said :
        /\ at' = where /\ i' = next /\ told' = said
        /\ \/ at = "row" /\ where = "archive" /\ next = i + 1 /\ i < Files /\ said = told
           \/ at = "row" /\ where = "final" /\ next = 1 /\ i = Files /\ said = told
           \/ at = "failsRow" /\ where = "failsFile" /\ next = i + 1 /\ i < Files /\ said = told
           \/ at = "failsRow" /\ where = "idle" /\ next = i /\ said = [told EXCEPT ![n] = "failed"]
  BY <1>0 DEF Mail!NextFile, Mail!Tells
<1>7. /\ next \in 1..Files /\ next \in 0..Files
         /\ said \in [Mail!Mails -> {"nothing", "refused", "failed", "error", "sent"}]
      /\ said[n] # "sent" /\ (where # "idle" => said[n] = "nothing")
      /\ \A m \in Mail!Mails \ {n} : said[m] = told[m]
  <2>1. told \in [Mail!Mails -> {"nothing", "refused", "failed", "error", "sent"}] BY <1>0 DEF MailIsTyped
  <2>2. CASE said = told BY <1>0, <1>6, <2>1, <2>2
  <2>3. CASE said = [told EXCEPT ![n] = "failed"] BY <1>0, <1>6, <2>1, <2>3
  <2> QED BY <1>6, <2>2, <2>3
<1>8. MailIsTyped' BY <1>0, <1>5, <1>6, <1>7 DEF MailIsTyped
<1>9. ASSUME NEW f \in Mail!Index, where # "idle" PROVE AttachmentIsPlaced(f)'
  <2>1. f \in 1..Files BY DEF Mail!Index
  <2>2. where \in {"archive", "failsFile"} /\ next <= f => f # i /\ sentRows[n][f] = <<>>
    BY <1>0, <1>6, <2>1 DEF AttachmentIsPlaced
  <2>3. where \in {"archive", "final"} => at = "row" /\ res[n][f].sha = sha[f] BY <1>0, <1>6 DEF AttachmentIsPlaced
  <2>4. (where = "archive" /\ f < next) \/ where = "final" => res[n][f].status \in {"sent", "sent_archive_failed"}
    BY <1>0, <1>6, <2>1 DEF AttachmentIsPlaced
  <2> QED BY <1>5, <1>6, <2>2, <2>3, <2>4 DEF AttachmentIsPlaced
<1>10. MailIsPlaced'
  <2>1. n' \in Mail!Mails /\ i' \in Mail!Index BY <1>0, <1>6, <1>7 DEF Mail!Index
  <2>2. where # "idle" => told'[n] = "nothing" /\ (n \in answered) = (where \in {"archive", "final"})
                          /\ where \in {"archive", "final", "failsFile"}
                          /\ out[n] = IF where = "failsFile" THEN "failed" ELSE "sending"
    BY <1>0, <1>6, <1>7
  <2> QED BY <1>6, <1>9, <2>1, <2>2 DEF MailIsPlaced
<1>11. \A m \in Mail!Mails \ {n} : AsItWas(m) BY <1>5, <1>6, <1>7 DEF AsItWas
<1>12. StateIsRight(n)' BY <1>0, <1>6, <1>7 DEF StateIsRight, MailIsRight
<1>13. ASSUME NEW f \in Mail!Index PROVE FileIsRight(n, f)' BY <1>0, <1>1, <1>5 DEF FileIsRight
<1> QED BY <1>0, <1>8, <1>10, <1>11, <1>12, <1>13, MailsOn

LEMMA FinishesMailStep == ASSUME Mail!Bounded, MailInv, Mail!FinishesMail PROVE MailInv'
<1> USE DEF Mail!FinishesMail, Mail!mailVars, Mail!Tells
<1>0. /\ n \in Mail!Mails /\ MailIsTyped /\ MailIsRight(n) /\ n \in answered
      /\ \A f \in Mail!Index : res[n][f].status \in {"sent", "sent_archive_failed"}
  BY MailTyped DEF MailInv, MailIsPlaced, AttachmentIsPlaced
<1>1. /\ out' \in [Mail!Mails -> {"none", "sending", "failed", "sent", "partial"}] /\ out'[n] = Mail!Final
      /\ told' \in [Mail!Mails -> {"nothing", "refused", "failed", "error", "sent"}]
  BY <1>0 DEF MailIsTyped, Mail!Final
<1>2. MailIsTyped' BY <1>0, <1>1 DEF MailIsTyped
<1>3. MailIsPlaced' BY DEF MailIsPlaced
<1>4. \A m \in Mail!Mails \ {n} : AsItWas(m) BY <1>0 DEF AsItWas, MailIsTyped
<1>5. StateIsRight(n)' BY <1>0, <1>1 DEF StateIsRight, Mail!Final
<1>6. \A f \in Mail!Index : FileIsRight(n, f)' BY <1>0 DEF MailIsRight, FileIsRight
<1> QED BY <1>2, <1>3, <1>4, <1>5, <1>6, MailsOn

\* Every step keeps the invariant.
LEMMA MailStep == ASSUME Mail!Bounded, MailInv, [Mail!Next]_(Mail!vars) PROVE MailInv'
<1>1. CASE Mail!Breaks
  <2>1. \E what \in {"refused", "failed", "error"} : told' = [told EXCEPT ![n] = what]
    BY <1>1 DEF Mail!Breaks, Mail!Tells
  <2>2. i' \in 0..Files BY <1>1 DEF MailInv, MailIsTyped, Mail!Breaks
  <2> QED BY <1>1, <2>1, <2>2, MailEnds DEF Mail!Breaks, Mail!Tells, Mail!outVars, Mail!mailVars
<1>2. CASE Mail!ProcessDies
  <2>1. i' \in 0..Files BY <1>2 DEF MailInv, MailIsTyped, Mail!ProcessDies
  <2> QED BY <1>2, <2>1, MailEnds DEF Mail!ProcessDies, Mail!outVars, Mail!mailVars
<1>3. CASE UNCHANGED Mail!vars
  <2>1. MailIsTyped' BY <1>3 DEF MailInv, MailIsTyped, Mail!vars, Mail!outVars, Mail!mailVars
  <2>2. MailIsPlaced'
    BY <1>3 DEF MailInv, MailIsPlaced, AttachmentIsPlaced, IsFresh, Mail!vars, Mail!outVars, Mail!mailVars
  <2> QED BY <1>3, <2>1, <2>2, MailWalks DEF Mail!vars, Mail!outVars, Mail!mailVars
<1> QED
  BY <1>1, <1>2, <1>3, EditsFileStep, SpoilsStep, ClicksStep, HashesFileStep, CreatesMailStep, CopiesFileStep,
     StagesFileStep, FailsUnstagedStep, BuildsStep, SmtpRefusesStep, SmtpTakesStep, FailsMailStep, FailsFileStep,
     ArchivesFileStep, WritesRowStep, FinishesMailStep
  DEF Mail!Next

\* What the invariant says of the properties.
LEMMA MailSafe == ASSUME Mail!Bounded, MailInv PROVE Mail!TypeOK /\ Mail!FinalStateIsTrue /\ Mail!RowsFollowTheMail
<1>1. Mail!TypeOK BY DEF MailInv, MailIsTyped, Mail!TypeOK
<1>2. ASSUME NEW m \in Mail!Mails
      PROVE  /\ StateIsRight(m)
             /\ \A f \in Mail!Index : FileIsRight(m, f) /\ res[m][f] \in Resources
  BY DEF MailInv, MailIsTyped, MailIsRight
<1>3. ASSUME NEW m \in Mail!Mails, out[m] = "sent", NEW f \in Mail!Index
      PROVE  res[m][f] = [status |-> "sent", archive |-> taken[m][f], sha |-> taken[m][f]]
  BY <1>2, <1>3 DEF StateIsRight, FileIsRight, Resources
<1>4. Mail!FinalStateIsTrue
  <2>1. ASSUME NEW m \in Mail!Mails, out[m] = "failed", NEW f \in Mail!Index
        PROVE  res[m][f].status \notin {"sent", "sent_archive_failed"}
    BY <1>2, <2>1 DEF StateIsRight, FileIsRight
  <2> QED BY <1>2, <1>3, <2>1 DEF StateIsRight, Mail!FinalStateIsTrue
<1>5. ASSUME NEW m \in Mail!Mails, NEW f \in Mail!Index
      PROVE  /\ Len(sentRows[m][f]) <= 1
             /\ sentRows[m][f] # <<>> =>
                 sentRows[m][f] = <<res[m][f].status>> /\ (sentRows[m][f] = <<"failed">>) = (m \notin answered)
             /\ m \in answered => taken[m][f] = res[m][f].sha /\ res[m][f].archive \in {0, taken[m][f]}
  <2>1. FileIsRight(m, f) BY <1>2
  <2>2. sentRows[m][f] = <<>> \/ sentRows[m][f] = <<res[m][f].status>> BY <2>1 DEF FileIsRight
  <2>3. Len(sentRows[m][f]) <= 1
    <3>1. CASE sentRows[m][f] = <<>> BY <3>1
    <3>2. CASE sentRows[m][f] = <<res[m][f].status>> BY <3>2
    <3> QED BY <2>2, <3>1, <3>2
  <2>4. sentRows[m][f] # <<>> =>
      sentRows[m][f] = <<res[m][f].status>> /\ (res[m][f].status = "failed") = (m \notin answered)
    BY <2>1 DEF FileIsRight
  <2>5. (<<res[m][f].status>> = <<"failed">>) = (res[m][f].status = "failed") OBVIOUS
  <2> QED BY <2>1, <2>3, <2>4, <2>5 DEF FileIsRight
<1>6. Mail!RowsFollowTheMail BY <1>5 DEF Mail!RowsFollowTheMail
<1> QED BY <1>1, <1>4, <1>6

-----------------------------------------------------------------------------
(* WindowTasks: the slot holds the last confirmed mail until it was sent.   *)

Compositions == [text : Nat, file : Nat]
Ended == {"sent", "sent_archive_failed", "failed", "done", "none"}
TaskTypes ==
  [kind : {"none", "receive", "history", "auto", "send"}, at : {"idle", "runs", "sends", "done"},
   what : Seq(Compositions), result : Ended]

WindowIsTyped ==
  /\ task \in TaskTypes /\ active \in BOOLEAN /\ switch \in BOOLEAN /\ timer \in BOOLEAN
  /\ nextCheck \in {"none", "ahead", "passed"}
  /\ draft \in Nat /\ shown \in Nat /\ picked \in Nat
  /\ dialog \in Seq(Compositions) /\ Len(dialog) <= 1 /\ confirmed \in Seq(Compositions)
  /\ mails \in Seq([text : Nat, result : Ended])
  /\ accepting \in BOOLEAN /\ pendingQuit \in BOOLEAN /\ quitting \in BOOLEAN /\ gone \in BOOLEAN

SlotIsPlaced ==
  /\ active <=> task.kind # "none"
  /\ task.kind = "none" <=> task.at = "idle"
  /\ task.kind = "none" <=> task = Window!NoTask
  /\ task.at = "sends" => task.kind = "send"

\* The task in the slot is of the last mail the user confirmed, and that one has not gone out before it is done.
SlotIsConfirmed ==
  /\ Len(mails) <= Len(confirmed)
  /\ task.kind = "send" => /\ confirmed # <<>> /\ task.what[1] = confirmed[Len(confirmed)]
                           /\ task.at \in {"runs", "sends"} => Len(mails) < Len(confirmed)
                           /\ task.at = "done" /\ task.result # "failed" =>
                                mails # <<>> /\ mails[Len(mails)].result # "failed"

MailsAreConfirmed == \A k \in 1..Len(mails) : \E j \in k..Len(confirmed) : mails[k].text = confirmed[j].text

QuitWaits ==
  /\ pendingQuit \/ quitting \/ gone => ~accepting
  /\ quitting \/ gone => task.kind = "none"

WindowInv == WindowIsTyped /\ SlotIsPlaced /\ SlotIsConfirmed /\ MailsAreConfirmed /\ QuitWaits

\* A list of at most one is empty or has one.
LEMMA AtMostOne == ASSUME NEW S, NEW s \in Seq(S), Len(s) <= 1, s # <<>> PROVE Len(s) = 1
<1>1. Len(s) \in Nat /\ Len(s) # 0 BY EmptySeq
<1>2. \A length \in Nat : length <= 1 /\ length # 0 => length = 1 OBVIOUS
<1> QED BY <1>1, <1>2, Zenon

SlotKept ==
  /\ task.at # "idle" => task'.kind \in {task.kind, "none"}
  /\ ~accepting /\ task' # Window!NoTask => task'.kind = task.kind
DraftKept == draft' = 0 /\ draft # 0 => mails # <<>> /\ mails[Len(mails)].result # "failed" /\ task.kind = "send"

\* The invariant holds at the start.
LEMMA WindowInit == ASSUME Window!Init PROVE WindowInv
<1> USE DEF Window!Init
<1>1. Window!NoTask \in TaskTypes BY DEF Window!NoTask, TaskTypes, Ended
<1>2. WindowIsTyped
  <2>1. \A S : <<>> \in Seq(S) OBVIOUS
  <2>2. Len(dialog) <= 1 OBVIOUS
  <2>3. dialog \in Seq(Compositions) /\ confirmed \in Seq(Compositions) /\ mails \in Seq([text : Nat, result : Ended])
    BY <2>1
  <2>4. /\ switch \in BOOLEAN /\ timer \in BOOLEAN /\ nextCheck \in {"none", "ahead", "passed"}
        /\ draft \in Nat /\ shown \in Nat /\ picked \in Nat
    OBVIOUS
  <2> QED BY <1>1, <2>2, <2>3, <2>4 DEF WindowIsTyped
<1> QED BY <1>1, <1>2 DEF WindowInv, SlotIsPlaced, SlotIsConfirmed, MailsAreConfirmed, QuitWaits, Window!NoTask

\* The parts of a task.
LEMMA WindowTaskTyped ==
  ASSUME WindowIsTyped
  PROVE  /\ task.kind \in {"none", "receive", "history", "auto", "send"}
            /\ task.at \in {"idle", "runs", "sends", "done"}
         /\ task.what \in Seq(Compositions) /\ task.result \in Ended
BY DEF WindowIsTyped, TaskTypes

\* A task that begins finds the slot free.
LEMMA TaskBegins ==
  ASSUME WindowInv, NEW k \in {"receive", "history", "auto", "send"}, NEW what \in Seq(Compositions),
      Window!RunsTask(k, what)
  PROVE  /\ task' \in TaskTypes /\ active' \in BOOLEAN /\ SlotIsPlaced'
            /\ (UNCHANGED <<task, active>> \/ Window!Accepts)
         /\ Window!Accepts =>
             task.kind = "none" /\ task'.kind = k /\ task'.at = "runs" /\ task'.what = what /\ accepting
         /\ Window!Accepts <=> accepting /\ task.kind = "none"
<1>1. CASE Window!Accepts
  <2>1. task' = [kind |-> k, at |-> "runs", what |-> what, result |-> "none"] /\ active' = TRUE
    BY <1>1 DEF Window!RunsTask, Window!TaskOf
  <2>2. task' \in TaskTypes BY <2>1 DEF TaskTypes, Ended
  <2>3. SlotIsPlaced' BY <2>1 DEF SlotIsPlaced, Window!NoTask
  <2> QED BY <1>1, <2>1, <2>2, <2>3 DEF Window!Accepts, WindowInv, SlotIsPlaced
<1>2. CASE ~ Window!Accepts
  <2>1. UNCHANGED <<task, active>> BY <1>2 DEF Window!RunsTask
  <2> QED BY <1>2, <2>1 DEF Window!Accepts, WindowInv, WindowIsTyped, SlotIsPlaced, Window!NoTask
<1> QED BY <1>1, <1>2

\* Each action keeps the invariant.
LEMMA TypesStep == ASSUME WindowInv, Window!Types PROVE WindowInv'
<1> USE DEF Window!Types, Window!autoVars, Window!sendVars, Window!quitVars, Window!Click
<1>0. WindowIsTyped BY DEF WindowInv
<1>1. WindowIsTyped' BY <1>0, WindowTaskTyped DEF WindowIsTyped
<1>2. SlotIsPlaced' BY DEF WindowInv, SlotIsPlaced, Window!NoTask
<1>3. SlotIsConfirmed' BY DEF WindowInv, SlotIsConfirmed
<1>4. MailsAreConfirmed' BY DEF WindowInv, MailsAreConfirmed
<1>5. QuitWaits' BY DEF WindowInv, QuitWaits, SlotIsPlaced
<1> QED BY <1>1, <1>2, <1>3, <1>4, <1>5 DEF WindowInv

LEMMA WindowEditsFileStep == ASSUME WindowInv, Window!EditsFile PROVE WindowInv'
<1> USE DEF Window!EditsFile, Window!autoVars, Window!sendVars, Window!quitVars, Window!Click
<1>0. WindowIsTyped BY DEF WindowInv
<1>1. WindowIsTyped' BY <1>0, WindowTaskTyped DEF WindowIsTyped
<1>2. SlotIsPlaced' BY DEF WindowInv, SlotIsPlaced, Window!NoTask
<1>3. SlotIsConfirmed' BY DEF WindowInv, SlotIsConfirmed
<1>4. MailsAreConfirmed' BY DEF WindowInv, MailsAreConfirmed
<1>5. QuitWaits' BY DEF WindowInv, QuitWaits, SlotIsPlaced
<1> QED BY <1>1, <1>2, <1>3, <1>4, <1>5 DEF WindowInv

LEMMA AttachesStep == ASSUME WindowInv, Window!Attaches PROVE WindowInv'
<1> USE DEF Window!Attaches, Window!autoVars, Window!sendVars, Window!quitVars, Window!Click
<1>0. WindowIsTyped BY DEF WindowInv
<1>1. WindowIsTyped' BY <1>0, WindowTaskTyped DEF WindowIsTyped
<1>2. SlotIsPlaced' BY DEF WindowInv, SlotIsPlaced, Window!NoTask
<1>3. SlotIsConfirmed' BY DEF WindowInv, SlotIsConfirmed
<1>4. MailsAreConfirmed' BY DEF WindowInv, MailsAreConfirmed
<1>5. QuitWaits' BY DEF WindowInv, QuitWaits, SlotIsPlaced
<1> QED BY <1>1, <1>2, <1>3, <1>4, <1>5 DEF WindowInv

LEMMA WindowTimePassesStep == ASSUME WindowInv, Window!TimePasses PROVE WindowInv'
<1> USE DEF Window!TimePasses, Window!autoVars, Window!sendVars, Window!quitVars, Window!Click
<1>0. WindowIsTyped BY DEF WindowInv
<1>1. WindowIsTyped' BY <1>0, WindowTaskTyped DEF WindowIsTyped
<1>2. SlotIsPlaced' BY DEF WindowInv, SlotIsPlaced, Window!NoTask
<1>3. SlotIsConfirmed' BY DEF WindowInv, SlotIsConfirmed
<1>4. MailsAreConfirmed' BY DEF WindowInv, MailsAreConfirmed
<1>5. QuitWaits' BY DEF WindowInv, QuitWaits, SlotIsPlaced
<1> QED BY <1>1, <1>2, <1>3, <1>4, <1>5 DEF WindowInv

LEMMA WatchdogLooksStep == ASSUME WindowInv, Window!WatchdogLooks PROVE WindowInv'
<1> USE DEF Window!WatchdogLooks, Window!autoVars, Window!sendVars, Window!quitVars, Window!Click, Window!Schedules
<1>0. WindowIsTyped BY DEF WindowInv
<1>1. WindowIsTyped' BY <1>0, WindowTaskTyped DEF WindowIsTyped
<1>2. SlotIsPlaced' BY DEF WindowInv, SlotIsPlaced, Window!NoTask
<1>3. SlotIsConfirmed' BY DEF WindowInv, SlotIsConfirmed
<1>4. MailsAreConfirmed' BY DEF WindowInv, MailsAreConfirmed
<1>5. QuitWaits' BY DEF WindowInv, QuitWaits, SlotIsPlaced
<1> QED BY <1>1, <1>2, <1>3, <1>4, <1>5 DEF WindowInv

LEMMA TogglesAutoStep == ASSUME WindowInv, Window!TogglesAuto PROVE WindowInv'
<1> USE DEF Window!TogglesAuto, Window!autoVars, Window!sendVars, Window!quitVars, Window!Click
<1>0. WindowIsTyped BY DEF WindowInv
<1>1. WindowIsTyped' BY <1>0, WindowTaskTyped DEF WindowIsTyped
<1>2. SlotIsPlaced' BY DEF WindowInv, SlotIsPlaced, Window!NoTask
<1>3. SlotIsConfirmed' BY DEF WindowInv, SlotIsConfirmed
<1>4. MailsAreConfirmed' BY DEF WindowInv, MailsAreConfirmed
<1>5. QuitWaits' BY DEF WindowInv, QuitWaits, SlotIsPlaced
<1> QED BY <1>1, <1>2, <1>3, <1>4, <1>5 DEF WindowInv

LEMMA WindowSaysNoStep == ASSUME WindowInv, Window!SaysNo PROVE WindowInv'
<1> USE DEF Window!SaysNo, Window!autoVars, Window!sendVars, Window!quitVars, Window!Click
<1>0. WindowIsTyped BY DEF WindowInv
<1>1. WindowIsTyped' BY <1>0, WindowTaskTyped DEF WindowIsTyped
<1>2. SlotIsPlaced' BY DEF WindowInv, SlotIsPlaced, Window!NoTask
<1>3. SlotIsConfirmed' BY DEF WindowInv, SlotIsConfirmed
<1>4. MailsAreConfirmed' BY DEF WindowInv, MailsAreConfirmed
<1>5. QuitWaits' BY DEF WindowInv, QuitWaits, SlotIsPlaced
<1> QED BY <1>1, <1>2, <1>3, <1>4, <1>5 DEF WindowInv

LEMMA AsksToQuitStep == ASSUME WindowInv, Window!AsksToQuit PROVE WindowInv'
<1> USE DEF Window!AsksToQuit, Window!autoVars, Window!sendVars, Window!quitVars, Window!Click, Window!WaitsFor
<1>0. WindowIsTyped BY DEF WindowInv
<1>1. WindowIsTyped' BY <1>0, WindowTaskTyped DEF WindowIsTyped
<1>2. SlotIsPlaced' BY DEF WindowInv, SlotIsPlaced, Window!NoTask
<1>3. SlotIsConfirmed' BY DEF WindowInv, SlotIsConfirmed
<1>4. MailsAreConfirmed' BY DEF WindowInv, MailsAreConfirmed
<1>5. QuitWaits' BY DEF WindowInv, QuitWaits, SlotIsPlaced
<1> QED BY <1>1, <1>2, <1>3, <1>4, <1>5 DEF WindowInv

LEMMA QuitsStep == ASSUME WindowInv, Window!Quits PROVE WindowInv'
<1> USE DEF Window!Quits, Window!autoVars, Window!sendVars, Window!quitVars, Window!Click
<1>0. WindowIsTyped BY DEF WindowInv
<1>1. WindowIsTyped' BY <1>0, WindowTaskTyped DEF WindowIsTyped
<1>2. SlotIsPlaced' BY DEF WindowInv, SlotIsPlaced, Window!NoTask
<1>3. SlotIsConfirmed' BY DEF WindowInv, SlotIsConfirmed
<1>4. MailsAreConfirmed' BY DEF WindowInv, MailsAreConfirmed
<1>5. QuitWaits' BY DEF WindowInv, QuitWaits, SlotIsPlaced
<1> QED BY <1>1, <1>2, <1>3, <1>4, <1>5 DEF WindowInv

LEMMA PressesSendStep == ASSUME WindowInv, Window!PressesSend PROVE WindowInv'
<1> USE DEF Window!PressesSend, Window!autoVars, Window!sendVars, Window!quitVars, Window!Click
<1>0. WindowIsTyped BY DEF WindowInv
<1>1. WindowIsTyped'
  <2>1. [text |-> draft, file |-> picked] \in Compositions BY <1>0 DEF WindowIsTyped, Compositions
  <2>2. dialog' \in Seq(Compositions) /\ Len(dialog') <= 1 BY <2>1
  <2> QED BY <1>0, <2>2 DEF WindowIsTyped
<1> QED BY <1>1 DEF WindowInv, SlotIsPlaced, SlotIsConfirmed, MailsAreConfirmed, QuitWaits, Window!NoTask

LEMMA PressesReceiveStep == ASSUME WindowInv, Window!PressesReceive PROVE WindowInv'
<1> USE DEF Window!PressesReceive, Window!autoVars, Window!sendVars, Window!quitVars, Window!Click
<1>1. PICK k \in {"receive", "history"} : Window!RunsTask(k, <<>>) OBVIOUS
<1>2. <<>> \in Seq(Compositions) OBVIOUS
<1>3. /\ task' \in TaskTypes /\ active' \in BOOLEAN /\ SlotIsPlaced'
      /\ (UNCHANGED task \/ (task'.kind = k /\ accepting))
  BY <1>1, <1>2, TaskBegins
<1>4. WindowIsTyped' BY <1>3 DEF WindowInv, WindowIsTyped
<1>5. SlotIsConfirmed' BY <1>3 DEF WindowInv, SlotIsConfirmed
<1> QED BY <1>3, <1>4, <1>5 DEF WindowInv, MailsAreConfirmed, QuitWaits

LEMMA TimerFiresStep == ASSUME WindowInv, Window!TimerFires PROVE WindowInv'
<1> USE DEF Window!TimerFires, Window!autoVars, Window!sendVars, Window!quitVars, Window!Click
<1>1. <<>> \in Seq(Compositions) OBVIOUS
<1>2. /\ task' \in TaskTypes /\ active' \in BOOLEAN /\ SlotIsPlaced'
      /\ (UNCHANGED task \/ (task'.kind = "auto" /\ accepting))
  <2>1. CASE Window!RunsTask("auto", <<>>) BY <1>1, <2>1, TaskBegins
  <2>2. CASE UNCHANGED <<task, active>> BY <2>2 DEF WindowInv, WindowIsTyped, SlotIsPlaced, Window!NoTask
  <2> QED BY <2>1, <2>2
<1>3. switch' \in BOOLEAN /\ timer' \in BOOLEAN /\ nextCheck' \in {"none", "ahead", "passed"}
  BY DEF WindowInv, WindowIsTyped, Window!Schedules
<1>4. WindowIsTyped' BY <1>2, <1>3 DEF WindowInv, WindowIsTyped
<1>5. SlotIsConfirmed' BY <1>2 DEF WindowInv, SlotIsConfirmed
<1> QED BY <1>2, <1>4, <1>5 DEF WindowInv, MailsAreConfirmed, QuitWaits

LEMMA WindowSaysYesStep == ASSUME WindowInv, Window!SaysYes PROVE WindowInv'
<1> USE DEF Window!SaysYes, Window!autoVars, Window!sendVars, Window!quitVars, Window!Click
<1>1. WindowIsTyped BY DEF WindowInv
<1>2. dialog \in Seq(Compositions) /\ Len(dialog) = 1 /\ dialog[1] \in Compositions
  <2>1. dialog \in Seq(Compositions) /\ Len(dialog) <= 1 /\ dialog # <<>> BY <1>1 DEF WindowIsTyped
  <2>2. Len(dialog) = 1 BY <2>1, AtMostOne
  <2> QED BY <2>1, <2>2
<1>3. /\ task' \in TaskTypes /\ active' \in BOOLEAN /\ SlotIsPlaced'
      /\ Window!Accepts => /\ task.kind = "none" /\ task'.kind = "send" /\ task'.at = "runs" /\ task'.what = dialog
                           /\ accepting
  BY <1>2, TaskBegins
<1>4. CASE Window!Accepts
  <2>1. confirmed' = Append(confirmed, dialog[1]) BY <1>4
  <2>2. /\ confirmed' \in Seq(Compositions) /\ Len(confirmed') = Len(confirmed) + 1
        /\ confirmed'[Len(confirmed) + 1] = dialog[1] /\ Len(confirmed) \in Nat /\ confirmed' # <<>>
        /\ \A j \in 1..Len(confirmed) : confirmed'[j] = confirmed[j]
    BY <1>1, <1>2, <2>1 DEF WindowIsTyped
  <2>3. WindowIsTyped' BY <1>1, <1>3, <2>2 DEF WindowIsTyped
  <2>4. Len(mails) \in Nat /\ UNCHANGED <<mails, accepting, pendingQuit, quitting, gone>> BY <1>1 DEF WindowIsTyped
  <2>5. SlotIsConfirmed' BY <1>3, <1>4, <2>2, <2>4 DEF WindowInv, SlotIsConfirmed
  <2>6. MailsAreConfirmed'
    <3>1. ASSUME NEW k \in 1..Len(mails) PROVE \E j \in k..Len(confirmed') : mails[k].text = confirmed'[j].text
      <4>1. PICK j \in k..Len(confirmed) : mails[k].text = confirmed[j].text BY DEF WindowInv, MailsAreConfirmed
      <4>2. j \in 1..Len(confirmed) /\ j \in k..Len(confirmed') BY <4>1, <2>2, <2>4
      <4> QED BY <4>1, <4>2, <2>2
    <3> QED BY <3>1, <2>4 DEF MailsAreConfirmed
  <2>7. QuitWaits' BY <1>3, <1>4, <2>4 DEF WindowInv, QuitWaits
  <2> QED BY <1>3, <2>3, <2>5, <2>6, <2>7 DEF WindowInv
<1>5. CASE ~ Window!Accepts
  <2>1. UNCHANGED <<task, active, confirmed>> BY <1>5 DEF Window!RunsTask
  <2>2. WindowIsTyped' BY <1>1, <2>1 DEF WindowIsTyped
  <2> QED BY <1>3, <2>1, <2>2 DEF WindowInv, SlotIsConfirmed, MailsAreConfirmed, QuitWaits
<1> QED BY <1>4, <1>5

LEMMA ChecksSelectionStep == ASSUME WindowInv, Window!ChecksSelection PROVE WindowInv'
<1> USE DEF Window!ChecksSelection, Window!autoVars, Window!sendVars, Window!quitVars, Window!Click
<1>1. WindowIsTyped BY DEF WindowInv
<1>2. /\ task' \in TaskTypes /\ task'.kind = "send" /\ task'.what = task.what
      /\ (task'.at = "sends" \/ (task'.at = "done" /\ task'.result = "failed"))
  BY <1>1, WindowTaskTyped DEF Window!Ends, TaskTypes, WindowIsTyped, Ended
<1>3. WindowIsTyped' BY <1>1, <1>2 DEF WindowIsTyped
<1>4. SlotIsPlaced' BY <1>2 DEF WindowInv, SlotIsPlaced, Window!NoTask
<1>5. SlotIsConfirmed' BY <1>2 DEF WindowInv, SlotIsConfirmed
<1> QED BY <1>2, <1>3, <1>4, <1>5 DEF WindowInv, MailsAreConfirmed, QuitWaits

LEMMA ReceivesStep == ASSUME WindowInv, Window!Receives PROVE WindowInv'
<1> USE DEF Window!Receives, Window!autoVars, Window!sendVars, Window!quitVars, Window!Click
<1>1. WindowIsTyped BY DEF WindowInv
<1>2. task' \in TaskTypes /\ task'.kind = task.kind /\ task'.at = "done"
  BY <1>1, WindowTaskTyped DEF Window!Ends, TaskTypes, WindowIsTyped, Ended
<1>3. WindowIsTyped' BY <1>1, <1>2 DEF WindowIsTyped
<1>4. SlotIsPlaced' BY <1>2 DEF WindowInv, SlotIsPlaced, Window!NoTask
<1>5. SlotIsConfirmed' BY <1>2 DEF WindowInv, SlotIsConfirmed
<1> QED BY <1>2, <1>3, <1>4, <1>5 DEF WindowInv, MailsAreConfirmed, QuitWaits

LEMMA SendsCompositionStep == ASSUME WindowInv, Window!SendsComposition PROVE WindowInv'
<1> USE DEF Window!SendsComposition, Window!autoVars, Window!sendVars, Window!quitVars, Window!Click
<1>1. WindowIsTyped /\ SlotIsConfirmed /\ SlotIsPlaced /\ MailsAreConfirmed BY DEF WindowInv
<1>2. PICK result \in {"sent", "sent_archive_failed", "failed"} :
        Window!Ends(result) /\ mails' = Append(mails, [text |-> task.what[1].text, result |-> result])
  OBVIOUS
<1>3. task.kind = "send" /\ task.at = "sends" BY <1>1 DEF SlotIsPlaced
<1>4. task' \in TaskTypes /\ task'.kind = "send" /\ task'.at = "done" /\ task'.what = task.what
    /\ task'.result = result
  BY <1>1, <1>2, <1>3, WindowTaskTyped DEF Window!Ends, TaskTypes, WindowIsTyped, Ended
<1>5. /\ confirmed \in Seq(Compositions) /\ Len(confirmed) \in Nat /\ Len(mails) \in Nat
         /\ Len(mails) < Len(confirmed)
      /\ task.what[1] = confirmed[Len(confirmed)] /\ confirmed[Len(confirmed)] \in Compositions
  BY <1>1, <1>3 DEF SlotIsConfirmed, WindowIsTyped
<1>6. [text |-> task.what[1].text, result |-> result] \in [text : Nat, result : Ended] BY <1>5 DEF Compositions, Ended
<1>7. /\ mails' \in Seq([text : Nat, result : Ended]) /\ Len(mails') = Len(mails) + 1 /\ mails' # <<>>
      /\ mails'[Len(mails')] = [text |-> task.what[1].text, result |-> result]
      /\ \A k \in 1..Len(mails) : mails'[k] = mails[k]
  <2>1. PICK mail : mail = [text |-> task.what[1].text, result |-> result] OBVIOUS
  <2>2. PICK S : S = [text : Nat, result : Ended] OBVIOUS
  <2>3. mail \in S /\ mails \in Seq(S) /\ mails' = Append(mails, mail)
    BY <1>1, <1>2, <1>6, <2>1, <2>2 DEF WindowIsTyped
  <2>4. /\ mails' \in Seq(S) /\ Len(mails') = Len(mails) + 1 /\ mails' # <<>> /\ mails'[Len(mails')] = mail
        /\ \A k \in 1..Len(mails) : mails'[k] = mails[k]
    BY <2>3
  <2> QED BY <2>1, <2>2, <2>4
<1>8. WindowIsTyped' BY <1>1, <1>4, <1>7 DEF WindowIsTyped
<1>9. SlotIsPlaced' BY <1>1, <1>4 DEF SlotIsPlaced, Window!NoTask
<1>10. SlotIsConfirmed' BY <1>1, <1>4, <1>5, <1>7 DEF SlotIsConfirmed
<1>11. MailsAreConfirmed'
  <2>1. ASSUME NEW k \in 1..Len(mails') PROVE \E j \in k..Len(confirmed) : mails'[k].text = confirmed[j].text
    <3>1. CASE k = Len(mails')
      <4>1. Len(confirmed) \in k..Len(confirmed) BY <3>1, <1>5, <1>7
      <4>2. mails'[k].text = confirmed[Len(confirmed)].text BY <3>1, <1>5, <1>7
      <4> QED BY <4>1, <4>2
    <3>2. CASE k # Len(mails')
      <4>1. k \in 1..Len(mails) BY <3>2, <1>5, <1>7
      <4> QED BY <4>1, <1>1, <1>7 DEF MailsAreConfirmed
    <3> QED BY <3>1, <3>2
  <2> QED BY <2>1 DEF MailsAreConfirmed
<1>12. QuitWaits' BY <1>3, <1>4 DEF WindowInv, QuitWaits
<1> QED BY <1>8, <1>9, <1>10, <1>11, <1>12 DEF WindowInv

LEMMA FinishesTaskStep == ASSUME WindowInv, Window!FinishesTask PROVE WindowInv'
<1> USE DEF Window!FinishesTask, Window!autoVars, Window!sendVars, Window!quitVars, Window!Click
<1>1. WindowIsTyped BY DEF WindowInv
<1>2. task' = Window!NoTask /\ active' = FALSE BY DEF Window!StaysActive
<1>3. Window!NoTask \in TaskTypes /\ Window!NoTask.kind = "none" /\ Window!NoTask.at = "idle"
  BY DEF Window!NoTask, TaskTypes, Ended
<1>4. /\ switch' \in BOOLEAN /\ timer' \in BOOLEAN /\ nextCheck' \in {"none", "ahead", "passed"}
      /\ draft' \in Nat /\ picked' \in Nat
  <2>1. switch' \in BOOLEAN /\ timer' \in BOOLEAN /\ nextCheck' \in {"none", "ahead", "passed"}
    BY <1>1 DEF WindowIsTyped, Window!AfterAuto, Window!Schedules
  <2>2. draft' \in Nat /\ picked' \in Nat BY <1>1 DEF WindowIsTyped, Window!AfterSend
  <2> QED BY <2>1, <2>2
<1>5. WindowIsTyped' BY <1>1, <1>2, <1>3, <1>4 DEF WindowIsTyped
<1>6. SlotIsPlaced' /\ QuitWaits' BY <1>2, <1>3 DEF WindowInv, SlotIsPlaced, QuitWaits
<1>7. SlotIsConfirmed' /\ MailsAreConfirmed' BY <1>2, <1>3 DEF WindowInv, SlotIsConfirmed, MailsAreConfirmed
<1> QED BY <1>5, <1>6, <1>7 DEF WindowInv

\* Every step keeps the invariant.
LEMMA WindowStep == ASSUME WindowInv, [Window!Next]_(Window!vars) PROVE WindowInv'
<1>1. CASE UNCHANGED Window!vars
  BY <1>1
  DEF Window!vars, Window!autoVars, Window!sendVars, Window!quitVars, WindowInv, WindowIsTyped, SlotIsPlaced,
    SlotIsConfirmed, MailsAreConfirmed, QuitWaits, Window!NoTask
<1> QED
  BY <1>1, TypesStep, WindowEditsFileStep, AttachesStep, WindowTimePassesStep, WatchdogLooksStep, TogglesAutoStep,
     WindowSaysNoStep,
  AsksToQuitStep, QuitsStep, PressesSendStep, PressesReceiveStep, TimerFiresStep, WindowSaysYesStep,
      ChecksSelectionStep,
  ReceivesStep, SendsCompositionStep, FinishesTaskStep DEF Window!Next, Window!OfTheUser, Window!InThePool

\* What the slot holds is not displaced, no task begins once the program is to leave, and the draft is
\* cleared by the task that sent it.
LEMMA WindowActs ==
  ASSUME WindowInv, [Window!Next]_(Window!vars)
  PROVE  SlotKept /\ DraftKept
<1>1. WindowIsTyped /\ SlotIsPlaced /\ SlotIsConfirmed BY DEF WindowInv
<1>2. ASSUME NEW k \in {"receive", "history", "auto", "send"}, NEW what \in Seq(Compositions), Window!RunsTask(k,
    what)
      PROVE  SlotKept
  BY <1>1, <1>2, TaskBegins DEF SlotIsPlaced, SlotKept
<1>3. CASE Window!FinishesTask
  <2>1. task' = Window!NoTask BY <1>3 DEF Window!FinishesTask
  <2>2. SlotKept BY <2>1 DEF Window!NoTask, SlotKept
  <2>3. DraftKept
    <3>0. SUFFICES ASSUME draft' = 0, draft # 0 PROVE mails # <<>> /\ mails[Len(mails)].result # "failed"
        /\ task.kind = "send"
      BY DEF DraftKept
    <3>1. task.kind = "send" /\ task.at = "done" /\ task.result \in {"sent", "sent_archive_failed"}
      BY <1>3, <3>0 DEF Window!FinishesTask, Window!AfterSend
    <3> QED BY <3>1, <1>1 DEF SlotIsConfirmed
  <2> QED BY <2>2, <2>3
<1>4. CASE Window!InThePool
  <2>1. task'.kind = task.kind /\ draft' = draft
    BY <1>1, <1>4, WindowTaskTyped
    DEF Window!InThePool, Window!ChecksSelection, Window!SendsComposition, Window!Receives, Window!Ends,
      Window!sendVars, WindowIsTyped, TaskTypes
  <2> QED BY <2>1 DEF SlotKept, DraftKept
<1>5. CASE Window!SaysYes
  <2>1. Window!RunsTask("send", dialog) /\ dialog \in Seq(Compositions) /\ draft' = draft
    BY <1>1, <1>5 DEF Window!SaysYes, WindowIsTyped
  <2>2. SlotKept BY <1>2, <2>1
  <2>3. DraftKept BY <2>1 DEF DraftKept
  <2> QED BY <2>2, <2>3
<1>6. CASE Window!PressesReceive \/ Window!TimerFires
  <2>1. draft' = draft BY <1>6 DEF Window!PressesReceive, Window!TimerFires, Window!sendVars
  <2>2. UNCHANGED task \/ \E k \in {"receive", "history", "auto"} : Window!RunsTask(k, <<>>)
    BY <1>6 DEF Window!PressesReceive, Window!TimerFires
  <2>3. <<>> \in Seq(Compositions) OBVIOUS
  <2>4. SlotKept
    <3>1. CASE UNCHANGED task BY <3>1, <1>1 DEF SlotIsPlaced, SlotKept
    <3>2. ASSUME NEW k \in {"receive", "history", "auto"}, Window!RunsTask(k, <<>>) PROVE SlotKept BY <3>2, <2>3, <1>2
    <3> QED BY <2>2, <3>1, <3>2
  <2>5. DraftKept BY <2>1 DEF DraftKept
  <2> QED BY <2>4, <2>5
<1>7. CASE \/ UNCHANGED Window!vars \/ Window!Types \/ Window!EditsFile \/ Window!Attaches
              \/ Window!PressesSend \/ Window!TogglesAuto
           \/ Window!AsksToQuit \/ Window!SaysNo \/ Window!TimePasses \/ Window!WatchdogLooks \/ Window!Quits
  <2>1. UNCHANGED task /\ draft' \in {draft, draft + 1}
    BY <1>7 DEF Window!vars, Window!Types, Window!EditsFile, Window!Attaches, Window!PressesSend, Window!TogglesAuto,
      Window!AsksToQuit, Window!SaysNo, Window!TimePasses, Window!WatchdogLooks, Window!Quits, Window!sendVars
  <2> QED BY <2>1, <1>1 DEF WindowIsTyped, SlotIsPlaced, SlotKept, DraftKept
<1> QED BY <1>3, <1>4, <1>5, <1>6, <1>7 DEF Window!Next, Window!OfTheUser

\* What the invariant says of the properties.
LEMMA WindowSafe ==
  ASSUME WindowInv
  PROVE  Window!TypeOK /\ Window!OnlyConfirmedGoesOut /\ (gone => task = Window!NoTask)
<1>1. WindowIsTyped /\ SlotIsPlaced /\ SlotIsConfirmed /\ MailsAreConfirmed /\ QuitWaits BY DEF WindowInv
<1>2. Window!TypeOK BY <1>1, WindowTaskTyped DEF WindowIsTyped, Window!TypeOK
<1>3. DOMAIN mails = 1..Len(mails) BY <1>1 DEF WindowIsTyped
<1>4. Window!OnlyConfirmedGoesOut
  BY <1>1, <1>3 DEF SlotIsPlaced, SlotIsConfirmed, MailsAreConfirmed, Window!OnlyConfirmedGoesOut
<1> QED BY <1>1, <1>2, <1>4 DEF QuitWaits, SlotIsPlaced

-----------------------------------------------------------------------------
(* SendPages: a yes has one task, a task asks once, a request is sent once. *)

Acts == {"confirm", "sent", "not_sent", "clone"}
Answers == [kind : Acts, what : Requests]
Results == Requests \cup (Requests \X Pages!Statuses)
PageTasks ==
  [kind : Acts \cup {"none", "list", "recovery"}, what : Requests \cup {0},
   at : {"idle", "runs", "sends", "marks", "archives", "clones", "done"},
   snap : SUBSET Results, result : {"none", "ok", "failed"}]

PagesAreTyped ==
  /\ store \in [Requests -> Pages!Statuses] /\ isDue \subseteq Requests /\ given \in [Requests -> Nat]
  /\ pending \subseteq Requests /\ current \in Requests \cup {0} /\ page \in {"list", "detail"}
  /\ DOMAIN kept \subseteq Requests /\ chosen \in Requests \cup {0} /\ armed \subseteq Acts
  /\ question = <<>> \/ \E q \in Answers : question = <<q>>
  /\ asked \in Seq(Answers) /\ requested \in Seq(Answers)

\* A task that the owner said yes to and that has asked the service of nothing yet.
IsNew(t) == t.at = "runs" /\ t.kind \in Acts

\* What a task may do next, and to which request.
TaskIsRight(t) ==
  /\ t.kind \in Acts => t.what \in Requests
  /\ t.at = "sends" => t.kind = "confirm" /\ store[t.what] = "sending"
  /\ t.at = "marks" =>
      t.kind \in {"sent", "not_sent"} /\ store[t.what] \in {"unknown", "archive_failed", "reconciled"}
  /\ t.at = "archives" => t.kind = "sent" /\ store[t.what] \in {"archive_failed", "reconciled"}
  /\ t.at = "clones" => t.kind = "clone"
  /\ t.at = "done" /\ t.kind = "list" => t.snap \subseteq Requests
  /\ t.at = "done" /\ t.kind = "recovery" => t.snap \subseteq Requests \X Pages!Statuses

\* The answers are taken up one by one.
AnswersAreTaken(t) ==
  /\ Len(asked) = IF IsNew(t) THEN Len(requested) + 1 ELSE Len(requested)
  /\ IsNew(t) => asked[Len(asked)] = [kind |-> t.kind, what |-> t.what]
  /\ \A k \in 1..Len(requested) : requested[k] = asked[k]

Confirmed(r) == \E k \in 1..Len(asked) : asked[k] = [kind |-> "confirm", what |-> r]
RequestIsRight(r) ==
  /\ given[r] <= 1
  /\ store[r] \in {"none", "pending", "sending", "cancelled", "expired", "failed"} => given[r] = 0
  /\ store[r] \in {"sending", "sent", "archive_failed", "unknown", "reconciled", "not_sent"} \/ given[r] > 0 =>
      Confirmed(r)

PagesInv ==
  /\ PagesAreTyped /\ pageTask \in PageTasks /\ TaskIsRight(pageTask) /\ AnswersAreTaken(pageTask)
  /\ \A r \in Requests : RequestIsRight(r)
  /\ Pages!DetailIsKnown

\* A set of numbers has its least.
LEMMA TheLeast ==
  ASSUME NEW S \in SUBSET Nat, S # {}
  PROVE  Pages!Min(S) \in S
<1> DEFINE R == {ss \in Nat \X Nat : ss[1] < ss[2]}
<1>1. IsWellFoundedOn(R, Nat) BY NatLessThanWellFounded DEF OpToRel
<1>2. PICK k \in S : \A j \in S : ~ (<<j, k>> \in R) BY <1>1, WFMin, Zenon
<1>3. ASSUME NEW j \in S PROVE k <= j
  <2>1. j \in Nat /\ k \in Nat OBVIOUS
  <2>2. ~ (<<j, k>> \in R) BY <1>2
  <2>3. ~ (j < k) BY <2>1, <2>2
  <2> QED BY <2>1, <2>3
<1> QED BY <1>3 DEF Pages!Min

\* A finite set of numbers has a greatest.
LEMMA HasGreatest ==
  ASSUME NEW S \in SUBSET Nat, IsFiniteSet(S), S # {}
  PROVE  \E k \in S : \A j \in S : j <= k
<1> DEFINE Bare == {T \in SUBSET S : T # {} /\ ~ \E k \in T : \A j \in T : j <= k}
<1>1. Bare = {}
  <2>1. ASSUME Bare # {} PROVE FALSE
    <3> HIDE DEF Bare
    <3>0. IsWellFoundedOn(StrictSubsetOrdering(S), SUBSET S) /\ Bare \subseteq SUBSET S
      BY FS_StrictSubsetOrderingWellFounded, FS_FiniteSubsetsOfFinite DEF Bare
    <3>1. PICK T \in Bare : \A U \in Bare : ~ (<<U, T>> \in StrictSubsetOrdering(S))
      BY <2>1, <3>0, WFMin, Zenon
    <3>2. T \in SUBSET S /\ T # {} /\ ~ \E k \in T : \A j \in T : j <= k BY <3>1 DEF Bare
    <3>3. PICK x \in T : TRUE BY <3>2
    <3>4. PICK U : U = T \ {x} OBVIOUS
    <3>5. <<U, T>> \in StrictSubsetOrdering(S) BY <3>2, <3>3, <3>4 DEF StrictSubsetOrdering
    <3>6. U \notin Bare BY <3>1, <3>5
    <3>7. x \in Nat /\ U \in SUBSET S /\ T \in SUBSET Nat BY <3>2, <3>3, <3>4
    <3>8. CASE U = {} BY <3>2, <3>4, <3>7, <3>8
    <3>9. CASE U # {}
      <4>1. PICK k \in U : \A j \in U : j <= k BY <3>6, <3>7, <3>9 DEF Bare
      <4>2. k \in T /\ k \in Nat BY <3>4, <3>7, <4>1
      <4>3. CASE x <= k BY <3>2, <3>4, <3>7, <4>1, <4>2, <4>3
      <4>4. CASE k < x
        <5>1. \A j \in T : j <= x BY <3>4, <3>7, <4>1, <4>2, <4>4
        <5> QED BY <3>2, <5>1
      <4> QED BY <3>7, <4>2, <4>3, <4>4
    <3> QED BY <3>8, <3>9
  <2> QED BY <2>1
<1> QED BY <1>1

\* ... which is its Max.
LEMMA TheGreatest ==
  ASSUME NEW S \in SUBSET Nat, IsFiniteSet(S), S # {}
  PROVE  Pages!Max(S) \in S
<1>1. PICK k \in S : \A j \in S : j <= k BY HasGreatest
<1>2. k \in S /\ \A j \in S : k >= j BY <1>1
<1> QED BY <1>2 DEF Pages!Max

\* The parts of a task.
LEMMA TaskTyped ==
  ASSUME PagesInv
  PROVE  /\ pageTask.kind \in Acts \cup {"none", "list", "recovery"} /\ pageTask.what \in Requests \cup {0}
         /\ pageTask.at \in {"idle", "runs", "sends", "marks", "archives", "clones", "done"}
         /\ pageTask.snap \in SUBSET Results /\ pageTask.result \in {"none", "ok", "failed"}
         /\ pageTask \in PageTasks
         /\ Len(asked) \in Nat /\ Len(requested) \in Nat
         /\ PagesAreTyped /\ TaskIsRight(pageTask) /\ AnswersAreTaken(pageTask) /\ Pages!DetailIsKnown
<1>1. pageTask \in PageTasks /\ asked \in Seq(Answers) /\ requested \in Seq(Answers) BY DEF PagesInv, PagesAreTyped
<1> QED BY <1>1 DEF PagesInv, PageTasks

CancelKept == \A r \in Requests : store[r] = "cancelled" => store'[r] = "cancelled"

\* What becomes of the requests that wait does not touch the others, nor what a task is about.
Waits(r) ==
  \/ store'[r] = store[r]
  \/ store[r] \in {"none", "pending"} /\ store'[r] \in {"pending", "cancelled", "expired"}

\* Each action keeps the invariant.
LEMMA RequestsWait ==
  ASSUME PagesInv, \A r \in Requests : Waits(r), UNCHANGED <<given, asked>>
  PROVE  /\ \A r \in Requests : RequestIsRight(r)'
         /\ \A t \in PageTasks : TaskIsRight(t) => TaskIsRight(t)'
         /\ CancelKept
<1>1. ASSUME NEW r \in Requests PROVE RequestIsRight(r)'
  BY <1>1 DEF PagesInv, RequestIsRight, Waits, Confirmed
<1>2. ASSUME NEW t \in PageTasks, TaskIsRight(t) PROVE TaskIsRight(t)'
  <2>1. t.at \in {"sends", "marks", "archives"} => t.what \in Requests BY <1>2 DEF TaskIsRight, Acts
  <2>2. t.at \in {"sends", "marks", "archives"} => store'[t.what] = store[t.what] BY <1>2, <2>1 DEF TaskIsRight, Waits
  <2> QED BY <1>2, <2>2 DEF TaskIsRight
<1>3. CancelKept BY DEF CancelKept, Waits
<1> QED BY <1>1, <1>2, <1>3

\* The owner looks around; no answer is given and no task begins that has one.
LEMMA PagesTurn ==
  ASSUME PagesInv, \A r \in Requests : Waits(r), UNCHANGED <<given, asked, requested>>, PagesAreTyped',
      Pages!DetailIsKnown',
         \/ pageTask' = pageTask
         \/ /\ ~IsNew(pageTask)
            /\ \E t \in PageTasks : pageTask' = t /\ ~IsNew(t) /\ TaskIsRight(t)
  PROVE  PagesInv' /\ CancelKept
<1>1. PICK t \in PageTasks : /\ pageTask' = t /\ TaskIsRight(t)
                             /\ t = pageTask \/ (~IsNew(t) /\ ~IsNew(pageTask))
  BY TaskTyped
<1>2. TaskIsRight(t)' BY <1>1, RequestsWait
<1>3. AnswersAreTaken(t)' BY <1>1, TaskTyped DEF AnswersAreTaken
<1>4. TaskIsRight(pageTask)' /\ AnswersAreTaken(pageTask)'
  <2>1. pageTask' = t BY <1>1
  <2> QED BY <1>2, <1>3, <2>1 DEF TaskIsRight, AnswersAreTaken, IsNew
<1> QED BY <1>1, <1>4, RequestsWait DEF PagesInv

\* Looking at the list or at a record needs no answer.
LEMMA TaskOfIs ==
  ASSUME NEW kind \in {"list", "recovery"}
  PROVE  /\ Pages!TaskOf(kind, 0) \in PageTasks /\ ~IsNew(Pages!TaskOf(kind, 0)) /\ TaskIsRight(Pages!TaskOf(kind, 0))
         /\ Pages!NoTask \in PageTasks /\ ~IsNew(Pages!NoTask) /\ TaskIsRight(Pages!NoTask)
BY DEF Pages!TaskOf, Pages!NoTask, PageTasks, IsNew, TaskIsRight, Acts, Results

\* The invariant holds at the start.
LEMMA PagesInit == ASSUME Pages!Known, Pages!Init PROVE PagesInv
<1> USE DEF Pages!Init
<1>1. PagesAreTyped
  <2>1. asked \in Seq(Answers) /\ requested \in Seq(Answers) BY EmptySeq
  <2>2. DOMAIN kept = {} OBVIOUS
  <2> QED BY <2>1, <2>2 DEF PagesAreTyped, Pages!Statuses
<1>2. pageTask \in PageTasks /\ ~IsNew(pageTask) /\ TaskIsRight(pageTask)
  <2>1. \A kind \in {"list"} : pageTask = Pages!NoTask OBVIOUS
  <2> QED BY <2>1, TaskOfIs DEF TaskIsRight, IsNew
<1>3. AnswersAreTaken(pageTask) BY <1>2 DEF AnswersAreTaken
<1>4. \A r \in Requests : RequestIsRight(r) BY DEF RequestIsRight
<1> QED BY <1>1, <1>2, <1>3, <1>4 DEF PagesInv, Pages!DetailIsKnown

\* Time may have run out under any reading of the requests.
LEMMA ExpiredWaits ==
  ASSUME PagesInv
  PROVE  /\ Pages!Expired \in [Requests -> Pages!Statuses]
         /\ \A r \in Requests : Pages!Expired[r] = store[r] \/ (store[r] = "pending" /\ Pages!Expired[r] = "expired")
         /\ Pages!Listed \subseteq Requests
BY DEF PagesInv, PagesAreTyped, Pages!Expired, Pages!Listed, Pages!With, Pages!Statuses

\* What an agent asks for anew, or what is copied, was not there.
LEMMA NewWaits ==
  ASSUME Pages!Known, PagesInv, Pages!With("none") # {},
      store' = [store EXCEPT ![Pages!Min(Pages!With("none"))] = "pending"]
  PROVE  store' \in [Requests -> Pages!Statuses] /\ \A r \in Requests : Waits(r)
<1>1. Pages!With("none") \in SUBSET Nat BY DEF Pages!With, Pages!Known
<1>2. PICK r0 : r0 = Pages!Min(Pages!With("none")) OBVIOUS
<1>3. r0 \in Requests /\ store[r0] = "none" BY <1>1, <1>2, TheLeast DEF Pages!With
<1>4. store' = [store EXCEPT ![r0] = "pending"] /\ store \in [Requests -> Pages!Statuses]
    /\ "pending" \in Pages!Statuses
  BY <1>2 DEF PagesInv, PagesAreTyped, Pages!Statuses
<1> QED BY <1>3, <1>4 DEF Waits

LEMMA SubmitsStep == ASSUME Pages!Known, PagesInv, Pages!Submits PROVE PagesInv' /\ CancelKept
<1> USE DEF Pages!Submits, Pages!pendingVars, Pages!recoveryVars, Pages!ghosts
<1>1. store' \in [Requests -> Pages!Statuses] /\ \A r \in Requests : Waits(r) BY NewWaits
<1>2. PagesAreTyped' /\ Pages!DetailIsKnown' BY <1>1 DEF PagesInv, PagesAreTyped, Pages!DetailIsKnown
<1> QED BY <1>1, <1>2, PagesTurn

LEMMA TimePassesStep == ASSUME PagesInv, Pages!TimePasses PROVE PagesInv' /\ CancelKept
<1> USE DEF Pages!TimePasses, Pages!pendingVars, Pages!recoveryVars, Pages!ghosts
<1>1. isDue' \subseteq Requests BY DEF PagesInv, PagesAreTyped, Pages!With
<1>2. PagesAreTyped' /\ Pages!DetailIsKnown' BY <1>1 DEF PagesInv, PagesAreTyped, Pages!DetailIsKnown
<1> QED BY <1>2, PagesTurn DEF Waits

LEMMA RefreshesStep == ASSUME PagesInv, Pages!Refreshes PROVE PagesInv' /\ CancelKept
<1> USE DEF Pages!Refreshes, Pages!storeVars, Pages!pendingVars, Pages!recoveryVars, Pages!ghosts
<1>1. PagesAreTyped' /\ Pages!DetailIsKnown' BY DEF PagesInv, PagesAreTyped, Pages!DetailIsKnown
<1>2. ~IsNew(pageTask) /\ \E t \in PageTasks : pageTask' = t /\ ~IsNew(t) /\ TaskIsRight(t)
  BY TaskOfIs DEF Pages!Busy
<1> QED BY <1>1, <1>2, PagesTurn DEF Waits

LEMMA OpensRowStep == ASSUME Pages!Known, PagesInv, Pages!OpensRow PROVE PagesInv' /\ CancelKept
<1> USE DEF Pages!OpensRow, Pages!storeVars, Pages!recoveryVars, Pages!ghosts
<1>1. current' \in Requests /\ current' # 0 BY DEF PagesInv, PagesAreTyped, Pages!Known
<1>2. PagesAreTyped' /\ Pages!DetailIsKnown' BY <1>1 DEF PagesInv, PagesAreTyped, Pages!DetailIsKnown
<1> QED BY <1>2, PagesTurn DEF Waits

LEMMA PicksStep == ASSUME PagesInv, Pages!Picks PROVE PagesInv' /\ CancelKept
<1> USE DEF Pages!Picks, Pages!storeVars, Pages!pendingVars, Pages!ghosts
<1>1. chosen' \in Requests /\ armed' \subseteq Acts BY DEF PagesInv, PagesAreTyped, Pages!Armed, Acts
<1>2. PagesAreTyped' /\ Pages!DetailIsKnown' BY <1>1 DEF PagesInv, PagesAreTyped, Pages!DetailIsKnown
<1> QED BY <1>2, PagesTurn DEF Waits

LEMMA AsksToConfirmStep == ASSUME PagesInv, Pages!AsksToConfirm PROVE PagesInv' /\ CancelKept
<1> USE DEF Pages!AsksToConfirm, Pages!storeVars, Pages!pendingVars, Pages!recoveryVars, Pages!ghosts
<1>1. [kind |-> "confirm", what |-> current] \in Answers BY DEF PagesInv, PagesAreTyped, Answers, Acts
<1>2. PagesAreTyped' /\ Pages!DetailIsKnown' BY <1>1 DEF PagesInv, PagesAreTyped, Pages!DetailIsKnown
<1> QED BY <1>2, PagesTurn DEF Waits

LEMMA AsksRecoveryStep == ASSUME PagesInv, Pages!AsksRecovery PROVE PagesInv' /\ CancelKept
<1> USE DEF Pages!AsksRecovery, Pages!storeVars, Pages!pendingVars, Pages!recoveryVars, Pages!ghosts
<1>1. PICK kind \in armed : question' = <<[kind |-> kind, what |-> chosen]>> OBVIOUS
<1>2. [kind |-> kind, what |-> chosen] \in Answers BY <1>1 DEF PagesInv, PagesAreTyped, Answers
<1>3. PagesAreTyped' /\ Pages!DetailIsKnown' BY <1>1, <1>2 DEF PagesInv, PagesAreTyped, Pages!DetailIsKnown
<1> QED BY <1>3, PagesTurn DEF Waits

LEMMA SaysNoStep == ASSUME PagesInv, Pages!SaysNo PROVE PagesInv' /\ CancelKept
<1> USE DEF Pages!SaysNo, Pages!storeVars, Pages!pendingVars, Pages!recoveryVars, Pages!ghosts
<1>1. PagesAreTyped' /\ Pages!DetailIsKnown' BY DEF PagesInv, PagesAreTyped, Pages!DetailIsKnown
<1> QED BY <1>1, PagesTurn DEF Waits

LEMMA SaysYesStep == ASSUME PagesInv, Pages!SaysYes PROVE PagesInv' /\ CancelKept
<1> USE DEF Pages!SaysYes, Pages!storeVars, Pages!pendingVars
<1>1. PICK q \in Answers : question = <<q>> BY DEF PagesInv, PagesAreTyped, Pages!Free
<1>2. q.kind \in Acts /\ q.what \in Requests /\ question[1] = q /\ q = [kind |-> q.kind, what |-> q.what]
  BY <1>1 DEF Answers
<1>3. CASE Pages!Busy
  <2>1. PagesAreTyped' /\ Pages!DetailIsKnown' BY <1>3 DEF PagesInv, PagesAreTyped, Pages!DetailIsKnown
  <2> QED BY <1>3, <2>1, PagesTurn DEF Waits
<1>4. CASE ~Pages!Busy
  <2>1. PICK t : t = Pages!TaskOf(q.kind, q.what) OBVIOUS
  <2>2. /\ t \in PageTasks /\ t.kind = q.kind /\ t.what = q.what /\ t.at = "runs"
    BY <1>2, <2>1 DEF Pages!TaskOf, PageTasks, Results
  <2>3. pageTask' = t /\ asked' = Append(asked, q) /\ armed' \subseteq Acts
    BY <1>2, <1>4, <2>1 DEF PagesInv, PagesAreTyped
  <2>4. ~IsNew(pageTask) BY <1>4 DEF Pages!Busy, Pages!NoTask, IsNew
  <2>5. Len(asked) \in Nat /\ Len(asked) = Len(requested) /\ \A k \in 1..Len(requested) : requested[k] = asked[k]
    BY <2>4, TaskTyped DEF AnswersAreTaken
  <2>6. asked \in Seq(Answers) BY DEF PagesInv, PagesAreTyped
  <2>7. /\ asked' \in Seq(Answers) /\ Len(asked') = Len(asked) + 1 /\ asked'[Len(asked) + 1] = q
        /\ \A k \in 1..Len(asked) : asked'[k] = asked[k]
    BY <2>3, <2>6, AppendProperties
  <2>8. PagesAreTyped' BY <2>3, <2>7 DEF PagesInv, PagesAreTyped
  <2>9. IsNew(t) BY <1>2, <2>2 DEF IsNew
  <2>10. AnswersAreTaken(t)'
    <3>1. Len(asked') = Len(requested') + 1 /\ asked'[Len(asked')] = [kind |-> t.kind, what |-> t.what]
      BY <1>2, <2>2, <2>5, <2>7
    <3>2. \A k \in 1..Len(requested') : requested'[k] = asked'[k] BY <2>5, <2>7
    <3> QED BY <2>9, <3>1, <3>2 DEF AnswersAreTaken
  <2>11. TaskIsRight(t)' BY <1>2, <2>2 DEF TaskIsRight
  <2>12. ASSUME NEW r \in Requests PROVE RequestIsRight(r)'
    <3>1. Confirmed(r) => Confirmed(r)' BY <2>5, <2>7 DEF Confirmed
    <3> QED BY <3>1 DEF PagesInv, RequestIsRight
  <2>13. TaskIsRight(pageTask)' /\ AnswersAreTaken(pageTask)'
    BY <2>3, <2>10, <2>11 DEF TaskIsRight, AnswersAreTaken, IsNew
  <2> QED BY <2>2, <2>3, <2>8, <2>12, <2>13 DEF PagesInv, Pages!DetailIsKnown, CancelKept
<1> QED BY <1>3, <1>4

LEMMA CancelsStep == ASSUME PagesInv, Pages!Cancels PROVE PagesInv' /\ CancelKept
<1> USE DEF Pages!Cancels, Pages!recoveryVars, Pages!ghosts
<1>1. current \in Requests BY DEF PagesInv, PagesAreTyped
<1>2. /\ store' \in [Requests -> Pages!Statuses] /\ \A r \in Requests : Waits(r)
  <2>1. CASE Pages!Expired[current] \in Pages!Cancellable
    <3>1. store[current] \in {"pending", "cancelled"} BY <1>1, <2>1, ExpiredWaits DEF Pages!Cancellable
    <3>2. store' = [Pages!Expired EXCEPT ![current] = "cancelled"] BY <2>1
    <3> QED BY <1>1, <3>1, <3>2, ExpiredWaits DEF Waits, Pages!Statuses
  <2>2. CASE Pages!Expired[current] \notin Pages!Cancellable BY <2>2, ExpiredWaits DEF Waits
  <2> QED BY <2>1, <2>2
<1>3. PagesAreTyped' /\ Pages!DetailIsKnown'
  BY <1>2 DEF PagesInv, PagesAreTyped, Pages!DetailIsKnown, Pages!LeavesDetail
<1>4. \/ pageTask' = pageTask
      \/ ~IsNew(pageTask) /\ \E t \in PageTasks : pageTask' = t /\ ~IsNew(t) /\ TaskIsRight(t)
  BY TaskOfIs DEF Pages!Busy
<1> QED BY <1>2, <1>3, <1>4, PagesTurn

\* The pool asks the service; the pages are left alone.
LEMMA PoolOn ==
  ASSUME PagesInv, NEW t \in PageTasks, pageTask' = t, ~IsNew(t),
         UNCHANGED <<isDue, pending, current, page, kept, chosen, armed, question, asked>>,
         store' \in [Requests -> Pages!Statuses], given' \in [Requests -> Nat],
         \/ ~IsNew(pageTask) /\ requested' = requested
         \/ IsNew(pageTask) /\ requested' = Append(requested, [kind |-> pageTask.kind, what |-> pageTask.what]),
         TaskIsRight(t)', \A r \in Requests : RequestIsRight(r)'
  PROVE  PagesInv'
<1>1. requested' \in Seq(Answers) /\ AnswersAreTaken(t)'
  <2>1. CASE ~IsNew(pageTask) /\ requested' = requested
    BY <2>1, TaskTyped DEF AnswersAreTaken, PagesAreTyped
  <2>2. CASE IsNew(pageTask) /\ requested' = Append(requested, [kind |-> pageTask.kind, what |-> pageTask.what])
    <3>1. PICK a \in Answers : a = [kind |-> pageTask.kind, what |-> pageTask.what]
      BY <2>2, TaskTyped DEF IsNew, Answers, TaskIsRight
    <3>2. /\ Len(asked) = Len(requested) + 1 /\ asked[Len(asked)] = a /\ Len(requested) \in Nat
          /\ \A k \in 1..Len(requested) : requested[k] = asked[k]
      BY <2>2, <3>1, TaskTyped DEF AnswersAreTaken
    <3>3. requested \in Seq(Answers) BY DEF PagesInv, PagesAreTyped
    <3>4. /\ requested' \in Seq(Answers) /\ Len(requested') = Len(requested) + 1 /\ requested'[Len(requested) + 1] = a
          /\ \A k \in 1..Len(requested) : requested'[k] = requested[k]
      BY <2>2, <3>1, <3>3, AppendProperties
    <3>5. \A k \in 1..Len(requested') : requested'[k] = asked[k]
      <4>1. ASSUME NEW k \in 1..Len(requested') PROVE requested'[k] = asked[k]
        <5>1. k \in 1..Len(requested) \/ k = Len(requested) + 1 BY <3>2, <3>4
        <5> QED BY <3>2, <3>4, <5>1
      <4> QED BY <4>1
    <3> QED BY <3>2, <3>4, <3>5 DEF AnswersAreTaken
  <2> QED BY <2>1, <2>2
<1>2. PagesAreTyped' BY <1>1 DEF PagesInv, PagesAreTyped
<1>3. TaskIsRight(pageTask)' /\ AnswersAreTaken(pageTask)' BY <1>1 DEF TaskIsRight, AnswersAreTaken, IsNew
<1> QED BY <1>2, <1>3 DEF PagesInv, Pages!DetailIsKnown

\* What a step does to one request is right for all when it is for that one.
LEMMA OneRequest ==
  ASSUME PagesInv, NEW r0 \in Requests, NEW s \in Pages!Statuses, store' = [store EXCEPT ![r0] = s], asked' = asked,
         \A r \in Requests \ {r0} : given'[r] = given[r], RequestIsRight(r0)', store[r0] = "cancelled" =>
             s = "cancelled"
  PROVE  /\ store' \in [Requests -> Pages!Statuses] /\ store'[r0] = s
         /\ \A r \in Requests : RequestIsRight(r)'
         /\ CancelKept
<1>1. store \in [Requests -> Pages!Statuses] BY DEF PagesInv, PagesAreTyped
<1>2. store' \in [Requests -> Pages!Statuses] /\ store'[r0] = s /\ \A r \in Requests \ {r0} : store'[r] = store[r]
  BY <1>1
<1>3. \A r \in Requests \ {r0} : RequestIsRight(r)' BY <1>2 DEF PagesInv, RequestIsRight, Confirmed
<1>4. CancelKept BY <1>2 DEF CancelKept
<1> QED BY <1>2, <1>3, <1>4

\* A task that goes on as it is.
LEMMA MovesOnTask ==
  ASSUME PagesInv, NEW where \in {"sends", "marks", "archives", "clones"}
  PROVE  \E t \in PageTasks : /\ t = [pageTask EXCEPT !.at = where]
                              /\ t.at = where /\ t.kind = pageTask.kind /\ t.what = pageTask.what /\ ~IsNew(t)
<1>1. PICK t : t = [pageTask EXCEPT !.at = where] OBVIOUS
<1>2. t \in PageTasks /\ t.at = where /\ t.kind = pageTask.kind /\ t.what = pageTask.what
  BY <1>1, TaskTyped DEF PageTasks
<1> QED BY <1>1, <1>2 DEF IsNew

\* A task that was answered comes to its end.
LEMMA EndsTask ==
  ASSUME PagesInv, NEW said \in {"ok", "failed"}, pageTask.kind \in Acts
  PROVE  \E t \in PageTasks : /\ t = [pageTask EXCEPT !.at = "done", !.result = said]
                              /\ ~IsNew(t) /\ TaskIsRight(t) /\ TaskIsRight(t)'
<1>1. PICK t : t = [pageTask EXCEPT !.at = "done", !.result = said] OBVIOUS
<1>2. t \in PageTasks /\ t.at = "done" /\ t.kind = pageTask.kind /\ t.what = pageTask.what
  BY <1>1, TaskTyped DEF PageTasks
<1>3. t.what \in Requests BY <1>2, TaskTyped DEF TaskIsRight
<1> QED BY <1>1, <1>2, <1>3 DEF IsNew, TaskIsRight, Acts

LEMMA ListsStep == ASSUME PagesInv, Pages!Lists PROVE PagesInv' /\ CancelKept
<1> USE DEF Pages!Lists, Pages!Shown, Pages!pendingVars, Pages!recoveryVars, Pages!Runs
<1>0. ~IsNew(pageTask) BY DEF IsNew, Acts
<1>1. CASE pageTask.kind = "list"
  <2>1. PICK t : t = [pageTask EXCEPT !.at = "done", !.result = "ok", !.snap = Pages!Listed] OBVIOUS
  <2>2. t \in PageTasks /\ t.kind = "list" /\ t.at = "done" /\ t.snap \subseteq Requests
    BY <1>1, <2>1, TaskTyped, ExpiredWaits DEF PageTasks, Results
  <2>3. ~IsNew(t) /\ TaskIsRight(t) BY <2>2 DEF IsNew, TaskIsRight, Acts
  <2>4. store' \in [Requests -> Pages!Statuses] /\ \A r \in Requests : Waits(r) BY <1>1, ExpiredWaits DEF Waits
  <2>5. PagesAreTyped' /\ Pages!DetailIsKnown' BY <2>4 DEF PagesInv, PagesAreTyped, Pages!DetailIsKnown
  <2> QED BY <1>0, <1>1, <2>1, <2>2, <2>3, <2>4, <2>5, PagesTurn
<1>2. CASE pageTask.kind # "list"
  <2>1. PICK t : t = [pageTask EXCEPT !.at = "done", !.result = "ok", !.snap = {<<r,
      store[r]>> : r \in Pages!InDoubt}] OBVIOUS
  <2>2. {<<r, store[r]>> : r \in Pages!InDoubt} \subseteq Requests \X Pages!Statuses
    BY DEF Pages!InDoubt, Pages!With, PagesInv, PagesAreTyped
  <2>3. t \in PageTasks /\ t.kind = "recovery" /\ t.at = "done" /\ t.snap \subseteq Requests \X Pages!Statuses
    BY <1>2, <2>1, <2>2, TaskTyped DEF PageTasks, Results
  <2>4. ~IsNew(t) /\ TaskIsRight(t) BY <2>3 DEF IsNew, TaskIsRight, Acts
  <2>5. PagesAreTyped' /\ Pages!DetailIsKnown' BY <1>2 DEF PagesInv, PagesAreTyped, Pages!DetailIsKnown
  <2>6. \A r \in Requests : Waits(r) BY <1>2 DEF Waits
  <2> QED BY <1>0, <1>2, <2>1, <2>3, <2>4, <2>5, <2>6, PagesTurn
<1> QED BY <1>1, <1>2

LEMMA ObservesCopyStep == ASSUME PagesInv, Pages!ObservesCopy PROVE PagesInv' /\ CancelKept
<1> USE DEF Pages!ObservesCopy, Pages!pendingVars, Pages!recoveryVars, Pages!ghosts
<1>1. PICK r0 \in Requests : /\ store[r0] \in {"sent", "archive_failed", "unknown"} /\ given[r0] > 0
                             /\ store' = [store EXCEPT ![r0] = "reconciled"]
  OBVIOUS
<1>2. store'[r0] = "reconciled" BY <1>1 DEF PagesInv, PagesAreTyped
<1>3. RequestIsRight(r0)' BY <1>1, <1>2 DEF PagesInv, RequestIsRight, Confirmed
<1>4. store' \in [Requests -> Pages!Statuses] /\ CancelKept /\ \A r \in Requests : RequestIsRight(r)'
  BY <1>1, <1>3, OneRequest DEF Pages!Statuses
<1>5. PagesAreTyped' /\ Pages!DetailIsKnown' BY <1>4 DEF PagesInv, PagesAreTyped, Pages!DetailIsKnown
<1>6. TaskIsRight(pageTask)'
  <2>1. TaskIsRight(pageTask) /\ pageTask.at \in {"sends", "marks", "archives"} => pageTask.what \in Requests
    BY TaskTyped DEF TaskIsRight, Acts
  <2>2. pageTask.what \in Requests => store'[pageTask.what] = IF pageTask.what = r0 THEN "reconciled"
      ELSE store[pageTask.what]
    BY <1>1 DEF PagesInv, PagesAreTyped
  <2>3. TaskIsRight(pageTask) BY TaskTyped
  <2>4. PICK t \in PageTasks : t = pageTask BY TaskTyped
  <2>5. TaskIsRight(t)' BY <1>1, <2>1, <2>2, <2>3, <2>4 DEF TaskIsRight
  <2> QED BY <2>4, <2>5 DEF TaskIsRight
<1>7. AnswersAreTaken(pageTask)' BY DEF PagesInv, AnswersAreTaken, IsNew
<1> QED BY <1>4, <1>5, <1>6, <1>7, TaskTyped DEF PagesInv

\* Only what the owner said yes to is claimed.
LEMMA ConfirmsStep == ASSUME PagesInv, Pages!Confirms PROVE PagesInv' /\ CancelKept
<1> USE DEF Pages!Confirms, Pages!Shown, Pages!pendingVars, Pages!recoveryVars, Pages!Runs, Pages!Tells, Pages!Target
<1>0. pageTask.kind = "confirm" /\ pageTask.kind \in Acts /\ IsNew(pageTask) BY DEF IsNew, Acts
<1>1. PICK r0 \in Requests : r0 = pageTask.what BY <1>0, TaskTyped DEF TaskIsRight
<1>2. Confirmed(r0) BY <1>0, <1>1, TaskTyped DEF AnswersAreTaken, Confirmed
<1>3. store \in [Requests -> Pages!Statuses] /\ given \in [Requests -> Nat] /\ RequestIsRight(r0)
  BY DEF PagesInv, PagesAreTyped
<1>4. ASSUME NEW said \in {"ok", "failed"}, Pages!Ends(said), store' \in [Requests -> Pages!Statuses],
    \A r \in Requests : Waits(r)
      PROVE  PagesInv' /\ CancelKept
  <2>1. PICK t \in PageTasks : /\ t = [pageTask EXCEPT !.at = "done", !.result = said]
                               /\ ~IsNew(t) /\ TaskIsRight(t)'
    BY <1>0, EndsTask
  <2>2. pageTask' = t BY <1>4, <2>1 DEF Pages!Ends
  <2> QED BY <1>0, <1>3, <1>4, <2>1, <2>2, RequestsWait, PoolOn
<1>5. ASSUME Pages!Claimable(r0), store' = [store EXCEPT ![r0] = "sending"],
    Pages!Goes("sends") PROVE PagesInv' /\ CancelKept
  <2>1. PICK t \in PageTasks : /\ t = [pageTask EXCEPT !.at = "sends"] /\ t.at = "sends" /\ t.kind = pageTask.kind
                               /\ t.what = pageTask.what /\ ~IsNew(t)
    BY MovesOnTask
  <2>2. pageTask' = t BY <1>5, <2>1 DEF Pages!Goes
  <2>3. store'[r0] = "sending" /\ given'[r0] = 0
    BY <1>3, <1>5 DEF RequestIsRight, Pages!Claimable
  <2>4. RequestIsRight(r0)' BY <1>2, <2>3 DEF RequestIsRight, Confirmed
  <2>5. store' \in [Requests -> Pages!Statuses] /\ CancelKept /\ \A r \in Requests : RequestIsRight(r)'
    BY <1>5, <2>4, OneRequest DEF Pages!Statuses, Pages!Claimable
  <2>6. TaskIsRight(t)' BY <1>0, <1>1, <2>1, <2>3 DEF TaskIsRight
  <2> QED BY <1>0, <1>3, <2>1, <2>2, <2>5, <2>6, PoolOn
<1>6. ASSUME Pages!Claimable(r0), store' = [store EXCEPT ![r0] = "expired"]
      PROVE  store' \in [Requests -> Pages!Statuses] /\ \A r \in Requests : Waits(r)
  BY <1>3, <1>6 DEF Waits, Pages!Claimable, Pages!Statuses
<1>7. store' = store => store' \in [Requests -> Pages!Statuses] /\ \A r \in Requests : Waits(r) BY <1>3 DEF Waits
<1>8. \/ Pages!Ends("failed") /\ UNCHANGED store
      \/ Pages!Claimable(r0) /\ store' = [store EXCEPT ![r0] = "sending"] /\ Pages!Goes("sends")
      \/ Pages!Claimable(r0) /\ store' = [store EXCEPT ![r0] = "expired"] /\ Pages!Ends("failed")
      \/ Pages!Ends("ok") /\ UNCHANGED store
  BY <1>1
<1> QED BY <1>4, <1>5, <1>6, <1>7, <1>8

\* It had not been given to the server before.
LEMMA SendsStep == ASSUME PagesInv, Pages!Sends PROVE PagesInv' /\ CancelKept
<1> USE DEF Pages!Sends, Pages!Shown, Pages!pendingVars, Pages!recoveryVars, Pages!Target
<1>0. /\ pageTask.kind = "confirm" /\ pageTask.kind \in Acts /\ ~IsNew(pageTask) /\ pageTask.what \in Requests
      /\ store[pageTask.what] = "sending"
  BY TaskTyped DEF IsNew, Acts, TaskIsRight
<1>1. PICK r0 \in Requests : r0 = pageTask.what BY <1>0
<1>2. /\ store \in [Requests -> Pages!Statuses] /\ given \in [Requests -> Nat] /\ given[r0] = 0 /\ Confirmed(r0)
      /\ store[r0] = "sending"
  BY <1>0, <1>1 DEF PagesInv, PagesAreTyped, RequestIsRight
<1>3. PICK outcome \in {"failed", "sent", "archive_failed", "unknown"} : \E k \in {0, 1} :
        /\ outcome = "failed" => k = 0
        /\ store' = [store EXCEPT ![r0] = outcome] /\ given' = [given EXCEPT ![r0] = @ + k]
        /\ Pages!Ends(IF outcome \in Pages!Fine THEN "ok" ELSE "failed")
  BY <1>1
<1>4. PICK k \in {0, 1} :
        /\ outcome = "failed" => k = 0
        /\ store' = [store EXCEPT ![r0] = outcome] /\ given' = [given EXCEPT ![r0] = @ + k]
        /\ Pages!Ends(IF outcome \in Pages!Fine THEN "ok" ELSE "failed")
  BY <1>3
<1>5. PICK said \in {"ok", "failed"} : Pages!Ends(said) BY <1>4
<1>6. PICK t \in PageTasks : t = [pageTask EXCEPT !.at = "done", !.result = said] /\ ~IsNew(t) /\ TaskIsRight(t)'
  BY <1>0, EndsTask
<1>7. pageTask' = t BY <1>5, <1>6 DEF Pages!Ends
<1>8. store'[r0] = outcome /\ given'[r0] = k /\ given' \in [Requests -> Nat]
    /\ \A r \in Requests \ {r0} : given'[r] = given[r]
  BY <1>2, <1>4
<1>9. RequestIsRight(r0)' BY <1>2, <1>4, <1>8 DEF RequestIsRight, Confirmed
<1>10. store' \in [Requests -> Pages!Statuses] /\ CancelKept /\ \A r \in Requests : RequestIsRight(r)'
  BY <1>2, <1>4, <1>8, <1>9, OneRequest DEF Pages!Statuses
<1> QED BY <1>0, <1>6, <1>7, <1>8, <1>10, PoolOn

\* A reading that goes on to a writing, and one that ends there.
LEMMA MarkReadsStep == ASSUME PagesInv, Pages!MarkReads PROVE PagesInv' /\ CancelKept
<1> USE DEF Pages!MarkReads, Pages!Shown, Pages!storeVars, Pages!pendingVars, Pages!recoveryVars, Pages!Runs,
    Pages!Tells, Pages!Target
<1>0. pageTask.kind \in {"sent", "not_sent"} /\ pageTask.kind \in Acts /\ IsNew(pageTask)
    /\ pageTask.what \in Requests
  BY TaskTyped DEF IsNew, Acts, TaskIsRight
<1>1. store' \in [Requests -> Pages!Statuses] /\ given' \in [Requests -> Nat]
    /\ (\A r \in Requests : RequestIsRight(r)') /\ CancelKept
  BY RequestsWait DEF PagesInv, PagesAreTyped, Waits
<1>2. CASE Pages!Goes("marks") /\ store[pageTask.what] \in {"unknown", "archive_failed"}
  <2>1. PICK t \in PageTasks : /\ t = [pageTask EXCEPT !.at = "marks"] /\ t.at = "marks" /\ t.kind = pageTask.kind
                               /\ t.what = pageTask.what /\ ~IsNew(t)
    BY MovesOnTask
  <2>2. pageTask' = t BY <1>2, <2>1 DEF Pages!Goes
  <2>3. TaskIsRight(t)' BY <1>0, <1>2, <2>1 DEF TaskIsRight
  <2> QED BY <1>0, <1>1, <2>1, <2>2, <2>3, PoolOn
<1>3. CASE Pages!Ends("failed")
  <2>1. PICK t \in PageTasks : t = [pageTask EXCEPT !.at = "done", !.result = "failed"] /\ ~IsNew(t)
      /\ TaskIsRight(t)'
    BY <1>0, EndsTask
  <2>2. pageTask' = t BY <1>3, <2>1 DEF Pages!Ends
  <2> QED BY <1>0, <1>1, <2>1, <2>2, PoolOn
<1> QED BY <1>2, <1>3

LEMMA MarkWritesStep == ASSUME PagesInv, Pages!MarkWrites PROVE PagesInv' /\ CancelKept
<1> USE DEF Pages!MarkWrites, Pages!Shown, Pages!pendingVars, Pages!recoveryVars, Pages!Target
<1>0. /\ pageTask.kind \in {"sent", "not_sent"} /\ pageTask.kind \in Acts /\ ~IsNew(pageTask)
         /\ pageTask.what \in Requests
      /\ store[pageTask.what] \in {"unknown", "archive_failed", "reconciled"}
  BY TaskTyped DEF IsNew, Acts, TaskIsRight
<1>1. PICK r0 \in Requests : r0 = pageTask.what BY <1>0
<1>2. /\ store \in [Requests -> Pages!Statuses] /\ given' \in [Requests -> Nat] /\ RequestIsRight(r0) /\ Confirmed(r0)
  BY <1>0, <1>1 DEF PagesInv, PagesAreTyped, RequestIsRight
<1>3. PICK s \in {"archive_failed", "reconciled", "not_sent"} :
        /\ store' = [store EXCEPT ![r0] = s]
        /\ \/ pageTask.kind = "sent" /\ s = "archive_failed" /\ Pages!Goes("archives")
           \/ Pages!Ends("ok")
  BY <1>1
<1>4. store'[r0] = s BY <1>2, <1>3
<1>5. RequestIsRight(r0)' BY <1>2, <1>4 DEF RequestIsRight, Confirmed
<1>6. store' \in [Requests -> Pages!Statuses] /\ CancelKept /\ \A r \in Requests : RequestIsRight(r)'
  BY <1>0, <1>1, <1>3, <1>5, OneRequest DEF Pages!Statuses
<1>7. CASE pageTask.kind = "sent" /\ s = "archive_failed" /\ Pages!Goes("archives")
  <2>1. PICK t \in PageTasks : /\ t = [pageTask EXCEPT !.at = "archives"] /\ t.at = "archives"
                                  /\ t.kind = pageTask.kind
                               /\ t.what = pageTask.what /\ ~IsNew(t)
    BY MovesOnTask
  <2>2. pageTask' = t BY <1>7, <2>1 DEF Pages!Goes
  <2>3. TaskIsRight(t)' BY <1>0, <1>1, <1>4, <1>7, <2>1 DEF TaskIsRight
  <2> QED BY <1>0, <1>2, <1>6, <2>1, <2>2, <2>3, PoolOn
<1>8. CASE Pages!Ends("ok")
  <2>1. PICK t \in PageTasks : t = [pageTask EXCEPT !.at = "done", !.result = "ok"] /\ ~IsNew(t) /\ TaskIsRight(t)'
    BY <1>0, EndsTask
  <2>2. pageTask' = t BY <1>8, <2>1 DEF Pages!Ends
  <2> QED BY <1>0, <1>2, <1>6, <2>1, <2>2, PoolOn
<1> QED BY <1>3, <1>7, <1>8

LEMMA MarkArchivesStep == ASSUME PagesInv, Pages!MarkArchives PROVE PagesInv' /\ CancelKept
<1> USE DEF Pages!MarkArchives, Pages!Shown, Pages!pendingVars, Pages!recoveryVars, Pages!Target
<1>0. pageTask.kind \in Acts /\ ~IsNew(pageTask) /\ pageTask.what \in Requests
  BY TaskTyped DEF IsNew, Acts, TaskIsRight
<1>1. PICK t \in PageTasks : t = [pageTask EXCEPT !.at = "done", !.result = "ok"] /\ ~IsNew(t) /\ TaskIsRight(t)'
  BY <1>0, EndsTask
<1>2. pageTask' = t /\ given' \in [Requests -> Nat] BY <1>1 DEF Pages!Ends, PagesInv, PagesAreTyped
<1>3. store' \in [Requests -> Pages!Statuses] /\ CancelKept /\ \A r \in Requests : RequestIsRight(r)'
  <2>1. CASE UNCHANGED store BY <2>1, RequestsWait DEF PagesInv, PagesAreTyped, Waits
  <2>2. CASE store[pageTask.what] = "archive_failed" /\ store' = [store EXCEPT ![pageTask.what] = "sent"]
    <3>1. PICK r0 \in Requests : r0 = pageTask.what BY <1>0
    <3>2. RequestIsRight(r0) /\ Confirmed(r0) BY <2>2, <3>1 DEF PagesInv, RequestIsRight
    <3>3. store' = [store EXCEPT ![r0] = "sent"] /\ store'[r0] = "sent" BY <2>2, <3>1 DEF PagesInv, PagesAreTyped
    <3>4. RequestIsRight(r0)' BY <3>2, <3>3 DEF RequestIsRight, Confirmed
    <3> QED BY <2>2, <3>1, <3>3, <3>4, OneRequest DEF Pages!Statuses
  <2> QED BY <2>1, <2>2
<1> QED BY <1>0, <1>1, <1>2, <1>3, PoolOn

LEMMA CloneReadsStep == ASSUME PagesInv, Pages!CloneReads PROVE PagesInv' /\ CancelKept
<1> USE DEF Pages!CloneReads, Pages!Shown, Pages!storeVars, Pages!pendingVars, Pages!recoveryVars, Pages!Runs,
    Pages!Tells, Pages!Target
<1>0. pageTask.kind = "clone" /\ pageTask.kind \in Acts /\ IsNew(pageTask) /\ pageTask.what \in Requests
  BY TaskTyped DEF IsNew, Acts, TaskIsRight
<1>1. store' \in [Requests -> Pages!Statuses] /\ given' \in [Requests -> Nat]
    /\ (\A r \in Requests : RequestIsRight(r)') /\ CancelKept
  BY RequestsWait DEF PagesInv, PagesAreTyped, Waits
<1>2. CASE Pages!Goes("clones")
  <2>1. PICK t \in PageTasks : /\ t = [pageTask EXCEPT !.at = "clones"] /\ t.at = "clones" /\ t.kind = pageTask.kind
                               /\ t.what = pageTask.what /\ ~IsNew(t)
    BY MovesOnTask
  <2>2. pageTask' = t BY <1>2, <2>1 DEF Pages!Goes
  <2>3. TaskIsRight(t)' BY <1>0, <2>1 DEF TaskIsRight
  <2> QED BY <1>0, <1>1, <2>1, <2>2, <2>3, PoolOn
<1>3. CASE Pages!Ends("failed")
  <2>1. PICK t \in PageTasks : t = [pageTask EXCEPT !.at = "done", !.result = "failed"] /\ ~IsNew(t)
      /\ TaskIsRight(t)'
    BY <1>0, EndsTask
  <2>2. pageTask' = t BY <1>3, <2>1 DEF Pages!Ends
  <2> QED BY <1>0, <1>1, <2>1, <2>2, PoolOn
<1> QED BY <1>2, <1>3

LEMMA CloneCreatesStep == ASSUME Pages!Known, PagesInv, Pages!CloneCreates PROVE PagesInv' /\ CancelKept
<1> USE DEF Pages!CloneCreates, Pages!CloneStatus, Pages!Shown, Pages!pendingVars, Pages!recoveryVars
<1>0. pageTask.kind \in Acts /\ ~IsNew(pageTask) BY TaskTyped DEF IsNew, Acts, TaskIsRight
<1>1. store' \in [Requests -> Pages!Statuses] /\ \A r \in Requests : Waits(r)
  <2>1. UNCHANGED store => store' \in [Requests -> Pages!Statuses] /\ \A r \in Requests : Waits(r)
    BY DEF PagesInv, PagesAreTyped, Waits
  <2> QED BY <2>1, NewWaits
<1>2. given' \in [Requests -> Nat] /\ CancelKept /\ \A r \in Requests : RequestIsRight(r)'
  BY <1>1, RequestsWait DEF PagesInv, PagesAreTyped
<1>3. PICK said \in {"ok", "failed"} : Pages!Ends(said) OBVIOUS
<1>4. PICK t \in PageTasks : t = [pageTask EXCEPT !.at = "done", !.result = said] /\ ~IsNew(t) /\ TaskIsRight(t)'
  BY <1>0, EndsTask
<1>5. pageTask' = t BY <1>3, <1>4 DEF Pages!Ends
<1> QED BY <1>0, <1>1, <1>2, <1>4, <1>5, PoolOn

LEMMA FinishesListStep == ASSUME PagesInv, Pages!FinishesList PROVE PagesInv' /\ CancelKept
<1> USE DEF Pages!FinishesList, Pages!storeVars, Pages!recoveryVars, Pages!ghosts
<1>1. ~IsNew(pageTask) /\ pageTask.snap \subseteq Requests BY TaskTyped DEF IsNew, TaskIsRight
<1>2. PagesAreTyped' /\ Pages!DetailIsKnown' BY <1>1 DEF PagesInv, PagesAreTyped, Pages!DetailIsKnown
<1>3. \E t \in PageTasks : pageTask' = t /\ ~IsNew(t) /\ TaskIsRight(t) BY TaskOfIs
<1> QED BY <1>1, <1>2, <1>3, PagesTurn DEF Waits

LEMMA FinishesConfirmStep == ASSUME PagesInv, Pages!FinishesConfirm PROVE PagesInv' /\ CancelKept
<1> USE DEF Pages!FinishesConfirm, Pages!storeVars, Pages!recoveryVars, Pages!ghosts
<1>1. ~IsNew(pageTask) BY DEF IsNew
<1>2. PagesAreTyped' /\ Pages!DetailIsKnown' BY DEF PagesInv, PagesAreTyped, Pages!DetailIsKnown, Pages!LeavesDetail
<1>3. \E t \in PageTasks : pageTask' = t /\ ~IsNew(t) /\ TaskIsRight(t) BY TaskOfIs
<1> QED BY <1>1, <1>2, <1>3, PagesTurn DEF Waits

LEMMA FinishesRecoveryStep == ASSUME Pages!Known, PagesInv, Pages!FinishesRecovery PROVE PagesInv' /\ CancelKept
<1> USE DEF Pages!FinishesRecovery, Pages!RefreshesWindow, Pages!ghosts
<1>1. ~IsNew(pageTask) /\ pageTask.snap \subseteq Requests \X Pages!Statuses BY TaskTyped DEF IsNew, TaskIsRight
<1>2. DOMAIN kept' \subseteq Requests
  <2>1. DOMAIN kept' = {line[1] : line \in pageTask.snap} OBVIOUS
  <2> QED BY <1>1, <2>1
<1>3. DOMAIN kept' # {} => Pages!Max(DOMAIN kept') \in DOMAIN kept'
  <2>1. IsFiniteSet(Requests) /\ Requests \in SUBSET Nat BY DEF Pages!Known, Pages!IsFiniteSet, IsFiniteSet
  <2>2. IsFiniteSet(DOMAIN kept') /\ DOMAIN kept' \in SUBSET Nat BY <1>2, <2>1, FS_Subset
  <2> QED BY <2>2, TheGreatest
<1>4. chosen' \in Requests \cup {0} /\ armed' \subseteq Acts
  BY <1>2, <1>3 DEF Pages!Armed, Acts
<1>5. store' \in [Requests -> Pages!Statuses] /\ (\A r \in Requests : Waits(r)) /\ pending' \subseteq Requests
  BY ExpiredWaits DEF Waits
<1>6. PagesAreTyped' /\ Pages!DetailIsKnown' BY <1>2, <1>4, <1>5 DEF PagesInv, PagesAreTyped, Pages!DetailIsKnown
<1>7. \E t \in PageTasks : pageTask' = t /\ ~IsNew(t) /\ TaskIsRight(t) BY TaskOfIs
<1> QED BY <1>1, <1>5, <1>6, <1>7, PagesTurn

LEMMA FinishesActionStep == ASSUME PagesInv, Pages!FinishesAction PROVE PagesInv' /\ CancelKept
<1> USE DEF Pages!FinishesAction, Pages!RefreshesWindow, Pages!ghosts
<1>1. ~IsNew(pageTask) BY DEF IsNew
<1>2. store' \in [Requests -> Pages!Statuses] /\ (\A r \in Requests : Waits(r)) /\ pending' \subseteq Requests
  BY ExpiredWaits DEF Waits
<1>3. armed' \subseteq Acts BY DEF PagesInv, PagesAreTyped, Acts
<1>4. PagesAreTyped' /\ Pages!DetailIsKnown' BY <1>2, <1>3 DEF PagesInv, PagesAreTyped, Pages!DetailIsKnown
<1>5. \E t \in PageTasks : pageTask' = t /\ ~IsNew(t) /\ TaskIsRight(t) BY TaskOfIs
<1> QED BY <1>1, <1>2, <1>4, <1>5, PagesTurn

\* Every step keeps the invariant, and what was cancelled.
LEMMA PagesActs == ASSUME Pages!Known, PagesInv, [Pages!Next]_(Pages!vars) PROVE PagesInv' /\ CancelKept
<1>1. CASE UNCHANGED Pages!vars
  <2>1. PagesAreTyped' /\ Pages!DetailIsKnown'
    BY <1>1 DEF PagesInv, PagesAreTyped, Pages!DetailIsKnown, Pages!vars, Pages!storeVars, Pages!pendingVars,
                Pages!recoveryVars, Pages!ghosts
  <2> QED BY <1>1, <2>1, PagesTurn
      DEF Waits, Pages!vars, Pages!storeVars, Pages!pendingVars, Pages!recoveryVars, Pages!ghosts
<1>2. CASE Pages!Others BY <1>2, SubmitsStep, TimePassesStep, ObservesCopyStep DEF Pages!Others
<1>3. CASE Pages!Owner
  BY <1>3, RefreshesStep, OpensRowStep, PicksStep, AsksToConfirmStep, AsksRecoveryStep, SaysNoStep, SaysYesStep,
     CancelsStep
  DEF Pages!Owner
<1>4. CASE Pages!Pool
  BY <1>4, ListsStep, ConfirmsStep, SendsStep, MarkReadsStep, MarkWritesStep, MarkArchivesStep, CloneReadsStep,
     CloneCreatesStep
  DEF Pages!Pool
<1>5. CASE Pages!Finishes
  BY <1>5, FinishesListStep, FinishesConfirmStep, FinishesRecoveryStep, FinishesActionStep DEF Pages!Finishes
<1> QED BY <1>1, <1>2, <1>3, <1>4, <1>5 DEF Pages!Next

\* What the invariant says of the properties.
LEMMA PagesSafe ==
  ASSUME PagesInv
  PROVE  Pages!TypeOK /\ Pages!OnlyAskedIsDone /\ Pages!OnlyConfirmedIsSent /\ Pages!DetailIsKnown
<1>1. Len(question) <= 1
  <2>1. CASE question = <<>> BY <2>1
  <2>2. CASE \E q \in Answers : question = <<q>> BY <2>2
  <2> QED BY <2>1, <2>2 DEF PagesInv, PagesAreTyped
<1>2. Pages!TypeOK BY <1>1 DEF PagesInv, PagesAreTyped, Pages!TypeOK
<1>3. asked \in Seq(Answers) /\ requested \in Seq(Answers) /\ DOMAIN requested = 1..Len(requested)
    /\ DOMAIN asked = 1..Len(asked)
  BY DEF PagesInv, PagesAreTyped
<1>4. Pages!OnlyAskedIsDone
  <2>1. Len(asked) = Len(requested) + 1 \/ Len(asked) = Len(requested) BY TaskTyped DEF AnswersAreTaken
  <2>2. Len(requested) <= Len(asked) BY <2>1, TaskTyped
  <2>3. \A k \in 1..Len(requested) : requested[k] = asked[k] BY TaskTyped DEF AnswersAreTaken
  <2> QED BY <1>3, <2>2, <2>3 DEF Pages!OnlyAskedIsDone
<1>5. Pages!OnlyConfirmedIsSent BY <1>3 DEF PagesInv, RequestIsRight, Confirmed, Pages!OnlyConfirmedIsSent
<1> QED BY <1>2, <1>4, <1>5 DEF PagesInv

-----------------------------------------------------------------------------
(* GmailReceive: a round handles what it listed, labels are what was seen.  *)

Msgs == Gmail!Msgs
Busy == {"get", "process", "labels", "clear", "fail"}
Scans ==
  [at : Busy \cup {"idle", "discover", "list", "each"}, rescan : BOOLEAN,
   left : {<<>>, <<"INBOX">>, <<"SENT">>, <<"INBOX", "SENT">>}, last : 0..Messages, n : Nat, todo : Seq(Msgs),
   m : 0..Messages, got : SUBSET Gmail!Labels, partial : BOOLEAN,
   told : {"", "clean", "truncated", "partial", "cancelled", "failed"}, must : SUBSET Msgs, handled : SUBSET Msgs]

GmailIsTyped ==
  /\ backend \in {"gmail_api", "imap"} /\ arrived \in 0..Messages /\ recent \subseteq Msgs
  /\ labels \in [Msgs -> SUBSET Gmail!Labels] /\ member \in [Msgs -> SUBSET Gmail!Labels]
  /\ seen \in [Msgs -> SUBSET Gmail!Labels] /\ mailboxes \subseteq Gmail!Labels
  /\ verdict \in [Msgs -> {"none", "refused", "partial", "ready"}]
  /\ rows \in [Msgs -> 0..MaxAttempts] /\ due \subseteq Msgs /\ torn \subseteq Msgs
  /\ \A x \in Msgs : x > arrived => labels[x] = {}

ScanIsPlaced(s) ==
  /\ IF s.at \in Busy THEN s.m \in Msgs ELSE s.m = 0
  /\ s.at = "idle" => s.todo = <<>> /\ s.left = <<>>
  /\ s.at = "discover" => s.must = {} /\ s.todo = <<>>
  /\ Gmail!Api /\ s.rescan => s.todo = <<>> /\ s.at # "each" /\ (s.n = 0 => s.last = 0)

\* What a label still has to give to a rescan.
Rest(s) ==
  IF Gmail!Api /\ s.rescan /\ s.left # <<>>
  THEN {x \in Msgs : Head(s.left) \in labels[x] /\ (s.last = 0 \/ x < s.last)} ELSE {}
Ahead(s) == Gmail!ToSet(s.todo) \cup {s.m} \cup Rest(s)

MustIsAhead(s) ==
  (s.told = "clean" \/ ~s.rescan) /\ ~(s.at \in {"list", "discover"} /\ ~s.rescan) =>
    s.must \subseteq s.handled \cup Ahead(s)

HandledIsRight(s) == \A x \in s.handled : x = s.m \/ Gmail!Settled(x) \/ rows[x] > 0

\* What is known of the message that is worked on.
WorkIsRight(s) ==
  /\ s.at \in {"process", "labels", "clear"} => s.m \in torn
  /\ s.at \in {"process", "labels"} /\ Gmail!Api => s.got = seen[s.m]
  /\ s.at = "labels" => verdict[s.m] = IF s.partial THEN "partial" ELSE "ready"
  /\ s.at = "clear" => Gmail!Settled(s.m) /\ (Gmail!Api /\ verdict[s.m] = "ready" => member[s.m] = seen[s.m])

LabelsAreSeen ==
  Gmail!Api => \A x \in Msgs : verdict[x] = "ready" /\ rows[x] = 0 /\ x \notin torn => member[x] = seen[x]

ScanIsRight(s) == ScanIsPlaced(s) /\ MustIsAhead(s) /\ HandledIsRight(s) /\ WorkIsRight(s)
GmailInv == GmailIsTyped /\ scan \in Scans /\ ScanIsRight(scan) /\ LabelsAreSeen

-----------------------------------------------------------------------------
Ranked(s, S) == s \in Seq(S) /\ (\A j, k \in 1..Len(s) : j < k => s[j] < s[k]) /\ Gmail!ToSet(s) = S

\* The elements of a sequence.
LEMMA ToSetIs ==
  ASSUME NEW S, NEW s \in Seq(S)
  PROVE  Gmail!ToSet(s) = {s[j] : j \in 1..Len(s)} /\ Gmail!ToSet(s) \subseteq S
<1>1. DOMAIN s = 1..Len(s) /\ \A j \in 1..Len(s) : s[j] \in S BY LenProperties, ElementOfSeq
<1>2. Gmail!ToSet(s) = {s[j] : j \in 1..Len(s)} BY <1>1 DEF Gmail!ToSet
<1> QED BY <1>1, <1>2

\* ... of one that grows by one
LEMMA ToSetAppend ==
  ASSUME NEW S, NEW s \in Seq(S), NEW x \in S
  PROVE  Append(s, x) \in Seq(S) /\ Gmail!ToSet(Append(s, x)) = Gmail!ToSet(s) \cup {x}
<1>1. PICK a : a = Append(s, x) OBVIOUS
<1>2. /\ a \in Seq(S) /\ Len(s) \in Nat /\ Len(a) = Len(s) + 1 /\ a[Len(s) + 1] = x
      /\ \A j \in 1..Len(s) : a[j] = s[j]
  BY <1>1, AppendProperties, LenProperties
<1>3. {a[j] : j \in 1..Len(a)} = {s[j] : j \in 1..Len(s)} \cup {x} BY <1>2
<1>4. Gmail!ToSet(a) = {a[j] : j \in 1..Len(a)} /\ Gmail!ToSet(s) = {s[j] : j \in 1..Len(s)} BY <1>2, ToSetIs
<1> QED BY <1>1, <1>2, <1>3, <1>4

\* A finite set of numbers can be listed in rising order: a least one that could not
\* would be without its greatest, which could be put behind the list of the rest.
LEMMA CanBeRanked ==
  ASSUME NEW S \in SUBSET Nat, IsFiniteSet(S)
  PROVE  \E s : Ranked(s, S)
<1> DEFINE Unranked == {T \in SUBSET S : ~ \E s : Ranked(s, T)}
<1>1. Unranked = {}
  <2>1. ASSUME Unranked # {} PROVE FALSE
    <3> HIDE DEF Unranked
    <3>0. IsWellFoundedOn(StrictSubsetOrdering(S), SUBSET S) /\ Unranked \subseteq SUBSET S
      BY FS_StrictSubsetOrderingWellFounded, FS_FiniteSubsetsOfFinite DEF Unranked
    <3>1. PICK T \in Unranked : \A U \in Unranked : ~ (<<U, T>> \in StrictSubsetOrdering(S))
      BY <2>1, <3>0, WFMin, Zenon
    <3>2. T \in SUBSET S /\ ~ \E s : Ranked(s, T) BY <3>1 DEF Unranked
    <3>3. IsFiniteSet(T) /\ T \in SUBSET Nat BY <3>2, FS_Subset
    <3>4. CASE T = {}
      <4>1. PICK e : e = <<>> OBVIOUS
      <4>2. e \in Seq(T) /\ Len(e) = 0 BY <4>1, EmptySeq
      <4>4. Gmail!ToSet(e) = {e[j] : j \in 1..Len(e)} BY <4>2, ToSetIs
      <4>5. Gmail!ToSet(e) = {} BY <4>2, <4>4
      <4>3. Ranked(e, T) BY <3>4, <4>2, <4>5 DEF Ranked
      <4> QED BY <3>2, <4>3
    <3>5. CASE T # {}
      <4>1. PICK x \in T : \A j \in T : j <= x BY <3>3, <3>5, HasGreatest
      <4>2. PICK U : U = T \ {x} OBVIOUS
      <4>3. <<U, T>> \in StrictSubsetOrdering(S) BY <3>2, <4>1, <4>2 DEF StrictSubsetOrdering
      <4>4. U \notin Unranked BY <3>1, <4>3
      <4>5. U \in SUBSET S /\ U \subseteq T BY <3>2, <4>2
      <4>6. PICK s : Ranked(s, U) BY <4>4, <4>5 DEF Unranked
      <4>7. s \in Seq(U) /\ s \in Seq(T) BY <4>5, <4>6, SeqMonotonic DEF Ranked
      <4>8. PICK a : a = Append(s, x) OBVIOUS
      <4>13. a \in Seq(T) /\ Gmail!ToSet(a) = Gmail!ToSet(s) \cup {x} BY <4>1, <4>7, <4>8, ToSetAppend
      <4>14. Gmail!ToSet(s) = U BY <4>6 DEF Ranked
      <4>9. a \in Seq(T) /\ Gmail!ToSet(a) = T BY <4>1, <4>2, <4>13, <4>14
      <4>10. /\ Len(s) \in Nat /\ Len(a) = Len(s) + 1 /\ a[Len(s) + 1] = x
             /\ \A j \in 1..Len(s) : a[j] = s[j] /\ s[j] \in U
        BY <4>7, <4>8, AppendProperties, LenProperties, ElementOfSeq
      <4>11. ASSUME NEW j \in 1..Len(a), NEW k \in 1..Len(a), j < k PROVE a[j] < a[k]
        <5>1. j \in 1..Len(s) BY <4>10, <4>11
        <5>2. CASE k \in 1..Len(s) BY <5>1, <5>2, <4>6, <4>10, <4>11 DEF Ranked
        <5>3. CASE k = Len(s) + 1
          <6>1. a[j] \in U /\ a[k] = x BY <5>1, <5>3, <4>10
          <6>2. a[j] \in Nat /\ x \in Nat /\ a[j] <= x /\ a[j] # x BY <6>1, <3>3, <4>1, <4>2
          <6> QED BY <6>1, <6>2
        <5> QED BY <5>2, <5>3, <4>10
      <4>12. Ranked(a, T) BY <4>9, <4>11 DEF Ranked
      <4> QED BY <3>2, <4>12
    <3> QED BY <3>4, <3>5
  <2> QED BY <2>1
<1> QED BY <1>1

\* ... and so the choice of such a list is one, of the elements of the set.
LEMMA Rising ==
  ASSUME NEW S \in SUBSET Nat, IsFiniteSet(S)
  PROVE  /\ Gmail!Ascending(S) \in Seq(S) /\ Gmail!ToSet(Gmail!Ascending(S)) = S
<1> DEFINE D == 1..Cardinality(S)
<1>1. PICK s : Ranked(s, S) BY CanBeRanked
<1>2. s \in Seq(S) /\ Len(s) \in Nat /\ (\A j, k \in 1..Len(s) : j < k => s[j] < s[k]) /\ Gmail!ToSet(s) = S
  BY <1>1, LenProperties DEF Ranked
<1>3. s \in [1..Len(s) -> S] /\ \A j \in 1..Len(s) : s[j] \in Nat BY <1>2, LenProperties, ElementOfSeq
<1>4. \A j, k \in 1..Len(s) : j # k => s[j] # s[k]
  <2>1. ASSUME NEW j \in 1..Len(s), NEW k \in 1..Len(s), j # k PROVE s[j] # s[k]
    <3>1. CASE j < k BY <3>1, <1>2, <1>3
    <3>2. CASE k < j BY <3>2, <1>2, <1>3
    <3> QED BY <2>1, <3>1, <3>2, <1>2
  <2> QED BY <2>1
<1>5. Len(s) = Cardinality(S)
  <2>1. {s[j] : j \in 1..Len(s)} = S BY <1>2, ToSetIs
  <2>2. s \in Bijection(1..Len(s), S)
    <3>1. s \in Injection(1..Len(s), S) BY <1>3, <1>4 DEF Injection, IsInjective
    <3>2. s \in Surjection(1..Len(s), S) BY <1>3, <2>1 DEF Surjection
    <3> QED BY <3>1, <3>2 DEF Bijection
  <2>5. PICK k \in Nat : k = Len(s) BY <1>2
  <2>6. IsFiniteSet(1..k) /\ Cardinality(1..k) = IF 1 > k THEN 0 ELSE k - 1 + 1 BY FS_Interval
  <2>3. IsFiniteSet(1..Len(s)) /\ Cardinality(1..Len(s)) = Len(s) BY <2>5, <2>6
  <2>4. ExistsBijection(1..Len(s), S) BY <2>2 DEF ExistsBijection
  <2> QED BY <2>3, <2>4, FS_Bijection
<1>6. Gmail!Cardinality(S) = Cardinality(S) BY DEF Gmail!Cardinality, Cardinality
<1>7. s \in Gmail!SetToSeqs(S) BY <1>3, <1>4, <1>5, <1>6 DEF Gmail!SetToSeqs
<1>8. PICK t : t = Gmail!Ascending(S) OBVIOUS
<1>9. t \in Gmail!SetToSeqs(S) BY <1>2, <1>7, <1>8 DEF Gmail!Ascending
<1>10. t \in [1..Len(s) -> S] /\ \A j, k \in 1..Len(s) : j # k => t[j] # t[k]
  BY <1>9, <1>5, <1>6 DEF Gmail!SetToSeqs
<1>11. t \in Seq(S) /\ Len(t) = Len(s) BY <1>2, <1>10, IsASeq, LenProperties
<1>12. t \in Surjection(1..Len(s), S)
  <2>1. t \in Injection(1..Len(s), S) BY <1>10 DEF Injection, IsInjective
  <2>3. PICK k \in Nat : k = Len(s) BY <1>2
  <2>4. Cardinality(1..k) = IF 1 > k THEN 0 ELSE k - 1 + 1 BY FS_Interval
  <2>2. Cardinality(1..Len(s)) = Cardinality(S) BY <1>5, <2>3, <2>4
  <2> QED BY <2>1, <2>2, FS_Injection
<1>13. S \subseteq {t[j] : j \in 1..Len(s)} BY <1>12 DEF Surjection
<1>15. Gmail!ToSet(t) = {t[j] : j \in 1..Len(t)} /\ Gmail!ToSet(t) \subseteq S BY <1>11, ToSetIs
<1>14. Gmail!ToSet(t) = S BY <1>11, <1>13, <1>15
<1> QED BY <1>8, <1>11, <1>14

\* ... of one that is taken up from its head
LEMMA ToSetOf ==
  ASSUME NEW S, NEW s \in Seq(S), s # <<>>
  PROVE  Head(s) \in S /\ Tail(s) \in Seq(S) /\ Gmail!ToSet(s) = {Head(s)} \cup Gmail!ToSet(Tail(s))
<1>1. PICK t : t = Tail(s) OBVIOUS
<1>2. /\ Head(s) \in S /\ t \in Seq(S) /\ Len(s) \in Nat /\ Len(s) > 0 /\ Len(t) = Len(s) - 1
      /\ Head(s) = s[1] /\ \A j \in 1..Len(t) : t[j] = s[j + 1]
  <2>1. Len(s) \in Nat /\ Len(s) # 0 BY EmptySeq, LenProperties
  <2>2. Head(s) \in S /\ t \in Seq(S) /\ Len(t) = Len(s) - 1 /\ \A j \in 1..Len(t) : t[j] = s[j + 1]
    BY <1>1, HeadTailProperties
  <2> QED BY <2>1, <2>2
<1>3. {s[j] : j \in 1..Len(s)} = {s[1]} \cup {t[j] : j \in 1..Len(t)}
  <2>1. ASSUME NEW j \in 1..Len(s), j # 1 PROVE s[j] \in {t[k] : k \in 1..Len(t)}
    <3>1. j - 1 \in 1..Len(t) /\ t[j - 1] = s[j] BY <2>1, <1>2
    <3> QED BY <3>1
  <2>2. ASSUME NEW j \in 1..Len(t) PROVE t[j] \in {s[k] : k \in 1..Len(s)}
    <3>1. j + 1 \in 1..Len(s) /\ t[j] = s[j + 1] BY <2>2, <1>2
    <3> QED BY <3>1
  <2>3. 1 \in 1..Len(s) BY <1>2
  <2> QED BY <2>1, <2>2, <2>3
<1>4. Gmail!ToSet(s) = {s[j] : j \in 1..Len(s)} /\ Gmail!ToSet(t) = {t[j] : j \in 1..Len(t)} BY <1>2, ToSetIs
<1> QED BY <1>1, <1>2, <1>3, <1>4

\* ... and of two.
LEMMA ToSetBoth ==
  ASSUME NEW S, NEW s \in Seq(S), NEW t \in Seq(S)
  PROVE  s \o t \in Seq(S) /\ Gmail!ToSet(s \o t) = Gmail!ToSet(s) \cup Gmail!ToSet(t)
<1>1. PICK b : b = s \o t OBVIOUS
<1>2. /\ b \in Seq(S) /\ Len(s) \in Nat /\ Len(t) \in Nat /\ Len(b) = Len(s) + Len(t)
      /\ \A j \in 1..Len(b) : b[j] = IF j <= Len(s) THEN s[j] ELSE t[j - Len(s)]
  <2>1. Len(s) \in Nat /\ Len(t) \in Nat BY LenProperties
  <2>2. /\ b \in Seq(S) /\ Len(b) = Len(s) + Len(t)
        /\ \A j \in 1..Len(s) + Len(t) : b[j] = IF j <= Len(s) THEN s[j] ELSE t[j - Len(s)]
    BY <1>1, ConcatProperties
  <2> QED BY <2>1, <2>2
<1>3. ASSUME NEW j \in 1..Len(b) PROVE b[j] \in {s[k] : k \in 1..Len(s)} \cup {t[k] : k \in 1..Len(t)}
  <2>1. CASE j <= Len(s) BY <1>2, <1>3, <2>1
  <2>2. CASE j > Len(s)
    <3>1. j - Len(s) \in 1..Len(t) /\ b[j] = t[j - Len(s)] BY <1>2, <1>3, <2>2
    <3> QED BY <3>1
  <2> QED BY <1>2, <1>3, <2>1, <2>2
<1>4. ASSUME NEW k \in 1..Len(s) PROVE s[k] \in {b[j] : j \in 1..Len(b)}
  <2>1. k \in 1..Len(b) /\ b[k] = s[k] BY <1>2, <1>4
  <2> QED BY <2>1
<1>5. ASSUME NEW k \in 1..Len(t) PROVE t[k] \in {b[j] : j \in 1..Len(b)}
  <2>1. PICK j : j = k + Len(s) OBVIOUS
  <2>2. j \in 1..Len(b) /\ ~ (j <= Len(s)) /\ j - Len(s) = k BY <1>2, <1>5, <2>1
  <2>3. b[j] = t[k] BY <1>2, <2>2
  <2> QED BY <2>2, <2>3
<1>6. Gmail!ToSet(b) = {b[j] : j \in 1..Len(b)} /\ Gmail!ToSet(s) = {s[j] : j \in 1..Len(s)}
  BY <1>2, ToSetIs
<1>7. Gmail!ToSet(t) = {t[j] : j \in 1..Len(t)} BY ToSetIs
<1>8. {b[j] : j \in 1..Len(b)} \subseteq {s[k] : k \in 1..Len(s)} \cup {t[k] : k \in 1..Len(t)} BY ONLY <1>3
<1>9. {s[k] : k \in 1..Len(s)} \cup {t[k] : k \in 1..Len(t)} \subseteq {b[j] : j \in 1..Len(b)} BY ONLY <1>4, <1>5
<1> QED BY <1>1, <1>2, <1>6, <1>7, <1>8, <1>9

\* The retries that are taken are messages.
LEMMA RetriesAre ==
  ASSUME GmailIsTyped, Messages \in Nat, NEW listed, NEW r \in Gmail!Retried(listed)
  PROVE  r \in Seq(Msgs)
<1>1. PICK S \in Gmail!Late : r \in Gmail!SetToSeqs(S \ Gmail!ToSet(listed)) BY DEF Gmail!Retried
<1>2. PICK T : T = S \ Gmail!ToSet(listed) OBVIOUS
<1>3. T \subseteq 1..Messages BY <1>1, <1>2 DEF Gmail!Late, GmailIsTyped, Msgs, Gmail!Msgs
<1>4. IsFiniteSet(T) /\ Cardinality(T) \in Nat
  <2>1. IsFiniteSet(1..Messages) BY FS_Interval
  <2>2. IsFiniteSet(T) BY <1>3, <2>1, FS_Subset
  <2> QED BY <2>2, FS_CardinalityType
<1>5. Gmail!Cardinality(T) = Cardinality(T) BY DEF Gmail!Cardinality, Cardinality
<1>6. r \in [1..Cardinality(T) -> T] BY <1>1, <1>2, <1>5 DEF Gmail!SetToSeqs
<1>7. r \in Seq(T) BY <1>4, <1>6, IsASeq
<1>8. r \in Seq(1..Messages) BY <1>3, <1>7, SeqMonotonic
<1> QED BY <1>8 DEF Msgs, Gmail!Msgs

\* A page has its newest message.
LEMMA TheNewest ==
  ASSUME Messages \in Nat, NEW S \in SUBSET Msgs, S # {}
  PROVE  Gmail!Newest(S) \in S /\ \A k \in S : k <= Gmail!Newest(S)
<1>1. IsFiniteSet(1..Messages) BY FS_Interval
<1>4. S \in SUBSET (1..Messages) BY DEF Msgs, Gmail!Msgs
<1>5. S \in SUBSET Nat BY <1>4
<1>6. IsFiniteSet(S) BY <1>1, <1>4, FS_Subset
<1>2. IsFiniteSet(S) /\ S \in SUBSET Nat BY <1>5, <1>6
<1>3. PICK k \in S : \A j \in S : j <= k BY <1>2, HasGreatest
<1> QED BY <1>3 DEF Gmail!Newest

-----------------------------------------------------------------------------

\* The parts of a round.
LEMMA ScanTyped ==
  ASSUME GmailInv
  PROVE  /\ scan.at \in Busy \cup {"idle", "discover", "list", "each"} /\ scan.rescan \in BOOLEAN
         /\ scan.left \in {<<>>, <<"INBOX">>, <<"SENT">>, <<"INBOX", "SENT">>} /\ scan.last \in 0..Messages
         /\ scan.n \in Nat /\ scan.todo \in Seq(Msgs) /\ scan.m \in 0..Messages /\ scan.got \subseteq Gmail!Labels
         /\ scan.partial \in BOOLEAN /\ scan.must \subseteq Msgs /\ scan.handled \subseteq Msgs
         /\ scan.told \in {"", "clean", "truncated", "partial", "cancelled", "failed"}
         /\ scan \in Scans /\ ScanIsPlaced(scan) /\ MustIsAhead(scan) /\ HandledIsRight(scan) /\ WorkIsRight(scan)
         /\ GmailIsTyped /\ LabelsAreSeen
<1>1. scan \in Scans BY DEF GmailInv
<1> QED BY <1>1 DEF GmailInv, Scans, ScanIsRight

\* The round goes on, and no fact of a message changes.
LEMMA ScanGoesOn ==
  ASSUME GmailInv, NEW s \in Scans, scan' = s, ScanIsRight(s), mailboxes' \subseteq Gmail!Labels,
         UNCHANGED <<backend, labels, arrived, recent, verdict, member, rows, due, seen, torn>>
  PROVE  GmailInv'
<1>1. GmailIsTyped' BY DEF GmailInv, GmailIsTyped
<1>2. ScanIsPlaced(s)' /\ MustIsAhead(s)' /\ HandledIsRight(s)' /\ WorkIsRight(s)'
  BY DEF ScanIsRight, ScanIsPlaced, MustIsAhead, Ahead, Rest, HandledIsRight, WorkIsRight, Gmail!Api, Gmail!Settled
<1>3. LabelsAreSeen' BY DEF GmailInv, LabelsAreSeen, Gmail!Api
<1> QED BY <1>1, <1>2, <1>3 DEF GmailInv, ScanIsRight

\* Nothing is under way: a round that failed, was cancelled or cut off, or one that begins.
LEMMA Nothing ==
  ASSUME Gmail!Known, NEW s,
         \/ \E how \in {"", "failed", "cancelled"} : s = [Gmail!NoScan EXCEPT !.told = how]
         \/ \E rescan \in BOOLEAN : s = [Gmail!NoScan EXCEPT !.at = "discover", !.rescan = rescan]
  PROVE  s \in Scans /\ ScanIsRight(s)
<1>0. PICK z : z = Gmail!NoScan OBVIOUS
<1>1. /\ z.at = "idle" /\ z.rescan = FALSE /\ z.left = <<>> /\ z.last = 0 /\ z.n = 0 /\ z.todo = <<>> /\ z.m = 0
      /\ z.got = {} /\ z.partial = FALSE /\ z.told = "" /\ z.must = {} /\ z.handled = {}
  BY <1>0 DEF Gmail!NoScan
<1>2. <<>> \in Seq(Msgs) BY EmptySeq
<1>9. Messages \in Nat BY DEF Gmail!Known
<1>3. 0 \in 0..Messages /\ 0 \in Nat BY ONLY <1>9
<1>4. z \in Scans BY <1>0, <1>2, <1>3 DEF Gmail!NoScan, Scans
<1>5. CASE \E how \in {"", "failed", "cancelled"} : s = [Gmail!NoScan EXCEPT !.told = how]
  <2>1. PICK how \in {"", "failed", "cancelled"} : s = [z EXCEPT !.told = how] BY <1>0, <1>5
  <2>2. s \in Scans BY <1>4, <2>1 DEF Scans
  <2>3. /\ s.at = z.at /\ s.rescan = z.rescan /\ s.left = z.left /\ s.todo = z.todo
        /\ s.m = z.m /\ s.must = z.must /\ s.handled = z.handled
    BY <1>4, <2>1 DEF Scans
  <2> QED BY <1>1, <2>2, <2>3 DEF ScanIsRight, ScanIsPlaced, MustIsAhead, HandledIsRight, WorkIsRight, Busy
<1>6. CASE \E rescan \in BOOLEAN : s = [Gmail!NoScan EXCEPT !.at = "discover", !.rescan = rescan]
  <2>1. PICK rescan \in BOOLEAN : s = [z EXCEPT !.at = "discover", !.rescan = rescan] BY <1>0, <1>6
  <2>2. s \in Scans BY <1>4, <2>1 DEF Scans
  <2>3. /\ s.at = "discover" /\ s.left = z.left /\ s.todo = z.todo /\ s.n = z.n /\ s.last = z.last
        /\ s.m = z.m /\ s.must = z.must /\ s.handled = z.handled
    BY <1>4, <2>1 DEF Scans
  <2> QED BY <1>1, <2>2, <2>3 DEF ScanIsRight, ScanIsPlaced, MustIsAhead, HandledIsRight, WorkIsRight, Busy
<1> QED BY <1>5, <1>6

\* The invariant holds at the start.
LEMMA GmailInit ==
  ASSUME Gmail!Known, Gmail!Init
  PROVE  GmailInv
<1>1. GmailIsTyped
  BY DEF Gmail!Known, Gmail!Init, GmailIsTyped, Msgs, Gmail!Msgs, Gmail!Labels
<1>2. PICK s : s = [Gmail!NoScan EXCEPT !.told = ""] OBVIOUS
<1>3. s = Gmail!NoScan BY <1>2 DEF Gmail!NoScan
<1>4. scan \in Scans /\ ScanIsRight(scan) BY <1>2, <1>3, Nothing DEF Gmail!Init
<1>5. LabelsAreSeen BY DEF Gmail!Init, LabelsAreSeen, Msgs
<1> QED BY <1>1, <1>4, <1>5 DEF GmailInv

\* A round begins or is over.
LEMMA EndsEarly ==
  ASSUME Gmail!Known, GmailInv, UNCHANGED <<backend, labels, arrived, recent, mailboxes, verdict, member, rows, due,
      seen, torn>>,
         \/ \E how \in {"", "failed", "cancelled"} : scan' = [Gmail!NoScan EXCEPT !.told = how]
         \/ \E rescan \in BOOLEAN : scan' = [Gmail!NoScan EXCEPT !.at = "discover", !.rescan = rescan]
  PROVE  GmailInv'
<1>1. PICK s : s = scan' OBVIOUS
<1>2. s \in Scans /\ ScanIsRight(s) BY <1>1, Nothing
<1>3. mailboxes' \subseteq Gmail!Labels BY DEF GmailInv, GmailIsTyped
<1> QED BY <1>1, <1>2, <1>3, ScanGoesOn

\* ... at any time, whatever is under way.
LEMMA RoundsBeginAndBreak ==
  ASSUME Gmail!Known, GmailInv,
         \/ Gmail!BeginsRound \/ Gmail!BeginsRescan \/ Gmail!Unreachable \/ Gmail!ConnectFails \/ Gmail!Cancels
         \/ Gmail!CancelsRange \/ Gmail!Dies
  PROVE  GmailInv'
<1>1. CASE Gmail!BeginsRound
  BY <1>1, EndsEarly
  DEF Gmail!BeginsRound, Gmail!Begin, Gmail!Goes, Gmail!server, Gmail!facts, Gmail!retries, Gmail!ghosts
<1>2. CASE Gmail!BeginsRescan
  BY <1>2, EndsEarly
  DEF Gmail!BeginsRescan, Gmail!Begin, Gmail!Goes, Gmail!server, Gmail!facts, Gmail!retries, Gmail!ghosts
<1>3. CASE Gmail!Unreachable
  BY <1>3, EndsEarly DEF Gmail!Unreachable, Gmail!Goes, Gmail!server, Gmail!facts, Gmail!retries, Gmail!ghosts
<1>4. CASE Gmail!ConnectFails
  BY <1>4, EndsEarly DEF Gmail!ConnectFails, Gmail!Goes, Gmail!server, Gmail!facts, Gmail!retries, Gmail!ghosts
<1>5. CASE Gmail!Cancels
  BY <1>5, EndsEarly DEF Gmail!Cancels, Gmail!Goes, Gmail!server, Gmail!facts, Gmail!retries, Gmail!ghosts
<1>6. CASE Gmail!CancelsRange
  BY <1>6, EndsEarly DEF Gmail!CancelsRange, Gmail!Goes, Gmail!server, Gmail!facts, Gmail!retries, Gmail!ghosts
<1>7. CASE Gmail!Dies
  <2>1. PICK s : s = [Gmail!NoScan EXCEPT !.told = ""] OBVIOUS
  <2>2. s = Gmail!NoScan BY <2>1 DEF Gmail!NoScan
  <2>3. scan' = [Gmail!NoScan EXCEPT !.told = ""] BY <1>7, <2>1, <2>2 DEF Gmail!Dies, Gmail!Goes
  <2> QED BY <1>7, <2>3, EndsEarly DEF Gmail!Dies, Gmail!server, Gmail!facts, Gmail!retries, Gmail!ghosts
<1> QED BY <1>1, <1>2, <1>3, <1>4, <1>5, <1>6, <1>7

Still == UNCHANGED <<backend, labels, arrived, recent, verdict, member, rows, due, seen, torn>>

\* Nothing that is known of the messages depends on where the round is, as long as no message is worked on.
LEMMA WithoutWork ==
  ASSUME NEW s \in Scans, s.at \in {"idle", "discover", "list", "each", "get", "fail"}
  PROVE  WorkIsRight(s)
BY DEF WorkIsRight

\* The labels that exist.
LEMMA LabelsAreLabels ==
  ASSUME GmailIsTyped
  PROVE  Gmail!Exist \subseteq Gmail!Labels
<1>1. \A x \in Msgs : labels[x] \subseteq Gmail!Labels BY DEF GmailIsTyped
<1>2. UNION {labels[x] : x \in Msgs} \subseteq Gmail!Labels BY <1>1
<1> QED BY <1>2 DEF Gmail!Exist, Gmail!Synced, Gmail!Labels, Gmail!INBOX, Gmail!SENT, Msgs

\* Each action keeps the invariant.
LEMMA DiscoversStep ==
  ASSUME GmailInv, Gmail!Discovers \/ Gmail!Connects
  PROVE  GmailInv'
<1> DEFINE Lists(s, left) == s = [scan EXCEPT !.at = "list", !.left = left, !.told = "clean"]
<1>1. PICK left \in {<<"INBOX">>, <<"INBOX", "SENT">>} : Lists(scan', left) /\ scan.at = "discover" /\ Still
  BY DEF Gmail!Discovers, Gmail!Connects, Gmail!Goes, Gmail!At, Gmail!server, Gmail!facts, Gmail!retries,
    Gmail!ghosts,
    Still, Gmail!INBOX, Gmail!SENT
<1>2. PICK s : s = scan' /\ Lists(s, left) BY <1>1
<1>3. s \in Scans BY <1>1, <1>2, ScanTyped DEF Scans
<1>4. /\ s.at = "list" /\ s.rescan = scan.rescan /\ s.todo = scan.todo /\ s.m = scan.m /\ s.n = scan.n
      /\ s.last = scan.last /\ s.must = scan.must /\ s.handled = scan.handled
  BY <1>2, ScanTyped DEF Scans
<1>5. scan.must = {} /\ scan.m = 0 BY <1>1, ScanTyped DEF ScanIsPlaced, Busy
<1>6. ScanIsPlaced(s) BY <1>4, <1>5, ScanTyped, <1>1 DEF ScanIsPlaced, Busy
<1>7. MustIsAhead(s) /\ HandledIsRight(s)
  BY <1>4, <1>5, ScanTyped DEF MustIsAhead, HandledIsRight
<1>8. mailboxes' \subseteq Gmail!Labels
  BY LabelsAreLabels, ScanTyped DEF Gmail!Discovers, Gmail!Connects, GmailIsTyped
<1>9. WorkIsRight(s) BY <1>3, <1>4, WithoutWork
<1> QED BY <1>1, <1>2, <1>3, <1>6, <1>7, <1>8, <1>9, ScanGoesOn DEF Still, ScanIsRight

\* What a label still has to give.
LEMMA PageIs ==
  ASSUME GmailInv, NEW l
  PROVE  Gmail!Page(l) = {x \in Msgs : l \in labels[x] /\ (scan.rescan \/ x \in recent)
      /\ (scan.last = 0 \/ x < scan.last)}
BY DEF Gmail!Page, Gmail!Found, Msgs

\* The next label begins at its first page.
LEMMA NextLabelIs ==
  ASSUME Gmail!Known, GmailInv, scan.left # <<>>, NEW s, s = Gmail!NextLabel(scan)
  PROVE  /\ s \in Scans /\ s.left = Tail(scan.left) /\ s.n = 0 /\ s.last = 0
         /\ s.at = scan.at /\ s.rescan = scan.rescan /\ s.todo = scan.todo /\ s.m = scan.m /\ s.told = scan.told
         /\ s.must = scan.must /\ s.handled = scan.handled
<1>1. PICK t : t = Tail(scan.left) OBVIOUS
<1>2. t \in {<<>>, <<"SENT">>}
  <2>1. CASE scan.left = <<"INBOX">> BY <1>1, <2>1
  <2>2. CASE scan.left = <<"SENT">> BY <1>1, <2>2
  <2>3. CASE scan.left = <<"INBOX", "SENT">> BY <1>1, <2>3
  <2> QED BY <2>1, <2>2, <2>3, ScanTyped
<1>3. s = [scan EXCEPT !.left = t, !.last = 0, !.n = 0] BY <1>1 DEF Gmail!NextLabel
<1>4. Messages \in Nat BY DEF Gmail!Known
<1>5. 0 \in 0..Messages /\ 0 \in Nat BY ONLY <1>4
<1>7. scan \in Scans BY ScanTyped
<1>6. s \in Scans BY ONLY <1>2, <1>3, <1>5, <1>7 DEF Scans
<1> QED BY <1>1, <1>3, <1>6, ScanTyped DEF Scans

\* What is to be handled after a page, at the first one of a label or later.
LEMMA MustIs ==
  ASSUME Gmail!Known, GmailInv, NEW l, l = Head(scan.left), scan.left # <<>>, scan.at = "list", Gmail!Api
  PROVE  /\ Gmail!Must(l) \subseteq Msgs
         /\ scan.rescan /\ scan.told = "clean" => Gmail!Must(l) \subseteq scan.handled \cup Gmail!Page(l)
<1>1. /\ Gmail!Found(l) \subseteq Msgs /\ scan.must \subseteq Msgs /\ scan.last \in 0..Messages /\ scan.m = 0
      /\ Gmail!Page(l) = {x \in Gmail!Found(l) : scan.last = 0 \/ x < scan.last}
  BY ScanTyped DEF Gmail!Found, Gmail!Page, Msgs, ScanIsPlaced, Busy
<1>2. Gmail!Must(l) \subseteq Msgs BY <1>1 DEF Gmail!Must
<1>3. ASSUME scan.rescan, scan.told = "clean" PROVE Gmail!Must(l) \subseteq scan.handled \cup Gmail!Page(l)
  <2>1. scan.todo = <<>> /\ (scan.n = 0 => scan.last = 0) BY <1>3, ScanTyped DEF ScanIsPlaced
  <2>2. Rest(scan) = Gmail!Page(l)
    BY <1>3, PageIs DEF Rest
  <2>3. PICK e : e = scan.todo OBVIOUS
  <2>4. e \in Seq(Msgs) /\ Len(e) = 0 BY <2>1, <2>3, EmptySeq, ScanTyped
  <2>5. Gmail!ToSet(e) = {e[j] : j \in 1..Len(e)} BY <2>4, ToSetIs
  <2>6. Gmail!ToSet(scan.todo) = {} BY <2>3, <2>4, <2>5
  <2>7. scan.must \subseteq scan.handled \cup Ahead(scan) BY <1>3, ScanTyped DEF MustIsAhead
  <2>8. 0 \notin Msgs BY DEF Msgs, Gmail!Msgs
  <2>9. scan.must \subseteq scan.handled \cup Gmail!Page(l) BY <1>1, <2>2, <2>6, <2>7, <2>8 DEF Ahead
  <2>10. scan.n = 0 => Gmail!Found(l) \subseteq Gmail!Page(l) BY <1>1, <2>1
  <2> QED BY <2>9, <2>10 DEF Gmail!Must
<1> QED BY <1>2, <1>3

LEMMA LooksStep ==
  ASSUME Gmail!Known, GmailInv, Gmail!Lists
  PROVE  GmailInv'
<1>1. PICK l : l = Head(scan.left) BY Zenon
<1>2. /\ scan.at = "list" /\ scan.left # <<>> /\ Gmail!Api /\ Still /\ mailboxes' \subseteq Gmail!Labels
  BY ScanTyped DEF Gmail!Lists, Still, Gmail!server, Gmail!facts, Gmail!retries, Gmail!ghosts, GmailIsTyped
<1>3. PICK M : M = Gmail!Must(l) OBVIOUS
<1>4. M \subseteq Msgs /\ (scan.rescan /\ scan.told = "clean" => M \subseteq scan.handled \cup Gmail!Page(l))
  BY <1>1, <1>2, <1>3, MustIs
<1>5. scan.m = 0 BY <1>2, ScanTyped DEF ScanIsPlaced, Busy
<1>6. PICK s : s = scan' OBVIOUS
<1>7. PICK t : t = Gmail!NextLabel(scan) OBVIOUS
<1>8. /\ t \in Scans /\ t.left = Tail(scan.left) /\ t.n = 0 /\ t.last = 0
      /\ t.at = "list" /\ t.rescan = scan.rescan /\ t.todo = scan.todo /\ t.m = scan.m /\ t.told = scan.told
      /\ t.must = scan.must /\ t.handled = scan.handled
  BY <1>2, <1>7, NextLabelIs
<1>9. CASE Gmail!Page(l) = {}
  <2>1. s = [t EXCEPT !.must = M] BY <1>1, <1>3, <1>6, <1>7, <1>9 DEF Gmail!Lists, Gmail!Goes
  <2>2. s \in Scans BY <1>4, <1>8, <2>1 DEF Scans
  <2>3. /\ s.n = 0 /\ s.last = 0 /\ s.at = "list" /\ s.rescan = scan.rescan /\ s.todo = scan.todo /\ s.m = 0
        /\ s.told = scan.told /\ s.must = M /\ s.handled = scan.handled
    BY <1>5, <1>8, <2>1 DEF Scans
  <2>4. ScanIsPlaced(s) BY <1>2, <2>3, ScanTyped DEF ScanIsPlaced, Busy
  <2>5. MustIsAhead(s) BY <1>4, <1>9, <2>3, ScanTyped DEF MustIsAhead
  <2>6. HandledIsRight(s) BY <1>5, <2>3, ScanTyped DEF HandledIsRight
  <2>7. WorkIsRight(s) BY <2>2, <2>3, WithoutWork
  <2> QED BY <1>2, <1>6, <2>2, <2>4, <2>5, <2>6, <2>7, ScanGoesOn DEF ScanIsRight, Still
<1>10. CASE Gmail!Page(l) # {} /\ scan.n = Cap
  <2>1. s = [t EXCEPT !.told = IF scan.rescan THEN Gmail!Cut(t.told) ELSE t.told]
    BY <1>1, <1>6, <1>7, <1>10 DEF Gmail!Lists, Gmail!Goes
  <2>0. PICK how : how = IF scan.rescan THEN Gmail!Cut(t.told) ELSE t.told OBVIOUS
  <2>8. how \in {"", "clean", "truncated", "partial", "cancelled", "failed"} /\ (scan.rescan => how # "clean")
    BY <1>8, <2>0, ScanTyped DEF Gmail!Cut
  <2>9. s = [t EXCEPT !.told = how] BY <2>0, <2>1
  <2>2. s \in Scans BY <1>8, <2>8, <2>9 DEF Scans
  <2>3. /\ s.n = 0 /\ s.last = 0 /\ s.at = "list" /\ s.rescan = scan.rescan /\ s.todo = scan.todo /\ s.m = 0
        /\ s.told = how /\ s.must = scan.must /\ s.handled = scan.handled
    BY <1>5, <1>8, <2>9 DEF Scans
  <2>4. ScanIsPlaced(s) BY <1>2, <2>3, ScanTyped DEF ScanIsPlaced, Busy
  <2>5. MustIsAhead(s) BY <2>3, <2>8, ScanTyped DEF MustIsAhead
  <2>6. HandledIsRight(s) BY <1>5, <2>3, ScanTyped DEF HandledIsRight
  <2>7. WorkIsRight(s) BY <2>2, <2>3, WithoutWork
  <2> QED BY <1>2, <1>6, <2>2, <2>4, <2>5, <2>6, <2>7, ScanGoesOn DEF ScanIsRight, Still
<1>11. CASE Gmail!Page(l) # {} /\ scan.n # Cap
  <2>1. PICK x : x = Gmail!Newest(Gmail!Page(l)) OBVIOUS
  <2>2. Gmail!Page(l) \subseteq Msgs BY DEF Gmail!Page, Gmail!Found, Msgs
  <2>3. x \in Gmail!Page(l) /\ x \in Msgs /\ \A k \in Gmail!Page(l) : k <= x
    BY <1>11, <2>1, <2>2, TheNewest DEF Gmail!Known
  <2>4. x \in 1..Messages /\ Messages \in Nat BY <2>3 DEF Msgs, Gmail!Msgs, Gmail!Known
  <2>11. x \in 0..Messages /\ x # 0 BY ONLY <2>4
  <2>12. PICK k \in Nat : k = scan.n BY ScanTyped
  <2>13. k + 1 \in Nat /\ k + 1 # 0 BY ONLY k \in Nat
  <2>5. x \in 0..Messages /\ x # 0 /\ scan.n + 1 \in Nat /\ scan.n + 1 # 0 BY <2>11, <2>12, <2>13
  <2>6. PICK u : u = [scan EXCEPT !.last = x, !.n = scan.n + 1, !.must = M] OBVIOUS
  <2>7. u \in Scans BY <1>4, <2>5, <2>6, ScanTyped DEF Scans
  <2>8. /\ u.left = scan.left /\ u.last = x /\ u.n = scan.n + 1 /\ u.at = "list" /\ u.rescan = scan.rescan
        /\ u.todo = scan.todo /\ u.m = 0 /\ u.told = scan.told /\ u.must = M /\ u.handled = scan.handled
    BY <1>2, <1>5, <2>6, ScanTyped DEF Scans
  <2>9. CASE scan.rescan
    <3>1. s = [u EXCEPT !.at = "get", !.m = x]
      BY <1>1, <1>3, <1>6, <1>11, <2>1, <2>6, <2>9 DEF Gmail!Lists, Gmail!Goes
    <3>2. s \in Scans BY <2>5, <2>7, <3>1 DEF Scans, Busy
    <3>3. /\ s.left = scan.left /\ s.last = x /\ s.n = scan.n + 1 /\ s.at = "get" /\ s.rescan = scan.rescan
          /\ s.todo = scan.todo /\ s.m = x /\ s.told = scan.told /\ s.must = M /\ s.handled = scan.handled
      BY <2>7, <2>8, <3>1 DEF Scans
    <3>4. ScanIsPlaced(s) BY <2>3, <2>5, <2>9, <3>3, <1>2, ScanTyped DEF ScanIsPlaced, Busy
    <3>5. MustIsAhead(s)
      <4>1. ASSUME NEW y \in Gmail!Page(l) PROVE y = x \/ y \in Rest(s)
        <5>1. y \in 1..Messages /\ y <= x BY <2>2, <2>3, <4>1 DEF Msgs, Gmail!Msgs
        <5>2. y = x \/ y < x BY <5>1, <2>4
        <5>3. y \in Msgs /\ l \in labels[y] BY <4>1, PageIs
        <5> QED BY <1>1, <1>2, <2>9, <3>3, <5>2, <5>3 DEF Rest
      <4>2. s.told = "clean" => s.must \subseteq s.handled \cup {s.m} \cup Rest(s) BY <1>4, <2>9, <3>3, <4>1
      <4> QED BY <2>9, <3>3, <4>2 DEF MustIsAhead, Ahead
    <3>6. HandledIsRight(s)
      <4>1. 0 \notin Msgs BY DEF Msgs, Gmail!Msgs
      <4> QED BY <1>5, <3>3, <4>1, ScanTyped DEF HandledIsRight
    <3>7. WorkIsRight(s) BY <3>2, <3>3, WithoutWork
    <3> QED BY <1>2, <1>6, <3>2, <3>4, <3>5, <3>6, <3>7, ScanGoesOn DEF ScanIsRight, Still
  <2>10. CASE ~scan.rescan
    <3>0. PICK todo : todo = IF x \in Gmail!ToSet(scan.todo) THEN scan.todo ELSE Append(scan.todo, x) OBVIOUS
    <3>1. s = [u EXCEPT !.todo = todo]
      BY <1>1, <1>3, <1>6, <1>11, <2>1, <2>6, <2>8, <2>10, <3>0 DEF Gmail!Lists, Gmail!Goes
    <3>8. todo \in Seq(Msgs) BY <2>3, <3>0, ToSetAppend, ScanTyped
    <3>2. s \in Scans BY <2>7, <3>1, <3>8 DEF Scans
    <3>3. s.at = "list" /\ s.rescan = scan.rescan /\ s.m = 0 /\ s.handled = scan.handled
      BY <2>7, <2>8, <3>1 DEF Scans
    <3>4. ScanIsPlaced(s) BY <2>10, <3>3 DEF ScanIsPlaced, Busy
    <3>5. MustIsAhead(s) BY <2>10, <3>3 DEF MustIsAhead
    <3>6. HandledIsRight(s) BY <1>5, <3>3, ScanTyped DEF HandledIsRight
    <3>7. WorkIsRight(s) BY <3>2, <3>3, WithoutWork
    <3> QED BY <1>2, <1>6, <3>2, <3>4, <3>5, <3>6, <3>7, ScanGoesOn DEF ScanIsRight, Still
  <2> QED BY <2>9, <2>10
<1> QED BY <1>9, <1>10, <1>11

LEMMA PageFailsStep ==
  ASSUME Gmail!Known, GmailInv, Gmail!PageFails
  PROVE  GmailInv'
<1>1. /\ scan.at = "list" /\ scan.left # <<>> /\ scan.rescan /\ Gmail!Api /\ Still
         /\ mailboxes' \subseteq Gmail!Labels
  BY ScanTyped DEF Gmail!PageFails, Still, Gmail!server, Gmail!facts, Gmail!retries, Gmail!ghosts, GmailIsTyped
<1>2. scan.m = 0 BY <1>1, ScanTyped DEF ScanIsPlaced, Busy
<1>3. PICK t : t = Gmail!NextLabel(scan) OBVIOUS
<1>4. /\ t \in Scans /\ t.n = 0 /\ t.last = 0 /\ t.at = "list" /\ t.rescan = scan.rescan /\ t.todo = scan.todo
      /\ t.m = scan.m /\ t.handled = scan.handled
  BY <1>1, <1>3, NextLabelIs
<1>5. PICK s : s = [t EXCEPT !.told = "partial"] OBVIOUS
<1>6. scan' = s BY <1>3, <1>5 DEF Gmail!PageFails, Gmail!Goes
<1>7. s \in Scans BY <1>4, <1>5 DEF Scans
<1>8. /\ s.n = 0 /\ s.last = 0 /\ s.at = "list" /\ s.rescan = scan.rescan /\ s.todo = scan.todo /\ s.m = 0
      /\ s.told = "partial" /\ s.handled = scan.handled
  BY <1>2, <1>4, <1>5 DEF Scans
<1>9. ScanIsPlaced(s) BY <1>1, <1>8, ScanTyped DEF ScanIsPlaced, Busy
<1>10. MustIsAhead(s) BY <1>1, <1>8 DEF MustIsAhead
<1>11. HandledIsRight(s) BY <1>2, <1>8, ScanTyped DEF HandledIsRight
<1>12. WorkIsRight(s) BY <1>7, <1>8, WithoutWork
<1> QED BY <1>1, <1>6, <1>7, <1>9, <1>10, <1>11, <1>12, ScanGoesOn DEF ScanIsRight, Still

\* An empty list has no message, and 0 is none.
LEMMA NothingIn ==
  Gmail!ToSet(<<>>) = {} /\ 0 \notin Msgs
<1>1. PICK e : e = <<>> BY Zenon
<1>2. e \in Seq(Msgs) /\ Len(e) = 0 BY <1>1, EmptySeq
<1>3. Gmail!ToSet(e) = {e[j] : j \in 1..Len(e)} BY <1>2, ToSetIs
<1>4. Gmail!ToSet(e) = {} BY <1>2, <1>3
<1>5. 0 \notin Msgs BY DEF Msgs, Gmail!Msgs
<1> QED BY <1>1, <1>4, <1>5

\* What the one search of the IMAP receiver gives.
LEMMA SearchGives ==
  ASSUME Gmail!Known, GmailInv, NEW s, s = Gmail!Taken, scan.at = "list"
  PROVE  /\ s \in Scans /\ s.at = "list" /\ s.rescan = scan.rescan /\ s.m = 0 /\ s.told = scan.told
         /\ s.handled = scan.handled /\ s.must = Gmail!Found("INBOX")
         /\ Gmail!ToSet(s.todo) = Gmail!NewestOf(Gmail!Found("INBOX"))
<1>1. PICK F : F = Gmail!Found("INBOX") BY Zenon
<1>2. PICK N : N = Gmail!NewestOf(F) BY Zenon
<1>3. N \subseteq F /\ F \subseteq Msgs BY <1>1, <1>2 DEF Gmail!NewestOf, Gmail!Found, Msgs
<1>4. N \in SUBSET Nat /\ IsFiniteSet(N)
  <2>1. Messages \in Nat BY DEF Gmail!Known
  <2>2. IsFiniteSet(1..Messages) BY <2>1, FS_Interval
  <2>3. N \in SUBSET (1..Messages) BY <1>3 DEF Msgs, Gmail!Msgs
  <2>4. IsFiniteSet(N) BY <2>2, <2>3, FS_Subset
  <2> QED BY <2>3, <2>4
<1>5. PICK a : a = Gmail!Ascending(N) BY Zenon
<1>6. a \in Seq(N) /\ Gmail!ToSet(a) = N BY <1>4, <1>5, Rising
<1>7. a \in Seq(Msgs) BY <1>3, <1>6, SeqMonotonic
<1>8. s = [scan EXCEPT !.left = <<>>, !.todo = a, !.must = F] BY <1>1, <1>2, <1>5 DEF Gmail!Taken, Gmail!INBOX
<1>9. s \in Scans BY <1>3, <1>7, <1>8, ScanTyped DEF Scans
<1>10. /\ s.at = scan.at /\ s.rescan = scan.rescan /\ s.m = scan.m /\ s.told = scan.told
       /\ s.handled = scan.handled /\ s.must = F /\ s.todo = a
  BY <1>8, ScanTyped DEF Scans
<1>11. scan.m = 0 BY ScanTyped DEF ScanIsPlaced, Busy
<1> QED BY <1>1, <1>2, <1>6, <1>9, <1>10, <1>11

LEMMA SearchesStep ==
  ASSUME Gmail!Known, GmailInv, Gmail!Searches \/ Gmail!SearchesRange
  PROVE  GmailInv'
<1>1. /\ scan.at = "list" /\ ~Gmail!Api /\ Still /\ mailboxes' \subseteq Gmail!Labels
  BY ScanTyped DEF Gmail!Searches, Gmail!SearchesRange, Still, Gmail!server, Gmail!facts, Gmail!retries, Gmail!ghosts,
    GmailIsTyped
<1>2. PICK t : t = Gmail!Taken BY Zenon
<1>3. /\ t \in Scans /\ t.at = "list" /\ t.rescan = scan.rescan /\ t.m = 0 /\ t.told = scan.told
      /\ t.handled = scan.handled /\ t.must = Gmail!Found("INBOX")
      /\ Gmail!ToSet(t.todo) = Gmail!NewestOf(Gmail!Found("INBOX"))
  BY <1>1, <1>2, SearchGives
<1>4. scan.m = 0 BY <1>1, ScanTyped DEF ScanIsPlaced, Busy
<1>5. CASE Gmail!Searches
  <2>1. scan' = t /\ ~scan.rescan BY <1>2, <1>5 DEF Gmail!Searches, Gmail!Goes
  <2>2. ScanIsPlaced(t) BY <1>1, <1>3 DEF ScanIsPlaced, Busy
  <2>3. MustIsAhead(t) BY <1>3, <2>1 DEF MustIsAhead
  <2>4. HandledIsRight(t) BY <1>3, <1>4, ScanTyped DEF HandledIsRight
  <2>5. WorkIsRight(t) BY <1>3, WithoutWork
  <2> QED BY <1>1, <1>3, <2>1, <2>2, <2>3, <2>4, <2>5, ScanGoesOn DEF ScanIsRight, Still
<1>6. CASE Gmail!SearchesRange
  <2>1. PICK how : how = IF Gmail!NewestOf(Gmail!Found("INBOX")) # Gmail!Found("INBOX") THEN Gmail!Cut(t.told) ELSE t.told
    BY Zenon
  <2>2. /\ how \in {"", "clean", "truncated", "partial", "cancelled", "failed"}
        /\ how = "clean" => Gmail!NewestOf(Gmail!Found("INBOX")) = Gmail!Found("INBOX")
    BY <1>3, <2>1, ScanTyped DEF Gmail!Cut
  <2>3. PICK s : s = [t EXCEPT !.at = "each", !.told = how] BY Zenon
  <2>4. scan' = s /\ scan.rescan BY <1>2, <1>6, <2>1, <2>3 DEF Gmail!SearchesRange, Gmail!Goes, Gmail!INBOX
  <2>5. s \in Scans BY <1>3, <2>2, <2>3 DEF Scans
  <2>6. /\ s.at = "each" /\ s.rescan = scan.rescan /\ s.m = 0 /\ s.told = how
        /\ s.handled = scan.handled /\ s.must = Gmail!Found("INBOX") /\ s.todo = t.todo
    BY <1>3, <2>3 DEF Scans
  <2>7. ScanIsPlaced(s) BY <1>1, <2>6 DEF ScanIsPlaced, Busy
  <2>8. MustIsAhead(s) BY <1>3, <2>2, <2>4, <2>6 DEF MustIsAhead, Ahead
  <2>9. HandledIsRight(s) BY <1>4, <2>6, ScanTyped DEF HandledIsRight
  <2>10. WorkIsRight(s) BY <2>5, <2>6, WithoutWork
  <2> QED BY <1>1, <2>4, <2>5, <2>7, <2>8, <2>9, <2>10, ScanGoesOn DEF ScanIsRight, Still
<1> QED BY <1>5, <1>6

LEMMA CompilesStep ==
  ASSUME Gmail!Known, GmailInv, Gmail!Compiles
  PROVE  GmailInv'
<1>1. /\ scan.at = "list" /\ ~scan.rescan /\ Still /\ mailboxes' \subseteq Gmail!Labels
  BY ScanTyped DEF Gmail!Compiles, Still, Gmail!server, Gmail!facts, Gmail!retries, Gmail!ghosts, GmailIsTyped
<1>2. PICK listed : /\ listed = SubSeq(scan.todo, 1, IF Len(scan.todo) < Cap THEN Len(scan.todo) ELSE Cap)
                    /\ \E r \in Gmail!Retried(listed) :
                         scan' = [[scan EXCEPT !.at = "each"] EXCEPT !.todo = listed \o r,
                                                                     !.must = Gmail!ToSet(listed) \cup Gmail!ToSet(r)]
  BY DEF Gmail!Compiles, Gmail!Goes, Gmail!At
<1>3. PICK r \in Gmail!Retried(listed) :
        scan' = [[scan EXCEPT !.at = "each"] EXCEPT !.todo = listed \o r,
            !.must = Gmail!ToSet(listed) \cup Gmail!ToSet(r)]
  BY <1>2
<1>4. listed \in Seq(Msgs)
  <2>1. PICK k : k = IF Len(scan.todo) < Cap THEN Len(scan.todo) ELSE Cap BY Zenon
  <2>2. PICK todo \in Seq(Msgs) : todo = scan.todo BY ScanTyped
  <2>3. Len(todo) \in Nat /\ Cap \in Nat BY <2>2, LenProperties DEF Gmail!Known
  <2>4. k \in Nat /\ k <= Len(todo) BY <2>1, <2>2, <2>3
  <2>5. \A j \in 1..k : todo[j] \in Msgs BY <2>2, <2>3, <2>4, ElementOfSeq
  <2>6. SubSeq(todo, 1, k) \in Seq(Msgs)
    <3>1. 1..k \subseteq 1..Len(todo) BY <2>3, <2>4
    <3> QED BY <2>2, <2>3, <2>4, <2>5, <3>1, SubSeqProperties
  <2> QED BY <1>2, <2>1, <2>2, <2>6
<1>5. r \in Seq(Msgs) BY <1>3, ScanTyped, RetriesAre DEF Gmail!Known
<1>6. PICK b : b = listed \o r BY Zenon
<1>7. b \in Seq(Msgs) /\ Gmail!ToSet(b) = Gmail!ToSet(listed) \cup Gmail!ToSet(r) BY <1>4, <1>5, <1>6, ToSetBoth
<1>8. Gmail!ToSet(b) \subseteq Msgs BY <1>7, ToSetIs
<1>9. PICK s : s = [scan EXCEPT !.at = "each", !.todo = b, !.must = Gmail!ToSet(b)] BY Zenon
<1>10. scan' = s
  <2>1. PICK t : t = [scan EXCEPT !.at = "each"] BY Zenon
  <2>2. scan' = [t EXCEPT !.todo = b, !.must = Gmail!ToSet(b)] BY <1>3, <1>6, <1>7, <2>1
  <2> QED BY <1>9, <2>1, <2>2, ScanTyped DEF Scans
<1>11. s \in Scans BY <1>7, <1>8, <1>9, ScanTyped DEF Scans
<1>12. s.at = "each" /\ s.rescan = scan.rescan /\ s.m = scan.m /\ s.handled = scan.handled
    /\ s.must = Gmail!ToSet(s.todo)
  BY <1>9, ScanTyped DEF Scans
<1>13. scan.m = 0 BY <1>1, ScanTyped DEF ScanIsPlaced, Busy
<1>14. ScanIsPlaced(s) BY <1>1, <1>12, <1>13 DEF ScanIsPlaced, Busy
<1>15. MustIsAhead(s) BY <1>12 DEF MustIsAhead, Ahead
<1>16. HandledIsRight(s) BY <1>12, <1>13, ScanTyped DEF HandledIsRight
<1>17. WorkIsRight(s) BY <1>11, <1>12, WithoutWork
<1> QED BY <1>1, <1>10, <1>11, <1>14, <1>15, <1>16, <1>17, ScanGoesOn DEF ScanIsRight, Still

LEMMA TakesStep ==
  ASSUME Gmail!Known, GmailInv, Gmail!Takes \/ Gmail!TakesUid
  PROVE  GmailInv'
<1>1. /\ scan.at = "each" /\ scan.todo # <<>> /\ Still /\ mailboxes' \subseteq Gmail!Labels
  BY ScanTyped
  DEF Gmail!Takes, Gmail!TakesUid, Still, Gmail!server, Gmail!facts, Gmail!retries, Gmail!ghosts, GmailIsTyped
<1>2. scan.m = 0 /\ ~(Gmail!Api /\ scan.rescan) BY <1>1, ScanTyped DEF ScanIsPlaced, Busy
<1>3. PICK x, rest : x = Head(scan.todo) /\ rest = Tail(scan.todo) BY Zenon
<1>4. x \in Msgs /\ rest \in Seq(Msgs) /\ Gmail!ToSet(scan.todo) = {x} \cup Gmail!ToSet(rest)
  BY <1>1, <1>3, ToSetOf, ScanTyped
<1>5. (scan.told = "clean" \/ ~scan.rescan) => scan.must \subseteq scan.handled \cup {x} \cup Gmail!ToSet(rest)
  BY <1>1, <1>2, <1>4, ScanTyped, NothingIn DEF MustIsAhead, Ahead, Rest
<1>6. \A y \in scan.handled : Gmail!Settled(y) \/ rows[y] > 0
  BY <1>2, ScanTyped, NothingIn DEF HandledIsRight
<1>7. x \in 0..Messages
  <2>1. Messages \in Nat BY DEF Gmail!Known
  <2>2. x \in 1..Messages BY <1>4 DEF Msgs, Gmail!Msgs
  <2> QED BY ONLY <2>1, <2>2
<1>8. CASE Gmail!Takes /\ Gmail!Waits(x)
  <2>1. PICK s : s = [scan EXCEPT !.todo = rest, !.handled = scan.handled \cup {x}] BY Zenon
  <2>2. scan' = s BY <1>3, <1>8, <2>1 DEF Gmail!Takes, Gmail!Goes
  <2>3. s \in Scans BY <1>4, <2>1, ScanTyped DEF Scans
  <2>4. /\ s.at = "each" /\ s.rescan = scan.rescan /\ s.m = 0 /\ s.told = scan.told
        /\ s.handled = scan.handled \cup {x} /\ s.must = scan.must /\ s.todo = rest
    BY <1>1, <1>2, <2>1, ScanTyped DEF Scans
  <2>5. ScanIsPlaced(s) BY <1>2, <2>4 DEF ScanIsPlaced, Busy
  <2>6. MustIsAhead(s) BY <1>5, <2>4 DEF MustIsAhead, Ahead
  <2>7. rows[x] > 0 BY <1>8 DEF Gmail!Waits
  <2>8. HandledIsRight(s) BY <1>6, <2>4, <2>7 DEF HandledIsRight
  <2>9. WorkIsRight(s) BY <2>3, <2>4, WithoutWork
  <2> QED BY <1>1, <2>2, <2>3, <2>5, <2>6, <2>8, <2>9, ScanGoesOn DEF ScanIsRight, Still
<1>9. CASE Gmail!TakesUid \/ (Gmail!Takes /\ ~Gmail!Waits(x))
  <2>1. PICK s : s = [scan EXCEPT !.at = "get", !.m = x, !.todo = rest] BY Zenon
  <2>2. scan' = s BY <1>3, <1>9, <2>1 DEF Gmail!Takes, Gmail!TakesUid, Gmail!Goes
  <2>3. s \in Scans BY <1>4, <1>7, <2>1, ScanTyped DEF Scans, Busy
  <2>4. /\ s.at = "get" /\ s.rescan = scan.rescan /\ s.m = x /\ s.told = scan.told
        /\ s.handled = scan.handled /\ s.must = scan.must /\ s.todo = rest
    BY <1>1, <1>2, <2>1, ScanTyped DEF Scans
  <2>5. ScanIsPlaced(s) BY <1>2, <1>4, <2>4 DEF ScanIsPlaced, Busy
  <2>6. MustIsAhead(s) BY <1>5, <2>4 DEF MustIsAhead, Ahead
  <2>8. HandledIsRight(s) BY <1>6, <2>4 DEF HandledIsRight
  <2>9. WorkIsRight(s) BY <2>3, <2>4, WithoutWork
  <2> QED BY <1>1, <2>2, <2>3, <2>5, <2>6, <2>8, <2>9, ScanGoesOn DEF ScanIsRight, Still
<1> QED BY <1>8, <1>9

\* The message that is worked on fails, before anything is known of it or later.
LEMMA MessageFails ==
  ASSUME GmailInv, scan.at \in Busy, scan' = [scan EXCEPT !.at = "fail"], Still, UNCHANGED mailboxes
  PROVE  GmailInv'
<1>1. PICK s : s = [scan EXCEPT !.at = "fail"] BY Zenon
<1>2. scan' = s BY <1>1
<1>3. s \in Scans BY <1>1, ScanTyped DEF Scans, Busy
<1>4. /\ s.at = "fail" /\ s.rescan = scan.rescan /\ s.m = scan.m /\ s.told = scan.told /\ s.left = scan.left
      /\ s.handled = scan.handled /\ s.must = scan.must /\ s.todo = scan.todo /\ s.last = scan.last /\ s.n = scan.n
  BY <1>1, ScanTyped DEF Scans
<1>5. ScanIsPlaced(s) BY <1>4, ScanTyped DEF ScanIsPlaced, Busy
<1>6. MustIsAhead(s) BY <1>4, ScanTyped DEF MustIsAhead, Ahead, Rest, Busy
<1>7. HandledIsRight(s) BY <1>4, ScanTyped DEF HandledIsRight
<1>8. WorkIsRight(s) BY <1>3, <1>4, WithoutWork
<1>9. mailboxes' \subseteq Gmail!Labels BY ScanTyped DEF GmailIsTyped
<1> QED BY <1>2, <1>3, <1>5, <1>6, <1>7, <1>8, <1>9, ScanGoesOn DEF ScanIsRight, Still

LEMMA GetFailsStep ==
  ASSUME GmailInv, Gmail!GetFails
  PROVE  GmailInv'
<1>1. scan.at \in Busy /\ scan' = [scan EXCEPT !.at = "fail"] /\ Still /\ UNCHANGED mailboxes
  BY DEF Gmail!GetFails, Gmail!Goes, Gmail!At, Busy, Still, Gmail!server, Gmail!facts, Gmail!retries, Gmail!ghosts
<1> QED BY <1>1, MessageFails

LEMMA EndsStep ==
  ASSUME Gmail!Known, GmailInv, Gmail!Ends \/ Gmail!EndsRescan
  PROVE  GmailInv'
<1>1. /\ scan.todo = <<>> /\ scan.m = 0 /\ Still /\ mailboxes' \subseteq Gmail!Labels /\ Rest(scan) = {}
      /\ ~(scan.at \in {"list", "discover"} /\ ~scan.rescan)
  BY ScanTyped DEF Gmail!Ends, Gmail!EndsRescan, Still, Gmail!server, Gmail!facts, Gmail!retries, Gmail!ghosts,
    GmailIsTyped, ScanIsPlaced, Busy, Rest
<1>2. (scan.told = "clean" \/ ~scan.rescan) => scan.must \subseteq scan.handled
  BY <1>1, ScanTyped, NothingIn DEF MustIsAhead, Ahead
<1>3. \A y \in scan.handled : Gmail!Settled(y) \/ rows[y] > 0
  BY <1>1, ScanTyped, NothingIn DEF HandledIsRight
<1>4. PICK z : z = [Gmail!NoScan EXCEPT !.told = ""] BY Zenon
<1>5. z \in Scans BY <1>4, Nothing
<1>6. z.at = "idle" /\ z.left = <<>> /\ z.todo = <<>> /\ z.m = 0 /\ z.n = 0 /\ z.last = 0 BY <1>4 DEF Gmail!NoScan
<1>7. PICK s : s = [z EXCEPT !.rescan = scan.rescan, !.told = scan.told, !.must = scan.must, !.handled = scan.handled]
  BY Zenon
<1>8. z = Gmail!NoScan BY <1>4 DEF Gmail!NoScan
<1>9. scan' = s BY <1>7, <1>8 DEF Gmail!Ends, Gmail!EndsRescan, Gmail!Goes, Gmail!Over
<1>10. s \in Scans BY <1>5, <1>7, ScanTyped DEF Scans
<1>11. /\ s.at = "idle" /\ s.left = <<>> /\ s.todo = <<>> /\ s.m = 0 /\ s.n = 0 /\ s.last = 0
       /\ s.rescan = scan.rescan /\ s.told = scan.told /\ s.must = scan.must /\ s.handled = scan.handled
  BY <1>5, <1>6, <1>7 DEF Scans
<1>12. ScanIsPlaced(s) BY <1>11 DEF ScanIsPlaced, Busy
<1>13. MustIsAhead(s) BY <1>2, <1>11 DEF MustIsAhead
<1>14. HandledIsRight(s) BY <1>3, <1>11 DEF HandledIsRight
<1>15. WorkIsRight(s) BY <1>10, <1>11, WithoutWork
<1> QED BY <1>1, <1>9, <1>10, <1>12, <1>13, <1>14, <1>15, ScanGoesOn DEF ScanIsRight, Still

-----------------------------------------------------------------------------
\* The server changes, and what is still to be handled has no label less.
LEMMA ServerChanges ==
  ASSUME GmailInv, GmailIsTyped', UNCHANGED <<backend, verdict, member, rows, seen, torn>>,
         NEW M \in SUBSET scan.must, scan' = [scan EXCEPT !.must = M],
         \A x \in M : labels[x] \subseteq labels'[x]
  PROVE  GmailInv'
<1>1. PICK s : s = [scan EXCEPT !.must = M] BY Zenon
<1>2. scan' = s BY <1>1
<1>3. s \in Scans
  <2>1. M \subseteq Msgs BY ScanTyped
  <2> QED BY <1>1, <2>1, ScanTyped DEF Scans
<1>4. /\ s.at = scan.at /\ s.rescan = scan.rescan /\ s.m = scan.m /\ s.told = scan.told /\ s.left = scan.left
      /\ s.handled = scan.handled /\ s.must = M /\ s.todo = scan.todo /\ s.last = scan.last /\ s.n = scan.n
      /\ s.got = scan.got /\ s.partial = scan.partial
  BY <1>1, ScanTyped DEF Scans
<1>5. ScanIsPlaced(s)' BY <1>4, ScanTyped DEF ScanIsPlaced, Gmail!Api
<1>6. MustIsAhead(s)'
  <2>1. ASSUME NEW x \in M, x \in Rest(scan) PROVE x \in Rest(s)'
    BY <1>4, <2>1 DEF Rest, Gmail!Api
  <2>2. Gmail!ToSet(s.todo)' = Gmail!ToSet(scan.todo) BY <1>4 DEF Gmail!ToSet
  <2> QED BY <1>4, <2>1, <2>2, ScanTyped DEF MustIsAhead, Ahead
<1>7. HandledIsRight(s)' BY <1>4, ScanTyped DEF HandledIsRight, Gmail!Settled
<1>8. WorkIsRight(s)' BY <1>4, ScanTyped DEF WorkIsRight, Gmail!Api, Gmail!Settled
<1>9. LabelsAreSeen' BY ScanTyped DEF LabelsAreSeen, Gmail!Api
<1> QED BY <1>2, <1>3, <1>5, <1>6, <1>7, <1>8, <1>9 DEF GmailInv, ScanIsRight

\* A round that stays as it was.
LEMMA MustAsItWas ==
  ASSUME GmailInv
  PROVE  scan = [scan EXCEPT !.must = scan.must]
BY ScanTyped DEF Scans

LEMMA ArrivesStep ==
  ASSUME Gmail!Known, GmailInv, Gmail!Arrives
  PROVE  GmailInv'
<1>1. PICK L \in LabelSets : labels' = [labels EXCEPT ![arrived + 1] = L] BY DEF Gmail!Arrives
<1>2. /\ arrived < Messages /\ arrived' = arrived + 1 /\ recent' = recent \cup {arrived + 1}
      /\ UNCHANGED <<backend, deleted, mailboxes, verdict, member, rows, due, scan, seen, torn>>
  BY DEF Gmail!Arrives, Gmail!facts, Gmail!retries, Gmail!ghosts
<1>3. Messages \in Nat /\ arrived \in 0..Messages /\ L \in SUBSET Gmail!Labels
  BY ScanTyped DEF Gmail!Known, GmailIsTyped, Gmail!Labels, Gmail!INBOX, Gmail!SENT
<1>4. PICK a : a = arrived + 1 BY Zenon
<1>5. a \in 1..Messages /\ a \in 0..Messages /\ a > arrived BY <1>2, <1>3, <1>4
<1>6. a \in Msgs BY <1>5 DEF Msgs, Gmail!Msgs
<1>7. labels' \in [Msgs -> SUBSET Gmail!Labels] BY <1>1, <1>3, <1>4, ScanTyped DEF GmailIsTyped
<1>8. \A x \in Msgs : x > a => labels'[x] = {}
  <2>1. ASSUME NEW x \in Msgs, x > a PROVE labels'[x] = {}
    <3>1. x \in Nat /\ a \in Nat /\ arrived \in Nat BY <1>3, <1>5, <2>1 DEF Msgs, Gmail!Msgs
    <3>2. x > arrived /\ x # a BY <2>1, <3>1, <1>4
    <3> QED BY <1>1, <1>4, <2>1, <3>2, ScanTyped DEF GmailIsTyped
  <2> QED BY <2>1
<1>9. GmailIsTyped' BY <1>2, <1>4, <1>5, <1>6, <1>7, <1>8, ScanTyped DEF GmailIsTyped, Msgs, Gmail!Msgs
<1>10. \A x \in scan.must : labels[x] \subseteq labels'[x]
  <2>1. labels[a] = {} BY <1>5, <1>6, ScanTyped DEF GmailIsTyped
  <2> QED BY <1>1, <1>4, <2>1, ScanTyped DEF GmailIsTyped
<1>11. scan' = [scan EXCEPT !.must = scan.must] BY <1>2, MustAsItWas
<1> QED BY <1>2, <1>9, <1>10, <1>11, ServerChanges

LEMMA MovesAtServer ==
  ASSUME Gmail!Known, GmailInv, NEW x \in Msgs, Gmail!Moves(x)
  PROVE  GmailInv'
<1>1. PICK L \in SUBSET Gmail!Labels : labels' = [labels EXCEPT ![x] = L]
  <2>1. LabelSets \subseteq SUBSET Gmail!Labels BY DEF Gmail!Known, Gmail!Labels, Gmail!INBOX, Gmail!SENT
  <2>2. {} \in SUBSET Gmail!Labels OBVIOUS
  <2> QED BY <2>1, <2>2 DEF Gmail!Moves
<1>2. /\ scan' = [scan EXCEPT !.must = scan.must \ {x}] /\ x \in 1..arrived
      /\ UNCHANGED <<backend, arrived, recent, mailboxes, verdict, member, rows, due, seen, torn>>
  BY DEF Gmail!Moves, Gmail!facts, Gmail!retries, Gmail!ghosts
<1>3. labels' \in [Msgs -> SUBSET Gmail!Labels] /\ \A y \in Msgs : y # x => labels'[y] = labels[y]
  BY <1>1, ScanTyped DEF GmailIsTyped
<1>4. \A y \in Msgs : y > arrived => labels'[y] = {}
  <2>2. arrived \in 0..Messages /\ x \in 1..arrived /\ Messages \in Nat
    BY <1>2, ScanTyped DEF GmailIsTyped, Gmail!Known
  <2>1. ~ (x > arrived) BY ONLY <2>2
  <2> QED BY <1>3, <2>1, ScanTyped DEF GmailIsTyped
<1>5. GmailIsTyped' BY <1>2, <1>3, <1>4, ScanTyped DEF GmailIsTyped, Msgs, Gmail!Msgs
<1>6. \A y \in scan.must \ {x} : labels[y] \subseteq labels'[y] BY <1>3, ScanTyped
<1> QED BY <1>2, <1>5, <1>6, ServerChanges

LEMMA TimePasses ==
  ASSUME Gmail!Known, GmailInv, NEW x \in Msgs, Gmail!LeavesWindow(x) \/ Gmail!BecomesDue(x)
  PROVE  GmailInv'
<1>1. /\ UNCHANGED <<backend, labels, arrived, mailboxes, verdict, member, rows, scan, seen, torn>>
      /\ recent' \subseteq Msgs /\ due' \subseteq Msgs
  BY ScanTyped
  DEF Gmail!LeavesWindow, Gmail!BecomesDue, Gmail!server, Gmail!facts, Gmail!retries, Gmail!ghosts, GmailIsTyped
<1>2. GmailIsTyped' BY <1>1, ScanTyped DEF GmailIsTyped, Msgs, Gmail!Msgs
<1>3. scan' = [scan EXCEPT !.must = scan.must] BY <1>1, MustAsItWas
<1> QED BY <1>1, <1>2, <1>3, ServerChanges

-----------------------------------------------------------------------------
\* The work on a message goes on, and no other one is touched.
LEMMA WorkGoesOn ==
  ASSUME GmailInv, scan.at \in Busy, NEW s \in Scans, scan' = s, s.at \in Busy,
         s.rescan = scan.rescan, s.m = scan.m, s.told = scan.told, s.left = scan.left, s.handled = scan.handled,
         s.must = scan.must, s.todo = scan.todo, s.last = scan.last, s.n = scan.n,
         UNCHANGED <<backend, labels, arrived, recent, rows, due>>, GmailIsTyped', torn' = torn \cup {scan.m},
         \A x \in Msgs : x # scan.m => verdict'[x] = verdict[x] /\ member'[x] = member[x] /\ seen'[x] = seen[x],
         WorkIsRight(s)'
  PROVE  GmailInv'
<1>1. ScanIsPlaced(s)' BY ScanTyped DEF ScanIsPlaced, Gmail!Api, Busy
<1>2. MustIsAhead(s)'
  <2>1. Rest(s)' = Rest(scan) BY DEF Rest, Gmail!Api
  <2>2. Gmail!ToSet(s.todo)' = Gmail!ToSet(scan.todo) BY DEF Gmail!ToSet
  <2> QED BY <2>1, <2>2, ScanTyped DEF MustIsAhead, Ahead, Busy
<1>3. HandledIsRight(s)' BY ScanTyped DEF HandledIsRight, Gmail!Settled
<1>4. LabelsAreSeen' BY ScanTyped DEF LabelsAreSeen, Gmail!Api
<1> QED BY <1>1, <1>2, <1>3, <1>4 DEF GmailInv, ScanIsRight

LEMMA GetsStep ==
  ASSUME GmailInv, Gmail!Gets \/ Gmail!Fetches
  PROVE  GmailInv'
<1>1. scan.at = "get" /\ UNCHANGED <<backend, labels, arrived, recent, verdict, member, rows, due>>
  BY DEF Gmail!Gets, Gmail!Fetches, Gmail!server, Gmail!facts, Gmail!retries
<1>2. PICK x \in Msgs : x = scan.m BY <1>1, ScanTyped DEF ScanIsPlaced, Busy
<1>3. CASE scan' = Gmail!At("fail") /\ UNCHANGED <<mailboxes, seen, torn>>
  BY <1>1, <1>3, MessageFails DEF Gmail!At, Busy, Still
<1>4. CASE \E got \in SUBSET Gmail!Labels :
             /\ scan' = [Gmail!At("process") EXCEPT !.got = got]
             /\ seen' = [seen EXCEPT ![x] = IF Gmail!Api THEN got ELSE {"INBOX"}]
             /\ torn' = torn \cup {x} /\ mailboxes' \subseteq Gmail!Labels
  <2>1. PICK got \in SUBSET Gmail!Labels :
             /\ scan' = [Gmail!At("process") EXCEPT !.got = got]
             /\ seen' = [seen EXCEPT ![x] = IF Gmail!Api THEN got ELSE {"INBOX"}]
             /\ torn' = torn \cup {x} /\ mailboxes' \subseteq Gmail!Labels
    BY <1>4
  <2>2. PICK s : s = [scan EXCEPT !.at = "process", !.got = got] BY Zenon
  <2>3. scan' = s
    <3>1. PICK t : t = [scan EXCEPT !.at = "process"] BY Zenon
    <3>2. scan' = [t EXCEPT !.got = got] BY <2>1, <3>1 DEF Gmail!At
    <3> QED BY <2>2, <3>1, <3>2, ScanTyped DEF Scans
  <2>4. s \in Scans BY <2>2, ScanTyped DEF Scans, Busy
  <2>5. /\ s.at = "process" /\ s.rescan = scan.rescan /\ s.m = x /\ s.told = scan.told /\ s.left = scan.left
        /\ s.handled = scan.handled /\ s.must = scan.must /\ s.todo = scan.todo /\ s.last = scan.last /\ s.n = scan.n
        /\ s.got = got
    BY <1>2, <2>2, ScanTyped DEF Scans
  <2>6. {"INBOX"} \subseteq Gmail!Labels BY DEF Gmail!Labels, Gmail!INBOX
  <2>7. /\ seen' \in [Msgs -> SUBSET Gmail!Labels] /\ (Gmail!Api => seen'[x] = got)
        /\ \A y \in Msgs : y # x => seen'[y] = seen[y]
    BY <2>1, <2>6, ScanTyped DEF GmailIsTyped
  <2>8. GmailIsTyped' BY <1>1, <2>1, <2>7, ScanTyped DEF GmailIsTyped, Msgs, Gmail!Msgs
  <2>9. WorkIsRight(s)' BY <1>1, <2>1, <2>5, <2>7 DEF WorkIsRight, Gmail!Api
  <2> QED BY <1>1, <1>2, <2>1, <2>3, <2>4, <2>5, <2>7, <2>8, <2>9, WorkGoesOn DEF Busy
<1>5. ASSUME Gmail!Gets PROVE GmailInv'
  <2>1. CASE scan.m \in deleted BY <1>3, <1>5, <2>1 DEF Gmail!Gets, Gmail!Goes, Gmail!ghosts
  <2>2. CASE scan.m \notin deleted
    <3>1. PICK L : L = labels[x] BY Zenon
    <3>2. L \in SUBSET Gmail!Labels BY <3>1, ScanTyped DEF GmailIsTyped
    <3>3. /\ mailboxes' = mailboxes \cup L /\ seen' = [seen EXCEPT ![x] = L] /\ torn' = torn \cup {x} /\ Gmail!Api
          /\ scan' = [Gmail!At("process") EXCEPT !.got = L \cap mailboxes']
      BY <1>2, <1>5, <2>2, <3>1 DEF Gmail!Gets, Gmail!Goes, Gmail!Ensured
    <3>4. L \cap mailboxes' = L BY <3>3
    <3>5. mailboxes' \subseteq Gmail!Labels BY <3>2, <3>3, ScanTyped DEF GmailIsTyped
    <3> QED BY <1>4, <3>2, <3>3, <3>4, <3>5
  <2> QED BY <2>1, <2>2
<1>6. ASSUME Gmail!Fetches PROVE GmailInv'
  <2>1. CASE "INBOX" \notin labels[scan.m]
    BY <1>3, <1>6, <2>1 DEF Gmail!Fetches, Gmail!Goes, Gmail!ghosts, Gmail!INBOX
  <2>2. CASE "INBOX" \in labels[scan.m]
    <3>1. /\ mailboxes' = mailboxes /\ seen' = [seen EXCEPT ![x] = {"INBOX"}] /\ torn' = torn \cup {x} /\ ~Gmail!Api
          /\ scan' = [Gmail!At("process") EXCEPT !.got = {"INBOX"}]
      BY <1>2, <1>6, <2>2 DEF Gmail!Fetches, Gmail!Goes, Gmail!INBOX
    <3>2. {"INBOX"} \in SUBSET Gmail!Labels /\ mailboxes' \subseteq Gmail!Labels
      BY <3>1, ScanTyped DEF GmailIsTyped, Gmail!Labels, Gmail!INBOX
    <3> QED BY <1>4, <3>1, <3>2
  <2> QED BY <2>1, <2>2
<1> QED BY <1>5, <1>6

ReadyStays == \A x \in Msgs : verdict[x] = "ready" => verdict'[x] = "ready"

LEMMA ProcessesStep ==
  ASSUME GmailInv, Gmail!Processes
  PROVE  GmailInv' /\ ReadyStays
<1>1. scan.at = "process" /\ UNCHANGED <<backend, labels, arrived, recent, rows, due, seen, torn>>
  BY DEF Gmail!Processes, Gmail!server, Gmail!retries, Gmail!ghosts
<1>2. PICK x \in Msgs : x = scan.m BY <1>1, ScanTyped DEF ScanIsPlaced, Busy
<1>3. x \in torn /\ (Gmail!Api => scan.got = seen[x]) BY <1>1, <1>2, ScanTyped DEF WorkIsRight
<1>4. PICK p : p = Gmail!Primary(scan.got) BY Zenon
<1>5. p \in Gmail!Labels BY <1>4 DEF Gmail!Primary, Gmail!Labels, Gmail!INBOX, Gmail!SENT
<1>6. CASE \E v \in {"ready", "partial"} :
             /\ verdict' = [verdict EXCEPT ![x] = v] /\ (verdict[x] = "ready" => v = "ready")
             /\ member' = [member EXCEPT ![x] = @ \cup {p}] /\ mailboxes' = mailboxes \cup {p}
             /\ scan' = Gmail!Archived(v = "partial")
  <2>1. PICK v \in {"ready", "partial"} :
             /\ verdict' = [verdict EXCEPT ![x] = v] /\ (verdict[x] = "ready" => v = "ready")
             /\ member' = [member EXCEPT ![x] = @ \cup {p}] /\ mailboxes' = mailboxes \cup {p}
             /\ scan' = Gmail!Archived(v = "partial")
    BY <1>6
  <2>2. PICK w \in {"labels", "fail", "clear"} :
          w = IF Gmail!Api THEN "labels" ELSE IF v = "partial" THEN "fail" ELSE "clear"
    OBVIOUS
  <2>3. PICK part \in BOOLEAN : part = (v = "partial") OBVIOUS
  <2>4. PICK s : s = [scan EXCEPT !.at = w, !.partial = part] BY Zenon
  <2>5. scan' = s
    <3>1. PICK t : t = [scan EXCEPT !.at = w] BY Zenon
    <3>2. scan' = [t EXCEPT !.partial = part]
      BY <2>1, <2>2, <2>3, <3>1 DEF Gmail!Archived, Gmail!At, Gmail!AfterArchive
    <3> QED BY <2>4, <3>1, <3>2, ScanTyped DEF Scans
  <2>6. s \in Scans BY <2>3, <2>4, ScanTyped DEF Scans, Busy
  <2>7. /\ s.at = w /\ s.rescan = scan.rescan /\ s.m = x /\ s.told = scan.told /\ s.left = scan.left
        /\ s.handled = scan.handled /\ s.must = scan.must /\ s.todo = scan.todo /\ s.last = scan.last /\ s.n = scan.n
        /\ s.got = scan.got /\ s.partial = part
    BY <1>2, <2>4, ScanTyped DEF Scans
  <2>8. /\ verdict' \in [Msgs -> {"none", "refused", "partial", "ready"}] /\ verdict'[x] = v
        /\ \A y \in Msgs : y # x => verdict'[y] = verdict[y]
    BY <2>1, ScanTyped DEF GmailIsTyped
  <2>9. member' \in [Msgs -> SUBSET Gmail!Labels] /\ \A y \in Msgs : y # x => member'[y] = member[y]
    BY <1>5, <2>1, ScanTyped DEF GmailIsTyped
  <2>10. GmailIsTyped' BY <1>1, <1>5, <2>1, <2>8, <2>9, ScanTyped DEF GmailIsTyped, Msgs, Gmail!Msgs
  <2>11. WorkIsRight(s)'
    BY <1>1, <1>3, <2>2, <2>3, <2>7, <2>8 DEF WorkIsRight, Gmail!Api, Gmail!Settled
  <2>12. torn' = torn \cup {x} BY <1>1, <1>3
  <2>13. ReadyStays BY <2>1, <2>8 DEF ReadyStays
  <2>14. s.at \in Busy BY <2>2, <2>7 DEF Busy
  <2>15. \A y \in Msgs : y # scan.m => verdict'[y] = verdict[y] /\ member'[y] = member[y] /\ seen'[y] = seen[y]
    BY <1>1, <1>2, <2>8, <2>9
  <2>16. GmailInv'
    BY <1>1, <1>2, <2>5, <2>6, <2>7, <2>10, <2>11, <2>12, <2>14, <2>15, WorkGoesOn DEF Busy
  <2> QED BY <2>13, <2>16
<1>7. CASE /\ verdict[x] # "ready" /\ verdict' = [verdict EXCEPT ![x] = "refused"]
           /\ scan' = Gmail!At("clear") /\ UNCHANGED <<member, mailboxes>>
  <2>4. PICK s : s = [scan EXCEPT !.at = "clear"] BY Zenon
  <2>5. scan' = s BY <1>7, <2>4 DEF Gmail!At
  <2>6. s \in Scans BY <2>4, ScanTyped DEF Scans, Busy
  <2>7. /\ s.at = "clear" /\ s.rescan = scan.rescan /\ s.m = x /\ s.told = scan.told /\ s.left = scan.left
        /\ s.handled = scan.handled /\ s.must = scan.must /\ s.todo = scan.todo /\ s.last = scan.last /\ s.n = scan.n
    BY <1>2, <2>4, ScanTyped DEF Scans
  <2>8. /\ verdict' \in [Msgs -> {"none", "refused", "partial", "ready"}] /\ verdict'[x] = "refused"
        /\ \A y \in Msgs : y # x => verdict'[y] = verdict[y]
    BY <1>7, ScanTyped DEF GmailIsTyped
  <2>10. GmailIsTyped' BY <1>1, <1>7, <2>8, ScanTyped DEF GmailIsTyped, Msgs, Gmail!Msgs
  <2>11. WorkIsRight(s)' BY <1>1, <1>3, <2>7, <2>8 DEF WorkIsRight, Gmail!Settled
  <2>12. torn' = torn \cup {x} BY <1>1, <1>3
  <2>13. ReadyStays BY <1>7, <2>8 DEF ReadyStays
  <2>14. s.at \in Busy BY <2>7 DEF Busy
  <2>15. \A y \in Msgs : y # scan.m => verdict'[y] = verdict[y] /\ member'[y] = member[y] /\ seen'[y] = seen[y]
    BY <1>1, <1>2, <1>7, <2>8
  <2>16. GmailInv'
    BY <1>1, <1>2, <2>5, <2>6, <2>7, <2>10, <2>11, <2>12, <2>14, <2>15, WorkGoesOn DEF Busy
  <2> QED BY <2>13, <2>16
<1>8. PICK maps \in BOOLEAN :
        maps = (/\ member' = [member EXCEPT ![x] = @ \cup {p}] /\ mailboxes' = mailboxes \cup {p})
  OBVIOUS
<1>9. \/ verdict[x] = "ready" /\ maps /\ scan' = Gmail!Archived(FALSE) /\ verdict' = verdict
      \/ /\ verdict[x] # "ready" /\ verdict' = [verdict EXCEPT ![x] = "refused"] /\ scan' = Gmail!At("clear")
         /\ UNCHANGED <<member, mailboxes>>
      \/ verdict[x] # "ready" /\ maps /\ verdict' = [verdict EXCEPT ![x] = "ready"] /\ scan' = Gmail!Archived(FALSE)
      \/ verdict[x] # "ready" /\ maps /\ verdict' = [verdict EXCEPT ![x] = "partial"] /\ scan' = Gmail!Archived(TRUE)
  BY <1>2, <1>4, <1>8 DEF Gmail!Processes, Gmail!Goes
<1>10. verdict[x] = "ready" => verdict = [verdict EXCEPT ![x] = "ready"]
  BY ScanTyped DEF GmailIsTyped
<1>11. ("ready" = "partial") = FALSE /\ ("partial" = "partial") = TRUE OBVIOUS
<1> QED BY <1>6, <1>7, <1>8, <1>9, <1>10, <1>11

LEMMA ReconcilesStep ==
  ASSUME GmailInv, Gmail!Reconciles
  PROVE  GmailInv'
<1>1. /\ scan.at = "labels"
      /\ UNCHANGED <<backend, labels, arrived, recent, mailboxes, verdict, rows, due, seen, torn>>
  BY DEF Gmail!Reconciles, Gmail!server, Gmail!retries, Gmail!ghosts
<1>2. PICK x \in Msgs : x = scan.m BY <1>1, ScanTyped DEF ScanIsPlaced, Busy
<1>3. /\ x \in torn /\ (Gmail!Api => scan.got = seen[x]) /\ (scan.partial => verdict[x] = "partial")
      /\ (~scan.partial => verdict[x] = "ready")
  BY <1>1, <1>2, ScanTyped DEF WorkIsRight
<1>4. PICK w \in {"fail", "clear"} : w = IF scan.partial THEN "fail" ELSE "clear" OBVIOUS
<1>5. PICK s : s = [scan EXCEPT !.at = w] BY Zenon
<1>6. scan' = s BY <1>4, <1>5 DEF Gmail!Reconciles, Gmail!Goes, Gmail!At, Gmail!AfterArchive
<1>7. s \in Scans BY <1>5, ScanTyped DEF Scans, Busy
<1>8. /\ s.at = w /\ s.rescan = scan.rescan /\ s.m = x /\ s.told = scan.told /\ s.left = scan.left
      /\ s.handled = scan.handled /\ s.must = scan.must /\ s.todo = scan.todo /\ s.last = scan.last /\ s.n = scan.n
  BY <1>2, <1>5, ScanTyped DEF Scans
<1>9. member' = [member EXCEPT ![x] = scan.got] BY <1>2 DEF Gmail!Reconciles, Gmail!Reconciled
<1>10. /\ member' \in [Msgs -> SUBSET Gmail!Labels] /\ member'[x] = scan.got
       /\ \A y \in Msgs : y # x => member'[y] = member[y]
  BY <1>9, ScanTyped DEF GmailIsTyped
<1>11. GmailIsTyped' BY <1>1, <1>10, ScanTyped DEF GmailIsTyped, Msgs, Gmail!Msgs
<1>12. WorkIsRight(s)' BY <1>1, <1>3, <1>4, <1>8, <1>10 DEF WorkIsRight, Gmail!Settled, Gmail!Api
<1>13. torn' = torn \cup {x} BY <1>1, <1>3
<1>14. s.at \in Busy BY <1>4, <1>8 DEF Busy
<1>15. \A y \in Msgs : y # scan.m => verdict'[y] = verdict[y] /\ member'[y] = member[y] /\ seen'[y] = seen[y]
  BY <1>1, <1>2, <1>10
<1> QED BY <1>1, <1>2, <1>6, <1>7, <1>8, <1>11, <1>12, <1>13, <1>14, <1>15, WorkGoesOn DEF Busy

\* A message is done with: it is settled and its row goes, or its row is written.
LEMMA WorkEnds ==
  ASSUME Gmail!Known, GmailInv, Gmail!Clears \/ Gmail!Fails
  PROVE  GmailInv'
<1>1. /\ scan.at \in {"clear", "fail"}
      /\ UNCHANGED <<backend, labels, arrived, recent, mailboxes, verdict, member, seen>>
  BY DEF Gmail!Clears, Gmail!Fails, Gmail!server, Gmail!facts
<1>2. PICK x \in Msgs : x = scan.m BY <1>1, ScanTyped DEF ScanIsPlaced, Busy
<1>3. PICK where \in {"list", "each"} : where = IF scan.rescan /\ Gmail!Api THEN "list" ELSE "each" OBVIOUS
<1>4. PICK how : how \in {scan.told, "partial"} /\
        scan' = [Gmail!Done(scan) EXCEPT !.told = how]
  <2>1. CASE Gmail!Clears
    <3>1. scan' = Gmail!Done(scan) BY <2>1 DEF Gmail!Clears, Gmail!Goes
    <3>2. Gmail!Done(scan) = [Gmail!Done(scan) EXCEPT !.told = scan.told]
      BY ScanTyped DEF Gmail!Done, Scans
    <3> QED BY <3>1, <3>2
  <2>2. CASE Gmail!Fails BY <2>2 DEF Gmail!Fails, Gmail!Goes
  <2> QED BY <2>1, <2>2
<1>5. PICK s : s = [scan EXCEPT !.at = where, !.m = 0, !.got = {}, !.partial = FALSE,
    !.handled = scan.handled \cup {x},
                                !.told = how] BY Zenon
<1>6. scan' = s
  <2>1. PICK t : t = [scan EXCEPT !.at = where, !.m = 0, !.got = {}, !.partial = FALSE,
                                  !.handled = scan.handled \cup {x}] BY Zenon
  <2>2. scan' = [t EXCEPT !.told = how] BY <1>2, <1>3, <1>4, <2>1 DEF Gmail!Done
  <2> QED BY <1>5, <2>1, <2>2, ScanTyped DEF Scans
<1>7. 0 \in 0..Messages
  <2>1. Messages \in Nat BY DEF Gmail!Known
  <2> QED BY ONLY <2>1
<1>8. how \in {"", "clean", "truncated", "partial", "cancelled", "failed"} BY <1>4, ScanTyped
<1>9. s \in Scans BY <1>2, <1>3, <1>5, <1>7, <1>8, ScanTyped DEF Scans
<1>10. /\ s.at = where /\ s.rescan = scan.rescan /\ s.m = 0 /\ s.told = how /\ s.left = scan.left
       /\ s.handled = scan.handled \cup {x} /\ s.must = scan.must /\ s.todo = scan.todo /\ s.last = scan.last
       /\ s.n = scan.n
  BY <1>5, ScanTyped DEF Scans
<1>11. PICK r \in 0..MaxAttempts : rows' = [rows EXCEPT ![x] = r] /\ (Gmail!Fails => r > 0) /\ (Gmail!Clears => r = 0)
  <2>0. MaxAttempts \in Nat \ {0} /\ rows[x] \in 0..MaxAttempts BY ScanTyped DEF Gmail!Known, GmailIsTyped
  <2>1. CASE Gmail!Clears
    <3>1. rows' = [rows EXCEPT ![x] = 0] /\ 0 \in 0..MaxAttempts /\ ~Gmail!Fails
      BY <1>2, <2>0, <2>1 DEF Gmail!Clears, Gmail!Fails
    <3> QED BY <3>1
  <2>2. CASE Gmail!Fails
    <3>1. PICK r : r = Gmail!Counted(rows[x]) BY Zenon
    <3>2. r \in 0..MaxAttempts /\ r > 0 BY <2>0, <3>1 DEF Gmail!Counted
    <3>3. rows' = [rows EXCEPT ![x] = r] /\ ~Gmail!Clears BY <1>2, <2>2, <3>1 DEF Gmail!Fails, Gmail!Clears
    <3> QED BY <3>2, <3>3
  <2> QED BY <2>1, <2>2
<1>12. /\ rows' \in [Msgs -> 0..MaxAttempts] /\ rows'[x] = r /\ \A y \in Msgs : y # x => rows'[y] = rows[y]
  BY <1>11, ScanTyped DEF GmailIsTyped
<1>13. due' = due \ {x} /\ torn' = torn \ {x} BY <1>2 DEF Gmail!Clears, Gmail!Fails
<1>14. GmailIsTyped' BY <1>1, <1>12, <1>13, ScanTyped DEF GmailIsTyped, Msgs, Gmail!Msgs
<1>15. ScanIsPlaced(s)' BY <1>1, <1>3, <1>10, ScanTyped DEF ScanIsPlaced, Gmail!Api, Busy
<1>16. MustIsAhead(s)'
  <2>1. Rest(s)' = Rest(scan) BY <1>1, <1>10 DEF Rest, Gmail!Api
  <2>2. Gmail!ToSet(s.todo)' = Gmail!ToSet(scan.todo) BY <1>10 DEF Gmail!ToSet
  <2>3. how = "clean" => scan.told = "clean" BY <1>4
  <2> QED BY <1>1, <1>2, <1>10, <2>1, <2>2, <2>3, ScanTyped DEF MustIsAhead, Ahead
<1>17. scan.at = "clear" => Gmail!Settled(x) /\ (Gmail!Api /\ verdict[x] = "ready" => member[x] = seen[x])
  BY <1>2, ScanTyped DEF WorkIsRight
<1>18. Gmail!Clears => scan.at = "clear" BY DEF Gmail!Clears
<1>19. HandledIsRight(s)'
  <2>1. ASSUME NEW y \in scan.handled \cup {x} PROVE Gmail!Settled(y)' \/ rows'[y] > 0
    <3>1. CASE y = x BY <1>1, <1>11, <1>12, <1>17, <1>18, <3>1 DEF Gmail!Settled
    <3>2. CASE y # x BY <1>1, <1>2, <1>12, <2>1, <3>2, ScanTyped DEF HandledIsRight, Gmail!Settled
    <3> QED BY <3>1, <3>2
  <2> QED BY <1>10, <2>1 DEF HandledIsRight
<1>20. WorkIsRight(s)' BY <1>3, <1>10 DEF WorkIsRight
<1>21. LabelsAreSeen'
  <2>1. ASSUME Gmail!Api, NEW y \in Msgs, verdict[y] = "ready", rows'[y] = 0, y \notin torn' PROVE member[y] = seen[y]
    <3>1. CASE y = x BY <1>11, <1>12, <1>17, <1>18, <2>1, <3>1
    <3>2. CASE y # x BY <1>12, <1>13, <2>1, <3>2, ScanTyped DEF LabelsAreSeen
    <3> QED BY <3>1, <3>2
  <2> QED BY <1>1, <2>1 DEF LabelsAreSeen, Gmail!Api
<1> QED BY <1>6, <1>9, <1>14, <1>15, <1>16, <1>19, <1>20, <1>21 DEF GmailInv, ScanIsRight

\* Every step keeps the invariant, and what is archived.
LEMMA GmailStep ==
  ASSUME Gmail!Known, GmailInv, [Gmail!Next]_(Gmail!vars)
  PROVE  GmailInv' /\ ReadyStays
<1>1. CASE UNCHANGED Gmail!vars
  <2>1. /\ UNCHANGED <<backend, labels, arrived, recent, mailboxes, verdict, member, rows, due, seen, torn>>
        /\ scan' = scan
    BY <1>1 DEF Gmail!vars, Gmail!server, Gmail!facts, Gmail!retries, Gmail!ghosts
  <2>2. mailboxes' \subseteq Gmail!Labels BY <2>1, ScanTyped DEF GmailIsTyped
  <2>3. PICK s \in Scans : scan' = s /\ ScanIsRight(s) BY <2>1 DEF GmailInv
  <2>4. GmailInv' BY <2>1, <2>2, <2>3, ScanGoesOn
  <2> QED BY <2>1, <2>4 DEF ReadyStays
<1>2. CASE Gmail!Processes BY <1>2, ProcessesStep
<1>3. CASE Gmail!Next /\ ~Gmail!Processes
  <2>1. GmailInv'
    BY <1>3, ArrivesStep, MovesAtServer, TimePasses, RoundsBeginAndBreak, DiscoversStep, LooksStep, PageFailsStep,
       SearchesStep, CompilesStep, TakesStep, GetsStep, GetFailsStep, ReconcilesStep, WorkEnds, EndsStep
    DEF Gmail!Next, Msgs
  <2>2. verdict' = verdict
    BY <1>3 DEF Gmail!Next, Gmail!facts, Gmail!Arrives, Gmail!Moves, Gmail!LeavesWindow, Gmail!BecomesDue,
      Gmail!BeginsRound, Gmail!BeginsRescan, Gmail!Begin, Gmail!Unreachable, Gmail!Discovers, Gmail!Lists,
      Gmail!PageFails, Gmail!Cancels, Gmail!Compiles, Gmail!Takes, Gmail!Gets, Gmail!EndsRescan, Gmail!ConnectFails,
      Gmail!Connects, Gmail!Searches, Gmail!SearchesRange, Gmail!CancelsRange, Gmail!TakesUid, Gmail!Fetches,
      Gmail!GetFails, Gmail!Reconciles, Gmail!Clears, Gmail!Fails, Gmail!Ends, Gmail!Dies
  <2> QED BY <2>1, <2>2 DEF ReadyStays
<1> QED BY <1>1, <1>2, <1>3

\* What the invariant says of the properties.
LEMMA GmailSafe ==
  ASSUME GmailInv
  PROVE  Gmail!TypeOK /\ Gmail!RoundIsWhole /\ Gmail!LabelsAreTrue
<1>1. Gmail!TypeOK BY ScanTyped DEF Gmail!TypeOK, GmailIsTyped, Msgs
<1>2. Gmail!RoundIsWhole
  <2>1. ASSUME scan.at = "idle" PROVE scan.todo = <<>> /\ scan.m = 0 /\ Rest(scan) = {}
    BY <2>1, ScanTyped DEF ScanIsPlaced, Busy, Rest
  <2>2. ASSUME scan.at = "idle", scan.told = "clean" \/ ~scan.rescan PROVE scan.must \subseteq scan.handled
    BY <2>1, <2>2, ScanTyped, NothingIn DEF MustIsAhead, Ahead
  <2>3. ASSUME scan.at = "idle", NEW x \in scan.handled PROVE Gmail!Settled(x) \/ rows[x] > 0
    BY <2>1, <2>3, ScanTyped, NothingIn DEF HandledIsRight
  <2> QED BY <2>2, <2>3 DEF Gmail!RoundIsWhole
<1>3. Gmail!LabelsAreTrue BY ScanTyped DEF LabelsAreSeen, Gmail!LabelsAreTrue, Msgs
<1> QED BY <1>1, <1>2, <1>3

-----------------------------------------------------------------------------
(* The parts together.                                                      *)

\* What every part keeps, whichever one a behaviour is about.
PartsInv == /\ turn \in {"file", "mail", "window", "gmail", "pages"}
            /\ FileInv /\ MailInv /\ WindowInv /\ GmailInv /\ PagesInv

\* A step of one part is a step of it, and leaves the variables of the others alone.
LEMMA StepsOfParts ==
  ASSUME [Next]_vars
  PROVE  /\ UNCHANGED turn
         /\ [File!Next]_(File!vars)
         /\ [Mail!Next]_(Mail!vars)
         /\ [Window!Next]_(Window!vars)
         /\ [Gmail!Next]_(Gmail!vars)
         /\ [Pages!Next]_(Pages!vars)
<1>1. CASE UNCHANGED vars
  <2>1. [File!Next]_(File!vars) BY <1>1 DEF vars, fileVars, File!vars, File!files, File!facts, File!mail, File!bounds
  <2>2. [Mail!Next]_(Mail!vars) BY <1>1 DEF vars, mailVars, Mail!vars, Mail!outVars, Mail!mailVars
  <2>3. [Window!Next]_(Window!vars)
    BY <1>1 DEF vars, windowVars, Window!vars, Window!autoVars, Window!sendVars, Window!quitVars
  <2>4. [Gmail!Next]_(Gmail!vars)
    BY <1>1 DEF vars, gmailVars, Gmail!vars, Gmail!server, Gmail!facts, Gmail!retries, Gmail!ghosts
  <2>5. [Pages!Next]_(Pages!vars)
    BY <1>1 DEF vars, pageVars, Pages!vars, Pages!storeVars, Pages!pendingVars, Pages!recoveryVars, Pages!ghosts
  <2> QED BY <1>1, <2>1, <2>2, <2>3, <2>4, <2>5 DEF vars
<1>2. CASE Next
  <2>1. UNCHANGED fileVars <=> UNCHANGED File!vars
    BY DEF fileVars, File!vars, File!files, File!facts, File!mail, File!bounds
  <2>2. UNCHANGED mailVars <=> UNCHANGED Mail!vars BY DEF mailVars, Mail!vars, Mail!outVars, Mail!mailVars
  <2>3. UNCHANGED windowVars <=> UNCHANGED Window!vars
    BY DEF windowVars, Window!vars, Window!autoVars, Window!sendVars, Window!quitVars
  <2>4. UNCHANGED gmailVars <=> UNCHANGED Gmail!vars
    BY DEF gmailVars, Gmail!vars, Gmail!server, Gmail!facts, Gmail!retries, Gmail!ghosts
  <2>5. UNCHANGED pageVars <=> UNCHANGED Pages!vars
    BY DEF pageVars, Pages!vars, Pages!storeVars, Pages!pendingVars, Pages!recoveryVars, Pages!ghosts
  <2>6. CASE turn = "file" /\ File!Next /\ UNCHANGED <<turn, mailVars, windowVars, gmailVars, pageVars>>
    BY <2>2, <2>3, <2>4, <2>5, <2>6
  <2>7. CASE turn = "mail" /\ Mail!Next /\ UNCHANGED <<turn, fileVars, windowVars, gmailVars, pageVars>>
    BY <2>1, <2>3, <2>4, <2>5, <2>7
  <2>8. CASE turn = "window" /\ Window!Next /\ UNCHANGED <<turn, fileVars, mailVars, gmailVars, pageVars>>
    BY <2>1, <2>2, <2>4, <2>5, <2>8
  <2>9. CASE turn = "gmail" /\ Gmail!Next /\ UNCHANGED <<turn, fileVars, mailVars, windowVars, pageVars>>
    BY <2>1, <2>2, <2>3, <2>5, <2>9
  <2>10. CASE turn = "pages" /\ Pages!Next /\ UNCHANGED <<turn, fileVars, mailVars, windowVars, gmailVars>>
    BY <2>1, <2>2, <2>3, <2>4, <2>10
  <2> QED BY <1>2, <2>6, <2>7, <2>8, <2>9, <2>10 DEF Next
<1> QED BY <1>1, <1>2

\* The invariant of every behaviour.
THEOREM Invariance == Spec => []PartsInv
<1>1. Init => PartsInv
  BY FileInit, MailInit, WindowInit, GmailInit, PagesInit, EntriesAreKnown, MailsAreBounded, LabelsAreKnown,
     RequestsAreKnown DEF Init, PartsInv
<1>2. PartsInv /\ [Next]_vars => PartsInv'
  <2> SUFFICES ASSUME PartsInv, [Next]_vars PROVE PartsInv' OBVIOUS
  <2>1. FileInv' BY StepsOfParts, FileStep, EntriesAreKnown DEF PartsInv
  <2>2. MailInv' BY StepsOfParts, MailStep, MailsAreBounded DEF PartsInv
  <2>3. WindowInv' BY StepsOfParts, WindowStep DEF PartsInv
  <2>4. GmailInv' BY StepsOfParts, GmailStep, LabelsAreKnown DEF PartsInv
  <2>5. PagesInv' BY StepsOfParts, PagesActs, RequestsAreKnown DEF PartsInv
  <2>6. turn' = turn BY StepsOfParts
  <2> QED BY <2>1, <2>2, <2>3, <2>4, <2>5, <2>6 DEF PartsInv
<1>3. QED BY <1>1, <1>2, PTL DEF Spec

\* Every variable of every part has its type.
THEOREM EverythingIsTyped == Spec => []TypesOK
<1>1. PartsInv => TypesOK
  <2> SUFFICES ASSUME PartsInv PROVE TypesOK OBVIOUS
  <2>1. File!TypeOK /\ Mail!TypeOK /\ Window!TypeOK /\ Gmail!TypeOK /\ Pages!TypeOK
    BY FileSafe, MailSafe, WindowSafe, GmailSafe, PagesSafe, EntriesAreKnown, MailsAreBounded DEF PartsInv
  <2> QED BY <2>1 DEF PartsInv, TypesOK
<1>2. QED BY <1>1, Invariance, PTL

\* What goes out. send_file_with_request: a request whose answer came, or could not have been lost, is
\* sent once, as it was hashed, and its row says so. send_outbound_mail: the end of a mail and its rows
\* say what became of each attachment. BridgeWindow: only what was confirmed is sent, no task is
\* displaced, the window is left with nothing under way, and a draft is cleared by its own success alone.
\* The pages of waiting requests: what the service is asked for is what the owner said yes to, and what
\* was cancelled stays so.
THEOREM SendsAreAlwaysTrue == Spec => SendsAreTrue
<1>1. PartsInv => /\ (turn = "file" => File!SentAsHashed /\ File!RowIsTrue)
                  /\ (turn = "mail" => Mail!FinalStateIsTrue /\ Mail!RowsFollowTheMail)
                  /\ (turn = "window" => Window!OnlyConfirmedGoesOut)
                  /\ (gone => task = Window!NoTask)
                  /\ (turn = "pages" => Pages!OnlyAskedIsDone /\ Pages!OnlyConfirmedIsSent /\ Pages!DetailIsKnown)
  BY FileSafe, MailSafe, WindowSafe, PagesSafe, EntriesAreKnown, MailsAreBounded DEF PartsInv
<1>2. PartsInv /\ [Next]_vars => [Len(inbox) > 0 /\ (fileAnswered \/ ~lost) => inbox' = inbox]_inbox
  BY StepsOfParts, FileActs, EntriesAreKnown DEF PartsInv
<1>3. PartsInv /\ [Next]_vars =>
        /\ [task.at # "idle" => task'.kind \in {task.kind, "none"}]_task
        /\ [~accepting /\ task' # Window!NoTask => task'.kind = task.kind]_task
        /\ [draft' = 0 /\ draft # 0 =>
            mails # <<>> /\ mails[Len(mails)].result # "failed" /\ task.kind = "send"]_draft
  BY StepsOfParts, WindowActs DEF PartsInv, SlotKept, DraftKept
<1>4. PartsInv /\ [Next]_vars => [\A r \in Requests : store[r] = "cancelled" => store'[r] = "cancelled"]_store
  BY StepsOfParts, PagesActs, RequestsAreKnown DEF PartsInv, CancelKept
<1>5. QED BY <1>1, <1>2, <1>3, <1>4, Invariance, PTL
  DEF Spec, SendsAreTrue, File!SentOnce, Window!NoneIsDisplaced, Window!LeavesInOrder, Window!DraftIsKept,
      Pages!CancelledStays

\* _receive_via_imap and receive_gmail_api_messages: a round that ended has settled what it handled or
\* left a row for it, a round and a rescan that says clean have handled all they listed, and an archived
\* message stays archived and has the labels it was last seen with once nothing waits for it.
THEOREM MailIsAlwaysTakenIn == Spec => MailIsTakenIn
<1>1. PartsInv => (turn = "gmail" => Gmail!RoundIsWhole /\ Gmail!LabelsAreTrue)
  BY GmailSafe DEF PartsInv
<1>2. PartsInv /\ [Next]_vars =>
        [\A m \in Gmail!Msgs : verdict[m] = "ready" => verdict'[m] = "ready"]_verdict
  BY StepsOfParts, GmailStep, LabelsAreKnown DEF PartsInv, ReadyStays, Msgs
<1>3. QED BY <1>1, <1>2, Invariance, PTL DEF Spec, MailIsTakenIn, Gmail!ArchivedStays
=============================================================================
