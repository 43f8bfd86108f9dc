-------------------------- MODULE ArchivingProofs ---------------------------
(***************************************************************************)
(* The archive of mails, what is written of them, the copies made of an    *)
(* archived mail and the rights of the Agent that asks for them, for any   *)
(* number of mails, archivers, processes, messages, preparers, resources,  *)
(* names, accounts and settings, however often the mailbox is numbered     *)
(* anew.                                                                   *)
(***************************************************************************)
EXTENDS Archiving, Sequences, FiniteSetTheorems, WellFoundedInduction, TLAPS

-----------------------------------------------------------------------------
(* WorkCopies: what a preparer has in its hands.                            *)

Copying == {"snap", "snap2", "look", "body", "manifest", "again", "again2", "aside", "publish"}
Flatly == {"pick", "copy", "check", "note"}
PrepTypes ==
  [at : {"idle"} \cup Copying \cup Flatly, policy : Copies!Policies, saw : 0..MaxVersion, snap : Copies!Versions,
   again : Copies!Versions, parts : Copies!Versions, target : 1..Last, aside : Copies!Copies,
   res : Copies!Resources \cup {""}, file : Copies!FlatNames]

CopiesAreTyped ==
  /\ archive \in Copies!Versions /\ facts \in 0..MaxVersion
  /\ place \in [1..Last -> Copies!Copies] /\ prep \in [Preparers -> PrepTypes]
  /\ flat \in [Copies!FlatNames -> Copies!Resources \cup {"", "note"}]
  /\ reported \subseteq Copies!Resources \X Copies!FlatNames
  /\ had \in BOOLEAN /\ broken \in BOOLEAN /\ met \in BOOLEAN
  /\ changes \in Nat

\* The versions of the archive only grow: what was read first is at most what was copied, that at most what
\* was read again, and that at most what is there.
HasCopied(r, part) == r.at \in {"again", "again2", "aside", "publish"} \/ (r.at = "manifest" /\ part = "body")
HasLooked(r, part) == r.at \in {"aside", "publish"} \/ (r.at = "again2" /\ part = "body")
Grows(r, part) ==
  /\ r.snap[part] <= archive[part] /\ r.parts[part] <= archive[part]
  /\ HasCopied(r, part) => r.snap[part] <= r.parts[part]
  /\ HasLooked(r, part) => r.parts[part] <= r.again[part]
HandGrows == \A p \in Preparers, part \in Copies!Parts : Grows(prep[p], part)

\* What is about to be published is of one state of the archive, and so is whatever has a name.
OneState(c) == c.is => c.parts = c.print
CopiesAreWhole ==
  /\ \A n \in 1..Last : OneState(place[n])
  /\ \A p \in Preparers : OneState(prep[p].aside)
  /\ \A p \in Preparers : prep[p].at = "publish" => prep[p].parts = prep[p].snap

\* While the requested name is free after an overwrite, the old copy is in the hands of a preparer that
\* publishes or puts it back.
Holds(r) == r.at = "publish" /\ r.aside.is /\ r.target = 1
OneIsKept == had /\ ~broken /\ ~place[1].is => \E p \in Preparers : Holds(prep[p])

\* Calls that never met: one at most is at work, and the name it has chosen is still free.
OneAtWork == \A p, q \in Preparers : prep[p].at \in Flatly /\ prep[q].at \in Flatly => p = q
ChoseFree(r) == r.at = "copy" /\ r.policy # "overwrite" => flat[r.file] = ""
FlatlyTyped(r) == r.at \in Flatly => r.res \in Copies!Resources
FlatIsKept ==
  /\ \A p \in Preparers : FlatlyTyped(prep[p])
  /\ ~met => OneAtWork /\ (\A p \in Preparers : ChoseFree(prep[p])) /\ Copies!PreparedIsKept

CopyInv == CopiesAreTyped /\ HandGrows /\ CopiesAreWhole /\ OneIsKept /\ FlatIsKept

\* The least of a set of numbers.
LEMMA Least ==
  ASSUME NEW S \in SUBSET Nat, S # {}
  PROVE  LET n == CHOOSE n \in S : \A k \in S : n <= k IN n \in S /\ \A k \in S : n <= k
<1> DEFINE R == {ss \in Nat \X Nat : ss[1] < ss[2]}
<1>1. IsWellFoundedOn(R, Nat) BY NatLessThanWellFounded DEF OpToRel
<1>2. PICK n \in S : \A k \in S : ~ (<<k, n>> \in R) BY <1>1, WFMin, Zenon
<1>3. \A k \in S : n <= k
  <2> SUFFICES ASSUME NEW k \in S PROVE n <= k OBVIOUS
  <2>1. k \in Nat /\ n \in Nat /\ ~ (k < n) BY <1>2
  <2> QED BY <2>1
<1> QED BY <1>3

LEMMA RestingIsTyped ==
  ASSUME Copies!Laid
  PROVE  /\ Copies!Blank \in Copies!Versions /\ Copies!NoCopy \in Copies!Copies
         /\ Copies!Resting \in PrepTypes
         /\ 1 \in 1..Last /\ 0 \in 0..MaxVersion
<1>l. Last \in Nat /\ Last # 0 /\ MaxVersion \in Nat BY Zenon DEF Copies!Laid
<1>a. 0 \in 0..MaxVersion /\ 1 \in 1..Last BY <1>l
<1>b. Copies!Blank \in Copies!Versions BY <1>a DEF Copies!Blank, Copies!Versions
<1>1. Copies!Blank \in Copies!Versions /\ 0 \in 0..MaxVersion /\ 1 \in 1..Last BY <1>a, <1>b
<1>2. Copies!NoCopy \in Copies!Copies BY <1>1 DEF Copies!NoCopy, Copies!Copies
<1>3. <<Note, 1>> \in Copies!FlatNames BY DEF Copies!FlatNames
<1> QED BY <1>1, <1>2, <1>3 DEF Copies!Resting, PrepTypes, Copies!Policies

\* A preparer goes on and leaves place and had as they may be, whatever it does to the flat files.
LEMMA HandKeeps ==
  ASSUME CopyInv, NEW p \in Preparers, NEW r \in PrepTypes, prep' = [prep EXCEPT ![p] = r],
         UNCHANGED <<archive, facts, changes>>,
         flat' \in [Copies!FlatNames -> Copies!Resources \cup {"", "note"}],
         reported' \subseteq Copies!Resources \X Copies!FlatNames, met' \in BOOLEAN,
         broken' \in BOOLEAN, had' \in BOOLEAN,
         place' \in [1..Last -> Copies!Copies], \A n \in 1..Last : OneState(place'[n]),
         \A part \in Copies!Parts : Grows(r, part),
         OneState(r.aside), r.at = "publish" => r.parts = r.snap,
         had' /\ ~broken' /\ ~place'[1].is =>
           Holds(r) \/ (had /\ ~broken /\ ~place[1].is /\ ~Holds(prep[p]))
  PROVE  CopiesAreTyped' /\ HandGrows' /\ CopiesAreWhole' /\ OneIsKept'
<1>0. prep \in [Preparers -> PrepTypes] BY DEF CopyInv, CopiesAreTyped
<1>1. \A q \in Preparers : prep'[q] = IF q = p THEN r ELSE prep[q] BY <1>0
<1>2. CopiesAreTyped' BY <1>0 DEF CopyInv, CopiesAreTyped
<1>3. HandGrows' BY <1>1 DEF CopyInv, HandGrows, Grows, HasCopied, HasLooked
<1>4. CopiesAreWhole'
  <2>1. \A q \in Preparers : OneState(prep'[q].aside) /\ (prep'[q].at = "publish" => prep'[q].parts = prep'[q].snap)
    BY <1>1 DEF CopyInv, CopiesAreWhole
  <2> QED BY <2>1 DEF CopiesAreWhole, OneState
<1>5. OneIsKept'
  <2> SUFFICES ASSUME had', ~broken', ~place'[1].is PROVE \E q \in Preparers : Holds(prep'[q]) BY DEF OneIsKept, Holds
  <2>1. CASE Holds(r) BY <1>1, <2>1
  <2>2. CASE had /\ ~broken /\ ~place[1].is /\ ~Holds(prep[p])
    <3>1. PICK q \in Preparers : Holds(prep[q]) BY <2>2 DEF CopyInv, OneIsKept
    <3>2. Holds(prep'[q]) BY <1>1, <2>2, <3>1
    <3> QED BY <3>2
  <2> QED BY <2>1, <2>2
<1> QED BY <1>2, <1>3, <1>4, <1>5

LEMMA FlatUntouched ==
  ASSUME CopyInv, NEW p \in Preparers, NEW r \in PrepTypes, prep' = [prep EXCEPT ![p] = r],
         UNCHANGED <<flat, reported, met>>,
         FlatlyTyped(r), ~met => ChoseFree(r), r.at \in Flatly => prep[p].at \in Flatly
  PROVE  FlatIsKept'
<1>0. prep \in [Preparers -> PrepTypes] BY DEF CopyInv, CopiesAreTyped
<1>1. \A q \in Preparers : prep'[q] = IF q = p THEN r ELSE prep[q] BY <1>0
<1>2. (\A q \in Preparers : FlatlyTyped(prep[q]))' BY <1>1 DEF CopyInv, FlatIsKept, FlatlyTyped
<1>3. ASSUME ~met PROVE OneAtWork' BY <1>1, <1>3 DEF CopyInv, FlatIsKept, OneAtWork
<1>4. ASSUME ~met PROVE (\A q \in Preparers : ChoseFree(prep[q]))' BY <1>1, <1>4 DEF CopyInv, FlatIsKept, ChoseFree
<1>5. ASSUME ~met PROVE Copies!PreparedIsKept' BY <1>5 DEF CopyInv, FlatIsKept, Copies!PreparedIsKept
<1> QED BY <1>2, <1>3, <1>4, <1>5 DEF FlatIsKept

\* A preparer goes on without touching a file.
LEMMA HandChanges ==
  ASSUME CopyInv, NEW p \in Preparers, NEW r \in PrepTypes, prep' = [prep EXCEPT ![p] = r],
         UNCHANGED <<archive, facts, place, flat, reported, had, met, changes>>,
         broken' \in BOOLEAN, broken => broken',
         \A part \in Copies!Parts : Grows(r, part),
         OneState(r.aside), r.at = "publish" => r.parts = r.snap,
         Holds(prep[p]) => broken' \/ Holds(r),
         FlatlyTyped(r), ~met => ChoseFree(r), r.at \in Flatly => prep[p].at \in Flatly
  PROVE  CopyInv'
<1>1. FlatIsKept' BY FlatUntouched
<1>2. /\ flat' \in [Copies!FlatNames -> Copies!Resources \cup {"", "note"}]
      /\ reported' \subseteq Copies!Resources \X Copies!FlatNames /\ met' \in BOOLEAN /\ had' \in BOOLEAN
      /\ place' \in [1..Last -> Copies!Copies] /\ \A n \in 1..Last : OneState(place'[n])
  BY DEF CopyInv, CopiesAreTyped, CopiesAreWhole
<1>3. had' /\ ~broken' /\ ~place'[1].is => Holds(r) \/ (had /\ ~broken /\ ~place[1].is /\ ~Holds(prep[p])) OBVIOUS
<1>4. CopiesAreTyped' /\ HandGrows' /\ CopiesAreWhole' /\ OneIsKept' BY <1>2, <1>3, HandKeeps
<1> QED BY <1>1, <1>4 DEF CopyInv

LEMMA RestingGrows ==
  ASSUME CopiesAreTyped, NEW part \in Copies!Parts
  PROVE  Grows(Copies!Resting, part)
<1>1. archive[part] \in 0..MaxVersion BY DEF CopiesAreTyped, Copies!Versions
<1>2. Copies!Resting.at = "idle" /\ Copies!Resting.snap = Copies!Blank /\ Copies!Resting.parts = Copies!Blank
  BY DEF Copies!Resting
<1>3. Copies!Blank[part] = 0 BY DEF Copies!Blank
<1> QED BY <1>1, <1>2, <1>3 DEF Grows, HasCopied, HasLooked

LEMMA CopyInit == ASSUME Copies!Laid, Copies!Init PROVE CopyInv
<1>0. /\ archive = Copies!Blank /\ facts = 0 /\ changes = 0 /\ had = FALSE /\ broken = FALSE /\ met = FALSE
      /\ place = [n \in 1..Last |-> Copies!NoCopy] /\ prep = [p \in Preparers |-> Copies!Resting]
      /\ flat = [f \in Copies!FlatNames |-> ""] /\ reported = {}
  BY DEF Copies!Init
<1>1. CopiesAreTyped BY <1>0, RestingIsTyped DEF CopiesAreTyped
<1>2. HandGrows
  <2>1. \A p \in Preparers : prep[p] = Copies!Resting BY <1>0
  <2> QED BY <1>1, <2>1, RestingGrows DEF HandGrows
<1>3. CopiesAreWhole BY <1>0 DEF CopiesAreWhole, OneState, Copies!Resting, Copies!NoCopy
<1>4. FlatIsKept BY <1>0 DEF FlatIsKept, FlatlyTyped, ChoseFree, OneAtWork, Copies!PreparedIsKept, Copies!Resting, Flatly
<1> QED BY <1>0, <1>1, <1>2, <1>3, <1>4 DEF CopyInv, OneIsKept

\* What is known of a preparer.
LEMMA OfPreparer ==
  ASSUME CopyInv, NEW p \in Preparers
  PROVE  /\ prep[p] \in PrepTypes /\ OneState(prep[p].aside) /\ FlatlyTyped(prep[p])
         /\ \A part \in Copies!Parts : /\ Grows(prep[p], part) /\ archive[part] \in 0..MaxVersion
                                       /\ prep[p].snap[part] \in 0..MaxVersion /\ prep[p].parts[part] \in 0..MaxVersion
                                       /\ prep[p].again[part] \in 0..MaxVersion
         /\ prep[p].at = "publish" => prep[p].parts = prep[p].snap
         /\ ~met => ChoseFree(prep[p])
         /\ archive \in Copies!Versions /\ changes \in Nat /\ broken \in BOOLEAN
<1>1. prep[p] \in PrepTypes /\ archive \in Copies!Versions /\ changes \in Nat /\ broken \in BOOLEAN
  BY DEF CopyInv, CopiesAreTyped
<1>2. prep[p].snap \in Copies!Versions /\ prep[p].parts \in Copies!Versions /\ prep[p].again \in Copies!Versions
  BY <1>1 DEF PrepTypes
<1>3. \A part \in Copies!Parts : Grows(prep[p], part) BY DEF CopyInv, HandGrows
<1>4. OneState(prep[p].aside) /\ (prep[p].at = "publish" => prep[p].parts = prep[p].snap) BY DEF CopyInv, CopiesAreWhole
<1>5. FlatlyTyped(prep[p]) /\ (~met => ChoseFree(prep[p])) BY DEF CopyInv, FlatIsKept
<1>6. \A part \in Copies!Parts : archive[part] \in 0..MaxVersion /\ prep[p].snap[part] \in 0..MaxVersion
        /\ prep[p].parts[part] \in 0..MaxVersion /\ prep[p].again[part] \in 0..MaxVersion
  BY <1>1, <1>2 DEF Copies!Versions
<1> QED BY <1>1, <1>3, <1>4, <1>5, <1>6

LEMMA RestsKeeps ==
  ASSUME Copies!Laid, CopyInv, NEW p \in Preparers, Copies!Sets(p, Copies!Resting),
         UNCHANGED <<archive, facts, place, flat, reported, had, met, changes>>,
         broken' \in BOOLEAN, broken => broken', Holds(prep[p]) => broken'
  PROVE  CopyInv'
<1>1. \A part \in Copies!Parts : Grows(Copies!Resting, part) BY RestingGrows DEF CopyInv
<1>2. /\ OneState(Copies!Resting.aside) /\ Copies!Resting.at = "idle"
  BY DEF OneState, Copies!Resting, Copies!NoCopy
<1>3. FlatlyTyped(Copies!Resting) /\ ChoseFree(Copies!Resting) BY <1>2 DEF FlatlyTyped, ChoseFree, Flatly
<1>4. Copies!Resting \in PrepTypes BY RestingIsTyped
<1>5. prep' = [prep EXCEPT ![p] = Copies!Resting] BY DEF Copies!Sets
<1> HIDE DEF Copies!Resting
<1> QED BY <1>1, <1>2, <1>3, <1>4, <1>5, HandChanges DEF Flatly

LEMMA StartsCopyKeeps ==
  ASSUME Copies!Laid, CopyInv, NEW p \in Preparers, NEW policy \in Copies!Policies, Copies!Starts(p, policy)
  PROVE  CopyInv'
<1> DEFINE r == [Copies!Resting EXCEPT !.at = "snap", !.policy = policy, !.saw = facts]
<1>1. prep' = [prep EXCEPT ![p] = r] /\ prep[p].at = "idle"
      /\ UNCHANGED <<archive, facts, place, flat, reported, had, met, changes, broken>>
  BY DEF Copies!Starts, Copies!Sets, Copies!At, Copies!shelf, Copies!files
<1>2. Copies!Resting \in PrepTypes BY RestingIsTyped
<1>3. facts \in 0..MaxVersion BY DEF CopyInv, CopiesAreTyped
<1>4. r \in PrepTypes BY <1>2, <1>3 DEF PrepTypes, Copying
<1>5. r.at = "snap" /\ r.snap = Copies!Blank /\ r.parts = Copies!Blank /\ r.aside = Copies!NoCopy BY DEF Copies!Resting
<1>6. \A part \in Copies!Parts : Grows(r, part)
  BY <1>5, OfPreparer DEF Grows, HasCopied, HasLooked, Copies!Blank
<1>7. OneState(r.aside) /\ FlatlyTyped(r) /\ ChoseFree(r) /\ r.at \notin Flatly
  BY <1>5 DEF OneState, FlatlyTyped, ChoseFree, Copies!NoCopy, Flatly
<1>8. ~Holds(prep[p]) BY <1>1 DEF Holds
<1>9. broken \in BOOLEAN BY OfPreparer
<1> HIDE DEF r
<1> QED BY <1>1, <1>4, <1>5, <1>6, <1>7, <1>8, <1>9, HandChanges

\* The complete copy goes on.
LEMMA CopyingKeeps ==
  ASSUME CopyInv, NEW p \in Preparers, NEW r \in PrepTypes, prep' = [prep EXCEPT ![p] = r],
         UNCHANGED <<archive, facts, place, flat, reported, had, met, changes, broken>>,
         prep[p].at \in Copying \ {"publish"}, r.at \in Copying, r.aside = prep[p].aside,
         \A part \in Copies!Parts : Grows(r, part), r.at = "publish" => r.parts = r.snap
  PROVE  CopyInv'
<1>1. FlatlyTyped(r) /\ ChoseFree(r) /\ r.at \notin Flatly BY DEF FlatlyTyped, ChoseFree, Flatly, Copying
<1>2. OneState(r.aside) /\ broken \in BOOLEAN BY OfPreparer
<1>3. ~Holds(prep[p]) BY DEF Holds
<1> QED BY <1>1, <1>2, <1>3, HandChanges

LEMMA SnapsKeeps == ASSUME CopyInv, NEW p \in Preparers, Copies!Snaps(p) PROVE CopyInv'
<1> DEFINE r1 == [prep[p] EXCEPT !.at = "snap2", !.snap["body"] = archive["body"]]
           r2 == [prep[p] EXCEPT !.at = "look", !.snap["manifest"] = archive["manifest"]]
<1>0. UNCHANGED <<archive, facts, place, flat, reported, had, met, changes, broken>>
  BY DEF Copies!Snaps, Copies!shelf, Copies!files, Copies!bounds
<1>1. prep[p] \in PrepTypes /\ prep[p].snap \in Copies!Versions /\ archive \in Copies!Versions
  BY OfPreparer DEF PrepTypes
<1>2. \A part \in Copies!Parts : Grows(prep[p], part) /\ archive[part] \in 0..MaxVersion BY OfPreparer
<1>p. "body" \in Copies!Parts /\ "manifest" \in Copies!Parts BY DEF Copies!Parts
<1>3. CASE prep[p].at = "snap" /\ prep' = [prep EXCEPT ![p] = r1]
  <2> DEFINE s == [prep[p].snap EXCEPT !["body"] = archive["body"]]
  <2>1. s \in Copies!Versions BY <1>1, <1>2, <1>p DEF Copies!Versions
  <2>2. \A part \in Copies!Parts : s[part] = IF part = "body" THEN archive["body"] ELSE prep[p].snap[part]
    BY <1>1 DEF Copies!Versions
  <2>3. r1 = [prep[p] EXCEPT !.at = "snap2", !.snap = s] OBVIOUS
  <2> HIDE DEF s
  <2>4. r1 \in PrepTypes BY <1>1, <2>1, <2>3 DEF PrepTypes, Copying
  <2>5. r1.at = "snap2" /\ r1.snap = s /\ r1.parts = prep[p].parts /\ r1.aside = prep[p].aside BY <1>1, <2>3 DEF PrepTypes
  <2> HIDE DEF r1
  <2>6. \A part \in Copies!Parts : Grows(r1, part) BY <1>2, <2>2, <2>5 DEF Grows, HasCopied, HasLooked
  <2> QED BY <1>0, <1>3, <2>4, <2>5, <2>6, CopyingKeeps DEF Copying
<1>4. CASE prep[p].at = "snap2" /\ prep' = [prep EXCEPT ![p] = r2]
  <2> DEFINE s == [prep[p].snap EXCEPT !["manifest"] = archive["manifest"]]
  <2>1. s \in Copies!Versions BY <1>1, <1>2, <1>p DEF Copies!Versions
  <2>2. \A part \in Copies!Parts : s[part] = IF part = "manifest" THEN archive["manifest"] ELSE prep[p].snap[part]
    BY <1>1 DEF Copies!Versions
  <2>3. r2 = [prep[p] EXCEPT !.at = "look", !.snap = s] OBVIOUS
  <2> HIDE DEF s
  <2>4. r2 \in PrepTypes BY <1>1, <2>1, <2>3 DEF PrepTypes, Copying
  <2>5. r2.at = "look" /\ r2.snap = s /\ r2.parts = prep[p].parts /\ r2.aside = prep[p].aside BY <1>1, <2>3 DEF PrepTypes
  <2> HIDE DEF r2
  <2>6. \A part \in Copies!Parts : Grows(r2, part) BY <1>2, <2>2, <2>5 DEF Grows, HasCopied, HasLooked
  <2> QED BY <1>0, <1>4, <2>4, <2>5, <2>6, CopyingKeeps DEF Copying
<1> QED BY <1>3, <1>4 DEF Copies!Snaps, Copies!Sets, Copies!At

\* The name a copy takes is one of those there are.
LEMMA TargetIsAName ==
  ASSUME Copies!Laid, NEW p \in Preparers, place[1].is => Copies!Free # {}
  PROVE  Copies!Target(p) \in 1..Last
<1>1. 1 \in 1..Last BY RestingIsTyped
<1>2. ASSUME Copies!Free # {} PROVE (CHOOSE n \in Copies!Free : \A k \in Copies!Free : n <= k) \in Copies!Free
  <2>1. Copies!Free \subseteq Nat BY DEF Copies!Free
  <2> QED BY <1>2, <2>1, Least
<1>3. Copies!Free \subseteq 1..Last BY DEF Copies!Free
<1> QED BY <1>1, <1>2, <1>3 DEF Copies!Target

LEMMA CopyLooksKeeps == ASSUME Copies!Laid, CopyInv, NEW p \in Preparers, Copies!Looks(p) PROVE CopyInv'
<1> DEFINE r == [prep[p] EXCEPT !.at = "body", !.target = Copies!Target(p)]
<1>0. /\ UNCHANGED <<archive, facts, place, flat, reported, had, met, changes, broken>> /\ prep[p].at = "look"
      /\ \/ Copies!Sets(p, Copies!Resting)
         \/ (place[1].is => Copies!Free # {}) /\ prep' = [prep EXCEPT ![p] = r]
  BY DEF Copies!Looks, Copies!shelf, Copies!files, Copies!bounds, Copies!At, Copies!Sets
<1>1. prep[p] \in PrepTypes /\ broken \in BOOLEAN BY OfPreparer
<1>2. CASE Copies!Sets(p, Copies!Resting) BY <1>0, <1>1, <1>2, RestsKeeps DEF Holds
<1>3. CASE (place[1].is => Copies!Free # {}) /\ prep' = [prep EXCEPT ![p] = r]
  <2>1. Copies!Target(p) \in 1..Last BY <1>3, TargetIsAName
  <2>2. r \in PrepTypes BY <1>1, <2>1 DEF PrepTypes, Copying
  <2>3. r.at = "body" /\ r.snap = prep[p].snap /\ r.parts = prep[p].parts /\ r.aside = prep[p].aside
    BY <1>1 DEF PrepTypes
  <2> HIDE DEF r
  <2>4. \A part \in Copies!Parts : Grows(r, part) BY <2>3, OfPreparer DEF Grows, HasCopied, HasLooked
  <2> QED BY <1>0, <1>3, <2>2, <2>3, <2>4, CopyingKeeps DEF Copying
<1> QED BY <1>0, <1>2, <1>3

LEMMA CopiesBodyKeeps == ASSUME Copies!Laid, CopyInv, NEW p \in Preparers, Copies!CopiesBody(p) PROVE CopyInv'
<1> DEFINE s == [prep[p].parts EXCEPT !["body"] = archive["body"]]
           r == [prep[p] EXCEPT !.at = "manifest", !.parts = s]
<1>0. /\ UNCHANGED <<archive, facts, place, flat, reported, had, met, changes, broken>> /\ prep[p].at = "body"
      /\ Copies!Sets(p, Copies!Resting) \/ prep' = [prep EXCEPT ![p] = r]
  BY DEF Copies!CopiesBody, Copies!shelf, Copies!files, Copies!bounds, Copies!At, Copies!Sets
<1>1. prep[p] \in PrepTypes /\ broken \in BOOLEAN /\ prep[p].parts \in Copies!Versions BY OfPreparer DEF PrepTypes
<1>2. CASE Copies!Sets(p, Copies!Resting) BY <1>0, <1>1, <1>2, RestsKeeps DEF Holds
<1>3. CASE prep' = [prep EXCEPT ![p] = r]
  <2>1. \A part \in Copies!Parts : Grows(prep[p], part) /\ archive[part] \in 0..MaxVersion BY OfPreparer
  <2>2. "body" \in Copies!Parts BY DEF Copies!Parts
  <2>3. s \in Copies!Versions BY <1>1, <2>1, <2>2 DEF Copies!Versions
  <2>4. \A part \in Copies!Parts : s[part] = IF part = "body" THEN archive["body"] ELSE prep[p].parts[part]
    BY <1>1 DEF Copies!Versions
  <2> HIDE DEF s
  <2>5. r \in PrepTypes BY <1>1, <2>3 DEF PrepTypes, Copying
  <2>6. r.at = "manifest" /\ r.parts = s /\ r.snap = prep[p].snap /\ r.aside = prep[p].aside BY <1>1 DEF PrepTypes
  <2> HIDE DEF r
  <2>7. \A part \in Copies!Parts : Grows(r, part) BY <2>1, <2>4, <2>6 DEF Grows, HasCopied, HasLooked
  <2> QED BY <1>0, <1>3, <2>5, <2>6, <2>7, CopyingKeeps DEF Copying
<1> QED BY <1>0, <1>2, <1>3

LEMMA CopiesManifestKeeps == ASSUME CopyInv, NEW p \in Preparers, Copies!CopiesManifest(p) PROVE CopyInv'
<1> DEFINE s == [prep[p].parts EXCEPT !["manifest"] = archive["manifest"]]
           r == [prep[p] EXCEPT !.at = "again", !.parts = s]
<1>0. /\ UNCHANGED <<archive, facts, place, flat, reported, had, met, changes, broken>> /\ prep[p].at = "manifest"
      /\ prep' = [prep EXCEPT ![p] = r]
  BY DEF Copies!CopiesManifest, Copies!shelf, Copies!files, Copies!bounds, Copies!At, Copies!Sets
<1>1. prep[p] \in PrepTypes /\ prep[p].parts \in Copies!Versions BY OfPreparer DEF PrepTypes
<1>2. \A part \in Copies!Parts : Grows(prep[p], part) /\ archive[part] \in 0..MaxVersion BY OfPreparer
<1>p. Copies!Parts = {"body", "manifest"} BY DEF Copies!Parts
<1>3. s \in Copies!Versions BY <1>1, <1>2, <1>p DEF Copies!Versions
<1>4. \A part \in Copies!Parts : s[part] = IF part = "manifest" THEN archive["manifest"] ELSE prep[p].parts[part]
  BY <1>1 DEF Copies!Versions
<1> HIDE DEF s
<1>5. r \in PrepTypes BY <1>1, <1>3 DEF PrepTypes, Copying
<1>6. r.at = "again" /\ r.parts = s /\ r.snap = prep[p].snap /\ r.aside = prep[p].aside BY <1>1 DEF PrepTypes
<1> HIDE DEF r
<1>7. \A part \in Copies!Parts : Grows(r, part) BY <1>0, <1>2, <1>p, <1>4, <1>6 DEF Grows, HasCopied, HasLooked
<1> QED BY <1>0, <1>5, <1>6, <1>7, CopyingKeeps DEF Copying

LEMMA SnapsAgainKeeps == ASSUME CopyInv, NEW p \in Preparers, Copies!SnapsAgain(p) PROVE CopyInv'
<1> DEFINE s1 == [prep[p].again EXCEPT !["body"] = archive["body"]]
           s2 == [prep[p].again EXCEPT !["manifest"] = archive["manifest"]]
           r1 == [prep[p] EXCEPT !.at = "again2", !.again = s1]
           r2 == [prep[p] EXCEPT !.at = "aside", !.again = s2]
<1>0. /\ UNCHANGED <<archive, facts, place, flat, reported, had, met, changes, broken>>
      /\ \/ prep[p].at = "again" /\ prep' = [prep EXCEPT ![p] = r1]
         \/ prep[p].at = "again2" /\ prep' = [prep EXCEPT ![p] = r2]
  BY DEF Copies!SnapsAgain, Copies!shelf, Copies!files, Copies!bounds, Copies!At, Copies!Sets
<1>1. prep[p] \in PrepTypes /\ prep[p].again \in Copies!Versions BY OfPreparer DEF PrepTypes
<1>2. \A part \in Copies!Parts : Grows(prep[p], part) /\ archive[part] \in 0..MaxVersion BY OfPreparer
<1>p. Copies!Parts = {"body", "manifest"} BY DEF Copies!Parts
<1>3. s1 \in Copies!Versions /\ s2 \in Copies!Versions BY <1>1, <1>2, <1>p DEF Copies!Versions
<1>4. \A part \in Copies!Parts : /\ s1[part] = IF part = "body" THEN archive["body"] ELSE prep[p].again[part]
                                 /\ s2[part] = IF part = "manifest" THEN archive["manifest"] ELSE prep[p].again[part]
  BY <1>1 DEF Copies!Versions
<1> HIDE DEF s1, s2
<1>5. r1 \in PrepTypes /\ r2 \in PrepTypes BY <1>1, <1>3 DEF PrepTypes, Copying
<1>6. /\ r1.at = "again2" /\ r1.parts = prep[p].parts /\ r1.snap = prep[p].snap /\ r1.aside = prep[p].aside
      /\ r1.again = s1
      /\ r2.at = "aside" /\ r2.parts = prep[p].parts /\ r2.snap = prep[p].snap /\ r2.aside = prep[p].aside
      /\ r2.again = s2
  BY <1>1 DEF PrepTypes
<1> HIDE DEF r1, r2
<1>7. CASE prep[p].at = "again" /\ prep' = [prep EXCEPT ![p] = r1]
  <2>1. \A part \in Copies!Parts : Grows(r1, part) BY <1>2, <1>p, <1>4, <1>6, <1>7 DEF Grows, HasCopied, HasLooked
  <2> QED BY <1>0, <1>5, <1>6, <1>7, <2>1, CopyingKeeps DEF Copying
<1>8. CASE prep[p].at = "again2" /\ prep' = [prep EXCEPT ![p] = r2]
  <2>1. \A part \in Copies!Parts : Grows(r2, part) BY <1>2, <1>p, <1>4, <1>6, <1>8 DEF Grows, HasCopied, HasLooked
  <2> QED BY <1>0, <1>5, <1>6, <1>8, <2>1, CopyingKeeps DEF Copying
<1> QED BY <1>0, <1>7, <1>8

\* An archive that is what it was before the copy was it all the while.
LEMMA UnchangedIsOneState ==
  ASSUME CopyInv, NEW p \in Preparers, prep[p].at = "aside", Copies!Unchanged(p)
  PROVE  prep[p].parts = prep[p].snap
<1>1. prep[p].snap \in Copies!Versions /\ prep[p].parts \in Copies!Versions BY OfPreparer DEF PrepTypes
<1>2. \A part \in Copies!Parts : prep[p].snap[part] = prep[p].parts[part]
  <2> SUFFICES ASSUME NEW part \in Copies!Parts PROVE prep[p].snap[part] = prep[p].parts[part] OBVIOUS
  <2>1. prep[p].snap[part] <= prep[p].parts[part] /\ prep[p].parts[part] <= prep[p].again[part]
    BY OfPreparer DEF Grows, HasCopied, HasLooked
  <2>2. prep[p].again[part] = prep[p].snap[part] BY DEF Copies!Unchanged
  <2>3. prep[p].snap[part] \in 0..MaxVersion /\ prep[p].parts[part] \in 0..MaxVersion BY OfPreparer
  <2> QED BY <2>1, <2>2, <2>3
<1> QED BY <1>1, <1>2 DEF Copies!Versions

LEMMA SetsAsideKeeps == ASSUME Copies!Laid, CopyInv, NEW p \in Preparers, Copies!SetsAside(p) PROVE CopyInv'
<1> DEFINE t == prep[p].target
           r1 == [prep[p] EXCEPT !.at = "publish", !.aside = place[t]]
           r2 == [prep[p] EXCEPT !.at = "publish"]
<1>0. /\ UNCHANGED <<archive, facts, flat, reported, had, met, changes, broken>> /\ prep[p].at = "aside"
      /\ \/ Copies!Sets(p, Copies!Resting) /\ UNCHANGED place
         \/ /\ Copies!Unchanged(p) /\ Copies!Replaces(p)
            /\ prep' = [prep EXCEPT ![p] = r1] /\ place' = [place EXCEPT ![t] = Copies!NoCopy]
         \/ Copies!Unchanged(p) /\ prep' = [prep EXCEPT ![p] = r2] /\ UNCHANGED place
  BY DEF Copies!SetsAside, Copies!shelf, Copies!files, Copies!bounds, Copies!At, Copies!Sets, Copies!Goes
<1>1. prep[p] \in PrepTypes /\ broken \in BOOLEAN /\ t \in 1..Last BY OfPreparer DEF PrepTypes
<1>2. \A part \in Copies!Parts : Grows(prep[p], part) BY OfPreparer
<1>t. /\ place \in [1..Last -> Copies!Copies] /\ \A n \in 1..Last : OneState(place[n])
      /\ had \in BOOLEAN /\ met \in BOOLEAN
      /\ flat \in [Copies!FlatNames -> Copies!Resources \cup {"", "note"}]
      /\ reported \subseteq Copies!Resources \X Copies!FlatNames
  BY DEF CopyInv, CopiesAreTyped, CopiesAreWhole
<1>3. CASE Copies!Sets(p, Copies!Resting) /\ UNCHANGED place BY <1>0, <1>1, <1>3, RestsKeeps DEF Holds
<1>4. CASE /\ Copies!Unchanged(p) /\ Copies!Replaces(p)
           /\ prep' = [prep EXCEPT ![p] = r1] /\ place' = [place EXCEPT ![t] = Copies!NoCopy]
  <2>1. r1 \in PrepTypes BY <1>1, <1>t DEF PrepTypes, Copying
  <2>2. /\ r1.at = "publish" /\ r1.snap = prep[p].snap /\ r1.parts = prep[p].parts /\ r1.again = prep[p].again
        /\ r1.aside = place[t] /\ r1.target = t
    BY <1>1 DEF PrepTypes
  <2> HIDE DEF r1
  <2>3. \A part \in Copies!Parts : Grows(r1, part) BY <1>0, <1>2, <2>2 DEF Grows, HasCopied, HasLooked
  <2>4. r1.parts = r1.snap BY <1>0, <1>4, <2>2, UnchangedIsOneState
  <2>5. Copies!NoCopy \in Copies!Copies /\ OneState(Copies!NoCopy) BY RestingIsTyped DEF OneState, Copies!NoCopy
  <2>6. place' \in [1..Last -> Copies!Copies] /\ \A n \in 1..Last : OneState(place'[n]) BY <1>1, <1>t, <1>4, <2>5
  <2>7. had' /\ ~broken' /\ ~place'[1].is => Holds(r1) \/ (had /\ ~broken /\ ~place[1].is /\ ~Holds(prep[p]))
    <3>1. CASE t = 1 BY <1>4, <2>2, <3>1 DEF Holds, Copies!Replaces
    <3>2. CASE t # 1
      <4>1. place'[1] = place[1] BY <1>4, <1>t, <3>2, RestingIsTyped
      <4> QED BY <1>0, <4>1 DEF Holds
    <3> QED BY <3>1, <3>2
  <2>8. CopiesAreTyped' /\ HandGrows' /\ CopiesAreWhole' /\ OneIsKept'
    BY <1>0, <1>1, <1>t, <1>4, <2>1, <2>2, <2>3, <2>4, <2>6, <2>7, HandKeeps
  <2>9. FlatIsKept' BY <1>0, <1>4, <2>1, <2>2, FlatUntouched DEF FlatlyTyped, ChoseFree, Flatly
  <2> QED BY <2>8, <2>9 DEF CopyInv
<1>5. CASE Copies!Unchanged(p) /\ prep' = [prep EXCEPT ![p] = r2] /\ UNCHANGED place
  <2>1. r2 \in PrepTypes BY <1>1 DEF PrepTypes, Copying
  <2>2. /\ r2.at = "publish" /\ r2.snap = prep[p].snap /\ r2.parts = prep[p].parts /\ r2.again = prep[p].again
        /\ r2.aside = prep[p].aside
    BY <1>1 DEF PrepTypes
  <2> HIDE DEF r2
  <2>3. \A part \in Copies!Parts : Grows(r2, part) BY <1>0, <1>2, <2>2 DEF Grows, HasCopied, HasLooked
  <2>4. r2.parts = r2.snap BY <1>0, <1>5, <2>2, UnchangedIsOneState
  <2> QED BY <1>0, <1>5, <2>1, <2>2, <2>3, <2>4, CopyingKeeps DEF Copying
<1> QED BY <1>0, <1>3, <1>4, <1>5

\* The publisher rests, whatever it has done to the place of its copy.
LEMMA PublisherRests ==
  ASSUME Copies!Laid, CopyInv, NEW p \in Preparers, prep[p].at = "publish", Copies!Sets(p, Copies!Resting),
         NEW c \in Copies!Copies, OneState(c), place' = [place EXCEPT ![prep[p].target] = c],
         UNCHANGED <<archive, facts, flat, reported, met, changes, broken>>, had' \in BOOLEAN,
         had' => had \/ prep[p].target = 1, prep[p].target = 1 /\ had' => had \/ c.is, prep[p].target = 1 /\ prep[p].aside.is => c.is, place[prep[p].target].is => c.is
  PROVE  CopyInv'
<1> DEFINE t == prep[p].target
<1>1. prep[p] \in PrepTypes /\ broken \in BOOLEAN /\ t \in 1..Last /\ 1 \in 1..Last
  BY OfPreparer, RestingIsTyped DEF PrepTypes
<1>2. /\ place \in [1..Last -> Copies!Copies] /\ \A n \in 1..Last : OneState(place[n])
      /\ had \in BOOLEAN /\ met \in BOOLEAN
      /\ flat \in [Copies!FlatNames -> Copies!Resources \cup {"", "note"}]
      /\ reported \subseteq Copies!Resources \X Copies!FlatNames
  BY DEF CopyInv, CopiesAreTyped, CopiesAreWhole
<1>3. \A part \in Copies!Parts : Grows(Copies!Resting, part) BY RestingGrows DEF CopyInv
<1>4. /\ OneState(Copies!Resting.aside) /\ Copies!Resting.at = "idle" /\ Copies!Resting \in PrepTypes
  BY RestingIsTyped DEF OneState, Copies!Resting, Copies!NoCopy
<1>5. prep' = [prep EXCEPT ![p] = Copies!Resting] BY DEF Copies!Sets
<1>6. place' \in [1..Last -> Copies!Copies] /\ \A n \in 1..Last : OneState(place'[n]) BY <1>1, <1>2
<1>7. had' /\ ~broken' /\ ~place'[1].is => had /\ ~broken /\ ~place[1].is /\ ~Holds(prep[p])
  <2>1. CASE t = 1
    <3>1. place'[1] = c BY <1>1, <1>2, <2>1
    <3> QED BY <2>1, <3>1 DEF Holds
  <2>2. CASE t # 1 /\ (had' => had)
    <3>1. place'[1] = place[1] BY <1>1, <1>2, <2>2
    <3> QED BY <2>2, <3>1 DEF Holds
  <2> QED BY <2>1, <2>2
<1>8. CopiesAreTyped' /\ HandGrows' /\ CopiesAreWhole' /\ OneIsKept'
  BY <1>1, <1>2, <1>3, <1>4, <1>5, <1>6, <1>7, HandKeeps
<1>9. FlatIsKept' BY <1>4, <1>5, FlatUntouched DEF FlatlyTyped, ChoseFree, Flatly
<1> QED BY <1>8, <1>9 DEF CopyInv

LEMMA CopyPublishesKeeps == ASSUME Copies!Laid, CopyInv, NEW p \in Preparers, Copies!Publishes(p) PROVE CopyInv'
<1> DEFINE c == Copies!Staged(p)
<1>1. /\ prep[p].at = "publish" /\ ~place[prep[p].target].is /\ Copies!Sets(p, Copies!Resting)
      /\ place' = [place EXCEPT ![prep[p].target] = c] /\ had' = (had \/ prep[p].target = 1)
      /\ UNCHANGED <<archive, facts, flat, reported, met, changes, broken>>
  BY DEF Copies!Publishes, Copies!At, Copies!shelf, Copies!files, Copies!bounds
<1>2. prep[p] \in PrepTypes /\ prep[p].parts = prep[p].snap BY <1>1, OfPreparer
<1>3. c \in Copies!Copies /\ OneState(c) /\ c.is
  BY <1>2 DEF Copies!Staged, Copies!Copies, OneState, PrepTypes
<1>4. had' \in BOOLEAN BY <1>1
<1> HIDE DEF c
<1> QED BY <1>1, <1>3, <1>4, PublisherRests

LEMMA CopyPublishFailsKeeps == ASSUME Copies!Laid, CopyInv, NEW p \in Preparers, Copies!PublishFails(p) PROVE CopyInv'
<1> DEFINE c == Copies!PutBack(p)
<1>1. /\ prep[p].at = "publish" /\ Copies!Sets(p, Copies!Resting)
      /\ place' = [place EXCEPT ![prep[p].target] = c] /\ had' = had
      /\ UNCHANGED <<archive, facts, flat, reported, met, changes, broken>>
  BY DEF Copies!PublishFails, Copies!At, Copies!shelf, Copies!files, Copies!bounds
<1>2. prep[p] \in PrepTypes /\ OneState(prep[p].aside) BY OfPreparer
<1>3. place[prep[p].target] \in Copies!Copies /\ OneState(place[prep[p].target]) /\ had \in BOOLEAN
  BY <1>2 DEF PrepTypes, CopyInv, CopiesAreTyped, CopiesAreWhole
<1>4. c \in Copies!Copies /\ OneState(c) BY <1>2, <1>3 DEF Copies!PutBack, PrepTypes
<1>5. (prep[p].target = 1 /\ prep[p].aside.is => c.is) /\ (place[prep[p].target].is => c.is) BY DEF Copies!PutBack
<1> HIDE DEF c
<1> QED BY <1>1, <1>3, <1>4, <1>5, PublisherRests

LEMMA CopyEndsBadlyKeeps ==
  ASSUME Copies!Laid, CopyInv, NEW p \in Preparers, Copies!PutBackFails(p) \/ Copies!Dies(p)
  PROVE  CopyInv'
<1>1. /\ Copies!Sets(p, Copies!Resting) /\ broken' = TRUE
      /\ UNCHANGED <<archive, facts, place, flat, reported, had, met, changes>>
  BY DEF Copies!PutBackFails, Copies!Dies, Copies!shelf, Copies!files
<1> QED BY <1>1, RestsKeeps

\* A preparer leaves the copy of a resource for the note.
LEMMA NotesKeeps ==
  ASSUME CopyInv, NEW p \in Preparers, prep[p].at \in Flatly, prep' = [prep EXCEPT ![p] = [prep[p] EXCEPT !.at = "note"]],
         UNCHANGED <<archive, facts, place, flat, reported, had, met, changes, broken>>
  PROVE  CopyInv'
<1> DEFINE r == [prep[p] EXCEPT !.at = "note"]
<1>1. prep[p] \in PrepTypes /\ broken \in BOOLEAN BY OfPreparer
<1>2. r \in PrepTypes BY <1>1 DEF PrepTypes, Flatly
<1>3. /\ r.at = "note" /\ r.snap = prep[p].snap /\ r.parts = prep[p].parts /\ r.again = prep[p].again
      /\ r.aside = prep[p].aside /\ r.res = prep[p].res
  BY <1>1 DEF PrepTypes
<1> HIDE DEF r
<1>4. FlatlyTyped(r) /\ ChoseFree(r) BY <1>3, OfPreparer DEF FlatlyTyped, ChoseFree
<1>5. \A part \in Copies!Parts : Grows(r, part) BY <1>3, OfPreparer DEF Grows, HasCopied, HasLooked
<1>6. OneState(r.aside) /\ ~Holds(prep[p]) BY <1>3, OfPreparer DEF Holds, Flatly
<1> QED BY <1>1, <1>2, <1>3, <1>4, <1>5, <1>6, HandChanges DEF r

LEMMA CopyFailsKeeps == ASSUME Copies!Laid, CopyInv, NEW p \in Preparers, Copies!Fails(p) PROVE CopyInv'
<1> DEFINE r == [prep[p] EXCEPT !.at = "note"]
<1>1. /\ UNCHANGED <<archive, facts, place, flat, reported, had, met, changes, broken>>
      /\ prep[p].at \in {"snap", "body", "manifest", "aside", "copy"}
      /\ Copies!Sets(p, Copies!Resting) \/ (prep[p].at = "copy" /\ prep' = [prep EXCEPT ![p] = r])
  BY DEF Copies!Fails, Copies!shelf, Copies!files, Copies!At, Copies!Goes, Copies!Sets
<1>2. prep[p] \in PrepTypes /\ broken \in BOOLEAN BY OfPreparer
<1>3. CASE Copies!Sets(p, Copies!Resting) BY <1>1, <1>2, <1>3, RestsKeeps DEF Holds
<1>4. CASE prep[p].at = "copy" /\ prep' = [prep EXCEPT ![p] = r] BY <1>1, <1>4, NotesKeeps DEF Flatly
<1> QED BY <1>1, <1>3, <1>4

LEMMA StartsFlatKeeps ==
  ASSUME Copies!Laid, CopyInv, NEW p \in Preparers, NEW policy \in Copies!Policies, NEW res \in Copies!Resources,
         Copies!StartsFlat(p, policy, res)
  PROVE  CopyInv'
<1> DEFINE r == [Copies!Resting EXCEPT !.at = "pick", !.policy = policy, !.res = res]
<1>1. /\ prep' = [prep EXCEPT ![p] = r] /\ prep[p].at = "idle"
      /\ met' = (met \/ \E q \in Preparers \ {p} : prep[q].at \in Flatly)
      /\ UNCHANGED <<archive, facts, place, flat, reported, had, changes, broken>>
  BY DEF Copies!StartsFlat, Copies!Sets, Copies!At, Copies!shelf, Flatly
<1>2. r \in PrepTypes BY RestingIsTyped DEF PrepTypes, Flatly
<1>3. /\ r.at = "pick" /\ r.snap = Copies!Resting.snap /\ r.parts = Copies!Resting.parts
      /\ r.aside = Copies!NoCopy /\ r.res = res
  BY DEF Copies!Resting
<1> HIDE DEF r
<1>4. \A part \in Copies!Parts : Grows(r, part)
  BY <1>3, RestingGrows DEF CopyInv, Grows, HasCopied, HasLooked
<1>5. /\ place \in [1..Last -> Copies!Copies] /\ \A n \in 1..Last : OneState(place[n])
      /\ had \in BOOLEAN /\ met \in BOOLEAN /\ broken \in BOOLEAN /\ prep \in [Preparers -> PrepTypes]
      /\ flat \in [Copies!FlatNames -> Copies!Resources \cup {"", "note"}]
      /\ reported \subseteq Copies!Resources \X Copies!FlatNames
  BY DEF CopyInv, CopiesAreTyped, CopiesAreWhole
<1>6. OneState(r.aside) BY <1>3 DEF OneState, Copies!NoCopy
<1>7. ~Holds(prep[p]) /\ met' \in BOOLEAN BY <1>1, <1>5 DEF Holds
<1>8. CopiesAreTyped' /\ HandGrows' /\ CopiesAreWhole' /\ OneIsKept'
  BY <1>1, <1>2, <1>3, <1>4, <1>5, <1>6, <1>7, HandKeeps
<1>9. FlatIsKept'
  <2>1. \A q \in Preparers : prep'[q] = IF q = p THEN r ELSE prep[q] BY <1>1, <1>5
  <2>2. \A q \in Preparers : FlatlyTyped(prep'[q]) BY <2>1, <1>3 DEF CopyInv, FlatIsKept, FlatlyTyped
  <2>3. ASSUME ~met' PROVE OneAtWork'
    <3>1. ~met /\ \A q \in Preparers : q # p => prep[q].at \notin Flatly BY <1>1, <2>3
    <3>2. \A q \in Preparers : prep'[q].at \in Flatly => q = p BY <2>1, <3>1
    <3> QED BY <3>2 DEF OneAtWork
  <2>4. ASSUME ~met' PROVE (\A q \in Preparers : ChoseFree(prep[q]))'
    BY <1>1, <1>3, <2>1, <2>4 DEF CopyInv, FlatIsKept, ChoseFree
  <2>5. ASSUME ~met' PROVE Copies!PreparedIsKept' BY <1>1, <2>5 DEF CopyInv, FlatIsKept, Copies!PreparedIsKept
  <2> QED BY <2>2, <2>3, <2>4, <2>5 DEF FlatIsKept, FlatlyTyped
<1> QED BY <1>8, <1>9 DEF CopyInv

LEMMA FreeNamesAreNumbers == ASSUME NEW r PROVE Copies!FreeNames(r) \subseteq Nat
<1> SUFFICES ASSUME NEW n \in Copies!FreeNames(r) PROVE n \in Nat OBVIOUS
<1>1. n \in 1..Last BY Zenon DEF Copies!FreeNames
<1> QED BY <1>1

LEMMA IsAFlatName ==
  ASSUME NEW r \in Copies!Resources, NEW n \in 1..Last
  PROVE  <<Shown[r], n>> \in Copies!FlatNames
<1>1. <<Shown[r], n>> \in {<<Shown[q], k>> : q \in Copies!Resources, k \in 1..Last} OBVIOUS
<1> QED BY <1>1 DEF Copies!FlatNames

LEMMA PicksKeeps == ASSUME Copies!Laid, CopyInv, NEW p \in Preparers, Copies!Picks(p) PROVE CopyInv'
<1> DEFINE res == prep[p].res
           taken == flat[<<Shown[res], 1>>] # ""
           n == IF prep[p].policy = "overwrite" \/ ~taken THEN 1
                ELSE CHOOSE k \in Copies!FreeNames(res) : \A j \in Copies!FreeNames(res) : k <= j
           r1 == [prep[p] EXCEPT !.at = "note"]
           r2 == [prep[p] EXCEPT !.at = "copy", !.file = <<Shown[res], n>>]
<1>1. /\ UNCHANGED <<archive, facts, place, flat, reported, had, met, changes, broken>> /\ prep[p].at = "pick"
      /\ \/ prep' = [prep EXCEPT ![p] = r1]
         \/ /\ ~(taken /\ prep[p].policy = "error") /\ (taken /\ prep[p].policy = "rename" => Copies!FreeNames(res) # {})
            /\ prep' = [prep EXCEPT ![p] = r2]
  BY DEF Copies!Picks, Copies!shelf, Copies!files, Copies!bounds, Copies!At, Copies!Goes, Copies!Sets
<1>2. /\ prep[p] \in PrepTypes /\ prep[p].policy \in {"rename", "error", "overwrite"} /\ res \in Copies!Resources
      /\ 1 \in 1..Last
  BY <1>1, OfPreparer, RestingIsTyped DEF PrepTypes, FlatlyTyped, Flatly, Copies!Policies
<1>3. CASE prep' = [prep EXCEPT ![p] = r1] BY <1>1, <1>3, NotesKeeps DEF Flatly
<1>4. CASE /\ ~(taken /\ prep[p].policy = "error") /\ (taken /\ prep[p].policy = "rename" => Copies!FreeNames(res) # {})
           /\ prep' = [prep EXCEPT ![p] = r2]
  <2>1. n \in 1..Last /\ (prep[p].policy # "overwrite" => flat[<<Shown[res], n>>] = "")
    <3>1. CASE prep[p].policy = "overwrite" \/ ~taken BY <1>2, <3>1
    <3>2. CASE ~(prep[p].policy = "overwrite" \/ ~taken)
      <4>1. Copies!FreeNames(res) # {} BY <1>2, <1>4, <3>2
      <4>2. Copies!FreeNames(res) \in SUBSET Nat BY FreeNamesAreNumbers
      <4>3. n \in Copies!FreeNames(res) BY <3>2, <4>1, <4>2, Least
      <4> QED BY <4>3 DEF Copies!FreeNames
    <3> QED BY <3>1, <3>2
  <2> HIDE DEF n
  <2>2. <<Shown[res], n>> \in Copies!FlatNames BY <1>2, <2>1, IsAFlatName
  <2>3. r2 \in PrepTypes BY <1>2, <2>2 DEF PrepTypes, Flatly
  <2>4. /\ r2.at = "copy" /\ r2.file = <<Shown[res], n>> /\ r2.policy = prep[p].policy /\ r2.res = res
        /\ r2.snap = prep[p].snap /\ r2.parts = prep[p].parts /\ r2.aside = prep[p].aside
    BY <1>2 DEF PrepTypes
  <2> HIDE DEF r2
  <2>5. FlatlyTyped(r2) /\ ChoseFree(r2) BY <1>2, <2>1, <2>4 DEF FlatlyTyped, ChoseFree
  <2>6. \A part \in Copies!Parts : Grows(r2, part) BY <1>1, <2>4, OfPreparer DEF Grows, HasCopied, HasLooked
  <2>7. OneState(r2.aside) /\ broken \in BOOLEAN /\ ~Holds(prep[p]) BY <1>1, <2>4, OfPreparer DEF Holds
  <2> QED BY <1>1, <1>4, <2>3, <2>4, <2>5, <2>6, <2>7, HandChanges DEF Flatly
<1> QED BY <1>1, <1>3, <1>4

\* A preparer in the flat directory goes on with its record as it is but for where it is.
LEMMA FlatHandKeeps ==
  ASSUME CopyInv, NEW p \in Preparers, NEW where \in {"check", "note"}, prep[p].at \in Flatly,
         prep' = [prep EXCEPT ![p] = [prep[p] EXCEPT !.at = where]],
         UNCHANGED <<archive, facts, place, had, met, changes, broken>>,
         flat' \in [Copies!FlatNames -> Copies!Resources \cup {"", "note"}],
         reported' \subseteq Copies!Resources \X Copies!FlatNames,
         ~met => Copies!PreparedIsKept'
  PROVE  CopyInv'
<1> DEFINE r == [prep[p] EXCEPT !.at = where]
<1>1. prep[p] \in PrepTypes BY OfPreparer
<1>2. r \in PrepTypes BY <1>1 DEF PrepTypes, Flatly
<1>3. /\ r.at = where /\ r.snap = prep[p].snap /\ r.parts = prep[p].parts /\ r.again = prep[p].again
      /\ r.aside = prep[p].aside /\ r.res = prep[p].res
  BY <1>1 DEF PrepTypes
<1>a. prep' = [prep EXCEPT ![p] = r] OBVIOUS
<1> HIDE DEF r
<1>4. \A part \in Copies!Parts : Grows(r, part) BY <1>3, OfPreparer DEF Grows, HasCopied, HasLooked
<1>5. /\ place \in [1..Last -> Copies!Copies] /\ \A n \in 1..Last : OneState(place[n])
      /\ had \in BOOLEAN /\ met \in BOOLEAN /\ broken \in BOOLEAN /\ prep \in [Preparers -> PrepTypes]
  BY DEF CopyInv, CopiesAreTyped, CopiesAreWhole
<1>6. OneState(r.aside) /\ ~Holds(prep[p]) /\ r.at # "publish" BY <1>3, OfPreparer DEF Holds, Flatly
<1>7. CopiesAreTyped' /\ HandGrows' /\ CopiesAreWhole' /\ OneIsKept'
  BY <1>a, <1>2, <1>4, <1>5, <1>6, HandKeeps
<1>8. FlatIsKept'
  <2>1. \A q \in Preparers : prep'[q] = IF q = p THEN r ELSE prep[q] BY <1>a, <1>5
  <2>2. FlatlyTyped(r) BY <1>3, OfPreparer DEF FlatlyTyped
  <2>3. \A q \in Preparers : FlatlyTyped(prep'[q]) BY <2>1, <2>2 DEF CopyInv, FlatIsKept
  <2>4. ASSUME ~met PROVE OneAtWork'
    <3>1. \A q \in Preparers : prep[q].at \in Flatly => q = p BY <2>4 DEF CopyInv, FlatIsKept, OneAtWork
    <3>2. \A q \in Preparers : prep'[q].at \in Flatly => q = p BY <2>1, <3>1
    <3> QED BY <3>2 DEF OneAtWork
  <2>5. ASSUME ~met PROVE (\A q \in Preparers : ChoseFree(prep[q]))'
    \* Nobody else is at work in the directory.
    <3> SUFFICES ASSUME NEW q \in Preparers PROVE ChoseFree(prep[q])' OBVIOUS
    <3>1. CASE q = p BY <1>3, <2>1, <3>1 DEF ChoseFree
    <3>2. CASE q # p
      <4>1. prep'[q] = prep[q] /\ prep[q].at \notin Flatly BY <2>1, <2>5, <3>2 DEF CopyInv, FlatIsKept, OneAtWork
      <4> QED BY <4>1 DEF ChoseFree, Flatly
    <3> QED BY <3>1, <3>2
  <2> QED BY <2>3, <2>4, <2>5 DEF FlatIsKept, FlatlyTyped
<1> QED BY <1>7, <1>8 DEF CopyInv

LEMMA CopiedKeeps == ASSUME Copies!Laid, CopyInv, NEW p \in Preparers, Copies!Copied(p) PROVE CopyInv'
<1>1. /\ prep[p].at = "copy" /\ flat' = [flat EXCEPT ![prep[p].file] = prep[p].res]
      /\ reported' = IF prep[p].policy = "overwrite" THEN {x \in reported : x[2] # prep[p].file} ELSE reported
      /\ prep' = [prep EXCEPT ![p] = [prep[p] EXCEPT !.at = "check"]]
      /\ UNCHANGED <<archive, facts, place, met, changes, had, broken>>
  BY DEF Copies!Copied, Copies!At, Copies!Goes, Copies!Sets, Copies!shelf, Copies!bounds
<1>2. prep[p] \in PrepTypes /\ prep[p].res \in Copies!Resources /\ prep[p].file \in Copies!FlatNames
  BY <1>1, OfPreparer DEF FlatlyTyped, Flatly, PrepTypes
<1>3. /\ flat \in [Copies!FlatNames -> Copies!Resources \cup {"", "note"}]
      /\ reported \subseteq Copies!Resources \X Copies!FlatNames
  BY DEF CopyInv, CopiesAreTyped
<1>4. reported' \subseteq reported BY <1>1
<1>5. ASSUME ~met PROVE Copies!PreparedIsKept'
  <2> SUFFICES ASSUME NEW x \in reported', x[2][1] # Note PROVE flat'[x[2]] = x[1] BY DEF Copies!PreparedIsKept
  <2>1. x \in reported /\ x[1] \in Copies!Resources /\ x[2] \in Copies!FlatNames BY <1>3, <1>4
  <2>2. flat[x[2]] = x[1] BY <1>5, <2>1 DEF CopyInv, FlatIsKept, Copies!PreparedIsKept
  <2>3. x[2] # prep[p].file
    <3>1. CASE prep[p].policy = "overwrite" BY <1>1, <3>1
    <3>2. CASE prep[p].policy # "overwrite"
      <4>1. flat[prep[p].file] = "" BY <1>1, <1>5, <3>2, OfPreparer DEF ChoseFree
      <4> QED BY <2>1, <2>2, <4>1 DEF Copies!Laid
    <3> QED BY <3>1, <3>2
  <2> QED BY <1>1, <1>3, <2>1, <2>2, <2>3
<1>6. flat' \in [Copies!FlatNames -> Copies!Resources \cup {"", "note"}] BY <1>1, <1>2, <1>3
<1>7. reported' \subseteq Copies!Resources \X Copies!FlatNames BY <1>3, <1>4
<1> QED BY <1>1, <1>5, <1>6, <1>7, FlatHandKeeps DEF Flatly

LEMMA CheckedKeeps == ASSUME CopyInv, NEW p \in Preparers, Copies!Checked(p) PROVE CopyInv'
<1>1. /\ prep[p].at = "check" /\ flat' = flat
      /\ reported' = IF flat[prep[p].file] = prep[p].res THEN reported \cup {<<prep[p].res, prep[p].file>>} ELSE reported
      /\ prep' = [prep EXCEPT ![p] = [prep[p] EXCEPT !.at = "note"]]
      /\ UNCHANGED <<archive, facts, place, met, changes, had, broken>>
  BY DEF Copies!Checked, Copies!At, Copies!Goes, Copies!Sets, Copies!shelf, Copies!bounds
<1>2. prep[p] \in PrepTypes /\ prep[p].res \in Copies!Resources /\ prep[p].file \in Copies!FlatNames
  BY <1>1, OfPreparer DEF FlatlyTyped, Flatly, PrepTypes
<1>3. /\ flat \in [Copies!FlatNames -> Copies!Resources \cup {"", "note"}]
      /\ reported \subseteq Copies!Resources \X Copies!FlatNames
  BY DEF CopyInv, CopiesAreTyped
<1>4. <<prep[p].res, prep[p].file>> \in Copies!Resources \X Copies!FlatNames BY <1>2
<1>5. ASSUME ~met PROVE Copies!PreparedIsKept'
  <2> SUFFICES ASSUME NEW x \in reported', x[2][1] # Note PROVE flat[x[2]] = x[1] BY <1>1 DEF Copies!PreparedIsKept
  <2>1. CASE x \in reported BY <1>5, <2>1 DEF CopyInv, FlatIsKept, Copies!PreparedIsKept
  <2>2. CASE x \notin reported
    <3>1. x = <<prep[p].res, prep[p].file>> /\ flat[prep[p].file] = prep[p].res BY <1>1, <2>2
    <3> QED BY <3>1
  <2> QED BY <2>1, <2>2
<1>6. reported' \subseteq Copies!Resources \X Copies!FlatNames BY <1>1, <1>3, <1>4
<1> QED BY <1>1, <1>3, <1>5, <1>6, FlatHandKeeps DEF Flatly

LEMMA WritesNoteKeeps == ASSUME Copies!Laid, CopyInv, NEW p \in Preparers, Copies!WritesNote(p) PROVE CopyInv'
<1> DEFINE r == Copies!Resting
<1>1. /\ prep[p].at = "note" /\ flat' = [flat EXCEPT ![<<Note, 1>>] = "note"] /\ prep' = [prep EXCEPT ![p] = r]
      /\ UNCHANGED <<archive, facts, place, reported, met, changes, had, broken>>
  BY DEF Copies!WritesNote, Copies!At, Copies!Sets, Copies!shelf, Copies!bounds
<1>2. r.at = "idle" /\ OneState(r.aside) BY DEF OneState, Copies!Resting, Copies!NoCopy
<1>3. r \in PrepTypes /\ \A part \in Copies!Parts : Grows(r, part) BY RestingIsTyped, RestingGrows DEF CopyInv
<1> HIDE DEF r
<1>4. /\ place \in [1..Last -> Copies!Copies] /\ \A n \in 1..Last : OneState(place[n])
      /\ had \in BOOLEAN /\ met \in BOOLEAN /\ broken \in BOOLEAN /\ prep \in [Preparers -> PrepTypes]
      /\ flat \in [Copies!FlatNames -> Copies!Resources \cup {"", "note"}]
      /\ reported \subseteq Copies!Resources \X Copies!FlatNames
  BY DEF CopyInv, CopiesAreTyped, CopiesAreWhole
<1>5. <<Note, 1>> \in Copies!FlatNames BY DEF Copies!FlatNames
<1>6. flat' \in [Copies!FlatNames -> Copies!Resources \cup {"", "note"}] BY <1>1, <1>4
<1>7. ~Holds(prep[p]) BY <1>1 DEF Holds
<1>8. CopiesAreTyped' /\ HandGrows' /\ CopiesAreWhole' /\ OneIsKept'
  BY <1>1, <1>2, <1>3, <1>4, <1>6, <1>7, HandKeeps
<1>9. FlatIsKept'
  <2>1. \A q \in Preparers : prep'[q] = IF q = p THEN r ELSE prep[q] BY <1>1, <1>4
  <2>2. \A q \in Preparers : FlatlyTyped(prep'[q]) BY <1>2, <2>1 DEF CopyInv, FlatIsKept, FlatlyTyped, Flatly
  <2>3. ASSUME ~met PROVE OneAtWork' BY <1>2, <2>1, <2>3 DEF CopyInv, FlatIsKept, OneAtWork, Flatly
  <2>4. ASSUME ~met PROVE (\A q \in Preparers : ChoseFree(prep[q]))'
    <3> SUFFICES ASSUME NEW q \in Preparers PROVE ChoseFree(prep[q])' OBVIOUS
    <3>1. CASE q = p BY <1>2, <2>1, <3>1 DEF ChoseFree
    <3>2. CASE q # p
      <4>1. prep'[q] = prep[q] /\ prep[q].at \notin Flatly
        BY <1>1, <2>1, <2>4, <3>2 DEF CopyInv, FlatIsKept, OneAtWork, Flatly
      <4> QED BY <4>1 DEF ChoseFree, Flatly
    <3> QED BY <3>1, <3>2
  <2>5. ASSUME ~met PROVE Copies!PreparedIsKept'
    <3> SUFFICES ASSUME NEW x \in reported, x[2][1] # Note PROVE flat'[x[2]] = x[1] BY <1>1 DEF Copies!PreparedIsKept
    <3>1. flat[x[2]] = x[1] /\ x[2] \in Copies!FlatNames
      BY <1>4, <2>5 DEF CopyInv, FlatIsKept, Copies!PreparedIsKept
    <3>2. x[2] # <<Note, 1>> OBVIOUS
    <3> QED BY <1>1, <1>4, <3>1, <3>2
  <2> QED BY <1>1, <2>2, <2>3, <2>4, <2>5 DEF FlatIsKept, FlatlyTyped
<1> QED BY <1>8, <1>9 DEF CopyInv

\* What happens to the archive and to the places, while no preparer moves.
LEMMA SurroundingsKeep ==
  ASSUME CopyInv, UNCHANGED <<prep, flat, reported, met, broken>>,
         archive' \in Copies!Versions, facts' \in 0..MaxVersion, changes' \in Nat, had' \in BOOLEAN,
         \A part \in Copies!Parts : archive[part] <= archive'[part],
         place' \in [1..Last -> Copies!Copies], \A n \in 1..Last : OneState(place'[n]),
         had' => had /\ (place[1].is => place'[1].is)
  PROVE  CopyInv'
<1>1. CopiesAreTyped' BY DEF CopyInv, CopiesAreTyped
<1>2. HandGrows'
  <2> SUFFICES ASSUME NEW p \in Preparers, NEW part \in Copies!Parts PROVE Grows(prep[p], part)' BY DEF HandGrows
  <2>1. archive'[part] \in 0..MaxVersion BY DEF Copies!Versions
  <2> QED BY <2>1, OfPreparer DEF Grows, HasCopied, HasLooked
<1>3. CopiesAreWhole' BY DEF CopyInv, CopiesAreWhole, OneState
<1>4. OneIsKept' BY DEF CopyInv, OneIsKept, Holds
<1>5. FlatIsKept' BY DEF CopyInv, FlatIsKept, FlatlyTyped, ChoseFree, OneAtWork, Copies!PreparedIsKept
<1> QED BY <1>1, <1>2, <1>3, <1>4, <1>5 DEF CopyInv

LEMMA RewritesKeeps == ASSUME Copies!Laid, CopyInv, NEW part \in Copies!Parts, Copies!Rewrites(part) PROVE CopyInv'
<1>1. /\ archive[part] < MaxVersion /\ archive' = [archive EXCEPT ![part] = archive[part] + 1]
      /\ UNCHANGED <<facts, place, prep, flat, reported, met, changes, had, broken>>
  BY DEF Copies!Rewrites, Copies!files, Copies!bounds
<1>2. archive \in Copies!Versions /\ facts \in 0..MaxVersion /\ changes \in Nat /\ had \in BOOLEAN
      /\ place \in [1..Last -> Copies!Copies] /\ \A n \in 1..Last : OneState(place[n])
  BY DEF CopyInv, CopiesAreTyped, CopiesAreWhole
<1>3. MaxVersion \in Nat BY Zenon DEF Copies!Laid
<1>4. archive[part] + 1 \in 0..MaxVersion BY <1>1, <1>2, <1>3 DEF Copies!Versions
<1>5. archive' \in Copies!Versions BY <1>1, <1>2, <1>4 DEF Copies!Versions
<1>6. \A q \in Copies!Parts : archive[q] <= archive'[q]
  <2> SUFFICES ASSUME NEW q \in Copies!Parts PROVE archive[q] <= archive'[q] OBVIOUS
  <2>1. archive[q] \in 0..MaxVersion /\ archive'[q] = IF q = part THEN archive[part] + 1 ELSE archive[q]
    BY <1>1, <1>2 DEF Copies!Versions
  <2> QED BY <2>1
<1> QED BY <1>1, <1>2, <1>5, <1>6, SurroundingsKeep

LEMMA CopyStoresKeeps == ASSUME CopyInv, Copies!Stores PROVE CopyInv'
<1>1. facts' = archive["body"] /\ UNCHANGED <<archive, place, prep, flat, reported, met, changes, had, broken>>
  BY DEF Copies!Stores, Copies!files, Copies!bounds
<1>2. archive \in Copies!Versions /\ changes \in Nat /\ had \in BOOLEAN
      /\ place \in [1..Last -> Copies!Copies] /\ \A n \in 1..Last : OneState(place[n])
  BY DEF CopyInv, CopiesAreTyped, CopiesAreWhole
<1>3. facts' \in 0..MaxVersion /\ \A q \in Copies!Parts : archive[q] <= archive'[q]
  BY <1>1, <1>2 DEF Copies!Versions, Copies!Parts
<1> QED BY <1>1, <1>2, <1>3, SurroundingsKeep

LEMMA UserKeeps ==
  ASSUME Copies!Laid, CopyInv, NEW n \in 1..Last, Copies!Edits(n) \/ Copies!Deletes(n)
  PROVE  CopyInv'
<1> DEFINE c == [place[n] EXCEPT !.edited = TRUE]
<1>1. /\ UNCHANGED <<archive, facts, prep, flat, reported, met, broken>> /\ changes' = changes + 1
      /\ \/ place' = [place EXCEPT ![n] = c] /\ had' = had
         \/ place' = [place EXCEPT ![n] = Copies!NoCopy] /\ had' = (had /\ n # 1)
  BY DEF Copies!Edits, Copies!Deletes, Copies!shelf, Copies!files
<1>2. archive \in Copies!Versions /\ facts \in 0..MaxVersion /\ changes \in Nat /\ had \in BOOLEAN
      /\ place \in [1..Last -> Copies!Copies] /\ \A k \in 1..Last : OneState(place[k])
  BY DEF CopyInv, CopiesAreTyped, CopiesAreWhole
<1>3. place[n] \in Copies!Copies /\ 1 \in 1..Last BY <1>2, RestingIsTyped
<1>4. c \in Copies!Copies /\ c.is = place[n].is /\ OneState(c) BY <1>2, <1>3 DEF Copies!Copies, OneState
<1>5. Copies!NoCopy \in Copies!Copies /\ OneState(Copies!NoCopy) BY RestingIsTyped DEF OneState, Copies!NoCopy
<1> HIDE DEF c
<1>5a. changes' \in Nat BY <1>1, <1>2
<1>5b. had' \in BOOLEAN BY <1>1, <1>2, Zenon
<1>6. changes' \in Nat /\ had' \in BOOLEAN BY <1>5a, <1>5b
<1>7. place' \in [1..Last -> Copies!Copies] /\ \A k \in 1..Last : OneState(place'[k])
  BY <1>1, <1>2, <1>4, <1>5
<1>8. had' => had /\ (place[1].is => place'[1].is) BY <1>1, <1>2, <1>3, <1>4
<1>9. \A q \in Copies!Parts : archive[q] <= archive'[q] BY <1>1, <1>2 DEF Copies!Versions
<1> QED BY <1>1, <1>2, <1>6, <1>7, <1>8, <1>9, SurroundingsKeep

LEMMA CopyStep == ASSUME Copies!Laid, CopyInv, [Copies!Next]_(Copies!vars) PROVE CopyInv'
<1>1. CASE UNCHANGED Copies!vars
  <2>1. UNCHANGED <<archive, facts, place, prep, flat, reported, changes, had, broken, met>> BY <1>1 DEF Copies!vars
  <2> QED BY <2>1 DEF CopyInv, CopiesAreTyped, HandGrows, Grows, HasCopied, HasLooked, CopiesAreWhole, OneIsKept, Holds,
                      FlatIsKept, FlatlyTyped, ChoseFree, OneAtWork, Copies!PreparedIsKept
<1>2. ASSUME NEW p \in Preparers, NEW policy \in Copies!Policies, Copies!Starts(p, policy) PROVE CopyInv'
  BY <1>2, StartsCopyKeeps
<1>3. ASSUME NEW p \in Preparers, NEW policy \in Copies!Policies, NEW r \in Copies!Resources, Copies!StartsFlat(p, policy, r)
      PROVE CopyInv'
  BY <1>3, StartsFlatKeeps
<1>4. ASSUME NEW p \in Preparers,
             Copies!Snaps(p) \/ Copies!Looks(p) \/ Copies!CopiesBody(p) \/ Copies!CopiesManifest(p) \/ Copies!SnapsAgain(p)
      PROVE CopyInv'
  BY <1>4, SnapsKeeps, CopyLooksKeeps, CopiesBodyKeeps, CopiesManifestKeeps, SnapsAgainKeeps
<1>5. ASSUME NEW p \in Preparers,
             \/ Copies!SetsAside(p) \/ Copies!Publishes(p) \/ Copies!PublishFails(p) \/ Copies!PutBackFails(p)
             \/ Copies!Fails(p) \/ Copies!Dies(p)
      PROVE CopyInv'
  BY <1>5, SetsAsideKeeps, CopyPublishesKeeps, CopyPublishFailsKeeps, CopyEndsBadlyKeeps, CopyFailsKeeps
<1>6. ASSUME NEW p \in Preparers, Copies!Picks(p) \/ Copies!Copied(p) \/ Copies!Checked(p) \/ Copies!WritesNote(p)
      PROVE CopyInv'
  BY <1>6, PicksKeeps, CopiedKeeps, CheckedKeeps, WritesNoteKeeps
<1>7. ASSUME NEW part \in Copies!Parts, Copies!Rewrites(part) PROVE CopyInv' BY <1>7, RewritesKeeps
<1>8. ASSUME NEW n \in 1..Last, Copies!Edits(n) \/ Copies!Deletes(n) PROVE CopyInv' BY <1>8, UserKeeps
<1>9. CASE Copies!Stores BY <1>9, CopyStoresKeeps
<1> QED BY <1>1, <1>2, <1>3, <1>4, <1>5, <1>6, <1>7, <1>8, <1>9 DEF Copies!Next

LEMMA CopyInvMeans == ASSUME CopyInv PROVE Copies!TypeOK /\ CopiesAreTrue
<1>1. Copies!TypeOK
  <2>1. \A p \in Preparers :
          /\ prep[p].at \in {"idle", "snap", "snap2", "look", "body", "manifest", "again", "again2",
                             "aside", "publish", "pick", "copy", "check", "note"}
          /\ prep[p].target \in 1..Last /\ prep[p].aside \in Copies!Copies /\ prep[p].file \in Copies!FlatNames
    BY OfPreparer DEF PrepTypes, Copying, Flatly
  <2> QED BY <2>1 DEF CopyInv, CopiesAreTyped, Copies!TypeOK
<1>2. Copies!CopyIsOneState BY DEF CopyInv, CopiesAreWhole, OneState, Copies!CopyIsOneState
<1>3. Copies!OverwriteKeepsOne BY DEF CopyInv, OneIsKept, Holds, Copies!OverwriteKeepsOne
<1>4. Copies!PreparedIsKept BY DEF CopyInv, FlatIsKept, Copies!PreparedIsKept
<1> QED BY <1>1, <1>2, <1>3, <1>4 DEF CopiesAreTrue

\* A step that changes a copy with the user's changes is his own or that of an overwrite.
LEMMA CopyStepSpares ==
  ASSUME Copies!Laid, CopyInv, [Copies!Next]_(Copies!vars),
         NEW n \in 1..Last, place[n].is, place[n].edited, place'[n] # place[n]
  PROVE  \/ changes' > changes
         \/ \E p \in Preparers : prep[p].policy = "overwrite" /\ prep[p].target = n /\ Copies!At(p, "aside")
<1>0. place \in [1..Last -> Copies!Copies] /\ changes \in Nat BY DEF CopyInv, CopiesAreTyped
<1>1. CASE UNCHANGED place BY <1>1
<1>2. ASSUME NEW k \in 1..Last, Copies!Edits(k) \/ Copies!Deletes(k) PROVE changes' > changes
  <2>1. changes' = changes + 1 BY <1>2 DEF Copies!Edits, Copies!Deletes
  <2> QED BY <1>0, <2>1
<1>3. ASSUME NEW p \in Preparers, Copies!SetsAside(p)
      PROVE  prep[p].policy = "overwrite" /\ prep[p].target = n /\ Copies!At(p, "aside")
  <2>1. /\ Copies!At(p, "aside") /\ prep[p].policy = "overwrite"
        /\ place' = [place EXCEPT ![prep[p].target] = Copies!NoCopy]
    BY <1>3 DEF Copies!SetsAside, Copies!Replaces
  <2>2. prep[p].target = n BY <1>0, <2>1
  <2> QED BY <2>1, <2>2
<1>4. ASSUME NEW p \in Preparers, Copies!Publishes(p) PROVE FALSE
  <2>1. ~place[prep[p].target].is /\ place' = [place EXCEPT ![prep[p].target] = Copies!Staged(p)]
    BY <1>4 DEF Copies!Publishes
  <2> QED BY <1>0, <2>1
<1>5. ASSUME NEW p \in Preparers, Copies!PublishFails(p) PROVE FALSE
  <2>1. place' = [place EXCEPT ![prep[p].target] = Copies!PutBack(p)] BY <1>5 DEF Copies!PublishFails
  <2>2. prep[p].target = n BY <1>0, <2>1
  <2>3. Copies!PutBack(p) = place[n] BY <2>2 DEF Copies!PutBack
  <2> QED BY <1>0, <2>1, <2>2, <2>3
<1>6. ASSUME NEW p \in Preparers, NEW policy, NEW r,
             \/ Copies!Starts(p, policy) \/ Copies!StartsFlat(p, policy, r)
             \/ Copies!Snaps(p) \/ Copies!Looks(p) \/ Copies!CopiesBody(p) \/ Copies!CopiesManifest(p)
             \/ Copies!SnapsAgain(p) \/ Copies!PutBackFails(p) \/ Copies!Fails(p) \/ Copies!Dies(p)
             \/ Copies!Picks(p) \/ Copies!Copied(p) \/ Copies!Checked(p) \/ Copies!WritesNote(p)
      PROVE  UNCHANGED place
  BY <1>6 DEF Copies!Starts, Copies!StartsFlat, Copies!Snaps, Copies!Looks, Copies!CopiesBody, Copies!CopiesManifest,
              Copies!SnapsAgain, Copies!PutBackFails, Copies!Fails, Copies!Dies, Copies!Picks, Copies!Copied,
              Copies!Checked, Copies!WritesNote
<1>7. ASSUME NEW part \in Copies!Parts, Copies!Rewrites(part) PROVE UNCHANGED place BY <1>7 DEF Copies!Rewrites
<1>8. CASE Copies!Stores BY <1>1, <1>8 DEF Copies!Stores
<1>9. CASE UNCHANGED Copies!vars BY <1>1, <1>9 DEF Copies!vars
<1>10. CASE Copies!Next
  BY <1>1, <1>2, <1>3, <1>4, <1>5, <1>6, <1>7, <1>8, <1>10 DEF Copies!Next
<1> QED BY <1>9, <1>10

\* A step of the whole is one of the copies or leaves them alone.
LEMMA StepsOfCopies == ASSUME [Next]_vars PROVE [Copies!Next]_(Copies!vars)
<1>1. ASSUME UNCHANGED copyVars PROVE UNCHANGED Copies!vars BY <1>1 DEF copyVars, Copies!vars
<1>2. CASE UNCHANGED vars BY <1>1, <1>2 DEF vars
<1>3. CASE Next BY <1>1, <1>3 DEF Next
<1> QED BY <1>2, <1>3

\* What a preparer has in its hands, and what lies in the workspace, agree with the archive and with what it said.
THEOREM CopiesInvariance == Spec => []CopyInv
<1>1. Init => CopyInv BY CopyInit, CopiesAreLaid DEF Init
<1>2. CopyInv /\ [Next]_vars => CopyInv' BY StepsOfCopies, CopyStep, CopiesAreLaid
<1> QED BY <1>1, <1>2, PTL DEF Spec

\* prepare_mail_resources and the complete copy: a published copy is of one state of the archive, an overwrite
\* that fails leaves the old copy or the new one, and calls that never met find what they reported.
THEOREM CopiesAreAlwaysTrue == Spec => []CopiesAreTrue
<1>1. CopyInv => CopiesAreTrue BY CopyInvMeans
<1> QED BY <1>1, CopiesInvariance, PTL

\* A copy that the user changed gives way only to him or to a call that was asked to overwrite.
THEOREM EditsAlwaysSurvive == Spec => EditsSurvive
<1>1. CopyInv /\ [Next]_vars =>
        [\A n \in 1..Last : place[n].is /\ place[n].edited /\ place'[n] # place[n] =>
           \/ changes' > changes
           \/ \E p \in Preparers : prep[p].policy = "overwrite" /\ prep[p].target = n /\ Copies!At(p, "aside")]_(Copies!vars)
  BY StepsOfCopies, CopyStepSpares, CopiesAreLaid
<1> QED BY <1>1, CopiesInvariance, PTL DEF Spec, EditsSurvive, Copies!EditsSurvive

-----------------------------------------------------------------------------
(* AgentAccess: who gave the rights that are stored, or read.               *)

Modality ==
  [accountMode : Access!Modes, workspaceMode : Access!Modes, senderMode : Access!Modes,
   sending : {"confirm", "autonomous"}]
ProfileTypes == [state : {"absent", "new", "active", "paused", "revoked"}, modes : Modality]
Workspaces == {Root} \cup UNION {s.workspaces : s \in Settings}
RightsTypes == [caps : SUBSET Access!Caps, accounts : SUBSET Accounts, workspaces : SUBSET Workspaces]
EditorTypes == [at : {"idle", "row", "rights", "senders", "modes"}, to : {Access!None} \cup Settings]
ReaderTypes ==
  [at : {"idle", "rights", "senders", "known", "claimed"}, purpose : {Access!None, "call", "run", "ask"},
   row : {Access!None} \cup Modality, caps : SUBSET Access!Caps, accounts : SUBSET Accounts, senders : SUBSET Accounts]
OutgoingTypes ==
  [mode : {Access!None, "confirm", "autonomous"},
   status : {Access!None, "pending", "ready", "left", "claimed", "failed", "sent"}]

AccessIsTyped ==
  /\ profile \in ProfileTypes /\ keyring \in BOOLEAN /\ rights \in RightsTypes /\ senders \subseteq Accounts
  /\ editor \in EditorTypes /\ (editor.at \in {"rights", "senders", "modes"} => editor.to \in Settings)
  /\ starter \subseteq RightsTypes /\ applying \in BOOLEAN /\ usable \subseteq Accounts
  /\ reader \in ReaderTypes /\ (reader.at \in {"rights", "senders", "known"} => reader.row \in Modality)
  /\ outgoing \in OutgoingTypes
  /\ live \subseteq Settings /\ seen \subseteq Settings /\ stale \in BOOLEAN

\* A client that is not there has no rights and makes no call.
AbsentHasNothing ==
  /\ profile.state = "absent" =>
       /\ rights.caps = {} /\ rights.accounts = {} /\ senders = {} /\ starter = {} /\ ~applying
       /\ editor.at \in {"idle", "row"} /\ reader.at = "idle"
  /\ editor.at = "row" => profile.state = "absent"

\* What is stored comes from settings that are live, and so does the row.
RightsAreGiven ==
  profile.state # "absent" =>
    /\ \E s \in live : profile.modes = Access!ModesOf(s)
    /\ ~stale => \E s \in live : rights.caps \subseteq s.caps
    /\ ~stale => \E s \in live : rights.accounts \subseteq Access!GrantedAccounts(s)
    /\ \E s \in live : senders \subseteq Access!GrantedSenders(s)

\* What a save has written is what it will leave alone in the tables.
SaveIsGiven ==
  /\ editor.at \in {"senders", "modes"} =>
       /\ editor.to \in live
       /\ ~stale => rights.caps \subseteq editor.to.caps /\ rights.accounts \subseteq Access!GrantedAccounts(editor.to)
  /\ editor.at = "modes" => senders \subseteq Access!GrantedSenders(editor.to)

\* What has been read of an identity was given by a setting seen on the way.
ReaderIsGiven ==
  /\ reader.at # "idle" => live \subseteq seen
  /\ reader.at \in {"rights", "senders"} => \E s \in seen : reader.row = Access!ModesOf(s)
  /\ reader.at \in {"senders", "known"} /\ ~stale =>
       /\ \E s \in seen : reader.caps \subseteq s.caps
       /\ \E s \in seen : reader.accounts \subseteq Access!GrantedAccounts(s)
  /\ reader.at = "known" => \E s \in seen : reader.senders \subseteq Access!GrantedSenders(s)

\* What has been sent is not read again.
SentIsGiven ==
  outgoing.status = "sent" =>
    /\ reader.at = "idle"
    /\ ~stale => (\E s \in seen : "send" \in s.caps) /\ (\E s \in seen : Sender \in Access!GrantedSenders(s))

AccessInv == AccessIsTyped /\ AbsentHasNothing /\ RightsAreGiven /\ SaveIsGiven /\ ReaderIsGiven /\ SentIsGiven

\* What a setting of the dialog writes is of its type and no wider than it.
LEMMA SettingsGive ==
  ASSUME Access!Offered, NEW s \in Settings
  PROVE  /\ Access!ModesOf(s) \in Modality
         /\ Access!RightsOf(s) \in RightsTypes
         /\ [caps |-> s.caps, accounts |-> s.accounts, workspaces |-> s.workspaces] \in RightsTypes
         /\ Access!SendersOf(s) \subseteq Accounts
         /\ Access!RightsOf(s).caps \subseteq s.caps /\ Access!RightsOf(s).accounts \subseteq Access!GrantedAccounts(s)
         /\ s.accounts \subseteq Access!GrantedAccounts(s)
         /\ Access!SendersOf(s) \subseteq Access!GrantedSenders(s)
<1>1. /\ s.caps \subseteq Access!Caps /\ s.accounts \subseteq Accounts /\ s.senders \subseteq Accounts
      /\ s.accountMode \in Access!Modes /\ s.senderMode \in Access!Modes /\ s.workspaceMode \in Access!Modes
      /\ s.sending \in {"confirm", "autonomous"}
  BY DEF Access!Offered
<1>2. s.workspaces \subseteq Workspaces /\ Access!Workspaces(s) \subseteq Workspaces
  BY DEF Workspaces, Access!Workspaces
<1>3. /\ Access!Scoped(s.workspaceMode, Access!Workspaces(s)) \subseteq Workspaces
      /\ Access!Scoped(s.accountMode, s.accounts) \subseteq s.accounts
      /\ Access!Scoped(s.senderMode, s.senders) \subseteq s.senders
  BY <1>2 DEF Access!Scoped
<1>4. Access!ModesOf(s) \in Modality BY <1>1 DEF Access!ModesOf, Modality
<1>5. Access!RightsOf(s) \in RightsTypes BY <1>1, <1>3 DEF Access!RightsOf, RightsTypes
<1>6. [caps |-> s.caps, accounts |-> s.accounts, workspaces |-> s.workspaces] \in RightsTypes
  BY <1>1, <1>2 DEF RightsTypes
<1>7. Access!RightsOf(s).caps = s.caps /\ Access!RightsOf(s).accounts = Access!Scoped(s.accountMode, s.accounts)
  BY DEF Access!RightsOf
<1>8. s.accounts \subseteq Access!GrantedAccounts(s) /\ s.senders \subseteq Access!GrantedSenders(s)
  BY <1>1 DEF Access!GrantedAccounts, Access!GrantedSenders
<1> QED BY <1>1, <1>3, <1>4, <1>5, <1>6, <1>7, <1>8 DEF Access!SendersOf

LEMMA AccessInit == ASSUME Access!Offered, Access!Init PROVE AccessInv
<1>0. /\ editor = Access!Idle /\ starter = {} /\ applying = FALSE /\ usable = Accounts /\ reader = Access!NoIdentity
      /\ outgoing = [mode |-> Access!None, status |-> Access!None] /\ seen = {} /\ stale = FALSE
  BY DEF Access!Init
<1>1. PICK s \in First :
        \/ /\ profile = [state |-> "active", modes |-> Access!ModesOf(s)] /\ keyring = TRUE /\ live = {s}
           /\ rights = [caps |-> s.caps, accounts |-> s.accounts, workspaces |-> s.workspaces]
           /\ senders = Access!SendersOf(s)
        \/ /\ profile = [state |-> "absent", modes |-> Access!ModesOf(s)] /\ keyring = FALSE /\ live = {}
           /\ rights = [caps |-> {}, accounts |-> {}, workspaces |-> {}] /\ senders = {}
  BY DEF Access!Init
<1>2. s \in Settings BY DEF Access!Offered
<1>3. /\ editor.at = "idle" /\ reader.at = "idle" /\ outgoing.status = Access!None /\ Access!None # "sent"
      /\ editor \in EditorTypes /\ reader \in ReaderTypes /\ outgoing \in OutgoingTypes
  BY <1>0 DEF Access!Idle, Access!NoIdentity, Access!None, EditorTypes, ReaderTypes, OutgoingTypes
<1>4. /\ Access!ModesOf(s) \in Modality /\ Access!SendersOf(s) \subseteq Accounts
      /\ [caps |-> s.caps, accounts |-> s.accounts, workspaces |-> s.workspaces] \in RightsTypes
      /\ s.accounts \subseteq Access!GrantedAccounts(s) /\ Access!SendersOf(s) \subseteq Access!GrantedSenders(s)
  BY <1>2, SettingsGive
<1>5. [caps |-> {}, accounts |-> {}, workspaces |-> {}] \in RightsTypes BY DEF RightsTypes
<1>5a. profile \in ProfileTypes BY <1>1, <1>4 DEF ProfileTypes
<1>5b. rights \in RightsTypes /\ senders \subseteq Accounts BY <1>1, <1>4, <1>5
<1>6. profile \in ProfileTypes /\ rights \in RightsTypes /\ senders \subseteq Accounts /\ keyring \in BOOLEAN
      /\ live \subseteq Settings
  BY <1>1, <1>2, <1>5a, <1>5b
<1>7. AccessIsTyped BY <1>0, <1>3, <1>6 DEF AccessIsTyped
<1>8. AbsentHasNothing BY <1>0, <1>1, <1>3 DEF AbsentHasNothing
<1>9. RightsAreGiven BY <1>1, <1>4 DEF RightsAreGiven
<1> QED BY <1>3, <1>7, <1>8, <1>9 DEF AccessInv, SaveIsGiven, ReaderIsGiven, SentIsGiven

-----------------------------------------------------------------------------
(* The save and the creation.                                               *)

LEMMA OpensKeeps == ASSUME AccessInv, NEW s \in Settings, Access!Opens(s) PROVE AccessInv'
<1>1. /\ editor' = [at |-> "rights", to |-> s] /\ profile.state # "absent"
      /\ UNCHANGED <<profile, keyring, rights, senders, starter, applying, usable, reader, outgoing, live, seen, stale>>
  BY DEF Access!Opens
<1>2. editor' \in EditorTypes BY <1>1 DEF EditorTypes
<1>3. AccessIsTyped' BY <1>1, <1>2 DEF AccessInv, AccessIsTyped
<1> QED BY <1>1, <1>3 DEF AccessInv, AbsentHasNothing, RightsAreGiven, SaveIsGiven, ReaderIsGiven, SentIsGiven

LEMMA SavesRightsKeeps == ASSUME Access!Offered, AccessInv, Access!SavesRights PROVE AccessInv'
<1> DEFINE s == editor.to
<1>1. /\ editor.at = "rights" /\ rights' = Access!RightsOf(s) /\ editor' = [editor EXCEPT !.at = "senders"]
      /\ live' = live \cup {s} /\ seen' = Access!Seeing({s})
      /\ UNCHANGED <<profile, keyring, senders, starter, applying, usable, reader, outgoing, stale>>
  BY DEF Access!SavesRights
<1>2. s \in Settings /\ editor \in EditorTypes BY <1>1 DEF AccessInv, AccessIsTyped
<1>3. /\ Access!RightsOf(s) \in RightsTypes /\ Access!RightsOf(s).caps \subseteq s.caps
      /\ Access!RightsOf(s).accounts \subseteq Access!GrantedAccounts(s)
  BY <1>2, SettingsGive
<1>4. editor' \in EditorTypes /\ editor'.at = "senders" /\ editor'.to = s BY <1>1, <1>2 DEF EditorTypes
<1>5. /\ seen' \subseteq Settings /\ seen \subseteq seen' /\ (reader.at # "idle" => s \in seen')
      /\ (reader.at = "idle" => seen' = seen)
  BY <1>1, <1>2 DEF Access!Seeing, AccessInv, AccessIsTyped
<1>6. AccessIsTyped' BY <1>1, <1>2, <1>3, <1>4, <1>5 DEF AccessInv, AccessIsTyped
<1>7. AbsentHasNothing' BY <1>1, <1>4 DEF AccessInv, AbsentHasNothing
<1>8. RightsAreGiven' BY <1>1, <1>3 DEF AccessInv, RightsAreGiven
<1>9. SaveIsGiven' BY <1>1, <1>3, <1>4 DEF AccessInv, SaveIsGiven
<1>10. ReaderIsGiven' BY <1>1, <1>5 DEF AccessInv, ReaderIsGiven
<1>11. SentIsGiven' BY <1>1, <1>5 DEF AccessInv, SentIsGiven
<1> QED BY <1>6, <1>7, <1>8, <1>9, <1>10, <1>11 DEF AccessInv

LEMMA SavesSendersKeeps == ASSUME Access!Offered, AccessInv, Access!SavesSenders PROVE AccessInv'
<1> DEFINE s == editor.to
<1>1. /\ editor.at = "senders" /\ senders' = Access!SendersOf(s) /\ editor' = [editor EXCEPT !.at = "modes"]
      /\ UNCHANGED <<profile, keyring, rights, starter, applying, usable, reader, outgoing, live, seen, stale>>
  BY DEF Access!SavesSenders
<1>2. s \in Settings /\ editor \in EditorTypes /\ s \in live BY <1>1 DEF AccessInv, AccessIsTyped, SaveIsGiven
<1>3. Access!SendersOf(s) \subseteq Accounts /\ Access!SendersOf(s) \subseteq Access!GrantedSenders(s)
  BY <1>2, SettingsGive
<1>4. editor' \in EditorTypes /\ editor'.at = "modes" /\ editor'.to = s BY <1>1, <1>2 DEF EditorTypes
<1>5. AccessIsTyped' BY <1>1, <1>2, <1>3, <1>4 DEF AccessInv, AccessIsTyped
<1>6. AbsentHasNothing' BY <1>1, <1>4 DEF AccessInv, AbsentHasNothing
<1>7. RightsAreGiven' BY <1>1, <1>2, <1>3 DEF AccessInv, RightsAreGiven
<1>8. SaveIsGiven' BY <1>1, <1>3, <1>4 DEF AccessInv, SaveIsGiven
<1> QED BY <1>1, <1>5, <1>6, <1>7, <1>8 DEF AccessInv, ReaderIsGiven, SentIsGiven

LEMMA SavesModesKeeps == ASSUME Access!Offered, AccessInv, Access!SavesModes PROVE AccessInv'
<1> DEFINE s == editor.to
<1>1. /\ editor.at = "modes" /\ profile' = [profile EXCEPT !.modes = Access!ModesOf(s)] /\ editor' = Access!Idle
      /\ live' = {s}
      /\ UNCHANGED <<keyring, rights, senders, starter, applying, usable, reader, outgoing, seen, stale>>
  BY DEF Access!SavesModes
<1>2. s \in Settings /\ s \in live /\ profile \in ProfileTypes /\ profile.state # "absent"
  BY <1>1 DEF AccessInv, AccessIsTyped, SaveIsGiven, AbsentHasNothing
<1>3. Access!ModesOf(s) \in Modality BY <1>2, SettingsGive
<1>4. profile' \in ProfileTypes /\ profile'.state = profile.state /\ profile'.modes = Access!ModesOf(s)
  BY <1>1, <1>2, <1>3 DEF ProfileTypes
<1>5. editor' \in EditorTypes /\ editor'.at = "idle" BY <1>1 DEF EditorTypes, Access!Idle
<1>6. AccessIsTyped' BY <1>1, <1>2, <1>4, <1>5 DEF AccessInv, AccessIsTyped
<1>7. RightsAreGiven' BY <1>1, <1>4 DEF AccessInv, RightsAreGiven, SaveIsGiven
<1>8. ReaderIsGiven' BY <1>1, <1>2 DEF AccessInv, ReaderIsGiven
<1> QED BY <1>1, <1>2, <1>4, <1>5, <1>6, <1>7, <1>8 DEF AccessInv, AbsentHasNothing, SaveIsGiven, SentIsGiven

\* The save gives up, or is refused.
LEMMA EditorRests ==
  ASSUME AccessInv, editor.at # "row", editor' = Access!Idle,
         UNCHANGED <<profile, keyring, rights, senders, starter, applying, usable, reader, outgoing, live, seen, stale>>
  PROVE  AccessInv'
<1>1. editor' \in EditorTypes /\ editor'.at = "idle" BY DEF EditorTypes, Access!Idle
<1>2. AccessIsTyped' BY <1>1 DEF AccessInv, AccessIsTyped
<1> QED BY <1>1, <1>2 DEF AccessInv, AbsentHasNothing, RightsAreGiven, SaveIsGiven, ReaderIsGiven, SentIsGiven

LEMMA SaveEndsBadlyKeeps == ASSUME AccessInv, Access!SaveRefused \/ Access!SaveFails PROVE AccessInv'
<1>1. /\ editor.at # "row" /\ editor' = Access!Idle
      /\ UNCHANGED <<profile, keyring, rights, senders, starter, applying, usable, reader, outgoing, live, seen, stale>>
  BY DEF Access!SaveRefused, Access!SaveFails
<1> QED BY <1>1, EditorRests

LEMMA KeepsTokenKeeps == ASSUME AccessInv, Access!KeepsToken \/ Access!CreateFails PROVE AccessInv'
<1>1. /\ profile.state = "absent" /\ keyring' \in BOOLEAN
      /\ editor' = [at |-> "row", to |-> Access!None] \/ editor' = Access!Idle
      /\ UNCHANGED <<profile, rights, senders, starter, applying, usable, reader, outgoing, live, seen, stale>>
  BY DEF Access!KeepsToken, Access!CreateFails, AccessInv, AbsentHasNothing
<1>2. editor' \in EditorTypes /\ editor'.at \in {"idle", "row"} BY <1>1 DEF EditorTypes, Access!Idle
<1>3. AccessIsTyped' BY <1>1, <1>2 DEF AccessInv, AccessIsTyped
<1> QED BY <1>1, <1>2, <1>3 DEF AccessInv, AbsentHasNothing, RightsAreGiven, SaveIsGiven, ReaderIsGiven, SentIsGiven

LEMMA AccessCreatesKeeps == ASSUME Access!Offered, AccessInv, NEW s \in Settings, Access!Creates(s) PROVE AccessInv'
<1>1. /\ editor.at = "row" /\ profile' = [state |-> "new", modes |-> Access!ModesOf(s)]
      /\ editor' = [at |-> "rights", to |-> s] /\ live' = {s}
      /\ UNCHANGED <<keyring, rights, senders, starter, applying, usable, reader, outgoing, seen, stale>>
  BY DEF Access!Creates
<1>2. Access!ModesOf(s) \in Modality BY SettingsGive
<1>3. /\ profile' \in ProfileTypes /\ profile'.state = "new" /\ profile'.modes = Access!ModesOf(s)
      /\ editor' \in EditorTypes /\ editor'.at = "rights" /\ editor'.to = s
  BY <1>1, <1>2 DEF ProfileTypes, EditorTypes
<1>4. rights.caps = {} /\ rights.accounts = {} /\ senders = {} /\ reader.at = "idle"
  BY <1>1 DEF AccessInv, AbsentHasNothing
<1>5. AccessIsTyped' BY <1>1, <1>3 DEF AccessInv, AccessIsTyped
<1>6. RightsAreGiven' BY <1>1, <1>3, <1>4 DEF RightsAreGiven
<1> QED BY <1>1, <1>3, <1>4, <1>5, <1>6 DEF AccessInv, AbsentHasNothing, SaveIsGiven, ReaderIsGiven, SentIsGiven

-----------------------------------------------------------------------------
(* The start of a process, the states of the client and of its accounts.    *)

LEMMA StartReadsKeeps == ASSUME AccessInv, Access!StartReads PROVE AccessInv'
<1>1. /\ starter' = {rights} /\ profile.state # "absent"
      /\ UNCHANGED <<profile, keyring, rights, senders, editor, applying, usable, reader, outgoing, live, seen, stale>>
  BY DEF Access!StartReads
<1>2. AccessIsTyped' BY <1>1 DEF AccessInv, AccessIsTyped
<1> QED BY <1>1, <1>2 DEF AccessInv, AbsentHasNothing, RightsAreGiven, SaveIsGiven, ReaderIsGiven, SentIsGiven

LEMMA StartWritesKeeps == ASSUME AccessInv, Access!StartWrites PROVE AccessInv'
<1>1. /\ starter' = {}
      /\ UNCHANGED <<profile, keyring, senders, editor, applying, usable, reader, outgoing, live, seen>>
  BY DEF Access!StartWrites
<1>2. PICK read \in starter :
        rights' = [read EXCEPT !.workspaces = {Root}] /\ stale' = (stale \/ rights # read)
  BY DEF Access!StartWrites
<1>3. read \in RightsTypes /\ stale \in BOOLEAN /\ profile.state # "absent"
  BY DEF AccessInv, AccessIsTyped, AbsentHasNothing
<1>4. {Root} \subseteq Workspaces BY DEF Workspaces
<1>5. rights' \in RightsTypes /\ rights'.caps = read.caps /\ rights'.accounts = read.accounts
  BY <1>2, <1>3, <1>4 DEF RightsTypes
<1>6. (~stale' => ~stale /\ rights'.caps = rights.caps /\ rights'.accounts = rights.accounts)
  BY <1>2, <1>5
<1>7. stale' \in BOOLEAN BY <1>2, <1>3, Zenon
<1>8. AccessIsTyped' BY <1>1, <1>5, <1>7 DEF AccessInv, AccessIsTyped
<1> QED BY <1>1, <1>3, <1>6, <1>8 DEF AccessInv, AbsentHasNothing, RightsAreGiven, SaveIsGiven, ReaderIsGiven, SentIsGiven

\* The row changes its state only.
LEMMA StateChanges ==
  ASSUME AccessInv, profile.state # "absent", NEW state \in {"active", "paused", "revoked"},
         profile' = [profile EXCEPT !.state = state], keyring' \in BOOLEAN, applying' \in BOOLEAN,
         UNCHANGED <<rights, senders, editor, starter, usable, reader, outgoing, live, seen, stale>>
  PROVE  AccessInv'
<1>1. profile' \in ProfileTypes /\ profile'.state = state /\ profile'.modes = profile.modes
  BY DEF AccessInv, AccessIsTyped, ProfileTypes
<1>2. AccessIsTyped' BY <1>1 DEF AccessInv, AccessIsTyped
<1> QED BY <1>1, <1>2 DEF AccessInv, AbsentHasNothing, RightsAreGiven, SaveIsGiven, ReaderIsGiven, SentIsGiven

LEMMA SetsStateKeeps ==
  ASSUME AccessInv, NEW state \in {"active", "paused", "revoked"}, Access!SetsState(state)
  PROVE  AccessInv'
<1>1. /\ profile.state # "absent" /\ profile' = [profile EXCEPT !.state = state]
      /\ keyring' = (keyring /\ state # "revoked")
      /\ UNCHANGED <<rights, senders, editor, starter, applying, usable, reader, outgoing, live, seen, stale>>
  BY DEF Access!SetsState
<1>2. applying \in BOOLEAN BY DEF AccessInv, AccessIsTyped
<1>3. keyring' \in BOOLEAN BY <1>1, Zenon
<1> QED BY <1>1, <1>2, <1>3, StateChanges

LEMMA AppliedKeeps == ASSUME AccessInv, Access!Applied PROVE AccessInv'
<1>1. /\ applying /\ applying' = FALSE /\ profile' = [profile EXCEPT !.state = "active"]
      /\ UNCHANGED <<keyring, rights, senders, editor, starter, usable, reader, outgoing, live, seen, stale>>
  BY DEF Access!Applied
<1>2. profile.state # "absent" /\ keyring \in BOOLEAN BY <1>1 DEF AccessInv, AccessIsTyped, AbsentHasNothing
<1> QED BY <1>1, <1>2, StateChanges

LEMMA AppliesKeeps == ASSUME AccessInv, Access!Applies PROVE AccessInv'
<1>1. /\ profile.state # "absent" /\ applying' = TRUE
      /\ UNCHANGED <<profile, keyring, rights, senders, editor, starter, usable, reader, outgoing, live, seen, stale>>
  BY DEF Access!Applies
<1>2. AccessIsTyped' BY <1>1 DEF AccessInv, AccessIsTyped
<1> QED BY <1>1, <1>2 DEF AccessInv, AbsentHasNothing, RightsAreGiven, SaveIsGiven, ReaderIsGiven, SentIsGiven

LEMMA SwitchesKeeps == ASSUME AccessInv, NEW a \in Accounts, Access!Switches(a) PROVE AccessInv'
<1>1. /\ usable' = IF a \in usable THEN usable \ {a} ELSE usable \cup {a}
      /\ UNCHANGED <<profile, keyring, rights, senders, editor, starter, applying, reader, outgoing, live, seen, stale>>
  BY DEF Access!Switches
<1>2. usable' \subseteq Accounts BY <1>1 DEF AccessInv, AccessIsTyped
<1>3. AccessIsTyped' BY <1>1, <1>2 DEF AccessInv, AccessIsTyped
<1> QED BY <1>1, <1>3 DEF AccessInv, AbsentHasNothing, RightsAreGiven, SaveIsGiven, ReaderIsGiven, SentIsGiven

-----------------------------------------------------------------------------
(* The identity and the request.                                            *)

\* Only the identity and the request change.
LEMMA IdentityChanges ==
  ASSUME AccessInv, UNCHANGED <<profile, keyring, rights, senders, editor, starter, applying, usable, live, stale>>,
         profile.state = "absent" => reader'.at = "idle",
         reader' \in ReaderTypes, reader'.at \in {"rights", "senders", "known"} => reader'.row \in Modality,
         outgoing' \in OutgoingTypes, seen' \subseteq Settings, ReaderIsGiven', SentIsGiven'
  PROVE  AccessInv'
<1>1. AccessIsTyped' BY DEF AccessInv, AccessIsTyped
<1> QED BY <1>1 DEF AccessInv, AbsentHasNothing, RightsAreGiven, SaveIsGiven

LEMMA BeginsReading ==
  ASSUME AccessInv, NEW purpose \in {"call", "run", "ask"}, Access!Begins(purpose), outgoing.status # "sent",
         UNCHANGED <<profile, keyring, rights, senders, editor, starter, applying, usable, outgoing, live, stale>>
  PROVE  AccessInv'
<1>1. /\ reader' = [Access!NoIdentity EXCEPT !.at = "rights", !.purpose = purpose, !.row = profile.modes]
      /\ seen' = live /\ profile.state = "active"
  BY DEF Access!Begins, Access!Known
<1>2. profile.modes \in Modality BY DEF AccessInv, AccessIsTyped, ProfileTypes
<1>3. reader' \in ReaderTypes /\ reader'.at = "rights" /\ reader'.row = profile.modes
  BY <1>1, <1>2 DEF ReaderTypes, Access!NoIdentity
<1>4. ReaderIsGiven' BY <1>1, <1>3 DEF AccessInv, RightsAreGiven, ReaderIsGiven
<1>5. SentIsGiven' BY DEF SentIsGiven
<1>6. outgoing' \in OutgoingTypes /\ seen' \subseteq Settings BY <1>1 DEF AccessInv, AccessIsTyped
<1> QED BY <1>1, <1>2, <1>3, <1>4, <1>5, <1>6, IdentityChanges

LEMMA BeginsKeeps == ASSUME AccessInv, Access!Calls \/ Access!Executes \/ Access!Asks PROVE AccessInv'
<1>1. /\ UNCHANGED <<profile, keyring, rights, senders, editor, starter, applying, usable, outgoing, live, stale>>
      /\ Access!Begins("call") \/ Access!Begins("run") \/ Access!Begins("ask")
  BY DEF Access!Calls, Access!Executes, Access!Asks
<1>2. outgoing.status # "sent"
  <2>1. CASE Access!Calls BY <2>1 DEF Access!Calls, Access!None
  <2>2. CASE Access!Executes BY <2>2 DEF Access!Executes
  <2>3. CASE Access!Asks BY <2>3 DEF Access!Asks, AccessInv, SentIsGiven
  <2> QED BY <2>1, <2>2, <2>3
<1> QED BY <1>1, <1>2, BeginsReading

LEMMA ReadsRightsKeeps == ASSUME AccessInv, Access!ReadsRights PROVE AccessInv'
<1> DEFINE acc == Access!EffectiveAccounts(reader.row.accountMode, rights.accounts)
<1>1. /\ reader.at = "rights" /\ reader' = [reader EXCEPT !.at = "senders", !.caps = rights.caps, !.accounts = acc]
      /\ UNCHANGED <<profile, keyring, rights, senders, editor, starter, applying, usable, outgoing, live, seen, stale>>
  BY DEF Access!ReadsRights
<1>2. /\ reader \in ReaderTypes /\ reader.row \in Modality /\ rights \in RightsTypes /\ usable \subseteq Accounts
      /\ outgoing \in OutgoingTypes /\ seen \subseteq Settings /\ live \subseteq seen /\ outgoing.status # "sent"
      /\ profile.state # "absent"
  BY <1>1 DEF AccessInv, AccessIsTyped, ReaderIsGiven, SentIsGiven, AbsentHasNothing
<1>3. rights.caps \subseteq Access!Caps /\ acc \subseteq Accounts BY <1>2 DEF RightsTypes, Access!EffectiveAccounts
<1> HIDE DEF acc
<1>4. /\ reader' \in ReaderTypes /\ reader'.at = "senders" /\ reader'.row = reader.row /\ reader'.caps = rights.caps
      /\ reader'.accounts = acc
  BY <1>1, <1>2, <1>3 DEF ReaderTypes
<1>5. PICK s \in seen : reader.row = Access!ModesOf(s) BY <1>1 DEF AccessInv, ReaderIsGiven
<1>6. ~stale => \E k \in seen : acc \subseteq Access!GrantedAccounts(k)
  <2>1. reader.row.accountMode = s.accountMode BY <1>5 DEF Access!ModesOf
  <2>2. CASE s.accountMode = "all" BY <1>3, <2>2 DEF Access!GrantedAccounts
  <2>3. CASE s.accountMode # "all"
    <3>1. acc = rights.accounts BY <2>1, <2>3 DEF acc, Access!EffectiveAccounts
    <3> QED BY <1>2, <3>1 DEF AccessInv, RightsAreGiven
  <2> QED BY <2>2, <2>3
<1>7. ~stale => \E k \in seen : rights.caps \subseteq k.caps BY <1>2 DEF AccessInv, RightsAreGiven
<1>8. ReaderIsGiven' BY <1>1, <1>2, <1>4, <1>5, <1>6, <1>7 DEF ReaderIsGiven
<1>9. SentIsGiven' BY <1>1, <1>2 DEF SentIsGiven
<1> QED BY <1>1, <1>2, <1>4, <1>8, <1>9, IdentityChanges

LEMMA ReadsSendersKeeps == ASSUME AccessInv, Access!ReadsSenders PROVE AccessInv'
<1> DEFINE from == Access!EffectiveSenders(reader.row.senderMode, senders)
<1>1. /\ reader.at = "senders" /\ reader' = [reader EXCEPT !.at = "known", !.senders = from]
      /\ UNCHANGED <<profile, keyring, rights, senders, editor, starter, applying, usable, outgoing, live, seen, stale>>
  BY DEF Access!ReadsSenders
<1>2. /\ reader \in ReaderTypes /\ reader.row \in Modality /\ senders \subseteq Accounts /\ usable \subseteq Accounts
      /\ outgoing \in OutgoingTypes /\ seen \subseteq Settings /\ live \subseteq seen /\ outgoing.status # "sent"
      /\ profile.state # "absent"
  BY <1>1 DEF AccessInv, AccessIsTyped, ReaderIsGiven, SentIsGiven, AbsentHasNothing
<1>3. from \subseteq Accounts BY <1>2 DEF Access!EffectiveSenders
<1> HIDE DEF from
<1>4. /\ reader' \in ReaderTypes /\ reader'.at = "known" /\ reader'.row = reader.row /\ reader'.caps = reader.caps
      /\ reader'.accounts = reader.accounts /\ reader'.senders = from
  BY <1>1, <1>2, <1>3 DEF ReaderTypes
<1>5. PICK s \in seen : reader.row = Access!ModesOf(s) BY <1>1 DEF AccessInv, ReaderIsGiven
<1>6. \E k \in seen : from \subseteq Access!GrantedSenders(k)
  <2>1. reader.row.senderMode = s.senderMode BY <1>5 DEF Access!ModesOf
  <2>2. CASE s.senderMode = "all" BY <1>3, <2>2 DEF Access!GrantedSenders
  <2>3. CASE s.senderMode # "all"
    <3>1. from \subseteq senders BY <2>1, <2>3 DEF from, Access!EffectiveSenders
    <3>2. PICK k \in live : senders \subseteq Access!GrantedSenders(k) BY <1>2 DEF AccessInv, RightsAreGiven
    <3> QED BY <1>2, <3>1, <3>2
  <2> QED BY <2>2, <2>3
<1>7. ReaderIsGiven' BY <1>1, <1>2, <1>4, <1>6 DEF AccessInv, ReaderIsGiven
<1>8. SentIsGiven' BY <1>1, <1>2 DEF SentIsGiven
<1> QED BY <1>1, <1>2, <1>4, <1>7, <1>8, IdentityChanges

\* What an identity may send, a setting that was seen allowed.
LEMMA MaySendIsGiven ==
  ASSUME AccessInv, reader.at = "known", Access!MaySend(reader), ~stale
  PROVE  (\E s \in seen : "send" \in s.caps) /\ (\E s \in seen : Sender \in Access!GrantedSenders(s))
BY DEF AccessInv, ReaderIsGiven, Access!MaySend

\* The reader ends, and whatever has been sent was allowed.
LEMMA ReaderRests ==
  ASSUME AccessInv, UNCHANGED <<profile, keyring, rights, senders, editor, starter, applying, usable, live, seen, stale>>,
         NEW where \in {"idle", "claimed"}, profile.state = "absent" => where = "idle",
         reader.at # "idle" \/ where = "idle",
         reader' = [reader EXCEPT !.at = where], outgoing' \in OutgoingTypes,
         outgoing'.status = "sent" =>
           where = "idle" /\ (outgoing.status = "sent" \/ (reader.at = "known" /\ Access!MaySend(reader)))
  PROVE  AccessInv'
<1>1. reader \in ReaderTypes /\ seen \subseteq Settings BY DEF AccessInv, AccessIsTyped
<1>2. reader' \in ReaderTypes /\ reader'.at = where BY <1>1 DEF ReaderTypes
<1>3. ReaderIsGiven' BY <1>2 DEF AccessInv, ReaderIsGiven
<1>4. SentIsGiven' BY <1>2, MaySendIsGiven DEF AccessInv, SentIsGiven
<1> QED BY <1>1, <1>2, <1>3, <1>4, IdentityChanges

LEMMA AccessStoresKeeps == ASSUME AccessInv, Access!Stores PROVE AccessInv'
<1>1. /\ reader.at = "known" /\ reader' = [reader EXCEPT !.at = "idle"]
      /\ \/ outgoing' = [mode |-> reader.row.sending,
                         status |-> IF reader.row.sending = "autonomous" THEN "ready" ELSE "pending"]
         \/ outgoing' = outgoing
      /\ UNCHANGED <<profile, keyring, rights, senders, editor, starter, applying, usable, live, seen, stale>>
  BY DEF Access!Stores
<1>2. reader.row \in Modality /\ outgoing \in OutgoingTypes BY <1>1 DEF AccessInv, AccessIsTyped
<1>3. outgoing' \in OutgoingTypes /\ (outgoing'.status = "sent" => outgoing.status = "sent")
  BY <1>1, <1>2 DEF OutgoingTypes, Modality
<1> QED BY <1>1, <1>3, ReaderRests

LEMMA ClaimsKeeps == ASSUME AccessInv, Access!Claims PROVE AccessInv'
<1> DEFINE where == IF Access!MaySend(reader) THEN "claimed" ELSE "idle"
           status == IF Access!MaySend(reader) THEN "claimed" ELSE Access!Unclaimed
<1>1. /\ reader.at = "known" /\ reader' = [reader EXCEPT !.at = where]
      /\ outgoing' = [outgoing EXCEPT !.status = status]
      /\ UNCHANGED <<profile, keyring, rights, senders, editor, starter, applying, usable, live, seen, stale>>
  BY DEF Access!Claims
<1>2. where \in {"idle", "claimed"} /\ status \in {"claimed", "left", "pending"} BY DEF Access!Unclaimed
<1>3. profile.state # "absent" /\ outgoing \in OutgoingTypes BY <1>1 DEF AccessInv, AccessIsTyped, AbsentHasNothing
<1> HIDE DEF where, status
<1>4. outgoing' \in OutgoingTypes /\ outgoing'.status # "sent" BY <1>1, <1>2, <1>3 DEF OutgoingTypes
<1> QED BY <1>1, <1>2, <1>3, <1>4, ReaderRests

LEMMA RefusedKeeps == ASSUME AccessInv, Access!Refused PROVE AccessInv'
<1>1. /\ reader' = [reader EXCEPT !.at = "idle"]
      /\ outgoing' = [outgoing EXCEPT !.status = "left"] \/ outgoing' = [outgoing EXCEPT !.status = "failed"]
      /\ UNCHANGED <<profile, keyring, rights, senders, editor, starter, applying, usable, live, seen, stale>>
  BY DEF Access!Refused
<1>2. outgoing \in OutgoingTypes BY DEF AccessInv, AccessIsTyped
<1>3. outgoing' \in OutgoingTypes /\ outgoing'.status # "sent" BY <1>1, <1>2 DEF OutgoingTypes
<1> QED BY <1>1, <1>3, ReaderRests

LEMMA SendsKeeps == ASSUME AccessInv, Access!Sends PROVE AccessInv'
<1> DEFINE status == IF Access!MaySend(reader) THEN "sent" ELSE "failed"
<1>1. /\ reader.at = "known" /\ reader' = [reader EXCEPT !.at = "idle"]
      /\ outgoing' = [outgoing EXCEPT !.status = status]
      /\ UNCHANGED <<profile, keyring, rights, senders, editor, starter, applying, usable, live, seen, stale>>
  BY DEF Access!Sends
<1>2. outgoing \in OutgoingTypes BY DEF AccessInv, AccessIsTyped
<1>3. outgoing' \in OutgoingTypes /\ (outgoing'.status = "sent" => Access!MaySend(reader))
  BY <1>1, <1>2 DEF OutgoingTypes
<1> QED BY <1>1, <1>3, ReaderRests

LEMMA AccessStep == ASSUME Access!Offered, AccessInv, [Access!Next]_(Access!vars) PROVE AccessInv'
<1>1. CASE UNCHANGED Access!vars
  <2>1. UNCHANGED <<profile, keyring, rights, senders, editor, starter, applying, usable, reader, outgoing, live, seen, stale>>
    BY <1>1 DEF Access!vars
  <2>2. AccessIsTyped' BY <2>1 DEF AccessInv, AccessIsTyped
  <2> QED BY <2>1, <2>2 DEF AccessInv, AbsentHasNothing, RightsAreGiven, SaveIsGiven, ReaderIsGiven, SentIsGiven
<1>2. ASSUME NEW s \in Settings, Access!Opens(s) \/ Access!Creates(s) PROVE AccessInv'
  BY <1>2, OpensKeeps, AccessCreatesKeeps
<1>3. CASE Access!KeepsToken \/ Access!CreateFails BY <1>3, KeepsTokenKeeps
<1>4. CASE Access!SavesRights \/ Access!SaveRefused \/ Access!SavesSenders \/ Access!SavesModes \/ Access!SaveFails
  BY <1>4, SavesRightsKeeps, SavesSendersKeeps, SavesModesKeeps, SaveEndsBadlyKeeps
<1>5. CASE Access!StartReads \/ Access!StartWrites BY <1>5, StartReadsKeeps, StartWritesKeeps
<1>6. ASSUME NEW state \in {"active", "paused", "revoked"}, Access!SetsState(state) PROVE AccessInv'
  BY <1>6, SetsStateKeeps
<1>7. CASE Access!Applies \/ Access!Applied BY <1>7, AppliesKeeps, AppliedKeeps
<1>8. ASSUME NEW a \in Accounts, Access!Switches(a) PROVE AccessInv' BY <1>8, SwitchesKeeps
<1>9. CASE Access!Calls \/ Access!Executes \/ Access!Asks BY <1>9, BeginsKeeps
<1>10. CASE \/ Access!ReadsRights \/ Access!ReadsSenders \/ Access!Stores \/ Access!Claims \/ Access!Refused
            \/ Access!Sends
  BY <1>10, ReadsRightsKeeps, ReadsSendersKeeps, AccessStoresKeeps, ClaimsKeeps, RefusedKeeps, SendsKeeps
<1> QED BY <1>1, <1>2, <1>3, <1>4, <1>5, <1>6, <1>7, <1>8, <1>9, <1>10 DEF Access!Next

LEMMA AccessInvMeans == ASSUME AccessInv PROVE Access!TypeOK /\ AccessIsGranted
<1>1. Access!TypeOK
  BY DEF AccessInv, AccessIsTyped, Access!TypeOK, ProfileTypes, Modality, RightsTypes, EditorTypes, ReaderTypes, OutgoingTypes
<1>2. Access!NoScopeIsWidened BY DEF AccessInv, ReaderIsGiven, Access!NoScopeIsWidened
<1>3. Access!SentWasAllowed BY DEF AccessInv, SentIsGiven, Access!SentWasAllowed
<1> QED BY <1>1, <1>2, <1>3 DEF AccessIsGranted

\* A step of the whole is one of the access or leaves it alone.
LEMMA StepsOfAccess == ASSUME [Next]_vars PROVE [Access!Next]_(Access!vars)
<1>1. ASSUME UNCHANGED accessVars PROVE UNCHANGED Access!vars BY <1>1 DEF accessVars, Access!vars
<1>2. CASE UNCHANGED vars BY <1>1, <1>2 DEF vars
<1>3. CASE Next BY <1>1, <1>3 DEF Next
<1> QED BY <1>2, <1>3

\* The rights in the three places, and those that a running Agent read, come from settings that were stored.
THEOREM AccessInvariance == Spec => []AccessInv
<1>1. Init => AccessInv BY AccessInit, SettingsAreOffered DEF Init
<1>2. AccessInv /\ [Next]_vars => AccessInv' BY StepsOfAccess, AccessStep, SettingsAreOffered
<1> QED BY <1>1, <1>2, PTL DEF Spec

\* resolve_identity and execute_agent_send: no scope of an identity is wider than what a setting gave that was
\* stored while it was read, and what is sent is allowed by what is stored when it is sent, unless a starting
\* process wrote over rights that it had not read.
THEOREM AccessIsAlwaysGranted == Spec => []AccessIsGranted
<1>1. AccessInv => AccessIsGranted BY AccessInvMeans
<1> QED BY <1>1, AccessInvariance, PTL

-----------------------------------------------------------------------------
(* MailArchive: a package bears the mail it was made of, so a name stands   *)
(* for one mail; what an archiver has in its hands agrees with the          *)
(* directory it writes to, unless another process has published first.      *)

Busy == {"raw", "attachment", "download", "manifest", "publish", "store"}
AfterPart == {"download", "manifest", "publish", "store"}
AfterLink == {"manifest", "publish", "store"}

RowTypes == [state : {"none", "partial", "ready"}, raw : Mails \cup {Archive!Nobody}, names : SUBSET Archive!Parts]
WorkTypes ==
  [at : {"idle", "look"} \cup Busy, mail : Mails \cup {Archive!Nobody}, uid : Nat,
   pkg : Mails \cup {Archive!Nobody}, fresh : BOOLEAN, stage : Archive!Dirs, names : SUBSET Archive!Parts,
   had : BOOLEAN, failed : BOOLEAN]

PackagesAreTyped ==
  /\ row \in [Mails -> RowTypes] /\ dir \in [Mails -> Archive!Dirs] /\ work \in [Archivers -> WorkTypes]
  /\ told \subseteq Mails /\ shadowed \subseteq strained /\ strained \subseteq Mails
  /\ epoch \in Archive!Epochs /\ trusted \in BOOLEAN

\* An archiver works on the package of its mail, which it sees under the UID of the mailbox as it is.
WorkIsNamed(w, e) ==
  /\ w.at \notin Busy => w.pkg = Archive!Nobody
  /\ w.at \in Busy => w.pkg = w.mail
  /\ w.at # "idle" => w.mail \in Mails
  /\ w.uid # 0 => w.at # "idle" /\ w.uid = UidIn[e][w.mail]

\* Nothing is stored, published, seen or reported under another name than its own.
RowIsNamed(p, r, d) == r.state # "none" => r.raw = p /\ d.there
DirIsNamed(p, d) == d.there => d.raw = p /\ d.listed
SeatIsNamed(s) == s.pkg \in Mails /\ s.epoch \in Archive!Epochs /\ s.uid = UidIn[s.epoch][s.pkg]
NamesAreTrue ==
  /\ \A a \in Archivers : WorkIsNamed(work[a], epoch)
  /\ \A p \in Mails : RowIsNamed(p, row[p], dir[p]) /\ DirIsNamed(p, dir[p])
  /\ \A s \in seats : SeatIsNamed(s)
  /\ \A m \in told : row[m].state # "none"

\* What an archiver has written is where it will be looked for: d is the directory of its package, hidden
\* says that another process published it.
HandHolds(w, d, hidden) ==
  /\ w.at \in {"look", "raw", "attachment"} => w.names = {} /\ ~w.failed
  /\ w.at \in AfterPart /\ ~w.failed => "attachment" \in w.names
  /\ w.fresh /\ w.at \in {"attachment", "download", "manifest", "publish"} =>
       w.stage.there /\ w.stage.raw = w.mail /\ w.names \subseteq w.stage.files
  /\ w.at = "publish" => w.fresh /\ w.stage.listed /\ w.stage.manifest = w.names
  /\ w.at \in Busy /\ ~w.fresh => d.there /\ w.names \subseteq d.files
  /\ w.at = "store" => d.there /\ (~hidden => w.names \subseteq d.files)
RowHolds(r, d, hidden) ==
  /\ r.state # "none" /\ ~hidden => r.names \subseteq d.files
  /\ r.state = "ready" => "attachment" \in r.names
  /\ r.state = "none" => r.names = {}
FilesAreThere ==
  /\ \A a \in Archivers : HandHolds(work[a], dir[work[a].pkg], work[a].pkg \in shadowed)
  /\ \A p \in Mails : RowHolds(row[p], dir[p], p \in shadowed)

\* Where no two runs met and all ended well, one archiver at most has begun to write, and the manifest
\* lists what is in the rows, or what it is about to store.
Meets(v, w) == v.at \in Busy \ {"raw"} /\ w.at \in Busy \ {"raw"} /\ v.pkg = w.pkg
OneWrites == \A a, b \in Archivers : a # b /\ Meets(work[a], work[b]) => work[a].pkg \in strained
HandAgrees(w, r, d) ==
  w.at \in Busy =>
    /\ r.state # "none" => ~w.fresh
    /\ w.at = "store" => d.manifest = w.names
    /\ "download" \in r.names => w.had /\ (w.at \in AfterLink => "download" \in w.names)
Waits(w, p) == w.pkg = p => w.at = "raw"
ManifestsAgree ==
  /\ OneWrites
  /\ \A a \in Archivers : work[a].pkg \notin strained => HandAgrees(work[a], row[work[a].pkg], dir[work[a].pkg])
  /\ \A p \in Mails :
       row[p].state # "none" /\ p \notin strained /\ (\A a \in Archivers : Waits(work[a], p)) =>
         dir[p].manifest = row[p].names

ArchiveInv == PackagesAreTyped /\ NamesAreTrue /\ FilesAreThere /\ ManifestsAgree

\* An archiver, and what it has in its hands.
LEMMA OfArchiver ==
  ASSUME ArchiveInv, NEW a \in Archivers
  PROVE  /\ work[a] \in WorkTypes /\ WorkIsNamed(work[a], epoch)
         /\ HandHolds(work[a], dir[work[a].pkg], work[a].pkg \in shadowed)
         /\ work[a].pkg \notin strained => HandAgrees(work[a], row[work[a].pkg], dir[work[a].pkg])
         /\ work[a].at \notin Busy => work[a].pkg \notin Mails
<1>1. work[a] \in WorkTypes /\ WorkIsNamed(work[a], epoch) BY DEF ArchiveInv, PackagesAreTyped, NamesAreTrue
<1>2. HandHolds(work[a], dir[work[a].pkg], work[a].pkg \in shadowed) BY DEF ArchiveInv, FilesAreThere
<1>3. work[a].pkg \notin strained => HandAgrees(work[a], row[work[a].pkg], dir[work[a].pkg])
  BY DEF ArchiveInv, ManifestsAgree
<1>4. work[a].at \notin Busy => work[a].pkg \notin Mails BY <1>1, MailsAreNumbered DEF WorkIsNamed, Archive!Numbered
<1> QED BY <1>1, <1>2, <1>3, <1>4

LEMMA AtWork ==
  ASSUME ArchiveInv, NEW a \in Archivers, work[a].at \in Busy
  PROVE  /\ work[a] \in WorkTypes /\ work[a].pkg \in Mails /\ work[a].mail = work[a].pkg
         /\ row[work[a].pkg] \in RowTypes /\ dir[work[a].pkg] \in Archive!Dirs
         /\ Archive!Place(a) \in Archive!Dirs
<1>1. work[a] \in WorkTypes /\ work[a].mail \in Mails /\ work[a].pkg = work[a].mail
  BY DEF ArchiveInv, PackagesAreTyped, NamesAreTrue, WorkIsNamed, Busy
<1>2. row[work[a].pkg] \in RowTypes /\ dir[work[a].pkg] \in Archive!Dirs
  BY <1>1 DEF ArchiveInv, PackagesAreTyped
<1>3. work[a].stage \in Archive!Dirs BY <1>1 DEF WorkTypes
<1> QED BY <1>1, <1>2, <1>3 DEF Archive!Place

\* A package, its rows and its directory.
LEMMA OfPackage ==
  ASSUME ArchiveInv, NEW p \in Mails
  PROVE  /\ row[p] \in RowTypes /\ dir[p] \in Archive!Dirs
         /\ RowIsNamed(p, row[p], dir[p]) /\ DirIsNamed(p, dir[p]) /\ RowHolds(row[p], dir[p], p \in shadowed)
         /\ p \notin strained => p \notin shadowed
         /\ row[p].state # "none" /\ p \notin strained /\ (\A a \in Archivers : Waits(work[a], p)) =>
              dir[p].manifest = row[p].names
BY DEF ArchiveInv, PackagesAreTyped, NamesAreTrue, FilesAreThere, ManifestsAgree

\* Archiver a goes on with w: the others keep what they have, because directories only gain files and what
\* two runs have written is strained.
LEMMA ArchiverGoes ==
  ASSUME ArchiveInv, NEW a \in Archivers, NEW w \in WorkTypes, work' = [work EXCEPT ![a] = w], UNCHANGED <<epoch, trusted>>,
         row' \in [Mails -> RowTypes], dir' \in [Mails -> Archive!Dirs], told' \subseteq Mails,
         shadowed \subseteq shadowed', shadowed' \subseteq strained', strained \subseteq strained', strained' \subseteq Mails,
         \A s \in seats' : SeatIsNamed(s), \A m \in told' : row'[m].state # "none",
         \A p \in Mails : /\ dir[p].there => dir'[p].there /\ dir[p].files \subseteq dir'[p].files
                          /\ RowIsNamed(p, row'[p], dir'[p]) /\ DirIsNamed(p, dir'[p])
                          /\ RowHolds(row'[p], dir'[p], p \in shadowed'),
         \A p \in Mails : row'[p].state # "none" /\ p \notin strained' /\ Waits(w, p)
                            /\ (\A b \in Archivers \ {a} : Waits(work[b], p)) => dir'[p].manifest = row'[p].names,
         WorkIsNamed(w, epoch), HandHolds(w, dir'[w.pkg], w.pkg \in shadowed'),
         w.pkg \notin strained' => HandAgrees(w, row'[w.pkg], dir'[w.pkg]),
         \A b \in Archivers \ {a} : Meets(w, work[b]) => w.pkg \in strained',
         \A b \in Archivers \ {a} : work[b].at \in Busy /\ work[b].pkg \notin strained' =>
           row'[work[b].pkg] = row[work[b].pkg] /\ (work[b].at = "store" => dir'[work[b].pkg].manifest = dir[work[b].pkg].manifest)
  PROVE  ArchiveInv'
<1>0. work \in [Archivers -> WorkTypes] BY DEF ArchiveInv, PackagesAreTyped
<1>1. \A b \in Archivers : work'[b] = IF b = a THEN w ELSE work[b] BY <1>0
<1>2. PackagesAreTyped' BY <1>0 DEF ArchiveInv, PackagesAreTyped
<1>3. NamesAreTrue'
  <2>1. \A b \in Archivers : WorkIsNamed(work'[b], epoch') BY <1>1 DEF ArchiveInv, NamesAreTrue
  <2> QED BY <2>1 DEF NamesAreTrue, SeatIsNamed, Archive!Epochs
<1>4. FilesAreThere'
  <2>1. ASSUME NEW b \in Archivers, b # a PROVE HandHolds(work[b], dir'[work[b].pkg], work[b].pkg \in shadowed')
    <3>1. HandHolds(work[b], dir[work[b].pkg], work[b].pkg \in shadowed) BY OfArchiver
    <3>2. CASE work[b].at \in Busy
      <4>1. work[b].pkg \in Mails BY <3>2, AtWork
      <4> QED BY <3>1, <4>1 DEF HandHolds
    <3>3. CASE work[b].at \notin Busy BY <3>1, <3>3 DEF HandHolds, Busy
    <3> QED BY <3>2, <3>3
  <2>2. \A b \in Archivers : HandHolds(work'[b], dir'[work'[b].pkg], work'[b].pkg \in shadowed') BY <1>1, <2>1
  <2> QED BY <2>2 DEF FilesAreThere
<1>5. ManifestsAgree'
  <2>1. OneWrites'
    <3> SUFFICES ASSUME NEW b \in Archivers, NEW c \in Archivers, b # c, Meets(work'[b], work'[c])
                 PROVE  work'[b].pkg \in strained'
      BY DEF OneWrites, Meets
    <3>1. Meets(work'[c], work'[b]) /\ work'[b].pkg = work'[c].pkg BY DEF Meets
    <3>2. CASE b # a /\ c # a BY <1>1, <3>2 DEF ArchiveInv, ManifestsAgree, OneWrites
    <3>3. CASE b = a \/ c = a BY <1>1, <3>1, <3>3
    <3> QED BY <3>2, <3>3
  <2>2. ASSUME NEW b \in Archivers, work'[b].pkg \notin strained'
        PROVE  HandAgrees(work'[b], row'[work'[b].pkg], dir'[work'[b].pkg])
    <3>1. CASE b = a BY <1>1, <2>2, <3>1
    <3>2. CASE b # a
      <4>1. work'[b] = work[b] /\ work[b].pkg \notin strained BY <1>1, <2>2, <3>2
      <4>2. HandAgrees(work[b], row[work[b].pkg], dir[work[b].pkg]) BY <4>1, OfArchiver
      <4> QED BY <2>2, <3>2, <4>1, <4>2 DEF HandAgrees
    <3> QED BY <3>1, <3>2
  <2>3. ASSUME NEW p \in Mails, row'[p].state # "none", p \notin strained', \A b \in Archivers : Waits(work'[b], p)
        PROVE  dir'[p].manifest = row'[p].names
    BY <1>1, <2>3
  <2> QED BY <2>1, <2>2, <2>3 DEF ManifestsAgree, Waits
<1> QED BY <1>2, <1>3, <1>4, <1>5 DEF ArchiveInv

\* The same while no file and no row changes.
LEMMA HandMoves ==
  ASSUME ArchiveInv, NEW a \in Archivers, NEW w \in WorkTypes, work' = [work EXCEPT ![a] = w],
         UNCHANGED <<row, seats, dir, epoch, trusted, shadowed>>,
         told' \subseteq Mails, \A m \in told' : row[m].state # "none",
         strained \subseteq strained', strained' \subseteq Mails,
         WorkIsNamed(w, epoch), HandHolds(w, dir[w.pkg], w.pkg \in shadowed),
         w.pkg \notin strained' => HandAgrees(w, row[w.pkg], dir[w.pkg]),
         \A b \in Archivers \ {a} : Meets(w, work[b]) => w.pkg \in strained',
         \A p \in Mails : Waits(w, p) /\ ~Waits(work[a], p) => p \in strained' \/ row[p].state = "none"
  PROVE  ArchiveInv'
<1>1. /\ row' \in [Mails -> RowTypes] /\ dir' \in [Mails -> Archive!Dirs]
      /\ shadowed \subseteq shadowed' /\ shadowed' \subseteq strained' /\ UNCHANGED <<epoch, trusted>>
  BY DEF ArchiveInv, PackagesAreTyped
<1>2. (\A s \in seats' : SeatIsNamed(s)) /\ (\A m \in told' : row'[m].state # "none") BY DEF ArchiveInv, NamesAreTrue
<1>3. \A p \in Mails : /\ dir[p].there => dir'[p].there /\ dir[p].files \subseteq dir'[p].files
                       /\ RowIsNamed(p, row'[p], dir'[p]) /\ DirIsNamed(p, dir'[p])
                       /\ RowHolds(row'[p], dir'[p], p \in shadowed')
  BY OfPackage
<1>4. ASSUME NEW p \in Mails, row'[p].state # "none", p \notin strained', Waits(w, p),
             \A b \in Archivers \ {a} : Waits(work[b], p)
      PROVE  dir'[p].manifest = row'[p].names
  <2>1. \A b \in Archivers : Waits(work[b], p) BY <1>4
  <2>2. p \notin strained BY <1>4
  <2> QED BY <1>4, <2>1, <2>2, OfPackage
<1>5. \A b \in Archivers \ {a} : work[b].at \in Busy /\ work[b].pkg \notin strained' =>
        row'[work[b].pkg] = row[work[b].pkg] /\ (work[b].at = "store" => dir'[work[b].pkg].manifest = dir[work[b].pkg].manifest)
  OBVIOUS
<1>6. /\ HandHolds(w, dir'[w.pkg], w.pkg \in shadowed')
      /\ w.pkg \notin strained' => HandAgrees(w, row'[w.pkg], dir'[w.pkg])
  OBVIOUS
<1> QED BY <1>1, <1>2, <1>3, <1>4, <1>5, <1>6, ArchiverGoes

\* Archiver a goes on with w, having written d to its directory.
LEMMA ArchiverPuts ==
  ASSUME ArchiveInv, NEW a \in Archivers, NEW w \in WorkTypes, NEW d \in Archive!Dirs,
         work[a].at \in {"raw", "attachment", "download", "manifest"}, Archive!Puts(a, w, d),
         UNCHANGED <<row, seats, epoch, trusted, told, shadowed>>,
         strained \subseteq strained', strained' \subseteq Mails,
         w.at \in Busy \ {"raw"},
         w.pkg = work[a].pkg, w.mail = work[a].mail, w.uid = work[a].uid, w.fresh = work[a].fresh,
         \A b \in Archivers \ {a} : Meets(w, work[b]) => w.pkg \in strained',
         d.there, d.raw = w.mail, Archive!Place(a).files \subseteq d.files, w.names \subseteq d.files,
         Archive!Place(a).listed => d.listed,
         w.at = "attachment" => w.names = {} /\ ~w.failed,
         w.at \in AfterPart /\ ~w.failed => "attachment" \in w.names,
         w.at = "publish" => w.fresh /\ d.listed, w.at = "store" => ~w.fresh,
         d.manifest = IF w.at \in {"publish", "store"} THEN w.names ELSE Archive!Place(a).manifest,
         w.pkg \notin strained' /\ "download" \in row[w.pkg].names => w.had /\ (w.at \in AfterLink => "download" \in w.names)
  PROVE  ArchiveInv'
<1> DEFINE p == work[a].pkg
<1>1. /\ work[a] \in WorkTypes /\ p \in Mails /\ work[a].mail = p /\ dir[p] \in Archive!Dirs /\ row[p] \in RowTypes
  BY AtWork DEF Busy
<1>2. WorkIsNamed(w, epoch) BY <1>1, OfArchiver DEF WorkIsNamed, Busy
<1>3. w.pkg \notin strained' => (row[p].state # "none" => ~w.fresh) BY OfArchiver DEF HandAgrees, Busy
<1>4. CASE work[a].fresh
  <2> DEFINE v == [w EXCEPT !.stage = d]
  <2>1. work' = [work EXCEPT ![a] = v] /\ dir' = dir BY <1>4 DEF Archive!Puts, Archive!Sets
  <2>2. v \in WorkTypes BY DEF WorkTypes
  <2>3. /\ v.stage = d /\ v.at = w.at /\ v.pkg = w.pkg /\ v.mail = w.mail /\ v.uid = w.uid /\ v.fresh = w.fresh
        /\ v.names = w.names /\ v.failed = w.failed /\ v.had = w.had
    BY DEF WorkTypes
  <2> HIDE DEF v
  <2>4. WorkIsNamed(v, epoch) BY <1>2, <2>3 DEF WorkIsNamed
  <2>5. HandHolds(v, dir[v.pkg], v.pkg \in shadowed) BY <1>4, <2>3 DEF HandHolds, Busy, AfterPart
  <2>6. v.pkg \notin strained' => HandAgrees(v, row[v.pkg], dir[v.pkg]) BY <1>3, <1>4, <2>3 DEF HandAgrees
  <2>7. \A b \in Archivers \ {a} : Meets(v, work[b]) => v.pkg \in strained' BY <2>3 DEF Meets
  <2>8. \A q \in Mails : Waits(v, q) => q # p BY <2>3 DEF Waits
  <2>9. \A q \in Mails : q # p => Waits(work[a], q) BY DEF Waits
  <2>10. told \subseteq Mails /\ \A m \in told : row[m].state # "none" BY DEF ArchiveInv, PackagesAreTyped, NamesAreTrue
  <2> QED BY <2>1, <2>2, <2>4, <2>5, <2>6, <2>7, <2>8, <2>9, <2>10, HandMoves
<1>5. CASE ~work[a].fresh
  <2>1. work' = [work EXCEPT ![a] = w] /\ dir' = [dir EXCEPT ![p] = d] /\ Archive!Place(a) = dir[p]
    BY <1>5 DEF Archive!Puts, Archive!Sets, Archive!Place
  <2>2. /\ row' \in [Mails -> RowTypes] /\ dir \in [Mails -> Archive!Dirs] /\ told' \subseteq Mails
        /\ shadowed \subseteq shadowed' /\ shadowed' \subseteq strained'
    BY DEF ArchiveInv, PackagesAreTyped
  <2>3. dir' \in [Mails -> Archive!Dirs] /\ \A q \in Mails : dir'[q] = IF q = p THEN d ELSE dir[q] BY <2>1, <2>2
  <2>4. (\A s \in seats' : SeatIsNamed(s)) /\ (\A m \in told' : row'[m].state # "none") BY DEF ArchiveInv, NamesAreTrue
  <2>5. dir[p].there BY <1>5, OfArchiver DEF HandHolds, Busy
  <2>6. dir[p].raw = p /\ dir[p].listed /\ RowIsNamed(p, row[p], dir[p]) /\ RowHolds(row[p], dir[p], p \in shadowed)
    BY <1>1, <2>5, OfPackage DEF DirIsNamed
  <2>7. \A q \in Mails : /\ dir[q].there => dir'[q].there /\ dir[q].files \subseteq dir'[q].files
                         /\ RowIsNamed(q, row'[q], dir'[q]) /\ DirIsNamed(q, dir'[q])
                         /\ RowHolds(row'[q], dir'[q], q \in shadowed')
    <3> SUFFICES ASSUME NEW q \in Mails
                 PROVE  /\ dir[q].there => dir'[q].there /\ dir[q].files \subseteq dir'[q].files
                        /\ RowIsNamed(q, row'[q], dir'[q]) /\ DirIsNamed(q, dir'[q])
                        /\ RowHolds(row'[q], dir'[q], q \in shadowed')
      OBVIOUS
    <3>1. CASE q = p BY <1>1, <2>1, <2>3, <2>6, <3>1 DEF RowIsNamed, DirIsNamed, RowHolds
    <3>2. CASE q # p BY <2>3, <3>2, OfPackage
    <3> QED BY <3>1, <3>2
  <2>8. ASSUME NEW q \in Mails, row'[q].state # "none", q \notin strained', Waits(w, q),
               \A b \in Archivers \ {a} : Waits(work[b], q)
        PROVE  dir'[q].manifest = row'[q].names
    <3>1. q # p /\ Waits(work[a], q) BY <2>8 DEF Waits
    <3>2. q \notin strained /\ \A b \in Archivers : Waits(work[b], q) BY <2>8, <3>1
    <3> QED BY <2>3, <2>8, <3>1, <3>2, OfPackage
  <2>9. HandHolds(w, dir'[w.pkg], w.pkg \in shadowed') BY <1>1, <1>5, <2>3 DEF HandHolds, Busy, AfterPart
  <2>10. w.pkg \notin strained' => HandAgrees(w, row'[w.pkg], dir'[w.pkg]) BY <1>1, <1>5, <2>3 DEF HandAgrees
  <2>11. ASSUME NEW b \in Archivers \ {a}, work[b].at \in Busy, work[b].pkg \notin strained', work[b].at = "store"
         PROVE  dir'[work[b].pkg].manifest = dir[work[b].pkg].manifest
    <3>1. work[b].pkg \in Mails BY <2>11, AtWork
    <3>2. CASE work[b].pkg # p BY <2>3, <3>1, <3>2
    <3>3. CASE work[b].pkg = p
      <4>1. Meets(w, work[b]) BY <2>11, <3>3 DEF Meets, Busy
      <4> QED BY <2>11, <3>3, <4>1
    <3> QED BY <3>2, <3>3
  <2>12. \A b \in Archivers \ {a} : work[b].at \in Busy /\ work[b].pkg \notin strained' =>
           row'[work[b].pkg] = row[work[b].pkg] /\ (work[b].at = "store" => dir'[work[b].pkg].manifest = dir[work[b].pkg].manifest)
    BY <2>11
  <2>13. dir' \in [Mails -> Archive!Dirs] /\ work' = [work EXCEPT ![a] = w] BY <2>1, <2>3
  <2> HIDE DEF p
  <2> QED BY <1>2, <2>2, <2>4, <2>7, <2>8, <2>9, <2>10, <2>12, <2>13, ArchiverGoes
<1> QED BY <1>4, <1>5

\* An archiver that has begun to write is alone, or its package is strained.
LEMMA AloneOrStrained ==
  ASSUME ArchiveInv, NEW a \in Archivers, work[a].at \in Busy \ {"raw"}, NEW w, w.pkg = work[a].pkg
  PROVE  \A b \in Archivers \ {a} : Meets(w, work[b]) => w.pkg \in strained
BY DEF ArchiveInv, ManifestsAgree, OneWrites, Meets

\* What an archiver in the middle of its files has done.
LEMMA InTheMiddle ==
  ASSUME ArchiveInv, NEW a \in Archivers, work[a].at \in {"attachment", "download", "manifest"}
  PROVE  /\ Archive!Place(a).there /\ Archive!Place(a).raw = work[a].mail
         /\ work[a].names \subseteq Archive!Place(a).files
<1>1. work[a].pkg \in Mails /\ work[a].mail = work[a].pkg BY AtWork DEF Busy
<1>2. CASE work[a].fresh
  <2>1. Archive!Place(a) = work[a].stage BY <1>2 DEF Archive!Place
  <2> QED BY <1>2, <2>1, OfArchiver DEF HandHolds
<1>3. CASE ~work[a].fresh
  <2>1. Archive!Place(a) = dir[work[a].pkg] BY <1>3 DEF Archive!Place
  <2>2. dir[work[a].pkg].there /\ work[a].names \subseteq dir[work[a].pkg].files BY <1>3, OfArchiver DEF HandHolds, Busy
  <2> QED BY <1>1, <2>1, <2>2, OfPackage DEF DirIsNamed
<1> QED BY <1>2, <1>3

\* Nothing is written.
LEMMA PutsNothing ==
  ASSUME ArchiveInv, NEW a \in Archivers, work[a].at \in Busy, NEW w \in WorkTypes,
         Archive!Sets(a, w), UNCHANGED dir, w.stage = work[a].stage
  PROVE  Archive!Puts(a, w, Archive!Place(a))
<1>1. CASE work[a].fresh
  <2>1. [w EXCEPT !.stage = work[a].stage] = w BY DEF WorkTypes
  <2>2. Archive!Place(a) = work[a].stage BY <1>1 DEF Archive!Place
  <2> QED BY <1>1, <2>1, <2>2 DEF Archive!Puts
<1>2. CASE ~work[a].fresh
  <2>1. dir \in [Mails -> Archive!Dirs] /\ work[a].pkg \in Mails BY AtWork DEF ArchiveInv, PackagesAreTyped
  <2>2. Archive!Place(a) = dir[work[a].pkg] BY <1>2 DEF Archive!Place
  <2>3. dir = [dir EXCEPT ![work[a].pkg] = Archive!Place(a)] BY <2>1, <2>2
  <2> QED BY <1>2, <2>3 DEF Archive!Puts
<1> QED BY <1>1, <1>2

LEMMA WritesRawKeeps == ASSUME ArchiveInv, NEW a \in Archivers, Archive!WritesRaw(a) PROVE ArchiveInv'
<1> DEFINE w == [work[a] EXCEPT !.at = "attachment"]
           d == [Archive!Place(a) EXCEPT !.there = TRUE, !.raw = work[a].mail]
<1>1. /\ work[a].at = "raw" /\ Archive!Puts(a, w, d)
      /\ strained' = IF Archive!Peers(a) # {} THEN strained \cup {work[a].pkg} ELSE strained
      /\ UNCHANGED <<row, seats, epoch, trusted, told, shadowed>>
  BY DEF Archive!WritesRaw, Archive!At
<1>2. /\ work[a] \in WorkTypes /\ Archive!Place(a) \in Archive!Dirs /\ work[a].pkg \in Mails /\ work[a].mail = work[a].pkg
  BY <1>1, AtWork DEF Busy
<1>3. w \in WorkTypes BY <1>2 DEF WorkTypes, Busy
<1>4. /\ w.at = "attachment" /\ w.pkg = work[a].pkg /\ w.mail = work[a].mail /\ w.uid = work[a].uid
      /\ w.fresh = work[a].fresh /\ w.names = work[a].names /\ w.failed = work[a].failed /\ w.had = work[a].had
  BY <1>2 DEF WorkTypes
<1>5. d \in Archive!Dirs /\ d.there /\ d.raw = work[a].mail /\ d.files = Archive!Place(a).files
      /\ d.listed = Archive!Place(a).listed /\ d.manifest = Archive!Place(a).manifest
  BY <1>2 DEF Archive!Dirs
<1>6. work[a].names = {} /\ ~work[a].failed BY <1>1, OfArchiver DEF HandHolds
<1>7. strained \subseteq strained' /\ strained' \subseteq Mails BY <1>1, <1>2 DEF ArchiveInv, PackagesAreTyped
<1> HIDE DEF w, d
<1>8. ASSUME NEW b \in Archivers \ {a}, Meets(w, work[b]) PROVE w.pkg \in strained'
  <2>1. b \in Archive!Peers(a) BY <1>4, <1>8 DEF Archive!Peers, Meets, Busy
  <2> QED BY <1>1, <1>4, <2>1
<1>9. w.pkg \notin strained' /\ "download" \in row[w.pkg].names => w.had
  BY <1>1, <1>4, <1>7, OfArchiver DEF HandAgrees, Busy
<1> QED BY <1>1, <1>3, <1>4, <1>5, <1>6, <1>7, <1>8, <1>9, ArchiverPuts DEF Busy, AfterPart, AfterLink

LEMMA WritesAttachmentKeeps == ASSUME ArchiveInv, NEW a \in Archivers, Archive!WritesAttachment(a) PROVE ArchiveInv'
<1> DEFINE w == [work[a] EXCEPT !.at = "download", !.names = {"attachment"}]
           d == [Archive!Place(a) EXCEPT !.files = @ \cup {"attachment"}]
<1>1. /\ work[a].at = "attachment" /\ Archive!Puts(a, w, d)
      /\ UNCHANGED <<row, seats, epoch, trusted, told, shadowed, strained>>
  BY DEF Archive!WritesAttachment, Archive!At
<1>2. /\ work[a] \in WorkTypes /\ Archive!Place(a) \in Archive!Dirs /\ work[a].pkg \in Mails /\ work[a].mail = work[a].pkg
  BY <1>1, AtWork DEF Busy
<1>3. w \in WorkTypes BY <1>2 DEF WorkTypes, Busy, Archive!Parts
<1>4. /\ w.at = "download" /\ w.pkg = work[a].pkg /\ w.mail = work[a].mail /\ w.uid = work[a].uid
      /\ w.fresh = work[a].fresh /\ w.names = {"attachment"} /\ w.failed = work[a].failed /\ w.had = work[a].had
  BY <1>2 DEF WorkTypes
<1>5. d \in Archive!Dirs /\ d.there = Archive!Place(a).there /\ d.raw = Archive!Place(a).raw
      /\ d.files = Archive!Place(a).files \cup {"attachment"}
      /\ d.listed = Archive!Place(a).listed /\ d.manifest = Archive!Place(a).manifest
  BY <1>2 DEF Archive!Dirs, Archive!Parts
<1>6. Archive!Place(a).there /\ Archive!Place(a).raw = work[a].mail BY <1>1, InTheMiddle
<1>7. strained \subseteq Mails BY DEF ArchiveInv, PackagesAreTyped
<1> HIDE DEF w, d
<1>8. \A b \in Archivers \ {a} : Meets(w, work[b]) => w.pkg \in strained BY <1>1, <1>4, AloneOrStrained DEF Busy
<1>9. w.pkg \notin strained /\ "download" \in row[w.pkg].names => w.had BY <1>1, <1>4, OfArchiver DEF HandAgrees, Busy
<1> QED BY <1>1, <1>3, <1>4, <1>5, <1>6, <1>7, <1>8, <1>9, ArchiverPuts DEF Busy, AfterPart, AfterLink

LEMMA DownloadsKeeps == ASSUME ArchiveInv, NEW a \in Archivers, Archive!Downloads(a) PROVE ArchiveInv'
<1> DEFINE w == [work[a] EXCEPT !.at = "manifest", !.names = @ \cup {"download"}]
           d == [Archive!Place(a) EXCEPT !.files = @ \cup {"download"}]
<1>1. /\ work[a].at = "download" /\ Archive!Puts(a, w, d)
      /\ UNCHANGED <<row, seats, epoch, trusted, told, shadowed, strained>>
  BY DEF Archive!Downloads, Archive!At
<1>2. /\ work[a] \in WorkTypes /\ Archive!Place(a) \in Archive!Dirs /\ work[a].pkg \in Mails /\ work[a].mail = work[a].pkg
  BY <1>1, AtWork DEF Busy
<1>3. w \in WorkTypes BY <1>2 DEF WorkTypes, Busy, Archive!Parts
<1>4. /\ w.at = "manifest" /\ w.pkg = work[a].pkg /\ w.mail = work[a].mail /\ w.uid = work[a].uid
      /\ w.fresh = work[a].fresh /\ w.names = work[a].names \cup {"download"}
      /\ w.failed = work[a].failed /\ w.had = work[a].had
  BY <1>2 DEF WorkTypes
<1>5. d \in Archive!Dirs /\ d.there = Archive!Place(a).there /\ d.raw = Archive!Place(a).raw
      /\ d.files = Archive!Place(a).files \cup {"download"}
      /\ d.listed = Archive!Place(a).listed /\ d.manifest = Archive!Place(a).manifest
  BY <1>2 DEF Archive!Dirs, Archive!Parts
<1>6. Archive!Place(a).there /\ Archive!Place(a).raw = work[a].mail /\ work[a].names \subseteq Archive!Place(a).files
  BY <1>1, InTheMiddle
<1>7. strained \subseteq Mails BY DEF ArchiveInv, PackagesAreTyped
<1>8. ~work[a].failed => "attachment" \in work[a].names BY <1>1, OfArchiver DEF HandHolds, AfterPart
<1> HIDE DEF w, d
<1>9. \A b \in Archivers \ {a} : Meets(w, work[b]) => w.pkg \in strained BY <1>1, <1>4, AloneOrStrained DEF Busy
<1>10. w.pkg \notin strained /\ "download" \in row[w.pkg].names => w.had BY <1>1, <1>4, OfArchiver DEF HandAgrees, Busy
<1> QED BY <1>1, <1>3, <1>4, <1>5, <1>6, <1>7, <1>8, <1>9, <1>10, ArchiverPuts DEF Busy, AfterPart, AfterLink

LEMMA AttachmentFailsKeeps == ASSUME ArchiveInv, NEW a \in Archivers, Archive!AttachmentFails(a) PROVE ArchiveInv'
<1> DEFINE w == [work[a] EXCEPT !.at = "download", !.failed = TRUE]
           d == Archive!Place(a)
<1>1. /\ work[a].at = "attachment" /\ Archive!Sets(a, w)
      /\ UNCHANGED <<row, seats, dir, epoch, trusted, told, shadowed, strained>>
  BY DEF Archive!AttachmentFails, Archive!At
<1>2. /\ work[a] \in WorkTypes /\ d \in Archive!Dirs /\ work[a].pkg \in Mails /\ work[a].mail = work[a].pkg
  BY <1>1, AtWork DEF Busy
<1>3. w \in WorkTypes BY <1>2 DEF WorkTypes, Busy
<1>4. /\ w.at = "download" /\ w.pkg = work[a].pkg /\ w.mail = work[a].mail /\ w.uid = work[a].uid
      /\ w.fresh = work[a].fresh /\ w.names = work[a].names /\ w.failed /\ w.had = work[a].had /\ w.stage = work[a].stage
  BY <1>2 DEF WorkTypes
<1>5. d.there /\ d.raw = work[a].mail /\ work[a].names \subseteq d.files BY <1>1, InTheMiddle
<1>6. strained \subseteq Mails BY DEF ArchiveInv, PackagesAreTyped
<1> HIDE DEF w
<1>7. Archive!Puts(a, w, d) BY <1>1, <1>3, <1>4, PutsNothing DEF Busy
<1> HIDE DEF d
<1>8. \A b \in Archivers \ {a} : Meets(w, work[b]) => w.pkg \in strained BY <1>1, <1>4, AloneOrStrained DEF Busy
<1>9. w.pkg \notin strained /\ "download" \in row[w.pkg].names => w.had BY <1>1, <1>4, OfArchiver DEF HandAgrees, Busy
<1> QED BY <1>1, <1>2, <1>3, <1>4, <1>5, <1>6, <1>7, <1>8, <1>9, ArchiverPuts DEF Busy, AfterPart, AfterLink, d

\* The rows of a package name a download only if it is there to be kept.
LEMMA DownloadIsPreserved ==
  ASSUME ArchiveInv, NEW a \in Archivers, work[a].at = "download", work[a].pkg \notin strained,
         "download" \in row[work[a].pkg].names
  PROVE  Archive!Preserved(a) /\ work[a].had
<1> DEFINE p == work[a].pkg
<1>1. p \in Mails BY AtWork DEF Busy
<1>2. work[a].had /\ (row[p].state # "none" => ~work[a].fresh) BY OfArchiver DEF HandAgrees, Busy
<1>3. row[p].state # "none" /\ p \notin shadowed BY <1>1, OfPackage DEF RowHolds
<1>4. "download" \in dir[p].files BY <1>1, <1>3, OfPackage DEF RowHolds
<1> QED BY <1>2, <1>3, <1>4 DEF Archive!Preserved, Archive!Place

LEMMA DownloadEndsBadlyKeeps ==
  ASSUME ArchiveInv, NEW a \in Archivers, Archive!DownloadFails(a) \/ Archive!SkipsDownload(a)
  PROVE  ArchiveInv'
<1> DEFINE w1 == [work[a] EXCEPT !.at = "manifest", !.failed = TRUE]
           w2 == [work[a] EXCEPT !.at = "manifest"]
           d == Archive!Place(a)
<1>1. /\ work[a].at = "download" /\ UNCHANGED <<row, seats, dir, epoch, trusted, told, shadowed>>
      /\ \/ Archive!Sets(a, w1) /\ ~Archive!Preserved(a) /\ strained' = strained
         \/ /\ Archive!Sets(a, w2)
            /\ strained' = IF "download" \in row[work[a].pkg].names THEN strained \cup {work[a].pkg} ELSE strained
  BY DEF Archive!DownloadFails, Archive!SkipsDownload, Archive!At
<1>2. /\ work[a] \in WorkTypes /\ d \in Archive!Dirs /\ work[a].pkg \in Mails /\ work[a].mail = work[a].pkg
  BY <1>1, AtWork DEF Busy
<1>3. w1 \in WorkTypes /\ w2 \in WorkTypes BY <1>2 DEF WorkTypes, Busy
<1> DEFINE w == IF Archive!Sets(a, w1) /\ ~Archive!Preserved(a) /\ strained' = strained THEN w1 ELSE w2
<1>4. w \in WorkTypes /\ Archive!Sets(a, w) BY <1>1, <1>3
<1>5. /\ w.at = "manifest" /\ w.pkg = work[a].pkg /\ w.mail = work[a].mail /\ w.uid = work[a].uid
      /\ w.fresh = work[a].fresh /\ w.names = work[a].names /\ (~w.failed => ~work[a].failed)
      /\ w.had = work[a].had /\ w.stage = work[a].stage
  BY <1>2 DEF WorkTypes
<1>6. d.there /\ d.raw = work[a].mail /\ work[a].names \subseteq d.files BY <1>1, InTheMiddle
<1>7. strained \subseteq strained' /\ strained' \subseteq Mails BY <1>1, <1>2 DEF ArchiveInv, PackagesAreTyped
<1>8. ~work[a].failed => "attachment" \in work[a].names BY <1>1, OfArchiver DEF HandHolds, AfterPart
<1>9. work[a].pkg \notin strained' => "download" \notin row[work[a].pkg].names BY <1>1, <1>7, DownloadIsPreserved
<1> HIDE DEF w
<1>10. Archive!Puts(a, w, d) BY <1>1, <1>4, <1>5, PutsNothing DEF Busy
<1> HIDE DEF d
<1>11. \A b \in Archivers \ {a} : Meets(w, work[b]) => w.pkg \in strained BY <1>1, <1>5, AloneOrStrained DEF Busy
<1> QED BY <1>1, <1>2, <1>4, <1>5, <1>6, <1>7, <1>8, <1>9, <1>10, <1>11, ArchiverPuts DEF Busy, AfterPart, AfterLink, d

LEMMA WritesManifestKeeps == ASSUME ArchiveInv, NEW a \in Archivers, Archive!WritesManifest(a) PROVE ArchiveInv'
<1> DEFINE to == IF work[a].fresh THEN "publish" ELSE "store"
           w == [work[a] EXCEPT !.at = to]
           d == [Archive!Place(a) EXCEPT !.listed = TRUE, !.manifest = work[a].names]
<1>1. /\ work[a].at = "manifest" /\ Archive!Puts(a, w, d)
      /\ UNCHANGED <<row, seats, epoch, trusted, told, shadowed, strained>>
  BY DEF Archive!WritesManifest, Archive!At
<1>2. /\ work[a] \in WorkTypes /\ Archive!Place(a) \in Archive!Dirs /\ work[a].pkg \in Mails /\ work[a].mail = work[a].pkg
  BY <1>1, AtWork DEF Busy
<1>3. to \in {"publish", "store"} /\ (to = "publish" <=> work[a].fresh) BY <1>2 DEF WorkTypes
<1> HIDE DEF to
<1>4. w \in WorkTypes BY <1>2, <1>3 DEF WorkTypes, Busy
<1>5. /\ w.at = to /\ w.pkg = work[a].pkg /\ w.mail = work[a].mail /\ w.uid = work[a].uid
      /\ w.fresh = work[a].fresh /\ w.names = work[a].names /\ w.failed = work[a].failed /\ w.had = work[a].had
  BY <1>2 DEF WorkTypes
<1>6. work[a].names \subseteq Archive!Parts BY <1>2 DEF WorkTypes
<1>7. d \in Archive!Dirs /\ d.there = Archive!Place(a).there /\ d.raw = Archive!Place(a).raw
      /\ d.files = Archive!Place(a).files /\ d.listed /\ d.manifest = work[a].names
  BY <1>2, <1>6 DEF Archive!Dirs
<1>8. Archive!Place(a).there /\ Archive!Place(a).raw = work[a].mail /\ work[a].names \subseteq Archive!Place(a).files
  BY <1>1, InTheMiddle
<1>9. strained \subseteq Mails BY DEF ArchiveInv, PackagesAreTyped
<1>10. ~work[a].failed => "attachment" \in work[a].names BY <1>1, OfArchiver DEF HandHolds, AfterPart
<1> HIDE DEF w, d
<1>11. \A b \in Archivers \ {a} : Meets(w, work[b]) => w.pkg \in strained BY <1>1, <1>5, AloneOrStrained DEF Busy
<1>12. w.pkg \notin strained /\ "download" \in row[w.pkg].names => w.had /\ "download" \in w.names
  BY <1>1, <1>5, OfArchiver DEF HandAgrees, Busy, AfterLink
<1> QED BY <1>1, <1>3, <1>4, <1>5, <1>7, <1>8, <1>9, <1>10, <1>11, <1>12, ArchiverPuts DEF Busy, AfterPart, AfterLink

-----------------------------------------------------------------------------
(* Which package.                                                           *)

LEMMA IdleIsTyped ==
  /\ Archive!NoDir \in Archive!Dirs /\ Archive!Idle \in WorkTypes
  /\ Archive!Idle.at = "idle" /\ Archive!Idle.pkg = Archive!Nobody /\ Archive!Idle.uid = 0
  /\ Archive!Idle.mail = Archive!Nobody
  /\ \A e : WorkIsNamed(Archive!Idle, e) /\ \A d, hidden : HandHolds(Archive!Idle, d, hidden)
  /\ \A r, d : HandAgrees(Archive!Idle, r, d)
  /\ \A v : ~Meets(Archive!Idle, v) /\ \A p \in Mails : Waits(Archive!Idle, p)
<1>1. Archive!NoDir \in Archive!Dirs BY DEF Archive!NoDir, Archive!Dirs
<1>2. Archive!Idle \in WorkTypes BY <1>1 DEF Archive!Idle, WorkTypes
<1>3. /\ Archive!Idle.at = "idle" /\ Archive!Idle.pkg = Archive!Nobody /\ Archive!Idle.uid = 0
      /\ Archive!Idle.mail = Archive!Nobody /\ Archive!Idle.names = {}
  BY DEF Archive!Idle
<1>4. Archive!Nobody \notin Mails BY MailsAreNumbered DEF Archive!Numbered
<1> HIDE DEF Archive!Idle
<1>5. \A e : WorkIsNamed(Archive!Idle, e) BY <1>3 DEF WorkIsNamed, Busy
<1>6. \A d, hidden : HandHolds(Archive!Idle, d, hidden) BY <1>3 DEF HandHolds, Busy, AfterPart
<1>7. \A r, d : HandAgrees(Archive!Idle, r, d) BY <1>3 DEF HandAgrees, Busy
<1>8. \A v : ~Meets(Archive!Idle, v) BY <1>3 DEF Meets, Busy
<1>9. \A p \in Mails : Waits(Archive!Idle, p) BY <1>3, <1>4 DEF Waits
<1> QED BY <1>1, <1>2, <1>3, <1>5, <1>6, <1>7, <1>8, <1>9

LEMMA UidsAreTheirOwn ==
  ASSUME NEW e \in Archive!Epochs
  PROVE  /\ \A m \in Mails : UidIn[e][m] \in Nat /\ UidIn[e][m] # 0
         /\ \A m, n \in Mails : UidIn[e][m] = UidIn[e][n] => m = n
<1>1. UidIn \in Seq([Mails -> Nat \ {0}]) /\ \A m, n \in Mails : UidIn[e][m] = UidIn[e][n] => m = n
  BY MailsAreNumbered DEF Archive!Numbered
<1>2. UidIn[e] \in [Mails -> Nat \ {0}] BY <1>1 DEF Archive!Epochs
<1> QED BY <1>1, <1>2

LEMMA ArchiveStartsKeeps ==
  ASSUME ArchiveInv, NEW a \in Archivers, NEW m \in Mails, NEW observed \in BOOLEAN, Archive!Starts(a, m, observed)
  PROVE  ArchiveInv'
<1> DEFINE u == IF observed THEN UidIn[epoch][m] ELSE 0
           w == [Archive!Idle EXCEPT !.at = "look", !.mail = m, !.uid = u]
<1>1. /\ work[a].at = "idle" /\ work' = [work EXCEPT ![a] = w]
      /\ UNCHANGED <<row, seats, dir, epoch, trusted, told, shadowed, strained>>
  BY DEF Archive!Starts, Archive!At, Archive!Sets
<1>2. epoch \in Archive!Epochs /\ told \subseteq Mails /\ strained \subseteq Mails
      /\ \A n \in told : row[n].state # "none"
  BY DEF ArchiveInv, PackagesAreTyped, NamesAreTrue
<1>3. u \in Nat /\ (u # 0 => u = UidIn[epoch][m]) BY <1>2, UidsAreTheirOwn
<1> HIDE DEF u
<1>4. w \in WorkTypes BY <1>3, IdleIsTyped DEF WorkTypes
<1>5. w.at = "look" /\ w.mail = m /\ w.uid = u /\ w.pkg = Archive!Nobody /\ w.names = {} /\ ~w.failed
  BY DEF Archive!Idle
<1>6. Archive!Nobody \notin Mails BY MailsAreNumbered DEF Archive!Numbered
<1> HIDE DEF w
<1>7. WorkIsNamed(w, epoch) BY <1>3, <1>5 DEF WorkIsNamed, Busy
<1>8. HandHolds(w, dir[w.pkg], w.pkg \in shadowed) BY <1>5 DEF HandHolds, Busy, AfterPart
<1>9. HandAgrees(w, row[w.pkg], dir[w.pkg]) BY <1>5 DEF HandAgrees, Busy
<1>10. (\A b \in Archivers \ {a} : ~Meets(w, work[b])) /\ (\A p \in Mails : Waits(work[a], p))
  BY <1>1, <1>5, <1>6, OfArchiver DEF Meets, Busy, Waits
<1> QED BY <1>1, <1>2, <1>4, <1>7, <1>8, <1>9, <1>10, HandMoves

\* get_mail_package_by_identity finds the package of the mail itself, or nothing when the mail is new.
LEMMA ExistingIsItsOwn ==
  ASSUME ArchiveInv, NEW m \in Mails, NEW u, u # 0 => u = UidIn[epoch][m]
  PROVE  /\ Archive!Existing(m, u) \subseteq {m}
         /\ row[m].state # "none" => Archive!Existing(m, u) = {m}
<1> DEFINE found == Archive!Seen(u)
           alike == Archive!Alike(m)
<1>1. epoch \in Archive!Epochs BY DEF ArchiveInv, PackagesAreTyped
<1>2. found \subseteq {m}
  <2> SUFFICES ASSUME NEW p \in found PROVE p = m OBVIOUS
  <2>1. u # 0 /\ p \in Archive!SeenAt(u) BY DEF Archive!Seen
  <2>2. PICK s \in seats : p \in Mails /\ s.pkg = p /\ s.uid = u /\ s.epoch = epoch BY <2>1 DEF Archive!SeenAt
  <2>3. s.uid = UidIn[epoch][p] BY <2>2 DEF ArchiveInv, NamesAreTrue, SeatIsNamed
  <2> QED BY <1>1, <2>1, <2>2, <2>3, UidsAreTheirOwn
<1>3. \A p \in Mails : row[p].state # "none" => row[p].raw = p BY OfPackage DEF RowIsNamed
<1>4. alike \subseteq {m} /\ (row[m].state # "none" => alike = {m}) BY <1>3 DEF Archive!Alike
<1>7. Archive!Existing(m, u) =
        IF Cardinality(found) = 1 THEN found ELSE IF found # {} \/ Cardinality(alike) # 1 THEN {} ELSE alike
  BY Zenon DEF Archive!Existing, Archive!Cardinality, Cardinality
<1> HIDE DEF found, alike
<1>5. Cardinality({}) = 0 /\ Cardinality({m}) = 1 BY FS_EmptySet, FS_Singleton
<1>6. found \in {{}, {m}} /\ alike \in {{}, {m}} BY <1>2, <1>4
<1>8. CASE found = {m} BY <1>5, <1>7, <1>8
<1>9. CASE found = {} /\ alike = {m} BY <1>5, <1>7, <1>9
<1>10. CASE found = {} /\ alike = {} BY <1>4, <1>5, <1>7, <1>10
<1> QED BY <1>6, <1>8, <1>9, <1>10

LEMMA ArchiveLooksKeeps == ASSUME ArchiveInv, NEW a \in Archivers, Archive!Looks(a) PROVE ArchiveInv'
<1> DEFINE m == work[a].mail
           found == Archive!Existing(m, work[a].uid)
           pkg0 == IF found = {} THEN m ELSE CHOOSE p \in found : TRUE
           had0 == found # {} /\ "download" \in row[pkg0].names
           w == [work[a] EXCEPT !.at = "raw", !.pkg = pkg0, !.fresh = Archive!IsNew(pkg0), !.had = had0]
<1>1. /\ work[a].at = "look" /\ UNCHANGED <<row, seats, dir, epoch, trusted, shadowed, strained>>
      /\ \/ /\ found # {} /\ Archive!IsWhole(pkg0) /\ work' = [work EXCEPT ![a] = Archive!Idle]
            /\ told' = told \cup {m}
         \/ work' = [work EXCEPT ![a] = w] /\ told' = told
  BY DEF Archive!Looks, Archive!At, Archive!Sets
<1>2. work[a] \in WorkTypes /\ WorkIsNamed(work[a], epoch) /\ HandHolds(work[a], dir[work[a].pkg], work[a].pkg \in shadowed)
      /\ work[a].pkg \notin Mails
  BY <1>1, OfArchiver DEF Busy
<1>3. m \in Mails /\ (work[a].uid # 0 => work[a].uid = UidIn[epoch][m]) BY <1>1, <1>2 DEF WorkIsNamed
<1>4. found \subseteq {m} /\ (row[m].state # "none" => found = {m}) BY <1>3, ExistingIsItsOwn
<1>5. pkg0 = m
  <2>1. CASE found = {} BY <2>1
  <2>2. CASE found # {}
    <3>1. (CHOOSE p \in found : TRUE) \in found BY <2>2
    <3> QED BY <1>4, <2>2, <3>1
  <2> QED BY <2>1, <2>2
<1>6. /\ epoch \in Archive!Epochs /\ told \subseteq Mails /\ strained \subseteq Mails
      /\ \A n \in told : row[n].state # "none"
  BY DEF ArchiveInv, PackagesAreTyped, NamesAreTrue
<1>7. \A p \in Mails : Waits(work[a], p) BY <1>2 DEF Waits
<1> HIDE DEF found, pkg0
<1>8. CASE /\ found # {} /\ Archive!IsWhole(pkg0) /\ work' = [work EXCEPT ![a] = Archive!Idle]
           /\ told' = told \cup {m}
  <2>1. row[m].state # "none" BY <1>5, <1>8 DEF Archive!IsWhole
  <2>2. told' \subseteq Mails /\ \A n \in told' : row[n].state # "none" BY <1>3, <1>6, <1>8, <2>1
  <2> QED BY <1>1, <1>6, <1>7, <1>8, <2>2, IdleIsTyped, HandMoves
<1>9. CASE work' = [work EXCEPT ![a] = w] /\ told' = told
  <2>1. Archive!IsNew(pkg0) = ~dir[m].there /\ had0 = (found # {} /\ "download" \in row[m].names)
    BY <1>5 DEF Archive!IsNew
  <2>2. dir[m] \in Archive!Dirs /\ RowIsNamed(m, row[m], dir[m]) /\ RowHolds(row[m], dir[m], m \in shadowed)
    BY <1>3, OfPackage
  <2>3. Archive!IsNew(pkg0) \in BOOLEAN /\ had0 \in BOOLEAN BY <2>1, Zenon
  <2> DEFINE v == [work[a] EXCEPT !.at = "raw", !.pkg = m, !.fresh = Archive!IsNew(pkg0), !.had = had0]
  <2>a. w = v BY <1>5
  <2> HIDE DEF had0
  <2>4. v \in WorkTypes BY <1>2, <1>3, <2>3 DEF WorkTypes, Busy
  <2>5. /\ v.at = "raw" /\ v.pkg = m /\ v.fresh = Archive!IsNew(pkg0) /\ v.had = had0 /\ v.mail = m
        /\ v.uid = work[a].uid /\ v.names = work[a].names /\ v.failed = work[a].failed
    BY <1>2 DEF WorkTypes
  <2> HIDE DEF v, w
  <2>6. WorkIsNamed(v, epoch) BY <1>3, <2>5 DEF WorkIsNamed, Busy
  <2>7. v.names = {} /\ ~v.failed BY <1>1, <1>2, <2>5 DEF HandHolds
  <2>8. HandHolds(v, dir[v.pkg], v.pkg \in shadowed)
    BY <2>1, <2>5, <2>7 DEF HandHolds, Busy, AfterPart
  <2>9. HandAgrees(v, row[v.pkg], dir[v.pkg])
    BY <1>4, <2>1, <2>2, <2>5 DEF HandAgrees, RowIsNamed, RowHolds, AfterLink, Busy
  <2>10. \A b \in Archivers \ {a} : ~Meets(v, work[b]) BY <2>5 DEF Meets
  <2> QED BY <1>1, <1>6, <1>7, <1>9, <2>a, <2>4, <2>6, <2>8, <2>9, <2>10, HandMoves
<1> QED BY <1>1, <1>8, <1>9

-----------------------------------------------------------------------------
(* The rename and the transaction.                                          *)

LEMMA PublishesKeeps == ASSUME ArchiveInv, NEW a \in Archivers, Archive!Publishes(a) PROVE ArchiveInv'
<1> DEFINE p == work[a].pkg
           w == [work[a] EXCEPT !.at = "store", !.stage = Archive!NoDir]
           d == Archive!Published(a)
           lost == IF dir[p].there THEN {p} ELSE {}
<1>1. /\ work[a].at = "publish" /\ work' = [work EXCEPT ![a] = w] /\ dir' = [dir EXCEPT ![p] = d]
      /\ shadowed' = shadowed \cup lost /\ strained' = strained \cup lost
      /\ UNCHANGED <<row, seats, epoch, trusted, told>>
  BY DEF Archive!Publishes, Archive!At, Archive!Sets
<1>2. /\ work[a] \in WorkTypes /\ p \in Mails /\ work[a].mail = p /\ row[p] \in RowTypes /\ dir[p] \in Archive!Dirs
  BY <1>1, AtWork DEF Busy
<1>3. w \in WorkTypes BY <1>2, IdleIsTyped DEF WorkTypes, Busy
<1>4. /\ w.at = "store" /\ w.pkg = p /\ w.mail = p /\ w.uid = work[a].uid /\ w.fresh = work[a].fresh
      /\ w.names = work[a].names /\ w.failed = work[a].failed /\ w.had = work[a].had
  BY <1>2 DEF WorkTypes
<1> HIDE DEF w
<1>5. /\ work[a].fresh /\ work[a].stage \in Archive!Dirs /\ work[a].stage.there /\ work[a].stage.raw = p
      /\ work[a].stage.listed /\ work[a].stage.manifest = work[a].names /\ work[a].names \subseteq work[a].stage.files
      /\ (~work[a].failed => "attachment" \in work[a].names)
  <2>1. HandHolds(work[a], dir[p], p \in shadowed) BY OfArchiver
  <2>2. work[a].stage \in Archive!Dirs BY <1>2 DEF WorkTypes
  <2> QED BY <1>1, <1>2, <2>1, <2>2 DEF HandHolds, AfterPart
<1>6. d = IF dir[p].there THEN dir[p] ELSE work[a].stage BY DEF Archive!Published
<1>7. d \in Archive!Dirs /\ d.there /\ DirIsNamed(p, d) BY <1>2, <1>5, <1>6, OfPackage DEF DirIsNamed
<1> HIDE DEF d
<1>8. /\ row \in [Mails -> RowTypes] /\ dir \in [Mails -> Archive!Dirs] /\ told \subseteq Mails
      /\ shadowed \subseteq strained /\ strained \subseteq Mails
  BY DEF ArchiveInv, PackagesAreTyped
<1>9. (\A s \in seats : SeatIsNamed(s)) /\ (\A m \in told : row[m].state # "none") BY DEF ArchiveInv, NamesAreTrue
<1>10. dir' \in [Mails -> Archive!Dirs] /\ \A q \in Mails : dir'[q] = IF q = p THEN d ELSE dir[q] BY <1>1, <1>7, <1>8
<1>11. lost \subseteq Mails /\ (dir[p].there => p \in lost) /\ (~dir[p].there => lost = {}) /\ \A q \in lost : q = p BY <1>2
<1> HIDE DEF lost
<1>12. ~dir[p].there => row[p].state = "none" /\ row[p].names = {}
  BY <1>2, OfPackage DEF RowIsNamed, RowHolds
<1>13. RowIsNamed(p, row[p], d) /\ RowHolds(row[p], d, p \in shadowed')
  <2>1. RowIsNamed(p, row[p], dir[p]) /\ RowHolds(row[p], dir[p], p \in shadowed) BY <1>2, OfPackage
  <2>2. CASE dir[p].there
    <3>1. d = dir[p] /\ p \in shadowed' BY <1>1, <1>6, <1>11, <2>2
    <3> QED BY <2>1, <3>1 DEF RowHolds
  <2>3. CASE ~dir[p].there BY <1>12, <2>1, <2>3 DEF RowIsNamed, RowHolds
  <2> QED BY <2>2, <2>3
<1>14. \A q \in Mails : /\ dir[q].there => dir'[q].there /\ dir[q].files \subseteq dir'[q].files
                        /\ RowIsNamed(q, row'[q], dir'[q]) /\ DirIsNamed(q, dir'[q])
                        /\ RowHolds(row'[q], dir'[q], q \in shadowed')
  <2> SUFFICES ASSUME NEW q \in Mails
               PROVE  /\ dir[q].there => dir'[q].there /\ dir[q].files \subseteq dir'[q].files
                      /\ RowIsNamed(q, row'[q], dir'[q]) /\ DirIsNamed(q, dir'[q])
                      /\ RowHolds(row'[q], dir'[q], q \in shadowed')
    OBVIOUS
  <2>1. CASE q = p BY <1>1, <1>6, <1>7, <1>10, <1>13, <2>1
  <2>2. CASE q # p
    <3>1. q \in shadowed' <=> q \in shadowed BY <1>1, <1>11, <2>2
    <3>2. dir'[q] = dir[q] /\ row'[q] = row[q] BY <1>1, <1>10, <2>2
    <3>3. RowIsNamed(q, row[q], dir[q]) /\ DirIsNamed(q, dir[q]) /\ RowHolds(row[q], dir[q], q \in shadowed) BY OfPackage
    <3> QED BY <3>1, <3>2, <3>3 DEF RowHolds
  <2> QED BY <2>1, <2>2
<1>15. ASSUME NEW q \in Mails, row'[q].state # "none", q \notin strained', Waits(w, q),
              \A b \in Archivers \ {a} : Waits(work[b], q)
       PROVE  dir'[q].manifest = row'[q].names
  <2>1. q # p /\ Waits(work[a], q) BY <1>4, <1>15 DEF Waits
  <2>2. q \notin strained /\ \A b \in Archivers : Waits(work[b], q) BY <1>1, <1>15, <2>1
  <2> QED BY <1>1, <1>10, <1>15, <2>1, <2>2, OfPackage
<1>16. WorkIsNamed(w, epoch) BY <1>1, <1>2, <1>4, OfArchiver DEF WorkIsNamed, Busy
<1>17. HandHolds(w, dir'[w.pkg], w.pkg \in shadowed')
  <2>1. CASE dir[p].there
    <3>1. p \in shadowed' BY <1>1, <1>11, <2>1
    <3> QED BY <1>2, <1>4, <1>5, <1>7, <1>10, <3>1 DEF HandHolds, AfterPart
  <2>2. CASE ~dir[p].there
    <3>1. d = work[a].stage BY <1>6, <2>2
    <3> QED BY <1>2, <1>4, <1>5, <1>10, <3>1 DEF HandHolds, AfterPart
  <2> QED BY <2>1, <2>2
<1>18. w.pkg \notin strained' => HandAgrees(w, row'[w.pkg], dir'[w.pkg])
  <2> SUFFICES ASSUME w.pkg \notin strained' PROVE HandAgrees(w, row'[w.pkg], dir'[w.pkg]) OBVIOUS
  <2>1. ~dir[p].there BY <1>1, <1>4, <1>11
  <2> QED BY <1>1, <1>2, <1>4, <1>5, <1>6, <1>10, <1>12, <2>1 DEF HandAgrees
<1>19. \A b \in Archivers \ {a} : Meets(w, work[b]) => w.pkg \in strained'
  BY <1>1, <1>4, AloneOrStrained DEF Busy
<1>20. ASSUME NEW b \in Archivers \ {a}, work[b].at \in Busy, work[b].pkg \notin strained', work[b].at = "store"
       PROVE  dir'[work[b].pkg].manifest = dir[work[b].pkg].manifest
  <2>1. work[b].pkg \in Mails /\ dir[work[b].pkg].there BY <1>20, AtWork, OfArchiver DEF HandHolds
  <2> QED BY <1>6, <1>10, <2>1
<1>21. \A b \in Archivers \ {a} : work[b].at \in Busy /\ work[b].pkg \notin strained' =>
         row'[work[b].pkg] = row[work[b].pkg] /\ (work[b].at = "store" => dir'[work[b].pkg].manifest = dir[work[b].pkg].manifest)
  BY <1>1, <1>20
<1>22. /\ row' \in [Mails -> RowTypes] /\ told' \subseteq Mails /\ shadowed \subseteq shadowed' /\ shadowed' \subseteq strained'
       /\ strained \subseteq strained' /\ strained' \subseteq Mails
       /\ (\A s \in seats' : SeatIsNamed(s)) /\ (\A m \in told' : row'[m].state # "none")
       /\ work' = [work EXCEPT ![a] = w] /\ UNCHANGED <<epoch, trusted>>
  BY <1>1, <1>8, <1>9, <1>11
<1> HIDE DEF p
<1> QED BY <1>3, <1>10, <1>14, <1>15, <1>16, <1>17, <1>18, <1>19, <1>21, <1>22, ArchiverGoes

LEMMA StoresKeeps == ASSUME ArchiveInv, NEW a \in Archivers, Archive!Stores(a) PROVE ArchiveInv'
<1> DEFINE p == work[a].pkg
           w == Archive!Idle
           r == [state |-> Archive!Outcome(a), raw |-> work[a].mail, names |-> Archive!Named(a)]
           seat == [pkg |-> p, uid |-> work[a].uid, epoch |-> epoch]
<1>1. /\ work[a].at = "store" /\ work' = [work EXCEPT ![a] = w] /\ row' = [row EXCEPT ![p] = r]
      /\ seats' = IF work[a].uid = 0 THEN seats ELSE {s \in seats : s.pkg # p} \cup {seat}
      /\ told' = IF work[a].failed THEN told ELSE told \cup {work[a].mail}
      /\ strained' = IF Archive!Peers(a) # {} THEN strained \cup {p} ELSE strained
      /\ UNCHANGED <<dir, epoch, trusted, shadowed>>
  BY DEF Archive!Stores, Archive!At, Archive!Sets
<1>2. /\ work[a] \in WorkTypes /\ p \in Mails /\ work[a].mail = p /\ row[p] \in RowTypes /\ dir[p] \in Archive!Dirs
  BY <1>1, AtWork DEF Busy
<1>3. /\ row \in [Mails -> RowTypes] /\ dir \in [Mails -> Archive!Dirs] /\ told \subseteq Mails
      /\ shadowed \subseteq strained /\ strained \subseteq Mails /\ epoch \in Archive!Epochs
  BY DEF ArchiveInv, PackagesAreTyped
<1>4. /\ dir[p].there /\ (p \notin shadowed => work[a].names \subseteq dir[p].files)
      /\ (~work[a].failed => "attachment" \in work[a].names)
  BY <1>1, OfArchiver DEF HandHolds, AfterPart
<1>5. /\ r.state = IF work[a].failed THEN "partial" ELSE "ready"
      /\ r.raw = p /\ r.names = work[a].names \cup (row[p].names \cap {"download"})
  BY <1>2 DEF Archive!Outcome, Archive!Named
<1>6. r \in RowTypes
  <2>1. work[a].names \subseteq Archive!Parts /\ row[p].names \subseteq Archive!Parts BY <1>2 DEF WorkTypes, RowTypes
  <2>2. r = [state |-> r.state, raw |-> p, names |-> r.names] BY <1>2
  <2>3. r.names \subseteq Archive!Parts /\ r.state \in {"partial", "ready"} BY <1>5, <2>1
  <2> HIDE DEF r
  <2> QED BY <1>2, <2>2, <2>3 DEF RowTypes
<1> HIDE DEF r
<1>7. row' \in [Mails -> RowTypes] /\ \A q \in Mails : row'[q] = IF q = p THEN r ELSE row[q] BY <1>1, <1>3, <1>6
<1>8. \A s \in seats' : SeatIsNamed(s)
  <2>1. \A s \in seats : SeatIsNamed(s) BY DEF ArchiveInv, NamesAreTrue
  <2>2. ASSUME work[a].uid # 0 PROVE SeatIsNamed(seat)
    <3>1. work[a].uid = UidIn[epoch][p] BY <1>2, <2>2, OfArchiver DEF WorkIsNamed
    <3> QED BY <1>2, <1>3, <3>1 DEF SeatIsNamed
  <2> HIDE DEF seat
  <2> QED BY <1>1, <2>1, <2>2
<1>9. told' \subseteq Mails /\ \A m \in told' : row'[m].state # "none"
  <2>1. \A m \in told : row[m].state # "none" BY DEF ArchiveInv, NamesAreTrue
  <2> QED BY <1>1, <1>2, <1>3, <1>5, <1>7, <2>1
<1>10. strained \subseteq strained' /\ strained' \subseteq Mails /\ shadowed' \subseteq strained'
  BY <1>1, <1>2, <1>3
<1>11. RowIsNamed(p, row[p], dir[p]) /\ RowHolds(row[p], dir[p], p \in shadowed) BY <1>2, OfPackage
<1>12. RowIsNamed(p, r, dir[p]) BY <1>4, <1>5 DEF RowIsNamed
<1>13. RowHolds(r, dir[p], p \in shadowed)
  <2>1. p \notin shadowed => row[p].names \subseteq dir[p].files BY <1>11 DEF RowHolds
  <2> QED BY <1>4, <1>5, <2>1 DEF RowHolds
<1>14. \A q \in Mails : /\ dir[q].there => dir'[q].there /\ dir[q].files \subseteq dir'[q].files
                        /\ RowIsNamed(q, row'[q], dir'[q]) /\ DirIsNamed(q, dir'[q])
                        /\ RowHolds(row'[q], dir'[q], q \in shadowed')
  <2> SUFFICES ASSUME NEW q \in Mails
               PROVE  RowIsNamed(q, row'[q], dir[q]) /\ DirIsNamed(q, dir[q]) /\ RowHolds(row'[q], dir[q], q \in shadowed)
    BY <1>1
  <2>1. CASE q = p BY <1>2, <1>7, <1>12, <1>13, <2>1, OfPackage
  <2>2. CASE q # p BY <1>7, <2>2, OfPackage
  <2> QED BY <2>1, <2>2
<1>15. ASSUME p \notin strained' PROVE dir[p].manifest = r.names
  <2>1. p \notin strained BY <1>10, <1>15
  <2>2. HandAgrees(work[a], row[p], dir[p]) BY <2>1, OfArchiver
  <2>3. dir[p].manifest = work[a].names /\ ("download" \in row[p].names => "download" \in work[a].names)
    BY <1>1, <2>2 DEF HandAgrees, Busy, AfterLink
  <2> QED BY <1>5, <2>3
<1>16. ASSUME NEW q \in Mails, row'[q].state # "none", q \notin strained', Waits(w, q),
              \A b \in Archivers \ {a} : Waits(work[b], q)
       PROVE  dir'[q].manifest = row'[q].names
  <2>1. CASE q = p BY <1>1, <1>7, <1>15, <1>16, <2>1
  <2>2. CASE q # p
    <3>1. Waits(work[a], q) BY <2>2 DEF Waits
    <3>2. q \notin strained /\ \A b \in Archivers : Waits(work[b], q) BY <1>10, <1>16, <3>1
    <3> QED BY <1>1, <1>7, <1>16, <2>2, <3>2, OfPackage
  <2> QED BY <2>1, <2>2
<1>17. ASSUME NEW b \in Archivers \ {a}, work[b].at \in Busy, work[b].pkg \notin strained'
       PROVE  row'[work[b].pkg] = row[work[b].pkg] /\ dir'[work[b].pkg].manifest = dir[work[b].pkg].manifest
  <2>1. work[b].pkg \in Mails BY <1>17, AtWork
  <2>2. work[b].pkg # p
    <3> SUFFICES ASSUME work[b].pkg = p PROVE FALSE OBVIOUS
    <3>1. b \in Archive!Peers(a) BY <1>17 DEF Archive!Peers, Busy
    <3> QED BY <1>1, <1>17, <3>1
  <2> QED BY <1>1, <1>7, <2>1, <2>2
<1>18. \A b \in Archivers \ {a} : work[b].at \in Busy /\ work[b].pkg \notin strained' =>
         row'[work[b].pkg] = row[work[b].pkg] /\ (work[b].at = "store" => dir'[work[b].pkg].manifest = dir[work[b].pkg].manifest)
  BY <1>17
<1>19. /\ dir' \in [Mails -> Archive!Dirs] /\ shadowed \subseteq shadowed' /\ work' = [work EXCEPT ![a] = w]
       /\ UNCHANGED <<epoch, trusted>>
  BY <1>1, <1>3
<1>20. /\ w \in WorkTypes /\ WorkIsNamed(w, epoch) /\ HandHolds(w, dir'[w.pkg], w.pkg \in shadowed')
       /\ (w.pkg \notin strained' => HandAgrees(w, row'[w.pkg], dir'[w.pkg]))
       /\ \A b \in Archivers \ {a} : Meets(w, work[b]) => w.pkg \in strained'
  BY IdleIsTyped
<1> HIDE DEF p, w
<1> QED BY <1>7, <1>8, <1>9, <1>10, <1>14, <1>16, <1>18, <1>19, <1>20, ArchiverGoes

-----------------------------------------------------------------------------
(* Errors, crashes and the surroundings.                                    *)

LEMMA ArchiveFailsKeeps ==
  ASSUME ArchiveInv, NEW a \in Archivers, Archive!Fails(a) \/ Archive!StoreFails(a) PROVE ArchiveInv'
<1>1. /\ work[a].at \in {"raw", "manifest", "publish", "store"} /\ work' = [work EXCEPT ![a] = Archive!Idle]
      /\ \/ work[a].fresh /\ work[a].at # "store" /\ strained' = strained
         \/ strained' = strained \cup {work[a].pkg}
      /\ UNCHANGED <<row, seats, dir, epoch, trusted, told, shadowed>>
  BY DEF Archive!Fails, Archive!StoreFails, Archive!At, Archive!Sets, Archive!Strains
<1>2. work[a].pkg \in Mails BY <1>1, AtWork DEF Busy
<1>3. /\ strained \subseteq strained' /\ strained' \subseteq Mails /\ told' \subseteq Mails
      /\ \A m \in told' : row[m].state # "none"
  BY <1>1, <1>2 DEF ArchiveInv, PackagesAreTyped, NamesAreTrue
<1>4. ASSUME NEW q \in Mails, ~Waits(work[a], q) PROVE q \in strained' \/ row[q].state = "none"
  <2>1. q = work[a].pkg BY <1>4 DEF Waits
  <2>2. CASE strained' = strained \cup {work[a].pkg} BY <2>1, <2>2
  <2>3. CASE work[a].fresh /\ strained' = strained
    <3>1. q \notin strained => HandAgrees(work[a], row[q], dir[q]) BY <2>1, OfArchiver
    <3> QED BY <1>1, <2>3, <3>1 DEF HandAgrees, Busy
  <2> QED BY <1>1, <2>2, <2>3
<1>5. UNCHANGED <<row, seats, dir, epoch, trusted, shadowed>> BY <1>1
<1>6. /\ Archive!Idle \in WorkTypes /\ WorkIsNamed(Archive!Idle, epoch)
      /\ HandHolds(Archive!Idle, dir[Archive!Idle.pkg], Archive!Idle.pkg \in shadowed)
      /\ (Archive!Idle.pkg \notin strained' => HandAgrees(Archive!Idle, row[Archive!Idle.pkg], dir[Archive!Idle.pkg]))
      /\ \A b \in Archivers \ {a} : Meets(Archive!Idle, work[b]) => Archive!Idle.pkg \in strained'
  BY IdleIsTyped
<1> QED BY <1>1, <1>3, <1>4, <1>5, <1>6, HandMoves

LEMMA DiesKeeps == ASSUME ArchiveInv, NEW process, Archive!Dies(process) PROVE ArchiveInv'
<1> DEFINE dead == {a \in Archivers : ProcessOf[a] = process /\ ~Archive!At(a, "idle")}
           torn == {b \in dead : ~work[b].fresh /\ work[b].at # "look"}
           unstored == {b \in dead : Archive!At(b, "store")}
<1>1. /\ work' = [a \in Archivers |-> IF a \in dead THEN Archive!Idle ELSE work[a]]
      /\ strained' = strained \cup {work[a].pkg : a \in torn} \cup {work[a].pkg : a \in unstored}
      /\ UNCHANGED <<row, seats, dir, epoch, trusted, told, shadowed>>
  BY DEF Archive!Dies
<1>2. \A a \in Archivers : work'[a] = IF a \in dead THEN Archive!Idle ELSE work[a] BY <1>1
<1>3. \A a \in dead : a \in Archivers /\ work[a].at # "idle" BY DEF Archive!At
<1>4. \A a \in dead : work[a].at \notin {"idle", "look"} => work[a].at \in Busy /\ work[a].pkg \in Mails
  <2> SUFFICES ASSUME NEW a \in dead, work[a].at \notin {"idle", "look"}
               PROVE work[a].at \in Busy /\ work[a].pkg \in Mails OBVIOUS
  <2>1. work[a].at \in {"idle", "look"} \cup Busy BY <1>3, OfArchiver DEF WorkTypes
  <2> QED BY <1>3, <2>1, AtWork
<1>5. strained \subseteq strained' /\ strained' \subseteq Mails
  <2>1. strained \subseteq Mails BY DEF ArchiveInv, PackagesAreTyped
  <2>2. \A b \in torn : work[b].pkg \in Mails BY <1>3, <1>4
  <2>3. \A b \in unstored : work[b].pkg \in Mails BY <1>3, <1>4 DEF Archive!At
  <2> QED BY <1>1, <2>1, <2>2, <2>3
<1>6. \A b \in torn : work[b].pkg \in strained' BY <1>1
<1> HIDE DEF unstored
<1>7. PackagesAreTyped'
  <2>1. work' \in [Archivers -> WorkTypes] BY <1>1, IdleIsTyped DEF ArchiveInv, PackagesAreTyped
  <2> QED BY <1>1, <1>5, <2>1 DEF ArchiveInv, PackagesAreTyped
<1>8. NamesAreTrue'
  <2>1. \A a \in Archivers : WorkIsNamed(work'[a], epoch') BY <1>1, <1>2, IdleIsTyped DEF ArchiveInv, NamesAreTrue
  <2> QED BY <1>1, <2>1 DEF ArchiveInv, NamesAreTrue, SeatIsNamed
<1>9. FilesAreThere'
  <2>1. \A a \in Archivers : HandHolds(work'[a], dir'[work'[a].pkg], work'[a].pkg \in shadowed')
    BY <1>1, <1>2, IdleIsTyped DEF ArchiveInv, FilesAreThere
  <2> QED BY <1>1, <2>1 DEF ArchiveInv, FilesAreThere
<1>10. ManifestsAgree'
  <2>1. OneWrites'
    <3> SUFFICES ASSUME NEW b \in Archivers, NEW c \in Archivers, b # c, Meets(work'[b], work'[c])
                 PROVE  work'[b].pkg \in strained'
      BY DEF OneWrites, Meets
    <3>1. b \notin dead /\ c \notin dead
      <4>1. b \notin dead BY <1>2, IdleIsTyped
      <4>2. Meets(work'[c], work'[b]) BY DEF Meets
      <4> QED BY <1>2, <4>1, <4>2, IdleIsTyped
    <3> QED BY <1>2, <1>5, <3>1 DEF ArchiveInv, ManifestsAgree, OneWrites
  <2>2. ASSUME NEW b \in Archivers, work'[b].pkg \notin strained'
        PROVE  HandAgrees(work'[b], row'[work'[b].pkg], dir'[work'[b].pkg])
    <3>1. CASE b \in dead BY <1>2, <3>1, IdleIsTyped
    <3>2. CASE b \notin dead
      <4>1. work'[b] = work[b] /\ work[b].pkg \notin strained BY <1>2, <1>5, <2>2, <3>2
      <4> QED BY <1>1, <4>1, OfArchiver
    <3> QED BY <3>1, <3>2
  <2>3. ASSUME NEW q \in Mails, row'[q].state # "none", q \notin strained', \A b \in Archivers : Waits(work'[b], q)
        PROVE  dir'[q].manifest = row'[q].names
    <3>1. q \notin strained BY <1>5, <2>3
    <3>2. ASSUME NEW b \in Archivers PROVE Waits(work[b], q)
      <4>1. CASE b \notin dead BY <1>2, <2>3, <4>1
      <4>2. CASE b \in dead
        <5> SUFFICES ASSUME work[b].pkg = q, work[b].at # "raw" PROVE FALSE BY DEF Waits
        <5>1. work[b].at \in Busy BY OfArchiver
        <5>2. work[b].fresh BY <1>6, <2>3, <4>2, <5>1 DEF Busy
        <5>3. HandAgrees(work[b], row[q], dir[q]) BY <3>1, OfArchiver
        <5> QED BY <1>1, <2>3, <5>1, <5>2, <5>3 DEF HandAgrees
      <4> QED BY <4>1, <4>2
    <3> QED BY <1>1, <2>3, <3>1, <3>2, OfPackage
  <2> QED BY <2>1, <2>2, <2>3 DEF ManifestsAgree, Waits
<1> QED BY <1>7, <1>8, <1>9, <1>10 DEF ArchiveInv

LEMMA MailboxKeeps == ASSUME ArchiveInv, Archive!Renumbers \/ Archive!Distrusts PROVE ArchiveInv'
<1>1. /\ UNCHANGED <<row, seats, dir, work, told, shadowed, strained>> /\ epoch' \in Archive!Epochs /\ trusted' \in BOOLEAN
      /\ \/ epoch' = epoch
         \/ \A a \in Archivers : work[a].uid = 0
  BY DEF Archive!Renumbers, Archive!Distrusts, ArchiveInv, PackagesAreTyped
<1>2. PackagesAreTyped' BY <1>1 DEF ArchiveInv, PackagesAreTyped, Archive!Epochs
<1>3. NamesAreTrue'
  <2>1. \A a \in Archivers : WorkIsNamed(work'[a], epoch') BY <1>1 DEF ArchiveInv, NamesAreTrue, WorkIsNamed
  <2> QED BY <1>1, <2>1 DEF ArchiveInv, NamesAreTrue, SeatIsNamed, RowIsNamed, DirIsNamed, Archive!Epochs
<1>4. FilesAreThere' BY <1>1 DEF ArchiveInv, FilesAreThere
<1>5. ManifestsAgree' BY <1>1 DEF ArchiveInv, ManifestsAgree, OneWrites, Meets, Waits, HandAgrees
<1> QED BY <1>2, <1>3, <1>4, <1>5 DEF ArchiveInv

-----------------------------------------------------------------------------
(* The invariant.                                                           *)

LEMMA ArchiveInvStarts == ASSUME Archive!Init PROVE ArchiveInv
<1>1. /\ row = [m \in Mails |-> Archive!NoRow] /\ seats = {} /\ dir = [m \in Mails |-> Archive!NoDir]
      /\ work = [a \in Archivers |-> Archive!Idle] /\ epoch = 1 /\ trusted = TRUE /\ told = {}
      /\ shadowed = {} /\ strained = {}
  BY DEF Archive!Init
<1>2. epoch \in Archive!Epochs
  <2>1. UidIn \in Seq([Mails -> Nat \ {0}]) /\ UidIn # <<>> BY MailsAreNumbered DEF Archive!Numbered
  <2>2. Len(UidIn) \in Nat /\ Len(UidIn) # 0 /\ DOMAIN UidIn = 1..Len(UidIn) BY <2>1
  <2> QED BY <1>1, <2>2 DEF Archive!Epochs
<1>3. Archive!NoRow \in RowTypes /\ Archive!NoRow.state = "none" /\ Archive!NoRow.names = {} BY DEF Archive!NoRow, RowTypes
<1>4. ~Archive!NoDir.there BY DEF Archive!NoDir
<1>5. /\ \A p \in Mails : row[p] = Archive!NoRow /\ dir[p] = Archive!NoDir
      /\ \A a \in Archivers : work[a] = Archive!Idle
  BY <1>1
<1> HIDE DEF Archive!NoRow, Archive!NoDir, Archive!Idle
<1>6. PackagesAreTyped BY <1>1, <1>2, <1>3, IdleIsTyped DEF PackagesAreTyped
<1>7. NamesAreTrue BY <1>1, <1>3, <1>4, <1>5, IdleIsTyped DEF NamesAreTrue, RowIsNamed, DirIsNamed
<1>8. FilesAreThere BY <1>3, <1>5, IdleIsTyped DEF FilesAreThere, RowHolds
<1>9. ManifestsAgree BY <1>3, <1>5, IdleIsTyped DEF ManifestsAgree, OneWrites
<1> QED BY <1>6, <1>7, <1>8, <1>9 DEF ArchiveInv

LEMMA ArchiveInvStays == ArchiveInv /\ UNCHANGED archiveVars => ArchiveInv'
<1> SUFFICES ASSUME ArchiveInv, UNCHANGED archiveVars PROVE ArchiveInv' OBVIOUS
<1>1. UNCHANGED <<row, seats, dir, work, epoch, trusted, told, shadowed, strained>> BY DEF archiveVars
<1>2. PackagesAreTyped' BY <1>1 DEF ArchiveInv, PackagesAreTyped, Archive!Epochs
<1>3. NamesAreTrue' BY <1>1 DEF ArchiveInv, NamesAreTrue, WorkIsNamed, SeatIsNamed, Archive!Epochs
<1>4. FilesAreThere' BY <1>1 DEF ArchiveInv, FilesAreThere
<1>5. ManifestsAgree' BY <1>1 DEF ArchiveInv, ManifestsAgree, OneWrites, Meets, Waits, HandAgrees
<1> QED BY <1>2, <1>3, <1>4, <1>5 DEF ArchiveInv

LEMMA ArchiveSteps == ASSUME ArchiveInv, Archive!Next PROVE ArchiveInv'
<1>1. ASSUME NEW a \in Archivers, NEW m \in Mails, NEW observed \in BOOLEAN, Archive!Starts(a, m, observed) PROVE ArchiveInv'
  BY <1>1, ArchiveStartsKeeps
<1>2. ASSUME NEW a \in Archivers, Archive!Looks(a) PROVE ArchiveInv' BY <1>2, ArchiveLooksKeeps
<1>3. ASSUME NEW a \in Archivers, Archive!WritesRaw(a) PROVE ArchiveInv' BY <1>3, WritesRawKeeps
<1>4. ASSUME NEW a \in Archivers, Archive!WritesAttachment(a) PROVE ArchiveInv' BY <1>4, WritesAttachmentKeeps
<1>5. ASSUME NEW a \in Archivers, Archive!AttachmentFails(a) PROVE ArchiveInv' BY <1>5, AttachmentFailsKeeps
<1>6. ASSUME NEW a \in Archivers, Archive!Downloads(a) PROVE ArchiveInv' BY <1>6, DownloadsKeeps
<1>7. ASSUME NEW a \in Archivers, Archive!DownloadFails(a) \/ Archive!SkipsDownload(a) PROVE ArchiveInv'
  BY <1>7, DownloadEndsBadlyKeeps
<1>8. ASSUME NEW a \in Archivers, Archive!WritesManifest(a) PROVE ArchiveInv' BY <1>8, WritesManifestKeeps
<1>9. ASSUME NEW a \in Archivers, Archive!Publishes(a) PROVE ArchiveInv' BY <1>9, PublishesKeeps
<1>10. ASSUME NEW a \in Archivers, Archive!Stores(a) PROVE ArchiveInv' BY <1>10, StoresKeeps
<1>11. ASSUME NEW a \in Archivers, Archive!Fails(a) \/ Archive!StoreFails(a) PROVE ArchiveInv' BY <1>11, ArchiveFailsKeeps
<1>12. ASSUME NEW a \in Archivers, Archive!Dies(ProcessOf[a]) PROVE ArchiveInv' BY <1>12, DiesKeeps
<1>13. ASSUME Archive!Renumbers \/ Archive!Distrusts PROVE ArchiveInv' BY <1>13, MailboxKeeps
<1> QED BY <1>1, <1>2, <1>3, <1>4, <1>5, <1>6, <1>7, <1>8, <1>9, <1>10, <1>11, <1>12, <1>13 DEF Archive!Next

\* What the invariant means: the properties of the archive.
LEMMA ArchiveInvMeans ==
  ASSUME ArchiveInv
  PROVE  /\ Archive!TypeOK
         /\ Archive!ReadyIsWhole /\ Archive!ToldIsKept /\ Archive!PublishedIsComplete /\ Archive!ManifestAgrees
<1>1. Archive!TypeOK
  <2>1. /\ told \subseteq Mails /\ shadowed \subseteq Mails /\ strained \subseteq Mails
        /\ epoch \in Archive!Epochs /\ trusted \in BOOLEAN
        /\ row \in [Mails -> RowTypes] /\ dir \in [Mails -> Archive!Dirs]
    BY DEF ArchiveInv, PackagesAreTyped
  <2>2. ASSUME NEW s \in seats PROVE s.pkg \in Mails /\ s.epoch \in Archive!Epochs /\ s.uid \in Nat \ {0}
    BY UidsAreTheirOwn DEF ArchiveInv, NamesAreTrue, SeatIsNamed
  <2>3. ASSUME NEW a \in Archivers
        PROVE  /\ work[a].at \in {"idle", "look", "raw", "attachment", "download", "manifest", "publish", "store"}
               /\ work[a].stage \in Archive!Dirs /\ work[a].names \subseteq Archive!Parts
    BY OfArchiver DEF WorkTypes, Busy
  <2> QED BY <2>1, <2>2, <2>3 DEF Archive!TypeOK, RowTypes
<1>2. Archive!ReadyIsWhole
  BY OfPackage DEF Archive!ReadyIsWhole, Archive!Whole, RowIsNamed, DirIsNamed, RowHolds
<1>3. Archive!ToldIsKept
  <2> SUFFICES ASSUME NEW m \in told PROVE m \in Mails /\ row[m].raw = m /\ dir[m].raw = m BY DEF Archive!ToldIsKept
  <2>1. m \in Mails /\ row[m].state # "none" BY DEF ArchiveInv, PackagesAreTyped, NamesAreTrue
  <2> QED BY <2>1, OfPackage DEF RowIsNamed, DirIsNamed
<1>4. Archive!PublishedIsComplete
  <2>1. Archive!Nobody \notin Mails BY MailsAreNumbered DEF Archive!Numbered
  <2> QED BY <2>1, OfPackage DEF Archive!PublishedIsComplete, DirIsNamed
<1>5. Archive!ManifestAgrees
  BY OfPackage DEF Archive!ManifestAgrees, Waits
<1> QED BY <1>1, <1>2, <1>3, <1>4, <1>5

-----------------------------------------------------------------------------
(* MailFacts: every piece of evidence about a message leads to a package of *)
(* the mail that it is a copy of.                                           *)

\* The mail that a package is of.
MailOf(k) == (CHOOSE x \in Messages \cup Ours : Facts!Key(x) = k).mail

Pids == {c.pid : c \in Messages}
PkgTypes ==
  [there : BOOLEAN, raw : {x.raw : x \in Messages \cup Ours} \cup {Facts!None}, marker : {o.mid : o \in Ours} \cup {Facts!None},
   pid : Pids \cup {Facts!None}, direction : {Facts!None, "inbound", "outbound"}, conflict : BOOLEAN]
MatchTypes ==
  [status : {"unmatched", "matched", "ambiguous"}, key : Facts!Keys \cup {Facts!NoKey}, ours : SUBSET Ours]
LookTypes ==
  [at : {"idle", "store", "file", "evidence", "relate", "map", "external", "end"}, copy : Messages \cup {Facts!None},
   match : MatchTypes, key : Facts!Keys \cup {Facts!NoKey}]
MapTypes(there) ==
  [key : there, pid : Pids, box : Facts!Boxes, status : {"matched", "ambiguous"},
   by : {"evidence", "observation", "review"}]

FactsAreTyped ==
  /\ pkg \in [Facts!Keys -> PkgTypes] /\ look \in LookTypes
  /\ maps \subseteq MapTypes(Facts!There) /\ cabinet \subseteq [key : Facts!There, box : Facts!Boxes]
  /\ request \in [Ours -> [state : {"sending", "accepted", "sent"}, key : Facts!There \cup {Facts!NoKey}]]

\* The evidence that a package keeps is of its own mail; raw bytes and the provider's name are even of its own
\* Message-ID and content.
Bears(k, p) ==
  /\ \A x \in Messages \cup Ours : x.raw = p.raw => Facts!Key(x) = k
  /\ \A c \in Messages : c.pid = p.pid => Facts!Key(c) = k
  /\ \A o \in Ours : o.mid = p.marker => o.mail = MailOf(k)
PackagesBear == \A k \in Facts!There : Bears(k, pkg[k])
RequestsBear == \A o \in Ours : request[o].key # Facts!NoKey => MailOf(request[o].key) = o.mail

\* Only a match leads a copy to a package of another Message-ID or content, and then its marker does, too.
Leads(c, k, status) ==
  /\ MailOf(k) = c.mail
  /\ k # Facts!Key(c) => status = "matched" /\ (c.marker # Facts!None => k \in Facts!ByMarker(c))
MapsLead ==
  /\ \A s \in maps : \A c \in Messages : c.pid = s.pid => Leads(c, s.key, s.status)
  /\ Facts!NeverSwitches

\* A package shows the direction of a message that was looked at, or the conflict.
Shows(c, k) == pkg[k].conflict \/ pkg[k].direction = Facts!Direction(c)

LookLeads ==
  look.at # "idle" =>
    /\ look.copy \in Messages /\ look.key \in Facts!Keys /\ Leads(look.copy, look.key, look.match.status)
    /\ \A o \in look.match.ours : o.mail = look.copy.mail
    /\ look.at # "store" \/ look.key # Facts!Key(look.copy) => look.key \in Facts!There
    /\ look.at \in {"relate", "map", "external", "end"} => Shows(look.copy, look.key)
    /\ look.at = "map" => look.copy.box = "sent"
    /\ look.copy.box = "sent" /\ look.at \in {"store", "file", "evidence", "relate", "map"} /\ look.match.status # "ambiguous" =>
         \A t \in maps : t.pid = look.copy.pid /\ t.status = "matched" => t.key = look.key

DoneIsShown == done \subseteq Messages \X Facts!There /\ \A x \in done : Shows(x[1], x[2])

\* A reply names the one package that bore the Message-ID which the copies of its mail refer to.
Refers(r) == r[1] # r[2] /\ \E c \in Messages : c.mail = MailOf(r[1]) /\ c.ref = r[2][1]
RepliesRefer ==
  /\ replies \subseteq Facts!There \X Facts!There /\ \A r \in replies : Refers(r)
  /\ \A r \in replies : \A q \in replies : r[1] = q[1] => r = q

FactsInv ==
  FactsAreTyped /\ PackagesBear /\ RequestsBear /\ MapsLead /\ LookLeads /\ DoneIsShown /\ RepliesRefer

\* Every name of a package is that of one mail.
LEMMA KeysBear ==
  /\ \A x \in Messages \cup Ours : Facts!Key(x) \in Facts!Keys /\ MailOf(Facts!Key(x)) = x.mail
  /\ \A k \in Facts!Keys : k # Facts!NoKey /\ k = <<k[1], k[2]>> /\ \E x \in Messages \cup Ours : k = Facts!Key(x)
<1>1. ASSUME NEW x \in Messages \cup Ours
      PROVE  Facts!Key(x) \in Facts!Keys /\ MailOf(Facts!Key(x)) = x.mail
  <2>1. Facts!Key(x) \in Facts!Keys BY DEF Facts!Keys
  <2> DEFINE y == CHOOSE z \in Messages \cup Ours : Facts!Key(z) = Facts!Key(x)
  <2>2. y \in Messages \cup Ours /\ Facts!Key(y) = Facts!Key(x) BY Zenon
  <2>3. y.mail = x.mail BY <2>2, EvidenceIsGenuine DEF Facts!Genuine
  <2> QED BY <2>1, <2>3 DEF MailOf
<1>2. ASSUME NEW k \in Facts!Keys
      PROVE  k # Facts!NoKey /\ k = <<k[1], k[2]>> /\ \E x \in Messages \cup Ours : k = Facts!Key(x)
  <2>1. PICK x \in Messages \cup Ours : k = Facts!Key(x) BY DEF Facts!Keys
  <2>2. x.mid # Facts!None BY EvidenceIsGenuine DEF Facts!Genuine
  <2> QED BY <2>1, <2>2 DEF Facts!Key, Facts!NoKey
<1> QED BY <1>1, <1>2

\* The marker of a copy is the Message-ID of the one mail of ours that it is of.
LEMMA MarkersBear ==
  /\ \A c \in Messages : c.marker # Facts!None => \E o \in Ours : o.mid = c.marker /\ o.mail = c.mail
  /\ \A o, p \in Ours : o.mail = p.mail \/ o.mid = p.mid => o = p
BY EvidenceIsGenuine DEF Facts!Genuine

\* What a change of the packages must keep for everything that is known of them to stay true.
Grown ==
  /\ pkg' \in [Facts!Keys -> PkgTypes]
  /\ \A k \in Facts!There :
       /\ pkg'[k].there
       /\ pkg[k].direction = "outbound" => pkg'[k].direction = "outbound"
       /\ pkg[k].marker # Facts!None => pkg'[k].marker = pkg[k].marker
       /\ \A c \in Messages : Shows(c, k) => Shows(c, k)'

LEMMA ThereGrows == ASSUME FactsInv, Grown PROVE Facts!There \subseteq Facts!There'
BY DEF Grown, Facts!There

LEMMA LeadsOn ==
  ASSUME FactsInv, Grown, NEW c \in Messages, NEW k \in Facts!There, NEW status, Leads(c, k, status)
  PROVE  Leads(c, k, status)'
<1>1. ASSUME c.marker # Facts!None, k \in Facts!ByMarker(c) PROVE k \in Facts!ByMarker(c)'
  <2>1. k \in Facts!There /\ pkg[k].direction = "outbound" /\ pkg[k].marker = c.marker
    BY <1>1 DEF Facts!ByMarker, Facts!Outbound
  <2>2. pkg'[k].direction = "outbound" /\ pkg'[k].marker = c.marker BY <1>1, <2>1 DEF Grown
  <2>3. k \in Facts!There' BY ThereGrows
  <2> QED BY <1>1, <2>2, <2>3 DEF Facts!ByMarker, Facts!Outbound
<1> QED BY <1>1 DEF Leads

\* Whatever was true of the packages stays true.
LEMMA TruthStays ==
  ASSUME FactsInv, Grown
  PROVE  /\ maps \subseteq MapTypes(Facts!There') /\ cabinet \subseteq [key : Facts!There', box : Facts!Boxes]
         /\ request \in [Ours -> [state : {"sending", "accepted", "sent"}, key : Facts!There' \cup {Facts!NoKey}]]
         /\ \A s \in maps : \A c \in Messages : c.pid = s.pid => Leads(c, s.key, s.status)'
         /\ done \subseteq Messages \X Facts!There' /\ \A x \in done : Shows(x[1], x[2])'
         /\ replies \subseteq Facts!There' \X Facts!There'
<1>1. Facts!There \subseteq Facts!There' BY ThereGrows
<1>2. maps \subseteq MapTypes(Facts!There) /\ cabinet \subseteq [key : Facts!There, box : Facts!Boxes]
      /\ request \in [Ours -> [state : {"sending", "accepted", "sent"}, key : Facts!There \cup {Facts!NoKey}]]
  BY DEF FactsInv, FactsAreTyped
<1>3. \A s \in maps : s.key \in Facts!There BY <1>2 DEF MapTypes
<1>4. ASSUME NEW s \in maps, NEW c \in Messages, c.pid = s.pid PROVE Leads(c, s.key, s.status)'
  <2>1. Leads(c, s.key, s.status) BY <1>4 DEF FactsInv, MapsLead
  <2> QED BY <1>3, <2>1, LeadsOn
<1>5. done \subseteq Messages \X Facts!There /\ \A x \in done : Shows(x[1], x[2]) BY DEF FactsInv, DoneIsShown
<1>6. \A x \in done : Shows(x[1], x[2])'
  <2> SUFFICES ASSUME NEW x \in done PROVE Shows(x[1], x[2])' OBVIOUS
  <2>1. x[1] \in Messages /\ x[2] \in Facts!There /\ Shows(x[1], x[2]) BY <1>5
  <2> QED BY <2>1 DEF Grown
<1>7. replies \subseteq Facts!There \X Facts!There BY DEF FactsInv, RepliesRefer
<1>8. maps \subseteq MapTypes(Facts!There') BY <1>1, <1>2 DEF MapTypes
<1>9. cabinet \subseteq [key : Facts!There', box : Facts!Boxes] BY <1>1, <1>2
<1>10. request \in [Ours -> [state : {"sending", "accepted", "sent"}, key : Facts!There' \cup {Facts!NoKey}]]
  BY <1>1, <1>2
<1>11. done \subseteq Messages \X Facts!There' /\ replies \subseteq Facts!There' \X Facts!There' BY <1>1, <1>5, <1>7
<1> QED BY <1>4, <1>6, <1>8, <1>9, <1>10, <1>11

LEMMA NothingGrows == ASSUME FactsInv, UNCHANGED pkg PROVE Grown
BY DEF Grown, FactsInv, FactsAreTyped, Facts!There, Shows

\* The message being looked at.
LEMMA OfLook ==
  ASSUME FactsInv, look.at # "idle"
  PROVE  /\ look \in LookTypes /\ look.match \in MatchTypes
         /\ look.copy \in Messages /\ look.key \in Facts!Keys /\ Leads(look.copy, look.key, look.match.status)
         /\ MailOf(look.key) = look.copy.mail
         /\ \A o \in look.match.ours : o \in Ours /\ o.mail = look.copy.mail
         /\ look.at # "store" => look.key \in Facts!There
BY DEF FactsInv, FactsAreTyped, LookTypes, MatchTypes, LookLeads, Leads

\* It goes on.
LEMMA LookMoves ==
  ASSUME FactsInv, Grown, look.at # "idle",
         NEW where \in {"file", "evidence", "relate", "map", "external", "end"}, Facts!Goes(where),
         look.key \in Facts!There',
         look.key \in Facts!There \/ look.key = Facts!Key(look.copy),
         where \in {"relate", "map", "external", "end"} => Shows(look.copy, look.key)',
         where = "map" => look.copy.box = "sent",
         where \in {"file", "evidence", "relate", "map"} =>
           maps' = maps /\ look.at \in {"store", "file", "evidence", "relate", "map"}
  PROVE  look' \in LookTypes /\ LookLeads'
<1>1. /\ look \in LookTypes /\ look.copy \in Messages /\ look.key \in Facts!Keys
      /\ Leads(look.copy, look.key, look.match.status)
      /\ \A o \in look.match.ours : o \in Ours /\ o.mail = look.copy.mail
  BY OfLook
<1>2. /\ look' \in LookTypes /\ look'.at = where /\ look'.copy = look.copy /\ look'.match = look.match
      /\ look'.key = look.key
  BY <1>1 DEF Facts!Goes, LookTypes
<1>3. Leads(look.copy, look.key, look.match.status)'
  <2>1. CASE look.key \in Facts!There
    <3>1. PICK c, k, status : /\ c \in Messages /\ k \in Facts!There
                              /\ c = look.copy /\ k = look.key /\ status = look.match.status
      BY <1>1, <2>1
    <3>2. Leads(c, k, status)' BY <1>1, <3>1, LeadsOn
    <3>3. c = look'.copy /\ k = look'.key /\ status = look'.match.status BY <1>2, <3>1
    <3> QED BY <3>2, <3>3 DEF Leads, Facts!ByMarker, Facts!Outbound, Facts!There
  <2>2. CASE look.key = Facts!Key(look.copy) BY <1>1, <1>2, <2>2 DEF Leads
  <2> QED BY <2>1, <2>2
<1>4. Shows(look.copy, look.key)' \/ where \in {"file", "evidence"} OBVIOUS
<1>5. look.copy.box = "sent" /\ look.at \in {"store", "file", "evidence", "relate", "map"} /\ look.match.status # "ambiguous" =>
         \A t \in maps : t.pid = look.copy.pid /\ t.status = "matched" => t.key = look.key
  BY DEF FactsInv, LookLeads
<1> QED BY <1>1, <1>2, <1>3, <1>4, <1>5 DEF LookLeads

\* Every piece of evidence leads to a package of the mail that the message is a copy of.
LEMMA EvidenceBears ==
  ASSUME FactsInv, NEW c \in Messages
  PROVE  /\ \A k \in Facts!ByMarker(c) \cup Facts!ByProvider(c) \cup Facts!ByRaw(c) \cup Facts!Composite(c) :
              k \in Facts!There /\ MailOf(k) = c.mail
         /\ \A k \in Facts!ByRaw(c) \cup Facts!Composite(c) : k = Facts!Key(c)
         /\ \A k \in Facts!ByProvider(c) : k # Facts!Key(c) /\ c.marker # Facts!None => k \in Facts!ByMarker(c)
<1>1. ASSUME NEW k \in Facts!ByMarker(c) PROVE k \in Facts!There /\ MailOf(k) = c.mail
  <2>1. k \in Facts!There /\ pkg[k].marker = c.marker /\ c.marker # Facts!None
    BY DEF Facts!ByMarker, Facts!Outbound
  <2>2. PICK o \in Ours : o.mid = c.marker /\ o.mail = c.mail BY <2>1, MarkersBear
  <2>3. o.mail = MailOf(k) BY <2>1, <2>2 DEF FactsInv, PackagesBear, Bears
  <2> QED BY <2>1, <2>2, <2>3
<1>2. ASSUME NEW k \in Facts!ByProvider(c)
      PROVE  /\ k \in Facts!There /\ MailOf(k) = c.mail
             /\ k # Facts!Key(c) /\ c.marker # Facts!None => k \in Facts!ByMarker(c)
  <2>1. PICK s \in maps : s.pid = c.pid /\ s.key = k BY DEF Facts!ByProvider
  <2>2. Leads(c, s.key, s.status) BY <2>1 DEF FactsInv, MapsLead
  <2>3. s.key \in Facts!There BY DEF FactsInv, FactsAreTyped, MapTypes
  <2> QED BY <2>1, <2>2, <2>3 DEF Leads
<1>3. MailOf(Facts!Key(c)) = c.mail BY KeysBear
<1>4. ASSUME NEW k \in Facts!ByRaw(c) PROVE k \in Facts!There /\ k = Facts!Key(c)
  <2>1. k \in Facts!There /\ pkg[k].raw = c.raw BY DEF Facts!ByRaw, Facts!Outbound
  <2> QED BY <2>1 DEF FactsInv, PackagesBear, Bears
<1>5. ASSUME NEW k \in Facts!Composite(c) PROVE k \in Facts!There /\ k = Facts!Key(c)
  <2>1. k \in Facts!There /\ k[1] = c.mid /\ k[2] = c.content
    BY DEF Facts!Composite, Facts!ByMid, Facts!Outbound
  <2>2. k \in Facts!Keys BY <2>1 DEF Facts!There
  <2>3. k = <<k[1], k[2]>> BY <2>2, KeysBear
  <2> QED BY <2>1, <2>3 DEF Facts!Key
<1> QED BY <1>1, <1>2, <1>3, <1>4, <1>5

\* What a match by the packages says, and what the absence of one does.
MatchLeads(c, m) ==
  /\ m.status = "matched" =>
       /\ m.key \in Facts!There /\ Leads(c, m.key, "matched")
       /\ \A t \in maps : t.pid = c.pid /\ t.status = "matched" => t.key = m.key
  /\ m.status = "unmatched" => Facts!ByProvider(c) = {}

\* The strongest evidence alone, with which all the rest agrees.
LEMMA FirstLeads ==
  ASSUME FactsInv, NEW c \in Messages, NEW k, Facts!Strongest(c) = {k}, Facts!Agree(c, k)
  PROVE  /\ k \in Facts!There /\ Leads(c, k, "matched")
         /\ \A t \in maps : t.pid = c.pid /\ t.status = "matched" => t.key = k
<1>1. \/ Facts!ByMarker(c) = {k}
      \/ Facts!ByMarker(c) = {} /\ Facts!ByProvider(c) = {k}
      \/ Facts!ByMarker(c) = {} /\ Facts!ByProvider(c) = {} /\ Facts!ByRaw(c) = {k}
  BY DEF Facts!Strongest
<1>2. k \in Facts!There /\ MailOf(k) = c.mail BY <1>1, EvidenceBears
<1>3. Leads(c, k, "matched")
  <2> SUFFICES ASSUME k # Facts!Key(c), c.marker # Facts!None PROVE k \in Facts!ByMarker(c) BY <1>2 DEF Leads
  <2> QED BY <1>1, EvidenceBears
<1>4. ASSUME NEW t \in maps, t.pid = c.pid, t.status = "matched" PROVE t.key = k
  <2>1. t.key \in Facts!ByProvider(c) BY <1>4 DEF Facts!ByProvider
  <2>2. k \in Facts!ByProvider(c) BY <2>1 DEF Facts!Agree
  <2>3. PICK s \in maps : s.pid = c.pid /\ s.key = k BY <2>2 DEF Facts!ByProvider
  <2>4. CASE s.status = "matched" BY <1>4, <2>3, <2>4 DEF FactsInv, MapsLead, Facts!NeverSwitches
  <2>5. CASE s.status # "matched"
    <3>1. k = Facts!Key(c) BY <2>3, <2>5 DEF FactsInv, MapsLead, Leads
    <3>2. CASE t.key = Facts!Key(c) BY <3>1, <3>2
    <3>3. CASE Facts!ByMarker(c) = {} BY <1>1, <2>1, <3>3
    <3>4. CASE t.key # Facts!Key(c) /\ Facts!ByMarker(c) = {k}
      <4>1. c.marker # Facts!None BY <3>4 DEF Facts!ByMarker
      <4> QED BY <2>1, <3>4, <4>1, EvidenceBears
    <3> QED BY <1>1, <3>2, <3>3, <3>4
  <2> QED BY <2>4, <2>5
<1> QED BY <1>2, <1>3, <1>4

LEMMA DecidesBears ==
  ASSUME FactsInv, NEW c \in Messages
  PROVE  /\ Facts!Decides(c) \in MatchTypes /\ Facts!Decides(c).ours = {} /\ MatchLeads(c, Facts!Decides(c))
         /\ Facts!Decides(c).status # "matched" => Facts!Decides(c).key = Facts!NoKey
<1> DEFINE no == Facts!NoMatch
           Matched(k) == [no EXCEPT !.status = "matched", !.key = k]
           amb == [no EXCEPT !.status = "ambiguous"]
<1>1. /\ no \in MatchTypes /\ no.status = "unmatched" /\ no.key = Facts!NoKey /\ no.ours = {}
      /\ amb \in MatchTypes /\ amb.status = "ambiguous" /\ amb.key = Facts!NoKey /\ amb.ours = {}
  BY DEF MatchTypes, Facts!NoMatch
<1>2. \A k \in Facts!There : /\ Matched(k) \in MatchTypes /\ Matched(k).status = "matched" /\ Matched(k).key = k
                             /\ Matched(k).ours = {}
  BY DEF MatchTypes, Facts!NoMatch, Facts!There
<1>3. CASE Facts!Strongest(c) # {}
  <2> DEFINE k == CHOOSE j \in Facts!Strongest(c) : TRUE
  <2>1. Facts!Decides(c) = IF Facts!Alone(Facts!Strongest(c)) /\ Facts!Agree(c, k) THEN Matched(k) ELSE amb
    BY <1>3 DEF Facts!Decides
  <2>2. CASE Facts!Alone(Facts!Strongest(c)) /\ Facts!Agree(c, k)
    <3>1. Facts!Strongest(c) = {k}
      <4>1. PICK j : Facts!Strongest(c) = {j} BY <2>2 DEF Facts!Alone
      <4>2. k \in Facts!Strongest(c) BY <1>3
      <4> QED BY <4>1, <4>2
    <3>2. /\ k \in Facts!There /\ Leads(c, k, "matched")
          /\ \A t \in maps : t.pid = c.pid /\ t.status = "matched" => t.key = k
      BY <2>2, <3>1, FirstLeads
    <3> HIDE DEF k
    <3>3. Facts!Decides(c) = Matched(k) BY <2>1, <2>2
    <3>4. /\ Matched(k) \in MatchTypes /\ Matched(k).status = "matched" /\ Matched(k).key = k /\ Matched(k).ours = {}
      BY <1>2, <3>2
    <3> HIDE DEF Matched
    <3> QED BY <3>2, <3>3, <3>4 DEF MatchLeads
  <2>3. CASE ~(Facts!Alone(Facts!Strongest(c)) /\ Facts!Agree(c, k))
    <3>1. Facts!Decides(c) = amb BY <2>1, <2>3
    <3> HIDE DEF amb, k
    <3> QED BY <1>1, <3>1 DEF MatchLeads
  <2> QED BY <2>2, <2>3
<1>4. CASE Facts!Strongest(c) = {}
  <2> DEFINE k == CHOOSE j \in Facts!ByMid(c) : TRUE
  <2>1. Facts!Decides(c) = IF Facts!Several(Facts!ByMid(c)) THEN amb ELSE IF Facts!Weak(c) THEN Matched(k) ELSE no
    BY <1>4 DEF Facts!Decides
  <2>2. Facts!ByProvider(c) = {} BY <1>4 DEF Facts!Strongest
  <2>3. \A t \in maps : t.pid # c.pid BY <2>2 DEF Facts!ByProvider
  <2>4. CASE Facts!Weak(c) /\ Facts!Decides(c) = Matched(k)
    <3>1. k \in Facts!Composite(c) BY <2>4 DEF Facts!Weak, Facts!Alone
    <3>2. k \in Facts!There /\ MailOf(k) = c.mail /\ k = Facts!Key(c) BY <3>1, EvidenceBears
    <3>3. Leads(c, k, "matched") BY <3>2 DEF Leads
    <3>4. /\ Matched(k) \in MatchTypes /\ Matched(k).status = "matched" /\ Matched(k).key = k /\ Matched(k).ours = {}
      BY <1>2, <3>2
    <3> HIDE DEF Matched, k
    <3> QED BY <2>3, <2>4, <3>2, <3>3, <3>4 DEF MatchLeads
  <2>5. CASE Facts!Decides(c) = amb
    <3> HIDE DEF amb
    <3> QED BY <1>1, <2>5 DEF MatchLeads
  <2>6. CASE Facts!Decides(c) = no
    <3> HIDE DEF no
    <3> QED BY <1>1, <2>2, <2>6 DEF MatchLeads
  <2> QED BY <2>1, <2>4, <2>5, <2>6
<1> QED BY <1>3, <1>4

\* A mail of ours that was accepted and is recognised by its raw bytes or its content is the mail of the copy.
LEMMA FindsBears ==
  ASSUME NEW c \in Messages
  PROVE  /\ Facts!Finds(c) \in MatchTypes /\ Facts!Finds(c).key = Facts!NoKey
         /\ \A o \in Facts!Finds(c).ours : o.mail = c.mail
<1> DEFINE raws == Facts!SameRaw(c)
           mids == Facts!SameMid(c)
           one == IF raws # {} THEN raws ELSE {o \in mids : o.content = c.content}
           none == Facts!NoMatch
           amb == [none EXCEPT !.status = "ambiguous"]
           found == [none EXCEPT !.status = "matched", !.ours = one]
<1>1. Facts!Finds(c) \in {none, amb, found} BY DEF Facts!Finds
<1>2. one \subseteq Ours BY DEF Facts!SameRaw, Facts!SameMid, Facts!Accepted
<1>3. \A o \in one : o.mail = c.mail
  <2> SUFFICES ASSUME NEW o \in one PROVE o.mail = c.mail OBVIOUS
  <2>1. o \in Ours /\ (o.raw = c.raw \/ (o.mid = c.mid /\ o.content = c.content))
    BY <1>2 DEF Facts!SameRaw, Facts!SameMid
  <2>2. o.raw = c.raw => Facts!Key(o) = Facts!Key(c) BY <2>1, EvidenceIsGenuine DEF Facts!Genuine
  <2>3. Facts!Key(o) = Facts!Key(c) BY <2>1, <2>2 DEF Facts!Key
  <2> QED BY <2>1, <2>3, EvidenceIsGenuine DEF Facts!Genuine
<1> HIDE DEF one
<1>4. /\ none \in MatchTypes /\ none.key = Facts!NoKey /\ none.ours = {}
      /\ amb \in MatchTypes /\ amb.key = Facts!NoKey /\ amb.ours = {}
      /\ found \in MatchTypes /\ found.key = Facts!NoKey /\ found.ours = one
  BY <1>2 DEF MatchTypes, Facts!NoMatch
<1> HIDE DEF none, amb, found
<1> QED BY <1>1, <1>3, <1>4

LEMMA SameBears == ASSUME FactsInv, NEW c \in Messages PROVE Facts!Same(c) \subseteq {Facts!Key(c)}
<1> SUFFICES ASSUME NEW k \in Facts!Same(c) PROVE k = Facts!Key(c) OBVIOUS
<1>1. k \in Facts!There /\ (pkg[k].pid = c.pid \/ pkg[k].raw = c.raw \/ k = Facts!Key(c)) BY DEF Facts!Same
<1> QED BY <1>1 DEF FactsInv, PackagesBear, Bears

LEMMA FactsLooksKeeps == ASSUME FactsInv, NEW c \in Messages, Facts!Looks(c) PROVE FactsInv'
<1> DEFINE match == IF Facts!Direction(c) = "outbound" THEN Facts!Candidate(c) ELSE Facts!NoMatch
           same == Facts!Same(c)
           key == IF match.key # Facts!NoKey THEN match.key
                  ELSE IF Facts!Alone(same) THEN CHOOSE k \in same : TRUE ELSE Facts!Key(c)
<1>1. /\ look.at = "idle" /\ UNCHANGED <<pkg, cabinet, maps, replies, request, done>>
      /\ look' = [at |-> "store", copy |-> c, match |-> match, key |-> key]
  BY DEF Facts!Looks, Facts!facts
<1>2. Facts!NoMatch \in MatchTypes /\ Facts!NoMatch.key = Facts!NoKey /\ Facts!NoMatch.ours = {}
      /\ Facts!NoMatch.status = "unmatched"
  BY DEF MatchTypes, Facts!NoMatch
<1>3. /\ match \in MatchTypes /\ \A o \in match.ours : o.mail = c.mail
      /\ match.key # Facts!NoKey => match = Facts!Decides(c) /\ match.status = "matched"
      /\ c.box = "sent" => match = Facts!Decides(c) \/ Facts!Decides(c).status = "unmatched"
  BY <1>2, DecidesBears, FindsBears DEF Facts!Candidate, Facts!Direction
<1> HIDE DEF match
<1>4. Facts!Key(c) \in Facts!Keys /\ MailOf(Facts!Key(c)) = c.mail /\ \A k \in Facts!Keys : k # Facts!NoKey
  BY KeysBear
<1>5. match.key = Facts!NoKey => key = Facts!Key(c)
  <2>1. Facts!Alone(same) => (CHOOSE k \in same : TRUE) = Facts!Key(c) BY SameBears DEF Facts!Alone
  <2> QED BY <2>1
<1>6. match.key # Facts!NoKey => key = match.key /\ MatchLeads(c, match) BY <1>3, DecidesBears
<1> HIDE DEF key
<1>7. key \in Facts!Keys /\ Leads(c, key, match.status) /\ (key # Facts!Key(c) => key \in Facts!There)
  <2>1. CASE match.key = Facts!NoKey BY <1>4, <1>5, <2>1 DEF Leads
  <2>2. CASE match.key # Facts!NoKey BY <1>3, <1>6, <2>2 DEF MatchLeads, Facts!There
  <2> QED BY <2>1, <2>2
<1>8. ASSUME c.box = "sent", match.status # "ambiguous", NEW t \in maps, t.pid = c.pid, t.status = "matched"
      PROVE  t.key = key
  <2>1. Facts!ByProvider(c) # {} BY <1>8 DEF Facts!ByProvider
  <2>2. Facts!Decides(c).status # "unmatched" BY <2>1, DecidesBears DEF MatchLeads
  <2>3. match = Facts!Decides(c) BY <1>3, <1>8, <2>2
  <2>4. match.status = "matched" BY <1>3, <1>8, <2>2, <2>3 DEF MatchTypes
  <2>5. match.key \in Facts!There /\ t.key = match.key BY <1>8, <2>3, <2>4, DecidesBears DEF MatchLeads
  <2>6. match.key # Facts!NoKey BY <1>4, <2>5 DEF Facts!There
  <2> QED BY <1>6, <2>5, <2>6
<1>9. look' \in LookTypes BY <1>1, <1>3, <1>7 DEF LookTypes
<1>10. look'.at = "store" /\ look'.copy = c /\ look'.match = match /\ look'.key = key BY <1>1
<1>11. Leads(look.copy, look.key, look.match.status)'
  BY <1>1, <1>7, <1>10 DEF Leads, Facts!ByMarker, Facts!Outbound, Facts!There
<1>12. LookLeads' BY <1>1, <1>3, <1>7, <1>8, <1>10, <1>11 DEF LookLeads, Facts!There
<1>13. FactsAreTyped' /\ PackagesBear' /\ RequestsBear' /\ MapsLead' /\ DoneIsShown' /\ RepliesRefer'
  <2>1. Facts!There' = Facts!There BY <1>1 DEF Facts!There
  <2>2. FactsAreTyped' BY <1>1, <1>9, <2>1 DEF FactsInv, FactsAreTyped
  <2>3. PackagesBear' /\ RequestsBear' BY <1>1, <2>1 DEF FactsInv, PackagesBear, RequestsBear
  <2>4. MapsLead'
    BY <1>1, <2>1 DEF FactsInv, MapsLead, Leads, Facts!NeverSwitches, Facts!ByMarker, Facts!Outbound, Facts!There
  <2>5. DoneIsShown' /\ RepliesRefer' BY <1>1, <2>1 DEF FactsInv, DoneIsShown, Shows, RepliesRefer, Refers
  <2> QED BY <2>2, <2>3, <2>4, <2>5
<1> QED BY <1>12, <1>13 DEF FactsInv

\* A package is made of a message or of a mail of ours.
LEMMA PackageIsMade ==
  ASSUME FactsInv, NEW k \in Facts!Keys, ~pkg[k].there, NEW p \in PkgTypes, p.there, pkg' = [pkg EXCEPT ![k] = p],
         Bears(k, p)
  PROVE  Grown /\ PackagesBear' /\ k \in Facts!There'
<1>1. pkg \in [Facts!Keys -> PkgTypes] BY DEF FactsInv, FactsAreTyped
<1>2. \A j \in Facts!Keys : pkg'[j] = IF j = k THEN p ELSE pkg[j] BY <1>1
<1>3. \A j \in Facts!There : j \in Facts!Keys /\ j # k BY DEF Facts!There
<1>4. pkg' \in [Facts!Keys -> PkgTypes] BY <1>1
<1>5. Grown BY <1>2, <1>3, <1>4 DEF Grown, Shows, Facts!There
<1>6. PackagesBear' BY <1>2 DEF FactsInv, PackagesBear, Facts!There
<1> QED BY <1>2, <1>5, <1>6 DEF Facts!There

\* Everything that is known of the packages, while they alone change.
LEMMA RestStays ==
  ASSUME FactsInv, Grown, UNCHANGED maps
  PROVE  MapsLead'
<1>1. \A s \in maps : \A c \in Messages : c.pid = s.pid => Leads(c, s.key, s.status)' BY TruthStays
<1> QED BY <1>1 DEF MapsLead, FactsInv, Facts!NeverSwitches

LEMMA RepliesStay == ASSUME FactsInv, Grown, UNCHANGED replies PROVE RepliesRefer'
<1>1. replies \subseteq Facts!There' \X Facts!There' BY TruthStays
<1> QED BY <1>1 DEF RepliesRefer, FactsInv, Refers

LEMMA DoneStays == ASSUME FactsInv, Grown, UNCHANGED done PROVE DoneIsShown'
<1>1. done \subseteq Messages \X Facts!There' /\ \A x \in done : Shows(x[1], x[2])' BY TruthStays
<1> QED BY <1>1 DEF DoneIsShown, Shows, Facts!Direction

\* The look stays where it is while a package is made.
LEMMA LookStays ==
  ASSUME FactsInv, Grown, UNCHANGED <<look, maps>>
  PROVE  look' \in LookTypes /\ LookLeads'
<1>1. look' \in LookTypes BY DEF FactsInv, FactsAreTyped
<1>2. CASE look.at = "idle" BY <1>1, <1>2 DEF LookLeads
<1>3. CASE look.at # "idle"
  <2>1. /\ look.copy \in Messages /\ look.key \in Facts!Keys /\ Leads(look.copy, look.key, look.match.status)
        /\ \A o \in look.match.ours : o.mail = look.copy.mail
        /\ look.at # "store" \/ look.key # Facts!Key(look.copy) => look.key \in Facts!There
        /\ look.at \in {"relate", "map", "external", "end"} => Shows(look.copy, look.key)
        /\ look.at = "map" => look.copy.box = "sent"
        /\ look.copy.box = "sent" /\ look.at \in {"store", "file", "evidence", "relate", "map"} /\ look.match.status # "ambiguous" =>
             \A t \in maps : t.pid = look.copy.pid /\ t.status = "matched" => t.key = look.key
    BY <1>3 DEF FactsInv, LookLeads
  <2>2. PICK c, k, status : c = look.copy /\ k = look.key /\ status = look.match.status OBVIOUS
  <2>3. Leads(c, k, status)'
    <3>1. CASE k \in Facts!There BY <2>1, <2>2, <3>1, LeadsOn
    <3>2. CASE k = Facts!Key(c) BY <2>1, <2>2, <3>2 DEF Leads
    <3> QED BY <2>1, <2>2, <3>1, <3>2
  <2>4. Leads(look.copy, look.key, look.match.status)'
    BY <2>2, <2>3 DEF Leads, Facts!ByMarker, Facts!Outbound, Facts!There
  <2>5. look.key \in Facts!There => look.key \in Facts!There' BY ThereGrows
  <2>6. k \in Facts!There /\ Shows(c, k) => Shows(c, k)' BY <2>1, <2>2 DEF Grown
  <2>7. look.key \in Facts!There /\ Shows(look.copy, look.key) => Shows(look.copy, look.key)'
    BY <2>2, <2>6 DEF Shows, Facts!Direction
  <2> QED BY <1>1, <2>1, <2>4, <2>5, <2>7 DEF LookLeads
<1> QED BY <1>2, <1>3

LEMMA AcceptsKeeps == ASSUME FactsInv, NEW o \in Ours, Facts!Accepts(o) PROVE FactsInv'
<1>1. /\ request' = [request EXCEPT ![o].state = "accepted"]
      /\ UNCHANGED <<pkg, cabinet, maps, replies, look, done>>
  BY DEF Facts!Accepts
<1>2. Grown BY <1>1, NothingGrows
<1>3. Facts!There' = Facts!There BY <1>1 DEF Facts!There
<1>4. request \in [Ours -> [state : {"sending", "accepted", "sent"}, key : Facts!There \cup {Facts!NoKey}]]
  BY DEF FactsInv, FactsAreTyped
<1>5. /\ request' \in [Ours -> [state : {"sending", "accepted", "sent"}, key : Facts!There' \cup {Facts!NoKey}]]
      /\ \A p \in Ours : request'[p].key = request[p].key
  BY <1>1, <1>3, <1>4
<1>6. FactsAreTyped' BY <1>1, <1>3, <1>5 DEF FactsInv, FactsAreTyped
<1>7. RequestsBear' BY <1>5 DEF FactsInv, RequestsBear
<1>8. PackagesBear' BY <1>1, <1>3 DEF FactsInv, PackagesBear
<1> QED BY <1>1, <1>2, <1>6, <1>7, <1>8, RestStays, RepliesStay, DoneStays, LookStays DEF FactsInv

LEMMA ArchivesOursKeeps == ASSUME FactsInv, NEW o \in Ours, Facts!ArchivesOurs(o) PROVE FactsInv'
<1> DEFINE k == Facts!Key(o)
           p == [Facts!NoPackage EXCEPT !.there = TRUE, !.raw = o.raw, !.marker = o.mid, !.direction = "outbound"]
<1>1. /\ pkg' = IF pkg[k].there THEN pkg ELSE [pkg EXCEPT ![k] = p]
      /\ request' = [request EXCEPT ![o] = [state |-> "sent", key |-> k]]
      /\ UNCHANGED <<cabinet, maps, replies, look, done>>
  BY DEF Facts!ArchivesOurs
<1>2. k \in Facts!Keys /\ MailOf(k) = o.mail BY KeysBear
<1>3. p \in PkgTypes /\ p.there /\ p.raw = o.raw /\ p.marker = o.mid /\ p.pid = Facts!None
  BY DEF PkgTypes, Facts!NoPackage
<1>4. Bears(k, p)
  <2>1. \A x \in Messages \cup Ours : x.raw = o.raw => Facts!Key(x) = k BY EvidenceIsGenuine DEF Facts!Genuine
  <2>2. \A c \in Messages : c.pid # Facts!None BY EvidenceIsGenuine DEF Facts!Genuine
  <2>3. \A q \in Ours : q.mid = o.mid => q.mail = MailOf(k) BY <1>2, MarkersBear
  <2> HIDE DEF p, k
  <2> QED BY <1>3, <2>1, <2>2, <2>3 DEF Bears
<1> HIDE DEF p, k
<1>5. Grown /\ PackagesBear' /\ k \in Facts!There'
  <2>1. CASE ~pkg[k].there BY <1>1, <1>2, <1>3, <1>4, <2>1, PackageIsMade
  <2>2. CASE pkg[k].there
    <3>1. UNCHANGED pkg BY <1>1, <2>2
    <3> QED BY <1>2, <2>2, <3>1, NothingGrows DEF FactsInv, PackagesBear, Facts!There
  <2> QED BY <2>1, <2>2
<1>6. /\ maps \subseteq MapTypes(Facts!There') /\ cabinet \subseteq [key : Facts!There', box : Facts!Boxes]
      /\ request \in [Ours -> [state : {"sending", "accepted", "sent"}, key : Facts!There' \cup {Facts!NoKey}]]
  BY <1>5, TruthStays
<1>7. /\ request' \in [Ours -> [state : {"sending", "accepted", "sent"}, key : Facts!There' \cup {Facts!NoKey}]]
      /\ \A q \in Ours : request'[q].key = IF q = o THEN k ELSE request[q].key
  BY <1>1, <1>5, <1>6
<1>8. RequestsBear' BY <1>2, <1>7 DEF FactsInv, RequestsBear
<1>9. look' \in LookTypes /\ LookLeads' BY <1>1, <1>5, LookStays
<1>10. FactsAreTyped' BY <1>1, <1>5, <1>6, <1>7, <1>9 DEF FactsAreTyped, Grown
<1> QED BY <1>1, <1>5, <1>8, <1>9, <1>10, RestStays, RepliesStay, DoneStays DEF FactsInv

LEMMA FactsStoresKeeps == ASSUME FactsInv, Facts!Stores PROVE FactsInv'
<1> DEFINE k == look.key
           p == [Facts!NoPackage EXCEPT !.there = TRUE, !.raw = look.copy.raw, !.pid = look.copy.pid,
                   !.marker = Facts!Marker, !.direction = Facts!Direction(look.copy)]
<1>1. /\ look.at = "store" /\ pkg' = IF pkg[k].there THEN pkg ELSE [pkg EXCEPT ![k] = p]
      /\ Facts!Goes("file") /\ UNCHANGED <<cabinet, maps, replies, request, done>>
  BY DEF Facts!Stores
<1>2. /\ look.copy \in Messages /\ k \in Facts!Keys /\ Leads(look.copy, k, look.match.status)
      /\ MailOf(k) = look.copy.mail /\ \A o \in look.match.ours : o \in Ours /\ o.mail = look.copy.mail
  BY <1>1, OfLook
<1>3. k # Facts!Key(look.copy) => k \in Facts!There BY <1>1 DEF FactsInv, LookLeads
<1>4. Facts!Marker # Facts!None => \E o \in Ours : o.mid = Facts!Marker /\ o.mail = look.copy.mail
  <2>1. CASE look.match.ours # {}
    <3>1. (CHOOSE o \in look.match.ours : TRUE) \in look.match.ours BY <2>1
    <3> QED BY <1>2, <2>1, <3>1 DEF Facts!Marker
  <2>2. CASE look.match.ours = {} BY <1>2, <2>2, MarkersBear DEF Facts!Marker
  <2> QED BY <2>1, <2>2
<1> DEFINE marker == Facts!Marker
<1>5. marker \in {o.mid : o \in Ours} \cup {Facts!None} BY <1>4
<1> HIDE DEF marker
<1>6. p = [Facts!NoPackage EXCEPT !.there = TRUE, !.raw = look.copy.raw, !.pid = look.copy.pid,
             !.marker = marker, !.direction = Facts!Direction(look.copy)]
  BY DEF marker
<1>7. p \in PkgTypes /\ p.there /\ p.raw = look.copy.raw /\ p.marker = marker /\ p.pid = look.copy.pid
  BY <1>2, <1>5, <1>6 DEF PkgTypes, Facts!NoPackage, Facts!Direction, Pids
<1> HIDE DEF p
<1>8. ASSUME ~pkg[k].there PROVE Bears(k, p)
  <2>1. k = Facts!Key(look.copy) BY <1>3, <1>8 DEF Facts!There
  <2>2. \A x \in Messages \cup Ours : x.raw = look.copy.raw => Facts!Key(x) = k
    BY <1>2, <2>1, EvidenceIsGenuine DEF Facts!Genuine
  <2>3. \A c \in Messages : c.pid = look.copy.pid => Facts!Key(c) = k
    BY <1>2, <2>1, EvidenceIsGenuine DEF Facts!Genuine
  <2>4. \A o \in Ours : o.mid = marker => o.mail = MailOf(k)
    <3> SUFFICES ASSUME NEW o \in Ours, o.mid = marker PROVE o.mail = MailOf(k) OBVIOUS
    <3>1. o.mid # Facts!None BY EvidenceIsGenuine DEF Facts!Genuine
    <3>2. PICK q \in Ours : q.mid = marker /\ q.mail = look.copy.mail BY <1>4, <3>1 DEF marker
    <3> QED BY <1>2, <3>2, MarkersBear
  <2> HIDE DEF k
  <2> QED BY <1>7, <2>2, <2>3, <2>4 DEF Bears
<1> HIDE DEF k
<1>9. Grown /\ PackagesBear' /\ k \in Facts!There'
  <2>1. CASE ~pkg[k].there BY <1>1, <1>2, <1>7, <1>8, <2>1, PackageIsMade
  <2>2. CASE pkg[k].there
    <3>1. UNCHANGED pkg BY <1>1, <2>2
    <3> QED BY <1>2, <2>2, <3>1, NothingGrows DEF FactsInv, PackagesBear, Facts!There
  <2> QED BY <2>1, <2>2
<1>10. /\ maps \subseteq MapTypes(Facts!There') /\ cabinet \subseteq [key : Facts!There', box : Facts!Boxes]
       /\ request \in [Ours -> [state : {"sending", "accepted", "sent"}, key : Facts!There' \cup {Facts!NoKey}]]
  BY <1>9, TruthStays
<1>11. look' \in LookTypes /\ LookLeads' BY <1>1, <1>3, <1>9, LookMoves DEF k
<1>12. FactsAreTyped' BY <1>1, <1>9, <1>10, <1>11 DEF FactsAreTyped, Grown
<1>13. RequestsBear' BY <1>1 DEF FactsInv, RequestsBear
<1> QED BY <1>1, <1>9, <1>11, <1>12, <1>13, RestStays, RepliesStay, DoneStays DEF FactsInv

\* The look goes on, or is over, while no package and no mapping changes.
LEMMA LookGoes ==
  ASSUME FactsInv, UNCHANGED <<pkg, maps, request>>, look' \in LookTypes, LookLeads',
         cabinet' \subseteq [key : Facts!There, box : Facts!Boxes], DoneIsShown', RepliesRefer'
  PROVE  FactsInv'
<1>1. Grown BY NothingGrows
<1>2. Facts!There' = Facts!There BY DEF Facts!There
<1>3. FactsAreTyped' BY <1>2 DEF FactsInv, FactsAreTyped
<1>4. PackagesBear' /\ RequestsBear' BY <1>2 DEF FactsInv, PackagesBear, RequestsBear
<1> QED BY <1>1, <1>3, <1>4, RestStays DEF FactsInv

LEMMA FilesKeeps == ASSUME FactsInv, Facts!Files PROVE FactsInv'
<1>1. /\ look.at = "file" /\ cabinet' = cabinet \cup {[key |-> look.key, box |-> look.copy.box]}
      /\ Facts!Goes("evidence") /\ UNCHANGED <<pkg, maps, replies, request, done>>
  BY DEF Facts!Files
<1>2. look.copy \in Messages /\ look.key \in Facts!There BY <1>1, OfLook
<1>3. look.copy.box \in Facts!Boxes BY <1>2, EvidenceIsGenuine DEF Facts!Genuine
<1>4. cabinet' \subseteq [key : Facts!There, box : Facts!Boxes] BY <1>1, <1>2, <1>3 DEF FactsInv, FactsAreTyped
<1>5. Grown /\ look.key \in Facts!There' BY <1>1, <1>2, NothingGrows, ThereGrows
<1>6. look' \in LookTypes /\ LookLeads' BY <1>1, <1>2, <1>5, LookMoves
<1> QED BY <1>1, <1>4, <1>5, <1>6, DoneStays, RepliesStay, LookGoes

LEMMA EvidencesKeeps == ASSUME FactsInv, Facts!Evidences PROVE FactsInv'
<1> DEFINE k == look.key
           flag == Facts!Conflict(k, Facts!Direction(look.copy))
<1>1. /\ look.at = "evidence" /\ pkg' = [pkg EXCEPT ![k].conflict = flag]
      /\ Facts!Goes("relate") /\ UNCHANGED <<cabinet, maps, replies, request, done>>
  BY DEF Facts!Evidences
<1>2. look.copy \in Messages /\ k \in Facts!There /\ k \in Facts!Keys BY <1>1, OfLook
<1>3. pkg \in [Facts!Keys -> PkgTypes] BY DEF FactsInv, FactsAreTyped
<1>4. flag \in BOOLEAN /\ (flag <=> pkg[k].conflict \/ pkg[k].direction # Facts!Direction(look.copy))
  BY Zenon DEF Facts!Conflict
<1>5. pkg[k] \in PkgTypes BY <1>2, <1>3
<1> HIDE DEF flag
<1> DEFINE p == [pkg[k] EXCEPT !.conflict = flag]
<1>6. p \in PkgTypes /\ p.there = pkg[k].there /\ p.raw = pkg[k].raw /\ p.marker = pkg[k].marker /\ p.pid = pkg[k].pid
      /\ p.direction = pkg[k].direction /\ p.conflict = flag
  BY <1>4, <1>5 DEF PkgTypes
<1>7. \A j \in Facts!Keys : pkg'[j] = IF j = k THEN p ELSE pkg[j] BY <1>1, <1>2, <1>3
<1>8. pkg' = [pkg EXCEPT ![k] = p] BY <1>1
<1> HIDE DEF p
<1>9. pkg' \in [Facts!Keys -> PkgTypes] BY <1>3, <1>6, <1>8
<1>10. \A j \in Facts!Keys : /\ pkg'[j].there = pkg[j].there /\ pkg'[j].raw = pkg[j].raw /\ pkg'[j].marker = pkg[j].marker
                             /\ pkg'[j].pid = pkg[j].pid /\ pkg'[j].direction = pkg[j].direction
                             /\ (pkg[j].conflict => pkg'[j].conflict)
  BY <1>4, <1>6, <1>7
<1>11. Facts!There' = Facts!There /\ Facts!There \subseteq Facts!Keys BY <1>10 DEF Facts!There
<1>12. Grown
  <2>1. ASSUME NEW j \in Facts!There, NEW c \in Messages, Shows(c, j) PROVE Shows(c, j)'
    BY <1>10, <1>11, <2>1 DEF Shows, Facts!Direction
  <2>2. \A j \in Facts!There : pkg'[j].there BY <1>10 DEF Facts!There
  <2> QED BY <1>9, <1>10, <1>11, <2>1, <2>2 DEF Grown
<1>13. PackagesBear' BY <1>10, <1>11 DEF FactsInv, PackagesBear, Bears
<1>14. Shows(look.copy, look.key)'
  <2>1. look'.copy = look.copy /\ look'.key = k
    <3>1. look \in LookTypes BY <1>1, OfLook
    <3> QED BY <1>1, <3>1 DEF Facts!Goes, LookTypes
  <2>2. pkg'[k].conflict \/ pkg'[k].direction = Facts!Direction(look.copy) BY <1>2, <1>4, <1>6, <1>7
  <2> QED BY <2>1, <2>2 DEF Shows, Facts!Direction
<1>15. look' \in LookTypes /\ LookLeads' BY <1>1, <1>2, <1>11, <1>12, <1>14, LookMoves
<1>16. FactsAreTyped' BY <1>1, <1>9, <1>11, <1>15 DEF FactsInv, FactsAreTyped
<1>17. RequestsBear' BY <1>1 DEF FactsInv, RequestsBear
<1> QED BY <1>1, <1>12, <1>13, <1>15, <1>16, <1>17, RestStays, RepliesStay, DoneStays DEF FactsInv

\* The copies of a mail refer to one Message-ID: once it has led to a package it can lead to no other.
LEMMA ParentIsOne ==
  ASSUME FactsInv, look.at # "idle", look.key \in Facts!There, NEW k \in Facts!Parent(look.copy.ref),
         NEW r \in replies, r[1] = look.key
  PROVE  r[2] = k
<1>1. look.copy \in Messages /\ MailOf(look.key) = look.copy.mail BY OfLook
<1>2. PICK c \in Messages : c.mail = look.copy.mail /\ c.ref = r[2][1]
  BY <1>1 DEF FactsInv, RepliesRefer, Refers
<1>3. c.ref = look.copy.ref BY <1>1, <1>2, EvidenceIsGenuine DEF Facts!Genuine
<1>4. r[2] \in Facts!There BY DEF FactsInv, RepliesRefer
<1>5. r[2] \in Facts!Named(look.copy.ref) BY <1>2, <1>3, <1>4 DEF Facts!Named
<1> QED BY <1>5 DEF Facts!Parent, Facts!Alone

LEMMA RelatesKeeps == ASSUME FactsInv, Facts!Relates PROVE FactsInv'
<1> DEFINE parents == Facts!Parent(look.copy.ref) \ {look.key}
<1>1. /\ look.at = "relate" /\ replies' = replies \cup {<<look.key, k>> : k \in parents}
      /\ Facts!Goes(IF look.copy.box = "sent" THEN "map" ELSE "end") /\ UNCHANGED <<pkg, cabinet, maps, request, done>>
  BY DEF Facts!Relates
<1>2. look.copy \in Messages /\ look.key \in Facts!There /\ MailOf(look.key) = look.copy.mail BY <1>1, OfLook
<1>3. \A k \in parents : k \in Facts!There /\ k # look.key /\ k[1] = look.copy.ref
  BY DEF Facts!Parent, Facts!Named, Facts!Alone
<1>4. \A k, j \in parents : k = j BY DEF Facts!Parent, Facts!Alone
<1>5. \A k \in parents : \A r \in replies : r[1] = look.key => r[2] = k BY <1>1, <1>2, ParentIsOne
<1> HIDE DEF parents
<1>6. Facts!There' = Facts!There BY <1>1 DEF Facts!There
<1>7. RepliesRefer'
  <2>1. replies \subseteq Facts!There \X Facts!There /\ (\A r \in replies : Refers(r))
        /\ (\A r \in replies : \A q \in replies : r[1] = q[1] => r = q)
    BY DEF FactsInv, RepliesRefer
  <2>2. \A k \in parents : <<look.key, k>> \in Facts!There \X Facts!There /\ Refers(<<look.key, k>>)
    BY <1>2, <1>3 DEF Refers
  <2>3. replies' \subseteq Facts!There' \X Facts!There' BY <1>1, <1>6, <2>1, <2>2
  <2>4. \A r \in replies' : Refers(r) BY <1>1, <2>1, <2>2
  <2>5. ASSUME NEW r \in replies', NEW q \in replies', r[1] = q[1] PROVE r = q
    <3>1. r = <<r[1], r[2]>> /\ q = <<q[1], q[2]>> BY <2>3
    <3>2. r \in replies \/ (r[1] = look.key /\ r[2] \in parents) BY <1>1
    <3>3. q \in replies \/ (q[1] = look.key /\ q[2] \in parents) BY <1>1
    <3>4. CASE r \in replies /\ q \in replies BY <2>1, <2>5, <3>4
    <3>5. CASE ~(r \in replies /\ q \in replies)
      <4>1. r[2] = q[2] BY <1>4, <1>5, <2>5, <3>2, <3>3, <3>5
      <4> QED BY <2>5, <3>1, <4>1
    <3> QED BY <3>4, <3>5
  <2>6. \A r \in replies' : Refers(r)' BY <2>4 DEF Refers
  <2> QED BY <2>3, <2>5, <2>6 DEF RepliesRefer
<1>8. Grown BY <1>1, NothingGrows
<1>9. Shows(look.copy, look.key)'
  <2>1. look'.copy = look.copy /\ look'.key = look.key
    <3>1. look \in LookTypes BY <1>1, OfLook
    <3> QED BY <1>1, <3>1 DEF Facts!Goes, LookTypes
  <2>2. Shows(look.copy, look.key) BY <1>1 DEF FactsInv, LookLeads
  <2> QED BY <1>1, <2>1, <2>2 DEF Shows, Facts!Direction
<1>10. look' \in LookTypes /\ LookLeads'
  <2>1. PICK where \in {"map", "end"} : Facts!Goes(where) /\ (where = "map" => look.copy.box = "sent") BY <1>1
  <2> QED BY <1>1, <1>2, <1>6, <1>8, <1>9, <2>1, LookMoves
<1> QED BY <1>1, <1>7, <1>8, <1>10, DoneStays, LookGoes DEF FactsInv, FactsAreTyped

\* The mails of ours that the package of a copy is told to are the mail that it is a copy of.
LEMMA ToldBear ==
  ASSUME FactsInv, look.at = "map", NEW o \in Facts!Told(look.key)
  PROVE  o \in Ours /\ o.mail = MailOf(look.key)
<1>1. o \in Ours /\ (request[o].key = look.key \/ o \in look.match.ours) BY DEF Facts!Told
<1>2. look.key # Facts!NoKey /\ MailOf(look.key) = look.copy.mail BY OfLook, KeysBear
<1>3. CASE request[o].key = look.key BY <1>1, <1>2, <1>3 DEF FactsInv, RequestsBear
<1>4. CASE o \in look.match.ours BY <1>1, <1>2, <1>4, OfLook
<1> QED BY <1>1, <1>3, <1>4

\* What the mapping does to the package.
LEMMA MapsGrows ==
  ASSUME FactsInv, look.at = "map",
         \/ UNCHANGED pkg
         \/ /\ Facts!Told(look.key) # {}
            /\ pkg' = [pkg EXCEPT ![look.key].direction = "outbound",
                                  ![look.key].marker = (CHOOSE o \in Facts!Told(look.key) : TRUE).mid]
  PROVE  Grown /\ PackagesBear' /\ Facts!There' = Facts!There
<1>1. CASE UNCHANGED pkg
  BY <1>1, NothingGrows DEF FactsInv, PackagesBear, Facts!There
<1>2. CASE /\ Facts!Told(look.key) # {}
           /\ pkg' = [pkg EXCEPT ![look.key].direction = "outbound",
                                 ![look.key].marker = (CHOOSE o \in Facts!Told(look.key) : TRUE).mid]
  <2> DEFINE k == look.key
             o == CHOOSE q \in Facts!Told(k) : TRUE
  <2>1. o \in Ours /\ o.mail = MailOf(k)
    <3>1. o \in Facts!Told(k) BY <1>2
    <3> QED BY <3>1, ToldBear
  <2>2. k \in Facts!There /\ k \in Facts!Keys /\ pkg \in [Facts!Keys -> PkgTypes] BY OfLook DEF FactsInv, FactsAreTyped
  <2>3. pkg' = [pkg EXCEPT ![k].direction = "outbound", ![k].marker = o.mid] BY <1>2
  <2> HIDE DEF o
  <2> DEFINE p == [pkg[k] EXCEPT !.direction = "outbound", !.marker = o.mid]
  <2>4. pkg[k] \in PkgTypes /\ pkg[k].there BY <2>2 DEF Facts!There
  <2>5. p \in PkgTypes /\ p.there = pkg[k].there /\ p.raw = pkg[k].raw /\ p.marker = o.mid /\ p.pid = pkg[k].pid
        /\ p.direction = "outbound" /\ p.conflict = pkg[k].conflict
    BY <2>1, <2>4 DEF PkgTypes
  <2>6. pkg' = [pkg EXCEPT ![k] = p] BY <2>2, <2>3
  <2> HIDE DEF p
  <2>7. pkg' \in [Facts!Keys -> PkgTypes] /\ \A j \in Facts!Keys : pkg'[j] = IF j = k THEN p ELSE pkg[j]
    BY <2>2, <2>5, <2>6
  <2>8. Facts!There' = Facts!There /\ Facts!There \subseteq Facts!Keys BY <2>5, <2>7 DEF Facts!There
  <2>9. Bears(k, pkg[k]) BY <2>2 DEF FactsInv, PackagesBear
  <2>10. pkg[k].marker # Facts!None => pkg[k].marker = o.mid
    <3> SUFFICES ASSUME pkg[k].marker # Facts!None PROVE pkg[k].marker = o.mid OBVIOUS
    <3>1. PICK q \in Ours : q.mid = pkg[k].marker BY <2>4 DEF PkgTypes
    <3>2. q.mail = MailOf(k) BY <2>9, <3>1 DEF Bears
    <3> QED BY <2>1, <3>1, <3>2, MarkersBear
  <2>11. pkg[k].conflict \/ pkg[k].direction = "outbound"
    <3>1. Shows(look.copy, k) /\ look.copy.box = "sent" BY DEF FactsInv, LookLeads
    <3> QED BY <3>1 DEF Shows, Facts!Direction
  <2>12. ASSUME NEW j \in Facts!There, NEW c \in Messages, Shows(c, j) PROVE Shows(c, j)'
    <3>1. pkg'[j].conflict = pkg[j].conflict /\ (pkg[j].conflict \/ pkg'[j].direction = pkg[j].direction)
      BY <2>5, <2>7, <2>8, <2>11
    <3> QED BY <2>12, <3>1 DEF Shows, Facts!Direction
  <2>13. Grown
    <3>1. \A j \in Facts!There : /\ pkg'[j].there
                                 /\ pkg[j].direction = "outbound" => pkg'[j].direction = "outbound"
                                 /\ pkg[j].marker # Facts!None => pkg'[j].marker = pkg[j].marker
      BY <2>4, <2>5, <2>7, <2>8, <2>10 DEF Facts!There
    <3> QED BY <2>7, <2>12, <3>1 DEF Grown
  <2>14. Bears(k, p)
    <3>1. \A q \in Ours : q.mid = o.mid => q.mail = MailOf(k) BY <2>1, MarkersBear
    <3> HIDE DEF k
    <3> QED BY <2>5, <2>9, <3>1 DEF Bears
  <2>15. PackagesBear' BY <2>7, <2>8, <2>14 DEF FactsInv, PackagesBear, Bears
  <2> QED BY <2>8, <2>13, <2>15
<1> QED BY <1>1, <1>2

\* ... and to the mappings.
LEMMA MappingLeads ==
  ASSUME FactsInv, look.at = "map", Grown, NEW status \in {"matched", "ambiguous"}, NEW by,
         status = "matched" <=> look.match.status # "ambiguous",
         by \in {"evidence", "observation", "review"},
         maps' = Facts!Others \cup {Facts!Mapping(status, by)}
  PROVE  maps' \subseteq MapTypes(Facts!There') /\ MapsLead'
<1> DEFINE new == Facts!Mapping(status, by)
<1>1. /\ look.copy \in Messages /\ look.key \in Facts!There /\ Leads(look.copy, look.key, look.match.status)
  BY OfLook
<1>2. new = [key |-> look.key, pid |-> look.copy.pid, box |-> look.copy.box, status |-> status, by |-> by]
  BY DEF Facts!Mapping
<1>3. new.key = look.key /\ new.pid = look.copy.pid /\ new.status = status BY <1>2
<1>4. look.copy.box \in Facts!Boxes /\ look.copy.pid \in Pids BY <1>1, EvidenceIsGenuine DEF Facts!Genuine, Pids
<1>5. look.key \in Facts!There' BY <1>1, ThereGrows
<1>6. new \in MapTypes(Facts!There') BY <1>2, <1>4, <1>5 DEF MapTypes
<1>7. \A s \in maps' : s \in maps \/ s = new BY DEF Facts!Others
<1>8. maps \subseteq MapTypes(Facts!There') /\ \A s \in maps : \A c \in Messages : c.pid = s.pid => Leads(c, s.key, s.status)'
  BY TruthStays
<1>10. ASSUME status = "matched", NEW t \in maps, t.pid = look.copy.pid, t.status = "matched" PROVE t.key = look.key
  <2>1. look.copy.box = "sent" /\ look.match.status # "ambiguous" BY <1>10 DEF FactsInv, LookLeads
  <2> QED BY <1>10, <2>1 DEF FactsInv, LookLeads
<1>11. \A s \in maps : \A t \in maps : s.pid = t.pid /\ s.status = "matched" /\ t.status = "matched" => s.key = t.key
  BY DEF FactsInv, MapsLead, Facts!NeverSwitches
<1>12. PICK n : n = new /\ n.key = look.key /\ n.pid = look.copy.pid /\ n.status = status BY <1>3
<1>13. \A s \in maps' : s \in maps \/ s = n BY <1>7, <1>12
<1>14. \A c \in Messages : c.pid = n.pid => Leads(c, n.key, n.status)'
  <2> SUFFICES ASSUME NEW c \in Messages, c.pid = n.pid PROVE Leads(c, n.key, n.status)' OBVIOUS
  <2>1. PICK k, w : k = look.key /\ w = status OBVIOUS
  <2>2. c = look.copy BY <1>1, <1>12, EvidenceIsGenuine DEF Facts!Genuine
  <2>3. k \in Facts!There /\ Leads(c, k, w) BY <1>1, <2>1, <2>2 DEF Leads
  <2>4. Leads(c, k, w)' BY <2>3, LeadsOn
  <2>5. n.key = k /\ n.status = w BY <1>12, <2>1
  <2> QED BY <2>4, <2>5
<1>15. n \in MapTypes(Facts!There') BY <1>6, <1>12
<1> HIDE DEF new
<1>16. MapsLead'
  <2>1. \A s \in maps' : \A c \in Messages : c.pid = s.pid => Leads(c, s.key, s.status)' BY <1>8, <1>13, <1>14
  <2>2. \A s \in maps' : \A t \in maps' : s.pid = t.pid /\ s.status = "matched" /\ t.status = "matched" => s.key = t.key
    BY <1>10, <1>11, <1>12, <1>13
  <2> QED BY <2>1, <2>2 DEF MapsLead, Facts!NeverSwitches
<1> QED BY <1>8, <1>13, <1>15, <1>16

LEMMA MapsKeeps == ASSUME FactsInv, Facts!Maps PROVE FactsInv'
<1> DEFINE k == look.key
           them == Facts!Told(k)
           next == IF look.match.status = "unmatched" THEN "external" ELSE "end"
           named == [o \in Ours |-> IF o \notin them THEN request[o]
                       ELSE [state |-> "sent", key |-> IF request[o].key = Facts!NoKey THEN k ELSE request[o].key]]
<1>1. look.at = "map" /\ Facts!Goes(next) /\ UNCHANGED <<cabinet, replies, done>> BY DEF Facts!Maps
<1>2. /\ look.copy \in Messages /\ k \in Facts!There /\ look.match \in MatchTypes /\ look \in LookTypes
      /\ MailOf(k) = look.copy.mail
  BY <1>1, OfLook
<1>3. \/ UNCHANGED pkg
      \/ /\ them # {}
         /\ pkg' = [pkg EXCEPT ![look.key].direction = "outbound",
                               ![look.key].marker = (CHOOSE o \in them : TRUE).mid]
  BY DEF Facts!Maps
<1>4. Grown /\ PackagesBear' /\ Facts!There' = Facts!There BY <1>1, <1>3, MapsGrows
<1>5. maps' \subseteq MapTypes(Facts!There') /\ MapsLead'
  <2>1. CASE look.match.status = "ambiguous"
    <3>1. maps' = Facts!Others \cup {Facts!Mapping("ambiguous", "review")} BY <2>1 DEF Facts!Maps
    <3> QED BY <1>1, <1>4, <2>1, <3>1, MappingLeads
  <2>2. CASE look.match.status # "ambiguous"
    <3> DEFINE by == IF look.match.status = "matched" THEN "evidence" ELSE "observation"
    <3>1. maps' = Facts!Others \cup {Facts!Mapping("matched", by)} BY <2>2 DEF Facts!Maps
    <3>2. by \in {"evidence", "observation", "review"} OBVIOUS
    <3> HIDE DEF by
    <3> QED BY <1>1, <1>4, <2>2, <3>1, <3>2, MappingLeads
  <2> QED BY <2>1, <2>2
<1>6. request' = request \/ request' = named BY DEF Facts!Maps
<1>7. request \in [Ours -> [state : {"sending", "accepted", "sent"}, key : Facts!There' \cup {Facts!NoKey}]]
      /\ cabinet \subseteq [key : Facts!There', box : Facts!Boxes]
  BY <1>4, TruthStays
<1>8. \A o \in them : o \in Ours /\ o.mail = MailOf(k) BY <1>1, ToldBear
<1> HIDE DEF them
<1>9. named \in [Ours -> [state : {"sending", "accepted", "sent"}, key : Facts!There' \cup {Facts!NoKey}]]
  BY <1>2, <1>4, <1>7
<1>10. request' \in [Ours -> [state : {"sending", "accepted", "sent"}, key : Facts!There' \cup {Facts!NoKey}]]
  BY <1>6, <1>7, <1>9
<1>11. RequestsBear'
  <2>1. \A o \in Ours : named[o].key \in {request[o].key, k} /\ (named[o].key # request[o].key => o \in them) OBVIOUS
  <2>2. \A o \in Ours : request[o].key # Facts!NoKey => MailOf(request[o].key) = o.mail BY DEF FactsInv, RequestsBear
  <2>3. \A o \in Ours : named[o].key # Facts!NoKey => MailOf(named[o].key) = o.mail BY <1>8, <2>1, <2>2
  <2> QED BY <1>6, <2>2, <2>3 DEF RequestsBear
<1>12. Shows(look.copy, look.key)'
  <2>1. look'.copy = look.copy /\ look'.key = look.key BY <1>1, <1>2 DEF Facts!Goes, LookTypes
  <2>2. PICK c, j : c = look.copy /\ j = look.key OBVIOUS
  <2>3. Shows(c, j) BY <1>1, <2>2 DEF FactsInv, LookLeads
  <2>4. Shows(c, j)' BY <1>2, <1>4, <2>2, <2>3 DEF Grown
  <2> QED BY <2>1, <2>2, <2>4 DEF Shows, Facts!Direction
<1>13. look' \in LookTypes /\ LookLeads'
  <2>1. PICK where \in {"external", "end"} : Facts!Goes(where) BY <1>1
  <2> QED BY <1>1, <1>2, <1>4, <1>12, <2>1, LookMoves
<1>14. FactsAreTyped' BY <1>1, <1>4, <1>5, <1>7, <1>10, <1>13 DEF FactsAreTyped, Grown
<1> QED BY <1>1, <1>4, <1>5, <1>11, <1>13, <1>14, DoneStays, RepliesStay DEF FactsInv

LEMMA RecordsExternalKeeps == ASSUME FactsInv, Facts!RecordsExternal PROVE FactsInv'
<1>1. look.at = "external" /\ Facts!Goes("end") /\ UNCHANGED <<pkg, cabinet, maps, replies, request, done>>
  BY DEF Facts!RecordsExternal
<1>2. Grown BY <1>1, NothingGrows
<1>3. look.key \in Facts!There /\ look.key \in Facts!There' /\ look \in LookTypes BY <1>1, <1>2, OfLook, ThereGrows
<1>4. Shows(look.copy, look.key)'
  <2>1. look'.copy = look.copy /\ look'.key = look.key BY <1>1, <1>3 DEF Facts!Goes, LookTypes
  <2>2. Shows(look.copy, look.key) BY <1>1 DEF FactsInv, LookLeads
  <2> QED BY <1>1, <2>1, <2>2 DEF Shows, Facts!Direction
<1>5. look' \in LookTypes /\ LookLeads' BY <1>1, <1>2, <1>3, <1>4, LookMoves
<1> QED BY <1>1, <1>2, <1>5, DoneStays, RepliesStay, LookGoes DEF FactsInv, FactsAreTyped

LEMMA FactsEndKeeps == ASSUME FactsInv, Facts!Ends \/ Facts!Dies PROVE FactsInv'
<1>1. /\ look.at # "idle" /\ look' = Facts!Idle /\ UNCHANGED <<pkg, cabinet, maps, replies, request>>
      /\ done' = done \/ (look.at = "end" /\ done' = done \cup {<<look.copy, look.key>>})
  BY DEF Facts!Ends, Facts!Dies, Facts!facts
<1>2. Facts!Idle \in LookTypes /\ Facts!Idle.at = "idle" BY DEF Facts!Idle, Facts!NoMatch, LookTypes, MatchTypes
<1>3. look' \in LookTypes /\ LookLeads' BY <1>1, <1>2 DEF LookLeads
<1>4. Grown /\ Facts!There' = Facts!There BY <1>1, NothingGrows DEF Facts!There
<1>5. DoneIsShown'
  <2>1. done \subseteq Messages \X Facts!There /\ \A x \in done : Shows(x[1], x[2]) BY DEF FactsInv, DoneIsShown
  <2>2. CASE done' = done BY <1>4, <2>2, DoneStays
  <2>3. CASE look.at = "end" /\ done' = done \cup {<<look.copy, look.key>>}
    <3>1. look.copy \in Messages /\ look.key \in Facts!There /\ Shows(look.copy, look.key)
      BY <2>3, OfLook DEF FactsInv, LookLeads
    <3>2. \A x \in done' : Shows(x[1], x[2]) BY <2>1, <2>3, <3>1
    <3>3. \A x \in done' : Shows(x[1], x[2])' BY <1>1, <3>2 DEF Shows, Facts!Direction
    <3> QED BY <1>4, <2>1, <2>3, <3>1, <3>3 DEF DoneIsShown, Shows, Facts!Direction
  <2> QED BY <1>1, <2>2, <2>3
<1> QED BY <1>1, <1>3, <1>4, <1>5, RepliesStay, LookGoes DEF FactsInv, FactsAreTyped

LEMMA FactsInvStarts == ASSUME Facts!Init PROVE FactsInv
<1>1. /\ pkg = [k \in Facts!Keys |-> Facts!NoPackage] /\ cabinet = {} /\ maps = {} /\ replies = {} /\ done = {}
      /\ request = [o \in Ours |-> [state |-> "sending", key |-> Facts!NoKey]] /\ look = Facts!Idle
  BY DEF Facts!Init
<1>2. Facts!NoPackage \in PkgTypes /\ ~Facts!NoPackage.there BY DEF Facts!NoPackage, PkgTypes
<1>3. Facts!Idle \in LookTypes /\ Facts!Idle.at = "idle" BY DEF Facts!Idle, Facts!NoMatch, LookTypes, MatchTypes
<1>4. Facts!There = {} BY <1>1, <1>2 DEF Facts!There
<1>5. \A o \in Ours : request[o].key = Facts!NoKey BY <1>1
<1>6. FactsAreTyped BY <1>1, <1>2, <1>3 DEF FactsAreTyped
<1>7. PackagesBear /\ RequestsBear BY <1>4, <1>5 DEF PackagesBear, RequestsBear
<1>8. MapsLead /\ LookLeads BY <1>1, <1>3 DEF MapsLead, Facts!NeverSwitches, LookLeads
<1>9. DoneIsShown /\ RepliesRefer BY <1>1 DEF DoneIsShown, RepliesRefer
<1> QED BY <1>6, <1>7, <1>8, <1>9 DEF FactsInv

LEMMA FactsInvStays == FactsInv /\ UNCHANGED factVars => FactsInv'
<1> SUFFICES ASSUME FactsInv, UNCHANGED factVars PROVE FactsInv' OBVIOUS
<1>1. UNCHANGED <<pkg, cabinet, maps, replies, request, look, done>> BY DEF factVars
<1>2. Grown BY <1>1, NothingGrows
<1>3. look' \in LookTypes /\ LookLeads' BY <1>1, <1>2, LookStays
<1> QED BY <1>1, <1>2, <1>3, DoneStays, RepliesStay, LookGoes DEF FactsInv, FactsAreTyped

LEMMA FactsSteps == ASSUME FactsInv, Facts!Next PROVE FactsInv'
<1>1. ASSUME NEW o \in Ours, Facts!Accepts(o) PROVE FactsInv' BY <1>1, AcceptsKeeps
<1>2. ASSUME NEW o \in Ours, Facts!ArchivesOurs(o) PROVE FactsInv' BY <1>2, ArchivesOursKeeps
<1>3. ASSUME NEW c \in Messages, Facts!Looks(c) PROVE FactsInv' BY <1>3, FactsLooksKeeps
<1>4. ASSUME Facts!Stores PROVE FactsInv' BY <1>4, FactsStoresKeeps
<1>5. ASSUME Facts!Files PROVE FactsInv' BY <1>5, FilesKeeps
<1>6. ASSUME Facts!Evidences PROVE FactsInv' BY <1>6, EvidencesKeeps
<1>7. ASSUME Facts!Relates PROVE FactsInv' BY <1>7, RelatesKeeps
<1>8. ASSUME Facts!Maps PROVE FactsInv' BY <1>8, MapsKeeps
<1>9. ASSUME Facts!RecordsExternal PROVE FactsInv' BY <1>9, RecordsExternalKeeps
<1>10. ASSUME Facts!Ends \/ Facts!Dies PROVE FactsInv' BY <1>10, FactsEndKeeps
<1> QED BY <1>1, <1>2, <1>3, <1>4, <1>5, <1>6, <1>7, <1>8, <1>9, <1>10 DEF Facts!Next

\* What the invariant means: the properties of what is written of a message.
LEMMA FactsInvMeans ==
  ASSUME FactsInv
  PROVE  /\ Facts!TypeOK
         /\ Facts!MatchIsTrue /\ Facts!NeverSwitches /\ Facts!DisagreementIsFlagged /\ Facts!OneParent
<1>1. Facts!TypeOK
  <2>1. look \in LookTypes /\ pkg \in [Facts!Keys -> PkgTypes] /\ maps \subseteq MapTypes(Facts!There)
        /\ cabinet \subseteq [key : Facts!There, box : Facts!Boxes]
        /\ request \in [Ours -> [state : {"sending", "accepted", "sent"}, key : Facts!There \cup {Facts!NoKey}]]
    BY DEF FactsInv, FactsAreTyped
  <2>2. look.at \in {"idle", "store", "file", "evidence", "relate", "map", "external", "end"} BY <2>1 DEF LookTypes
  <2>3. \A k \in Facts!Keys : pkg[k].direction \in {Facts!None, "inbound", "outbound"} BY <2>1 DEF PkgTypes
  <2>4. \A s \in maps : s.key \in Facts!There BY <2>1 DEF MapTypes
  <2>5. \A o \in Ours : request[o].key \in Facts!There \cup {Facts!NoKey} BY <2>1
  <2> QED BY <2>1, <2>2, <2>3, <2>4, <2>5 DEF Facts!TypeOK
<1>2. Facts!MatchIsTrue
  <2> SUFFICES ASSUME NEW s \in maps
               PROVE  \E c \in Messages : c.pid = s.pid /\
                        \E x \in Messages \cup Ours : Facts!Key(x) = s.key /\ x.mail = c.mail
    BY DEF Facts!MatchIsTrue
  <2>1. s.key \in Facts!Keys /\ s.pid \in Pids BY DEF FactsInv, FactsAreTyped, MapTypes, Facts!There
  <2>2. PICK c \in Messages : c.pid = s.pid BY <2>1 DEF Pids
  <2>3. MailOf(s.key) = c.mail BY <2>2 DEF FactsInv, MapsLead, Leads
  <2>4. PICK x \in Messages \cup Ours : s.key = Facts!Key(x) BY <2>1, KeysBear
  <2>5. x.mail = c.mail BY <2>3, <2>4, KeysBear
  <2> QED BY <2>2, <2>4, <2>5
<1>3. Facts!NeverSwitches BY DEF FactsInv, MapsLead
<1>4. Facts!DisagreementIsFlagged
  BY DEF FactsInv, DoneIsShown, Shows, Facts!DisagreementIsFlagged
<1>5. Facts!OneParent BY DEF FactsInv, RepliesRefer, Refers, Facts!OneParent
<1> QED BY <1>1, <1>2, <1>3, <1>4, <1>5

-----------------------------------------------------------------------------
(* The whole.                                                               *)

\* The archive of mails and what is written of them keep their invariants, whichever of them a behaviour is about.
THEOREM ArchiveInvariance == Spec => [](ArchiveInv /\ FactsInv)
<1>1. Init => ArchiveInv /\ FactsInv BY ArchiveInvStarts, FactsInvStarts DEF Init
<1>2. ArchiveInv /\ FactsInv /\ [Next]_vars => (ArchiveInv /\ FactsInv)'
  <2> SUFFICES ASSUME ArchiveInv, FactsInv, [Next]_vars PROVE ArchiveInv' /\ FactsInv' OBVIOUS
  <2>1. Archive!Next \/ UNCHANGED archiveVars BY DEF Next, vars
  <2>2. Facts!Next \/ UNCHANGED factVars BY DEF Next, vars
  <2> QED BY <2>1, <2>2, ArchiveSteps, ArchiveInvStays, FactsSteps, FactsInvStays
<1> QED BY <1>1, <1>2, PTL DEF Spec

\* A package called ready has all its parts, what was reported is on disk and in the rows, a published
\* directory is complete and its manifest true; a Sent copy is matched with the mail that it is a copy of and
\* with no other later, two directions of a package are flagged, and a reply names one mail.
THEOREM ArchiveIsAlwaysWhole == Spec => []ArchiveIsWhole
<1>1. ArchiveInv /\ FactsInv => ArchiveIsWhole BY ArchiveInvMeans, FactsInvMeans DEF ArchiveIsWhole
<1> QED BY <1>1, ArchiveInvariance, PTL

\* The part that a behaviour is about.
TurnIsOne == turn \in {"archive", "copies", "access", "facts"}

\* Every variable of the four parts has its type.
THEOREM EverythingHasItsType == Spec => []TypesOK
<1>1. ArchiveInv /\ FactsInv /\ CopyInv /\ AccessInv /\ TurnIsOne => TypesOK
  BY ArchiveInvMeans, FactsInvMeans, CopyInvMeans, AccessInvMeans DEF TypesOK, TurnIsOne
<1>2. Spec => []TurnIsOne
  <2>1. Init => TurnIsOne BY DEF Init, TurnIsOne
  <2>2. TurnIsOne /\ [Next]_vars => TurnIsOne' BY DEF Next, vars, TurnIsOne
  <2> QED BY <2>1, <2>2, PTL DEF Spec
<1> QED BY <1>1, <1>2, ArchiveInvariance, CopiesInvariance, AccessInvariance, PTL
=============================================================================
