----------------------------- MODULE WorkCopies -----------------------------
(***************************************************************************)
(* Copies of an archived mail in a directory that Agents and the user      *)
(* share.  The complete copy is staged, verified and published by a        *)
(* rename; single resources are put one by one into a flat directory.      *)
(***************************************************************************)
EXTENDS Naturals, FiniteSets

CONSTANTS
  Preparers,   \* calls of prepare_mail_resources, of one process or of several
  Shown,       \* Shown[resource], its display name
  Note,        \* the name of the note that follows the resources
  Last,        \* the directory names tried: 1 is the requested one, n stands for "name (n)"
  MaxVersion,  \* bound on the retries of the archive
  MaxRuns,     \* bound on the calls
  MaxEdits,    \* bound on what the user does to the copies
  MaxTrouble   \* bound on failing calls and deaths

VARIABLES
  mode,      \* complete copies and single resources have no file in common
  archive,   \* the files of the package, by version
  facts,     \* the version of the body the rows of the package describe
  place,     \* the complete copies, by name
  prep,      \* what each preparer is doing
  flat,      \* the flat directory: the resource in each file
  reported,  \* the files reported as prepared
  calls, changes, upsets,
  had,       \* the requested name has been published and the user has not deleted it
  broken,    \* a preparer died, or could not put a copy back
  met        \* two preparers were at work at once in the flat directory

vars == <<mode, archive, facts, place, prep, flat, reported, calls, changes, upsets, had, broken, met>>

Parts == {"body", "manifest"}
Resources == DOMAIN Shown
Policies == {"rename", "error", "overwrite"}
Versions == [Parts -> 0..MaxVersion]
Blank == [part \in Parts |-> 0]
NoCopy == [is |-> FALSE, parts |-> Blank, print |-> Blank, edited |-> FALSE]
FlatNames == {<<Shown[r], n>> : r \in Resources, n \in 1..Last} \cup {<<Note, 1>>}
Resting == [at |-> "idle", policy |-> "rename", saw |-> 0, snap |-> Blank, again |-> Blank,
            parts |-> Blank, target |-> 1, aside |-> NoCopy, res |-> "", file |-> <<Note, 1>>]

\* A file of the flat directory holds a resource, the note or nothing.
Laid ==
  /\ Last \in Nat \ {0} /\ MaxVersion \in Nat
  /\ MaxRuns \in Nat /\ MaxEdits \in Nat /\ MaxTrouble \in Nat
  /\ "" \notin Resources

Copies == [is : BOOLEAN, parts : Versions, print : Versions, edited : BOOLEAN]

TypeOK ==
  /\ archive \in Versions /\ facts \in 0..MaxVersion
  /\ place \in [1..Last -> Copies]
  /\ \A p \in Preparers :
       /\ prep[p].at \in {"idle", "snap", "snap2", "look", "body", "manifest", "again", "again2",
                          "aside", "publish", "pick", "copy", "check", "note"}
       /\ prep[p].target \in 1..Last /\ prep[p].aside \in Copies /\ prep[p].file \in FlatNames
  /\ flat \in [FlatNames -> Resources \cup {"", "note"}]
  /\ reported \subseteq Resources \X FlatNames
  /\ had \in BOOLEAN /\ broken \in BOOLEAN /\ met \in BOOLEAN

Init ==
  /\ mode \in {"complete", "resources"}
  /\ archive = Blank /\ facts = 0
  /\ place = [n \in 1..Last |-> NoCopy]
  /\ prep = [p \in Preparers |-> Resting]
  /\ flat = [f \in FlatNames |-> ""] /\ reported = {}
  /\ calls = 0 /\ changes = 0 /\ upsets = 0 /\ had = FALSE /\ broken = FALSE /\ met = FALSE

At(p, where) == prep[p].at = where
Sets(p, r) == prep' = [prep EXCEPT ![p] = r]
Goes(p, where) == Sets(p, [prep[p] EXCEPT !.at = where])
Upset == upsets < MaxTrouble /\ upsets' = upsets + 1
shelf == <<mode, archive, facts>>
files == <<flat, reported, met>>
bounds == <<calls, changes, upsets>>

-----------------------------------------------------------------------------
(* The complete copy.                                                       *)

\* The rows are read first, then the files, one after the other.
Starts(p, policy) ==
  /\ mode = "complete" /\ At(p, "idle") /\ calls < MaxRuns /\ calls' = calls + 1
  /\ Sets(p, [Resting EXCEPT !.at = "snap", !.policy = policy, !.saw = facts])
  /\ UNCHANGED <<shelf, place, files, changes, upsets, had, broken>>

Snaps(p) ==
  /\ \/ At(p, "snap") /\ Sets(p, [prep[p] EXCEPT !.at = "snap2", !.snap["body"] = archive["body"]])
     \/ At(p, "snap2") /\ Sets(p, [prep[p] EXCEPT !.at = "look", !.snap["manifest"] = archive["manifest"]])
  /\ UNCHANGED <<shelf, place, files, bounds, had, broken>>

\* The copy names this state of the archive and every file has its size and hash.
Reusable(p) == ~place[1].edited /\ place[1].print = prep[p].snap

Free == {n \in 2..Last : ~place[n].is}

Target(p) ==
  IF ~place[1].is \/ prep[p].policy = "overwrite" THEN 1
  ELSE CHOOSE n \in Free : \A k \in Free : n <= k

Looks(p) ==
  /\ At(p, "look")
  /\ IF place[1].is /\ (Reusable(p) \/ prep[p].policy = "error")
       THEN Sets(p, Resting)
       ELSE (place[1].is => Free # {}) /\ Sets(p, [prep[p] EXCEPT !.at = "body", !.target = Target(p)])
  /\ UNCHANGED <<shelf, place, files, bounds, had, broken>>

\* The hash of the body is in its row, that of the manifest nowhere.
CopiesBody(p) ==
  /\ At(p, "body")
  /\ IF archive["body"] = prep[p].saw
       THEN Sets(p, [prep[p] EXCEPT !.at = "manifest", !.parts["body"] = archive["body"]])
       ELSE Sets(p, Resting)
  /\ UNCHANGED <<shelf, place, files, bounds, had, broken>>

CopiesManifest(p) ==
  /\ At(p, "manifest")
  /\ Sets(p, [prep[p] EXCEPT !.at = "again", !.parts["manifest"] = archive["manifest"]])
  /\ UNCHANGED <<shelf, place, files, bounds, had, broken>>

SnapsAgain(p) ==
  /\ \/ At(p, "again") /\ Sets(p, [prep[p] EXCEPT !.at = "again2", !.again["body"] = archive["body"]])
     \/ At(p, "again2") /\ Sets(p, [prep[p] EXCEPT !.at = "aside", !.again["manifest"] = archive["manifest"]])
  /\ UNCHANGED <<shelf, place, files, bounds, had, broken>>

\* Mutant: the archive is not looked at again.
UnchangedAssumed(p) == TRUE

\* The archive is what it was before the copy.
Unchanged(p) == prep[p].again = prep[p].snap

\* Mutant: whatever has the name is set aside.
ReplacesAny(p) == place[prep[p].target].is

\* What has the name is set aside when the caller asked for it.
Replaces(p) == prep[p].policy = "overwrite" /\ place[prep[p].target].is

SetsAside(p) ==
  /\ At(p, "aside")
  /\ IF ~Unchanged(p) THEN Sets(p, Resting) /\ UNCHANGED place
     ELSE IF Replaces(p)
       THEN /\ Sets(p, [prep[p] EXCEPT !.at = "publish", !.aside = place[prep[p].target]])
            /\ place' = [place EXCEPT ![prep[p].target] = NoCopy]
       ELSE Goes(p, "publish") /\ UNCHANGED place
  /\ UNCHANGED <<shelf, files, bounds, had, broken>>

Staged(p) == [is |-> TRUE, parts |-> prep[p].parts, print |-> prep[p].snap, edited |-> FALSE]

\* The rename publishes the staging directory; what was set aside is removed.
Publishes(p) ==
  /\ At(p, "publish") /\ ~place[prep[p].target].is
  /\ place' = [place EXCEPT ![prep[p].target] = Staged(p)]
  /\ had' = (had \/ prep[p].target = 1)
  /\ Sets(p, Resting)
  /\ UNCHANGED <<shelf, files, bounds, broken>>

\* Mutant: a failure only removes the staging directory.
PutBackNever(p) == place[prep[p].target]

\* What was set aside comes back when its name is free.
PutBack(p) == IF prep[p].aside.is /\ ~place[prep[p].target].is THEN prep[p].aside ELSE place[prep[p].target]

\* A rename onto a directory with files fails, and so may any other.
PublishFails(p) ==
  /\ At(p, "publish")
  /\ IF place[prep[p].target].is THEN UNCHANGED upsets ELSE Upset
  /\ place' = [place EXCEPT ![prep[p].target] = PutBack(p)]
  /\ Sets(p, Resting)
  /\ UNCHANGED <<shelf, files, calls, changes, had, broken>>

\* The second failure is swallowed: the copy stays under its hidden name.
PutBackFails(p) ==
  /\ At(p, "publish") /\ prep[p].aside.is /\ Upset
  /\ broken' = TRUE /\ Sets(p, Resting)
  /\ UNCHANGED <<shelf, place, files, calls, changes, had>>

Fails(p) ==
  /\ prep[p].at \in {"snap", "body", "manifest", "aside", "copy"} /\ Upset
  /\ IF At(p, "copy") THEN Goes(p, "note") ELSE Sets(p, Resting)
  /\ UNCHANGED <<shelf, place, files, calls, changes, had, broken>>

Dies(p) ==
  /\ ~At(p, "idle") /\ Upset
  /\ broken' = TRUE /\ Sets(p, Resting)
  /\ UNCHANGED <<shelf, place, files, calls, changes, had>>

-----------------------------------------------------------------------------
(* Single resources.                                                        *)

StartsFlat(p, policy, r) ==
  /\ mode = "resources" /\ At(p, "idle") /\ calls < MaxRuns /\ calls' = calls + 1
  /\ Sets(p, [Resting EXCEPT !.at = "pick", !.policy = policy, !.res = r])
  /\ met' = (met \/ \E q \in Preparers \ {p} : prep[q].at \in {"pick", "copy", "check", "note"})
  /\ UNCHANGED <<shelf, place, flat, reported, changes, upsets, had, broken>>

\* Mutant: a name that is taken is taken again.
FreeNamesAll(r) == 1..Last

FreeNames(r) == {n \in 1..Last : flat[<<Shown[r], n>>] = ""}

Picks(p) ==
  /\ At(p, "pick")
  /\ LET r == prep[p].res
         taken == flat[<<Shown[r], 1>>] # "" IN
       IF taken /\ prep[p].policy = "error" THEN Goes(p, "note")
       ELSE LET n == IF prep[p].policy = "overwrite" \/ ~taken THEN 1
                     ELSE CHOOSE k \in FreeNames(r) : \A j \in FreeNames(r) : k <= j
            IN (taken /\ prep[p].policy = "rename" => FreeNames(r) # {})
               /\ Sets(p, [prep[p] EXCEPT !.at = "copy", !.file = <<Shown[r], n>>])
  /\ UNCHANGED <<shelf, place, files, bounds, had, broken>>

\* The copy replaces a file that has come to the name since, or that was to be overwritten.
Copied(p) ==
  /\ At(p, "copy")
  /\ flat' = [flat EXCEPT ![prep[p].file] = prep[p].res]
  /\ reported' = IF prep[p].policy = "overwrite" THEN {x \in reported : x[2] # prep[p].file} ELSE reported
  /\ Goes(p, "check")
  /\ UNCHANGED <<shelf, place, met, bounds, had, broken>>

Checked(p) ==
  /\ At(p, "check")
  /\ reported' = IF flat[prep[p].file] = prep[p].res THEN reported \cup {<<prep[p].res, prep[p].file>>} ELSE reported
  /\ Goes(p, "note")
  /\ UNCHANGED <<shelf, place, flat, met, bounds, had, broken>>

WritesNote(p) ==
  /\ At(p, "note")
  /\ flat' = [flat EXCEPT ![<<Note, 1>>] = "note"]
  /\ Sets(p, Resting)
  /\ UNCHANGED <<shelf, place, reported, met, bounds, had, broken>>

-----------------------------------------------------------------------------
(* The surroundings.                                                        *)

\* A retry of a partial archive writes its files in place, then its rows.
Rewrites(part) ==
  /\ archive[part] < MaxVersion
  /\ archive' = [archive EXCEPT ![part] = @ + 1]
  /\ UNCHANGED <<mode, facts, place, prep, files, bounds, had, broken>>

Stores ==
  /\ facts # archive["body"] /\ facts' = archive["body"]
  /\ UNCHANGED <<mode, archive, place, prep, files, bounds, had, broken>>

Edits(n) ==
  /\ changes < MaxEdits /\ changes' = changes + 1
  /\ place[n].is /\ ~place[n].edited /\ place' = [place EXCEPT ![n].edited = TRUE]
  /\ UNCHANGED <<shelf, prep, files, calls, upsets, had, broken>>

Deletes(n) ==
  /\ changes < MaxEdits /\ changes' = changes + 1
  /\ place[n].is /\ place' = [place EXCEPT ![n] = NoCopy]
  /\ had' = (had /\ n # 1)
  /\ UNCHANGED <<shelf, prep, files, calls, upsets, broken>>

Next ==
  \/ \E p \in Preparers :
       \/ \E policy \in Policies : Starts(p, policy)
       \/ \E policy \in Policies, r \in Resources : StartsFlat(p, policy, r)
       \/ Snaps(p) \/ Looks(p) \/ CopiesBody(p) \/ CopiesManifest(p) \/ SnapsAgain(p)
       \/ SetsAside(p) \/ Publishes(p) \/ PublishFails(p) \/ PutBackFails(p) \/ Fails(p) \/ Dies(p)
       \/ Picks(p) \/ Copied(p) \/ Checked(p) \/ WritesNote(p)
  \/ \E part \in Parts : Rewrites(part)
  \/ Stores
  \/ \E n \in 1..Last : Edits(n) \/ Deletes(n)

Spec == Init /\ [][Next]_vars

-----------------------------------------------------------------------------
(* Properties.                                                              *)

\* A published copy holds one state of the archive, the one its manifest names, however
\* the archive was rewritten while the copy was made.
CopyIsOneState == \A n \in 1..Last : place[n].is => place[n].parts = place[n].print

\* A copy with the user's changes gives way only to the user or to a call that was asked
\* to overwrite.
EditsSurvive ==
  [][\A n \in 1..Last : place[n].is /\ place[n].edited /\ place'[n] # place[n] =>
       \/ changes' > changes
       \/ \E p \in Preparers : prep[p].policy = "overwrite" /\ prep[p].target = n /\ At(p, "aside")]_vars

\* An overwrite leaves the old copy or the new one, unless its process died or the old one
\* could not be put back.
OverwriteKeepsOne ==
  had /\ ~broken /\ (\A p \in Preparers : prep[p].at # "publish") => place[1].is

\* What calls that never met report as prepared is there, except for a resource that bears
\* the name of the note.
PreparedIsKept == ~met => \A x \in reported : x[2][1] # Note => flat[x[2]] = x[1]

\* The same without the exception, once the calls have returned.
ReportIsTrue ==
  ~met /\ (\A p \in Preparers : At(p, "idle")) => \A x \in reported : flat[x[2]] = x[1]
=============================================================================
