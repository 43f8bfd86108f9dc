------------------------- MODULE MailboxSyncProofs -------------------------
(***************************************************************************)
(* No message is forgotten, for every number of messages, limit, overlap   *)
(* and bound, when the user imports no history or the backlog fits the     *)
(* limit of a session.  The argument is about order: a session takes the   *)
(* lowest new UIDs, so when it takes some new UID it takes all below it.   *)
(* A row could break this, since it is taken whatever its UID; but without *)
(* rescans a row was once among the lowest new UIDs, and since UIDs only   *)
(* grow, it always is.                                                     *)
(*                                                                         *)
(* And a reconciliation that is declared complete is complete: what is     *)
(* archived without being a member is remembered by a row, is a candidate, *)
(* or lies within the overlap, whatever sessions fail on the way.          *)
(***************************************************************************)
EXTENDS MailboxSync, TLAPS, FiniteSetTheorems

\* What a session relies on when rows may lie anywhere.
BacklogFits == ~Rescanning \/ Cardinality(Msgs) <= Cap

Holding  == {"map", "mappart", "clear", "fail"}
Covering == {"fetch", "each", "finish"} \cup Holding

\* The session works with the UIDs the server has now.
Current == s.pc # "idle" /\ s.v = validity

\* UIDs a session has still to deal with.
Open == s.todo \cup {s.u}

\* The checkpoint as the server numbers messages now.
Base == IF cp.validity = validity THEN cp.last ELSE 0

Between(u) == {x \in ServerUids : Base < x /\ x < u}

Handled(m) == Settled(m) \/ rows[<<validity, uid[m]>>] > 0

\* Nothing is known of a generation to come, and a session starts from the checkpoint.
Generations ==
  /\ cp.validity <= validity
  /\ cp.validity = 0 => cp.last = 0
  /\ \A k \in Keys : k[1] > validity => rows[k] = 0
  /\ s.pc # "idle" => cp.validity <= s.v /\ s.v \in 1..validity
  /\ s.pc # "idle" /\ ~s.rescan => s.last = IF cp.validity = s.v THEN cp.last ELSE 0

\* A UID of a generation means one message, for ever.
UidsAreOnce ==
  /\ \A m, x \in Present : uid[m] = uid[x] => m = x
  /\ Base < uidnext
  /\ \A u \in Uids : rows[<<validity, u>>] > 0 => u < uidnext
  /\ Current => /\ s.top < uidnext
                /\ \A u \in Open : u < uidnext
                /\ \A x \in s.got : /\ x[1] < uidnext
                                    /\ \A m \in Present : uid[m] = x[1] => m = x[2]

\* What the steps of a session know of the message at hand.
AtHand ==
  /\ s.u # 0 <=> s.pc \in Holding
  /\ s.pc \in {"map", "mappart"} =>
       s.m \in Msgs /\ (Current => \A m \in Present : uid[m] = s.u => m = s.m)
  /\ s.pc = "map" => verdict[s.m] = "ready"
  /\ s.pc = "clear" /\ Current => \A m \in Present : uid[m] = s.u => Settled(m)
  /\ s.pc = "finish" => s.todo = {}
  /\ s.pc \in {"retire", "search"} => s.todo = {} /\ s.top = s.last
  /\ s.rescan => ~s.full /\ s.pc \notin {"retire", "search", "clear", "finish"}

\* Every new message is handled, about to be, or above all that the session takes.
Covers ==
  Current /\ ~s.rescan /\ s.pc \in Covering =>
    /\ s.last <= s.top
    /\ \A m \in Present : s.last < uid[m] =>
         \/ Handled(m)
         \/ uid[m] \in Open
         \/ s.top < uid[m] /\ \A u \in Open : u < uid[m]

\* Fewer new messages than the limit lie below a row or a UID the session takes.
Ranked ==
  \A u \in Uids :
    /\ Base < u
    /\ rows[<<validity, u>>] > 0 \/ (Current /\ u \in Open)
    => Cardinality(Between(u)) < Cap

\* The inductive invariant.
IInv ==
  /\ TypeOK /\ Generations /\ UidsAreOnce /\ AtHand
  /\ ~Rescanning => Ranked
  /\ BacklogFits => Covers /\ NothingForgotten

-----------------------------------------------------------------------------
(* Facts about the constants and the helpers.                               *)

\* There are finitely many messages, hence finitely many UIDs.
LEMMA Counts ==
  /\ Cardinality(Msgs) \in Nat
  /\ \A S \in SUBSET Msgs : Cardinality(S) \in 0..Cardinality(Msgs)
  /\ IsFiniteSet(Uids)
<1>1. Cardinality(Msgs) \in Nat BY SyncAssumption, FS_CardinalityType
<1>2. ASSUME NEW S \in SUBSET Msgs PROVE Cardinality(S) \in 0..Cardinality(Msgs)
  <2>1. IsFiniteSet(S) /\ Cardinality(S) <= Cardinality(Msgs) BY SyncAssumption, FS_Subset
  <2> QED BY <1>1, <2>1, FS_CardinalityType
<1>3. IsFiniteSet(Uids) BY <1>1, FS_Interval DEF Uids
<1> QED BY <1>1, <1>2, <1>3

\* The server only shows UIDs it may have given out.
LEMMA ServerTyped == ASSUME TypeOK PROVE ServerUids \subseteq Uids
  BY Counts DEF TypeOK, ServerUids, Present, Uids

\* The fields of a session that has dealt with a candidate.
LEMMA PassesFields ==
  ASSUME TypeOK, NEW u \in Uids
  PROVE  /\ Passes(u) \in Session
         /\ Passes(u).pc = "each" /\ Passes(u).todo = s.todo \ {u}
         /\ Passes(u).got = {x \in s.got : x[1] # u} /\ Passes(u).u = 0 /\ Passes(u).m = NoMsg
         /\ Passes(u).v = s.v /\ Passes(u).last = s.last /\ Passes(u).top = s.top
         /\ Passes(u).rescan = s.rescan /\ Passes(u).full = s.full
  BY DEF TypeOK, Passes, Session, Pcs

\* The fields of a session that holds a message.
LEMMA HoldsFields ==
  ASSUME TypeOK, NEW u \in Uids, NEW m \in Msgs \cup {NoMsg}, NEW pc \in Pcs
  PROVE  /\ Holds(u, m, pc) \in Session
         /\ Holds(u, m, pc).pc = pc /\ Holds(u, m, pc).todo = s.todo \ {u}
         /\ Holds(u, m, pc).got = {x \in s.got : x[1] # u}
         /\ Holds(u, m, pc).u = u /\ Holds(u, m, pc).m = m
         /\ Holds(u, m, pc).v = s.v /\ Holds(u, m, pc).last = s.last
         /\ Holds(u, m, pc).top = s.top
         /\ Holds(u, m, pc).rescan = s.rescan /\ Holds(u, m, pc).full = s.full
<1>1. Passes(u) \in Session BY PassesFields
<1> QED BY <1>1, PassesFields DEF Holds, Session

-----------------------------------------------------------------------------
(* Types.                                                                   *)

\* The first state is typed.
LEMMA InitTyped == Init => TypeOK
  BY Counts, SyncAssumption DEF Init, TypeOK, Keys, Uids, Idle, Session, Pcs

\* A failure leaves rows and clock typed.
LEMMA RecordFailureTyped ==
  ASSUME TypeOK, Generations, s.pc # "idle", NEW u \in Uids, RecordFailure(u)
  PROVE  /\ rows' \in [Keys -> 0..MaxAttempts]
         /\ due' \subseteq {k \in Keys : rows'[k] \in 1..(MaxAttempts - 1)}
         /\ s' \in Session
<1>1. Key(u) \in Keys BY SyncAssumption DEF Key, Keys, Generations, TypeOK
<1>2. rows' = [rows EXCEPT ![Key(u)] = IF rows[Key(u)] < MaxAttempts THEN rows[Key(u)] + 1
                                                                   ELSE rows[Key(u)]]
  BY DEF RecordFailure
<1>3. rows[Key(u)] \in 0..MaxAttempts BY <1>1 DEF TypeOK
<1>4. rows' \in [Keys -> 0..MaxAttempts] BY <1>1, <1>2, <1>3, SyncAssumption DEF TypeOK
<1>5. due' \subseteq {k \in Keys : rows'[k] \in 1..(MaxAttempts - 1)}
  BY <1>1, <1>2 DEF TypeOK, RecordFailure
<1>6. s' \in Session
  <2>1. Passes(u) \in Session BY PassesFields
  <2> QED BY <2>1 DEF RecordFailure, Goes, Session
<1> QED BY <1>4, <1>5, <1>6

\* The server and the clock keep the types.
LEMMA ServerStepTyped ==
  ASSUME TypeOK
  PROVE  /\ \A m \in Msgs : Arrives(m) \/ Expunges(m) => TypeOK'
         /\ Renumbers => TypeOK'
         /\ \A k \in Keys : BecomesDue(k) => TypeOK'
<1>1. ASSUME NEW m \in Msgs, Arrives(m) PROVE TypeOK'
  BY <1>1, Counts DEF Arrives, TypeOK, retries, facts, Uids
<1>2. ASSUME NEW m \in Msgs, Expunges(m) PROVE TypeOK'
  BY <1>2, Counts DEF Expunges, TypeOK, retries, facts, Uids
<1>3. ASSUME Renumbers PROVE TypeOK'
  <2>1. Cardinality(Present) \in 0..Cardinality(Msgs) BY Counts DEF Present
  <2>2. validity' \in 1..MaxValidity BY <1>3, SyncAssumption DEF Renumbers, TypeOK
  <2>3. uidnext' \in 1..(Cardinality(Msgs) + 1) BY <1>3, <2>1, Counts DEF Renumbers
  <2>4. uid' \in [Msgs -> 0..(uidnext' - 1)] BY <1>3, <2>1 DEF Renumbers
  <2> QED BY <1>3, <2>2, <2>3, <2>4 DEF Renumbers, TypeOK, retries, facts
<1>4. ASSUME NEW k \in Keys, BecomesDue(k) PROVE TypeOK'
  BY <1>4 DEF BecomesDue, TypeOK, server, facts
<1> QED BY <1>1, <1>2, <1>3, <1>4

\* A fetch brings contents of candidates, each under the UID its message has.
LEMMA FetchesSome ==
  ASSUME Fetches
  PROVE  \E got \in SUBSET (s.todo \X Msgs) :
           /\ s' = [s EXCEPT !.pc = "each", !.got = got]
           /\ \A x \in got : validity = s.v /\ uid[x[2]] = x[1]
<1> DEFINE there == {x \in s.todo \X Msgs : validity = s.v /\ uid[x[2]] = x[1]}
<1>1. \E got \in SUBSET there : s' = [s EXCEPT !.pc = "each", !.got = got]
  BY DEF Fetches, Goes, At
<1> QED BY <1>1

\* Every step of a session keeps the types.
LEMMA SessionStepTyped ==
  ASSUME TypeOK, Generations, AtHand
  PROVE  /\ Selects => TypeOK'
         /\ Rescans => TypeOK'
         /\ SessionStep => TypeOK'
         /\ Breaks => TypeOK'
<1> USE DEF Goes, At
<1>0. s \in Session /\ cp \in [validity : 0..MaxValidity, last : {0} \cup Uids, pending : BOOLEAN]
  BY DEF TypeOK
<1>1. Idle \in Session BY SyncAssumption DEF Idle, Session, Pcs
<1>2. s.pc \in Holding => s.u \in Uids BY <1>0 DEF AtHand, Session
<1>3. validity \in 1..MaxValidity BY DEF TypeOK
<1>4. CASE Selects
  <2> DEFINE last == IF Changed(validity) THEN 0 ELSE cp.last
             pc == IF Changed(validity) THEN "retire" ELSE "search"
  <2>1. last \in {0} \cup Uids /\ pc \in Pcs BY <1>0 DEF Pcs
  <2>2. validity \in 0..MaxValidity BY <1>3, SyncAssumption
  <2>3. s' = [Idle EXCEPT !.pc = pc, !.v = validity, !.last = last, !.top = last]
    BY <1>4 DEF Selects
  <2> HIDE DEF last, pc
  <2>4. s' \in Session BY <1>1, <2>1, <2>2, <2>3 DEF Session
  <2> QED BY <1>4, <2>4 DEF Selects, TypeOK, server, retries, facts
<1>5. CASE Rescans
  <2>1. PICK range \in SUBSET ServerUids :
          s' = [Idle EXCEPT !.pc = "fetch", !.rescan = TRUE, !.v = validity, !.todo = range]
    BY <1>5 DEF Rescans
  <2>2. range \in SUBSET Uids /\ validity \in 0..MaxValidity BY <1>3, ServerTyped, SyncAssumption
  <2>3. s' \in Session BY <1>1, <2>1, <2>2 DEF Session, Pcs
  <2> QED BY <1>5, <2>3 DEF Rescans, TypeOK, server, retries, facts
<1>6. CASE SessionStep
  <2>1. CASE Retires
    <3>1. s' \in Session BY <1>0, <2>1 DEF Retires, Session, Pcs
    <3>2. /\ rows' \in [Keys -> 0..MaxAttempts]
          /\ due' \subseteq {k \in Keys : rows'[k] \in 1..(MaxAttempts - 1)}
      BY <2>1, SyncAssumption DEF Retires, TypeOK
    <3> QED BY <2>1, <3>1, <3>2 DEF Retires, TypeOK, server, facts
  <2>2. ASSUME NEW full \in BOOLEAN, Searches(full) PROVE TypeOK'
    <3>1. PICK R \in Batches :
            s' = [s EXCEPT !.pc = "fetch", !.full = full, !.found = IF full THEN ServerUids ELSE {},
                           !.new = {u \in ServerUids : u > s.last},
                           !.todo = Candidates(ServerUids, R)]
      BY <1>0, <2>2 DEF Searches, Session
    <3>2. Candidates(ServerUids, R) \subseteq Uids
      BY ServerTyped DEF Candidates, Lowest, Batches, TypeOK, Keys
    <3> DEFINE found == IF full THEN ServerUids ELSE {}
               new == {u \in ServerUids : u > s.last}
               todo == Candidates(ServerUids, R)
    <3>a. found \in SUBSET Uids /\ new \in SUBSET Uids /\ todo \in SUBSET Uids
      BY <3>2, ServerTyped
    <3>b. s' = [s EXCEPT !.pc = "fetch", !.full = full, !.found = found, !.new = new, !.todo = todo]
      BY <3>1
    <3> HIDE DEF found, new, todo
    <3>3. s' \in Session BY <1>0, <3>a, <3>b DEF Session, Pcs
    <3> QED BY <2>2, <3>3 DEF Searches, TypeOK, server, retries, facts
  <2>3. CASE Refused
    BY <1>1, <2>3 DEF Refused, TypeOK, server, retries, facts
  <2>4. CASE Fetches
    <3>1. PICK got \in SUBSET (s.todo \X Msgs) : s' = [s EXCEPT !.pc = "each", !.got = got]
      BY <1>0, <2>4, FetchesSome
    <3>a. got \in SUBSET (Uids \X Msgs) BY <1>0 DEF Session
    <3>2. s' \in Session BY <1>0, <3>1, <3>a DEF Session, Pcs
    <3>3. faults' = faults \/ Fault BY <2>4 DEF Fetches
    <3>4. faults' \in 0..MaxFaults BY <3>3, SyncAssumption DEF Fault, TypeOK
    <3> QED BY <2>4, <3>2, <3>4 DEF Fetches, TypeOK, server, retries, facts
  <2>5. ASSUME NEW u \in Uids, Defers(u) \/ FindsNothing(u) PROVE TypeOK'
    BY <2>5, PassesFields, RecordFailureTyped
    DEF Defers, FindsNothing, TypeOK, server, retries, facts
  <2>6. ASSUME NEW u \in Uids, NEW m \in Msgs, Processes(u, m) PROVE TypeOK'
    <3>1. Succeeds(u) \in Session BY <2>6, PassesFields, HoldsFields DEF Succeeds, Pcs
    <3>2. s' \in Session
      BY <2>6, <3>1, HoldsFields, RecordFailureTyped DEF Processes, Pcs
    <3>3. faults' \in 0..MaxFaults BY <2>6, SyncAssumption DEF Processes, Fault, TypeOK
    <3>4. verdict' \in [Msgs -> {"none", "refused", "ready"}] BY <2>6 DEF Processes, TypeOK
    <3>5. /\ rows' \in [Keys -> 0..MaxAttempts]
          /\ due' \subseteq {k \in Keys : rows'[k] \in 1..(MaxAttempts - 1)}
      BY <2>6, RecordFailureTyped DEF Processes, TypeOK, retries
    <3> QED BY <2>6, <3>2, <3>3, <3>4, <3>5 DEF Processes, TypeOK, server
  <2>7. CASE Maps
    <3>0. s.u \in Uids /\ s.m \in Msgs /\ s.pc # "idle" BY <1>2, <2>7 DEF Maps, Holding, AtHand
    <3>1. Succeeds(s.u) \in Session BY <3>0, PassesFields, HoldsFields DEF Succeeds, Pcs
    <3>2. s' \in Session
      BY <2>7, <3>0, <3>1, HoldsFields, RecordFailureTyped DEF Maps, Pcs
    <3>3. faults' \in 0..MaxFaults BY <2>7, SyncAssumption DEF Maps, Fault, TypeOK
    <3> DEFINE now == [validity |-> s.v, uid |-> s.u, present |-> TRUE]
               Memberships == [validity : 0..MaxValidity, uid : {0} \cup Uids, present : BOOLEAN]
    <3>a. now \in Memberships BY <1>0, <3>0 DEF Session
    <3>b. member' = member \/ member' = [member EXCEPT ![s.m] = now]
      BY <2>7 DEF Maps, Membership
    <3>4. member' \in [Msgs -> Memberships]
      <4>1. member \in [Msgs -> Memberships] BY DEF TypeOK
      <4> HIDE DEF now, Memberships
      <4> QED BY <3>a, <3>b, <4>1
    <3>5. /\ rows' \in [Keys -> 0..MaxAttempts]
          /\ due' \subseteq {k \in Keys : rows'[k] \in 1..(MaxAttempts - 1)}
      BY <2>7, <3>0, RecordFailureTyped DEF Maps, TypeOK, retries
    <3>6. cut' \subseteq Msgs BY <2>7 DEF Maps, Membership, TypeOK
    <3> QED BY <2>7, <3>2, <3>3, <3>4, <3>5, <3>6 DEF Maps, TypeOK, server
  <2>8. CASE Fails
    BY <1>2, <2>8, RecordFailureTyped DEF Fails, Holding, TypeOK, server, facts
  <2>9. CASE Clears
    <3>0. s.u \in Uids /\ s.pc # "idle" BY <1>2, <2>9 DEF Clears, Holding
    <3>1. s' \in Session
      <4>1. Passes(s.u) \in Session BY <3>0, PassesFields
      <4> QED BY <2>9, <3>0, <4>1, RecordFailureTyped DEF Clears, Session
    <3>2. /\ rows' \in [Keys -> 0..MaxAttempts]
          /\ due' \subseteq {k \in Keys : rows'[k] \in 1..(MaxAttempts - 1)}
      BY <2>9, <3>0, RecordFailureTyped, SyncAssumption DEF Clears, TypeOK
    <3>3. faults' \in 0..MaxFaults BY <2>9, SyncAssumption DEF Clears, Fault, TypeOK
    <3> QED BY <2>9, <3>1, <3>2, <3>3 DEF Clears, TypeOK, server, facts
  <2>10. CASE Snapshots
    <3>1. s' \in Session BY <1>0, <2>10 DEF Snapshots, Session, Pcs
    <3>2. member' \in [Msgs -> [validity : 0..MaxValidity, uid : {0} \cup Uids, present : BOOLEAN]]
      BY <2>10 DEF Snapshots, TypeOK
    <3> QED BY <2>10, <3>1, <3>2 DEF Snapshots, TypeOK, server, retries
  <2>11. CASE Finishes
    <3>1. cp' \in [validity : 0..MaxValidity, last : {0} \cup Uids, pending : BOOLEAN]
      BY <1>0, <2>11 DEF Finishes, Session, Pending, Changed, Completed
    <3> QED BY <1>1, <2>11, <3>1 DEF Finishes, TypeOK, server, retries, facts
  <2>12. CASE RescanEnds
    BY <1>1, <2>12 DEF RescanEnds, TypeOK, server, retries, facts
  <2> QED BY <1>6, <2>1, <2>2, <2>3, <2>4, <2>5, <2>6, <2>7, <2>8, <2>9, <2>10, <2>11, <2>12
          DEF SessionStep
<1>7. CASE Breaks
  <2>1. faults' \in 0..MaxFaults BY <1>7, SyncAssumption DEF Breaks, Fault, TypeOK
  <2>2. cut' \subseteq Msgs BY <1>7 DEF Breaks, TypeOK, AtHand
  <2> QED BY <1>1, <1>7, <2>1, <2>2 DEF Breaks, TypeOK, server, retries
<1> QED BY <1>4, <1>5, <1>6, <1>7

-----------------------------------------------------------------------------
(* A session deals with a candidate.                                        *)

\* What the steps that deal with the candidate u have in common: u leaves the open
\* UIDs only when its message is handled, or when a rescan leaves the rows alone.
Deals(u) ==
  /\ s.pc \in {"each"} \cup Holding /\ s'.pc \in {"each"} \cup Holding
  /\ UNCHANGED <<validity, uid, uidnext, cp>>
  /\ s'.v = s.v /\ s'.last = s.last /\ s'.rescan = s.rescan
  /\ u \in Open /\ u \in Uids
  /\ Open' \subseteq Open \cup {0} /\ Open \subseteq Open' \cup {0, u}
  /\ s'.got \subseteq s.got
  /\ s'.top = s.top \/ (s'.top = u /\ s.top < u)
  /\ \A k \in Keys : k # Key(u) => rows'[k] = rows[k]
  /\ \A m \in Msgs : Settled(m) => Settled(m)'
  /\ s.v = validity =>
       \/ rows' = rows /\ (u \in Open' \/ s.rescan)
       \/ \A m \in Present : uid[m] = u => Handled(m)'

\* A message that was handled stays so while a session deals with candidates.
LEMMA HandledStays ==
  ASSUME IInv, NEW u, Deals(u), NEW m \in Present, Handled(m)
  PROVE  Handled(m)'
<1>1. <<validity, uid[m]>> \in Keys
  BY Counts DEF IInv, TypeOK, Present, Keys, Uids
<1>2. CASE s.v = validity /\ uid[m] = u
  <2>1. rows' = rows \/ Handled(m)' BY <1>2 DEF Deals
  <2>2. uid' = uid /\ validity' = validity /\ (Settled(m) => Settled(m)')
    BY DEF Deals, Present
  <2> QED BY <2>1, <2>2 DEF Handled
<1>3. CASE ~(s.v = validity /\ uid[m] = u)
  <2>1. <<validity, uid[m]>> # Key(u) BY <1>3 DEF Key
  <2>2. rows'[<<validity, uid[m]>>] = rows[<<validity, uid[m]>>] BY <1>1, <2>1 DEF Deals
  <2>3. uid' = uid /\ validity' = validity /\ (Settled(m) => Settled(m)')
    BY DEF Deals, Present
  <2> QED BY <2>2, <2>3 DEF Handled
<1> QED BY <1>2, <1>3

\* Dealing with a candidate keeps all that is known of generations, UIDs and ranks,
\* and no message is forgotten.
LEMMA DealsKeeps ==
  ASSUME IInv, NEW u, Deals(u), TypeOK'
  PROVE  /\ Generations' /\ UidsAreOnce'
         /\ ~Rescanning => Ranked'
         /\ BacklogFits => Covers' /\ NothingForgotten'
<1>0. TypeOK /\ Generations /\ UidsAreOnce BY DEF IInv
<1>1. /\ validity' = validity /\ uid' = uid /\ uidnext' = uidnext /\ cp' = cp
      /\ s'.v = s.v /\ s'.last = s.last /\ s'.rescan = s.rescan
      /\ s.pc # "idle" /\ s'.pc # "idle" /\ u \in Uids /\ u \in Open
  BY DEF Deals, Holding
<1>2. Present' = Present /\ ServerUids' = ServerUids /\ Base' = Base /\ Current' = Current
  BY <1>1 DEF Present, ServerUids, Base, Current
<1>3. \A k \in Keys : k # Key(u) => rows'[k] = rows[k] BY DEF Deals
<1>4. s.v \in 1..validity BY <1>0, <1>1 DEF Generations
<1>5. validity \in 1..MaxValidity /\ uidnext \in Nat BY <1>0, Counts DEF TypeOK
<1>6. \A x \in Uids : <<validity, x>> \in Keys BY <1>5 DEF Keys
<1>7. \A x \in Uids : \/ rows'[<<validity, x>>] = rows[<<validity, x>>]
                      \/ s.v = validity /\ x = u
  BY <1>3, <1>6 DEF Key
<1>8. Generations'
  <2>1. \A k \in Keys : k[1] > validity => rows'[k] = 0
    BY <1>0, <1>3, <1>4, <1>5 DEF Generations, Key, Keys
  <2> QED BY <1>0, <1>1, <2>1 DEF Generations
<1>9. UidsAreOnce'
  <2>1. Current => u < uidnext BY <1>0, <1>1 DEF UidsAreOnce
  <2>2. \A x \in Uids : rows'[<<validity, x>>] > 0 => x < uidnext
    BY <1>0, <1>1, <1>7, <2>1 DEF UidsAreOnce, Current
  <2>3. Current => s'.top < uidnext BY <1>0, <2>1 DEF UidsAreOnce, Deals
  <2>4. Current => \A x \in Open' : x < uidnext
    <3>1. 0 < uidnext BY <1>0, Counts DEF TypeOK
    <3> QED BY <1>0, <3>1 DEF UidsAreOnce, Deals
  <2>5. s'.got \subseteq s.got BY DEF Deals
  <2> QED BY <1>0, <1>1, <1>2, <2>2, <2>3, <2>4, <2>5 DEF UidsAreOnce
<1>10. ASSUME ~Rescanning PROVE Ranked'
  <2>1. Ranked BY <1>10 DEF IInv
  <2>2. SUFFICES ASSUME NEW x \in Uids, Base < x,
                        rows'[<<validity, x>>] > 0 \/ (Current /\ x \in Open')
                 PROVE  Cardinality(Between(x)) < Cap
    BY <1>1, <1>2 DEF Ranked, Between
  <2>3. x # 0 BY Counts DEF Uids
  <2>4. rows[<<validity, x>>] > 0 \/ (Current /\ x \in Open)
    BY <1>1, <1>7, <2>2, <2>3 DEF Deals, Current
  <2> QED BY <2>1, <2>2, <2>4 DEF Ranked
<1>11. ASSUME BacklogFits PROVE Covers'
  <2>1. SUFFICES ASSUME Current, ~s.rescan
                 PROVE  /\ s.last <= s'.top
                        /\ \A m \in Present : s.last < uid[m] =>
                             \/ Handled(m)'
                             \/ uid[m] \in Open'
                             \/ s'.top < uid[m] /\ \A x \in Open' : x < uid[m]
    BY <1>1, <1>2 DEF Covers
  <2>2. /\ s.last <= s.top
        /\ \A m \in Present : s.last < uid[m] =>
             \/ Handled(m)
             \/ uid[m] \in Open
             \/ s.top < uid[m] /\ \A x \in Open : x < uid[m]
    BY <1>11, <2>1 DEF IInv, Covers, Deals, Covering
  <2>3. s.last \in Nat /\ s.top \in Nat /\ u \in Nat
    <3>1. s.last \in {0} \cup Uids /\ s.top \in {0} \cup Uids BY <1>0 DEF TypeOK, Session
    <3>2. \A x \in {0} \cup Uids : x \in Nat BY Counts DEF Uids
    <3> QED BY <1>1, <3>1, <3>2
  <2>4. s.last <= s'.top BY <2>2, <2>3 DEF Deals
  <2>5. ASSUME NEW m \in Present, s.last < uid[m]
        PROVE  \/ Handled(m)'
               \/ uid[m] \in Open'
               \/ s'.top < uid[m] /\ \A x \in Open' : x < uid[m]
    <3>1. uid[m] \in Nat \ {0} BY <1>0, <1>5 DEF TypeOK, Present
    <3>2. CASE Handled(m) BY <3>2, HandledStays
    <3>3. CASE uid[m] \in Open
      <4>1. uid[m] \in Open' \/ uid[m] = u BY <3>1, <3>3 DEF Deals
      <4>2. u \in Open' \/ (\A x \in Present : uid[x] = u => Handled(x)')
        BY <1>1, <2>1 DEF Deals, Current
      <4> QED BY <4>1, <4>2
    <3>4. CASE s.top < uid[m] /\ \A x \in Open : x < uid[m]
      BY <1>1, <3>1, <3>4 DEF Deals
    <3> QED BY <2>2, <2>5, <3>2, <3>3, <3>4
  <2> QED BY <2>4, <2>5
<1>12. ASSUME BacklogFits PROVE NothingForgotten'
  <2>1. NothingForgotten BY <1>12 DEF IInv
  <2> QED BY <1>1, <1>2, <2>1, HandledStays DEF NothingForgotten, Handled
<1> QED BY <1>8, <1>9, <1>10, <1>11, <1>12

\* The candidate u is done with, in the session that follows.
Passed(u) ==
  /\ s'.pc = "each" /\ s'.u = 0
  /\ s'.todo = s.todo \ {u} /\ s'.got = {x \in s.got : x[1] # u}
  /\ s'.v = s.v /\ s'.last = s.last /\ s'.rescan = s.rescan /\ s'.full = s.full
  /\ s'.top = s.top \/ (s'.top = u /\ s.top < u)

\* What a step does to the rows and verdicts when it deals with the candidate u.
Effect(u) ==
  /\ UNCHANGED <<validity, uid, uidnext, cp>>
  /\ \A k \in Keys : k # Key(u) => rows'[k] = rows[k]
  /\ \A m \in Msgs : Settled(m) => Settled(m)'

\* To be done with a candidate is to deal with it, if its message is handled.
LEMMA PassedDeals ==
  ASSUME IInv, s.pc \in {"each"} \cup Holding, NEW u \in Uids, u \in Open, s.u \in {0, u},
         Passed(u), Effect(u),
         s.v = validity => \/ rows' = rows /\ s.rescan
                           \/ \A m \in Present : uid[m] = u => Handled(m)'
  PROVE  Deals(u) /\ AtHand'
<1>1. Open' \subseteq Open \cup {0} /\ Open \subseteq Open' \cup {0, u}
  BY DEF Passed, Open
<1>2. s'.pc = "each" /\ s'.got \subseteq s.got BY DEF Passed
<1>3. Deals(u) BY <1>1, <1>2 DEF Deals, Passed, Effect
<1>4. s.rescan => ~s.full BY DEF IInv, AtHand
<1>5. AtHand' BY <1>2, <1>4 DEF AtHand, Passed, Holding
<1> QED BY <1>3, <1>5

\* To hold on to a candidate is to deal with it, if the rows stay as they are.
LEMMA HoldsDeals ==
  ASSUME IInv, s.pc \in {"each"} \cup Holding, NEW u \in Uids, u \in Open, s.u \in {0, u},
         NEW m \in Msgs \cup {NoMsg}, NEW pc \in Holding, s' = Holds(u, m, pc),
         Effect(u), rows' = rows
  PROVE  /\ Deals(u)
         /\ s'.u = u /\ s'.m = m /\ s'.pc = pc /\ s'.v = s.v
         /\ s'.rescan = s.rescan /\ s'.full = s.full
<1>0. TypeOK /\ pc \in Pcs BY DEF IInv, Holding, Pcs
<1>1. /\ s'.u = u /\ s'.m = m /\ s'.pc = pc /\ s'.todo = s.todo \ {u}
      /\ s'.got = {x \in s.got : x[1] # u}
      /\ s'.v = s.v /\ s'.last = s.last /\ s'.rescan = s.rescan /\ s'.full = s.full
      /\ s'.top = s.top
  BY <1>0, HoldsFields
<1>2. Open' \subseteq Open \cup {0} /\ Open \subseteq Open' \cup {0, u} /\ u \in Open'
  BY <1>1 DEF Open
<1>3. s'.got \subseteq s.got BY <1>1
<1>4. Deals(u) BY <1>1, <1>2, <1>3 DEF Deals, Effect
<1> QED BY <1>1, <1>4

\* A failure of the candidate leaves a row in its place.
LEMMA RecordFailureDeals ==
  ASSUME IInv, s.pc \in {"each"} \cup Holding, NEW u \in Uids, u \in Open, s.u \in {0, u},
         RecordFailure(u), UNCHANGED <<validity, uid, uidnext, cp, verdict>>
  PROVE  Deals(u) /\ AtHand'
<1>0. TypeOK BY DEF IInv
<1>1. Key(u) \in Keys
  BY SyncAssumption DEF Key, Keys, IInv, Generations, TypeOK, Holding
<1>2. rows[Key(u)] \in 0..MaxAttempts BY <1>0, <1>1 DEF TypeOK
<1>3. rows'[Key(u)] > 0 /\ \A k \in Keys : k # Key(u) => rows'[k] = rows[k]
  BY <1>0, <1>1, <1>2, SyncAssumption DEF RecordFailure, TypeOK
<1>4. Passed(u)
  <2>1. s' = [Passes(u) EXCEPT !.failed = TRUE] BY DEF RecordFailure, Goes
  <2> QED BY <1>0, <2>1, PassesFields DEF Session, Passed
<1>5. Effect(u) BY <1>3 DEF Effect, Settled
<1>6. s.v = validity => \A m \in Present : uid[m] = u => Handled(m)'
  BY <1>3 DEF Handled, Key
<1> QED BY <1>4, <1>5, <1>6, PassedDeals

\* What a session knows while it deals with candidates.
LEMMA AtTheCandidate ==
  ASSUME IInv
  PROVE  /\ TypeOK
         /\ s.pc = "each" => s.u = 0
         /\ s.pc \in Holding => s.u \in Uids /\ s.u \in Open
         /\ \A u \in s.todo : u \in Open /\ u \in Uids
<1>1. s.u \in {0} \cup Uids /\ s.todo \subseteq Uids BY DEF IInv, TypeOK, Session
<1>2. s.u # 0 <=> s.pc \in Holding BY DEF IInv, AtHand
<1> QED BY <1>1, <1>2 DEF IInv, Open, Holding

\* A candidate that waits has a row.
LEMMA DefersDeals ==
  ASSUME IInv, NEW u \in Uids, Defers(u)
  PROVE  Deals(u) /\ AtHand'
<1>1. s.pc = "each" /\ u \in Open /\ s.u \in {0, u} BY AtTheCandidate DEF Defers
<1>2. Passed(u) BY AtTheCandidate, PassesFields DEF Defers, Goes, Passed
<1>3. Effect(u) /\ rows' = rows BY DEF Defers, Effect, server, retries, facts, Settled
<1>4. s.v = validity => \A m \in Present : uid[m] = u => Handled(m)'
  BY <1>3 DEF Defers, Waits, Handled, Key, Effect
<1> QED BY <1>1, <1>2, <1>3, <1>4, PassedDeals

\* A candidate without content gets a row.
LEMMA FindsNothingDeals ==
  ASSUME IInv, NEW u \in Uids, FindsNothing(u)
  PROVE  Deals(u) /\ AtHand'
  BY AtTheCandidate, RecordFailureDeals DEF FindsNothing, server, facts

\* A message that was dealt with is settled, or it is a rescan that dealt with it.
LEMMA SucceedsDeals ==
  ASSUME IInv, s.pc \in {"each"} \cup Holding, NEW u \in Uids, u \in Open, s.u \in {0, u},
         s' = Succeeds(u), Effect(u), rows' = rows,
         s.rescan \/ (Current => \A m \in Present : uid[m] = u => Settled(m)')
  PROVE  Deals(u) /\ AtHand'
<1>0. TypeOK /\ s.pc # "idle" BY DEF IInv, Holding
<1>1. CASE s.rescan
  <2>1. Passed(u) BY <1>0, <1>1, PassesFields DEF Succeeds, Passed
  <2> QED BY <1>1, <2>1, PassedDeals
<1>2. CASE ~s.rescan
  <2>1. s' = Holds(u, NoMsg, "clear") /\ "clear" \in Holding BY <1>2 DEF Succeeds, Holding
  <2>2. /\ Deals(u) /\ s'.u = u /\ s'.pc = "clear" /\ s'.v = s.v /\ s'.rescan = s.rescan
    BY <2>1, HoldsDeals
  <2>3. u # 0 BY Counts DEF Uids
  <2>4. s.v = validity => \A m \in Present : uid[m] = u => Settled(m)'
    BY <1>0, <1>2 DEF Current
  <2>5. AtHand'
    BY <1>2, <2>2, <2>3, <2>4 DEF AtHand, Current, Effect, Holding, Present
  <2> QED BY <2>2, <2>5
<1> QED BY <1>1, <1>2

\* A message whose archive is at hand is held with it.
LEMMA ArchivesDeals ==
  ASSUME IInv, s.pc = "each", NEW u \in Uids, u \in Open, NEW m \in Msgs, <<u, m>> \in s.got,
         NEW pc \in {"map", "mappart"}, s' = Holds(u, m, pc), Effect(u), rows' = rows,
         pc = "map" => verdict'[m] = "ready"
  PROVE  Deals(u) /\ AtHand'
<1>1. TypeOK /\ s.u = 0 /\ pc \in Holding BY AtTheCandidate DEF Holding
<1>2. /\ Deals(u) /\ s'.u = u /\ s'.m = m /\ s'.pc = pc /\ s'.v = s.v
      /\ s'.rescan = s.rescan /\ s'.full = s.full
  BY <1>1, HoldsDeals
<1>3. s.v = validity => \A x \in Present : uid[x] = u => x = m
  BY DEF IInv, UidsAreOnce, Current
<1>4. u # 0 BY Counts DEF Uids
<1>5. s.rescan => ~s.full BY DEF IInv, AtHand
<1>6. AtHand' BY <1>2, <1>3, <1>4, <1>5 DEF AtHand, Current, Effect, Holding, Present
<1> QED BY <1>2, <1>6

\* A message that is processed is settled, held with its archive, or gets a row.
LEMMA ProcessesDeals ==
  ASSUME IInv, NEW u \in Uids, NEW m \in Msgs, Processes(u, m)
  PROVE  Deals(u) /\ AtHand'
<1>1. /\ TypeOK /\ s.pc = "each" /\ u \in Open /\ s.u \in {0, u} /\ <<u, m>> \in s.got
      /\ UNCHANGED <<validity, uid, uidnext, cp>>
  BY AtTheCandidate DEF Processes, server
<1>2. Current => \A x \in Present : uid[x] = u => x = m BY <1>1 DEF IInv, UidsAreOnce
<1>3. verdict \in [Msgs -> {"none", "refused", "ready"}] BY <1>1 DEF TypeOK
<1>4. CASE verdict[m] = "ready" /\ Goes(Holds(u, m, "map")) /\ UNCHANGED <<verdict, retries, faults>>
  <2>1. Effect(u) /\ rows' = rows /\ verdict'[m] = "ready"
    BY <1>1, <1>4 DEF Effect, retries, Settled
  <2> QED BY <1>1, <1>4, <2>1, ArchivesDeals DEF Goes
<1>5. CASE /\ verdict' = [verdict EXCEPT ![m] = "refused"]
           /\ Goes(Succeeds(u)) /\ UNCHANGED <<retries, faults>>
  <2>1. Effect(u) /\ rows' = rows /\ Settled(m)'
    BY <1>1, <1>3, <1>5 DEF Effect, retries, Settled
  <2> QED BY <1>1, <1>2, <1>5, <2>1, SucceedsDeals DEF Goes
<1>6. CASE /\ verdict' = [verdict EXCEPT ![m] = "ready"]
           /\ Goes(Holds(u, m, "map")) /\ UNCHANGED <<retries, faults>>
  <2>1. Effect(u) /\ rows' = rows /\ verdict'[m] = "ready"
    BY <1>1, <1>3, <1>6 DEF Effect, retries, Settled
  <2> QED BY <1>1, <1>6, <2>1, ArchivesDeals DEF Goes
<1>7. CASE Goes(Holds(u, m, "mappart")) /\ UNCHANGED <<verdict, retries>>
  <2>1. Effect(u) /\ rows' = rows BY <1>1, <1>7 DEF Effect, retries, Settled
  <2> QED BY <1>1, <1>7, <2>1, ArchivesDeals DEF Goes
<1>8. CASE RecordFailure(u) /\ UNCHANGED verdict
  BY <1>1, <1>8, RecordFailureDeals
<1> QED BY <1>4, <1>5, <1>6, <1>7, <1>8 DEF Processes

\* A message is mapped after its archive, which settles it unless it is partial.
LEMMA MapsDeals ==
  ASSUME IInv, Maps
  PROVE  Deals(s.u) /\ AtHand'
<1>1. /\ TypeOK /\ s.pc \in Holding /\ s.u \in Uids /\ s.u \in Open
      /\ UNCHANGED <<validity, uid, uidnext, cp, verdict>>
  BY AtTheCandidate DEF Maps, server, Holding
<1>2. /\ s.m \in Msgs /\ (Current => \A x \in Present : uid[x] = s.u => x = s.m)
      /\ s.pc = "map" => verdict[s.m] = "ready"
      /\ s.rescan => ~s.full
  BY DEF Maps, IInv, AtHand
<1>3. CASE RecordFailure(s.u) BY <1>1, <1>3, RecordFailureDeals
<1>4. CASE UNCHANGED retries /\ s' = Succeeds(s.u) /\ (s.pc = "map" \/ s.rescan)
  <2>1. Effect(s.u) /\ rows' = rows BY <1>1, <1>4 DEF Effect, retries, Settled
  <2>2. s.rescan \/ (Current => \A x \in Present : uid[x] = s.u => Settled(x)')
    BY <1>1, <1>2, <1>4 DEF Settled
  <2> QED BY <1>1, <1>4, <2>1, <2>2, SucceedsDeals
<1>5. CASE UNCHANGED retries /\ s' = Holds(s.u, NoMsg, "fail") /\ ~s.rescan
  <2>1. Effect(s.u) /\ rows' = rows BY <1>1, <1>5 DEF Effect, retries, Settled
  <2>2. "fail" \in Holding BY DEF Holding
  <2>3. /\ Deals(s.u) /\ s'.u = s.u /\ s'.pc = "fail" /\ s'.rescan = s.rescan
    BY <1>1, <1>5, <2>1, <2>2, HoldsDeals
  <2>4. s.u # 0 BY <1>1, Counts DEF Uids
  <2>5. AtHand' BY <1>5, <2>3, <2>4 DEF AtHand, Holding
  <2> QED BY <2>3, <2>5
<1>6. s.pc \in {"map", "mappart"} BY DEF Maps
<1> QED BY <1>3, <1>4, <1>5, <1>6 DEF Maps, Goes

\* A partial archive leaves a row.
LEMMA FailsDeals ==
  ASSUME IInv, Fails
  PROVE  Deals(s.u) /\ AtHand'
  BY AtTheCandidate, RecordFailureDeals DEF Fails, server, facts, Holding

\* The row of a message goes when its verdict is there.
LEMMA ClearsDeals ==
  ASSUME IInv, Clears
  PROVE  Deals(s.u) /\ AtHand'
<1>1. /\ TypeOK /\ s.pc = "clear" /\ s.pc \in Holding /\ s.u \in Uids /\ s.u \in Open
      /\ UNCHANGED <<validity, uid, uidnext, cp, verdict>>
  BY AtTheCandidate DEF Clears, server, facts, Holding
<1>2. CASE RecordFailure(s.u) BY <1>1, <1>2, RecordFailureDeals
<1>3. CASE /\ rows' = [rows EXCEPT ![Key(s.u)] = 0]
           /\ Goes([Passes(s.u) EXCEPT !.top = IF s.u > @ THEN s.u ELSE @])
  <2>1. Passed(s.u)
    <3>1. Passes(s.u) \in Session /\ Passes(s.u).top = s.top BY <1>1, PassesFields
    <3> QED BY <1>1, <1>3, <3>1, PassesFields DEF Session, Passed, Goes
  <2>2. Effect(s.u) BY <1>1, <1>3 DEF Effect, Settled, TypeOK
  <2>3. s.v = validity => \A m \in Present : uid[m] = s.u => Handled(m)'
    BY <1>1 DEF IInv, AtHand, Current, Handled, Settled
  <2> QED BY <1>1, <2>1, <2>2, <2>3, PassedDeals
<1> QED BY <1>2, <1>3 DEF Clears

-----------------------------------------------------------------------------
(* Helpers of the steps to come.                                            *)

\* Fewer messages below a UID do not raise its rank.
LEMMA RankFalls ==
  ASSUME TypeOK, NEW u, NEW S, S \subseteq Between(u), Cardinality(Between(u)) < Cap
  PROVE  Cardinality(S) < Cap
<1>1. Between(u) \subseteq Uids BY ServerTyped DEF Between
<1>2. IsFiniteSet(Between(u)) BY <1>1, Counts, FS_Subset
<1>3. /\ IsFiniteSet(S) /\ Cardinality(S) <= Cardinality(Between(u))
  BY <1>2, FS_Subset
<1>4. Cardinality(S) \in Nat /\ Cardinality(Between(u)) \in Nat
  BY <1>2, <1>3, FS_CardinalityType
<1> QED BY <1>3, <1>4, SyncAssumption

\* What is not mentioned may change.
LEMMA SameKeeps ==
  ASSUME IInv, TypeOK', UNCHANGED <<validity, uid, uidnext, cp, rows, verdict, s>>
  PROVE  IInv'
<1>1. Present' = Present /\ Base' = Base /\ Open' = Open /\ Current' = Current
  BY DEF Present, Base, Open, Current
<1>2. Generations' /\ UidsAreOnce' /\ AtHand'
  BY <1>1 DEF IInv, Generations, UidsAreOnce, AtHand, Settled
<1>3. Ranked => Ranked' BY <1>1 DEF Ranked, Between, ServerUids
<1>4. Covers => Covers' BY <1>1 DEF Covers, Handled, Settled
<1>5. NothingForgotten => NothingForgotten' BY <1>1 DEF NothingForgotten, Settled
<1> QED BY <1>2, <1>3, <1>4, <1>5 DEF IInv

\* Between sessions there is less to know.
LEMMA IdleKeeps ==
  ASSUME IInv, TypeOK', s' = Idle, UNCHANGED <<validity, uid, uidnext, cp, rows, verdict>>
  PROVE  IInv'
<1>1. s'.pc = "idle" /\ s'.u = 0 /\ ~s'.rescan BY DEF Idle
<1>2. Present' = Present /\ Base' = Base /\ ~Current'
  BY <1>1 DEF Present, Base, Current
<1>3. Generations' /\ UidsAreOnce' BY <1>1, <1>2 DEF IInv, Generations, UidsAreOnce
<1>4. AtHand' BY <1>1 DEF AtHand, Holding
<1>5. Ranked => Ranked' BY <1>2 DEF Ranked, Between, ServerUids
<1>6. Covers' BY <1>2 DEF Covers
<1>7. NothingForgotten => NothingForgotten' BY <1>2 DEF NothingForgotten, Settled
<1> QED BY <1>3, <1>4, <1>5, <1>6, <1>7 DEF IInv

-----------------------------------------------------------------------------
(* The server changes.                                                      *)

\* A new message gets a UID above all that any session or row knows.
LEMMA ArrivesKeeps ==
  ASSUME IInv, NEW m \in Msgs, Arrives(m)
  PROVE  IInv'
<1>0. TypeOK /\ Generations /\ UidsAreOnce /\ AtHand BY DEF IInv
<1>1. /\ uid' = [uid EXCEPT ![m] = uidnext] /\ uidnext' = uidnext + 1
      /\ uid[m] = 0 /\ uidnext \in Uids
      /\ validity' = validity /\ cp' = cp /\ rows' = rows /\ verdict' = verdict /\ s' = s
      /\ s.pc \in {"idle", "search", "fetch"}
  BY DEF Arrives, Reads, retries, facts
<1>2. /\ uid \in [Msgs -> 0..(uidnext - 1)] /\ uidnext \in Nat \ {0}
  BY <1>0, Counts DEF TypeOK
<1>3. Present' = Present \cup {m} BY <1>1, <1>2 DEF Present
<1>4. uid'[m] = uidnext /\ \A x \in Present : uid'[x] = uid[x] /\ uid[x] < uidnext /\ x # m
  BY <1>1, <1>2 DEF Present
<1>5. Base' = Base /\ Current' = Current /\ Open' = Open /\ Base < uidnext
  BY <1>0, <1>1 DEF Base, Current, Open, UidsAreOnce
<1>6. TypeOK' BY <1>0, ServerStepTyped
<1>7. Generations' BY <1>0, <1>1 DEF Generations
<1>8. UidsAreOnce'
  <2>1. \A x, y \in Present' : uid'[x] = uid'[y] => x = y
    <3>1. \A x \in Present : uid'[x] # uid'[m] BY <1>2, <1>4
    <3>2. \A x, y \in Present : uid'[x] = uid'[y] => x = y BY <1>0, <1>4 DEF UidsAreOnce
    <3> QED BY <1>3, <3>1, <3>2
  <2>2. Base < uidnext'
    <3>1. Base \in Nat BY <1>0, Counts DEF Base, TypeOK, Uids
    <3> QED BY <1>1, <1>2, <1>5, <3>1
  <2>3. \A u \in Uids : rows[<<validity, u>>] > 0 => u < uidnext'
    BY <1>0, <1>1, <1>2, Counts DEF UidsAreOnce, Uids
  <2>4. ASSUME Current
        PROVE  /\ s.top < uidnext' /\ \A u \in Open : u < uidnext'
               /\ \A x \in s.got : x[1] < uidnext'
    <3>1. /\ s.top < uidnext /\ \A u \in Open : u < uidnext
          /\ \A x \in s.got : x[1] < uidnext
      BY <1>0, <2>4 DEF UidsAreOnce
    <3>2. /\ s.top \in {0} \cup Uids /\ Open \subseteq {0} \cup Uids
          /\ s.got \in SUBSET (Uids \X Msgs)
      BY <1>0 DEF TypeOK, Session, Open
    <3>3. \A u \in {0} \cup Uids : u < uidnext => u < uidnext'
      BY <1>1, <1>2, Counts DEF Uids
    <3> QED BY <3>1, <3>2, <3>3
  <2>5. ASSUME Current, NEW x \in s.got, NEW y \in Present', uid'[y] = x[1]
        PROVE  y = x[2]
    <3>1. x[1] < uidnext BY <1>0, <2>5 DEF UidsAreOnce
    <3>2. y # m BY <1>2, <1>4, <2>5, <3>1
    <3> QED BY <1>0, <1>3, <1>4, <2>5, <3>2 DEF UidsAreOnce
  <2> QED BY <1>1, <1>5, <2>1, <2>2, <2>3, <2>4, <2>5 DEF UidsAreOnce
<1>9. AtHand' BY <1>0, <1>1 DEF AtHand, Holding
<1>10. ASSUME ~Rescanning PROVE Ranked'
  <2>1. SUFFICES ASSUME NEW u \in Uids, Base < u,
                        rows[<<validity, u>>] > 0 \/ (Current /\ u \in Open)
                 PROVE  Cardinality(Between(u)') < Cap
    BY <1>1, <1>5 DEF Ranked
  <2>2. u < uidnext BY <1>0, <2>1 DEF UidsAreOnce
  <2>3. Between(u)' = Between(u)
    BY <1>2, <1>3, <1>4, <1>5, <2>2, Counts DEF Between, ServerUids, Uids
  <2> QED BY <1>10, <2>1, <2>3 DEF IInv, Ranked
<1>11. ASSUME BacklogFits PROVE Covers'
  <2>1. SUFFICES ASSUME Current, ~s.rescan, s.pc \in Covering
                 PROVE  /\ s.last <= s.top
                        /\ \A x \in Present' : s.last < uid'[x] =>
                             \/ Handled(x)'
                             \/ uid'[x] \in Open
                             \/ s.top < uid'[x] /\ \A u \in Open : u < uid'[x]
    BY <1>1, <1>5 DEF Covers
  <2>2. /\ s.last <= s.top
        /\ \A x \in Present : s.last < uid[x] =>
             \/ Handled(x)
             \/ uid[x] \in Open
             \/ s.top < uid[x] /\ \A u \in Open : u < uid[x]
    BY <1>11, <2>1 DEF IInv, Covers
  <2>3. \A x \in Present : Handled(x) => Handled(x)' BY <1>1, <1>4 DEF Handled, Settled
  <2>4. s.top < uidnext /\ \A u \in Open : u < uidnext BY <1>0, <2>1 DEF UidsAreOnce
  <2> QED BY <1>3, <1>4, <2>2, <2>3, <2>4
<1>12. ASSUME BacklogFits PROVE NothingForgotten'
  <2>1. NothingForgotten BY <1>12 DEF IInv
  <2>2. cp.validity = validity => ~(uid'[m] <= cp.last)
    BY <1>0, <1>2, <1>4, <1>5, Counts DEF Base, TypeOK, Uids
  <2> QED BY <1>1, <1>3, <1>4, <2>1, <2>2 DEF NothingForgotten, Settled
<1> QED BY <1>6, <1>7, <1>8, <1>9, <1>10, <1>11, <1>12 DEF IInv

\* A message that goes leaves fewer to care for.
LEMMA ExpungesKeeps ==
  ASSUME IInv, NEW m \in Msgs, Expunges(m)
  PROVE  IInv'
<1>0. TypeOK /\ Generations /\ UidsAreOnce /\ AtHand BY DEF IInv
<1>1. /\ uid' = [uid EXCEPT ![m] = 0] /\ uidnext' = uidnext
      /\ validity' = validity /\ cp' = cp /\ rows' = rows /\ verdict' = verdict /\ s' = s
  BY DEF Expunges, retries, facts
<1>2. uid \in [Msgs -> 0..(uidnext - 1)] BY <1>0 DEF TypeOK
<1>3. Present' \subseteq Present /\ \A x \in Present' : uid'[x] = uid[x]
  BY <1>1, <1>2 DEF Present
<1>4. Base' = Base /\ Current' = Current /\ Open' = Open BY <1>1 DEF Base, Current, Open
<1>5. TypeOK' BY <1>0, ServerStepTyped
<1>6. Generations' BY <1>0, <1>1 DEF Generations
<1>7. UidsAreOnce' BY <1>0, <1>1, <1>3, <1>4 DEF UidsAreOnce
<1>8. AtHand' BY <1>0, <1>1, <1>3, <1>4 DEF AtHand, Settled
<1>9. ASSUME ~Rescanning PROVE Ranked'
  <2>1. SUFFICES ASSUME NEW u \in Uids, Base < u,
                        rows[<<validity, u>>] > 0 \/ (Current /\ u \in Open)
                 PROVE  Cardinality(Between(u)') < Cap
    BY <1>1, <1>4 DEF Ranked
  <2>2. Between(u)' \subseteq Between(u) BY <1>3, <1>4 DEF Between, ServerUids
  <2>3. Cardinality(Between(u)) < Cap BY <1>9, <2>1 DEF IInv, Ranked
  <2> QED BY <1>0, <2>2, <2>3, RankFalls
<1>10. ASSUME BacklogFits PROVE Covers'
  <2>1. Covers BY <1>10 DEF IInv
  <2> QED BY <1>1, <1>3, <1>4, <2>1 DEF Covers, Handled, Settled
<1>11. ASSUME BacklogFits PROVE NothingForgotten'
  <2>1. NothingForgotten BY <1>11 DEF IInv
  <2> QED BY <1>1, <1>3, <2>1 DEF NothingForgotten, Settled
<1> QED BY <1>5, <1>6, <1>7, <1>8, <1>9, <1>10, <1>11 DEF IInv

\* Nothing is known of the UIDs of a new generation.
LEMMA RenumbersKeeps ==
  ASSUME IInv, Renumbers
  PROVE  IInv'
<1>0. TypeOK /\ Generations /\ UidsAreOnce /\ AtHand BY DEF IInv
<1>1. /\ validity' = validity + 1 /\ validity < MaxValidity
      /\ uidnext' = Cardinality(Present) + 1
      /\ \A m \in Msgs : uid'[m] = 0 <=> m \notin Present
      /\ \A m, x \in Present : uid'[m] = uid'[x] => m = x
      /\ cp' = cp /\ rows' = rows /\ verdict' = verdict /\ s' = s
      /\ s.pc \in {"idle", "search", "fetch"}
  BY DEF Renumbers, Reads, retries, facts
<1>2. validity \in Nat \ {0} /\ Cardinality(Present) \in Nat
  BY <1>0, SyncAssumption, Counts DEF TypeOK, Present
<1>3. cp.validity \in Nat /\ cp.validity <= validity /\ (s.pc # "idle" => s.v \in 1..validity)
  BY <1>0, SyncAssumption DEF TypeOK, Generations
<1>4. Base' = 0 /\ ~Current' /\ Present' = Present
  BY <1>1, <1>2, <1>3 DEF Base, Current, Present
<1>5. \A u \in Uids : rows'[<<validity', u>>] = 0
  <2>1. \A u \in Uids : <<validity', u>> \in Keys BY <1>1, <1>2, SyncAssumption DEF Keys
  <2> QED BY <1>0, <1>1, <1>2, <2>1 DEF Generations
<1>6. TypeOK' BY <1>0, ServerStepTyped
<1>7. Generations'
  <2>1. \A k \in Keys : k[1] > validity' => rows'[k] = 0
    BY <1>0, <1>1, <1>2, SyncAssumption DEF Generations, Keys
  <2>2. s.pc # "idle" => cp.validity <= s.v /\ s.v \in 1..validity'
    BY <1>0, <1>1, <1>2 DEF Generations
  <2> QED BY <1>0, <1>1, <1>2, <1>3, <2>1, <2>2 DEF Generations
<1>8. UidsAreOnce' BY <1>1, <1>2, <1>4, <1>5 DEF UidsAreOnce
<1>9. AtHand' BY <1>0, <1>1 DEF AtHand, Holding
<1>10. Ranked' BY <1>4, <1>5 DEF Ranked
<1>11. Covers' BY <1>4 DEF Covers
<1>12. NothingForgotten' BY <1>1, <1>2, <1>3 DEF NothingForgotten
<1> QED BY <1>6, <1>7, <1>8, <1>9, <1>10, <1>11, <1>12 DEF IInv

\* The time of a retry says nothing of what is handled.
LEMMA BecomesDueKeeps ==
  ASSUME IInv, NEW k \in Keys, BecomesDue(k)
  PROVE  IInv'
<1>1. UNCHANGED <<validity, uid, uidnext, cp, rows, verdict, s>>
  BY DEF BecomesDue, server, facts
<1>2. TypeOK' BY ServerStepTyped DEF IInv
<1> QED BY <1>1, <1>2, SameKeeps

-----------------------------------------------------------------------------
(* A session begins, retires, searches, fetches, and ends.                  *)

\* A session begins at the checkpoint, with nothing taken.
LEMMA SelectsKeeps ==
  ASSUME IInv, Selects, TypeOK'
  PROVE  IInv'
<1>0. TypeOK /\ Generations /\ UidsAreOnce /\ AtHand BY DEF IInv
<1>1. /\ UNCHANGED <<validity, uid, uidnext, cp, rows, verdict>>
      /\ s'.pc = IF Changed(validity) THEN "retire" ELSE "search"
      /\ s'.v = validity /\ s'.last = IF Changed(validity) THEN 0 ELSE cp.last
      /\ s'.top = s'.last /\ s'.u = 0 /\ s'.todo = {} /\ s'.got = {} /\ ~s'.rescan
  BY DEF Selects, Goes, Idle, server, retries, facts
<1>2. /\ Present' = Present /\ ServerUids' = ServerUids /\ Base' = Base /\ Open' = {0}
      /\ s'.pc \in {"retire", "search"}
  BY <1>1 DEF Present, ServerUids, Base, Open
<1>3. validity \in Nat \ {0} /\ cp.validity \in Nat /\ cp.last \in Nat /\ uidnext \in Nat \ {0}
  BY <1>0, SyncAssumption, Counts DEF TypeOK, Uids
<1>4. s'.last = Base BY <1>0, <1>1, <1>3 DEF Changed, Base, Generations
<1>5. Generations' BY <1>0, <1>1, <1>2, <1>3, <1>4 DEF Generations, Base
<1>6. UidsAreOnce' BY <1>0, <1>1, <1>2, <1>3, <1>4 DEF UidsAreOnce
<1>7. AtHand' BY <1>1, <1>2 DEF AtHand, Holding
<1>8. ASSUME ~Rescanning PROVE Ranked'
  <2>1. Ranked BY <1>8 DEF IInv
  <2>2. \A u \in Uids : u # 0 BY Counts DEF Uids
  <2> QED BY <1>1, <1>2, <2>1, <2>2 DEF Ranked, Between
<1>9. Covers' BY <1>2 DEF Covers, Covering, Holding
<1>10. NothingForgotten => NothingForgotten'
  BY <1>1, <1>2 DEF NothingForgotten, Settled
<1> QED BY <1>5, <1>6, <1>7, <1>8, <1>9, <1>10 DEF IInv

\* A rescan begins with UIDs the server has.
LEMMA RescansKeeps ==
  ASSUME IInv, Rescans, TypeOK'
  PROVE  IInv'
<1>0. TypeOK /\ Generations /\ UidsAreOnce /\ AtHand BY DEF IInv
<1>1. /\ UNCHANGED <<validity, uid, uidnext, cp, rows, verdict>> /\ Rescanning
      /\ s'.pc = "fetch" /\ s'.v = validity /\ s'.top = 0 /\ s'.u = 0
      /\ s'.todo \subseteq ServerUids /\ s'.got = {} /\ s'.rescan /\ ~s'.full
  BY DEF Rescans, Goes, Idle, server, retries, facts
<1>2. Present' = Present /\ Base' = Base BY <1>1 DEF Present, Base
<1>3. validity \in Nat \ {0} /\ cp.validity \in Nat /\ uidnext \in Nat \ {0}
  BY <1>0, SyncAssumption, Counts DEF TypeOK
<1>4. Generations' BY <1>0, <1>1, <1>3 DEF Generations
<1>5. UidsAreOnce'
  <2>1. \A u \in ServerUids : u < uidnext
    BY <1>0, <1>3 DEF ServerUids, Present, TypeOK
  <2>2. \A u \in Open' : u < uidnext' BY <1>1, <1>3, <2>1 DEF Open
  <2> QED BY <1>0, <1>1, <1>2, <1>3, <2>2 DEF UidsAreOnce
<1>6. AtHand' BY <1>1 DEF AtHand, Holding
<1>7. Covers' BY <1>1 DEF Covers
<1>8. NothingForgotten => NothingForgotten'
  BY <1>1, <1>2 DEF NothingForgotten, Settled
<1> QED BY <1>1, <1>4, <1>5, <1>6, <1>7, <1>8 DEF IInv

\* The rows retired are of generations that are gone, or nothing relies on them yet.
LEMMA RetiresKeeps ==
  ASSUME IInv, Retires, TypeOK'
  PROVE  IInv'
<1>0. TypeOK /\ Generations /\ UidsAreOnce /\ AtHand BY DEF IInv
<1>1. /\ UNCHANGED <<validity, uid, uidnext, cp, verdict>>
      /\ rows' = [k \in Keys |-> IF k[1] = s.v THEN rows[k] ELSE 0]
      /\ s.pc = "retire" /\ s'.pc = "search" /\ s'.v = s.v /\ s'.last = s.last
      /\ s'.top = s.top /\ s'.u = s.u /\ s'.todo = s.todo /\ s'.got = s.got
      /\ s'.rescan = s.rescan /\ s'.full = s.full
  BY DEF Retires, Goes, At, server, facts, TypeOK, Session, IInv
<1>2. /\ Present' = Present /\ ServerUids' = ServerUids /\ Base' = Base
      /\ Open' = Open /\ Current' = Current
  BY <1>1 DEF Present, ServerUids, Base, Open, Current
<1>3. \A k \in Keys : rows'[k] = rows[k] \/ (rows'[k] = 0 /\ k[1] # s.v) BY <1>1
<1>4. \A u \in Uids : <<validity, u>> \in Keys BY <1>0 DEF Keys, TypeOK
<1>5. \A u \in Uids : \/ rows'[<<validity, u>>] = rows[<<validity, u>>]
                      \/ rows'[<<validity, u>>] = 0 /\ validity # s.v
  BY <1>3, <1>4
<1>6. Generations' BY <1>0, <1>1, <1>3 DEF Generations
<1>7. UidsAreOnce' BY <1>0, <1>1, <1>2, <1>5 DEF UidsAreOnce
<1>8. AtHand' BY <1>0, <1>1 DEF AtHand, Holding
<1>9. Ranked => Ranked' BY <1>1, <1>2, <1>5 DEF Ranked, Between
<1>10. Covers' BY <1>1 DEF Covers, Covering, Holding
<1>11. ASSUME NothingForgotten PROVE NothingForgotten'
  <2>1. cp.validity = validity => s.v = validity
    <3>1. cp.validity <= s.v /\ s.v \in 1..validity BY <1>0, <1>1 DEF Generations
    <3>2. validity \in Nat BY <1>0, SyncAssumption DEF TypeOK
    <3> QED BY <3>1, <3>2
  <2>2. \A m \in Present : uid[m] \in Uids BY <1>0, ServerTyped DEF ServerUids
  <2> QED BY <1>1, <1>2, <1>5, <1>11, <2>1, <2>2 DEF NothingForgotten, Settled
<1> QED BY <1>6, <1>7, <1>8, <1>9, <1>10, <1>11 DEF IInv

\* A fetch brings each candidate its own message.
LEMMA FetchesKeeps ==
  ASSUME IInv, Fetches, TypeOK'
  PROVE  IInv'
<1>0. TypeOK /\ Generations /\ UidsAreOnce /\ AtHand BY DEF IInv
<1>1. PICK got \in SUBSET (s.todo \X Msgs) :
        /\ s' = [s EXCEPT !.pc = "each", !.got = got]
        /\ \A x \in got : validity = s.v /\ uid[x[2]] = x[1]
  BY FetchesSome
<1>2. /\ UNCHANGED <<validity, uid, uidnext, cp, rows, verdict>>
      /\ s.pc = "fetch" /\ s'.pc = "each" /\ s'.v = s.v /\ s'.last = s.last
      /\ s'.top = s.top /\ s'.u = s.u /\ s'.todo = s.todo /\ s'.got = got
      /\ s'.rescan = s.rescan /\ s'.full = s.full
  BY <1>0, <1>1 DEF Fetches, server, retries, facts, TypeOK, Session
<1>3. /\ Present' = Present /\ ServerUids' = ServerUids /\ Base' = Base
      /\ Open' = Open /\ Current' = Current
  BY <1>2 DEF Present, ServerUids, Base, Open, Current
<1>4. Generations' BY <1>0, <1>2 DEF Generations
<1>5. UidsAreOnce'
  <2>1. Current => \A x \in got : x[1] < uidnext
    BY <1>0 DEF UidsAreOnce, Open
  <2>2. ASSUME NEW x \in got, NEW m \in Present, uid[m] = x[1]
        PROVE  m = x[2]
    <3>1. x[2] \in Msgs /\ uid[x[2]] = uid[m] BY <1>1, <2>2
    <3>2. x[2] \in Present BY <3>1 DEF Present
    <3> QED BY <1>0, <3>1, <3>2 DEF UidsAreOnce
  <2> QED BY <1>0, <1>2, <1>3, <2>1, <2>2 DEF UidsAreOnce
<1>6. AtHand' BY <1>0, <1>2 DEF AtHand, Holding
<1>7. Ranked => Ranked' BY <1>2, <1>3 DEF Ranked, Between
<1>8. Covers => Covers' BY <1>2, <1>3 DEF Covers, Covering, Handled, Settled
<1>9. NothingForgotten => NothingForgotten'
  BY <1>2, <1>3 DEF NothingForgotten, Settled
<1> QED BY <1>4, <1>5, <1>6, <1>7, <1>8, <1>9 DEF IInv

\* The membership snapshot has no part in what is handled.
LEMMA SnapshotsKeeps ==
  ASSUME IInv, Snapshots, TypeOK'
  PROVE  IInv'
<1>0. TypeOK /\ Generations /\ UidsAreOnce /\ AtHand BY DEF IInv
<1>1. /\ UNCHANGED <<validity, uid, uidnext, cp, rows, verdict>>
      /\ s.pc = "each" /\ s.todo = {} /\ s.full /\ s'.pc = "finish"
      /\ s'.v = s.v /\ s'.last = s.last
      /\ s'.top = s.top /\ s'.u = s.u /\ s'.todo = s.todo /\ s'.got = s.got
      /\ s'.rescan = s.rescan /\ s'.full = s.full
  BY <1>0 DEF Snapshots, Goes, At, server, retries, TypeOK, Session
<1>2. /\ Present' = Present /\ ServerUids' = ServerUids /\ Base' = Base
      /\ Open' = Open /\ Current' = Current
  BY <1>1 DEF Present, ServerUids, Base, Open, Current
<1>3. Generations' BY <1>0, <1>1 DEF Generations
<1>4. UidsAreOnce' BY <1>0, <1>1, <1>2 DEF UidsAreOnce
<1>5. AtHand' BY <1>0, <1>1 DEF AtHand, Holding
<1>6. Ranked => Ranked' BY <1>1, <1>2 DEF Ranked, Between
<1>7. Covers => Covers' BY <1>1, <1>2 DEF Covers, Covering, Handled, Settled
<1>8. NothingForgotten => NothingForgotten'
  BY <1>1, <1>2 DEF NothingForgotten, Settled
<1> QED BY <1>3, <1>4, <1>5, <1>6, <1>7, <1>8 DEF IInv

\* Without rescans, fewer new messages than the limit lie below what a search takes.
LEMMA CandidatesRanked ==
  ASSUME IInv, s.pc = "search", validity = s.v, ~Rescanning, NEW R \in Batches,
         NEW t \in Candidates(ServerUids, R), s.last < t
  PROVE  Cardinality({w \in ServerUids : s.last < w /\ w < t}) < Cap
<1>0. TypeOK /\ Generations /\ AtHand /\ Ranked BY DEF IInv
<1>1. s.last = Base BY <1>0 DEF Generations, AtHand, Base
<1>2. {w \in ServerUids : s.last < w /\ w < t} = Between(t) BY <1>1 DEF Between
<1>3. \A u \in {0} \cup Uids : u \in Nat BY Counts DEF Uids
<1>4. s.last \in Nat /\ ServerUids \subseteq Uids
  BY <1>0, <1>3, ServerTyped DEF TypeOK, Session
<1>5. CASE t \in Lowest({u \in ServerUids : u > s.last}, Cap)
  <2>1. Cardinality({w \in {u \in ServerUids : u > s.last} : w < t}) < Cap BY <1>5 DEF Lowest
  <2>2. {w \in {u \in ServerUids : u > s.last} : w < t} = {w \in ServerUids : s.last < w /\ w < t}
    BY <1>3, <1>4
  <2> QED BY <2>1, <2>2
<1>6. CASE t \in {k[2] : k \in {x \in R : x[1] = s.v}}
  <2>1. PICK k \in due : k[1] = s.v /\ t = k[2] BY <1>6 DEF Batches
  <2>2. k \in Keys /\ rows[k] > 0 BY <1>0 DEF TypeOK
  <2>3. t \in Uids /\ rows[<<validity, t>>] > 0 BY <2>1, <2>2 DEF Keys
  <2> QED BY <1>0, <1>1, <1>2, <2>3 DEF Ranked
<1>7. CASE t \in {u \in ServerUids : u <= s.last /\ u + Overlap > s.last}
  <2>1. t <= s.last /\ t \in Uids BY <1>4, <1>7
  <2>2. t \in Nat BY <1>3, <2>1
  <2> QED BY <1>4, <2>1, <2>2
<1> QED BY <1>5, <1>6, <1>7 DEF Candidates

\* A new message below one that the search takes is taken as well.
LEMMA CandidatesAreLowest ==
  ASSUME IInv, s.pc = "search", validity = s.v, BacklogFits, NEW R \in Batches,
         NEW t \in Candidates(ServerUids, R), NEW n \in ServerUids, s.last < n, n < t
  PROVE  n \in Candidates(ServerUids, R)
<1> DEFINE new == {u \in ServerUids : u > s.last}
           below == {w \in new : w < n}
<1>0. TypeOK BY DEF IInv
<1>1. \A u \in {0} \cup Uids : u \in Nat BY Counts DEF Uids
<1>2. /\ s.last \in {0} \cup Uids /\ ServerUids \subseteq Uids
      /\ Candidates(ServerUids, R) \subseteq Uids
  BY <1>0, ServerTyped DEF TypeOK, Session, Candidates, Lowest, Batches, Keys
<1>3. s.last \in Nat /\ n \in Nat /\ t \in Nat BY <1>1, <1>2
<1>4. n \in new BY <1>3
<1>5. ASSUME NEW w \in below
      PROVE  w \in ServerUids /\ w \in Uids /\ w # n /\ s.last < w /\ w < t
  <2>1. w \in Uids /\ w > s.last /\ w < n /\ w \in ServerUids BY <1>2
  <2>2. w \in Nat BY <1>1, <2>1
  <2> QED BY <1>3, <2>1, <2>2
<1>6. Cardinality(below) < Cap
  <2>1. CASE ~Rescanning
    <3> DEFINE between == {w \in ServerUids : s.last < w /\ w < t}
    <3>1. Cardinality(between) < Cap BY <1>3, <2>1, CandidatesRanked
    <3>2. below \subseteq between BY <1>5
    <3>3. IsFiniteSet(between) BY <1>2, Counts, FS_Subset
    <3>4. IsFiniteSet(below) /\ Cardinality(below) <= Cardinality(between)
      BY <3>2, <3>3, FS_Subset
    <3>5. Cardinality(below) \in Nat /\ Cardinality(between) \in Nat
      BY <3>3, <3>4, FS_CardinalityType
    <3> HIDE DEF below, between
    <3> QED BY <3>1, <3>4, <3>5, SyncAssumption
  <2>2. CASE Cardinality(Msgs) <= Cap
    <3>1. n \in Uids /\ below \subseteq Uids \ {n} BY <1>2, <1>5
    <3>2. Cardinality(Uids) = Cardinality(Msgs) BY Counts, FS_Interval DEF Uids
    <3>3. IsFiniteSet(Uids \ {n}) /\ Cardinality(Uids \ {n}) = Cardinality(Msgs) - 1
      BY <3>1, <3>2, Counts, FS_RemoveElement
    <3>4. IsFiniteSet(below) /\ Cardinality(below) <= Cardinality(Uids \ {n})
      BY <3>1, <3>3, FS_Subset
    <3>5. Cardinality(below) \in Nat BY <3>4, FS_CardinalityType
    <3> HIDE DEF below
    <3> QED BY <2>2, <3>3, <3>4, <3>5, Counts, SyncAssumption
  <2> QED BY <2>1, <2>2 DEF BacklogFits
<1>7. n \in Lowest(new, Cap) BY <1>4, <1>6 DEF Lowest
<1> QED BY <1>7 DEF Candidates

\* A search takes the lowest new UIDs, so that those it leaves lie above.
LEMMA SearchesKeeps ==
  ASSUME IInv, NEW full \in BOOLEAN, Searches(full), TypeOK'
  PROVE  IInv'
<1>0. TypeOK /\ Generations /\ UidsAreOnce /\ AtHand BY DEF IInv
<1>1. PICK R \in Batches :
        s' = [At("fetch") EXCEPT !.full = full, !.found = IF full THEN ServerUids ELSE {},
                !.new = {u \in ServerUids : u > s.last}, !.todo = Candidates(ServerUids, R)]
  BY DEF Searches, Goes
<1> DEFINE T == Candidates(ServerUids, R)
<1>2. /\ UNCHANGED <<validity, uid, uidnext, cp, rows, verdict>>
      /\ s.pc = "search" /\ validity = s.v
  BY DEF Searches, server, retries, facts
<1>3. /\ s'.pc = "fetch" /\ s'.v = s.v /\ s'.last = s.last /\ s'.top = s.top
      /\ s'.u = s.u /\ s'.todo = T /\ s'.got = s.got /\ s'.rescan = s.rescan
  BY <1>0, <1>1 DEF At, TypeOK, Session
<1>4. /\ s.u = 0 /\ s.top = s.last /\ ~s.rescan /\ s.last = Base /\ Current
  BY <1>0, <1>2 DEF AtHand, Holding, Generations, Base, Current
<1>5. /\ Present' = Present /\ ServerUids' = ServerUids /\ Base' = Base
      /\ Open' = T \cup {0} /\ Current'
  BY <1>2, <1>3, <1>4 DEF Present, ServerUids, Base, Open, Current
<1>6. \A u \in {0} \cup Uids : u \in Nat BY Counts DEF Uids
<1>7. /\ s.last \in {0} \cup Uids /\ ServerUids \subseteq Uids /\ T \subseteq Uids
  BY <1>0, ServerTyped DEF TypeOK, Session, Candidates, Lowest, Batches, Keys
<1>8. uidnext \in Nat \ {0} BY <1>0, Counts DEF TypeOK
<1>9. Generations' BY <1>0, <1>2, <1>3, <1>4 DEF Generations
<1>10. UidsAreOnce'
  <2>1. \A u \in ServerUids : u < uidnext
    BY <1>0, <1>8 DEF ServerUids, Present, TypeOK
  <2>2. ASSUME NEW k \in R, k[1] = s.v PROVE k[2] < uidnext
    <3>1. k \in Keys /\ rows[k] > 0 BY <1>0, <2>2 DEF TypeOK, Batches
    <3>2. k[2] \in Uids /\ rows[<<validity, k[2]>>] > 0 BY <1>2, <2>2, <3>1 DEF Keys
    <3> QED BY <1>0, <3>2 DEF UidsAreOnce
  <2>3. \A u \in T : u < uidnext BY <2>1, <2>2 DEF Candidates, Lowest
  <2> HIDE DEF T
  <2> QED BY <1>0, <1>2, <1>3, <1>4, <1>5, <1>8, <2>3 DEF UidsAreOnce
<1>11. AtHand' BY <1>0, <1>3, <1>4 DEF AtHand, Holding
<1>12. ASSUME ~Rescanning PROVE Ranked'
  <2>1. SUFFICES ASSUME NEW u \in Uids, Base < u, rows[<<validity, u>>] > 0 \/ u \in T \cup {0}
                 PROVE  Cardinality(Between(u)) < Cap
    BY <1>2, <1>5 DEF Ranked, Between
  <2>2. CASE rows[<<validity, u>>] > 0 BY <1>12, <2>1, <2>2 DEF IInv, Ranked
  <2>3. CASE u \in T
    <3>1. Cardinality({w \in ServerUids : s.last < w /\ w < u}) < Cap
      BY <1>2, <1>4, <1>12, <2>1, <2>3, CandidatesRanked
    <3> QED BY <1>4, <3>1 DEF Between
  <2>4. u # 0 BY Counts DEF Uids
  <2> QED BY <2>1, <2>2, <2>3, <2>4
<1>13. ASSUME BacklogFits PROVE Covers'
  <2>0. s.last \in Nat /\ s.top \in Nat BY <1>4, <1>6, <1>7
  <2>1. s.last <= s.top BY <1>4, <2>0
  <2>2. ASSUME NEW m \in Present, s.last < uid[m], uid[m] \notin T
        PROVE  s.top < uid[m] /\ \A u \in T \cup {0} : u < uid[m]
    <3>1. uid[m] \in ServerUids /\ uid[m] \in Nat BY <1>6, <1>7 DEF ServerUids
    <3>2. ASSUME NEW u \in T PROVE u < uid[m]
      <4>1. u \in Nat /\ u # uid[m] BY <1>6, <1>7, <2>2, <3>2
      <4>2. ~(uid[m] < u) BY <1>2, <1>13, <2>2, <3>1, <3>2, CandidatesAreLowest
      <4> QED BY <3>1, <4>1, <4>2
    <3>3. 0 < uid[m] BY <2>0, <2>2, <3>1
    <3> QED BY <1>4, <2>2, <3>2, <3>3
  <2> HIDE DEF T
  <2> QED BY <1>2, <1>3, <1>5, <2>1, <2>2 DEF Covers
<1>14. NothingForgotten => NothingForgotten'
  BY <1>2, <1>5 DEF NothingForgotten, Settled
<1> QED BY <1>9, <1>10, <1>11, <1>12, <1>13, <1>14 DEF IInv

\* The checkpoint passes over what has been handled, and over nothing else.
LEMMA FinishesKeeps ==
  ASSUME IInv, Finishes, TypeOK'
  PROVE  IInv'
<1>0. TypeOK /\ Generations /\ UidsAreOnce /\ AtHand BY DEF IInv
<1>1. /\ UNCHANGED <<validity, uid, uidnext, rows, verdict>>
      /\ s.pc \in {"each", "finish"} /\ s.todo = {} /\ ~s.rescan /\ s' = Idle
      /\ cp'.validity = s.v /\ cp'.last = s.top
  BY <1>0 DEF Finishes, Goes, server, retries, facts, AtHand
<1>2. s.u = 0 /\ Open = {0} BY <1>0, <1>1 DEF AtHand, Holding, Open
<1>3. s'.pc = "idle" /\ s'.u = 0 /\ ~s'.rescan BY <1>1 DEF Idle
<1>4. Present' = Present /\ ServerUids' = ServerUids /\ ~Current'
  BY <1>1, <1>3 DEF Present, ServerUids, Current
<1>5. \A u \in {0} \cup Uids : u \in Nat BY Counts DEF Uids
<1>6. /\ s.top \in Nat /\ s.last \in Nat /\ cp.last \in Nat
      /\ validity \in Nat /\ cp.validity \in Nat
      /\ s.v \in 1..validity /\ cp.validity <= s.v
  <2>1. /\ s.top \in {0} \cup Uids /\ s.last \in {0} \cup Uids /\ cp.last \in {0} \cup Uids
        /\ validity \in 1..MaxValidity /\ cp.validity \in 0..MaxValidity
    BY <1>0 DEF TypeOK, Session
  <2>2. s.v \in 1..validity /\ cp.validity <= s.v BY <1>0, <1>1 DEF Generations
  <2>3. validity \in Nat /\ cp.validity \in Nat BY <2>1, SyncAssumption
  <2>4. s.top \in Nat /\ s.last \in Nat /\ cp.last \in Nat BY <1>5, <2>1
  <2> QED BY <2>2, <2>3, <2>4
<1>7. s.v = validity => s.last = Base BY <1>0, <1>1 DEF Generations, Base
<1>8. s.v # validity => Base = 0 /\ Base' = 0 BY <1>1, <1>6 DEF Base
<1>9. s.v = validity => Base' = s.top BY <1>1 DEF Base
<1>10. Generations' BY <1>0, <1>1, <1>3, <1>6 DEF Generations
<1>11. UidsAreOnce'
  <2>1. Base' < uidnext
    <3>1. s.v = validity => s.top < uidnext BY <1>0, <1>1 DEF UidsAreOnce, Current
    <3> QED BY <1>0, <1>8, <1>9, <3>1, Counts DEF TypeOK
  <2> QED BY <1>0, <1>1, <1>4, <2>1 DEF UidsAreOnce
<1>12. AtHand' BY <1>3 DEF AtHand, Holding
<1>13. BacklogFits /\ s.v = validity => s.last <= s.top
  BY <1>1 DEF IInv, Covers, Current, Covering
<1>14. ASSUME ~Rescanning PROVE Ranked'
  <2>1. Base <= Base' BY <1>6, <1>7, <1>8, <1>9, <1>13, <1>14 DEF BacklogFits
  <2>2. Base \in Nat /\ Base' \in Nat BY <1>6, <1>7, <1>8, <1>9
  <2>3. SUFFICES ASSUME NEW u \in Uids, Base' < u, rows[<<validity, u>>] > 0
                 PROVE  Cardinality(Between(u)') < Cap
    BY <1>1, <1>4 DEF Ranked
  <2>4. Base < u
    <3>1. u \in Nat BY <1>5
    <3> QED BY <2>1, <2>2, <2>3, <3>1
  <2>5. Cardinality(Between(u)) < Cap BY <1>14, <2>3, <2>4 DEF IInv, Ranked
  <2>6. ServerUids \subseteq Uids BY <1>0, ServerTyped
  <2>7. Between(u)' \subseteq Between(u)
    <3>1. \A w \in ServerUids : w \in Nat BY <1>5, <2>6
    <3> QED BY <1>4, <2>1, <2>2, <3>1 DEF Between
  <2> QED BY <1>0, <2>5, <2>7, RankFalls
<1>15. Covers' BY <1>4 DEF Covers
<1>16. ASSUME BacklogFits PROVE NothingForgotten'
  <2>1. SUFFICES ASSUME s.v = validity, NEW m \in Present, uid[m] <= s.top
                 PROVE  Settled(m) \/ rows[<<validity, uid[m]>>] > 0
    BY <1>1, <1>4 DEF NothingForgotten, Settled
  <2>2. uid[m] \in Nat \ {0}
    <3>1. uid[m] \in Uids BY <1>0, ServerTyped DEF ServerUids
    <3> QED BY <1>5, <3>1 DEF Present
  <2>3. CASE s.last < uid[m]
    <3>1. Handled(m) \/ uid[m] \in Open \/ s.top < uid[m]
      BY <1>1, <1>16, <2>1, <2>3 DEF IInv, Covers, Current, Covering
    <3> QED BY <1>2, <1>6, <2>1, <2>2, <3>1 DEF Handled
  <2>4. CASE uid[m] <= s.last
    <3>1. cp.validity = validity /\ uid[m] <= cp.last
      BY <1>6, <1>7, <2>1, <2>2, <2>4 DEF Base
    <3> QED BY <1>16, <3>1 DEF IInv, NothingForgotten
  <2> QED BY <1>6, <2>2, <2>3, <2>4
<1> QED BY <1>10, <1>11, <1>12, <1>14, <1>15, <1>16 DEF IInv

-----------------------------------------------------------------------------
(* The theorems.                                                            *)

\* The invariant holds of the first state.
LEMMA InitIInv == Init => IInv
<1> SUFFICES ASSUME Init PROVE IInv OBVIOUS
<1>1. TypeOK BY InitTyped
<1>2. /\ s.pc = "idle" /\ s.u = 0 /\ ~s.rescan /\ ~Current
      /\ Present = {} /\ Base = 0 /\ uidnext = 1
      /\ cp.validity = 0 /\ cp.last = 0 /\ validity = 1
      /\ \A k \in Keys : rows[k] = 0
  BY DEF Init, Idle, Current, Present, Base
<1>3. \A u \in Uids : rows[<<validity, u>>] = 0
  BY <1>1, <1>2 DEF Keys, TypeOK
<1>4. Generations BY <1>2 DEF Generations
<1>5. UidsAreOnce BY <1>2, <1>3 DEF UidsAreOnce
<1>6. AtHand BY <1>2 DEF AtHand, Holding
<1>7. Ranked BY <1>2, <1>3 DEF Ranked
<1>8. Covers /\ NothingForgotten BY <1>2 DEF Covers, NothingForgotten
<1> QED BY <1>1, <1>4, <1>5, <1>6, <1>7, <1>8 DEF IInv

\* Every step keeps the invariant.
LEMMA NextIInv == IInv /\ [Next]_vars => IInv'
<1> SUFFICES ASSUME IInv, [Next]_vars PROVE IInv' OBVIOUS
<1>0. TypeOK /\ Generations /\ AtHand BY DEF IInv
<1>1. ASSUME NEW m \in Msgs, Arrives(m) \/ Expunges(m) PROVE IInv'
  BY <1>1, ArrivesKeeps, ExpungesKeeps
<1>2. CASE Renumbers BY <1>2, RenumbersKeeps
<1>3. ASSUME NEW k \in Keys, BecomesDue(k) PROVE IInv' BY <1>3, BecomesDueKeeps
<1>4. CASE Selects BY <1>0, <1>4, SelectsKeeps, SessionStepTyped
<1>5. CASE Rescans BY <1>0, <1>5, RescansKeeps, SessionStepTyped
<1>6. CASE SessionStep
  <2>0. TypeOK' BY <1>0, <1>6, SessionStepTyped
  <2>1. CASE Retires BY <2>0, <2>1, RetiresKeeps
  <2>2. ASSUME NEW full \in BOOLEAN, Searches(full) PROVE IInv' BY <2>0, <2>2, SearchesKeeps
  <2>3. CASE Refused
    BY <2>0, <2>3, IdleKeeps DEF Refused, Goes, server, retries, facts
  <2>4. CASE Fetches BY <2>0, <2>4, FetchesKeeps
  <2>5. ASSUME NEW u, Deals(u), AtHand' PROVE IInv'
    BY <2>0, <2>5, DealsKeeps DEF IInv
  <2>6. ASSUME NEW u \in Uids,
               Defers(u) \/ FindsNothing(u) \/ \E m \in Msgs : Processes(u, m)
        PROVE  IInv'
    BY <2>5, <2>6, DefersDeals, FindsNothingDeals, ProcessesDeals
  <2>7. CASE Maps BY <2>5, <2>7, MapsDeals
  <2>8. CASE Fails BY <2>5, <2>8, FailsDeals
  <2>9. CASE Clears BY <2>5, <2>9, ClearsDeals
  <2>10. CASE Snapshots BY <2>0, <2>10, SnapshotsKeeps
  <2>11. CASE Finishes BY <2>0, <2>11, FinishesKeeps
  <2>12. CASE RescanEnds
    BY <2>0, <2>12, IdleKeeps DEF RescanEnds, Goes, server, retries, facts
  <2> QED BY <1>6, <2>1, <2>2, <2>3, <2>4, <2>6, <2>7, <2>8, <2>9, <2>10, <2>11, <2>12
          DEF SessionStep
<1>7. CASE Breaks
  BY <1>0, <1>7, IdleKeeps, SessionStepTyped DEF Breaks, Goes, server, retries
<1>8. CASE UNCHANGED vars
  <2>1. UNCHANGED <<validity, uid, uidnext, cp, rows, due, verdict, member, cut, s, faults>>
    BY <1>8 DEF vars, server, retries, facts
  <2>2. TypeOK' BY <1>0, <2>1 DEF TypeOK
  <2> QED BY <2>1, <2>2, SameKeeps
<1> QED BY <1>1, <1>2, <1>3, <1>4, <1>5, <1>6, <1>7, <1>8 DEF Next

\* What the invariant says of every state the program reaches.
THEOREM Invariant == Spec => []IInv
  BY InitIInv, NextIInv, PTL DEF Spec

\* The variables stay within their types (the checkpoint, the rows and the session
\* with what _sync_imap_mailbox reads and writes).
THEOREM TypeCorrect == Spec => []TypeOK
<1>1. IInv => TypeOK BY DEF IInv
<1> QED BY <1>1, Invariant, PTL

\* The checkpoint of finish_mailbox_attempt passes over no message that is neither
\* archived, nor refused, nor remembered by a row, when the user imports no history or
\* the mailbox never has more messages than a session takes.
THEOREM NothingIsForgotten == Spec => [](BacklogFits => NothingForgotten)
<1>1. IInv => (BacklogFits => NothingForgotten) BY DEF IInv
<1> QED BY <1>1, Invariant, PTL

-----------------------------------------------------------------------------
(* The reconciliation after a change of UIDVALIDITY.  What may still be owed *)
(* is an archived message that is not a member under the UID it has now: it  *)
(* must be about to be mapped, remembered by a row, or fetched again because *)
(* it lies within the overlap.  What a rescan has cut is not owed.           *)

Owed(m) == verdict[m] = "ready" /\ ~Member(m) /\ m \notin cut

Row(u) == rows[<<validity, u>>] > 0

\* What was fetched stays on the server until the session has dealt with it.
FetchedIsThere ==
  /\ s.pc \in {"idle", "retire", "search", "fetch"} => s.got = {}
  /\ s.got # {} \/ s.pc \in {"map", "mappart"} => s.v = validity
  /\ Current => \A x \in s.got : uid[x[2]] = x[1]
  /\ s.pc \in {"map", "mappart"} => uid[s.m] = s.u

\* No message is a member under a UID that was not given out.
MembersAreOld ==
  \A m \in Msgs :
    /\ member[m].validity <= validity
    /\ member[m].validity = validity => member[m].uid < uidnext

\* The row of a message goes only when its membership is there.
ClearedIsMember ==
  s.pc = "clear" /\ Current => \A m \in Present : uid[m] = s.u => ~Owed(m)

\* A full snapshot has each member, and each message the session deals with.
SnapshotHasMembers ==
  Current /\ s.full /\ s.pc \in Covering =>
    \A m \in Present : uid[m] \in s.found \/ (uid[m] \notin Open /\ ~Member(m))

\* A candidate below the checkpoint has a row or lies within the overlap.
OldOnesAreDue ==
  Current /\ ~s.rescan /\ s.pc \in Covering =>
    \A u \in Open : u # 0 /\ u <= s.last => Row(u) \/ u + Overlap > s.last

\* In a synchronisation, what is owed has a row, is a candidate, or lies above all of them.
OwedIsAhead ==
  Current /\ ~s.rescan /\ s.pc \in Covering =>
    \A m \in Present : Owed(m) =>
      \/ Row(uid[m])
      \/ uid[m] \in Open
      \/ s.last < uid[m] /\ s.top < uid[m] /\ \A u \in Open : u < uid[m]

AtHandByRescan(m) == s.rescan /\ s.pc = "map" /\ m = s.m

\* What is owed below the checkpoint will be fetched again, or a rescan is at it.
OwedIsKnown ==
  cp.validity = validity =>
    \A m \in Present :
      uid[m] <= cp.last /\ Owed(m) =>
        Row(uid[m]) \/ uid[m] + Overlap > cp.last \/ AtHandByRescan(m)

\* What is known of memberships.
MInv ==
  /\ FetchedIsThere /\ MembersAreOld /\ ClearedIsMember /\ SnapshotHasMembers
  /\ OldOnesAreDue /\ OwedIsAhead /\ OwedIsKnown

\* What a step of a synchronisation that deals with u does to memberships.
Owes(u) ==
  /\ s'.full = s.full /\ s'.found = s.found
  /\ u \in Open' => rows' = rows
  /\ s'.pc \in {"map", "mappart"} => s.v = validity /\ uid[s'.m] = s'.u
  /\ s'.pc = "clear" /\ Current => \A m \in Present : uid[m] = s'.u => ~Owed(m)'
  /\ MembersAreOld'
  /\ Current => \A m \in Present :
       IF uid[m] = u THEN Owed(m)' => rows'[<<validity, u>>] > 0 \/ u \in Open'
                     ELSE (Owed(m)' => Owed(m)) /\ (Member(m)' => Member(m))

\* What a step of a rescan that deals with u does to memberships.
RescanOwes(u) ==
  /\ ~s'.full /\ s'.pc # "clear"
  /\ s'.pc \in {"map", "mappart"} => s.v = validity /\ uid[s'.m] = s'.u
  /\ MembersAreOld'
  /\ \A k \in Keys : rows[k] > 0 => rows'[k] > 0
  /\ \A m \in Present : Owed(m)' =>
       \/ rows'[<<validity, uid[m]>>] > 0
       \/ AtHandByRescan(m)'
       \/ Owed(m) /\ ~AtHandByRescan(m)

\* The UIDs a session works with are numbers.
LEMMA Numbers ==
  ASSUME TypeOK
  PROVE  /\ s.last \in Nat /\ s.top \in Nat /\ cp.last \in Nat /\ validity \in Nat
         /\ uidnext \in Nat /\ Overlap \in Nat
         /\ \A m \in Msgs : uid[m] \in Nat
         /\ \A m \in Present : uid[m] \in Uids /\ uid[m] # 0 /\ uid[m] \in ServerUids
         /\ \A u \in {0} \cup Uids : u \in Nat
         /\ 0 \notin Uids
         /\ Open \subseteq {0} \cup Uids
<1>1. \A u \in {0} \cup Uids : u \in Nat BY Counts DEF Uids
<1>2. /\ s.last \in {0} \cup Uids /\ s.top \in {0} \cup Uids /\ cp.last \in {0} \cup Uids
      /\ Open \subseteq {0} \cup Uids
  BY DEF TypeOK, Session, Open
<1>3. validity \in Nat /\ uidnext \in Nat /\ Overlap \in Nat
  BY Counts, SyncAssumption DEF TypeOK
<1>4. \A m \in Msgs : uid[m] \in Nat BY <1>3 DEF TypeOK
<1>5. \A m \in Present : uid[m] \in Uids /\ uid[m] # 0 /\ uid[m] \in ServerUids
  BY ServerTyped DEF ServerUids, Present
<1>6. 0 \notin Uids BY Counts DEF Uids
<1> QED BY <1>1, <1>2, <1>3, <1>4, <1>5, <1>6

\* When the checkpoint is of this generation, so is a synchronisation, which began at it.
LEMMA SameGeneration ==
  ASSUME IInv, MInv, s.pc # "idle", ~s.rescan, cp.validity = validity
  PROVE  Current /\ s.last = cp.last
<1>1. cp.validity <= s.v /\ s.v \in 1..validity /\ validity \in Nat
  BY Numbers DEF IInv, Generations
<1>2. s.v = validity BY <1>1
<1> QED BY <1>2 DEF IInv, MInv, Generations, Current

\* Dealing with a candidate keeps what is known of memberships.
LEMMA DealsKeepsMembers ==
  ASSUME IInv, MInv, NEW u, Deals(u), ~s.rescan, Owes(u)
  PROVE  MInv'
<1>0. TypeOK BY DEF IInv
<1>1. /\ validity' = validity /\ uid' = uid /\ uidnext' = uidnext /\ cp' = cp
      /\ s'.v = s.v /\ s'.last = s.last /\ s'.rescan = s.rescan
      /\ s.pc # "idle" /\ s'.pc # "idle" /\ u \in Uids /\ u \in Open
      /\ s.pc \in Covering /\ s'.pc \in Covering /\ s'.pc \notin {"idle", "retire", "search", "fetch"}
  BY DEF Deals, Holding, Covering
<1>2. Present' = Present /\ Current' = Current BY <1>1 DEF Present, Current
<1>3. ASSUME Current, NEW x \in Uids, x # u PROVE Row(x)' = Row(x)
  <2>1. <<validity, x>> \in Keys BY <1>0 DEF Keys, TypeOK
  <2>2. <<validity, x>> # Key(u) BY <1>3 DEF Key, Current
  <2> QED BY <1>1, <2>1, <2>2 DEF Deals, Row
<1>4. u \in Open' => \A x \in Uids : Row(x)' = Row(x) BY <1>1 DEF Owes, Row
<1>5. Open' \subseteq Open \cup {0} /\ Open \subseteq Open' \cup {0, u} BY DEF Deals
<1>7. FetchedIsThere'
  <2>1. s'.got \subseteq s.got BY DEF Deals
  <2> QED BY <1>1, <1>2, <2>1 DEF FetchedIsThere, MInv, Owes
<1>8. MembersAreOld' BY DEF Owes
<1>9. ClearedIsMember' BY <1>1, <1>2 DEF ClearedIsMember, Owes
<1>10. SnapshotHasMembers'
  <2>1. SUFFICES ASSUME Current, s.full, NEW m \in Present
                 PROVE  uid[m] \in s.found \/ (uid[m] \notin Open' /\ ~Member(m)')
    BY <1>1, <1>2 DEF SnapshotHasMembers, Owes
  <2>2. uid[m] \in s.found \/ (uid[m] \notin Open /\ ~Member(m))
    BY <1>1, <2>1 DEF MInv, SnapshotHasMembers
  <2>3. CASE uid[m] = u BY <1>1, <2>2, <2>3
  <2>4. CASE uid[m] # u
    <3>1. Member(m)' => Member(m) BY <2>1, <2>4 DEF Owes
    <3>2. uid[m] \in Open' => uid[m] \in Open BY <1>0, <1>5, Numbers
    <3> QED BY <2>2, <3>1, <3>2
  <2> QED BY <2>3, <2>4
<1>11. OldOnesAreDue'
  <2>1. SUFFICES ASSUME Current, NEW x \in Open', x # 0, x <= s.last
                 PROVE  Row(x)' \/ x + Overlap > s.last
    BY <1>1, <1>2 DEF OldOnesAreDue
  <2>2. x \in Open /\ x \in Uids BY <1>0, <1>5, <2>1, Numbers
  <2>3. Row(x) \/ x + Overlap > s.last BY <1>1, <2>1, <2>2 DEF MInv, OldOnesAreDue
  <2> QED BY <1>3, <1>4, <2>1, <2>2, <2>3
<1>12. OwedIsAhead'
  <2>1. SUFFICES ASSUME Current, NEW m \in Present, Owed(m)'
                 PROVE  \/ Row(uid[m])'
                        \/ uid[m] \in Open'
                        \/ s.last < uid[m] /\ s'.top < uid[m] /\ \A x \in Open' : x < uid[m]
    BY <1>1, <1>2 DEF OwedIsAhead, Row
  <2>2. CASE uid[m] = u BY <1>1, <2>1, <2>2 DEF Owes, Row
  <2>3. CASE uid[m] # u
    <3>1. Owed(m) BY <2>1, <2>3 DEF Owes
    <3>2. \/ Row(uid[m])
          \/ uid[m] \in Open
          \/ s.last < uid[m] /\ s.top < uid[m] /\ \A x \in Open : x < uid[m]
      BY <1>1, <2>1, <3>1 DEF MInv, OwedIsAhead
    <3>3. uid[m] \in Uids /\ uid[m] # 0 /\ uid[m] \in Nat BY <1>0, Numbers
    <3>4. CASE Row(uid[m]) BY <1>1, <1>3, <2>1, <2>3, <3>3, <3>4 DEF Row
    <3>5. CASE uid[m] \in Open BY <1>5, <2>3, <3>3, <3>5
    <3>6. CASE s.last < uid[m] /\ s.top < uid[m] /\ \A x \in Open : x < uid[m]
      BY <1>1, <1>5, <3>3, <3>6 DEF Deals
    <3> QED BY <3>2, <3>4, <3>5, <3>6
  <2> QED BY <2>2, <2>3
<1>13. OwedIsKnown'
  <2>1. SUFFICES ASSUME cp.validity = validity, NEW m \in Present, uid[m] <= cp.last, Owed(m)'
                 PROVE  Row(uid[m])' \/ uid[m] + Overlap > cp.last
    BY <1>1, <1>2 DEF OwedIsKnown, Row
  <2>2. Current /\ s.last = cp.last BY <1>1, <2>1, SameGeneration
  <2>a. ~AtHandByRescan(m) BY DEF AtHandByRescan
  <2>3. uid[m] \in Uids /\ uid[m] # 0 BY <1>0, Numbers
  <2>4. CASE uid[m] = u
    <3>1. Row(u)' \/ u \in Open' BY <1>1, <2>1, <2>2, <2>4 DEF Owes, Row
    <3>2. u \in Open' => Row(u)' \/ u + Overlap > cp.last
      BY <1>1, <1>4, <2>1, <2>2, <2>3, <2>4 DEF MInv, OldOnesAreDue
    <3> QED BY <1>1, <2>4, <3>1, <3>2 DEF Row
  <2>5. CASE uid[m] # u
    <3>1. Owed(m) BY <2>1, <2>2, <2>5 DEF Owes
    <3>2. Row(uid[m]) \/ uid[m] + Overlap > cp.last
      BY <2>1, <2>a, <3>1 DEF MInv, OwedIsKnown, AtHandByRescan
    <3> QED BY <1>1, <1>3, <2>2, <2>3, <2>5, <3>2 DEF Row
  <2> QED BY <2>4, <2>5
<1> QED BY <1>7, <1>8, <1>9, <1>10, <1>11, <1>12, <1>13 DEF MInv

\* So it is when a rescan deals with it, which promises nothing of the other candidates.
LEMMA RescanKeepsMembers ==
  ASSUME IInv, MInv, NEW u, Deals(u), s.rescan, RescanOwes(u)
  PROVE  MInv'
<1>1. /\ validity' = validity /\ uid' = uid /\ uidnext' = uidnext /\ cp' = cp
      /\ s'.v = s.v /\ s'.rescan /\ s.pc # "idle" /\ s'.got \subseteq s.got
      /\ s'.pc \notin {"idle", "retire", "search", "fetch"}
  BY DEF Deals, Holding
<1>2. Present' = Present /\ Current' = Current BY <1>1 DEF Present, Current
<1>3. FetchedIsThere' BY <1>1, <1>2 DEF FetchedIsThere, MInv, RescanOwes
<1>4. MembersAreOld' BY DEF RescanOwes
<1>5. OwedIsKnown'
  <2>1. SUFFICES ASSUME cp.validity = validity, NEW m \in Present, uid[m] <= cp.last, Owed(m)'
                 PROVE  \/ rows'[<<validity, uid[m]>>] > 0
                        \/ uid[m] + Overlap > cp.last
                        \/ AtHandByRescan(m)'
    BY <1>1, <1>2 DEF OwedIsKnown, Row
  <2>2. CASE Owed(m) /\ ~AtHandByRescan(m)
    <3>1. Row(uid[m]) \/ uid[m] + Overlap > cp.last
      BY <2>1, <2>2 DEF MInv, OwedIsKnown, AtHandByRescan
    <3>2. <<validity, uid[m]>> \in Keys BY Numbers DEF IInv, Keys, TypeOK
    <3> QED BY <3>1, <3>2 DEF RescanOwes, Row
  <2> QED BY <2>1, <2>2 DEF RescanOwes
<1> QED BY <1>1, <1>3, <1>4, <1>5
        DEF MInv, RescanOwes, ClearedIsMember, SnapshotHasMembers, OldOnesAreDue, OwedIsAhead

\* A failure of the candidate leaves a row in its place.
LEMMA RecordFailureKeepsMembers ==
  ASSUME IInv, MInv, s.pc \in {"each"} \cup Holding, NEW u \in Uids, u \in Open, s.u \in {0, u},
         RecordFailure(u), UNCHANGED <<validity, uid, uidnext, cp, verdict, member, cut>>
  PROVE  MInv'
<1>0. TypeOK BY DEF IInv
<1>1. Deals(u) BY RecordFailureDeals
<1>2. Key(u) \in Keys /\ rows[Key(u)] \in 0..MaxAttempts
  BY SyncAssumption DEF Key, Keys, IInv, Generations, TypeOK, Holding
<1>3. rows'[Key(u)] > 0 BY <1>0, <1>2, SyncAssumption DEF RecordFailure, TypeOK
<1>4. s' = [Passes(u) EXCEPT !.failed = TRUE] BY DEF RecordFailure, Goes
<1>5. /\ s'.pc = "each" /\ s'.full = s.full /\ s'.found = s.found
      /\ s'.u = 0 /\ s'.todo = s.todo \ {u}
  BY <1>0, <1>4 DEF Passes, TypeOK, Session
<1>6. u \notin Open' BY <1>0, <1>5, Numbers DEF Open
<1>7. \A m : (Owed(m)' <=> Owed(m)) /\ (Member(m)' <=> Member(m)) BY DEF Owed, Member
<1>8. MembersAreOld' BY DEF MInv, MembersAreOld
<1>9. Current => rows'[<<validity, u>>] > 0 BY <1>3 DEF Key, Current
<1>10. CASE ~s.rescan
  <2>1. Owes(u) BY <1>5, <1>6, <1>7, <1>8, <1>9 DEF Owes
  <2> QED BY <1>1, <1>10, <2>1, DealsKeepsMembers
<1>11. CASE s.rescan
  <2>1. ~s'.full /\ \A m : ~AtHandByRescan(m)'
    BY <1>5, <1>11 DEF IInv, AtHand, AtHandByRescan
  <2>2. \A k \in Keys : rows[k] > 0 => rows'[k] > 0 BY <1>1, <1>3 DEF Deals
  <2>3. ASSUME NEW m \in Present, AtHandByRescan(m) PROVE rows'[<<validity, uid[m]>>] > 0
    <3>1. s.v = validity /\ uid[m] = s.u /\ s.pc \in Holding
      BY <2>3 DEF AtHandByRescan, MInv, FetchedIsThere, Holding
    <3>2. s.u = u BY <3>1 DEF IInv, AtHand
    <3> QED BY <1>9, <3>1, <3>2 DEF Current, Holding
  <2>4. RescanOwes(u) BY <1>5, <1>7, <1>8, <2>1, <2>2, <2>3 DEF RescanOwes
  <2> QED BY <1>1, <1>11, <2>4, RescanKeepsMembers
<1> QED BY <1>10, <1>11

\* A candidate that passes leaves nothing owed but what has a row.
LEMMA PassesOwes ==
  ASSUME IInv, MInv, NEW u \in Uids, Deals(u), s'.pc = "each", s'.u = 0, s'.todo = s.todo \ {u},
         s'.full = s.full, s'.found = s.found,
         UNCHANGED <<validity, uid, uidnext, verdict, member, cut>>,
         Current => \A m \in Present : uid[m] = u /\ Owed(m) => rows'[<<validity, u>>] > 0
  PROVE  Owes(u)
<1>1. u \notin Open' BY Numbers DEF IInv, Open
<1>2. \A m : (Owed(m)' <=> Owed(m)) /\ (Member(m)' <=> Member(m)) BY DEF Owed, Member
<1>3. MembersAreOld' BY DEF MInv, MembersAreOld
<1> QED BY <1>1, <1>2, <1>3 DEF Owes

\* A candidate that waits has a row.
LEMMA DefersKeepsMembers ==
  ASSUME IInv, MInv, NEW u \in Uids, Defers(u)
  PROVE  MInv'
<1>0. TypeOK BY DEF IInv
<1>1. Deals(u) BY DefersDeals
<1>2. /\ s' = Passes(u) /\ ~s.rescan
      /\ UNCHANGED <<validity, uid, uidnext, rows, verdict, member, cut>>
  BY DEF Defers, Waits, Goes, server, retries, facts
<1>3. /\ s'.pc = "each" /\ s'.u = 0 /\ s'.todo = s.todo \ {u}
      /\ s'.full = s.full /\ s'.found = s.found
  BY <1>0, <1>2 DEF Passes, TypeOK, Session
<1>4. Current => rows'[<<validity, u>>] > 0 BY <1>2 DEF Defers, Waits, Key, Current
<1> QED BY <1>1, <1>2, <1>3, <1>4, PassesOwes, DealsKeepsMembers

\* The fields of a session that holds a message, and what it found.
LEMMA HoldsFound ==
  ASSUME TypeOK, NEW u \in Uids, NEW m \in Msgs \cup {NoMsg}, NEW pc \in Holding,
         s' = Holds(u, m, pc)
  PROVE  /\ s'.pc = pc /\ s'.u = u /\ s'.m = m /\ u \in Open'
         /\ s'.full = s.full /\ s'.found = s.found
<1>1. Passes(u) \in Session BY PassesFields
<1>2. Passes(u).found = s.found BY DEF Passes, TypeOK, Session
<1>3. pc \in Pcs BY DEF Holding, Pcs
<1> QED BY <1>1, <1>2, <1>3, PassesFields DEF Holds, Session, Open

\* A message that is processed is owed until it is mapped, or it is refused.
LEMMA ProcessesKeepsMembers ==
  ASSUME IInv, MInv, NEW u \in Uids, NEW m \in Msgs, Processes(u, m)
  PROVE  MInv'
<1>1. /\ TypeOK /\ s.pc = "each" /\ u \in Open /\ s.u \in {0, u} /\ <<u, m>> \in s.got
      /\ UNCHANGED <<validity, uid, uidnext, cp, member, cut>>
  BY AtTheCandidate DEF Processes, server
<1>2. /\ Current /\ s.v = validity /\ uid[m] = u
      /\ \A x \in Present : uid[x] = u => x = m
  BY <1>1 DEF IInv, UidsAreOnce, MInv, FetchedIsThere, Current
<1>3. Deals(u) BY ProcessesDeals
<1>4. CASE RecordFailure(u) /\ UNCHANGED verdict BY <1>1, <1>4, RecordFailureKeepsMembers
<1>5. /\ MembersAreOld' /\ \A y \in Msgs : Member(y)' <=> Member(y)
      /\ \A y \in Present : y \in Msgs
  BY <1>1 DEF MInv, MembersAreOld, Member, Present
<1>6. verdict \in [Msgs -> {"none", "refused", "ready"}] BY <1>1 DEF TypeOK
<1>7. ASSUME ~s.rescan,
             NEW pc \in {"map", "mappart", "clear"}, NEW x \in {m, NoMsg}, s' = Holds(u, x, pc),
             pc # "clear" => x = m,
             rows' = rows, \A y \in Msgs : y # m => verdict'[y] = verdict[y],
             pc = "clear" => verdict'[m] = "refused"
      PROVE  Owes(u)
  <2>1. /\ s'.pc = pc /\ s'.u = u /\ s'.m = x /\ u \in Open'
        /\ s'.full = s.full /\ s'.found = s.found
    BY <1>1, <1>7, HoldsFound DEF Holding
  <2>2. \A y \in Msgs : y # m => (Owed(y)' <=> Owed(y)) BY <1>1, <1>5, <1>7 DEF Owed
  <2>3. pc = "clear" => ~Owed(m)' BY <1>7 DEF Owed
  <2>4. s'.pc \in {"map", "mappart"} => s.v = validity /\ uid[s'.m] = s'.u
    BY <1>2, <1>7, <2>1
  <2>5. s'.pc = "clear" => \A y \in Present : uid[y] = s'.u => ~Owed(y)'
    BY <1>2, <2>1, <2>3
  <2>6. \A y \in Present :
          IF uid[y] = u THEN Owed(y)' => rows'[<<validity, u>>] > 0 \/ u \in Open'
                        ELSE (Owed(y)' => Owed(y)) /\ (Member(y)' => Member(y))
    BY <1>2, <1>5, <2>1, <2>2
  <2> QED BY <1>5, <1>7, <2>1, <2>4, <2>5, <2>6 DEF Owes
<1>8. ASSUME s.rescan, rows' = rows, \A y \in Msgs : y # m => verdict'[y] = verdict[y],
             \/ s' = Holds(u, m, "map")
             \/ s' = Holds(u, m, "mappart") /\ verdict' = verdict
             \/ s' = Passes(u) /\ verdict'[m] = "refused"
      PROVE  RescanOwes(u)
  <2>1. ~s.full BY <1>8 DEF IInv, AtHand
  <2>2. /\ s'.full = s.full /\ s'.rescan = s.rescan
        /\ \/ s'.pc = "map" /\ s'.m = m /\ s'.u = u
           \/ s'.pc = "mappart" /\ s'.m = m /\ s'.u = u /\ verdict' = verdict
           \/ s'.pc = "each" /\ verdict'[m] = "refused"
    <3>1. CASE s' = Holds(u, m, "map") BY <1>1, <3>1, HoldsFields DEF Pcs
    <3>2. CASE s' = Holds(u, m, "mappart") /\ verdict' = verdict
      BY <1>1, <3>2, HoldsFields DEF Pcs
    <3>3. CASE s' = Passes(u) /\ verdict'[m] = "refused" BY <1>1, <3>3, PassesFields
    <3> QED BY <1>8, <3>1, <3>2, <3>3
  <2>3. \A y \in Msgs : (y # m \/ verdict' = verdict) => (Owed(y)' <=> Owed(y))
    BY <1>1, <1>5, <1>8 DEF Owed
  <2>4. verdict'[m] = "refused" => ~Owed(m)' BY DEF Owed
  <2>5. \A y : ~AtHandByRescan(y) BY <1>1 DEF AtHandByRescan
  <2>6. s'.pc = "map" => AtHandByRescan(m)' BY <1>8, <2>2 DEF AtHandByRescan
  <2>7. \A y \in Present : Owed(y)' => \/ AtHandByRescan(y)'
                                       \/ Owed(y) /\ ~AtHandByRescan(y)
    BY <1>5, <2>2, <2>3, <2>4, <2>5, <2>6
  <2>8. s'.pc \in {"map", "mappart"} => s.v = validity /\ uid[s'.m] = s'.u
    BY <1>2, <2>2
  <2> QED BY <1>5, <1>8, <2>1, <2>2, <2>7, <2>8 DEF RescanOwes
<1>9. (s.rescan => RescanOwes(u)) /\ (~s.rescan => Owes(u)) => MInv'
  BY ProcessesDeals, DealsKeepsMembers, RescanKeepsMembers
<1>10. CASE Goes(Holds(u, m, "map")) /\ UNCHANGED <<verdict, retries, faults>>
  <2>1. s.rescan => RescanOwes(u) BY <1>8, <1>10 DEF Goes, retries
  <2>2. ~s.rescan => Owes(u) BY <1>7, <1>10 DEF Goes, retries
  <2> QED BY <1>9, <2>1, <2>2
<1>11. CASE /\ verdict' = [verdict EXCEPT ![m] = "refused"]
            /\ Goes(Succeeds(u)) /\ UNCHANGED <<retries, faults>>
  <2>1. s.rescan => RescanOwes(u) BY <1>6, <1>8, <1>11 DEF Goes, Succeeds, retries
  <2>2. ~s.rescan => Owes(u) BY <1>6, <1>7, <1>11 DEF Goes, Succeeds, retries
  <2> QED BY <1>9, <2>1, <2>2
<1>12. CASE /\ verdict' = [verdict EXCEPT ![m] = "ready"]
            /\ Goes(Holds(u, m, "map")) /\ UNCHANGED <<retries, faults>>
  <2>1. s.rescan => RescanOwes(u) BY <1>6, <1>8, <1>12 DEF Goes, retries
  <2>2. ~s.rescan => Owes(u) BY <1>6, <1>7, <1>12 DEF Goes, retries
  <2> QED BY <1>9, <2>1, <2>2
<1>13. CASE Goes(Holds(u, m, "mappart")) /\ UNCHANGED <<verdict, retries>>
  <2>1. s.rescan => RescanOwes(u) BY <1>8, <1>13 DEF Goes, retries
  <2>2. ~s.rescan => Owes(u) BY <1>7, <1>13 DEF Goes, retries
  <2> QED BY <1>9, <2>1, <2>2
<1> QED BY <1>4, <1>10, <1>11, <1>12, <1>13 DEF Processes

\* A message that is mapped is a member under the UID it has.
LEMMA MapsKeepsMembers ==
  ASSUME IInv, MInv, Maps
  PROVE  MInv'
<1>1. /\ TypeOK /\ s.pc \in Holding /\ s.u \in Uids /\ s.u \in Open
      /\ UNCHANGED <<validity, uid, uidnext, cp, verdict>>
  BY AtTheCandidate DEF Maps, server, Holding
<1>2. /\ s.m \in Msgs /\ s.v = validity /\ Current
      /\ uid[s.m] = s.u /\ \A x \in Present : uid[x] = s.u => x = s.m
  BY DEF Maps, IInv, AtHand, MInv, FetchedIsThere, Current
<1>3. CASE RecordFailure(s.u) /\ UNCHANGED <<member, cut>>
  BY <1>1, <1>3, RecordFailureKeepsMembers
<1>4. CASE /\ Membership(s.m, s.u) /\ UNCHANGED retries
           /\ Goes(IF s.pc = "mappart" /\ ~s.rescan
                     THEN Holds(s.u, NoMsg, "fail") ELSE Succeeds(s.u))
  <2>1. /\ member'[s.m] = [validity |-> s.v, uid |-> s.u, present |-> TRUE]
        /\ \A x \in Msgs : x # s.m => /\ member'[x] = member[x]
                                      /\ x \in cut' <=> x \in cut
        /\ rows' = rows
    BY <1>1, <1>2, <1>4 DEF Membership, TypeOK, retries
  <2>2. ASSUME NEW x \in Msgs, x = s.m PROVE Member(x)' /\ ~Owed(x)'
    BY <1>1, <1>2, <2>1, <2>2 DEF Member, Owed
  <2>3. \A x \in Msgs : x # s.m => (Member(x)' <=> Member(x)) /\ (Owed(x)' <=> Owed(x))
    BY <1>1, <2>1 DEF Member, Owed
  <2>4. MembersAreOld'
    <3>1. s.v \in 1..validity /\ s.u < uidnext /\ validity \in Nat
      BY <1>1, <1>2, Numbers DEF IInv, Generations, UidsAreOnce, Holding
    <3> QED BY <1>1, <2>1, <3>1 DEF MInv, MembersAreOld
  <2>5. \A x \in Present : x \in Msgs BY DEF Present
  <2>6. CASE s.rescan
    <3>1. s' = Passes(s.u) BY <1>4, <2>6 DEF Goes, Succeeds
    <3>2. ~s'.full /\ s'.pc = "each" BY <1>1, <2>6, <3>1, PassesFields DEF IInv, AtHand
    <3>3. \A x \in Present : Owed(x)' => Owed(x) /\ ~AtHandByRescan(x)
      BY <1>2, <2>2, <2>3, <2>5 DEF AtHandByRescan
    <3>4. RescanOwes(s.u) BY <2>1, <2>4, <3>2, <3>3 DEF RescanOwes
    <3> QED BY <2>6, <3>4, MapsDeals, RescanKeepsMembers
  <2>7. CASE ~s.rescan
    <3>1. /\ s'.pc \in {"fail", "clear"} /\ s'.u = s.u /\ s.u \in Open'
          /\ s'.full = s.full /\ s'.found = s.found
      BY <1>1, <1>4, <2>7, HoldsFound DEF Holding, Goes, Succeeds
    <3>2. \A x \in Present :
            IF uid[x] = s.u THEN Owed(x)' => rows'[<<validity, s.u>>] > 0 \/ s.u \in Open'
                            ELSE (Owed(x)' => Owed(x)) /\ (Member(x)' => Member(x))
      BY <1>2, <2>3, <2>5, <3>1
    <3>3. \A x \in Present : uid[x] = s'.u => ~Owed(x)' BY <1>2, <2>2, <2>5, <3>1
    <3>4. Owes(s.u) BY <2>1, <2>4, <3>1, <3>2, <3>3 DEF Owes
    <3> QED BY <2>7, <3>4, MapsDeals, DealsKeepsMembers
  <2> QED BY <2>6, <2>7
<1> QED BY <1>3, <1>4 DEF Maps

\* The row of a message goes when its membership is there.
LEMMA ClearsKeepsMembers ==
  ASSUME IInv, MInv, Clears
  PROVE  MInv'
<1>1. /\ TypeOK /\ s.pc = "clear" /\ s.pc \in Holding /\ s.u \in Uids /\ s.u \in Open
      /\ ~s.rescan /\ UNCHANGED <<validity, uid, uidnext, cp, verdict, member, cut>>
  BY AtTheCandidate DEF Clears, server, facts, Holding, IInv, AtHand
<1>2. CASE RecordFailure(s.u) BY <1>1, <1>2, RecordFailureKeepsMembers
<1>3. CASE Goes([Passes(s.u) EXCEPT !.top = IF s.u > @ THEN s.u ELSE @])
  <2>1. /\ s'.pc = "each" /\ s'.u = 0 /\ s'.todo = s.todo \ {s.u}
        /\ s'.full = s.full /\ s'.found = s.found
    BY <1>1, <1>3 DEF Goes, Passes, TypeOK, Session
  <2>2. Current => \A m \in Present : uid[m] = s.u => ~Owed(m)
    BY <1>1 DEF MInv, ClearedIsMember
  <2>3. Owes(s.u) BY <1>1, <2>1, <2>2, ClearsDeals, PassesOwes
  <2> QED BY <1>1, <2>3, ClearsDeals, DealsKeepsMembers
<1> QED BY <1>2, <1>3 DEF Clears

\* What is not mentioned may change.
LEMMA SameKeepsMembers ==
  ASSUME MInv, UNCHANGED <<validity, uid, uidnext, cp, rows, verdict, member, cut, s>>
  PROVE  MInv'
<1>1. /\ Present' = Present /\ Open' = Open /\ Current' = Current
      /\ \A m : (Member(m)' <=> Member(m)) /\ (Owed(m)' <=> Owed(m))
      /\ \A u : Row(u)' <=> Row(u)
  BY DEF Present, Open, Current, Member, Owed, Row
<1> QED BY <1>1 DEF MInv, FetchedIsThere, MembersAreOld, ClearedIsMember, SnapshotHasMembers,
                    OldOnesAreDue, OwedIsAhead, OwedIsKnown, AtHandByRescan

\* Between sessions there is less to know.
LEMMA IdleKeepsMembers ==
  ASSUME MInv, s' = Idle, UNCHANGED <<validity, uid, uidnext, cp, rows, verdict, member>>,
         cut \subseteq cut', s.rescan /\ s.pc = "map" => s.m \in cut' \/ Member(s.m)
  PROVE  MInv'
<1>1. s'.pc = "idle" /\ ~s'.rescan /\ s'.got = {} BY DEF Idle
<1>2. /\ Present' = Present /\ ~Current'
      /\ \A m : Owed(m)' => Owed(m) /\ ~AtHandByRescan(m)
      /\ \A u : Row(u)' <=> Row(u)
  BY <1>1 DEF Present, Current, Member, Owed, Row, AtHandByRescan
<1>3. MembersAreOld' BY DEF MInv, MembersAreOld
<1>4. OwedIsKnown' BY <1>2 DEF MInv, OwedIsKnown, AtHandByRescan
<1> QED BY <1>1, <1>2, <1>3, <1>4 DEF MInv, FetchedIsThere, ClearedIsMember, SnapshotHasMembers,
                                      OldOnesAreDue, OwedIsAhead

\* A message that arrives lies above all that a session knows, and is no member yet.
LEMMA ArrivesKeepsMembers ==
  ASSUME IInv, MInv, NEW m \in Msgs, Arrives(m)
  PROVE  MInv'
<1>0. TypeOK /\ UidsAreOnce BY DEF IInv
<1>1. /\ uid' = [uid EXCEPT ![m] = uidnext] /\ uidnext' = uidnext + 1 /\ uid[m] = 0
      /\ UNCHANGED <<validity, cp, rows, verdict, member, cut, s>>
      /\ s.pc \in {"idle", "search", "fetch"}
  BY DEF Arrives, Reads, retries, facts
<1>2. uid \in [Msgs -> 0..(uidnext - 1)] /\ uidnext \in Nat \ {0} BY <1>0, Counts DEF TypeOK
<1>3. Present' = Present \cup {m} /\ Current' = Current /\ Open' = Open
  BY <1>1, <1>2 DEF Present, Current, Open
<1>4. uid'[m] = uidnext /\ \A x \in Present : uid'[x] = uid[x] /\ x # m
  BY <1>1, <1>2 DEF Present
<1>5. /\ \A x \in Present : (Member(x)' <=> Member(x)) /\ (Owed(x)' <=> Owed(x))
      /\ \A u : Row(u)' <=> Row(u)
  BY <1>1, <1>4 DEF Member, Owed, Row
<1>6. ~Member(m)' BY <1>1, <1>2, <1>4 DEF Member, MInv, MembersAreOld
<1>7. FetchedIsThere' BY <1>1 DEF MInv, FetchedIsThere
<1>8. MembersAreOld'
  <2>1. ASSUME NEW x \in Msgs, member[x].validity = validity PROVE member[x].uid < uidnext + 1
    <3>1. member[x].uid < uidnext /\ member[x].uid \in {0} \cup Uids
      BY <1>0, <2>1 DEF MInv, MembersAreOld, TypeOK
    <3>2. member[x].uid \in Nat BY <1>0, <3>1, Numbers
    <3> QED BY <1>2, <3>1, <3>2
  <2> QED BY <1>1, <2>1 DEF MInv, MembersAreOld
<1>9. ClearedIsMember' BY <1>1 DEF ClearedIsMember
<1>10. Current => s.top < uidnext /\ \A u \in Open : u < uidnext BY <1>0 DEF UidsAreOnce
<1>11. SnapshotHasMembers'
  <2>1. Current => uidnext \notin Open BY <1>2, <1>10
  <2> QED BY <1>1, <1>3, <1>4, <1>5, <1>6, <2>1 DEF MInv, SnapshotHasMembers
<1>12. OldOnesAreDue' BY <1>1, <1>3, <1>5 DEF MInv, OldOnesAreDue
<1>13. OwedIsAhead'
  <2>1. Current /\ ~s.rescan /\ s.pc \in Covering => s.last < uidnext
    <3>1. Current /\ ~s.rescan => s.last = 0 \/ s.last = Base
      BY <1>0 DEF MInv, IInv, Generations, Base, Current
    <3> QED BY <1>0, <1>2, <3>1 DEF UidsAreOnce
  <2> QED BY <1>1, <1>3, <1>4, <1>5, <1>10, <2>1 DEF MInv, OwedIsAhead
<1>14. OwedIsKnown'
  <2>1. cp.validity = validity => ~(uidnext <= cp.last)
    BY <1>0, <1>2, Numbers DEF UidsAreOnce, Base
  <2> QED BY <1>1, <1>3, <1>4, <1>5, <2>1 DEF MInv, OwedIsKnown, AtHandByRescan
<1> QED BY <1>1, <1>7, <1>8, <1>9, <1>11, <1>12, <1>13, <1>14 DEF MInv

\* A message that goes leaves less that is owed.
LEMMA ExpungesKeepsMembers ==
  ASSUME IInv, MInv, NEW m \in Msgs, Expunges(m)
  PROVE  MInv'
<1>1. /\ uid' = [uid EXCEPT ![m] = 0]
      /\ UNCHANGED <<validity, uidnext, cp, rows, verdict, member, cut, s>>
      /\ s.pc \in {"idle", "search", "fetch"}
  BY DEF Expunges, Reads, retries, facts
<1>2. uid \in [Msgs -> 0..(uidnext - 1)] BY DEF IInv, TypeOK
<1>3. /\ Present' \subseteq Present /\ \A x \in Present' : uid'[x] = uid[x]
      /\ Current' = Current /\ Open' = Open
  BY <1>1, <1>2 DEF Present, Current, Open
<1>4. /\ \A x \in Present' : (Member(x)' <=> Member(x)) /\ (Owed(x)' <=> Owed(x))
      /\ \A u : Row(u)' <=> Row(u)
  BY <1>1, <1>3 DEF Member, Owed, Row
<1>5. FetchedIsThere' /\ ClearedIsMember' BY <1>1 DEF MInv, FetchedIsThere, ClearedIsMember
<1>6. MembersAreOld' BY <1>1 DEF MInv, MembersAreOld
<1>7. SnapshotHasMembers' BY <1>1, <1>3, <1>4 DEF MInv, SnapshotHasMembers
<1>8. OldOnesAreDue' BY <1>1, <1>3, <1>4 DEF MInv, OldOnesAreDue
<1>9. OwedIsAhead' BY <1>1, <1>3, <1>4 DEF MInv, OwedIsAhead
<1>10. OwedIsKnown' BY <1>1, <1>3, <1>4 DEF MInv, OwedIsKnown, AtHandByRescan
<1> QED BY <1>1, <1>5, <1>6, <1>7, <1>8, <1>9, <1>10 DEF MInv

\* Nothing is promised of the memberships of a new generation.
LEMMA RenumbersKeepsMembers ==
  ASSUME IInv, MInv, Renumbers
  PROVE  MInv'
<1>0. TypeOK /\ Generations BY DEF IInv
<1>1. /\ validity' = validity + 1 /\ UNCHANGED <<cp, rows, verdict, member, cut, s>>
      /\ s.pc \in {"idle", "search", "fetch"}
  BY DEF Renumbers, Reads, retries, facts
<1>2. validity \in Nat /\ cp.validity <= validity /\ (s.pc # "idle" => s.v \in 1..validity)
  BY <1>0, Numbers DEF Generations
<1>3. ~Current' BY <1>1, <1>2 DEF Current
<1>4. OwedIsKnown'
  <2>1. cp.validity \in Nat BY <1>0, SyncAssumption DEF TypeOK
  <2> QED BY <1>1, <1>2, <2>1 DEF OwedIsKnown
<1>5. MembersAreOld'
  <2>1. \A m \in Msgs : member[m].validity \in Nat /\ member[m].validity <= validity
    BY <1>0, SyncAssumption DEF TypeOK, MInv, MembersAreOld
  <2> QED BY <1>1, <1>2, <2>1 DEF MembersAreOld
<1> QED BY <1>1, <1>3, <1>4, <1>5 DEF MInv, FetchedIsThere, ClearedIsMember, SnapshotHasMembers,
                                      OldOnesAreDue, OwedIsAhead

\* A session begins at the checkpoint.
LEMMA SelectsKeepsMembers ==
  ASSUME IInv, MInv, Selects
  PROVE  MInv'
<1>1. /\ UNCHANGED <<validity, uid, uidnext, cp, rows, verdict, member, cut>>
      /\ s.pc = "idle" /\ s'.pc \in {"retire", "search"} /\ s'.got = {} /\ ~s'.rescan
  BY DEF Selects, Goes, Idle, server, retries, facts
<1>2. /\ Present' = Present /\ \A m : Owed(m)' <=> Owed(m)
      /\ \A u : Row(u)' <=> Row(u)
  BY <1>1 DEF Present, Member, Owed, Row
<1>3. MembersAreOld' BY <1>1 DEF MInv, MembersAreOld
<1>4. OwedIsKnown' BY <1>1, <1>2 DEF MInv, OwedIsKnown, AtHandByRescan
<1> QED BY <1>1, <1>3, <1>4 DEF MInv, FetchedIsThere, ClearedIsMember, SnapshotHasMembers,
                                OldOnesAreDue, OwedIsAhead, Covering, Holding

\* The rows that are retired are of another generation than the checkpoint's, or the
\* checkpoint is of another than the server's.
LEMMA RetiresKeepsMembers ==
  ASSUME IInv, MInv, Retires
  PROVE  MInv'
<1>0. TypeOK BY DEF IInv
<1>1. /\ UNCHANGED <<validity, uid, uidnext, cp, verdict, member, cut>>
      /\ rows' = [k \in Keys |-> IF k[1] = s.v THEN rows[k] ELSE 0]
      /\ s.pc = "retire" /\ s'.pc = "search" /\ s'.v = s.v
      /\ s'.got = s.got /\ s'.rescan = s.rescan
  BY <1>0 DEF Retires, Goes, At, server, facts, TypeOK, Session
<1>2. Present' = Present /\ \A m : Owed(m)' <=> Owed(m)
  BY <1>1 DEF Present, Member, Owed
<1>3. Current => \A u \in Uids : Row(u)' <=> Row(u)
  BY <1>0, <1>1 DEF Row, Keys, TypeOK, Current
<1>4. MembersAreOld' BY <1>1 DEF MInv, MembersAreOld
<1>5. OwedIsKnown'
  <2>1. cp.validity = validity => Current
    BY <1>1, SameGeneration DEF IInv, AtHand
  <2>2. \A m \in Present : uid[m] \in Uids BY <1>0, Numbers
  <2> QED BY <1>1, <1>2, <1>3, <2>1, <2>2 DEF MInv, OwedIsKnown, AtHandByRescan, Row
<1> QED BY <1>1, <1>4, <1>5 DEF MInv, FetchedIsThere, ClearedIsMember, SnapshotHasMembers,
                                OldOnesAreDue, OwedIsAhead, Covering, Holding

\* A search takes what is owed, within the overlap or among the lowest new UIDs.
LEMMA SearchesKeepsMembers ==
  ASSUME IInv, MInv, BacklogFits, NEW full \in BOOLEAN, Searches(full)
  PROVE  MInv'
<1>0. TypeOK /\ Generations /\ AtHand BY DEF IInv
<1>1. PICK R \in Batches :
        s' = [At("fetch") EXCEPT !.full = full, !.found = IF full THEN ServerUids ELSE {},
                !.new = {u \in ServerUids : u > s.last}, !.todo = Candidates(ServerUids, R)]
  BY DEF Searches, Goes
<1> DEFINE T == Candidates(ServerUids, R)
<1>2. /\ UNCHANGED <<validity, uid, uidnext, cp, rows, verdict, member, cut>>
      /\ s.pc = "search" /\ validity = s.v
  BY DEF Searches, server, retries, facts
<1>3. /\ s'.pc = "fetch" /\ s'.v = s.v /\ s'.last = s.last /\ s'.top = s.top
      /\ s'.u = s.u /\ s'.todo = T /\ s'.got = s.got /\ s'.rescan = s.rescan
      /\ s'.full = full
      /\ full => s'.found = ServerUids
  BY <1>0, <1>1 DEF At, TypeOK, Session
<1>4. s.u = 0 /\ s.top = s.last /\ Current BY <1>0, <1>2 DEF AtHand, Holding, Current
<1>5. /\ Present' = Present /\ Open' = T \cup {0} /\ Current'
      /\ \A m : (Member(m)' <=> Member(m)) /\ (Owed(m)' <=> Owed(m))
      /\ \A u : Row(u)' <=> Row(u)
  BY <1>2, <1>3, <1>4 DEF Present, Open, Current, Member, Owed, Row
<1>6. T \subseteq Uids
  BY <1>0, ServerTyped DEF Candidates, Lowest, Batches, TypeOK, Keys
<1>7. FetchedIsThere' BY <1>2, <1>3, <1>5 DEF MInv, FetchedIsThere
<1>8. MembersAreOld' BY <1>2 DEF MInv, MembersAreOld
<1>9. SnapshotHasMembers' BY <1>0, <1>2, <1>3, <1>5, Numbers DEF SnapshotHasMembers
<1>10. OldOnesAreDue'
  <2>1. SUFFICES ASSUME NEW u \in T, u <= s.last PROVE Row(u) \/ u + Overlap > s.last
    BY <1>3, <1>5 DEF OldOnesAreDue
  <2>a. u \in Nat /\ s.last \in Nat BY <1>0, <1>6, Numbers
  <2>2. CASE u \in {w \in ServerUids : w > s.last} BY <2>a, <2>1, <2>2
  <2>3. CASE u \in {k[2] : k \in {x \in R : x[1] = s.v}}
    <3>1. PICK k \in R : k[1] = s.v /\ u = k[2] BY <2>3
    <3>2. k \in Keys /\ rows[k] > 0 BY <1>0, <3>1 DEF TypeOK, Batches
    <3>3. k = <<validity, u>> BY <1>2, <3>1, <3>2 DEF Keys
    <3> QED BY <3>2, <3>3 DEF Row
  <2> QED BY <2>2, <2>3 DEF Candidates, Lowest
<1>11. OwedIsAhead'
  <2>1. SUFFICES ASSUME NEW m \in Present, Owed(m), uid[m] \notin T
                 PROVE  \/ Row(uid[m])
                        \/ s.last < uid[m] /\ s.top < uid[m] /\ \A u \in T \cup {0} : u < uid[m]
    BY <1>2, <1>3, <1>5 DEF OwedIsAhead
  <2>2. uid[m] \in ServerUids /\ uid[m] \in Uids /\ uid[m] \in Nat /\ uid[m] # 0 /\ s.last \in Nat
    BY <1>0, Numbers
  <2>3. CASE uid[m] <= s.last
    <3>1. cp.validity = validity /\ s.last = cp.last
      BY <1>0, <1>2, <2>2, <2>3 DEF Generations, AtHand
    <3>2. Row(uid[m]) \/ uid[m] + Overlap > s.last
      BY <1>2, <2>1, <2>3, <3>1 DEF MInv, OwedIsKnown, AtHandByRescan
    <3> QED BY <2>1, <2>2, <2>3, <3>2 DEF Candidates
  <2>4. CASE s.last < uid[m]
    <3>1. ASSUME NEW u \in T PROVE u < uid[m]
      <4>1. u \in Nat /\ u # uid[m] BY <1>0, <1>6, <2>1, Numbers
      <4>2. ~(uid[m] < u)
        BY <1>2, <2>1, <2>2, <2>4, CandidatesAreLowest
      <4> QED BY <2>2, <4>1, <4>2
    <3> QED BY <1>4, <2>2, <2>4, <3>1
  <2> QED BY <2>2, <2>3, <2>4
<1>12. OwedIsKnown' BY <1>2, <1>5 DEF MInv, OwedIsKnown, AtHandByRescan
<1> QED BY <1>3, <1>7, <1>8, <1>9, <1>10, <1>11, <1>12 DEF MInv, ClearedIsMember

\* A fetch brings what is there, and the server rests until it is dealt with.
LEMMA FetchesKeepsMembers ==
  ASSUME IInv, MInv, Fetches
  PROVE  MInv'
<1>0. TypeOK BY DEF IInv
<1>1. PICK got \in SUBSET (s.todo \X Msgs) :
        /\ s' = [s EXCEPT !.pc = "each", !.got = got]
        /\ \A x \in got : validity = s.v /\ uid[x[2]] = x[1]
  BY FetchesSome
<1>2. /\ UNCHANGED <<validity, uid, uidnext, cp, rows, verdict, member, cut>>
      /\ s.pc = "fetch" /\ s'.pc = "each" /\ s'.v = s.v /\ s'.last = s.last
      /\ s'.top = s.top /\ s'.u = s.u /\ s'.todo = s.todo /\ s'.got = got
      /\ s'.rescan = s.rescan /\ s'.full = s.full /\ s'.found = s.found
  BY <1>0, <1>1 DEF Fetches, server, retries, facts, TypeOK, Session
<1>3. /\ Present' = Present /\ Open' = Open /\ Current' = Current
      /\ \A m : (Member(m)' <=> Member(m)) /\ (Owed(m)' <=> Owed(m))
      /\ \A u : Row(u)' <=> Row(u)
  BY <1>2 DEF Present, Open, Current, Member, Owed, Row
<1>4. FetchedIsThere' BY <1>1, <1>2 DEF FetchedIsThere
<1>5. MembersAreOld' BY <1>2 DEF MInv, MembersAreOld
<1>6. SnapshotHasMembers' BY <1>2, <1>3 DEF MInv, SnapshotHasMembers, Covering
<1>7. OldOnesAreDue' BY <1>2, <1>3 DEF MInv, OldOnesAreDue, Covering
<1>8. OwedIsAhead' BY <1>2, <1>3 DEF MInv, OwedIsAhead, Covering
<1>9. OwedIsKnown' BY <1>2, <1>3 DEF MInv, OwedIsKnown, AtHandByRescan
<1> QED BY <1>2, <1>4, <1>5, <1>6, <1>7, <1>8, <1>9 DEF MInv, ClearedIsMember

\* The snapshot ends no membership of a message that is there.
LEMMA SnapshotsKeepsMembers ==
  ASSUME IInv, MInv, Snapshots
  PROVE  MInv'
<1>0. TypeOK BY DEF IInv
<1>1. /\ UNCHANGED <<validity, uid, uidnext, cp, rows, verdict, cut>>
      /\ s.pc = "each" /\ s.todo = {} /\ s.full /\ s'.pc = "finish"
      /\ s'.v = s.v /\ s'.last = s.last
      /\ s'.top = s.top /\ s'.u = s.u /\ s'.todo = s.todo /\ s'.got = s.got
      /\ s'.rescan = s.rescan /\ s'.full = s.full /\ s'.found = s.found
      /\ member' = [m \in Msgs |->
           IF member[m].validity # s.v \/ member[m].uid \notin s.found
             THEN [member[m] EXCEPT !.present = FALSE] ELSE member[m]]
  BY <1>0 DEF Snapshots, Goes, At, server, retries, TypeOK, Session
<1>2. /\ Present' = Present /\ Open' = Open /\ Current' = Current
      /\ \A u : Row(u)' <=> Row(u)
  BY <1>1 DEF Present, Open, Current, Row
<1>3. ASSUME NEW m \in Msgs
      PROVE  /\ member'[m].validity = member[m].validity /\ member'[m].uid = member[m].uid
             /\ member'[m] = member[m] \/ member'[m].present = FALSE
  BY <1>0, <1>1 DEF TypeOK
<1>4. \A m \in Msgs : Member(m)' => Member(m) BY <1>1, <1>3 DEF Member
<1>5. ASSUME Current, NEW m \in Present, Member(m) PROVE Member(m)'
  <2>1. uid[m] \in s.found
    BY <1>1, <1>5 DEF MInv, SnapshotHasMembers, Covering
  <2>2. m \in Msgs /\ member[m].validity = s.v /\ member[m].uid = uid[m]
    BY <1>5 DEF Member, Present, Current
  <2> QED BY <1>1, <1>5, <2>1, <2>2 DEF Member
<1>6. \A m \in Present : m \in Msgs BY DEF Present
<1>7. Current => \A m \in Present : Owed(m)' => Owed(m) BY <1>1, <1>5 DEF Owed
<1>8. FetchedIsThere' BY <1>1, <1>2 DEF MInv, FetchedIsThere
<1>9. MembersAreOld' BY <1>1, <1>3 DEF MInv, MembersAreOld
<1>10. SnapshotHasMembers'
  BY <1>1, <1>2, <1>4, <1>6 DEF MInv, SnapshotHasMembers, Covering
<1>11. OldOnesAreDue' BY <1>1, <1>2 DEF MInv, OldOnesAreDue, Covering
<1>12. OwedIsAhead' BY <1>1, <1>2, <1>7 DEF MInv, OwedIsAhead, Covering
<1>13. OwedIsKnown'
  <2>1. cp.validity = validity => Current
    BY <1>1, SameGeneration DEF IInv, AtHand
  <2> QED BY <1>1, <1>2, <1>7, <2>1 DEF MInv, OwedIsKnown, AtHandByRescan
<1> QED BY <1>1, <1>8, <1>9, <1>10, <1>11, <1>12, <1>13 DEF MInv, ClearedIsMember

\* When a session ends at a checkpoint, what is owed below it has a row.
LEMMA FinishedOwesRows ==
  ASSUME IInv, MInv, Finishes, s.v = validity, NEW m \in Present, uid[m] <= s.top, Owed(m)
  PROVE  Row(uid[m])
<1>1. TypeOK /\ s.pc \in {"each", "finish"} /\ s.todo = {} /\ s.u = 0 /\ ~s.rescan
  BY DEF Finishes, IInv, AtHand, Holding
<1>2. Current /\ Open = {0} /\ s.pc \in Covering BY <1>1 DEF Current, Open, Covering
<1>3. uid[m] \in Nat /\ uid[m] # 0 /\ s.top \in Nat BY <1>1, Numbers DEF Present
<1> QED BY <1>1, <1>2, <1>3 DEF MInv, OwedIsAhead

\* The end of a session passes over nothing that is owed without a row.
LEMMA FinishesKeepsMembers ==
  ASSUME IInv, MInv, Finishes
  PROVE  MInv'
<1>1. /\ UNCHANGED <<validity, uid, uidnext, rows, verdict, member, cut>> /\ s' = Idle
      /\ cp'.validity = s.v /\ cp'.last = s.top
  BY DEF Finishes, Goes, server, retries, facts
<1>2. s'.pc = "idle" /\ ~s'.rescan /\ s'.got = {} BY <1>1 DEF Idle
<1>3. /\ Present' = Present /\ ~Current'
      /\ \A m : Owed(m)' <=> Owed(m)
      /\ \A u : Row(u)' <=> Row(u)
  BY <1>1, <1>2 DEF Present, Current, Member, Owed, Row
<1>4. MembersAreOld' BY <1>1 DEF MInv, MembersAreOld
<1>5. OwedIsKnown' BY <1>1, <1>3, FinishedOwesRows DEF OwedIsKnown, Row
<1> QED BY <1>2, <1>3, <1>4, <1>5 DEF MInv, FetchedIsThere, ClearedIsMember, SnapshotHasMembers,
                                      OldOnesAreDue, OwedIsAhead

\* A rescan begins with what the server shows, and at no message.
LEMMA RescansKeepsMembers ==
  ASSUME MInv, Rescans
  PROVE  MInv'
<1>1. /\ UNCHANGED <<validity, uid, uidnext, cp, rows, verdict, member, cut>>
      /\ s.pc = "idle" /\ s'.pc = "fetch" /\ s'.got = {} /\ s'.rescan /\ ~s'.full
  BY DEF Rescans, Goes, Idle, server, retries, facts
<1>2. /\ Present' = Present /\ \A m : Owed(m)' <=> Owed(m)
      /\ \A m : ~AtHandByRescan(m)
      /\ \A u : Row(u)' <=> Row(u)
  BY <1>1 DEF Present, Member, Owed, Row, AtHandByRescan
<1>3. MembersAreOld' BY <1>1 DEF MInv, MembersAreOld
<1>4. OwedIsKnown' BY <1>1, <1>2 DEF MInv, OwedIsKnown, AtHandByRescan
<1> QED BY <1>1, <1>3, <1>4 DEF MInv, FetchedIsThere, ClearedIsMember, SnapshotHasMembers,
                                OldOnesAreDue, OwedIsAhead

\* The first state owes nothing.
LEMMA InitMInv == Init => MInv
<1> SUFFICES ASSUME Init PROVE MInv OBVIOUS
<1>1. s.pc = "idle" /\ ~s.rescan /\ s.got = {} /\ Present = {} /\ ~Current
  BY DEF Init, Idle, Present, Current
<1>2. MembersAreOld BY DEF Init, MembersAreOld
<1> QED BY <1>1, <1>2 DEF MInv, FetchedIsThere, ClearedIsMember, SnapshotHasMembers,
                          OldOnesAreDue, OwedIsAhead, OwedIsKnown

\* Every step keeps what is known of memberships.
LEMMA NextMInv == IInv /\ BacklogFits /\ MInv /\ [Next]_vars => MInv'
<1> SUFFICES ASSUME IInv, BacklogFits, MInv, [Next]_vars PROVE MInv' OBVIOUS
<1>1. ASSUME NEW m \in Msgs, Arrives(m) \/ Expunges(m) PROVE MInv'
  BY <1>1, ArrivesKeepsMembers, ExpungesKeepsMembers
<1>2. CASE Renumbers BY <1>2, RenumbersKeepsMembers
<1>3. ASSUME NEW k \in Keys, BecomesDue(k) PROVE MInv'
  BY <1>3, SameKeepsMembers DEF BecomesDue, server, facts
<1>4. CASE Selects BY <1>4, SelectsKeepsMembers
<1>5. CASE Rescans BY <1>5, RescansKeepsMembers
<1>6. CASE SessionStep
  <2>1. CASE Retires BY <2>1, RetiresKeepsMembers
  <2>2. ASSUME NEW full \in BOOLEAN, Searches(full) PROVE MInv' BY <2>2, SearchesKeepsMembers
  <2>3. CASE Refused
    BY <2>3, IdleKeepsMembers DEF Refused, Goes, server, retries, facts
  <2>4. CASE Fetches BY <2>4, FetchesKeepsMembers
  <2>5. ASSUME NEW u \in Uids, FindsNothing(u) PROVE MInv'
    BY <2>5, AtTheCandidate, RecordFailureKeepsMembers DEF FindsNothing, server, facts
  <2>6. ASSUME NEW u \in Uids, Defers(u) \/ \E m \in Msgs : Processes(u, m) PROVE MInv'
    BY <2>6, DefersKeepsMembers, ProcessesKeepsMembers
  <2>7. CASE Maps BY <2>7, MapsKeepsMembers
  <2>8. CASE Fails
    BY <2>8, AtTheCandidate, RecordFailureKeepsMembers DEF Fails, server, facts, Holding
  <2>9. CASE Clears BY <2>9, ClearsKeepsMembers
  <2>10. CASE Snapshots BY <2>10, SnapshotsKeepsMembers
  <2>11. CASE Finishes BY <2>11, FinishesKeepsMembers
  <2>12. CASE RescanEnds
    BY <2>12, IdleKeepsMembers DEF RescanEnds, Goes, server, retries, facts
  <2> QED BY <1>6, <2>1, <2>2, <2>3, <2>4, <2>5, <2>6, <2>7, <2>8, <2>9, <2>10, <2>11, <2>12
          DEF SessionStep
<1>7. CASE Breaks
  BY <1>7, IdleKeepsMembers DEF Breaks, Goes, server, retries
<1>8. CASE UNCHANGED vars
  BY <1>8, SameKeepsMembers DEF vars, server, retries, facts
<1> QED BY <1>1, <1>2, <1>3, <1>4, <1>5, <1>6, <1>7, <1>8 DEF Next

\* Only the end of a session moves the checkpoint.
LEMMA CheckpointMoves ==
  ASSUME [Next]_vars, ~Finishes
  PROVE  UNCHANGED cp
BY DEF Next, vars, Arrives, Expunges, Renumbers, BecomesDue, Selects, Rescans, Breaks, SessionStep,
       Retires, Searches, Refused, Fetches, Defers, FindsNothing, Processes, Maps, Fails, Clears,
       Snapshots, RescanEnds

\* A step that declares a reconciliation complete is the end of a session without a
\* failure and without rows, so nothing below its checkpoint is unsettled or owed.
LEMMA StepReconciles ==
  IInv /\ BacklogFits /\ MInv /\ [Next]_vars => ReconciledComplete
<1> SUFFICES ASSUME IInv, BacklogFits, MInv, [Next]_vars,
                    cp.pending \/ cp.validity \notin {0, cp'.validity},
                    ~cp'.pending, cp'.validity = validity, NEW m \in Present, uid[m] <= cp'.last
             PROVE  /\ Settled(m)
                    /\ verdict[m] = "ready" /\ m \notin cut => Member(m)
  BY DEF ReconciledComplete, Member
<1>1. Finishes BY CheckpointMoves
<1>2. TypeOK /\ cp'.validity = s.v /\ cp'.last = s.top /\ Pending /\ Completed
  BY <1>1 DEF Finishes, IInv, Pending, Changed
<1>3. UNCHANGED <<validity, uid, rows, verdict>>
  BY <1>1 DEF Finishes, server, retries, facts
<1>4. uid[m] \in Uids /\ validity \in 1..MaxValidity /\ <<validity, uid[m]>> \in Keys
  BY <1>2, Numbers DEF Keys, TypeOK
<1>5. ~Row(uid[m]) BY <1>2, <1>4 DEF Completed, Row
<1>6. NothingForgotten' BY <1>1, NextIInv DEF IInv
<1>7. Settled(m) BY <1>3, <1>5, <1>6 DEF NothingForgotten, Settled, Row, Present
<1>8. ~Owed(m) BY <1>1, <1>2, <1>5, FinishedOwesRows
<1> QED BY <1>7, <1>8 DEF Owed

\* A reconciliation that finish_mailbox_attempt declares complete is complete: all that
\* lies below the checkpoint is archived or refused, and what is archived is a member of
\* the mailbox under its new UID, except for what a rescan has cut; when the user imports
\* no history or the mailbox never has more messages than a session takes.
THEOREM ReconciliationIsComplete == Spec => (BacklogFits => ReconciledIsComplete)
<1>1. CASE ~BacklogFits BY <1>1
<1>2. CASE BacklogFits
  <2>1. IInv /\ MInv /\ [Next]_vars => ReconciledComplete BY <1>2, StepReconciles
  <2>2. IInv /\ MInv /\ [Next]_vars => MInv' BY <1>2, NextMInv
  <2> QED BY <2>1, <2>2, InitMInv, Invariant, PTL DEF Spec, ReconciledIsComplete
<1> QED BY <1>1, <1>2
=============================================================================
