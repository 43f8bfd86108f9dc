----------------------------- MODULE MailFacts ------------------------------
(* What is written of a message once it is looked at: the package it joins, *)
(* its mailbox, the direction it shows, the mail it answers and, of a copy  *)
(* in Sent, the mail of ours that it is a copy of.  An account is looked at *)
(* by one round at a time (ReceiveLocks), each transaction commits by       *)
(* itself, the round may die between two, and the sender of a mail of ours  *)
(* archives it at any moment.                                               *)
EXTENDS Naturals

CONSTANTS
  Messages,    \* the messages at the server: the mail each is of, mailbox, Message-ID, content, raw bytes, marker, reference
  Ours,      \* mails of this program: Message-ID, content and raw bytes
  MaxLooks   \* bound: how often messages are looked at

VARIABLES
  pkg,       \* mail_packages, by Message-ID and content
  cabinet,   \* mail_package_mailboxes
  maps,      \* sent_server_mappings
  replies,   \* mail_thread_relations
  external,  \* the messages recorded as sent elsewhere
  request,   \* send_requests: state, and the package that it and its outbound message name
  look,      \* the message being looked at
  done,      \* the looks that came to their end: message, package, direction
  looks

facts == <<pkg, cabinet, maps, replies, external, request>>
vars == <<facts, look, done, looks>>

None == "none"
NoKey == <<None, None>>
Boxes == {"inbox", "sent"}
\* stable_package_id
Key(x) == <<x.mid, x.content>>
Keys == {Key(x) : x \in Messages \cup Ours}
\* What the evidence rests on.  The raw bytes hold the Message-ID and the content, and these belong to one mail;
\* the provider names a message; a marker is the Message-ID of the mail of ours that bears it; the copies of a
\* mail answer the same mail.
Genuine ==
  /\ \A x, y \in Messages \cup Ours : (Key(x) = Key(y) => x.mail = y.mail) /\ (x.raw = y.raw => Key(x) = Key(y))
  /\ \A c, d \in Messages : (c.pid = d.pid => c = d) /\ (c.mail = d.mail => c.ref = d.ref)
  /\ \A c \in Messages : c.box \in Boxes /\ (c.marker # None => \E o \in Ours : o.mid = c.marker /\ o.mail = c.mail)
  /\ \A o, p \in Ours : o.mail = p.mail \/ o.mid = p.mid => o = p
  /\ (\A x \in Messages \cup Ours : x.mid # None) /\ (\A c \in Messages : c.pid # None)

NoPackage == [there |-> FALSE, raw |-> None, marker |-> None, pid |-> None, direction |-> None, conflict |-> FALSE]
NoMatch == [status |-> "unmatched", key |-> NoKey, ours |-> {}]
Idle == [at |-> "idle", copy |-> None, match |-> NoMatch, key |-> NoKey]

Init ==
  /\ pkg = [k \in Keys |-> NoPackage]
  /\ cabinet = {} /\ maps = {} /\ replies = {} /\ external = {}
  /\ request = [o \in Ours |-> [state |-> "sending", key |-> NoKey]]
  /\ look = Idle /\ done = {} /\ looks = 0

There == {k \in Keys : pkg[k].there}
Outbound == {k \in There : pkg[k].direction = "outbound"}
Goes(where) == look' = [look EXCEPT !.at = where]

-----------------------------------------------------------------------------
\* SMTP takes a mail of ours: from here on a copy of it may be recognised before it is archived.
Accepts(o) ==
  /\ request[o].state = "sending"
  /\ request' = [request EXCEPT ![o].state = "accepted"]
  /\ UNCHANGED <<pkg, cabinet, maps, replies, external, look, done, looks>>

\* The sender archives it, unless a copy of it was archived before, and names the package.
ArchivesOurs(o) ==
  /\ request[o].state = "accepted"
  /\ pkg' = IF pkg[Key(o)].there THEN pkg
            ELSE [pkg EXCEPT ![Key(o)] = [NoPackage EXCEPT !.there = TRUE, !.raw = o.raw, !.marker = o.mid, !.direction = "outbound"]]
  /\ request' = [request EXCEPT ![o] = [state |-> "sent", key |-> Key(o)]]
  /\ UNCHANGED <<cabinet, maps, replies, external, look, done, looks>>

\* infer_direction: the role of the mailbox decides, the sender is evidence only
Direction(c) == IF c.box = "sent" THEN "outbound" ELSE "inbound"

Alone(S) == \E k \in S : S = {k}
Several(S) == \E k, j \in S : k # j

-----------------------------------------------------------------------------
\* The evidence of find_sent_candidate, strongest first
ByMarker(c) == {k \in Outbound : c.marker # None /\ pkg[k].marker = c.marker}
ByProvider(c) == {s.key : s \in {x \in maps : x.pid = c.pid}}
ByRaw(c) == {k \in Outbound : pkg[k].raw = c.raw}
ByMid(c) == {k \in Outbound : k[1] = c.mid}
\* ... and those with its content, sender, recipients and subject, within the window
Composite(c) == {k \in ByMid(c) : k[2] = c.content}

Strongest(c) == IF ByMarker(c) # {} THEN ByMarker(c) ELSE IF ByProvider(c) # {} THEN ByProvider(c) ELSE ByRaw(c)
AgreeAnyway(c, k) == TRUE
\* all the strong evidence that there is names the same package
Agree(c, k) == \A S \in {ByMarker(c), ByProvider(c), ByRaw(c)} : S = {} \/ k \in S
WeakAny(c) == Alone(ByMid(c))
\* without any, one Message-ID and the same content
Weak(c) == Alone(ByMid(c)) /\ Composite(c) = ByMid(c)

\* decide_reconciliation_candidate
Decides(c) ==
  LET One(S) == CHOOSE k \in S : TRUE
      Matched(S) == [NoMatch EXCEPT !.status = "matched", !.key = One(S)]
      Ambiguous == [NoMatch EXCEPT !.status = "ambiguous"]
  IN IF Strongest(c) # {}
     THEN IF Alone(Strongest(c)) /\ Agree(c, One(Strongest(c))) THEN Matched(Strongest(c)) ELSE Ambiguous
     ELSE IF Several(ByMid(c)) THEN Ambiguous
     ELSE IF Weak(c) THEN Matched(ByMid(c)) ELSE NoMatch

\* _find_recoverable_send_request: mails of ours that were accepted and have no package yet, by raw bytes
\* or by Message-ID with the same content
Accepted == {o \in Ours : request[o].state = "accepted" /\ request[o].key = NoKey}
SameRaw(c) == {o \in Accepted : o.raw = c.raw}
SameMid(c) == {o \in Accepted : o.mid = c.mid}
Finds(c) ==
  LET raws == SameRaw(c)
      mids == SameMid(c)
      one == IF raws # {} THEN raws ELSE {o \in mids : o.content = c.content}
  IN IF Several(raws) \/ (raws = {} /\ Several(mids)) \/ (mids # {} /\ ByMid(c) # {} /\ one = {})
     THEN [NoMatch EXCEPT !.status = "ambiguous"]
     ELSE IF one # {} THEN [NoMatch EXCEPT !.status = "matched", !.ours = one] ELSE NoMatch

\* find_sent_candidate
Candidate(c) == IF Decides(c).status = "unmatched" THEN Finds(c) ELSE Decides(c)

\* get_mail_package_by_identity: by the provider's name of it, then by Message-ID with raw bytes or content
Same(c) ==
  LET known == {k \in There : pkg[k].pid = c.pid}
      raws == {k \in There : k[1] = c.mid /\ pkg[k].raw = c.raw}
  IN IF known # {} THEN known ELSE IF raws # {} THEN raws
     ELSE {k \in There : k = Key(c)}

Looks(c) ==
  /\ look.at = "idle" /\ looks < MaxLooks
  /\ looks' = looks + 1
  /\ LET match == IF Direction(c) = "outbound" THEN Candidate(c) ELSE NoMatch
         same == Same(c)
         key == IF match.key # NoKey THEN match.key
                ELSE IF Alone(same) THEN CHOOSE k \in same : TRUE ELSE Key(c)
     IN look' = [at |-> "store", copy |-> c, match |-> match, key |-> key]
  /\ UNCHANGED <<facts, done>>

\* prepare_request_sent_observation gives the copy the name that the mail of ours has
Marker == IF look.match.ours # {} THEN (CHOOSE o \in look.match.ours : TRUE).mid ELSE look.copy.marker

\* a package that is not there yet is archived with the direction of this message
Stores ==
  /\ look.at = "store"
  /\ pkg' = IF pkg[look.key].there THEN pkg
            ELSE [pkg EXCEPT ![look.key] = [NoPackage EXCEPT !.there = TRUE, !.raw = look.copy.raw,
                    !.pid = look.copy.pid, !.marker = Marker, !.direction = Direction(look.copy)]]
  /\ Goes("file")
  /\ UNCHANGED <<cabinet, maps, replies, external, request, done, looks>>

Files ==
  /\ look.at = "file"
  /\ cabinet' = cabinet \cup {[key |-> look.key, box |-> look.copy.box]}
  /\ Goes("evidence")
  /\ UNCHANGED <<pkg, maps, replies, external, request, done, looks>>

ConflictNow(k, d) == pkg[k].direction # d
\* once raised it stays
Conflict(k, d) == pkg[k].conflict \/ pkg[k].direction # d
\* record_direction_evidence
Evidences ==
  /\ look.at = "evidence"
  /\ pkg' = [pkg EXCEPT ![look.key].conflict = Conflict(look.key, Direction(look.copy))]
  /\ Goes("relate")
  /\ UNCHANGED <<cabinet, maps, replies, external, request, done, looks>>

Named(mid) == {k \in There : k[1] = mid}
\* mails of ours come first
FirstParent(mid) ==
  IF Named(mid) = {} THEN {}
  ELSE LET ours == {k \in Named(mid) : \E o \in Ours : request[o].key = k} IN
       {CHOOSE k \in Named(mid) : ours = {} \/ k \in ours}
\* find_package_by_message_id: a Message-ID that two packages bear names none
Parent(mid) == IF Alone(Named(mid)) THEN Named(mid) ELSE {}
Relates ==
  /\ look.at = "relate"
  /\ replies' = replies \cup {<<look.key, k>> : k \in Parent(look.copy.ref) \ {look.key}}
  /\ Goes(IF look.copy.box = "sent" THEN "map" ELSE "end")
  /\ UNCHANGED <<pkg, cabinet, maps, external, request, done, looks>>

\* record_sent_mapping; a mapping of the same message and package is replaced
Mapping(status, by) == [key |-> look.key, pid |-> look.copy.pid, box |-> look.copy.box, status |-> status, by |-> by]
Others == {s \in maps : ~(s.key = look.key /\ s.pid = look.copy.pid)}

\* ... and reconcile_sent_observation makes the package that of the mail of ours which names it or was found
Told(key) == {o \in Ours : request[o].key = key \/ o \in look.match.ours}
Maps ==
  /\ look.at = "map"
  /\ IF look.match.status = "ambiguous"
     THEN maps' = Others \cup {Mapping("ambiguous", "review")} /\ UNCHANGED <<pkg, request>>
     ELSE LET told == Told(look.key) IN
          /\ maps' = Others \cup {Mapping("matched", IF look.match.status = "matched" THEN "evidence" ELSE "observation")}
          /\ request' = [o \in Ours |-> IF o \notin told THEN request[o]
                ELSE [state |-> "sent", key |-> IF request[o].key = NoKey THEN look.key ELSE request[o].key]]
          /\ pkg' = IF told = {} THEN pkg
                ELSE [pkg EXCEPT ![look.key].direction = "outbound", ![look.key].marker = (CHOOSE o \in told : TRUE).mid]
  /\ Goes(IF look.match.status = "unmatched" THEN "external" ELSE "end")
  /\ UNCHANGED <<cabinet, replies, external, done, looks>>

RecordsExternal ==
  /\ look.at = "external"
  /\ external' = external \cup {look.copy.pid}
  /\ Goes("end")
  /\ UNCHANGED <<pkg, cabinet, maps, replies, request, done, looks>>

Ends ==
  /\ look.at = "end"
  /\ done' = done \cup {<<look.copy, look.key>>}
  /\ look' = Idle
  /\ UNCHANGED <<facts, looks>>

Dies ==
  /\ look.at # "idle"
  /\ look' = Idle
  /\ UNCHANGED <<facts, done, looks>>

Next ==
  \/ \E o \in Ours : Accepts(o) \/ ArchivesOurs(o)
  \/ \E c \in Messages : Looks(c)
  \/ Stores \/ Files \/ Evidences \/ Relates \/ Maps \/ RecordsExternal \/ Ends \/ Dies

Spec == Init /\ [][Next]_vars

TypeOK ==
  /\ look.at \in {"idle", "store", "file", "evidence", "relate", "map", "external", "end"}
  /\ \A k \in Keys : pkg[k].direction \in {None, "inbound", "outbound"}
  /\ \A s \in maps : s.key \in There
  /\ cabinet \subseteq [key : There, box : Boxes] /\ \A o \in Ours : request[o].key \in There \cup {NoKey}

\* What was matched by evidence is a copy of that very mail, whatever the provider rewrote of it and however
\* alike two mails of ours are.
MatchIsTrue ==
  \A s \in maps : s.by = "evidence" =>
    \E c \in Messages : c.pid = s.pid /\ \E x \in Messages \cup Ours : Key(x) = s.key /\ x.mail = c.mail

\* A message that was matched with one package is never matched with another later: evidence that disagrees
\* leaves it to the owner.
NeverSwitches ==
  \A s \in maps : \A t \in maps : s.pid = t.pid /\ s.status = "matched" /\ t.status = "matched" => s.key = t.key

\* A package whose messages showed both directions is flagged for ever.
DisagreementIsFlagged ==
  \A x \in done : \A y \in done : x[2] = y[2] /\ Direction(x[1]) # Direction(y[1]) => pkg[x[2]].conflict

\* A reply names one mail at most, and that one bears the Message-ID it refers to.
OneParent ==
  /\ \A r \in replies : \A q \in replies : r[1] = q[1] => r = q
  /\ \A r \in replies : r[1] # r[2] /\ \E c \in Messages : c.ref = r[2][1]
=============================================================================
