------------------------- MODULE AvailabilityProofs -------------------------
(***************************************************************************)
(* Proofs about Availability, for any observers, bucket size and evidence. *)
(*                                                                         *)
(* The incident table and its audit trail are kept by one invariant, Book: *)
(* each way to write them (closing, updating, creating) is a lemma, and    *)
(* the actions of the engine and of the binding are instances of these.    *)
(***************************************************************************)
EXTENDS Availability, FiniteSetTheorems, WellFoundedInduction, TLAPS

\* No revision is of an incident that does not exist.
RevisionsBelong == \A r \in revisions : r.incident \in DOMAIN incidents

Book ==
  /\ incidents \in Seq(Incident) /\ revisions \subseteq Revision
  /\ RevisionsAreComplete
  /\ RevisionsBelong
  /\ OneIncidentPerStart
  /\ IncidentsEndAfterStart

\* The bucket of any instant the clock shows is a bucket the tables know.
LEMMA BucketOfTime ==
  ASSUME NEW t \in Size .. MaxTime
  PROVE  Bucket(t) \in Buckets
<1>1. t \div Size \in Nat /\ t \div Size >= 1
  BY AvailabilityAssumption
<1>2. (t \div Size) * Size # 0
  BY <1>1, AvailabilityAssumption
<1>3. QED
  BY <1>2, AvailabilityAssumption DEF Bucket, Buckets

\* Buckets are positive instants.
LEMMA BucketsArePositive ==
  Buckets \subseteq Nat \ {0}
<1>1. ASSUME NEW t \in 0 .. MaxTime
      PROVE  Bucket(t) \in Nat
  <2>1. t \div Size \in Nat
    BY AvailabilityAssumption
  <2>2. QED
    BY <2>1, AvailabilityAssumption DEF Bucket
<1>2. QED
  BY <1>1 DEF Buckets

\* FunctionIsSeq: the library's theorem on comprehensions, for a function.
LEMMA FunctionIsSeq ==
  ASSUME NEW S, NEW n \in Nat, NEW f, f = [i \in 1 .. n |-> f[i]],
         \A i \in 1 .. n : f[i] \in S
  PROVE  f \in Seq(S)
<1>1. f \in [1 .. n -> S]
  OBVIOUS
<1>2. QED
  BY <1>1

\* IncidentTyped: the fields of a row of the incident table.
LEMMA IncidentTyped ==
  ASSUME Book, NEW i \in DOMAIN incidents
  PROVE  /\ incidents[i] \in Incident
         /\ incidents[i].startedAt \in Buckets /\ incidents[i].startedAt \in Nat \ {0}
         /\ incidents[i].endedAt \in Nat
         /\ incidents[i].revision \in Nat \ {0}
         /\ DOMAIN incidents = 1 .. Len(incidents) /\ Len(incidents) \in Nat
         /\ i \in 1 .. Len(incidents) /\ i \in Nat \ {0}
<1>1. /\ DOMAIN incidents = 1 .. Len(incidents) /\ Len(incidents) \in Nat
      /\ incidents[i] \in Incident
  BY DEF Book
<1>2. /\ incidents[i].startedAt \in Buckets /\ incidents[i].endedAt \in Nat
      /\ incidents[i].revision \in Nat \ {0}
  BY <1>1 DEF Incident
<1>3. incidents[i].startedAt \in Nat \ {0}
  BY <1>2, BucketsArePositive
<1>4. i \in 1 .. Len(incidents) /\ i \in Nat \ {0}
  BY <1>1
<1>5. QED
  BY <1>1, <1>2, <1>3, <1>4

\* What any change of the incident table but a new row must show to keep it
\* apart from its audit trail: every incident keeps its start, and ends after it.
LEMMA EndsKeep ==
  ASSUME Book,
         incidents' \in Seq(Incident), DOMAIN incidents' = DOMAIN incidents,
         \A i \in DOMAIN incidents :
            /\ incidents'[i].startedAt = incidents[i].startedAt
            /\ \/ incidents'[i].endedAt = incidents[i].endedAt
               \/ incidents'[i].endedAt = 0
               \/ incidents'[i].endedAt >= incidents[i].startedAt
  PROVE  OneIncidentPerStart' /\ IncidentsEndAfterStart'
<1>1. OneIncidentPerStart'
  BY DEF Book, OneIncidentPerStart
<1>2. IncidentsEndAfterStart'
  BY DEF Book, IncidentsEndAfterStart, Open
<1>3. QED
  BY <1>1, <1>2

\* What CloseOpenIncidents writes.
LEMMA ClosingKeeps ==
  ASSUME Book, NEW end \in Nat,
         incidents' = CloseOpenIncidents(end), revisions' = revisions
  PROVE  Book'
<1>1. DOMAIN incidents' = DOMAIN incidents /\ DOMAIN incidents = 1 .. Len(incidents)
  BY DEF Book, CloseOpenIncidents
<1>2. ASSUME NEW i \in DOMAIN incidents
      PROVE  /\ incidents'[i] \in Incident
             /\ incidents'[i].startedAt = incidents[i].startedAt
             /\ RevisionRow(i, incidents'[i].revision, incidents'[i])
                  = RevisionRow(i, incidents[i].revision, incidents[i])
             /\ incidents'[i].revision = incidents[i].revision
             /\ \/ incidents'[i].endedAt = incidents[i].endedAt
                \/ incidents'[i].endedAt >= incidents[i].startedAt
  <2>1. incidents[i] \in Incident /\ incidents[i].startedAt \in Nat
    BY IncidentTyped
  <2>2. CASE i \in Open
    <3> DEFINE e == IF end < incidents[i].startedAt THEN incidents[i].startedAt ELSE end
    <3>1. incidents'[i] = [incidents[i] EXCEPT !.endedAt = e]
      BY <2>2 DEF CloseOpenIncidents
    <3>2. e \in Nat /\ e >= incidents[i].startedAt
      BY <2>1
    <3> HIDE DEF e
    <3>3. QED
      BY <2>1, <3>1, <3>2 DEF Incident, RevisionRow
  <2>3. CASE i \notin Open
    <3>1. incidents'[i] = incidents[i]
      BY <2>3 DEF CloseOpenIncidents
    <3>2. QED
      BY <2>1, <3>1
  <2>4. QED
    BY <2>2, <2>3
<1>3. incidents' \in Seq(Incident)
  <2>1. incidents' = [i \in 1 .. Len(incidents) |-> incidents'[i]]
    BY <1>1 DEF CloseOpenIncidents
  <2>2. Len(incidents) \in Nat
    BY DEF Book
  <2>3. QED
    BY <1>1, <1>2, <2>1, <2>2, FunctionIsSeq
<1>4. RevisionsAreComplete' /\ RevisionsBelong'
  BY <1>1, <1>2 DEF Book, RevisionsAreComplete, RevisionsBelong
<1>5. OneIncidentPerStart' /\ IncidentsEndAfterStart'
  BY <1>1, <1>2, <1>3, EndsKeep
<1>6. QED
  BY <1>3, <1>4, <1>5 DEF Book

\* What applyIncidentUpdate writes: a revision, or a new end alone.
LEMMA UpdateKeeps ==
  ASSUME Book, NEW i \in DOMAIN incidents, NEW row \in Row, NEW end \in Nat,
         end = 0 \/ end >= incidents[i].startedAt,
         ApplyIncidentUpdate(i, row, end)
  PROVE  Book'
<1> DEFINE inc == incidents[i]
           new == incidents'[i]
<1>1. /\ inc \in Incident /\ inc.revision \in Nat \ {0} /\ inc.startedAt \in Buckets
      /\ row.state \in States /\ row.summary \in Summary
      /\ i \in 1 .. Len(incidents) /\ i \in Nat \ {0} /\ Len(incidents) \in Nat
      /\ DOMAIN incidents = 1 .. Len(incidents)
  BY IncidentTyped DEF Row
<1>2. CASE inc.state = row.state /\ inc.summary = row.summary
  <2>1. incidents' = [incidents EXCEPT ![i] = [inc EXCEPT !.endedAt = end]] /\ revisions' = revisions
    BY <1>2 DEF ApplyIncidentUpdate
  <2>2. [inc EXCEPT !.endedAt = end] \in Incident
    BY <1>1 DEF Incident
  <2>3. /\ incidents' \in Seq(Incident) /\ DOMAIN incidents' = DOMAIN incidents
        /\ \A j \in DOMAIN incidents : incidents'[j] = IF j = i THEN [inc EXCEPT !.endedAt = end] ELSE incidents[j]
    BY <1>1, <2>1, <2>2 DEF Book
  <2>4. /\ new.startedAt = inc.startedAt /\ new.state = inc.state /\ new.summary = inc.summary
        /\ new.revision = inc.revision /\ new.endedAt = end
    BY <1>1, <2>3 DEF Incident
  <2>5. RevisionsAreComplete' /\ RevisionsBelong'
    BY <2>1, <2>3, <2>4 DEF Book, RevisionsAreComplete, RevisionsBelong, RevisionRow
  <2>6. OneIncidentPerStart' /\ IncidentsEndAfterStart'
    BY <2>3, <2>4, EndsKeep
  <2>7. QED
    BY <2>1, <2>3, <2>5, <2>6 DEF Book
<1>3. CASE ~(inc.state = row.state /\ inc.summary = row.summary)
  <2> DEFINE n == inc.revision + 1
             r == RevisionRow(i, n, row)
             e == [inc EXCEPT !.endedAt = end, !.state = row.state, !.revision = n, !.summary = row.summary]
  <2>1. incidents' = [incidents EXCEPT ![i] = e] /\ revisions' = revisions \cup {r}
    BY <1>3 DEF ApplyIncidentUpdate
  <2>2. e \in Incident /\ r \in Revision
    <3>1. n \in Nat \ {0}
      BY <1>1
    <3> HIDE DEF n
    <3>2. e \in Incident
      BY <1>1, <3>1 DEF Incident
    <3>3. r \in Revision
      BY <1>1, <3>1 DEF Revision, RevisionRow
    <3>4. QED
      BY <3>2, <3>3
  <2>3. /\ e.startedAt = inc.startedAt /\ e.state = row.state /\ e.summary = row.summary
        /\ e.revision = n /\ e.endedAt = end
        /\ r.incident = i /\ r.revision = n /\ RevisionRow(i, n, e) = r
    BY <1>1 DEF Incident, RevisionRow
  <2> HIDE DEF e, r
  <2>4. /\ incidents' \in Seq(Incident) /\ DOMAIN incidents' = DOMAIN incidents
        /\ \A j \in DOMAIN incidents : incidents'[j] = IF j = i THEN e ELSE incidents[j]
    BY <1>1, <2>1, <2>2 DEF Book
  <2>5. ASSUME NEW j \in DOMAIN incidents
        PROVE  LET own == {q \in revisions' : q.incident = j} IN
                 /\ {q.revision : q \in own} = 1 .. incidents'[j].revision
                 /\ \A p, q \in own : p.revision = q.revision => p = q
                 /\ RevisionRow(j, incidents'[j].revision, incidents'[j]) \in own
    <3> DEFINE old == {q \in revisions : q.incident = j}
               own == {q \in revisions' : q.incident = j}
    <3>1. /\ {q.revision : q \in old} = 1 .. incidents[j].revision
          /\ \A p, q \in old : p.revision = q.revision => p = q
          /\ RevisionRow(j, incidents[j].revision, incidents[j]) \in old
      BY DEF Book, RevisionsAreComplete
    <3>2. CASE j = i
      <4>1. own = old \cup {r}
        BY <2>1, <2>3, <3>2
      <4> HIDE DEF own, old
      <4>2. {q.revision : q \in own} = 1 .. n
        <5>1. {q.revision : q \in own} = {q.revision : q \in old} \cup {n}
          BY <2>3, <4>1
        <5>2. 1 .. n = (1 .. inc.revision) \cup {n}
          BY <1>1
        <5>3. QED
          BY <3>1, <3>2, <5>1, <5>2
      <4>3. \A q \in old : q.revision # n
        <5>1. \A q \in old : q.revision \in 1 .. inc.revision
          BY <3>1, <3>2
        <5>2. n \notin 1 .. inc.revision
          BY <1>1
        <5>3. QED
          BY <5>1, <5>2
      <4>4. \A p, q \in own : p.revision = q.revision => p = q
        BY <2>3, <3>1, <4>1, <4>3
      <4>5. RevisionRow(j, incidents'[j].revision, incidents'[j]) \in own
        BY <2>3, <2>4, <3>2, <4>1
      <4>6. QED
        BY <2>3, <2>4, <3>2, <4>2, <4>4, <4>5 DEF own
    <3>3. CASE j # i
      <4>1. own = old
        BY <2>1, <2>3, <3>3
      <4>2. incidents'[j] = incidents[j]
        BY <2>4, <3>3
      <4>3. QED
        BY <3>1, <4>1, <4>2
    <3>4. QED
      BY <3>2, <3>3
  <2>6. RevisionsAreComplete' /\ RevisionsBelong'
    <3>1. RevisionsAreComplete'
      BY <2>4, <2>5 DEF RevisionsAreComplete
    <3>2. RevisionsBelong'
      BY <2>1, <2>3, <2>4 DEF Book, RevisionsBelong
    <3>3. QED
      BY <3>1, <3>2
  <2>7. OneIncidentPerStart' /\ IncidentsEndAfterStart'
    BY <2>3, <2>4, EndsKeep
  <2>8. QED
    BY <2>1, <2>2, <2>4, <2>6, <2>7 DEF Book
<1>4. QED
  BY <1>2, <1>3

\* What createIncident writes, for a bucket with which no incident starts.
LEMMA CreateKeeps ==
  ASSUME Book, NEW b \in Buckets, NEW row \in Row,
         \A i \in DOMAIN incidents : incidents[i].startedAt # b,
         CreateIncident(b, row)
  PROVE  Book'
<1> DEFINE L == Len(incidents)
           e == [startedAt |-> b, endedAt |-> 0, state |-> row.state, revision |-> 1, summary |-> row.summary]
           r == RevisionRow(L + 1, 1, row)
<1>1. incidents' = Append(incidents, e) /\ revisions' = revisions \cup {r}
  BY DEF CreateIncident
<1>2. L \in Nat /\ DOMAIN incidents = 1 .. L
  BY DEF Book
<1>3. e \in Incident /\ r \in Revision
  <2>1. row.state \in States /\ row.summary \in Summary
    BY DEF Row
  <2>2. e \in Incident
    BY <2>1 DEF Incident
  <2>3. r \in Revision
    BY <1>2, <2>1 DEF Revision, RevisionRow
  <2>4. QED
    BY <2>2, <2>3
<1>4. /\ e.startedAt = b /\ e.endedAt = 0 /\ e.revision = 1
      /\ r.incident = L + 1 /\ r.revision = 1 /\ RevisionRow(L + 1, 1, e) = r
  BY DEF RevisionRow
<1> HIDE DEF e, r
<1>5. incidents' \in Seq(Incident) /\ DOMAIN incidents' = 1 .. L + 1
  BY <1>1, <1>2, <1>3 DEF Book
<1>6. incidents'[L + 1] = e /\ \A i \in 1 .. L : incidents'[i] = incidents[i]
  BY <1>1, <1>2 DEF Book
<1>7. RevisionsAreComplete'
  <2>1. ASSUME NEW i \in 1 .. L + 1
        PROVE  LET own == {q \in revisions' : q.incident = i} IN
                 /\ {q.revision : q \in own} = 1 .. incidents'[i].revision
                 /\ \A p, q \in own : p.revision = q.revision => p = q
                 /\ RevisionRow(i, incidents'[i].revision, incidents'[i]) \in own
    <3> DEFINE own == {q \in revisions' : q.incident = i}
    <3>1. CASE i = L + 1
      <4>1. \A q \in revisions : q.incident # i
        BY <1>2, <3>1 DEF Book, RevisionsBelong
      <4>2. own = {r}
        BY <1>1, <1>4, <3>1, <4>1
      <4> HIDE DEF own
      <4>3. {q.revision : q \in own} = {1}
        BY <1>4, <4>2
      <4>4. QED
        BY <1>4, <1>6, <3>1, <4>2, <4>3 DEF own
    <3>2. CASE i # L + 1
      <4>1. i \in 1 .. L
        BY <1>2, <3>2
      <4>2. own = {q \in revisions : q.incident = i}
        BY <1>1, <1>4, <3>2
      <4>3. QED
        BY <1>2, <1>6, <4>1, <4>2 DEF Book, RevisionsAreComplete
    <3>3. QED
      BY <3>1, <3>2
  <2>2. QED
    BY <1>5, <2>1 DEF RevisionsAreComplete
<1>8. RevisionsBelong'
  BY <1>1, <1>2, <1>4, <1>5 DEF Book, RevisionsBelong
<1>9. OneIncidentPerStart'
  <2>1. \A i \in 1 .. L + 1 : i = L + 1 \/ i \in 1 .. L
    BY <1>2
  <2>2. QED
    BY <1>2, <1>4, <1>5, <1>6, <2>1 DEF Book, OneIncidentPerStart
<1>10. IncidentsEndAfterStart'
  <2>1. \A i \in 1 .. L + 1 : i = L + 1 \/ i \in 1 .. L
    BY <1>2
  <2>2. QED
    BY <1>2, <1>4, <1>5, <1>6, <2>1 DEF Book, IncidentsEndAfterStart, Open
<1>11. QED
  BY <1>1, <1>3, <1>5, <1>7, <1>8, <1>9, <1>10 DEF Book

\* What the two lookups find: an incident that starts no later than the bucket,
\* and one that starts with it if there is one.
LEMMA LookupFinds ==
  ASSUME Book, NEW b \in Buckets
  PROVE  /\ LookupIncident(b) \subseteq DOMAIN incidents
         /\ \A i \in LookupIncident(b) : incidents[i].startedAt <= b
         /\ LookupIncident(b) = {} => \A i \in DOMAIN incidents : incidents[i].startedAt # b
         /\ LookupExtendable(b) \subseteq DOMAIN incidents
<1>1. b \in Nat
  BY BucketsArePositive
<1>2. \A S : Latest(S) \subseteq S
  BY DEF Latest
<1> DEFINE exact == {i \in DOMAIN incidents : incidents[i].startedAt = b}
           covering == {i \in DOMAIN incidents :
                          incidents[i].startedAt < b /\ (i \in Open \/ incidents[i].endedAt >= b + Size)}
<1>3. LookupIncident(b) = IF exact # {} THEN exact ELSE Latest(covering)
  BY DEF LookupIncident
<1>4. LookupExtendable(b) \subseteq DOMAIN incidents
  BY <1>2 DEF LookupExtendable, Open
<1>5. \A i \in covering : incidents[i].startedAt <= b
  BY <1>1, IncidentTyped
<1>6. Latest(covering) \subseteq covering
  BY <1>2
<1>7. \A i \in exact : incidents[i].startedAt <= b
  BY <1>1
<1>8. exact \subseteq DOMAIN incidents /\ covering \subseteq DOMAIN incidents
  OBVIOUS
<1>9. exact = {} => \A i \in DOMAIN incidents : incidents[i].startedAt # b
  OBVIOUS
<1> HIDE DEF exact, covering
<1>10. QED
  BY <1>3, <1>4, <1>5, <1>6, <1>7, <1>8, <1>9

\* A changed row, whatever it says, leaves the incidents in order.
LEMMA ReviseKeeps ==
  ASSUME Book, NEW b \in Buckets, NEW row \in Row, ReviseIncident(b, row)
  PROVE  Book'
<1> DEFINE found == LookupIncident(b)
           known == IF found # {} THEN found ELSE LookupExtendable(b)
<1>1. /\ found \subseteq DOMAIN incidents /\ known \subseteq DOMAIN incidents
      /\ \A i \in found : incidents[i].startedAt <= b
      /\ found = {} => \A i \in DOMAIN incidents : incidents[i].startedAt # b
  BY LookupFinds
<1>2. b \in Nat /\ b + Size \in Nat /\ b + Size >= b
  BY BucketsArePositive, AvailabilityAssumption
<1>3. CASE UNCHANGED incidentVars
  BY <1>3 DEF incidentVars, Book, RevisionsAreComplete, RevisionsBelong, OneIncidentPerStart,
              IncidentsEndAfterStart, Open
<1>4. ASSUME NEW i \in found, incidents[i].startedAt = b, ApplyIncidentUpdate(i, row, b + Size)
      PROVE  Book'
  BY <1>1, <1>2, <1>4, UpdateKeeps
<1>5. ASSUME NEW i \in found,
             incidents' = [incidents EXCEPT ![i].endedAt = IF @ = 0 \/ @ > b THEN b ELSE @],
             revisions' = revisions
      PROVE  Book'
  <2> DEFINE inc == incidents[i]
             t   == IF inc.endedAt = 0 \/ inc.endedAt > b THEN b ELSE inc.endedAt
             e   == [inc EXCEPT !.endedAt = t]
  <2>1. i \in DOMAIN incidents /\ inc.startedAt <= b
    BY <1>1
  <2>2. inc \in Incident /\ inc.endedAt \in Nat /\ inc.startedAt \in Nat /\ DOMAIN incidents = 1 .. Len(incidents)
    BY <2>1, IncidentTyped
  <2>3. t \in Nat /\ (t = inc.endedAt \/ t >= inc.startedAt)
    BY <1>2, <2>1, <2>2
  <2>4. incidents' = [incidents EXCEPT ![i] = e]
    BY <1>5
  <2> HIDE DEF t
  <2>5. /\ e \in Incident /\ e.startedAt = inc.startedAt /\ e.endedAt = t /\ e.state = inc.state
        /\ e.summary = inc.summary /\ e.revision = inc.revision
    BY <2>2, <2>3 DEF Incident
  <2> HIDE DEF e
  <2>6. /\ incidents' \in Seq(Incident) /\ DOMAIN incidents' = DOMAIN incidents
        /\ \A j \in DOMAIN incidents : incidents'[j] = IF j = i THEN e ELSE incidents[j]
    BY <2>1, <2>2, <2>4, <2>5 DEF Book
  <2>7. RevisionsAreComplete' /\ RevisionsBelong'
    BY <1>5, <2>5, <2>6 DEF Book, RevisionsAreComplete, RevisionsBelong, RevisionRow
  <2>8. OneIncidentPerStart' /\ IncidentsEndAfterStart'
    BY <2>3, <2>5, <2>6, EndsKeep
  <2>9. QED
    BY <1>5, <2>6, <2>7, <2>8 DEF Book
<1>6. ASSUME NEW i \in known, ApplyIncidentUpdate(i, row, 0)
      PROVE  Book'
  BY <1>1, <1>6, UpdateKeeps
<1>7. CASE known = {} /\ CreateIncident(b, row)
  BY <1>1, <1>7, CreateKeeps
<1>8. \/ UNCHANGED incidentVars
      \/ \E i \in found : incidents[i].startedAt = b /\ ApplyIncidentUpdate(i, row, b + Size)
      \/ \E i \in found : /\ incidents' = [incidents EXCEPT ![i].endedAt = IF @ = 0 \/ @ > b THEN b ELSE @]
                          /\ revisions' = revisions
      \/ \E i \in known : ApplyIncidentUpdate(i, row, 0)
      \/ known = {} /\ CreateIncident(b, row)
  BY DEF ReviseIncident
<1>9. QED
  BY <1>3, <1>4, <1>5, <1>6, <1>7, <1>8

------------------------------------------------------------------------------
(* The invariant of the engine.                                             *)

IInv == TypeOK /\ Book

\* Nothing but the engine and the end of a binding writes incidents.
LEMMA BookUnchanged ==
  ASSUME Book, UNCHANGED incidentVars
  PROVE  Book'
BY DEF incidentVars, Book, RevisionsAreComplete, RevisionsBelong, OneIncidentPerStart,
       IncidentsEndAfterStart, Open

\* The row that Recompute writes is a row, and what it writes keeps Book.
LEMMA RecomputeKeeps ==
  ASSUME IInv, NEW b \in Buckets, RecomputeBucket(b)
  PROVE  rows' \in [Buckets -> Row \cup {NoRow}] /\ Book'
<1> DEFINE summary == [o \in Assigned(b) |-> View(o, b)]
           closed  == b + Size <= now
           state   == Classify(summary, closed)
           old     == rows[b]
           changed == IF old = NoRow THEN TRUE ELSE old.state # state \/ old.summary # summary
           n       == IF old = NoRow THEN 1 ELSE IF changed THEN old.revision + 1 ELSE old.revision
           row     == [state |-> state, summary |-> summary, closed |-> closed, revision |-> n]
<1>1. summary \in Summary
  <2>1. Assigned(b) \in SUBSET Observers
    BY DEF Assigned
  <2>2. \A o : View(o, b) \in Views
    BY DEF View, Views
  <2>3. summary \in [Assigned(b) -> Views]
    BY <2>2
  <2>4. QED
    BY <2>1, <2>3 DEF Summary
<1>2. state \in States
  BY DEF Classify, States
<1>3. closed \in BOOLEAN
  OBVIOUS
<1>4. n \in Nat \ {0}
  <2>1. old \in Row \cup {NoRow}
    BY DEF IInv, TypeOK
  <2>2. old # NoRow => old.revision \in Nat \ {0}
    BY <2>1 DEF Row
  <2> HIDE DEF old, changed
  <2>3. QED
    BY <2>2
<1>5. /\ rows' = [rows EXCEPT ![b] = row]
      /\ IF changed THEN ReviseIncident(b, row) ELSE UNCHANGED incidentVars
  BY DEF RecomputeBucket
<1> HIDE DEF summary, closed, state, n, changed
<1>6. row \in Row
  BY <1>1, <1>2, <1>3, <1>4 DEF Row
<1> HIDE DEF row
<1>7. rows' \in [Buckets -> Row \cup {NoRow}]
  BY <1>5, <1>6 DEF IInv, TypeOK
<1>8. Book'
  <2>1. Book
    BY DEF IInv
  <2>2. CASE ReviseIncident(b, row)
    BY <1>6, <2>1, <2>2, ReviseKeeps
  <2>3. CASE UNCHANGED incidentVars
    BY <2>1, <2>3, BookUnchanged
  <2>4. QED
    BY <1>5, <2>2, <2>3
<1>9. QED
  BY <1>7, <1>8

\* The instants the clock shows are among those BucketOfTime speaks of.
LEMMA BucketOfNow ==
  ASSUME TypeOK
  PROVE  /\ Bucket(now) \in Buckets /\ now \in Nat \ {0}
         /\ tick # 0 => Bucket(tick) \in Buckets
         /\ \A f \in Facts : f.bucket \in Buckets /\ f.observer \in Observers
<1>1. \A t \in BoundAt .. MaxTime : t \in Size .. MaxTime /\ t \in Nat \ {0}
  BY AvailabilityAssumption
<1>2. \A t \in BoundAt .. MaxTime : Bucket(t) \in Buckets
  BY <1>1, BucketOfTime
<1>3. now \in BoundAt .. MaxTime /\ (tick # 0 => tick \in BoundAt .. MaxTime)
  BY DEF TypeOK
<1>4. ASSUME NEW f \in Facts
      PROVE  f.bucket \in Buckets /\ f.observer \in Observers
  <2>1. f.observer \in Collectors /\ f.bucket \in {(t \div Size) * Size : t \in BoundAt .. MaxTime}
    BY AvailabilityAssumption
  <2>2. \E t \in BoundAt .. MaxTime : f.bucket = Bucket(t)
    BY <2>1 DEF Bucket
  <2>3. QED
    BY <1>2, <2>1, <2>2 DEF Observers
<1>5. QED
  BY <1>1, <1>2, <1>3, <1>4

\* Empty tables are in order.
LEMMA InitEstablishes ==
  Init => IInv
<1> SUFFICES ASSUME Init PROVE IInv
  OBVIOUS
<1>1. BoundAt \in BoundAt .. MaxTime
  BY AvailabilityAssumption
<1>2. TypeOK
  BY <1>1 DEF Init, TypeOK
<1>3. incidents \in Seq(Incident) /\ DOMAIN incidents = {}
  BY DEF Init
<1>4. Book
  BY <1>3 DEF Init, Book, RevisionsAreComplete, RevisionsBelong, OneIncidentPerStart,
              IncidentsEndAfterStart
<1>5. QED
  BY <1>2, <1>4 DEF IInv

\* One case per action: three write incidents, the others leave them alone.
LEMMA NextKeeps ==
  ASSUME IInv, [Next]_vars
  PROVE  IInv'
<1> USE DEF evidenceVars, loopVars
<1>0. TypeOK /\ Book
  BY DEF IInv
<1>1. CASE PrimarySees
  <2>1. TypeOK'
    BY <1>0, <1>1, BucketOfNow DEF PrimarySees, RecordPath, TypeOK, Observers, incidentVars
  <2>2. QED
    BY <1>0, <1>1, <2>1, BookUnchanged DEF PrimarySees, IInv
<1>2. CASE CollectorDelivers
  <2>1. /\ healthy' \subseteq Observers \X Buckets /\ seen' \subseteq Observers \X Buckets
        /\ queue' \subseteq Buckets /\ delivered' \subseteq Facts
    <3>1. PICK f \in Facts \ delivered :
            /\ delivered' = delivered \cup {f}
            /\ healthy' \in {healthy \cup {<<f.observer, f.bucket>>}, healthy \ {<<f.observer, f.bucket>>}}
            /\ seen' \in {seen, seen \cup {<<f.observer, f.bucket>>}}
            /\ queue' \subseteq queue \cup {f.bucket} \cup EnqueuedByHealth(f.bucket)
      BY <1>2 DEF CollectorDelivers, RecordPath
    <3>2. EnqueuedByHealth(f.bucket) \subseteq Buckets
      BY DEF EnqueuedByHealth
    <3>3. f.bucket \in Buckets /\ f.observer \in Observers
      BY <1>0, BucketOfNow
    <3>4. QED
      BY <1>0, <3>1, <3>2, <3>3 DEF TypeOK
  <2>2. TypeOK'
    BY <1>0, <1>2, <2>1 DEF CollectorDelivers, TypeOK, incidentVars
  <2>3. QED
    BY <1>0, <1>2, <2>2, BookUnchanged DEF CollectorDelivers, IInv
<1>3. CASE Advance
  <2>1. now' \in BoundAt .. MaxTime
    BY <1>0, <1>3, AvailabilityAssumption DEF Advance, TypeOK
  <2>2. tick' \in {0} \cup BoundAt .. MaxTime
    BY <1>0, <1>3, <2>1 DEF Advance, TypeOK
  <2>3. TypeOK'
    BY <1>0, <1>3, <2>1, <2>2 DEF Advance, TypeOK, incidentVars
  <2>4. QED
    BY <1>0, <1>3, <2>3, BookUnchanged DEF Advance, IInv
<1>4. CASE RecordPrimaryHealth
  <2>1. tick # 0 /\ Bucket(tick) \in Buckets /\ EnqueuedByHealth(Bucket(tick)) \subseteq Buckets
    BY <1>0, <1>4, BucketOfNow DEF RecordPrimaryHealth, EnqueuedByHealth
  <2>2. /\ healthy' \subseteq Observers \X Buckets /\ queue' \subseteq Buckets
    BY <1>0, <1>4, <2>1 DEF RecordPrimaryHealth, TypeOK, Observers
  <2>3. TypeOK'
    BY <1>0, <1>4, <2>2 DEF RecordPrimaryHealth, TypeOK, incidentVars
  <2>4. QED
    BY <1>0, <1>4, <2>3, BookUnchanged DEF RecordPrimaryHealth, IInv
<1>5. CASE ReadQueue
  <2>1. todo' \subseteq queue
    BY <1>5 DEF ReadQueue
  <2>2. TypeOK'
    BY <1>0, <1>5, <2>1 DEF ReadQueue, TypeOK, incidentVars
  <2>3. QED
    BY <1>0, <1>5, <2>2, BookUnchanged DEF ReadQueue, IInv
<1>6. CASE Recompute
  <2>1. PICK b \in First(todo) : RecomputeBucket(b)
    BY <1>6 DEF Recompute
  <2>2. b \in Buckets
    BY <1>0, <2>1 DEF First, TypeOK
  <2>3. rows' \in [Buckets -> Row \cup {NoRow}] /\ Book'
    BY <2>1, <2>2, RecomputeKeeps
  <2>4. TypeOK'
    BY <1>0, <1>6, <2>3 DEF Recompute, TypeOK, Book
  <2>5. QED
    BY <2>3, <2>4 DEF IInv
<1>7. CASE DeleteItem
  <2>1. TypeOK'
    BY <1>0, <1>7 DEF DeleteItem, First, TypeOK, incidentVars
  <2>2. QED
    BY <1>0, <1>7, <2>1, BookUnchanged DEF DeleteItem, IInv
<1>8. CASE CloseStaleIncidents
  <2>1. Book'
    <3>1. CASE StaleEnd = {}
      BY <1>0, <1>8, <3>1, BookUnchanged DEF CloseStaleIncidents, incidentVars
    <3>2. CASE StaleEnd # {}
      <4> DEFINE end == CHOOSE t \in StaleEnd : TRUE
      <4>1. StaleEnd \subseteq Nat
        <5>1. LatestClosedBucket \subseteq Nat
          BY BucketsArePositive DEF LatestClosedBucket
        <5>2. until \in Nat
          BY <1>0, AvailabilityAssumption DEF TypeOK
        <5>3. QED
          BY <5>1, <5>2 DEF StaleEnd
      <4>2. end \in Nat
        BY <3>2, <4>1
      <4>3. incidents' = CloseOpenIncidents(end) /\ revisions' = revisions
        BY <1>8, <3>2 DEF CloseStaleIncidents
      <4> HIDE DEF end
      <4>4. QED
        BY <1>0, <4>2, <4>3, ClosingKeeps
    <3>3. QED
      BY <3>1, <3>2
  <2>2. TypeOK'
    BY <1>0, <1>8, <2>1 DEF CloseStaleIncidents, TypeOK, Book
  <2>3. QED
    BY <2>1, <2>2 DEF IInv
<1>9. CASE Busy
  <2>1. TypeOK'
    BY <1>0, <1>9 DEF Busy, TypeOK, incidentVars
  <2>2. QED
    BY <1>0, <1>9, <2>1, BookUnchanged DEF Busy, IInv
<1>10. CASE EndBinding
  <2>1. Book'
    BY <1>0, <1>10, BucketOfNow, ClosingKeeps DEF EndBinding
  <2>2. TypeOK'
    BY <1>0, <1>10, <2>1 DEF EndBinding, TypeOK, Book
  <2>3. QED
    BY <2>1, <2>2 DEF IInv
<1>11. CASE Restart
  <2>1. TypeOK'
    BY <1>0, <1>11 DEF Restart, TypeOK, incidentVars
  <2>2. QED
    BY <1>0, <1>11, <2>1, BookUnchanged DEF Restart, IInv
<1>12. CASE UNCHANGED vars
  <2>1. TypeOK'
    BY <1>0, <1>12 DEF vars, TypeOK
  <2>2. QED
    BY <1>0, <1>12, <2>1, BookUnchanged DEF vars, incidentVars, IInv
<1>13. QED
  BY <1>1, <1>2, <1>3, <1>4, <1>5, <1>6, <1>7, <1>8, <1>9, <1>10, <1>11, <1>12 DEF Next

\* InvariantHolds: the tables are typed and the incidents in order, always.
THEOREM InvariantHolds == Spec => []IInv
<1>1. QED
  BY InitEstablishes, NextKeeps, PTL DEF Spec

\* TypeCorrect: the tables hold what TypeOK says, and ProcessQueue holds work
\* exactly while it runs.
THEOREM TypeCorrect == Spec => []TypeOK
<1>1. IInv => TypeOK
  BY DEF IInv
<1>2. QED
  BY <1>1, InvariantHolds, PTL

\* AuditTrailComplete: no incident is changed without its revision, whatever
\* the order in which evidence, corrections and endings come.
THEOREM AuditTrailComplete == Spec => []RevisionsAreComplete
<1>1. IInv => RevisionsAreComplete
  BY DEF IInv, Book
<1>2. QED
  BY <1>1, InvariantHolds, PTL

\* StartsAreDistinct: one incident per starting bucket.
THEOREM StartsAreDistinct == Spec => []OneIncidentPerStart
<1>1. IInv => OneIncidentPerStart
  BY DEF IInv, Book
<1>2. QED
  BY <1>1, InvariantHolds, PTL

\* EndsFollowStarts: no incident ends before it starts.
THEOREM EndsFollowStarts == Spec => []IncidentsEndAfterStart
<1>1. IInv => IncidentsEndAfterStart
  BY DEF IInv, Book
<1>2. QED
  BY <1>1, InvariantHolds, PTL

------------------------------------------------------------------------------
(* Buckets and the clock.                                                   *)

\* MultiplesAreApart: multiples of the bucket size are ordered as their factors.
LEMMA MultiplesAreApart ==
  ASSUME NEW x \in Int, NEW y \in Int, x * Size <= y * Size
  PROVE  x <= y
<1>1. SUFFICES ASSUME x >= y + 1 PROVE FALSE
  OBVIOUS
<1>2. x * Size >= (y + 1) * Size
  BY <1>1, AvailabilityAssumption
<1>3. (y + 1) * Size = y * Size + Size
  BY AvailabilityAssumption
<1>4. x * Size \in Int /\ y * Size \in Int /\ Size \in Int /\ Size > 0
  BY AvailabilityAssumption
<1>5. QED
  <2> DEFINE p == x * Size
             q == y * Size
  <2>1. p \in Int /\ q \in Int /\ p <= q /\ p >= q + Size
    BY <1>2, <1>3, <1>4
  <2> HIDE DEF p, q
  <2>2. QED
    BY <1>4, <2>1

\* BucketBounds: an instant lies in its bucket.
LEMMA BucketBounds ==
  ASSUME NEW t \in Nat
  PROVE  Bucket(t) \in Int /\ Bucket(t) <= t /\ t < Bucket(t) + Size
BY AvailabilityAssumption DEF Bucket

\* BucketStep: an instant later it is the same bucket, or the next one begins.
LEMMA BucketStep ==
  ASSUME NEW t \in Nat
  PROVE  /\ Bucket(t + 1) # t + 1 => Bucket(t + 1) = Bucket(t)
         /\ Bucket(t + 1) = t + 1 => Bucket(t + 1) = Bucket(t) + Size
<1> DEFINE q == t \div Size
           p == (t + 1) \div Size
<1>1. q \in Int /\ p \in Int /\ q * Size \in Int /\ p * Size \in Int
  BY AvailabilityAssumption
<1>2. /\ q * Size <= t /\ t < q * Size + Size
      /\ p * Size <= t + 1 /\ t + 1 < p * Size + Size
  BY BucketBounds DEF Bucket
<1> HIDE DEF q, p
<1>3. (p + 1) * Size = p * Size + Size /\ (q + 1) * Size = q * Size + Size
  BY <1>1, AvailabilityAssumption
<1>4. q * Size <= (p + 1) * Size /\ p * Size <= (q + 1) * Size
  BY <1>1, <1>2, <1>3, AvailabilityAssumption
<1>5. CASE p * Size = t + 1
  <2>1. q * Size < p * Size
    BY <1>1, <1>2, <1>5
  <2>2. q < p
    <3>1. SUFFICES ASSUME p <= q PROVE FALSE
      BY <1>1
    <3>2. p * Size <= q * Size
      BY <1>1, <3>1, AvailabilityAssumption
    <3>3. QED
      BY <1>1, <2>1, <3>2
  <2>3. p <= q + 1
    BY <1>1, <1>4, MultiplesAreApart
  <2>4. p = q + 1
    BY <1>1, <2>2, <2>3
  <2>5. QED
    BY <1>1, <1>3, <1>5, <2>4 DEF Bucket, p, q
<1>6. CASE p * Size # t + 1
  <2>1. p * Size <= t
    BY <1>1, <1>2, <1>6
  <2>2. p * Size < (q + 1) * Size /\ q * Size < (p + 1) * Size
    BY <1>1, <1>2, <1>3, <2>1, AvailabilityAssumption
  <2>3. p = q
    <3>1. CASE p >= q + 1
      <4>1. p * Size >= (q + 1) * Size
        BY <1>1, <3>1, AvailabilityAssumption
      <4>2. QED
        BY <1>1, <1>3, <2>2, <4>1, AvailabilityAssumption
    <3>2. CASE q >= p + 1
      <4>1. q * Size >= (p + 1) * Size
        BY <1>1, <3>2, AvailabilityAssumption
      <4>2. QED
        BY <1>1, <1>3, <2>2, <4>1, AvailabilityAssumption
    <3>3. QED
      BY <1>1, <3>1, <3>2
  <2>4. QED
    BY <1>6, <2>3 DEF Bucket, p, q
<1>7. QED
  BY <1>5, <1>6

\* NextBucketOrEarlier: no bucket lies between two that follow each other.
LEMMA NextBucketOrEarlier ==
  ASSUME NEW b \in Buckets, NEW t \in Nat, b + Size <= Bucket(t)
  PROVE  b + Size = Bucket(t) \/ b + Size <= Bucket(t) - Size
<1>1. PICK u \in 0 .. MaxTime : b = Bucket(u)
  BY DEF Buckets
<1> DEFINE p == u \div Size
           q == t \div Size
<1>2. p \in Int /\ q \in Int /\ p * Size \in Int /\ q * Size \in Int
  BY AvailabilityAssumption
<1>3. b = p * Size /\ Bucket(t) = q * Size
  BY <1>1 DEF Bucket
<1> HIDE DEF p, q
<1>4. (p + 1) * Size = p * Size + Size /\ (q - 1) * Size = q * Size - Size
  BY <1>2, AvailabilityAssumption
<1>5. p + 1 <= q
  BY <1>2, <1>3, <1>4, MultiplesAreApart
<1>6. CASE p + 1 = q
  BY <1>3, <1>4, <1>6
<1>7. CASE p + 1 <= q - 1
  <2>1. (p + 1) * Size <= (q - 1) * Size
    BY <1>2, <1>7, AvailabilityAssumption
  <2>2. QED
    BY <1>3, <1>4, <2>1
<1>8. QED
  BY <1>2, <1>5, <1>6, <1>7

------------------------------------------------------------------------------
(* Rows settle.                                                             *)

Settled(b) == rows[b] # NoRow /\ rows[b].closed

Due(b) == b >= Bucket(BoundAt) /\ b + Size <= Sampled /\ Primary \in Assigned(b + Size)

\* While an entry waits to be deleted, its row is no longer provisional, or no
\* sample has asked for it; and a sample that waits is of the current bucket.
SettleInv ==
  /\ TypeOK
  /\ RowsSettle
  /\ at = "delete" => \A b \in First(todo) : Due(b) => Settled(b)
  /\ tick # 0 => Bucket(tick) = Bucket(now)

\* Where the last recorded sample is, in numbers.
LEMMA SampledBounds ==
  ASSUME SettleInv
  PROVE  /\ now \in Nat \ {0} /\ Bucket(now) \in Int /\ Bucket(now) <= now
         /\ Sampled \in Int /\ Sampled <= Bucket(now)
         /\ Sampled = (IF tick = 0 THEN Bucket(now) ELSE Bucket(now) - Size)
<1>1. now \in Nat \ {0}
  BY BucketOfNow DEF SettleInv
<1>2. Bucket(now) \in Int /\ Bucket(now) <= now
  BY <1>1, BucketBounds
<1>3. QED
  BY <1>1, <1>2, AvailabilityAssumption DEF Sampled

\* A step that records no sample and takes nothing from rows and queue keeps
\* what is due, and what is due settled.
LEMMA SettleKept ==
  ASSUME SettleInv, TypeOK',
         \A b \in Buckets : Due(b)' => Due(b),
         queue \subseteq queue', rows' = rows, tick' # 0 => Bucket(tick') = Bucket(now'),
         at' # "delete" \/ (at = "delete" /\ todo' = todo)
  PROVE  SettleInv'
<1>1. RowsSettle'
  BY DEF SettleInv, RowsSettle, Due, Settled
<1>2. ASSUME at' = "delete"
      PROVE  \A b \in First(todo)' : Due(b)' => Settled(b)'
  <2>1. at = "delete" /\ todo' = todo
    BY <1>2
  <2>2. First(todo)' = First(todo) /\ First(todo) \subseteq Buckets
    BY <2>1 DEF First, SettleInv, TypeOK
  <2>3. QED
    BY <2>1, <2>2 DEF SettleInv, Settled
<1>3. QED
  BY <1>1, <1>2 DEF SettleInv

\* SampleSettles: a sample queues the one bucket it makes due.
LEMMA SampleSettles ==
  ASSUME SettleInv, TypeOK', RecordPrimaryHealth
  PROVE  SettleInv'
<1>1. /\ tick # 0 /\ tick' = 0 /\ at' # "delete" /\ now' = now /\ until' = until /\ rows' = rows
      /\ queue' = queue \cup (IF Primary \in Assigned(Bucket(tick)) THEN EnqueuedByHealth(Bucket(tick)) ELSE {})
  BY DEF RecordPrimaryHealth
<1>2. Bucket(tick) = Bucket(now)
  BY <1>1 DEF SettleInv
<1>3. Sampled' = Bucket(now) /\ Sampled = Bucket(now) - Size /\ now \in Nat
  BY <1>1, SampledBounds DEF Sampled
<1>4. ASSUME NEW b \in Buckets, Due(b)'
      PROVE  b \in queue' \/ Settled(b)'
  <2>1. /\ b >= Bucket(BoundAt) /\ b + Size <= Bucket(now) /\ Primary \in Assigned(b + Size)
    BY <1>1, <1>3, <1>4 DEF Due, Assigned
  <2>2. CASE b + Size <= Bucket(now) - Size
    <3>1. Due(b)
      BY <1>3, <2>1, <2>2 DEF Due
    <3>2. QED
      BY <1>1, <3>1 DEF SettleInv, RowsSettle, Due, Settled
  <2>3. CASE b + Size = Bucket(now)
    <3>1. b \in EnqueuedByHealth(Bucket(tick))
      <4>1. b = Bucket(tick) - Size
        BY <1>2, <2>3, BucketsArePositive, AvailabilityAssumption
      <4>2. QED
        BY <4>1 DEF EnqueuedByHealth
    <3>2. QED
      BY <1>1, <1>2, <2>1, <2>3, <3>1
  <2>4. QED
    BY <1>3, <2>1, <2>2, <2>3, NextBucketOrEarlier
<1>5. RowsSettle'
  BY <1>4 DEF RowsSettle, Due, Settled
<1>6. QED
  BY <1>1, <1>5 DEF SettleInv

\* RecomputeSettles: what is due when it is recomputed has ended by then.
LEMMA RecomputeSettles ==
  ASSUME SettleInv, TypeOK', Recompute
  PROVE  SettleInv'
<1>1. PICK b \in First(todo) : RecomputeBucket(b)
  BY DEF Recompute
<1>2. b \in Buckets /\ todo \subseteq Nat \ {0} /\ todo \subseteq Buckets
  BY <1>1, BucketsArePositive DEF First, SettleInv, TypeOK
<1>3. UNCHANGED <<now, until, queue, tick, todo>> /\ at' = "delete"
  BY DEF Recompute
<1>4. /\ rows'[b] # NoRow /\ rows'[b].closed = (b + Size <= now)
      /\ \A c \in Buckets : c # b => rows'[c] = rows[c]
  <2> DEFINE summary == [o \in Assigned(b) |-> View(o, b)]
             closed  == b + Size <= now
             state   == Classify(summary, closed)
             changed == IF rows[b] = NoRow THEN TRUE ELSE rows[b].state # state \/ rows[b].summary # summary
             row     == [state |-> state, summary |-> summary, closed |-> closed,
                         revision |-> IF rows[b] = NoRow THEN 1
                                      ELSE IF changed THEN rows[b].revision + 1 ELSE rows[b].revision]
  <2>1. rows' = [rows EXCEPT ![b] = row]
    BY <1>1, Zenon DEF RecomputeBucket
  <2>2. row.closed = (b + Size <= now) /\ row # NoRow
    BY DEF NoRow
  <2>3. DOMAIN rows = Buckets
    BY DEF SettleInv, TypeOK
  <2> HIDE DEF row
  <2>4. QED
    BY <1>2, <2>1, <2>2, <2>3
<1>5. \A c \in Buckets : Due(c)' = Due(c)
  BY <1>3 DEF Due, Sampled, Assigned
<1>6. Due(b) => b + Size <= now
  BY <1>2, SampledBounds, AvailabilityAssumption DEF Due
<1>7. Due(b) => Settled(b)'
  BY <1>4, <1>6 DEF Settled
<1>8. RowsSettle'
  <2>1. ASSUME NEW c \in Buckets, Due(c)
        PROVE  c \in queue' \/ Settled(c)'
    BY <1>3, <1>4, <1>7, <2>1 DEF SettleInv, RowsSettle, Due, Settled
  <2>2. QED
    BY <1>5, <2>1 DEF RowsSettle, Due, Settled
<1>9. \A c \in First(todo)' : c = b
  BY <1>1, <1>2, <1>3 DEF First
<1>10. (\A c \in First(todo) : Due(c) => Settled(c))'
  BY <1>2, <1>5, <1>7, <1>9
<1>11. QED
  BY <1>3, <1>8, <1>10 DEF SettleInv

\* DeletionSettles: only an entry whose row has settled, or that no sample has
\* asked for, leaves the queue.
LEMMA DeletionSettles ==
  ASSUME SettleInv, TypeOK', DeleteItem
  PROVE  SettleInv'
<1>1. PICK b \in First(todo) : queue' = queue \ {b}
  BY DEF DeleteItem
<1>2. at = "delete" /\ at' # "delete" /\ UNCHANGED <<now, until, rows, tick>>
  BY DEF DeleteItem
<1>3. Due(b) => Settled(b)
  BY <1>1, <1>2 DEF SettleInv
<1>4. RowsSettle'
  BY <1>1, <1>2, <1>3 DEF SettleInv, RowsSettle, Due, Settled, Sampled, Assigned
<1>5. QED
  BY <1>2, <1>4 DEF SettleInv

\* AdvanceSettles: time alone makes nothing due, a new sample waits first.
LEMMA AdvanceSettles ==
  ASSUME SettleInv, TypeOK', Advance
  PROVE  SettleInv'
<1>1. now' = now + 1 /\ UNCHANGED <<until, queue, rows, at, todo>>
  BY DEF Advance, evidenceVars
<1>2. now \in Nat \ {0} /\ Bucket(now) \in Int
  BY SampledBounds
<1>3. CASE now' = Bucket(now')
  <2>1. tick = 0 /\ tick' = now' /\ tick' # 0
    BY <1>1, <1>2, <1>3 DEF Advance
  <2>2. Bucket(now') = Bucket(now) + Size
    BY <1>1, <1>2, <1>3, BucketStep
  <2>3. Sampled' = Sampled
    BY <1>2, <2>1, <2>2, AvailabilityAssumption DEF Sampled
  <2>4. \A b \in Buckets : Due(b)' => Due(b)
    BY <1>1, <2>3 DEF Due, Assigned
  <2>5. QED
    BY <1>1, <2>1, <2>4, SettleKept
<1>4. CASE now' # Bucket(now')
  <2>1. tick' = tick /\ Bucket(now') = Bucket(now)
    BY <1>1, <1>2, <1>4, BucketStep DEF Advance
  <2>2. Sampled' = Sampled
    BY <2>1 DEF Sampled
  <2>3. \A b \in Buckets : Due(b)' => Due(b)
    BY <1>1, <2>2 DEF Due, Assigned
  <2>4. tick' # 0 => Bucket(tick') = Bucket(now')
    BY <2>1 DEF SettleInv
  <2>5. QED
    BY <1>1, <2>3, <2>4, SettleKept
<1>5. QED
  BY <1>3, <1>4

\* One case per action, each by the lemma on what it does to queue and rows.
LEMMA SettleNext ==
  ASSUME SettleInv, TypeOK', [Next]_vars
  PROVE  SettleInv'
<1> USE DEF evidenceVars, loopVars
<1>1. tick # 0 => Bucket(tick) = Bucket(now)
  BY DEF SettleInv
<1>2. CASE /\ UNCHANGED <<now, until, tick, rows>> /\ queue \subseteq queue'
           /\ at' # "delete" \/ (at = "delete" /\ todo' = todo)
  <2>1. \A b \in Buckets : Due(b)' => Due(b)
    BY <1>2 DEF Due, Sampled, Assigned
  <2>2. QED
    BY <1>1, <1>2, <2>1, SettleKept
<1>3. CASE PrimarySees
  <2>1. /\ UNCHANGED <<now, until, tick, rows, at, todo>> /\ queue \subseteq queue'
    BY <1>3 DEF PrimarySees, RecordPath
  <2>2. QED
    BY <1>2, <2>1
<1>4. CASE CollectorDelivers
  <2>1. /\ UNCHANGED <<now, until, tick, rows, at, todo>> /\ queue \subseteq queue'
    BY <1>4 DEF CollectorDelivers, RecordPath
  <2>2. QED
    BY <1>2, <2>1
<1>5. CASE ReadQueue
  BY <1>2, <1>5 DEF ReadQueue
<1>6. CASE CloseStaleIncidents
  BY <1>2, <1>6 DEF CloseStaleIncidents
<1>7. CASE Busy
  BY <1>2, <1>7 DEF Busy
<1>8. CASE EndBinding
  <2>1. UNCHANGED <<now, tick, rows, queue, at, todo>> /\ until = 0
    BY <1>8 DEF EndBinding
  <2>2. \A b \in Buckets : Due(b)' => Due(b)
    BY <2>1 DEF Due, Sampled, Assigned
  <2>3. QED
    BY <1>1, <2>1, <2>2, SettleKept
<1>9. CASE Restart
  <2>1. UNCHANGED <<now, until, rows, queue>> /\ at' # "delete" /\ tick' = now
    BY <1>9 DEF Restart
  <2>2. now # 0 /\ Sampled' = Bucket(now) - Size
    BY <2>1, SampledBounds DEF Sampled
  <2>3. Sampled' <= Sampled /\ Sampled' \in Int /\ Sampled \in Int
    BY <2>2, SampledBounds, AvailabilityAssumption
  <2>4. \A b \in Buckets : b + Size \in Int
    BY BucketsArePositive, AvailabilityAssumption
  <2>5. \A b \in Buckets : Due(b)' => Due(b)
    BY <2>1, <2>3, <2>4 DEF Due, Assigned
  <2>6. QED
    BY <2>1, <2>5, SettleKept
<1>10. CASE UNCHANGED vars
  BY <1>2, <1>10 DEF vars
<1>11. QED
  BY <1>3, <1>4, <1>5, <1>6, <1>7, <1>8, <1>9, <1>10,
     SampleSettles, RecomputeSettles, DeletionSettles, AdvanceSettles DEF Next

\* RowsAlwaysSettle: once the sample of a bucket has been recorded, the row of
\* the bucket before is queued or was computed after its window had ended.
THEOREM RowsAlwaysSettle == Spec => []RowsSettle
<1>1. ASSUME Init
      PROVE  SettleInv
  <2>1. TypeOK
    BY <1>1, InitEstablishes DEF IInv
  <2>2. Sampled = Bucket(BoundAt) - Size /\ Bucket(BoundAt) \in Int
    BY <1>1, BucketBounds, AvailabilityAssumption DEF Init, Sampled
  <2>3. \A b \in Buckets : ~Due(b)
    BY <2>2, BucketsArePositive, AvailabilityAssumption DEF Due
  <2>4. QED
    BY <1>1, <2>1, <2>3 DEF Init, SettleInv, RowsSettle, Due
<1>2. TypeOK' /\ SettleInv /\ [Next]_vars => SettleInv'
  BY SettleNext
<1>3. SettleInv => RowsSettle
  BY DEF SettleInv
<1>4. QED
  BY <1>1, <1>2, <1>3, TypeCorrect, PTL DEF Spec

------------------------------------------------------------------------------
(* What incidents and their audit trail say.                                *)

\* An incident that a step leaves as it is, or only ends.
Kept(i) ==
  /\ i \in DOMAIN incidents
  /\ incidents'[i].startedAt = incidents[i].startedAt
  /\ incidents'[i].state = incidents[i].state /\ incidents'[i].summary = incidents[i].summary
  /\ incidents'[i].revision = incidents[i].revision
  /\ incidents'[i].endedAt = 0 => incidents[i].endedAt = 0

\* One that says what the row says, and is open only if that is a fault.
Follows(i, row) ==
  /\ incidents'[i].state = row.state /\ incidents'[i].summary = row.summary
  /\ i \in DOMAIN incidents => /\ incidents'[i].startedAt = incidents[i].startedAt
                               /\ incidents'[i].revision >= incidents[i].revision
  /\ incidents'[i].endedAt = 0 => row.state \notin Recovered

Written(row) ==
  /\ DOMAIN incidents \subseteq DOMAIN incidents' /\ revisions \subseteq revisions'
  /\ \A i \in DOMAIN incidents' : Kept(i) \/ Follows(i, row)
  /\ \A r \in revisions' \ revisions :
       /\ r.state = row.state /\ r.summary = row.summary
       /\ r.revision = 1 => row.state \notin Recovered

NothingWritten ==
  /\ DOMAIN incidents' = DOMAIN incidents /\ revisions' = revisions
  /\ \A i \in DOMAIN incidents : Kept(i)

\* What applyIncidentUpdate writes.
LEMMA UpdateWrites ==
  ASSUME Book, NEW i \in DOMAIN incidents, NEW row \in Row, NEW end \in Nat,
         end = 0 => row.state \notin Recovered, ApplyIncidentUpdate(i, row, end)
  PROVE  Written(row)
<1> DEFINE inc == incidents[i]
           n == inc.revision + 1
<1>1. /\ \A j \in DOMAIN incidents : incidents[j] \in Incident
      /\ inc.revision \in Nat \ {0} /\ n # 1 /\ n >= inc.revision
  BY IncidentTyped
<1>2. CASE inc.state = row.state /\ inc.summary = row.summary
  <2>1. incidents' = [incidents EXCEPT ![i] = [inc EXCEPT !.endedAt = end]] /\ revisions' = revisions
    BY <1>2 DEF ApplyIncidentUpdate
  <2>2. [inc EXCEPT !.endedAt = end].startedAt = inc.startedAt
    BY <1>1 DEF Incident
  <2>3. \A j \in DOMAIN incidents : j # i => Kept(j)
    BY <2>1 DEF Kept
  <2>4. Follows(i, row)
    BY <1>1, <1>2, <2>1 DEF Follows, Incident
  <2>5. QED
    BY <2>1, <2>3, <2>4 DEF Written
<1>3. CASE ~(inc.state = row.state /\ inc.summary = row.summary)
  <2> DEFINE e == [inc EXCEPT !.endedAt = end, !.state = row.state, !.revision = n, !.summary = row.summary]
             r == RevisionRow(i, n, row)
  <2>1. incidents' = [incidents EXCEPT ![i] = e] /\ revisions' = revisions \cup {r}
    BY <1>3 DEF ApplyIncidentUpdate
  <2>2. /\ e.startedAt = inc.startedAt /\ e.state = row.state /\ e.summary = row.summary
        /\ e.revision = n /\ e.endedAt = end
        /\ r.state = row.state /\ r.summary = row.summary /\ r.revision = n
    BY <1>1 DEF Incident, RevisionRow
  <2> HIDE DEF e, r
  <2>3. \A j \in DOMAIN incidents : j # i => Kept(j)
    BY <2>1 DEF Kept
  <2>4. Follows(i, row)
    BY <1>1, <2>1, <2>2 DEF Follows
  <2>5. QED
    BY <1>1, <2>1, <2>2, <2>3, <2>4 DEF Written
<1>4. QED
  BY <1>2, <1>3

\* What createIncident writes, for a fault.
LEMMA CreateWrites ==
  ASSUME Book, NEW b \in Buckets, NEW row \in Row, row.state \notin Recovered, CreateIncident(b, row)
  PROVE  Written(row)
<1> DEFINE L == Len(incidents)
           e == [startedAt |-> b, endedAt |-> 0, state |-> row.state, revision |-> 1, summary |-> row.summary]
           r == RevisionRow(L + 1, 1, row)
<1>1. incidents' = Append(incidents, e) /\ revisions' = revisions \cup {r}
  BY DEF CreateIncident
<1>2. L \in Nat /\ DOMAIN incidents = 1 .. L
  BY DEF Book
<1>3. /\ e.state = row.state /\ e.summary = row.summary
      /\ r.state = row.state /\ r.summary = row.summary
  BY DEF RevisionRow
<1> HIDE DEF e, r
<1>4. /\ DOMAIN incidents' = 1 .. L + 1 /\ incidents'[L + 1] = e
      /\ \A i \in 1 .. L : incidents'[i] = incidents[i]
  BY <1>1, <1>2 DEF Book
<1>5. \A i \in 1 .. L : Kept(i)
  BY <1>2, <1>4 DEF Kept
<1>6. Follows(L + 1, row)
  BY <1>2, <1>3, <1>4 DEF Follows
<1>7. \A i \in 1 .. L + 1 : i = L + 1 \/ i \in 1 .. L
  BY <1>2
<1>8. 1 .. L \subseteq 1 .. L + 1
  BY <1>2
<1>9. QED
  BY <1>1, <1>2, <1>3, <1>4, <1>5, <1>6, <1>7, <1>8 DEF Written

\* What a changed row writes.
LEMMA ReviseWrites ==
  ASSUME Book, NEW b \in Buckets, NEW row \in Row, ReviseIncident(b, row)
  PROVE  Written(row) \/ NothingWritten
<1> DEFINE found == LookupIncident(b)
           known == IF found # {} THEN found ELSE LookupExtendable(b)
<1>1. found \subseteq DOMAIN incidents /\ known \subseteq DOMAIN incidents
  BY LookupFinds
<1>2. b \in Nat \ {0} /\ b + Size \in Nat /\ b + Size # 0
  <2>1. b \in Nat \ {0}
    BY BucketsArePositive
  <2>2. Size \in Nat
    BY AvailabilityAssumption
  <2>3. QED
    BY <2>1, <2>2
<1>3. CASE UNCHANGED incidentVars
  BY <1>3 DEF incidentVars, NothingWritten, Kept
<1>4. ASSUME NEW i \in found, ApplyIncidentUpdate(i, row, b + Size)
      PROVE  Written(row)
  BY <1>1, <1>2, <1>4, UpdateWrites
<1>5. ASSUME NEW i \in found,
             incidents' = [incidents EXCEPT ![i].endedAt = IF @ = 0 \/ @ > b THEN b ELSE @],
             revisions' = revisions
      PROVE  NothingWritten
  <2>1. \A j \in DOMAIN incidents : incidents[j] \in Incident
    BY IncidentTyped
  <2> DEFINE t == IF incidents[i].endedAt = 0 \/ incidents[i].endedAt > b THEN b ELSE incidents[i].endedAt
  <2>2. t # 0
    BY <1>2
  <2>3. incidents' = [incidents EXCEPT ![i] = [incidents[i] EXCEPT !.endedAt = t]]
    BY <1>5
  <2> HIDE DEF t
  <2>4. Kept(i)
    BY <1>1, <2>1, <2>2, <2>3 DEF Kept, Incident
  <2>5. \A j \in DOMAIN incidents : j # i => Kept(j)
    BY <2>3 DEF Kept
  <2>6. QED
    BY <1>5, <2>3, <2>4, <2>5 DEF NothingWritten
<1>6. ASSUME NEW i \in known, ApplyIncidentUpdate(i, row, 0), row.state \notin Recovered
      PROVE  Written(row)
  BY <1>1, <1>6, UpdateWrites
<1>7. CASE row.state \notin Recovered /\ CreateIncident(b, row)
  BY <1>7, CreateWrites
<1>8. QED
  BY <1>3, <1>4, <1>5, <1>6, <1>7 DEF ReviseIncident

\* The row of a bucket is classified from the views recorded with it.
LEMMA RecomputeWrites ==
  ASSUME IInv, NEW b \in Buckets, RecomputeBucket(b)
  PROVE  \E row \in Row : /\ rows' = [rows EXCEPT ![b] = row]
                          /\ row.state = Classify(row.summary, row.closed)
                          /\ Written(row) \/ NothingWritten
<1> DEFINE summary == [o \in Assigned(b) |-> View(o, b)]
           closed  == b + Size <= now
           state   == Classify(summary, closed)
           old     == rows[b]
           changed == IF old = NoRow THEN TRUE ELSE old.state # state \/ old.summary # summary
           n       == IF old = NoRow THEN 1 ELSE IF changed THEN old.revision + 1 ELSE old.revision
           row     == [state |-> state, summary |-> summary, closed |-> closed, revision |-> n]
<1>1. /\ rows' = [rows EXCEPT ![b] = row]
      /\ IF changed THEN ReviseIncident(b, row) ELSE UNCHANGED incidentVars
  BY DEF RecomputeBucket
<1>2. row.state = Classify(row.summary, row.closed)
  OBVIOUS
<1> HIDE DEF row, changed
<1>3. row \in Row
  <2>1. rows' \in [Buckets -> Row \cup {NoRow}]
    BY RecomputeKeeps
  <2>2. rows'[b] = row
    BY <1>1 DEF IInv, TypeOK
  <2>3. row # NoRow
    BY DEF row, NoRow
  <2>4. QED
    BY <2>1, <2>2, <2>3
<1>4. Book
  BY DEF IInv
<1>5. Written(row) \/ NothingWritten
  <2>1. CASE ReviseIncident(b, row)
    BY <1>3, <1>4, <2>1, ReviseWrites
  <2>2. CASE UNCHANGED incidentVars
    BY <2>2 DEF incidentVars, NothingWritten, Kept
  <2>3. QED
    BY <1>1, <2>1, <2>2
<1>6. QED
  BY <1>1, <1>2, <1>3, <1>5

\* Whoever closes incidents only ends them.
LEMMA ClosingWrites ==
  ASSUME Book, NEW end \in Nat, incidents' = CloseOpenIncidents(end), revisions' = revisions
  PROVE  NothingWritten
<1>1. ASSUME NEW i \in DOMAIN incidents
      PROVE  Kept(i)
  <2>1. incidents[i] \in Incident
    BY IncidentTyped
  <2>2. CASE i \in Open
    <3> DEFINE e == IF end < incidents[i].startedAt THEN incidents[i].startedAt ELSE end
    <3>1. incidents'[i] = [incidents[i] EXCEPT !.endedAt = e]
      BY <2>2 DEF CloseOpenIncidents
    <3>2. incidents[i].endedAt = 0
      BY <2>2 DEF Open
    <3> HIDE DEF e
    <3>3. QED
      BY <2>1, <3>1, <3>2 DEF Kept, Incident
  <2>3. CASE i \notin Open
    BY <2>3 DEF CloseOpenIncidents, Kept
  <2>4. QED
    BY <2>2, <2>3
<1>2. DOMAIN incidents' = DOMAIN incidents
  BY DEF CloseOpenIncidents
<1>3. QED
  BY <1>1, <1>2 DEF NothingWritten

\* A step writes what one row says, or writes nothing.
LEMMA StepWrites ==
  ASSUME IInv, [Next]_vars
  PROVE  \/ \E b \in Buckets, row \in Row : /\ rows' = [rows EXCEPT ![b] = row]
                                            /\ row.state = Classify(row.summary, row.closed)
                                            /\ Written(row) \/ NothingWritten
         \/ rows' = rows /\ NothingWritten
<1>0. TypeOK /\ Book
  BY DEF IInv
<1>1. CASE Recompute
  <2>1. PICK b \in First(todo) : RecomputeBucket(b)
    BY <1>1 DEF Recompute
  <2>2. b \in Buckets
    BY <1>0, <2>1 DEF First, TypeOK
  <2>3. QED
    BY <2>1, <2>2, RecomputeWrites
<1>2. CASE CloseStaleIncidents
  <2>1. CASE StaleEnd = {}
    BY <1>2, <2>1 DEF CloseStaleIncidents, NothingWritten, Kept
  <2>2. CASE StaleEnd # {}
    <3> DEFINE end == CHOOSE t \in StaleEnd : TRUE
    <3>1. StaleEnd \subseteq Nat
      <4>1. LatestClosedBucket \subseteq Nat
        BY BucketsArePositive DEF LatestClosedBucket
      <4>2. until \in Nat
        BY <1>0, AvailabilityAssumption DEF TypeOK
      <4>3. QED
        BY <4>1, <4>2 DEF StaleEnd
    <3>2. end \in Nat
      BY <2>2, <3>1
    <3>3. incidents' = CloseOpenIncidents(end) /\ revisions' = revisions /\ rows' = rows
      BY <1>2, <2>2 DEF CloseStaleIncidents
    <3> HIDE DEF end
    <3>4. QED
      BY <1>0, <3>2, <3>3, ClosingWrites
  <2>3. QED
    BY <2>1, <2>2
<1>3. CASE EndBinding
  BY <1>0, <1>3, BucketOfNow, ClosingWrites DEF EndBinding
<1>4. CASE rows' = rows /\ UNCHANGED incidentVars
  BY <1>4 DEF incidentVars, NothingWritten, Kept
<1>5. CASE UNCHANGED vars
  BY <1>4, <1>5 DEF vars, incidentVars
<1>6. CASE PrimarySees \/ CollectorDelivers \/ Advance \/ RecordPrimaryHealth \/ ReadQueue \/ DeleteItem
             \/ Busy \/ Restart
  BY <1>4, <1>6 DEF PrimarySees, CollectorDelivers, Advance, RecordPrimaryHealth, ReadQueue, DeleteItem,
                    Busy, Restart, incidentVars
<1>7. QED
  BY <1>1, <1>2, <1>3, <1>5, <1>6 DEF Next

\* Rows, incidents and revisions that are explained stay so.
LEMMA WitnessesKept ==
  ASSUME IInv, StatesAreWitnessed, [Next]_vars
  PROVE  StatesAreWitnessed'
<1>0. /\ rows \in [Buckets -> Row \cup {NoRow}]
      /\ \A b \in Buckets : rows[b] # NoRow => rows[b] \in Row
  BY DEF IInv, TypeOK
<1>1. ASSUME NothingWritten
      PROVE  /\ \A i \in DOMAIN incidents' : Explains(incidents'[i].summary, incidents'[i].state)
             /\ \A r \in revisions' : Explains(r.summary, r.state)
  BY <1>1 DEF NothingWritten, Kept, StatesAreWitnessed
<1>2. ASSUME NEW b \in Buckets, NEW row \in Row, rows' = [rows EXCEPT ![b] = row],
             row.state = Classify(row.summary, row.closed), Written(row) \/ NothingWritten
      PROVE  StatesAreWitnessed'
  <2>1. \A c \in Buckets : rows'[c] # NoRow => rows'[c].state = Classify(rows'[c].summary, rows'[c].closed)
    BY <1>0, <1>2 DEF StatesAreWitnessed
  <2>2. Explains(row.summary, row.state)
    BY <1>2 DEF Explains, Row
  <2>3. CASE Written(row)
    <3>1. \A i \in DOMAIN incidents' : Explains(incidents'[i].summary, incidents'[i].state)
      BY <2>2, <2>3 DEF Written, Kept, Follows, StatesAreWitnessed
    <3>2. \A r \in revisions' : Explains(r.summary, r.state)
      BY <2>2, <2>3 DEF Written, StatesAreWitnessed
    <3>3. QED
      BY <2>1, <3>1, <3>2 DEF StatesAreWitnessed, Explains, Classify
  <2>4. CASE NothingWritten
    BY <1>1, <2>1, <2>4 DEF StatesAreWitnessed, Explains, Classify
  <2>5. QED
    BY <1>2, <2>3, <2>4
<1>3. CASE rows' = rows /\ NothingWritten
  BY <1>1, <1>3 DEF StatesAreWitnessed, Explains, Classify
<1>4. QED
  BY <1>2, <1>3, StepWrites

\* StatesFitSummaries: every state on record, of a row, an incident or a revision,
\* is the classification of the views recorded with it.
THEOREM StatesFitSummaries == Spec => []StatesAreWitnessed
<1>1. Init => StatesAreWitnessed
  BY DEF Init, StatesAreWitnessed
<1>2. QED
  BY <1>1, InvariantHolds, WitnessesKept, PTL DEF Spec

\* OfflineNeedsWitnesses: HOST_OFFLINE takes MinObservers healthy observers, none of
\* which saw the host.
THEOREM OfflineNeedsWitnesses == Spec => []OfflineIsWitnessed
<1>1. ASSUME NEW summary \in Summary, Explains(summary, "HOST_OFFLINE")
      PROVE  /\ \A o \in DOMAIN summary : summary[o] # "seen"
             /\ Cardinality({o \in DOMAIN summary : summary[o] = "healthy"}) >= MinObservers
  <2> DEFINE saw   == {o \in DOMAIN summary : summary[o] = "seen"}
             alive == {o \in DOMAIN summary : summary[o] # "unhealthy"}
  <2>1. IsFiniteSet(Observers)
    BY FS_AddElement, AvailabilityAssumption DEF Observers
  <2>2. DOMAIN summary \subseteq Observers /\ \A o \in DOMAIN summary : summary[o] \in Views
    BY DEF Summary
  <2>3. IsFiniteSet(saw) /\ IsFiniteSet(alive)
    BY <2>1, <2>2, FS_Subset
  <2>4. Cardinality(saw) \in Nat /\ (Cardinality(saw) = 0 <=> saw = {})
    BY <2>3, FS_CardinalityType, FS_EmptySet
  <2>5. PICK closed \in BOOLEAN : "HOST_OFFLINE" = Classify(summary, closed)
    BY <1>1 DEF Explains
  <2>6. Cardinality(saw) = 0 /\ Cardinality(alive) >= MinObservers
    <3> DEFINE n == Cardinality(saw)
               m == Cardinality(alive)
    <3>1. "HOST_OFFLINE" = CASE n > 0 /\ n = m -> "HEALTHY"
                             [] n > 0 /\ n # m -> "CONNECTIVITY_DEGRADED"
                             [] n = 0 /\ closed /\ m >= MinObservers -> "HOST_OFFLINE"
                             [] OTHER -> "EVIDENCE_UNKNOWN"
      BY <2>5 DEF Classify
    <3>2. n \in Nat
      BY <2>4
    <3> HIDE DEF n, m
    <3>3. n = 0 /\ m >= MinObservers
      BY <3>1, <3>2
    <3>4. QED
      BY <3>3 DEF n, m
  <2>7. saw = {}
    BY <2>4, <2>6
  <2>8. alive = {o \in DOMAIN summary : summary[o] = "healthy"}
    BY <2>2, <2>7 DEF Views
  <2>9. QED
    BY <2>6, <2>7, <2>8
<1>2. ASSUME IInv, StatesAreWitnessed
      PROVE  OfflineIsWitnessed
  <2>1. ASSUME NEW i \in DOMAIN incidents
        PROVE  incidents[i].summary \in Summary
    BY <1>2, IncidentTyped DEF IInv, Incident
  <2>2. ASSUME NEW r \in revisions
        PROVE  r.summary \in Summary
    BY <1>2 DEF IInv, Book, Revision
  <2>3. QED
    BY <1>1, <1>2, <2>1, <2>2 DEF OfflineIsWitnessed, StatesAreWitnessed
<1>3. QED
  BY <1>2, InvariantHolds, StatesFitSummaries, PTL

\* What is open after a step was open before, or the step says a fault of it.
LEMMA FaultsKept ==
  ASSUME IInv, IncidentsAreFaults, [Next]_vars
  PROVE  IncidentsAreFaults'
<1>1. CASE NothingWritten
  BY <1>1 DEF NothingWritten, Kept, IncidentsAreFaults, Open
<1>2. ASSUME NEW row \in Row, Written(row)
      PROVE  IncidentsAreFaults'
  BY <1>2 DEF Written, Kept, Follows, IncidentsAreFaults, Open
<1>3. QED
  BY <1>1, <1>2, StepWrites

\* IncidentsSayTheFault: an incident begins with a fault and, while it is open,
\* says the fault it is open for.
THEOREM IncidentsSayTheFault == Spec => []IncidentsAreFaults
<1>1. Init => IncidentsAreFaults
  BY DEF Init, IncidentsAreFaults, Open
<1>2. QED
  BY <1>1, InvariantHolds, FaultsKept, PTL DEF Spec

\* AuditKeepsHistory: neither corrections nor endings rewrite the audit trail.
THEOREM AuditKeepsHistory == Spec => AuditIsAppendOnly
<1>1. ASSUME IInv, [Next]_vars
      PROVE  /\ revisions \subseteq revisions'
             /\ \A i \in DOMAIN incidents :
                  /\ i \in DOMAIN incidents'
                  /\ incidents'[i].startedAt = incidents[i].startedAt
                  /\ incidents'[i].revision >= incidents[i].revision
  <2>1. \A i \in DOMAIN incidents : incidents[i].revision \in Nat
    BY <1>1, IncidentTyped DEF IInv
  <2>2. CASE NothingWritten
    BY <2>1, <2>2 DEF NothingWritten, Kept
  <2>3. ASSUME NEW row \in Row, Written(row)
        PROVE  /\ revisions \subseteq revisions'
               /\ \A i \in DOMAIN incidents :
                    /\ i \in DOMAIN incidents'
                    /\ incidents'[i].startedAt = incidents[i].startedAt
                    /\ incidents'[i].revision >= incidents[i].revision
    BY <2>1, <2>3 DEF Written, Kept, Follows
  <2>4. QED
    BY <1>1, <2>2, <2>3, StepWrites
<1>2. QED
  BY <1>1, InvariantHolds, PTL DEF Spec, AuditIsAppendOnly

------------------------------------------------------------------------------
(* The decisions of the engine.                                             *)

\* LeastNatural: a set of natural numbers that is not empty has a least element.
LEMMA LeastNatural ==
  ASSUME NEW T \in SUBSET Nat, T # {}
  PROVE  \E m \in T : \A n \in T : m <= n
<1> DEFINE Less == {ss \in Nat \X Nat : ss[1] < ss[2]}
<1>1. IsWellFoundedOn(Less, Nat)
  BY NatLessThanWellFounded, Zenon DEF OpToRel
<1> HIDE DEF Less
<1>2. PICK m \in T : \A n \in T : <<n, m>> \notin Less
  BY <1>1, WFMin, Zenon
<1>3. \A n \in T : <<n, m>> \in Less <=> n < m
  BY DEF Less
<1>4. \A n \in T : ~(n < m)
  BY <1>2, <1>3
<1>5. QED
  BY <1>4

\* Starts are instants up to MaxTime.
LEMMA StartsAreBounded ==
  ASSUME Book, NEW i \in DOMAIN incidents
  PROVE  incidents[i].startedAt \in 0 .. MaxTime
<1>1. incidents[i].startedAt \in Buckets
  BY IncidentTyped
<1>2. PICK t \in 0 .. MaxTime : incidents[i].startedAt = Bucket(t)
  BY <1>1 DEF Buckets
<1>3. Bucket(t) <= t
  BY BucketBounds
<1>4. incidents[i].startedAt \in Nat
  BY IncidentTyped
<1>5. QED
  BY <1>2, <1>3, <1>4, AvailabilityAssumption

\* Of any incidents one starts last, and only one.
LEMMA OneIsLatest ==
  ASSUME Book, NEW S \in SUBSET DOMAIN incidents
  PROVE  /\ S # {} => Latest(S) # {}
         /\ \A i, j \in Latest(S) : i = j
<1>1. ASSUME S # {}
      PROVE  Latest(S) # {}
  <2> DEFINE T == {MaxTime - incidents[i].startedAt : i \in S}
  <2>1. MaxTime \in Nat /\ \A i \in S : incidents[i].startedAt \in 0 .. MaxTime
    BY StartsAreBounded, AvailabilityAssumption
  <2>2. T \in SUBSET Nat /\ T # {}
    BY <1>1, <2>1
  <2> HIDE DEF T
  <2>3. PICK m \in T : \A n \in T : m <= n
    BY <2>2, LeastNatural
  <2>4. PICK i \in S : m = MaxTime - incidents[i].startedAt
    BY <2>3 DEF T
  <2>5. \A j \in S : m <= MaxTime - incidents[j].startedAt
    BY <2>3 DEF T
  <2>6. \A j \in S : incidents[j].startedAt <= incidents[i].startedAt
    BY <2>1, <2>4, <2>5
  <2>7. QED
    BY <2>6 DEF Latest
<1>2. ASSUME NEW i \in Latest(S), NEW j \in Latest(S)
      PROVE  i = j
  <2>1. /\ i \in DOMAIN incidents /\ j \in DOMAIN incidents
        /\ incidents[i].startedAt <= incidents[j].startedAt
        /\ incidents[j].startedAt <= incidents[i].startedAt
    BY <1>2 DEF Latest
  <2>2. incidents[i].startedAt \in Nat /\ incidents[j].startedAt \in Nat
    BY <2>1, IncidentTyped
  <2>3. incidents[i].startedAt = incidents[j].startedAt
    BY <2>1, <2>2
  <2>4. QED
    BY <2>1, <2>3 DEF Book, OneIncidentPerStart
<1>3. QED
  BY <1>1, <1>2

\* LookupsAreDecided: the lookups of the incident table have one answer, and find
\* the incident that covers a bucket.
THEOREM LookupsAreDecided == Spec => []LookupsDecide
<1>1. ASSUME IInv, NEW b \in Buckets
      PROVE  /\ \A i, j \in LookupIncident(b) : i = j
             /\ (\E i \in DOMAIN incidents :
                   incidents[i].startedAt <= b /\ (i \in Open \/ incidents[i].endedAt >= b + Size))
                  => LookupIncident(b) # {}
  <2> DEFINE exact == {i \in DOMAIN incidents : incidents[i].startedAt = b}
             covering == {i \in DOMAIN incidents :
                            incidents[i].startedAt < b /\ (i \in Open \/ incidents[i].endedAt >= b + Size)}
  <2>1. LookupIncident(b) = IF exact # {} THEN exact ELSE Latest(covering)
    BY DEF LookupIncident
  <2>2. Book
    BY <1>1 DEF IInv
  <2>3. \A i, j \in exact : i = j
    BY <2>2 DEF Book, OneIncidentPerStart
  <2>4. covering \in SUBSET DOMAIN incidents
    OBVIOUS
  <2>5. ASSUME NEW i \in DOMAIN incidents, incidents[i].startedAt <= b,
               i \in Open \/ incidents[i].endedAt >= b + Size
        PROVE  exact # {} \/ covering # {}
    <3>1. incidents[i].startedAt \in Nat /\ b \in Nat
      BY <2>2, IncidentTyped, BucketsArePositive
    <3>2. incidents[i].startedAt = b \/ incidents[i].startedAt < b
      BY <2>5, <3>1
    <3>3. QED
      BY <2>5, <3>2
  <2> HIDE DEF exact, covering
  <2>6. covering # {} => Latest(covering) # {}
    BY <2>2, <2>4, OneIsLatest
  <2>7. \A i, j \in Latest(covering) : i = j
    BY <2>2, <2>4, OneIsLatest
  <2>8. QED
    BY <2>1, <2>3, <2>5, <2>6, <2>7
<1>2. ASSUME IInv, NEW b \in Buckets
      PROVE  \A i, j \in LookupExtendable(b) : i = j
  <2>1. Open \in SUBSET DOMAIN incidents
    BY DEF Open
  <2>2. {i \in DOMAIN incidents : incidents[i].endedAt = b /\ incidents[i].state # "HEALTHY"} \in SUBSET DOMAIN incidents
    OBVIOUS
  <2>3. Book
    BY <1>2 DEF IInv
  <2>4. QED
    BY <2>1, <2>2, <2>3, OneIsLatest DEF LookupExtendable
<1>3. IInv => LookupsDecide
  BY <1>1, <1>2 DEF LookupsDecide
<1>4. QED
  BY <1>3, InvariantHolds, PTL

============================================================================
