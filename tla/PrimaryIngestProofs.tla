------------------------ MODULE PrimaryIngestProofs ------------------------
(***************************************************************************)
(* Proofs about PrimaryIngest for any sessions, any records of Agents and  *)
(* Collectors, any size of a batch and of the queue, and any grace period. *)
(***************************************************************************)
EXTENDS PrimaryIngest, FiniteSetTheorems, WellFoundedInduction, TLAPS

----------------------------------------------------------------------------
(* Natural numbers.                                                        *)

\* LeastNatural: a set of natural numbers that is not empty has a least element.
LEMMA LeastNatural ==
  ASSUME NEW T \in SUBSET Nat, T # {}
  PROVE  \E m \in T : \A n \in T : m <= n
<1> DEFINE R == {ss \in Nat \X Nat : ss[1] < ss[2]}
<1>1. IsWellFoundedOn(R, Nat)
  BY NatLessThanWellFounded, Zenon DEF OpToRel
<1> HIDE DEF R
<1>2. PICK m \in T : \A n \in T : <<n, m>> \notin R
  BY <1>1, WFMin, Zenon
<1>3. \A n \in T : <<n, m>> \in R <=> n < m
  BY DEF R
<1>4. \A n \in T : ~(n < m)
  BY <1>2, <1>3
<1> QED  BY <1>4

\* GreatestNatural: a finite set of natural numbers that is not empty has a greatest one.
\* The values of a function on 1 .. k are bounded: if not, take the least j for which
\* those on 1 .. j are not.
LEMMA GreatestNatural ==
  ASSUME NEW T \in SUBSET Nat, T # {}, IsFiniteSet(T)
  PROVE  \E m \in T : \A n \in T : n <= m
<1>0. PICK k \in Nat : ExistsSurjection(1 .. k, T)
  BY FS_NatSurjection
<1>1. PICK f \in [1 .. k -> T] : \A t \in T : \E i \in 1 .. k : f[i] = t
  BY <1>0 DEF ExistsSurjection, Surjection
<1> DEFINE bounds(j) == {b \in Nat : \A i \in 1 .. j : f[i] <= b}
           unbounded == {j \in 0 .. k : bounds(j) = {}}
<1>2. unbounded = {}
  <2> SUFFICES ASSUME unbounded # {} PROVE FALSE
    OBVIOUS
  <2>1. unbounded \in SUBSET Nat
    OBVIOUS
  <2> HIDE DEF unbounded
  <2>2. PICK j \in unbounded : \A n \in unbounded : j <= n
    BY <2>1, LeastNatural
  <2>3. j \in 0 .. k /\ bounds(j) = {}
    BY <2>2 DEF unbounded
  <2>4. j # 0
    <3>1. 0 \in bounds(0)
      OBVIOUS
    <3> QED  BY <2>3, <3>1
  <2>5. j - 1 \in 0 .. k /\ j - 1 \notin unbounded
    <3>1. j \in Nat /\ j <= k
      BY <2>3
    <3>2. j - 1 \in 0 .. k /\ ~(j <= j - 1)
      BY <3>1, <2>4
    <3> QED  BY <3>2, <2>2
  <2>6. PICK b \in Nat : \A i \in 1 .. j - 1 : f[i] <= b
    <3> HIDE DEF bounds
    <3>1. bounds(j - 1) # {}
      BY <2>5 DEF unbounded
    <3> QED  BY <3>1 DEF bounds
  <2> HIDE DEF bounds
  <2>7. \A i \in 1 .. j : f[i] \in Nat /\ (i = j \/ i \in 1 .. j - 1)
    <3>1. j \in Nat /\ j <= k
      BY <2>3
    <3> TAKE i \in 1 .. j
    <3>2. i \in 1 .. k /\ (i = j \/ i \in 1 .. j - 1)
      BY <3>1
    <3> QED  BY <1>1, <3>2
  <2>8. PICK c \in Nat : b <= c /\ f[j] <= c
    <3>1. f[j] \in Nat
      BY <2>3, <2>4, <2>7
    <3>2. b <= f[j] \/ f[j] <= b
      BY <3>1
    <3> QED  BY <3>1, <3>2
  <2>9. \A i \in 1 .. j : f[i] <= c
    BY <2>6, <2>7, <2>8
  <2> QED  BY <2>3, <2>8, <2>9 DEF bounds
<1>3. PICK b \in Nat : \A t \in T : t <= b
  <2>1. k \in 0 .. k
    BY <1>1
  <2>2. bounds(k) # {}
    BY <1>2, <2>1
  <2> QED  BY <1>1, <2>2
<1> DEFINE upper == {u \in Nat : \A t \in T : t <= u}
<1>4. PICK m \in upper : \A u \in upper : m <= u
  <2>1. upper \in SUBSET Nat /\ upper # {}
    BY <1>3
  <2> HIDE DEF upper
  <2> QED  BY <2>1, LeastNatural
<1>5. m \in T
  <2> SUFFICES ASSUME m \notin T PROVE FALSE
    OBVIOUS
  <2>1. PICK t \in T : TRUE
    OBVIOUS
  <2>2. m - 1 \in Nat /\ \A u \in T : u <= m - 1
    BY <1>4, <2>1
  <2>3. m - 1 \in upper
    BY <2>2
  <2> QED  BY <1>4, <2>2, <2>3
<1> QED  BY <1>4, <1>5

----------------------------------------------------------------------------
(* Records.                                                                *)

\* RecordFacts: a record accounts for the sequences from its start to its end.
LEMMA RecordFacts ==
  ASSUME NEW r \in Record
  PROVE  /\ r \in Fact /\ r.session \in Sessions /\ Accounts(r)
         /\ r.start \in Nat /\ r.end \in Nat /\ 1 <= r.start /\ r.start <= r.end
         /\ r.kind = "event" => r.start = r.end
BY DEF Record, Fact, Accounts, Sequence

\* GapIsRecord: a gap between two sequences of a session is a record.
LEMMA GapIsRecord ==
  ASSUME NEW s \in Sessions, NEW a \in Nat, NEW b \in Nat, 1 <= a, a <= b
  PROVE  Gap(s, a, b, 0) \in Record
BY DEF Gap, Record, Fact, Kinds, Sequence

\* LatestTyped: the last sequence that a finite batch names.
LEMMA LatestTyped ==
  ASSUME NEW s, NEW records \in SUBSET Record, IsFiniteSet(records)
  PROVE  Latest(s, records) \in Nat
<1> DEFINE own  == OfSession(records, s)
           ends == {r.end : r \in own}
<1>1. own \subseteq Record /\ IsFiniteSet(own)
  BY FS_Subset DEF OfSession
<1>2. ends \in SUBSET Nat
  BY <1>1, RecordFacts
<1>3. IsFiniteSet(ends)
  <2> DEFINE f == [r \in own |-> r.end]
  <2>1. f \in Surjection(own, ends)
    BY DEF Surjection
  <2> QED  BY <1>1, <2>1, FS_Surjection
<1>4. CASE ends = {}
  BY <1>4 DEF Latest
<1>5. CASE ends # {}
  <2> DEFINE latest == CHOOSE m \in ends : \A n \in ends : n <= m
  <2>1. Latest(s, records) = latest
    BY <1>5 DEF Latest
  <2> HIDE DEF ends
  <2>2. \E m \in ends : \A n \in ends : n <= m
    BY <1>2, <1>3, <1>5, GreatestNatural
  <2>3. latest \in ends
    BY <2>2
  <2> QED  BY <1>2, <2>1, <2>3
<1> QED  BY <1>4, <1>5

----------------------------------------------------------------------------
(* The loop of advanceCursor.                                              *)

\* StopsKnown: the loop never passes a sequence of which there is neither an event nor a
\* gap.  The stops up to which everything is known contain where it starts and
\* whatever it steps on, hence where it ends.
LEMMA StopsKnown ==
  ASSUME NEW present \in SUBSET Nat, NEW rows \in SUBSET Record, NEW max \in Nat, NEW a0 \in Nat,
         NEW a \in CursorStops(present, rows, max, a0)
  PROVE  /\ a \in Nat /\ a >= a0
         /\ CursorStep(present, rows, max, a) = {}
         /\ \A n \in Nat : a0 < n /\ n <= a => Known(present, rows, n)
<1> DEFINE stops == {a0} \cup present \cup {g.end : g \in rows}
           known == {b \in stops : b >= a0 /\ \A n \in Nat : a0 < n /\ n <= b => Known(present, rows, n)}
<1>1. stops \in SUBSET Nat
  BY RecordFacts
<1>2. a \in stops /\ CursorStep(present, rows, max, a) = {}
  BY DEF CursorStops
<1>3. \A S \in SUBSET stops :
        a0 \in S /\ (\A b \in S : CursorStep(present, rows, max, b) \subseteq S) => a \in S
  BY DEF CursorStops
<1>4. a0 \in known
  OBVIOUS
<1>5. \A b \in known : CursorStep(present, rows, max, b) \subseteq known
  <2> SUFFICES ASSUME NEW b \in known, NEW c \in CursorStep(present, rows, max, b)
               PROVE  c \in known
    OBVIOUS
  <2>1. b \in Nat /\ b >= a0 /\ \A n \in Nat : a0 < n /\ n <= b => Known(present, rows, n)
    BY <1>1
  <2>2. c \in stops /\ c > b /\ \A n \in Nat : b < n /\ n <= c => Known(present, rows, n)
    <3>1. CASE b + 1 \in present
      <4>1. c = b + 1
        BY <3>1 DEF CursorStep
      <4>2. \A n \in Nat : b < n /\ n <= c => n = b + 1
        BY <2>1, <4>1
      <4> QED  BY <2>1, <3>1, <4>1, <4>2 DEF Known
    <3>2. CASE b + 1 \notin present
      <4>1. PICK g \in rows : g.start <= b + 1 /\ b + 1 <= g.end /\ c = g.end
        BY <3>2 DEF CursorStep
      <4>2. g.start \in Nat /\ g.end \in Nat /\ c \in stops
        BY <4>1, RecordFacts
      <4>3. \A n \in Nat : b < n /\ n <= c => g.start <= n /\ n <= g.end
        BY <2>1, <4>1, <4>2
      <4> QED  BY <2>1, <4>1, <4>2, <4>3 DEF Known
    <3> QED  BY <3>1, <3>2
  <2>3. c \in Nat /\ c >= a0
    BY <1>1, <2>1, <2>2
  <2>4. \A n \in Nat : a0 < n /\ n <= c => Known(present, rows, n)
    BY <2>1, <2>2
  <2> QED  BY <2>2, <2>3, <2>4
<1>6. known \in SUBSET stops
  OBVIOUS
<1>7. a \in known
  BY <1>3, <1>4, <1>5, <1>6
<1> QED  BY <1>1, <1>2, <1>7

\* StopIsHole: where the loop ends before the last sequence, the next one is not known.
LEMMA StopIsHole ==
  ASSUME NEW present, NEW rows, NEW max \in Nat, NEW a \in Nat, a < max,
         CursorStep(present, rows, max, a) = {}
  PROVE  ~Known(present, rows, a + 1)
<1>1. a + 1 \notin present
  BY DEF CursorStep
<1>2. \A g \in rows : ~(g.start <= a + 1 /\ a + 1 <= g.end)
  BY <1>1 DEF CursorStep
<1> QED  BY <1>1, <1>2 DEF Known

\* HoleEndFacts: the hole after a ends before the first known sequence, the last one of the
\* batch at the latest, and nothing within it is known.
LEMMA HoleEndFacts ==
  ASSUME NEW present, NEW rows, NEW max \in Nat, NEW a \in Nat, a < max,
         ~Known(present, rows, a + 1)
  PROVE  /\ HoleEnd(present, rows, max, a) \in a + 1 .. max
         /\ \A n \in a + 1 .. HoleEnd(present, rows, max, a) : ~Known(present, rows, n)
<1> DEFINE K(n) == Known(present, rows, n)
           ends == {e \in a + 1 .. max : e = max \/ K(e + 1)}
           Is(e) == /\ \A n \in a + 2 .. e : ~K(n)
                    /\ e = max \/ K(e + 1)
<1> HIDE DEF K
<1>1. PICK m \in ends : \A e \in ends : m <= e
  <2>1. max \in ends /\ ends \in SUBSET Nat
    OBVIOUS
  <2> HIDE DEF ends
  <2> QED  BY <2>1, LeastNatural
<1>2. Is(m)
  <2> SUFFICES ASSUME NEW n \in a + 2 .. m, K(n) PROVE FALSE
    BY <1>1
  <2>1. n - 1 \in a + 1 .. max /\ K((n - 1) + 1) /\ n - 1 < m
    BY <1>1
  <2> QED  BY <1>1, <2>1
<1>3. \E e \in a + 1 .. max : Is(e)
  BY <1>1, <1>2
<1>4. HoleEnd(present, rows, max, a) = CHOOSE e \in a + 1 .. max : Is(e)
  BY DEF HoleEnd, K
<1> HIDE DEF Is
<1>5. HoleEnd(present, rows, max, a) \in a + 1 .. max /\ Is(HoleEnd(present, rows, max, a))
  BY <1>3, <1>4
<1>6. ~K(a + 1)
  BY DEF K
<1>7. \A n \in a + 1 .. HoleEnd(present, rows, max, a) : ~K(n)
  BY <1>5, <1>6 DEF Is
<1> QED  BY <1>5, <1>7 DEF K

\* What an outcome of advanceCursor owes to the cursor c it started from.
Advances(o, c) ==
  /\ o.cursor \in Cursor
  /\ o.cursor.ackThrough >= c.ackThrough
  /\ o.cursor.holeSequence \in {0, o.cursor.ackThrough + 1}
  /\ o.lost \subseteq Record

\* Every sequence it acknowledges is known, or declared lost now.
Accounted(o, c, present, rows) ==
  \A n \in Nat : c.ackThrough < n /\ n <= o.cursor.ackThrough => Known(present, rows \cup o.lost, n)

\* It declares lost what is not known, after a hole was open for the grace period.
Patient(o, c, s, present, rows, at) ==
  \A g \in o.lost :
     /\ g.session = s
     /\ \A n \in Nat : g.start <= n /\ n <= g.end => ~Known(present, rows, n)
     /\ c.holeSequence # 0 /\ at - c.holeSince >= Grace

OutcomeOK(o, c, s, present, rows, at) ==
  Advances(o, c) /\ Accounted(o, c, present, rows) /\ Patient(o, c, s, present, rows, at)

\* It acknowledges the whole batch or stops before a sequence that is not known.
Thorough(o, c, present, rows, max) ==
  max > c.ackThrough =>
     o.cursor.ackThrough >= max \/ ~Known(present, rows \cup o.lost, o.cursor.ackThrough + 1)

\* It declares lost at most one gap, which begins where the cursor stands and ends behind it.
Awaited(o, c) ==
  \A g \in o.lost : g.start = c.ackThrough + 1 /\ g.end <= o.cursor.ackThrough /\ o.lost = {g}

\* It passes a hole that has been open for the grace period.
Closes(o, c, max, at) ==
  Grace > 0 /\ c.holeSequence # 0 /\ c.holeSequence <= max /\ at - c.holeSince >= Grace =>
     o.cursor.ackThrough >= c.holeSequence

\* A hole is recorded by a batch that stops before it, with the time of that batch, or it was
\* there and the ACK stands.
Met(o, c, max, at) ==
  o.cursor.holeSequence # 0 =>
     \/ o.cursor.ackThrough < max /\ o.cursor.holeSince = at
     \/ o.cursor.ackThrough = c.ackThrough /\ o.cursor.holeSince = c.holeSince /\ c.holeSequence # 0

OutcomeEnds(o, c, present, rows, max, at) ==
  Thorough(o, c, present, rows, max) /\ Awaited(o, c) /\ Closes(o, c, max, at) /\ Met(o, c, max, at)

\* ReachesFacts: a hole behind the new ACK is forgotten, one that the ACK has not reached is
\* the next sequence still.
LEMMA ReachesFacts ==
  ASSUME NEW c \in Cursor, c.holeSequence \in {0, c.ackThrough + 1}, NEW a \in Nat, a >= c.ackThrough
  PROVE  /\ Reaches(c, a) \in Cursor /\ Reaches(c, a).ackThrough = a
         /\ \/ Reaches(c, a).holeSequence = 0 /\ (c.holeSequence = 0 \/ a >= c.holeSequence)
            \/ /\ Reaches(c, a).holeSequence = a + 1 /\ a = c.ackThrough
               /\ Reaches(c, a).holeSince = c.holeSince /\ c.holeSequence = a + 1
<1>1. c.ackThrough \in Nat /\ c.holeSequence \in Nat /\ c.holeSince \in Nat
  BY DEF Cursor
<1>2. CASE c.holeSequence # 0 /\ a >= c.holeSequence
  BY <1>1, <1>2 DEF Reaches, At, Cursor
<1>3. CASE ~(c.holeSequence # 0 /\ a >= c.holeSequence)
  <2>1. Reaches(c, a) = [c EXCEPT !.ackThrough = a]
    BY <1>3 DEF Reaches
  <2>2. c.holeSequence # 0 => c.holeSequence = a + 1 /\ a = c.ackThrough
    BY <1>1, <1>3
  <2> QED  BY <1>1, <2>1, <2>2 DEF Cursor
<1> QED  BY <1>2, <1>3

\* OutcomeAtStop: the loop ends without declaring anything lost.
LEMMA OutcomeAtStop ==
  ASSUME NEW c \in Cursor, NEW s, NEW present, NEW rows, NEW at,
         NEW k \in Cursor, k.ackThrough >= c.ackThrough, k.holeSequence \in {0, k.ackThrough + 1},
         \A n \in Nat : c.ackThrough < n /\ n <= k.ackThrough => Known(present, rows, n)
  PROVE  OutcomeOK(Outcome(k, {}), c, s, present, rows, at)
<1> DEFINE o == Outcome(k, {})
<1>1. o.cursor = k /\ o.lost = {}
  BY DEF Outcome
<1> HIDE DEF o
<1>2. Advances(o, c) /\ Patient(o, c, s, present, rows, at)
  BY <1>1 DEF Advances, Patient
<1>3. Accounted(o, c, present, rows)
  BY <1>1 DEF Accounted, Known
<1> QED  BY <1>2, <1>3 DEF OutcomeOK, o

\* OutcomeInferred: a hole that has been open for the grace period is covered by a gap.
LEMMA OutcomeInferred ==
  ASSUME NEW c \in Cursor, c.holeSequence = c.ackThrough + 1, NEW s \in Sessions,
         NEW present \in SUBSET Nat, NEW rows \in SUBSET Record, NEW max \in Nat, NEW at \in Nat,
         c.ackThrough < max, CursorStep(present, rows, max, c.ackThrough) = {},
         at - c.holeSince >= Grace,
         NEW o \in Inferences(s, present, rows, max, c.ackThrough, at)
  PROVE  OutcomeOK(o, c, s, present, rows, at) /\ OutcomeEnds(o, c, present, rows, max, at)
<1> DEFINE a == c.ackThrough
           end == HoleEnd(present, rows, max, a)
           hole == Gap(s, a + 1, end, 0)
<1>1. a \in Nat /\ c.holeSince \in Nat
  BY DEF Cursor
<1>2. end \in a + 1 .. max /\ \A n \in a + 1 .. end : ~Known(present, rows, n)
  BY <1>1, StopIsHole, HoleEndFacts
<1>3. end \in Nat /\ a + 1 \in Nat /\ 1 <= a + 1 /\ a + 1 <= end
  BY <1>1, <1>2
<1>4. hole \in Record /\ hole.start = a + 1 /\ hole.end = end /\ hole.session = s
  BY <1>3, GapIsRecord DEF Gap
<1>5. PICK b \in CursorStops(present, rows \cup {hole}, max, hole.end) :
         o = Outcome(IF b >= max THEN At(b) ELSE AtHole(b, at), {hole})
  BY DEF Inferences
<1> HIDE DEF end, hole
<1>6. /\ b \in Nat /\ b >= end
      /\ \A n \in Nat : end < n /\ n <= b => Known(present, rows \cup {hole}, n)
      /\ CursorStep(present, rows \cup {hole}, max, b) = {}
  <2>1. rows \cup {hole} \in SUBSET Record /\ hole.end \in Nat
    BY <1>3, <1>4
  <2> QED  BY <1>4, <1>5, <2>1, StopsKnown
<1>7. /\ o.lost = {hole} /\ o.cursor \in Cursor /\ o.cursor.ackThrough = b
      /\ o.cursor.holeSequence = 0 \/ (o.cursor.holeSequence = b + 1 /\ o.cursor.holeSince = at /\ b < max)
  <2>1. CASE b >= max
    <3>1. o = Outcome(At(b), {hole})
      BY <1>5, <2>1
    <3>2. o.cursor = At(b) /\ o.lost = {hole}
      BY <3>1 DEF Outcome
    <3> QED  BY <1>6, <3>2 DEF At, Cursor
  <2>2. CASE ~(b >= max)
    <3>1. o = Outcome(AtHole(b, at), {hole})
      BY <1>5, <2>2
    <3>2. o.cursor = AtHole(b, at) /\ o.lost = {hole}
      BY <3>1 DEF Outcome
    <3> QED  BY <1>6, <2>2, <3>2 DEF AtHole, Cursor
  <2> QED  BY <2>1, <2>2
<1>8. Advances(o, c)
  <2>1. b >= c.ackThrough
    BY <1>1, <1>3, <1>6
  <2> QED  BY <1>4, <1>7, <2>1 DEF Advances
<1>9. Accounted(o, c, present, rows)
  <2> SUFFICES ASSUME NEW n \in Nat, a < n, n <= b
               PROVE  Known(present, rows \cup {hole}, n)
    BY <1>7 DEF Accounted
  <2>1. CASE n <= end
    BY <1>1, <1>3, <1>4, <2>1 DEF Known
  <2>2. CASE n > end
    BY <1>6, <2>2
  <2> QED  BY <1>3, <2>1, <2>2
<1>10. Patient(o, c, s, present, rows, at)
  <2>1. c.holeSequence # 0
    BY <1>1
  <2>2. \A n \in Nat : hole.start <= n /\ n <= hole.end => n \in a + 1 .. end
    BY <1>3, <1>4
  <2> QED  BY <1>2, <1>4, <1>7, <2>1, <2>2 DEF Patient
<1>11. Met(o, c, max, at)
  BY <1>7 DEF Met
<1>12. Thorough(o, c, present, rows, max)
  <2>1. b >= max \/ b < max
    BY <1>6
  <2>2. b < max => ~Known(present, rows \cup {hole}, b + 1)
    BY <1>6, StopIsHole
  <2> QED  BY <1>7, <2>1, <2>2 DEF Thorough
<1>13. Awaited(o, c)
  BY <1>4, <1>6, <1>7 DEF Awaited
<1>14. Closes(o, c, max, at)
  <2>1. b >= c.holeSequence
    BY <1>1, <1>3, <1>6
  <2> QED  BY <1>7, <2>1 DEF Closes
<1> QED  BY <1>8, <1>9, <1>10, <1>11, <1>12, <1>13, <1>14 DEF OutcomeOK, OutcomeEnds

\* OutcomeFacts: every outcome of advanceCursor for a cursor whose hole is the next sequence.
LEMMA OutcomeFacts ==
  ASSUME IngestAssumption, NEW s \in Sessions, cursor[s] \in Cursor,
         cursor[s].holeSequence \in {0, cursor[s].ackThrough + 1},
         NEW present \in SUBSET Nat, NEW rows \in SUBSET Record, NEW max \in Nat, NEW at \in Nat,
         NEW o \in Outcomes(s, present, rows, max, at)
  PROVE  OutcomeOK(o, cursor[s], s, present, rows, at) /\ OutcomeEnds(o, cursor[s], present, rows, max, at)
<1> DEFINE c == cursor[s]
           r(a) == Reaches(c, a)
           From(a) == CASE a >= max \/ Grace = 0         -> {Outcome(r(a), {})}
                        [] a < max /\ Grace > 0 /\ r(a).holeSequence # a + 1
                                                         -> {Outcome(AtHole(a, at), {})}
                        [] a < max /\ Grace > 0 /\ r(a).holeSequence = a + 1 /\ at - r(a).holeSince < Grace
                                                         -> {Outcome(r(a), {})}
                        [] OTHER                         -> Inferences(s, present, rows, max, a, at)
<1>1. c \in Cursor /\ c.ackThrough \in Nat /\ c.holeSince \in Nat /\ c.holeSequence \in {0, c.ackThrough + 1}
  BY DEF Cursor
<1>2. Outcomes(s, present, rows, max, at) =
        IF max <= c.ackThrough THEN {Outcome(c, {})}
        ELSE UNION {From(a) : a \in CursorStops(present, rows, max, c.ackThrough)}
  BY DEF Outcomes
<1> HIDE DEF From, c, r
<1>3. CASE max <= c.ackThrough
  <2>1. o = Outcome(c, {})
    BY <1>2, <1>3
  <2>2. \A n \in Nat : ~(c.ackThrough < n /\ n <= c.ackThrough)
    BY <1>1
  <2>3. OutcomeOK(o, c, s, present, rows, at)
    BY <1>1, <2>1, <2>2, OutcomeAtStop
  <2>4. OutcomeEnds(o, c, present, rows, max, at)
    <3>1. ~(max > c.ackThrough) /\ (c.holeSequence # 0 => ~(c.holeSequence <= max))
      BY <1>1, <1>3
    <3>2. Met(o, c, max, at)
      BY <1>1, <2>1 DEF Met, Outcome
    <3> QED  BY <2>1, <3>1, <3>2 DEF OutcomeEnds, Thorough, Awaited, Closes, Outcome
  <2> QED  BY <2>3, <2>4 DEF c
<1>4. CASE ~(max <= c.ackThrough)
  <2>1. PICK a \in CursorStops(present, rows, max, c.ackThrough) : o \in From(a)
    BY <1>2, <1>4
  <2>2. /\ a \in Nat /\ a >= c.ackThrough /\ CursorStep(present, rows, max, a) = {}
        /\ \A n \in Nat : c.ackThrough < n /\ n <= a => Known(present, rows, n)
    BY <1>1, <2>1, StopsKnown
  <2>3. /\ r(a) \in Cursor /\ r(a).ackThrough = a
        /\ \/ r(a).holeSequence = 0 /\ (c.holeSequence = 0 \/ a >= c.holeSequence)
           \/ /\ r(a).holeSequence = a + 1 /\ a = c.ackThrough
              /\ r(a).holeSince = c.holeSince /\ c.holeSequence = a + 1
    BY <1>1, <2>2, ReachesFacts DEF r
  <2>4. Grace \in Nat
    BY DEF IngestAssumption
  <2>5. a >= max \/ ~Known(present, rows \cup {}, a + 1)
    <3>1. a < max => ~Known(present, rows, a + 1)
      BY <2>2, StopIsHole
    <3>2. a >= max \/ a < max
      BY <2>2
    <3> QED  BY <3>1, <3>2 DEF Known
  <2>6. CASE /\ o = Outcome(r(a), {})
             /\ a >= max \/ Grace = 0 \/ (r(a).holeSequence = a + 1 /\ at - r(a).holeSince < Grace)
    <3>1. Met(o, c, max, at)
      <4>1. o.cursor = r(a)
        BY <2>6 DEF Outcome
      <4> QED  BY <2>2, <2>3, <4>1 DEF Met
    <3>2. OutcomeOK(o, c, s, present, rows, at)
      BY <1>1, <2>2, <2>3, <2>6, OutcomeAtStop
    <3>3. o.cursor.ackThrough = a /\ o.lost = {}
      BY <2>3, <2>6 DEF Outcome
    <3>4. Closes(o, c, max, at)
      <4>1. CASE a >= max
        BY <1>1, <2>2, <3>3, <4>1 DEF Closes
      <4>2. CASE Grace = 0
        BY <4>2 DEF Closes
      <4>3. CASE r(a).holeSequence = a + 1 /\ at - r(a).holeSince < Grace
        <5>1. r(a).holeSince = c.holeSince
          BY <2>2, <2>3, <4>3
        <5>2. ~(at - c.holeSince >= Grace)
          BY <1>1, <2>4, <4>3, <5>1
        <5> QED  BY <5>2 DEF Closes
      <4> QED  BY <2>6, <4>1, <4>2, <4>3
    <3>5. Thorough(o, c, present, rows, max) /\ Awaited(o, c)
      BY <2>5, <3>3 DEF Thorough, Awaited
    <3> QED  BY <3>1, <3>2, <3>4, <3>5 DEF c, OutcomeEnds
  <2>7. CASE a < max /\ o = Outcome(AtHole(a, at), {}) /\ r(a).holeSequence # a + 1
    <3>1. /\ AtHole(a, at) \in Cursor /\ AtHole(a, at).ackThrough = a
          /\ AtHole(a, at).holeSequence = a + 1 /\ AtHole(a, at).holeSince = at
      BY <2>2 DEF AtHole, Cursor
    <3>2. OutcomeOK(o, c, s, present, rows, at)
      BY <1>1, <2>2, <2>7, <3>1, OutcomeAtStop
    <3>3. o.cursor.ackThrough = a /\ o.lost = {}
      BY <2>7, <3>1 DEF Outcome
    <3>4. Closes(o, c, max, at)
      BY <2>3, <2>7, <3>3 DEF Closes
    <3>5. Thorough(o, c, present, rows, max) /\ Awaited(o, c)
      BY <2>5, <3>3 DEF Thorough, Awaited
    <3>6. Met(o, c, max, at)
      BY <2>7, <3>1, <3>3 DEF Met, Outcome
    <3> QED  BY <3>2, <3>4, <3>5, <3>6 DEF c, OutcomeEnds
  <2>8. CASE /\ a < max /\ Grace > 0 /\ r(a).holeSequence = a + 1 /\ ~(at - r(a).holeSince < Grace)
             /\ o \in Inferences(s, present, rows, max, a, at)
    <3>1. a = c.ackThrough /\ r(a).holeSince = c.holeSince /\ c.holeSequence = a + 1
      BY <2>2, <2>3, <2>8
    <3>2. at - c.holeSince >= Grace
      BY <1>1, <2>4, <2>8, <3>1
    <3> QED  BY <1>1, <2>2, <2>8, <3>1, <3>2, OutcomeInferred DEF c
  <2>9. \/ /\ o = Outcome(r(a), {})
           /\ a >= max \/ Grace = 0 \/ (r(a).holeSequence = a + 1 /\ at - r(a).holeSince < Grace)
        \/ a < max /\ o = Outcome(AtHole(a, at), {}) /\ r(a).holeSequence # a + 1
        \/ /\ a < max /\ Grace > 0 /\ r(a).holeSequence = a + 1 /\ ~(at - r(a).holeSince < Grace)
           /\ o \in Inferences(s, present, rows, max, a, at)
    <3>1. CASE a >= max \/ Grace = 0
      <4>1. From(a) = {Outcome(r(a), {})}
        BY <2>2, <2>4, <3>1 DEF From
      <4> QED  BY <2>1, <3>1, <4>1
    <3>2. CASE a < max /\ Grace > 0 /\ r(a).holeSequence # a + 1
      <4>1. From(a) = {Outcome(AtHole(a, at), {})}
        BY <2>2, <2>4, <3>2 DEF From
      <4> QED  BY <2>1, <3>2, <4>1
    <3>3. CASE a < max /\ Grace > 0 /\ r(a).holeSequence = a + 1 /\ at - r(a).holeSince < Grace
      <4>1. From(a) = {Outcome(r(a), {})}
        BY <2>2, <2>4, <3>3 DEF From
      <4> QED  BY <2>1, <3>3, <4>1
    <3>4. CASE a < max /\ Grace > 0 /\ r(a).holeSequence = a + 1 /\ ~(at - r(a).holeSince < Grace)
      <4>1. From(a) = Inferences(s, present, rows, max, a, at)
        BY <2>2, <2>4, <3>4 DEF From
      <4> QED  BY <2>1, <3>4, <4>1
    <3> QED  BY <2>2, <2>4, <3>1, <3>2, <3>3, <3>4
  <2> QED  BY <2>6, <2>7, <2>8, <2>9
<1> QED  BY <1>3, <1>4

----------------------------------------------------------------------------
(* A transaction.                                                          *)

\* Result of the ingest of a job for each session, as in Ingest.
AllEvents(records) == events \cup {e \in EventsIn(records) : Persistent(e)}
AllGaps(records)   == gaps \cup GapsIn(records)
RowsOf(records, s) == OfSession(AllGaps(records) \cup inferred, s)
PresentOf(records, s) == Present(s, AllEvents(records), records)

\* IngestFacts: what the transaction does with each session.
LEMMA IngestFacts ==
  ASSUME IngestAssumption, TypeOK, HoleIsNext, NEW job \in Job, Ingest(job)
  PROVE  /\ events' = AllEvents(job.batch) /\ gaps' = AllGaps(job.batch)
         /\ accepted' = accepted \cup EventsIn(job.batch)
         /\ \E result :
              /\ cursor' = [s \in Sessions |-> result[s].cursor]
              /\ inferred' = inferred \cup UNION {result[s].lost : s \in Sessions}
              /\ stood' = [s \in Sessions |->
                             Stood(s, result[s].cursor.ackThrough, Latest(s, job.batch), job.at)]
              /\ \A s \in Sessions :
                   /\ OutcomeOK(result[s], cursor[s], s, PresentOf(job.batch, s), RowsOf(job.batch, s), job.at)
                   /\ OutcomeEnds(result[s], cursor[s], PresentOf(job.batch, s), RowsOf(job.batch, s),
                                  Latest(s, job.batch), job.at)
<1> DEFINE batch == job.batch
           Of(s) == Outcomes(s, PresentOf(batch, s), RowsOf(batch, s), Latest(s, batch), job.at)
<1>1. batch \in SUBSET Record /\ IsFiniteSet(batch) /\ job.at \in Nat
  BY DEF Job, Batches, IngestAssumption
<1>2. AllEvents(batch) \in SUBSET Record /\ AllGaps(batch) \in SUBSET Record
  BY <1>1 DEF AllEvents, AllGaps, EventsIn, GapsIn, TypeOK
<1>3. ASSUME NEW s \in Sessions
      PROVE  PresentOf(batch, s) \in SUBSET Nat /\ RowsOf(batch, s) \in SUBSET Record
  <2>1. AllEvents(batch) \cup batch \in SUBSET Record
    BY <1>1, <1>2
  <2>2. PresentOf(batch, s) \in SUBSET Nat
    BY <2>1, RecordFacts DEF PresentOf, Present, OfSession
  <2>3. inferred \in SUBSET Record
    BY DEF TypeOK
  <2> QED  BY <1>2, <2>2, <2>3 DEF RowsOf, OfSession
<1>4. /\ events' = AllEvents(batch) /\ gaps' = AllGaps(batch) /\ accepted' = accepted \cup EventsIn(batch)
      /\ \E result \in [Sessions -> UNION {Of(s) : s \in Sessions}] :
            /\ \A s \in Sessions : result[s] \in Of(s)
            /\ cursor' = [s \in Sessions |-> result[s].cursor]
            /\ inferred' = inferred \cup UNION {result[s].lost : s \in Sessions}
            /\ stood' = [s \in Sessions |->
                           Stood(s, result[s].cursor.ackThrough, Latest(s, batch), job.at)]
  BY DEF Ingest, AllEvents, AllGaps, RowsOf, PresentOf
<1>5. PICK result : /\ \A s \in Sessions : result[s] \in Of(s)
                    /\ cursor' = [s \in Sessions |-> result[s].cursor]
                    /\ inferred' = inferred \cup UNION {result[s].lost : s \in Sessions}
                    /\ stood' = [s \in Sessions |->
                                   Stood(s, result[s].cursor.ackThrough, Latest(s, batch), job.at)]
  BY <1>4
<1>6. ASSUME NEW s \in Sessions
      PROVE  /\ OutcomeOK(result[s], cursor[s], s, PresentOf(batch, s), RowsOf(batch, s), job.at)
             /\ OutcomeEnds(result[s], cursor[s], PresentOf(batch, s), RowsOf(batch, s), Latest(s, batch), job.at)
  <2>1. cursor[s] \in Cursor /\ cursor[s].holeSequence \in {0, cursor[s].ackThrough + 1}
    BY DEF TypeOK, HoleIsNext
  <2>2. Latest(s, batch) \in Nat
    BY <1>1, LatestTyped
  <2>3. result[s] \in Outcomes(s, PresentOf(batch, s), RowsOf(batch, s), Latest(s, batch), job.at)
    BY <1>5
  <2> QED  BY <1>1, <1>3, <2>1, <2>2, <2>3, OutcomeFacts
<1> QED  BY <1>4, <1>5, <1>6

\* HeadIsJob: what RunIngest takes from the queue.
LEMMA HeadIsJob ==
  ASSUME TypeOK, queue # <<>>
  PROVE  /\ Head(queue) \in Job /\ Head(queue) = queue[1] /\ 1 \in 1 .. Len(queue)
         /\ Tail(queue) \in Seq(Job) /\ Len(Tail(queue)) = Len(queue) - 1
         /\ \A i \in 1 .. Len(Tail(queue)) : Tail(queue)[i] = queue[i + 1] /\ i + 1 \in 1 .. Len(queue)
<1>1. queue \in Seq(Job)
  BY DEF TypeOK
<1>2. Len(queue) \in Nat /\ Len(queue) # 0
  BY <1>1
<1> QED  BY <1>1, <1>2

----------------------------------------------------------------------------
(* Type correctness, and the hole the ACK waits for.                       *)

\* TypedIngest: a transaction leaves well-formed rows and cursors, the hole of which is the
\* next sequence.
LEMMA TypedIngest ==
  ASSUME IngestAssumption, TypeOK, HoleIsNext, RunIngest
  PROVE  TypeOK' /\ HoleIsNext'
<1> DEFINE job == Head(queue)
<1>1. /\ job \in Job /\ queue' \in Seq(Job) /\ Len(queue') = Len(queue) - 1
      /\ Ingest(job) /\ now' = now
  BY HeadIsJob DEF RunIngest
<1> HIDE DEF job
<1>2. job.batch \in SUBSET Record /\ job.at \in Nat
  BY <1>1 DEF Job, Batches, IngestAssumption
<1>3. PICK result :
        /\ cursor' = [s \in Sessions |-> result[s].cursor]
        /\ inferred' = inferred \cup UNION {result[s].lost : s \in Sessions}
        /\ stood' = [s \in Sessions |->
                       Stood(s, result[s].cursor.ackThrough, Latest(s, job.batch), job.at)]
        /\ \A s \in Sessions : Advances(result[s], cursor[s])
  BY <1>1, IngestFacts DEF OutcomeOK
<1>4. events' \subseteq Record /\ gaps' \subseteq Record /\ accepted' \subseteq Record
  BY <1>1, <1>2, IngestFacts DEF AllEvents, AllGaps, EventsIn, GapsIn, TypeOK
<1>5. cursor' \in [Sessions -> Cursor]
  BY <1>3 DEF Advances
<1>6. inferred' \subseteq Record
  BY <1>3 DEF Advances, TypeOK
<1>7. stood' \in [Sessions -> SUBSET Nat]
  BY <1>2, <1>3 DEF Stood, TypeOK
<1>8. Len(queue') <= QueueSize
  <2>1. Len(queue) \in Nat /\ QueueSize \in Nat /\ Len(queue) <= QueueSize
    BY DEF TypeOK, IngestAssumption
  <2> QED  BY <1>1, <2>1
<1>9. TypeOK'
  BY <1>1, <1>4, <1>5, <1>6, <1>7, <1>8 DEF TypeOK
<1>10. HoleIsNext'
  BY <1>3 DEF Advances, HoleIsNext
<1> QED  BY <1>9, <1>10

\* TypedOther: the queue, the clock and what Collectors deliver.
LEMMA TypedOther ==
  ASSUME IngestAssumption, TypeOK,
         Receive \/ StreamEnds \/ Tick \/ CollectorDelivers \/ IngestCancelled \/ UNCHANGED vars
  PROVE  TypeOK' /\ UNCHANGED <<cursor, stood, inferred, accepted>>
<1>1. CASE Receive
  <2>1. PICK batch \in Batches : queue' = Append(queue, [batch |-> batch, at |-> now, open |-> TRUE])
    BY <1>1 DEF Receive
  <2>2. [batch |-> batch, at |-> now, open |-> TRUE] \in Job
    BY DEF Job, TypeOK
  <2>3. queue' \in Seq(Job) /\ Len(queue') = Len(queue) + 1
    BY <2>1, <2>2 DEF TypeOK
  <2>4. Len(queue') <= QueueSize
    <3>1. Len(queue) < QueueSize /\ Len(queue) \in Nat /\ QueueSize \in Nat
      BY <1>1 DEF Receive, TypeOK, IngestAssumption
    <3> QED  BY <2>3, <3>1
  <2> QED  BY <1>1, <2>3, <2>4 DEF Receive, TypeOK
<1>2. CASE StreamEnds
  <2>1. PICK i \in DOMAIN queue : queue' = [queue EXCEPT ![i].open = FALSE]
    BY <1>2 DEF StreamEnds
  <2>2. queue \in Seq(Job) /\ queue[i] \in Job
    BY DEF TypeOK
  <2>3. [queue[i] EXCEPT !.open = FALSE] \in Job
    BY <2>2 DEF Job
  <2>4. queue' \in Seq(Job) /\ Len(queue') = Len(queue)
    BY <2>1, <2>2, <2>3
  <2> QED  BY <1>2, <2>4 DEF StreamEnds, TypeOK
<1>3. CASE Tick
  BY <1>3 DEF Tick, TypeOK
<1>4. CASE CollectorDelivers
  <2>1. PICK f \in ReplicatedRecords : /\ events' = events \cup {e \in {f} : e.kind = "event" /\ Persistent(e)}
                                       /\ gaps' = gaps \cup {g \in {f} : g.kind = "gap"}
    BY <1>4 DEF CollectorDelivers
  <2>2. events' \subseteq Record /\ gaps' \subseteq Record
    BY <2>1 DEF TypeOK, IngestAssumption
  <2> QED  BY <1>4, <2>2 DEF CollectorDelivers, TypeOK
<1>5. CASE IngestCancelled
  <2>1. queue # <<>> /\ queue' = Tail(queue) /\ UNCHANGED <<now, events, gaps, inferred, cursor, accepted, stood>>
    BY <1>5 DEF IngestCancelled
  <2>2. queue' \in Seq(Job) /\ Len(queue') = Len(queue) - 1
    BY <2>1, HeadIsJob
  <2>3. Len(queue) \in Nat /\ QueueSize \in Nat /\ Len(queue) <= QueueSize
    BY DEF TypeOK, IngestAssumption
  <2> QED  BY <2>1, <2>2, <2>3 DEF TypeOK
<1>6. CASE UNCHANGED vars
  BY <1>6 DEF vars, TypeOK
<1> QED  BY <1>1, <1>2, <1>3, <1>4, <1>5, <1>6

\* TypedStep: every step keeps the types and the hole.
LEMMA TypedStep ==
  ASSUME IngestAssumption, TypeOK, HoleIsNext, [Next]_vars
  PROVE  TypeOK' /\ HoleIsNext'
<1>1. CASE RunIngest
  BY <1>1, TypedIngest
<1>2. CASE Receive \/ StreamEnds \/ Tick \/ CollectorDelivers \/ IngestCancelled \/ UNCHANGED vars
  BY <1>2, TypedOther DEF HoleIsNext
<1> QED  BY <1>1, <1>2 DEF Next

\* TypedInit: a Primary that has not heard of any session.
LEMMA TypedInit ==
  ASSUME IngestAssumption, Init
  PROVE  TypeOK /\ HoleIsNext
<1>1. cursor \in [Sessions -> Cursor] /\ stood \in [Sessions -> SUBSET Nat]
  BY DEF Init, Cursor
<1>2. Len(queue) <= QueueSize
  BY DEF Init, IngestAssumption
<1> QED  BY <1>1, <1>2 DEF Init, TypeOK, HoleIsNext

\* TypeCorrect: rows, cursors and queue stay well formed, and the queue within its size.
THEOREM TypeCorrect == Spec => []TypeOK
<1>1. Init => TypeOK /\ HoleIsNext
  BY TypedInit, IngestAssumption
<1>2. TypeOK /\ HoleIsNext /\ [Next]_vars => TypeOK' /\ HoleIsNext'
  BY TypedStep, IngestAssumption
<1> QED  BY <1>1, <1>2, PTL DEF Spec

\* HoleStaysNext: no interleaving of batches, Collectors and closed holes leaves a hole
\* recorded that the ACK has passed.
THEOREM HoleStaysNext == Spec => []HoleIsNext
<1>1. Init => TypeOK /\ HoleIsNext
  BY TypedInit, IngestAssumption
<1>2. TypeOK /\ HoleIsNext /\ [Next]_vars => TypeOK' /\ HoleIsNext'
  BY TypedStep, IngestAssumption
<1> QED  BY <1>1, <1>2, PTL DEF Spec

----------------------------------------------------------------------------
(* What is acknowledged.                                                   *)

\* RowsGrow: nothing that accounts for a sequence is ever taken back.
LEMMA RowsGrow ==
  ASSUME IngestAssumption, TypeOK, HoleIsNext, [Next]_vars
  PROVE  events \subseteq events' /\ gaps \subseteq gaps' /\ inferred \subseteq inferred' /\ accepted \subseteq accepted'
<1>1. CASE RunIngest
  <2>1. Head(queue) \in Job /\ Ingest(Head(queue))
    BY <1>1, HeadIsJob DEF RunIngest
  <2> QED  BY <2>1, IngestFacts DEF AllEvents, AllGaps
<1>2. CASE CollectorDelivers
  BY <1>2 DEF CollectorDelivers
<1>3. CASE Receive \/ StreamEnds \/ Tick \/ IngestCancelled \/ UNCHANGED vars
  BY <1>3 DEF Receive, StreamEnds, Tick, IngestCancelled, vars
<1> QED  BY <1>1, <1>2, <1>3 DEF Next

\* AccountedIngest: what a transaction acknowledges beyond the old ACK is an event of the
\* batch or of a row, lies in a gap, or is declared lost.
LEMMA AccountedIngest ==
  ASSUME IngestAssumption, TypeOK, HoleIsNext, AckIsAccounted, RunIngest
  PROVE  AckIsAccounted'
<1> DEFINE job == Head(queue)
           batch == job.batch
<1>1. job \in Job /\ Ingest(job)
  BY HeadIsJob DEF RunIngest
<1> HIDE DEF job
<1>2. batch \in SUBSET Record
  BY <1>1 DEF Job, Batches, IngestAssumption
<1> HIDE DEF batch
<1>3. PICK result :
        /\ cursor' = [s \in Sessions |-> result[s].cursor]
        /\ inferred' = inferred \cup UNION {result[s].lost : s \in Sessions}
        /\ \A s \in Sessions :
             /\ Advances(result[s], cursor[s])
             /\ Accounted(result[s], cursor[s], PresentOf(batch, s), RowsOf(batch, s))
             /\ \A g \in result[s].lost : g.session = s
  BY <1>1, IngestFacts DEF OutcomeOK, Patient, batch
<1>4. events' = AllEvents(batch) /\ gaps' = AllGaps(batch) /\ accepted' = accepted \cup EventsIn(batch)
  BY <1>1, IngestFacts DEF batch
<1> DEFINE facts == accepted' \cup events' \cup gaps' \cup inferred'
<1>5. SUFFICES ASSUME NEW s \in Sessions, NEW n \in 1 .. cursor'[s].ackThrough
               PROVE  \E f \in facts : Accounts(f) /\ f.session = s /\ f.start <= n /\ n <= f.end
  BY DEF AckIsAccounted, Covered
<1>6. cursor[s].ackThrough \in Nat /\ result[s].cursor.ackThrough \in Nat /\ n \in Nat
      /\ cursor'[s].ackThrough = result[s].cursor.ackThrough /\ n <= result[s].cursor.ackThrough
  BY <1>3 DEF TypeOK, Cursor, Advances
<1>7. CASE n <= cursor[s].ackThrough
  <2>1. n \in 1 .. cursor[s].ackThrough
    BY <1>6, <1>7
  <2>2. Covered(accepted \cup events \cup gaps \cup inferred, s, n)
    BY <2>1 DEF AckIsAccounted
  <2>3. accepted \cup events \cup gaps \cup inferred \subseteq facts
    BY RowsGrow DEF Next
  <2> QED  BY <2>2, <2>3 DEF Covered
<1>8. CASE n > cursor[s].ackThrough
  <2>1. Known(PresentOf(batch, s), RowsOf(batch, s) \cup result[s].lost, n)
    BY <1>3, <1>6, <1>8 DEF Accounted
  <2>2. CASE n \in PresentOf(batch, s)
    <3>1. PICK r \in OfSession(AllEvents(batch) \cup batch, s) : n = r.end
      BY <2>2 DEF PresentOf, Present
    <3>2. r \in AllEvents(batch) \cup batch /\ r.session = s
      BY <3>1 DEF OfSession
    <3>3. r \in Record
      BY <1>2, <3>2 DEF AllEvents, EventsIn, TypeOK
    <3>4. r \in facts
      <4>1. CASE r \in AllEvents(batch)
        BY <1>4, <4>1
      <4>2. CASE r \in batch
        <5>1. r.kind = "event" \/ r.kind = "gap"
          BY <3>3 DEF Record
        <5> QED  BY <1>4, <4>2, <5>1 DEF EventsIn, GapsIn, AllGaps
      <4> QED  BY <3>2, <4>1, <4>2
    <3> QED  BY <3>1, <3>2, <3>3, <3>4, RecordFacts
  <2>3. ASSUME NEW g \in RowsOf(batch, s) \cup result[s].lost, g.start <= n, n <= g.end
        PROVE  \E f \in facts : Accounts(f) /\ f.session = s /\ f.start <= n /\ n <= f.end
    <3>1. CASE g \in RowsOf(batch, s)
      <4>1. g \in AllGaps(batch) \cup inferred /\ g.session = s
        BY <3>1 DEF RowsOf, OfSession
      <4>2. g \in facts /\ g \in Record
        BY <1>2, <1>3, <1>4, <4>1 DEF AllGaps, GapsIn, TypeOK
      <4> QED  BY <2>3, <4>1, <4>2, RecordFacts
    <3>2. CASE g \in result[s].lost
      <4>1. g \in inferred' /\ g \in Record
        BY <1>3, <3>2 DEF Advances
      <4>2. g.session = s
        BY <1>3, <3>2
      <4> QED  BY <2>3, <4>1, <4>2, RecordFacts
    <3> QED  BY <2>3, <3>1, <3>2
  <2> QED  BY <2>1, <2>2, <2>3 DEF Known
<1> QED  BY <1>6, <1>7, <1>8

\* AckAccounted: the cumulative ACK never covers a sequence of which the Primary took in no
\* event, knows no gap and declared no loss.
THEOREM AckAccounted == Spec => []AckIsAccounted
<1>1. Init => AckIsAccounted
  <2> SUFFICES ASSUME Init PROVE AckIsAccounted
    OBVIOUS
  <2>1. \A s \in Sessions : cursor[s].ackThrough = 0
    BY DEF Init
  <2> QED  BY <2>1 DEF AckIsAccounted
<1>2. TypeOK /\ HoleIsNext /\ AckIsAccounted /\ [Next]_vars => AckIsAccounted'
  <2> SUFFICES ASSUME TypeOK, HoleIsNext, AckIsAccounted, [Next]_vars
               PROVE  AckIsAccounted'
    OBVIOUS
  <2>1. CASE RunIngest
    BY <2>1, AccountedIngest, IngestAssumption
  <2>2. CASE Receive \/ StreamEnds \/ Tick \/ CollectorDelivers \/ IngestCancelled \/ UNCHANGED vars
    <3>1. cursor' = cursor
      BY <2>2, TypedOther, IngestAssumption
    <3>2. accepted \cup events \cup gaps \cup inferred \subseteq accepted' \cup events' \cup gaps' \cup inferred'
      BY RowsGrow, IngestAssumption
    <3> QED  BY <3>1, <3>2 DEF AckIsAccounted, Covered
  <2> QED  BY <2>1, <2>2 DEF Next
<1> QED  BY <1>1, <1>2, TypeCorrect, HoleStaysNext, PTL DEF Spec

\* AckNeverBack: no batch, late or repeated, takes the cumulative ACK back.
THEOREM AckNeverBack == Spec => AckGrows
<1>1. TypeOK /\ HoleIsNext /\ [Next]_vars => [\A s \in Sessions : cursor'[s].ackThrough >= cursor[s].ackThrough]_vars
  <2> SUFFICES ASSUME TypeOK, HoleIsNext, [Next]_vars, NEW s \in Sessions
               PROVE  cursor'[s].ackThrough >= cursor[s].ackThrough
    OBVIOUS
  <2>1. cursor[s].ackThrough \in Nat
    BY DEF TypeOK, Cursor
  <2>2. CASE RunIngest
    <3>1. Head(queue) \in Job /\ Ingest(Head(queue))
      BY <2>2, HeadIsJob DEF RunIngest
    <3>2. PICK result : /\ cursor' = [t \in Sessions |-> result[t].cursor]
                        /\ \A t \in Sessions : Advances(result[t], cursor[t])
      BY <3>1, IngestFacts, IngestAssumption DEF OutcomeOK
    <3> QED  BY <3>2 DEF Advances
  <2>3. CASE Receive \/ StreamEnds \/ Tick \/ CollectorDelivers \/ IngestCancelled \/ UNCHANGED vars
    <3>1. cursor' = cursor
      BY <2>3, TypedOther, IngestAssumption
    <3> QED  BY <2>1, <3>1
  <2> QED  BY <2>2, <2>3 DEF Next
<1> QED  BY <1>1, TypeCorrect, HoleStaysNext, PTL DEF Spec, AckGrows

----------------------------------------------------------------------------
(* What is declared lost.                                                  *)

\* InferredBy: whatever is newly declared lost, one session's outcome of the ingest of the
\* job at the head of the queue declares.
LEMMA InferredBy ==
  ASSUME IngestAssumption, TypeOK, HoleIsNext, [Next]_vars, NEW g \in NewlyInferred
  PROVE  LET job == Head(queue)
         IN  /\ job \in Job /\ queue # <<>>
             /\ events' = AllEvents(job.batch) /\ gaps' = AllGaps(job.batch)
             /\ g \in Record
             /\ \A n \in Nat : g.start <= n /\ n <= g.end =>
                   ~Known(PresentOf(job.batch, g.session), RowsOf(job.batch, g.session), n)
             /\ cursor[g.session].holeSequence # 0
             /\ job.at - cursor[g.session].holeSince >= Grace
<1>1. g \in inferred' /\ g \notin inferred
  BY DEF NewlyInferred
<1>2. ~(Receive \/ StreamEnds \/ Tick \/ CollectorDelivers \/ IngestCancelled \/ UNCHANGED vars)
  BY <1>1, TypedOther
<1>3. RunIngest
  BY <1>2 DEF Next
<1> DEFINE job == Head(queue)
<1>4. job \in Job /\ Ingest(job) /\ queue # <<>>
  BY <1>3, HeadIsJob DEF RunIngest
<1> HIDE DEF job
<1>5. PICK result :
        /\ inferred' = inferred \cup UNION {result[s].lost : s \in Sessions}
        /\ \A s \in Sessions :
             OutcomeOK(result[s], cursor[s], s, PresentOf(job.batch, s), RowsOf(job.batch, s), job.at)
  BY <1>4, IngestFacts
<1>6. PICK s \in Sessions : g \in result[s].lost
  BY <1>1, <1>5
<1>7. g \in Record
  BY <1>5, <1>6 DEF OutcomeOK, Advances
<1>8. /\ g.session = s
      /\ \A n \in Nat : g.start <= n /\ n <= g.end => ~Known(PresentOf(job.batch, s), RowsOf(job.batch, s), n)
      /\ cursor[s].holeSequence # 0 /\ job.at - cursor[s].holeSince >= Grace
  BY <1>5, <1>6 DEF OutcomeOK, Patient
<1>9. events' = AllEvents(job.batch) /\ gaps' = AllGaps(job.batch)
  BY <1>4, IngestFacts
<1> QED  BY <1>4, <1>7, <1>8, <1>9 DEF job

\* Only events have rows in TelemetryEvent.
EventRows == \A e \in events : e.kind = "event"

\* EventRowsStep: both paths write events alone.
LEMMA EventRowsStep ==
  ASSUME IngestAssumption, TypeOK, HoleIsNext, EventRows, [Next]_vars
  PROVE  EventRows'
<1>1. CASE RunIngest
  <2>1. Head(queue) \in Job /\ Ingest(Head(queue))
    BY <1>1, HeadIsJob DEF RunIngest
  <2> QED  BY <2>1, IngestFacts DEF AllEvents, EventsIn, EventRows
<1>2. CASE CollectorDelivers
  BY <1>2 DEF CollectorDelivers, EventRows
<1>3. CASE Receive \/ StreamEnds \/ Tick \/ IngestCancelled \/ UNCHANGED vars
  BY <1>3 DEF Receive, StreamEnds, Tick, IngestCancelled, vars, EventRows
<1> QED  BY <1>1, <1>2, <1>3 DEF Next

\* EventsHaveEventRows: no other kind of record gets into TelemetryEvent.
LEMMA EventsHaveEventRows == Spec => []EventRows
<1>1. Init => EventRows
  BY DEF Init, EventRows
<1>2. TypeOK /\ HoleIsNext /\ EventRows /\ [Next]_vars => EventRows'
  BY EventRowsStep, IngestAssumption
<1> QED  BY <1>1, <1>2, TypeCorrect, HoleStaysNext, PTL DEF Spec

\* RowsKept: a gap that is declared in a step meets no row there is.
LEMMA RowsKept ==
  ASSUME IngestAssumption, TypeOK, HoleIsNext, EventRows, [Next]_vars, NEW g \in NewlyInferred,
         NEW r \in events' \cup gaps' \cup inferred, r.session = g.session
  PROVE  r.end < g.start \/ g.end < r.start
<1> DEFINE batch == Head(queue).batch
           s == g.session
<1>1. /\ events' = AllEvents(batch) /\ gaps' = AllGaps(batch) /\ g \in Record
      /\ \A n \in Nat : g.start <= n /\ n <= g.end => ~Known(PresentOf(batch, s), RowsOf(batch, s), n)
  BY InferredBy
<1> HIDE DEF batch
<1>2. g.start \in Nat /\ g.end \in Nat /\ g.start <= g.end
  BY <1>1, RecordFacts
<1>3. TypeOK' /\ EventRows'
  BY TypedStep, EventRowsStep
<1>4. r \in Record
  BY <1>3 DEF TypeOK
<1>5. r.start \in Nat /\ r.end \in Nat /\ r.start <= r.end
  BY <1>4, RecordFacts
<1>6. CASE r \in events'
  <2>1. r.start = r.end
    BY <1>3, <1>4, <1>6, RecordFacts DEF EventRows
  <2>2. r.end \in PresentOf(batch, s)
    BY <1>1, <1>6 DEF PresentOf, Present, OfSession
  <2>3. ~(g.start <= r.end /\ r.end <= g.end)
    BY <1>1, <1>5, <2>2 DEF Known
  <2> QED  BY <1>2, <1>5, <2>1, <2>3
<1>7. CASE r \in gaps' \cup inferred
  <2>1. r \in RowsOf(batch, s)
    BY <1>1, <1>7 DEF RowsOf, OfSession
  <2>2. \A n \in Nat : ~(g.start <= n /\ n <= g.end /\ r.start <= n /\ n <= r.end)
    BY <1>1, <2>1 DEF Known
  <2> QED  BY <1>2, <1>5, <2>2
<1> QED  BY <1>6, <1>7

\* RowsNeverLost: what the Primary declares lost overlaps no event, no gap and no earlier
\* loss in its tables, whichever path it came by.
THEOREM RowsNeverLost == Spec => RowsAreNotLost
<1>1. TypeOK /\ HoleIsNext /\ EventRows /\ [Next]_vars =>
        [\A g \in NewlyInferred : \A r \in events' \cup gaps' \cup inferred :
            r.session = g.session => r.end < g.start \/ g.end < r.start]_vars
  BY RowsKept, IngestAssumption
<1> QED  BY <1>1, EventsHaveEventRows, TypeCorrect, HoleStaysNext, PTL DEF Spec, RowsAreNotLost

----------------------------------------------------------------------------
(* What an answer promises.                                                *)

\* RowsKnown: whatever a table or the batch accounts for, the loop knows.
LEMMA RowsKnown ==
  ASSUME NEW batch \in SUBSET Record, NEW s, NEW lost, NEW n \in Nat,
         AllEvents(batch) \subseteq Record, \A e \in AllEvents(batch) : e.kind = "event",
         Covered(batch \cup AllEvents(batch) \cup AllGaps(batch) \cup inferred \cup lost, s, n)
  PROVE  Known(PresentOf(batch, s), RowsOf(batch, s) \cup lost, n)
<1>1. PICK f \in batch \cup AllEvents(batch) \cup AllGaps(batch) \cup inferred \cup lost :
         f.session = s /\ f.start <= n /\ n <= f.end
  BY DEF Covered
<1>2. CASE f \in AllGaps(batch) \cup inferred \cup lost
  BY <1>1, <1>2 DEF Known, RowsOf, OfSession
<1>3. CASE f \in AllEvents(batch) \cup EventsIn(batch)
  <2>1. f \in Record /\ f.kind = "event"
    BY <1>3 DEF EventsIn
  <2>2. n = f.end
    BY <1>1, <2>1, RecordFacts
  <2>3. f \in AllEvents(batch) \cup batch
    BY <1>3 DEF EventsIn
  <2>4. n \in PresentOf(batch, s)
    BY <1>1, <2>2, <2>3 DEF PresentOf, Present, OfSession
  <2> QED  BY <2>4 DEF Known
<1>4. CASE f \in GapsIn(batch)
  BY <1>2, <1>4 DEF AllGaps
<1>5. \A r \in batch : r \in EventsIn(batch) \cup GapsIn(batch)
  BY DEF EventsIn, GapsIn, Record
<1> QED  BY <1>1, <1>2, <1>3, <1>4, <1>5

\* AnswerEnds: what a transaction does with each session, said of the tables.
LEMMA AnswerEnds ==
  ASSUME IngestAssumption, TypeOK, HoleIsNext, EventRows, RunIngest, NEW s \in Sessions
  PROVE  LET job == Head(queue)
             c   == cursor[s]
             ack == cursor'[s].ackThrough
         IN  /\ Latest(s, job.batch) > c.ackThrough =>
                   \/ ack >= Latest(s, job.batch)
                   \/ ~Covered(job.batch \cup events' \cup gaps' \cup inferred', s, ack + 1)
             /\ Grace > 0 /\ c.holeSequence # 0 /\ c.holeSequence <= Latest(s, job.batch)
                  /\ job.at - c.holeSince >= Grace => ack >= c.holeSequence
<1> DEFINE job == Head(queue)
           batch == job.batch
<1>1. job \in Job /\ Ingest(job)
  BY HeadIsJob DEF RunIngest
<1> HIDE DEF job
<1>2. batch \in SUBSET Record
  BY <1>1 DEF Job, Batches, IngestAssumption
<1>3. PICK result :
        /\ cursor' = [t \in Sessions |-> result[t].cursor]
        /\ inferred' = inferred \cup UNION {result[t].lost : t \in Sessions}
        /\ \A t \in Sessions : \A g \in result[t].lost : g.session = t
        /\ result[s].cursor \in Cursor
        /\ OutcomeEnds(result[s], cursor[s], PresentOf(batch, s), RowsOf(batch, s), Latest(s, batch), job.at)
  BY <1>1, IngestFacts DEF OutcomeOK, Patient, Advances
<1>4. events' = AllEvents(batch) /\ gaps' = AllGaps(batch)
  BY <1>1, IngestFacts
<1>5. cursor'[s].ackThrough = result[s].cursor.ackThrough /\ cursor'[s].ackThrough + 1 \in Nat
  BY <1>3 DEF Cursor
<1> HIDE DEF batch
<1>6. ASSUME Covered(batch \cup events' \cup gaps' \cup inferred', s, cursor'[s].ackThrough + 1)
      PROVE  Known(PresentOf(batch, s), RowsOf(batch, s) \cup result[s].lost, cursor'[s].ackThrough + 1)
  <2> DEFINE n == cursor'[s].ackThrough + 1
  <2>1. n \in Nat
    BY <1>5
  <2> HIDE DEF n
  <2>2. TypeOK' /\ EventRows'
    BY TypedIngest, EventRowsStep DEF Next
  <2>3. AllEvents(batch) \subseteq Record /\ \A e \in AllEvents(batch) : e.kind = "event"
    BY <1>4, <2>2 DEF TypeOK, EventRows
  <2>4. PICK f \in batch \cup events' \cup gaps' \cup inferred' :
           Accounts(f) /\ f.session = s /\ f.start <= n /\ n <= f.end
    BY <1>6 DEF Covered, n
  <2>5. f \in batch \cup AllEvents(batch) \cup AllGaps(batch) \cup inferred \cup result[s].lost
    BY <1>3, <1>4, <2>4
  <2>6. Covered(batch \cup AllEvents(batch) \cup AllGaps(batch) \cup inferred \cup result[s].lost, s, n)
    BY <2>4, <2>5 DEF Covered
  <2>7. Known(PresentOf(batch, s), RowsOf(batch, s) \cup result[s].lost, n)
    BY <1>2, <2>1, <2>3, <2>6, RowsKnown
  <2> QED  BY <2>7 DEF n
<1> QED  BY <1>3, <1>5, <1>6 DEF OutcomeEnds, Thorough, Closes, batch, job

\* LossOfSession: a step declares at most one gap of a session, from the sequence the ACK
\* waited for to one the ACK has passed then.
LEMMA LossOfSession ==
  ASSUME IngestAssumption, TypeOK, HoleIsNext, [Next]_vars, NEW g \in NewlyInferred
  PROVE  /\ g.start = cursor[g.session].ackThrough + 1
         /\ g.end <= cursor'[g.session].ackThrough
         /\ \A h \in NewlyInferred : h.session = g.session => h = g
<1>1. ~(Receive \/ StreamEnds \/ Tick \/ CollectorDelivers \/ IngestCancelled \/ UNCHANGED vars)
  BY TypedOther DEF NewlyInferred
<1>2. RunIngest
  BY <1>1 DEF Next
<1>3. Head(queue) \in Job /\ Ingest(Head(queue))
  BY <1>2, HeadIsJob DEF RunIngest
<1>4. PICK result :
        /\ cursor' = [t \in Sessions |-> result[t].cursor]
        /\ inferred' = inferred \cup UNION {result[t].lost : t \in Sessions}
        /\ \A t \in Sessions : Awaited(result[t], cursor[t]) /\ \A h \in result[t].lost : h.session = t
  BY <1>3, IngestFacts DEF OutcomeOK, OutcomeEnds, Patient
<1>5. \A h \in NewlyInferred : h.session \in Sessions /\ h \in result[h.session].lost
  <2> SUFFICES ASSUME NEW h \in NewlyInferred
               PROVE  h.session \in Sessions /\ h \in result[h.session].lost
    OBVIOUS
  <2>1. PICK t \in Sessions : h \in result[t].lost
    BY <1>4 DEF NewlyInferred
  <2>2. h.session = t
    BY <1>4, <2>1
  <2> QED  BY <2>1, <2>2
<1>6. g.session \in Sessions /\ g \in result[g.session].lost
  BY <1>5
<1>7. \A h \in NewlyInferred : h.session = g.session => h \in result[g.session].lost
  BY <1>5
<1>8. Awaited(result[g.session], cursor[g.session])
  BY <1>4, <1>6
<1>9. result[g.session].lost = {g}
  BY <1>6, <1>8 DEF Awaited
<1> QED  BY <1>4, <1>6, <1>7, <1>8, <1>9 DEF Awaited

\* DisjointKept: a new loss meets none there was, and there is one of a session at a time.
LEMMA DisjointKept ==
  ASSUME IngestAssumption, TypeOK, HoleIsNext, EventRows, LossesAreDisjoint, [Next]_vars
  PROVE  LossesAreDisjoint'
<1> SUFFICES ASSUME NEW g \in inferred', NEW h \in inferred', g.session = h.session, g # h
             PROVE  g.end < h.start \/ h.end < g.start
  BY DEF LossesAreDisjoint
<1>1. CASE g \in inferred /\ h \in inferred
  BY <1>1 DEF LossesAreDisjoint
<1>2. CASE g \notin inferred /\ h \in inferred
  <2>1. g \in NewlyInferred
    BY <1>2 DEF NewlyInferred
  <2> QED  BY <1>2, <2>1, RowsKept
<1>3. CASE g \in inferred /\ h \notin inferred
  <2>1. h \in NewlyInferred
    BY <1>3 DEF NewlyInferred
  <2> QED  BY <1>3, <2>1, RowsKept
<1>4. CASE g \notin inferred /\ h \notin inferred
  <2>1. g \in NewlyInferred /\ h \in NewlyInferred
    BY <1>4 DEF NewlyInferred
  <2> QED  BY <2>1, LossOfSession
<1> QED  BY <1>1, <1>2, <1>3, <1>4

\* LossesCountOnce: no sequence is declared lost twice by the Primary, however holes reopen,
\* batches repeat and sessions interleave.
THEOREM LossesCountOnce == Spec => []LossesAreDisjoint
<1>1. Init => LossesAreDisjoint
  BY DEF Init, LossesAreDisjoint
<1>2. TypeOK /\ HoleIsNext /\ EventRows /\ LossesAreDisjoint /\ [Next]_vars => LossesAreDisjoint'
  BY DisjointKept, IngestAssumption
<1> QED  BY <1>1, <1>2, EventsHaveEventRows, TypeCorrect, HoleStaysNext, PTL DEF Spec

\* AcknowledgedNeverLost: what is declared lost lies between the old ACK and the new one, so
\* that no acknowledged sequence is declared lost later and no loss leaves the ACK waiting.
THEOREM AcknowledgedNeverLost == Spec => LossIsAwaited
<1>1. TypeOK /\ HoleIsNext /\ [Next]_vars =>
        [\A g \in NewlyInferred : /\ g.start = cursor[g.session].ackThrough + 1
                                  /\ g.end <= cursor'[g.session].ackThrough]_vars
  BY LossOfSession, IngestAssumption
<1> QED  BY <1>1, TypeCorrect, HoleStaysNext, PTL DEF Spec, LossIsAwaited

\* AnswersAreMaximal: an answer stops short of its batch only at a sequence of which nobody
\* has told the Primary.
THEOREM AnswersAreMaximal == Spec => AckStopsAtHole
<1>1. TypeOK /\ HoleIsNext /\ EventRows /\ [Next]_vars =>
        [RunIngest => \A s \in Sessions :
            LET batch == Head(queue).batch
                ack   == cursor'[s].ackThrough
            IN  Latest(s, batch) > cursor[s].ackThrough =>
                  \/ ack >= Latest(s, batch)
                  \/ ~Covered(batch \cup events' \cup gaps' \cup inferred', s, ack + 1)]_vars
  BY AnswerEnds, IngestAssumption
<1> QED  BY <1>1, EventsHaveEventRows, TypeCorrect, HoleStaysNext, PTL DEF Spec, AckStopsAtHole

\* HolesAreClosed: a hole outlives its grace period only until a batch goes beyond it.
THEOREM HolesAreClosed == Spec => HolesClose
<1>1. TypeOK /\ HoleIsNext /\ EventRows /\ [Next]_vars =>
        [RunIngest => \A s \in Sessions :
            LET job == Head(queue)
                c   == cursor[s]
            IN  /\ Grace > 0 /\ c.holeSequence # 0 /\ c.holeSequence <= Latest(s, job.batch)
                /\ job.at - c.holeSince >= Grace
                => cursor'[s].ackThrough >= c.holeSequence]_vars
  BY AnswerEnds, IngestAssumption
<1> QED  BY <1>1, EventsHaveEventRows, TypeCorrect, HoleStaysNext, PTL DEF Spec, HolesClose

----------------------------------------------------------------------------
(* Patience.                                                               *)

\* A recorded hole was met, at the time it is recorded with, by a batch that has left the
\* ACK where it still is.
HoleMet == \A s \in Sessions : cursor[s].holeSequence # 0 => cursor[s].holeSince \in stood[s]

\* HoleMetStep: a batch that records a hole has met it, and an ACK that moves takes the hole
\* and those who met it along.
LEMMA HoleMetStep ==
  ASSUME IngestAssumption, TypeOK, HoleIsNext, HoleMet, [Next]_vars
  PROVE  HoleMet'
<1>1. CASE RunIngest
  <2> DEFINE job == Head(queue)
  <2>1. job \in Job /\ Ingest(job)
    BY <1>1, HeadIsJob DEF RunIngest
  <2> HIDE DEF job
  <2>2. PICK result :
          /\ cursor' = [s \in Sessions |-> result[s].cursor]
          /\ stood' = [s \in Sessions |->
                         Stood(s, result[s].cursor.ackThrough, Latest(s, job.batch), job.at)]
          /\ \A s \in Sessions : Met(result[s], cursor[s], Latest(s, job.batch), job.at)
    BY <2>1, IngestFacts DEF OutcomeEnds
  <2> SUFFICES ASSUME NEW s \in Sessions, cursor'[s].holeSequence # 0
               PROVE  cursor'[s].holeSince \in stood'[s]
    BY DEF HoleMet
  <2>3. CASE result[s].cursor.ackThrough < Latest(s, job.batch) /\ cursor'[s].holeSince = job.at
    BY <2>2, <2>3 DEF Stood
  <2>4. CASE /\ result[s].cursor.ackThrough = cursor[s].ackThrough
             /\ cursor'[s].holeSince = cursor[s].holeSince /\ cursor[s].holeSequence # 0
    BY <2>2, <2>4 DEF Stood, HoleMet
  <2> QED  BY <2>2, <2>3, <2>4 DEF Met
<1>2. CASE Receive \/ StreamEnds \/ Tick \/ CollectorDelivers \/ IngestCancelled \/ UNCHANGED vars
  <2>1. UNCHANGED <<cursor, stood>>
    BY <1>2, TypedOther
  <2> QED  BY <2>1 DEF HoleMet
<1> QED  BY <1>1, <1>2 DEF Next

\* PatienceProved: what is declared lost begins with the sequence the ACK waits for, and a
\* batch received the grace period before this one had been left waiting for it already,
\* whatever waits in the queue and however sessions interleave.
THEOREM PatienceProved == Spec => HolePatience
<1>1. Init => HoleMet
  BY DEF Init, HoleMet
<1>2. TypeOK /\ HoleIsNext /\ HoleMet /\ [Next]_vars => HoleMet'
  BY HoleMetStep, IngestAssumption
<1>3. ASSUME TypeOK, HoleIsNext, HoleMet, [Next]_vars, NEW g \in NewlyInferred
      PROVE  /\ g.start = cursor[g.session].ackThrough + 1
             /\ \E t \in stood[g.session] : Head(queue).at - t >= Grace
  <2>1. /\ g \in Record /\ cursor[g.session].holeSequence # 0
        /\ Head(queue).at - cursor[g.session].holeSince >= Grace
    BY <1>3, InferredBy, IngestAssumption
  <2>2. g.session \in Sessions
    BY <2>1, RecordFacts
  <2>3. cursor[g.session].holeSince \in stood[g.session]
    BY <1>3, <2>1, <2>2 DEF HoleMet
  <2> QED  BY <1>3, <2>1, <2>3, LossOfSession, IngestAssumption
<1>4. TypeOK /\ HoleIsNext /\ HoleMet /\ [Next]_vars =>
        [\A g \in NewlyInferred :
           /\ g.start = cursor[g.session].ackThrough + 1
           /\ \E t \in stood[g.session] : Head(queue).at - t >= Grace]_vars
  BY <1>3
<1> QED  BY <1>1, <1>2, <1>4, TypeCorrect, HoleStaysNext, PTL DEF Spec, HolePatience

============================================================================
