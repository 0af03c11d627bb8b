--------------------------- MODULE TaskListingProofs ---------------------------
(***************************************************************************)
(* Proofs about TaskListing: how far a client that turns pages can miss.   *)
(***************************************************************************)
EXTENDS TaskListing, FiniteSetTheorems, TLAPS

-----------------------------------------------------------------------------
(***************************************************************************)
(* Ranks                                                                   *)
(***************************************************************************)

\* Ids and creation times can be compared.
LEMMA ColumnsAreNat ==
    ASSUME TypeOK
    PROVE  \A v \in Tasks : v \in Nat /\ row[v].created \in Nat
  <1> TAKE v \in Tasks
  <1>1. row[v] \in Row
    BY DEF TypeOK
  <1>2. row[v].created \in Times \cup {0}
    BY <1>1 DEF Row
  <1>3. Tasks \subseteq Nat /\ Times \subseteq Nat
    BY Zenon, ConstantsAssumption DEF ConstantsAssumption
  <1>4. v \in Nat
    BY <1>3
  <1>5. Times \cup {0} \subseteq Nat
    BY <1>3
  <1> QED
    BY <1>2, <1>4, <1>5

\* Ranks are numbers.
LEMMA RankIsNat ==
    ASSUME NEW t, NEW f
    PROVE  IsFiniteSet(Listed(f)) /\ IsFiniteSet(Ahead(t, f)) /\ Rank(t, f) \in Nat
  <1>1. Listed(f) \subseteq Tasks /\ Ahead(t, f) \subseteq Listed(f)
    BY DEF Listed, Ahead
  <1>2. IsFiniteSet(Listed(f)) /\ IsFiniteSet(Ahead(t, f))
    BY <1>1, FS_Subset, ConstantsAssumption
  <1> QED
    BY <1>2, FS_CardinalityType DEF Rank

\* The order is total, so that no two listed Tasks share a place.
LEMMA RanksDiffer ==
    ASSUME TypeOK, NEW f, NEW t \in Listed(f), NEW u \in Listed(f), Before(u, t)
    PROVE  Rank(u, f) < Rank(t, f)
  <1>1. t \in Tasks /\ u \in Tasks /\ Ahead(u, f) \subseteq Tasks
    BY DEF Listed, Ahead
  <1>2. \A v \in Tasks : v \in Nat /\ row[v].created \in Nat
    BY ColumnsAreNat
  <1>3. Ahead(u, f) \subseteq Ahead(t, f)
    BY <1>1, <1>2 DEF Ahead, Before, Listed
  <1>4. u \in Ahead(t, f) /\ u \notin Ahead(u, f)
    BY <1>1, <1>2 DEF Ahead, Before
  <1>5. Ahead(u, f) \cup {u} \subseteq Ahead(t, f)
    BY <1>3, <1>4
  <1>6. Cardinality(Ahead(u, f) \cup {u}) = Rank(u, f) + 1
    BY <1>4, RankIsNat, FS_AddElement DEF Rank
  <1>7. Cardinality(Ahead(u, f) \cup {u}) <= Rank(t, f)
    BY <1>5, RankIsNat, FS_Subset DEF Rank
  <1> QED
    BY <1>6, <1>7, RankIsNat

\* Two listed Tasks of one rank are one Task.
LEMMA RankIsUnique ==
    ASSUME TypeOK, NEW f, NEW t \in Listed(f), NEW u \in Listed(f), Rank(t, f) = Rank(u, f)
    PROVE  t = u
  <1>1. t \in Nat /\ u \in Nat /\ row[t].created \in Nat /\ row[u].created \in Nat
    BY ColumnsAreNat DEF Listed
  <1>2. Before(t, u) \/ Before(u, t) \/ t = u
    BY <1>1 DEF Before
  <1> QED
    BY <1>2, RanksDiffer, RankIsNat

\* Every rank is below the length of the list.
LEMMA RankIsBelowLength ==
    ASSUME TypeOK, NEW f, NEW t \in Listed(f)
    PROVE  Rank(t, f) < Cardinality(Listed(f))
  <1>1. t \in Nat /\ row[t].created \in Nat
    BY ColumnsAreNat DEF Listed
  <1>2. t \notin Ahead(t, f) /\ Ahead(t, f) \cup {t} \subseteq Listed(f)
    BY <1>1 DEF Ahead, Before
  <1>3. Cardinality(Ahead(t, f) \cup {t}) = Rank(t, f) + 1
    BY <1>2, RankIsNat, FS_AddElement DEF Rank
  <1>4. Cardinality(Ahead(t, f) \cup {t}) <= Cardinality(Listed(f))
    BY <1>2, RankIsNat, FS_Subset
  <1>5. Cardinality(Listed(f)) \in Nat
    BY RankIsNat, FS_CardinalityType
  <1> QED
    BY <1>3, <1>4, <1>5, RankIsNat

\* A list that only gains rows pushes nobody forward.
LEMMA RankGrows ==
    ASSUME NEW f, NEW t \in Listed(f), Listed(f) \subseteq Listed(f)',
           \A u \in Listed(f) : row[u].created = row'[u].created
    PROVE  Rank(t, f)' \in Nat /\ Rank(t, f) <= Rank(t, f)'
  <1>1. Ahead(t, f) \subseteq Ahead(t, f)'
    BY DEF Ahead, Before
  <1>2. IsFiniteSet(Ahead(t, f)')
    <2>1. Ahead(t, f)' \subseteq Tasks
      BY DEF Ahead, Listed
    <2> QED
      BY <2>1, FS_Subset, ConstantsAssumption
  <1> QED
    BY <1>1, <1>2, FS_Subset, FS_CardinalityType DEF Rank

\* A row that leaves takes one place from those behind it, and none from one
\* that is listed ahead of it.
LEMMA RankAfterDeparture ==
    ASSUME TypeOK, NEW f, NEW t \in Listed(f), NEW d \in Listed(f), t # d,
           Listed(f)' = Listed(f) \ {d},
           \A u \in Tasks : row[u].created = row'[u].created
    PROVE  /\ Rank(t, f)' \in Nat
           /\ Rank(t, f)' = Rank(t, f) \/ Rank(t, f)' = Rank(t, f) - 1
           /\ Rank(t, f)' # Rank(t, f) => Rank(d, f) < Rank(t, f)
  <1>1. t \in Tasks /\ d \in Tasks /\ Listed(f) \subseteq Tasks
    BY DEF Listed
  <1>2. Ahead(t, f)' = Ahead(t, f) \ {d}
    BY <1>1 DEF Ahead, Before
  <1>3. Rank(t, f)' = Cardinality(Ahead(t, f) \ {d})
    BY <1>2 DEF Rank
  <1>4. CASE d \in Ahead(t, f)
    <2>1. Cardinality(Ahead(t, f) \ {d}) = Rank(t, f) - 1
      BY <1>4, RankIsNat, FS_RemoveElement DEF Rank
    <2>2. Before(d, t)
      BY <1>4 DEF Ahead
    <2>3. Cardinality(Ahead(t, f) \ {d}) \in Nat
      BY RankIsNat, FS_RemoveElement, FS_CardinalityType
    <2> QED
      BY <1>3, <2>1, <2>2, <2>3, RanksDiffer, RankIsNat
  <1>5. CASE d \notin Ahead(t, f)
    <2>1. Ahead(t, f) \ {d} = Ahead(t, f)
      BY <1>5
    <2> QED
      BY <1>3, <2>1, RankIsNat DEF Rank
  <1> QED
    BY <1>4, <1>5

-----------------------------------------------------------------------------
(***************************************************************************)
(* The invariant                                                           *)
(***************************************************************************)

\* What has been missed is a finite set of Tasks.
LEMMA MissedIsFinite ==
    ASSUME TypeOK
    PROVE  IsFiniteSet(Missed) /\ Cardinality(Missed) \in Nat
  <1>1. Missed \subseteq Tasks
    BY DEF Missed, TypeOK, Reader
  <1> QED
    BY <1>1, FS_Subset, FS_CardinalityType, ConstantsAssumption

\* A step that adds nothing to what is missed keeps the bound.
LEMMA NothingMoreMissed ==
    ASSUME IInv, Missed' \subseteq Missed, reader'.filter = reader.filter,
           reader'.departed \in Nat, reader.departed <= reader'.departed
    PROVE  MissedAtMostDeparted' /\ UnfilteredMissesNone'
  <1>1. IsFiniteSet(Missed) /\ Cardinality(Missed) \in Nat
    BY MissedIsFinite DEF IInv
  <1>2. Cardinality(Missed') <= Cardinality(Missed) /\ Cardinality(Missed') \in Nat
    BY <1>1, FS_Subset, FS_CardinalityType
  <1>3. reader.departed \in Nat /\ Cardinality(Missed) <= reader.departed
    BY DEF IInv, TypeOK, Reader, MissedAtMostDeparted
  <1> QED
    BY <1>1, <1>2, <1>3 DEF IInv, MissedAtMostDeparted, UnfilteredMissesNone

\* The reader stands still while the list it reads gains rows.
LEMMA ListGrows ==
    ASSUME IInv, TypeOK', UNCHANGED reader,
           reader.pc = "reading" => Listed(reader.filter) \subseteq Listed(reader.filter)',
           \A u \in Tasks : row[u].status # "ABSENT" => row[u].created = row'[u].created
    PROVE  IInv'
  <1> PICK f : f = reader.filter
    OBVIOUS
  <1>1. reader'.departed \in Nat /\ reader.departed <= reader'.departed
    BY DEF IInv, TypeOK, Reader
  <1>2. ASSUME NEW x \in Missed'
        PROVE  x \in Missed
    <2>1. x \in reader.steady \ reader.shown
      BY DEF Missed
    <2>2. CASE reader.pc # "reading"
      BY <1>2, <2>1, <2>2 DEF Missed, IInv, TypeOK, Reader
    <2>3. CASE reader.pc = "reading"
      <3>1. x \in Listed(f)
        BY <2>1, <2>3 DEF IInv
      <3>2. \A u \in Listed(f) : row[u].created = row'[u].created
        BY DEF Listed
      <3>3. Rank(x, f)' \in Nat /\ Rank(x, f) <= Rank(x, f)'
        <4>1. Listed(f) \subseteq Listed(f)'
          BY <2>3
        <4> QED
          BY <3>1, <3>2, <4>1, RankGrows
      <3>4. Rank(x, f)' < reader.offset
        BY <1>2, <2>3 DEF Missed
      <3>5. Rank(x, f) \in Nat /\ reader.offset \in Nat
        BY RankIsNat DEF IInv, TypeOK, Reader
      <3>6. Rank(x, f) < reader.offset
        BY <3>3, <3>4, <3>5
      <3> QED
        BY <2>1, <3>6 DEF Missed
    <2> QED
      BY <2>2, <2>3
  <1>3. Missed' \subseteq Missed
    BY <1>2
  <1>4. MissedAtMostDeparted' /\ UnfilteredMissesNone'
    BY <1>1, <1>3, NothingMoreMissed
  <1>5. reader'.pc = "reading" => reader'.steady \subseteq Listed(reader.filter)'
    BY DEF IInv
  <1> QED
    BY <1>4, <1>5 DEF IInv

LEMMA CreateInv ==
    ASSUME IInv, NEW t \in Tasks, Create(t)
    PROVE  IInv'
  <1> PICK now \in Times : row' = [row EXCEPT ![t] = [status |-> "PENDING", created |-> now]]
    BY DEF Create
  <1> UNCHANGED reader /\ row[t].status = "ABSENT"
    BY DEF Create
  <1>1. TypeOK'
    BY DEF IInv, TypeOK, Row, Status
  <1>2. \A u \in Tasks \ {t} : row'[u] = row[u]
    BY DEF IInv, TypeOK
  <1>3. Listed(reader.filter) \subseteq Listed(reader.filter)'
    BY <1>2 DEF Listed
  <1> QED
    BY <1>1, <1>2, <1>3, ListGrows

\* A move that leaves the list makes at most one Task slip behind the offset,
\* and none if it was not passed yet.
LEMMA DepartureInv ==
    ASSUME IInv, TypeOK', NEW d \in Tasks, reader.pc = "reading",
           row[d].status \in Status, row[d].status = reader.filter, reader' = Departs(d, reader),
           Listed(reader.filter)' = Listed(reader.filter) \ {d},
           \A u \in Tasks : row[u].created = row'[u].created
    PROVE  IInv'
  <1> PICK f : f = reader.filter
    OBVIOUS
  <1> PICK o : o = reader.offset
    OBVIOUS
  <1>1. /\ o \in Nat /\ reader.departed \in Nat
        /\ reader.steady \subseteq Listed(f) /\ TypeOK
    BY DEF IInv, TypeOK, Reader
  <1>2. /\ reader'.filter = f /\ reader'.offset = o /\ reader'.pc = "reading"
        /\ reader'.steady = reader.steady \ {d} /\ reader'.shown = reader.shown
        /\ reader'.departed = IF Rank(d, f) < o THEN reader.departed + 1 ELSE reader.departed
    BY DEF Departs, IInv, TypeOK, Reader
  <1>3. f # Any /\ d \in Listed(f)
    <2>1. f # Any
      BY Zenon, ConstantsAssumption DEF ConstantsAssumption
    <2> QED
      BY <2>1 DEF Listed, Status
  <1>4. Listed(f)' = Listed(f) \ {d}
    BY <1>2
  <1>5. ASSUME NEW x \in Missed'
        PROVE  x \in Missed \/ (x \in Listed(f) /\ Rank(x, f) = o /\ Rank(d, f) < o)
    <2>1. x \in reader.steady \ reader.shown /\ x # d /\ Rank(x, f)' < o
      BY <1>2, <1>5 DEF Missed
    <2>2. x \in Listed(f)
      BY <1>1, <2>1
    <2>3. /\ Rank(x, f)' \in Nat
          /\ Rank(x, f)' = Rank(x, f) \/ Rank(x, f)' = Rank(x, f) - 1
          /\ Rank(x, f)' # Rank(x, f) => Rank(d, f) < Rank(x, f)
      BY <1>1, <1>3, <1>4, <2>1, <2>2, RankAfterDeparture
    <2>4. Rank(x, f) \in Nat /\ Rank(d, f) \in Nat
      BY RankIsNat
    <2>5. Rank(x, f) < o \/ (Rank(x, f) = o /\ Rank(d, f) < o)
      BY <1>1, <2>1, <2>3, <2>4
    <2> QED
      BY <2>1, <2>2, <2>5 DEF Missed
  <1>6. MissedAtMostDeparted' /\ UnfilteredMissesNone'
    <2>1. CASE \E z \in Listed(f) : Rank(z, f) = o /\ Rank(d, f) < o
      <3> PICK z \in Listed(f) : Rank(z, f) = o /\ Rank(d, f) < o
        BY <2>1
      <3>1. Missed' \subseteq Missed \cup {z}
        BY <1>1, <1>5, RankIsUnique
      <3>2. IsFiniteSet(Missed) /\ Cardinality(Missed) \in Nat
        BY <1>1, MissedIsFinite
      <3>3. /\ IsFiniteSet(Missed \cup {z})
            /\ Cardinality(Missed \cup {z}) = Cardinality(Missed)
               \/ Cardinality(Missed \cup {z}) = Cardinality(Missed) + 1
        BY <3>2, FS_AddElement
      <3>4. Cardinality(Missed') <= Cardinality(Missed \cup {z}) /\ Cardinality(Missed') \in Nat
        BY <3>1, <3>3, FS_Subset, FS_CardinalityType
      <3>5. Cardinality(Missed) <= reader.departed /\ reader'.departed = reader.departed + 1
        BY <1>2 DEF IInv, MissedAtMostDeparted
      <3>6. Cardinality(Missed') <= reader'.departed
        BY <1>1, <3>2, <3>3, <3>4, <3>5
      <3> QED
        BY <1>2, <1>3, <3>6 DEF MissedAtMostDeparted, UnfilteredMissesNone
    <2>2. CASE ~ \E z \in Listed(f) : Rank(z, f) = o /\ Rank(d, f) < o
      <3>1. Missed' \subseteq Missed
        BY <1>5, <2>2
      <3>2. reader'.departed \in Nat /\ reader.departed <= reader'.departed
        BY <1>1, <1>2
      <3> QED
        BY <1>2, <3>1, <3>2, NothingMoreMissed
    <2> QED
      BY <2>1, <2>2
  <1>7. reader'.steady \subseteq Listed(reader.filter)'
    BY <1>1, <1>2
  <1> QED
    BY <1>2, <1>6, <1>7 DEF IInv

LEMMA MoveInv ==
    ASSUME IInv, NEW t \in Tasks, NEW status \in Status, Move(t, status)
    PROVE  IInv'
  <1>1. row' = [row EXCEPT ![t].status = status] /\ row \in [Tasks -> Row] /\ reader \in Reader
    BY DEF Move, IInv, TypeOK
  <1>2. row[t].status \in Status
    BY DEF Move, Moves, Status
  <1>3. /\ \A u \in Tasks : row'[u].created = row[u].created
        /\ \A u \in Tasks \ {t} : row'[u] = row[u]
        /\ row'[t].status = status /\ row' \in [Tasks -> Row]
    BY <1>1 DEF Row
  <1>4. \A u \in Tasks : row[u].status # "ABSENT" => row'[u].status # "ABSENT"
    BY <1>3 DEF Status
  <1>5. CASE reader.pc = "reading" /\ row[t].status = reader.filter
    <2>1. reader' = Departs(t, reader)
      BY <1>5 DEF Move
    <2>2. Rank(t, reader.filter) \in Nat
      BY RankIsNat
    <2>3. TypeOK'
      <3> PICK n : n = IF Rank(t, reader.filter) < reader.offset THEN reader.departed + 1
                                                                 ELSE reader.departed
        OBVIOUS
      <3>1. n \in Nat
        BY <1>1 DEF Reader
      <3>2. reader' = [reader EXCEPT !.steady = reader.steady \ {t}, !.departed = n]
        BY <2>1 DEF Departs
      <3>3. reader' \in Reader
        BY <1>1, <3>1, <3>2 DEF Reader
      <3> QED
        BY <1>3, <3>3 DEF TypeOK
    <2>4. reader.filter # Any /\ status # row[t].status
      <3>1. status # row[t].status
        BY DEF Move, Moves
      <3> QED
        BY Zenon, <1>2, <1>5, <3>1, ConstantsAssumption DEF ConstantsAssumption
    <2>5. Listed(reader.filter)' = Listed(reader.filter) \ {t}
      BY <1>3, <1>5, <2>1, <2>4 DEF Listed, Departs
    <2> QED
      BY <1>2, <1>3, <1>5, <2>1, <2>3, <2>5, DepartureInv
  <1>6. CASE ~(reader.pc = "reading" /\ row[t].status = reader.filter)
    <2>1. UNCHANGED reader
      BY <1>6 DEF Move
    <2>2. TypeOK'
      BY <1>1, <1>3, <2>1 DEF TypeOK
    <2>3. reader.pc = "reading" => Listed(reader.filter) \subseteq Listed(reader.filter)'
      BY <1>3, <1>4, <1>6, <2>1 DEF Listed
    <2> QED
      BY <1>3, <2>1, <2>2, <2>3, ListGrows
  <1> QED
    BY <1>5, <1>6

LEMMA BeginInv ==
    ASSUME IInv, NEW filter \in Status \cup {Any}, Begin(filter)
    PROVE  IInv'
  <1>1. UNCHANGED row /\ reader \in Reader
    BY DEF Begin, IInv, TypeOK
  <1>2. Listed(filter) \subseteq Tasks
    BY DEF Listed
  <1>3. /\ reader'.pc = "reading" /\ reader'.filter = filter /\ reader'.steady = Listed(filter)
        /\ reader' \in Reader
    BY <1>1, <1>2 DEF Begin, Reader
  <1>4. TypeOK' /\ reader'.offset = 0 /\ reader'.departed \in Nat
    BY <1>1, <1>3 DEF Begin, IInv, TypeOK, Reader
  <1>5. Missed' = {}
    <2>1. ASSUME NEW x \in Missed'
          PROVE  FALSE
      <3>1. Rank(x, filter)' = Rank(x, filter)
        BY <1>1 DEF Rank, Ahead, Listed, Before
      <3>2. Rank(x, filter)' < 0
        BY <1>3, <1>4, <2>1 DEF Missed
      <3> QED
        BY <3>1, <3>2, RankIsNat
    <2> QED
      BY <2>1
  <1>6. Listed(filter)' = Listed(filter)
    BY <1>1 DEF Listed
  <1>7. MissedAtMostDeparted' /\ UnfilteredMissesNone'
    BY <1>4, <1>5, FS_EmptySet DEF MissedAtMostDeparted, UnfilteredMissesNone
  <1> QED
    BY <1>3, <1>4, <1>6, <1>7 DEF IInv

\* A page shows all there is between its offset and the next one.
LEMMA NextPageInv ==
    ASSUME IInv, NEW limit \in Limits, NextPage(limit)
    PROVE  IInv'
  <1> PICK f : f = reader.filter
    OBVIOUS
  <1>1. /\ UNCHANGED row /\ reader \in Reader /\ reader.pc = "reading" /\ TypeOK
        /\ reader.steady \subseteq Listed(f)
    BY DEF NextPage, IInv, TypeOK
  <1>2. limit \in Nat
    <2>1. limit \in 1 .. 100
      BY Zenon, ConstantsAssumption DEF ConstantsAssumption
    <2> QED
      BY <2>1
  <1>3. Listed(f)' = Listed(f)
    BY <1>1 DEF Listed
  <1>4. ASSUME NEW x
        PROVE  Rank(x, f)' = Rank(x, f)
    BY <1>1 DEF Rank, Ahead, Listed, Before
  <1>5. CASE Cardinality(Listed(f)) <= reader.offset
    <2>1. reader' = [reader EXCEPT !.pc = "done"]
      BY <1>5 DEF NextPage
    <2>2. TypeOK' /\ reader'.filter = f /\ reader'.departed = reader.departed /\ reader.departed \in Nat
      BY <1>1, <2>1 DEF TypeOK, Reader
    <2>3. ASSUME NEW x \in Missed'
          PROVE  x \in Missed
      <3>1. x \in reader.steady \ reader.shown
        BY <2>1, <1>1 DEF Missed, Reader
      <3>2. Rank(x, f) < Cardinality(Listed(f))
        BY <1>1, <3>1, RankIsBelowLength
      <3>3. Rank(x, f) \in Nat /\ Cardinality(Listed(f)) \in Nat /\ reader.offset \in Nat
        BY <1>1, RankIsNat, FS_CardinalityType DEF Reader
      <3> QED
        BY <1>5, <3>1, <3>2, <3>3 DEF Missed
    <2>4. MissedAtMostDeparted' /\ UnfilteredMissesNone'
      BY <2>2, <2>3, NothingMoreMissed
    <2>5. reader'.pc = "done"
      BY <1>1, <2>1 DEF Reader
    <2> QED
      BY <2>2, <2>4, <2>5 DEF IInv
  <1>6. CASE ~(Cardinality(Listed(f)) <= reader.offset)
    <2>1. reader' = [reader EXCEPT !.shown = @ \cup Page(f, reader.offset, limit),
                                   !.offset = @ + limit]
      BY <1>6 DEF NextPage
    <2>2. Page(f, reader.offset, limit) \subseteq Tasks
      BY DEF Page, Listed
    <2>3. /\ reader' \in Reader /\ reader'.filter = f /\ reader'.departed = reader.departed
          /\ reader.departed \in Nat /\ reader.offset \in Nat
          /\ reader'.pc = "reading" /\ reader'.steady = reader.steady
          /\ reader'.shown = reader.shown \cup Page(f, reader.offset, limit)
          /\ reader'.offset = reader.offset + limit
      <3> PICK page : page = Page(f, reader.offset, limit)
        OBVIOUS
      <3> PICK offset : offset = reader.offset + limit
        OBVIOUS
      <3>1. page \subseteq Tasks /\ offset \in Nat
        BY <1>1, <1>2, <2>2 DEF Reader
      <3>2. reader' = [reader EXCEPT !.shown = reader.shown \cup page, !.offset = offset]
        BY <2>1
      <3> QED
        BY <1>1, <3>1, <3>2 DEF Reader
    <2>4. ASSUME NEW x \in Missed'
          PROVE  x \in Missed
      <3>1. /\ x \in reader.steady \ reader.shown /\ x \in Listed(f)
            /\ x \notin Page(f, reader.offset, limit)
            /\ Rank(x, f)' < reader.offset + limit
        BY <1>1, <2>3, <2>4 DEF Missed
      <3>2. Rank(x, f) \in Nat /\ Rank(x, f)' = Rank(x, f)
        BY <1>4, RankIsNat
      <3>3. Rank(x, f) < reader.offset
        BY <1>2, <2>3, <3>1, <3>2 DEF Page
      <3> QED
        BY <3>1, <3>3 DEF Missed
    <2>5. MissedAtMostDeparted' /\ UnfilteredMissesNone'
      BY <2>3, <2>4, NothingMoreMissed
    <2>6. TypeOK'
      BY <1>1, <2>3 DEF TypeOK
    <2> QED
      BY <1>1, <1>3, <2>3, <2>5, <2>6 DEF IInv
  <1> QED
    BY <1>5, <1>6

-----------------------------------------------------------------------------
(***************************************************************************)
(* Theorems                                                                *)
(***************************************************************************)

LEMMA InvInit == Init => IInv
  <1> SUFFICES ASSUME Init PROVE IInv
    OBVIOUS
  <1>1. TypeOK
    BY DEF Init, TypeOK, Row, Reader
  <1>2. Missed = {} /\ reader.departed = 0
    BY DEF Init, Missed
  <1>3. MissedAtMostDeparted /\ UnfilteredMissesNone
    BY <1>2, FS_EmptySet DEF MissedAtMostDeparted, UnfilteredMissesNone
  <1> QED
    BY <1>1, <1>3 DEF Init, IInv

LEMMA InvNext == IInv /\ [Next]_vars => IInv'
  <1> SUFFICES ASSUME IInv, [Next]_vars PROVE IInv'
    OBVIOUS
  <1>1. CASE UNCHANGED vars
    <2>1. UNCHANGED reader /\ UNCHANGED row
      BY <1>1 DEF vars
    <2>2. TypeOK' /\ Listed(reader.filter)' = Listed(reader.filter)
      BY <2>1 DEF IInv, TypeOK, Listed
    <2> QED
      BY <2>1, <2>2, ListGrows
  <1>2. ASSUME NEW t \in Tasks, Create(t)
        PROVE  IInv'
    BY <1>2, CreateInv
  <1>3. ASSUME NEW t \in Tasks, NEW status \in Status, Move(t, status)
        PROVE  IInv'
    BY <1>3, MoveInv
  <1>4. ASSUME NEW filter \in Status \cup {Any}, Begin(filter)
        PROVE  IInv'
    BY <1>4, BeginInv
  <1>5. ASSUME NEW limit \in Limits, NextPage(limit)
        PROVE  IInv'
    BY <1>5, NextPageInv
  <1> QED
    BY <1>1, <1>2, <1>3, <1>4, <1>5 DEF Next

\* The inductive invariant holds in every reachable state.
THEOREM ListingInvariant == Spec => []IInv
  <1> QED
    BY InvInit, InvNext, PTL DEF Spec

\* Rows and reader stay well-typed.
THEOREM ListingTypeCorrect == Spec => []TypeOK
  <1>1. IInv => TypeOK
    BY DEF IInv
  <1> QED
    BY <1>1, ListingInvariant, PTL

\* Tasks skipped never outnumber those that left the list behind the reader.
THEOREM ListingMissesAtMostDeparted == Spec => []MissedAtMostDeparted
  <1>1. IInv => MissedAtMostDeparted
    BY DEF IInv
  <1> QED
    BY <1>1, ListingInvariant, PTL

\* Without a filter no Task is skipped.
THEOREM UnfilteredListingIsComplete == Spec => []UnfilteredMissesNone
  <1>1. IInv => UnfilteredMissesNone
    BY DEF IInv
  <1> QED
    BY <1>1, ListingInvariant, PTL

=============================================================================
