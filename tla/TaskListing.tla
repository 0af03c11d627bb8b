------------------------------ MODULE TaskListing ------------------------------
(***************************************************************************)
(* GET /tasks (api/tasks.py, tasks/repository.py): a client that turns the *)
(* pages of the Task list, with a status filter or without, while Tasks    *)
(* are created and move on.  A page is one SELECT; the list is whatever    *)
(* the table holds at that moment, newest first.                           *)
(***************************************************************************)
EXTENDS Naturals, FiniteSets

CONSTANTS
    Tasks,          \* ids, ordered
    Times,          \* created_at of Tasks, by the clocks of their processes
    Limits,         \* limits a client asks for
    MaxDepartures,  \* bound on the moves out of a list that is being read
    Any             \* no status filter

Status == {"PENDING", "RUNNING", "WAITING_APPROVAL", "SUCCEEDED", "FAILED", "REJECTED",
           "RECOVERY_REQUIRED"}

ASSUME ConstantsAssumption ==
    /\ Tasks \subseteq Nat /\ IsFiniteSet(Tasks)
    /\ Times \subseteq Nat
    /\ Limits \subseteq 1 .. 100
    /\ MaxDepartures \in Nat
    /\ Any \notin Status

VARIABLES
    row,     \* Task -> the columns of its row that the list depends on
    reader   \* the client: its place, and what it has been shown

vars == <<row, reader>>

Row == [status : Status \cup {"ABSENT"}, created : Times \cup {0}]

Reader == [pc : {"idle", "reading", "done"}, filter : Status \cup {Any}, offset : Nat,
           steady : SUBSET Tasks,   \* in the list ever since the first page
           shown : SUBSET Tasks,
           departed : Nat]          \* left the list from a place already passed

\* The transitions of the Task: start, mark_waiting_approval, resume_approved,
\* require_recovery, claim_recovery, mark_rejected, succeed and fail.
Moves == {<<"PENDING", "RUNNING">>, <<"RUNNING", "WAITING_APPROVAL">>,
          <<"WAITING_APPROVAL", "RUNNING">>, <<"RUNNING", "RECOVERY_REQUIRED">>,
          <<"WAITING_APPROVAL", "RECOVERY_REQUIRED">>, <<"RECOVERY_REQUIRED", "RUNNING">>,
          <<"WAITING_APPROVAL", "REJECTED">>, <<"RUNNING", "SUCCEEDED">>, <<"RUNNING", "FAILED">>}

Init ==
    /\ row = [t \in Tasks |-> [status |-> "ABSENT", created |-> 0]]
    /\ reader = [pc |-> "idle", filter |-> Any, offset |-> 0, steady |-> {}, shown |-> {},
                 departed |-> 0]

-----------------------------------------------------------------------------
\* The rows that the WHERE clause keeps.
Listed(filter) ==
    {t \in Tasks : row[t].status # "ABSENT" /\ (filter = Any \/ row[t].status = filter)}

\* created_at descending, then id descending.
Before(u, t) ==
    \/ row[u].created > row[t].created
    \/ row[u].created = row[t].created /\ u > t

Ahead(t, filter) == {u \in Listed(filter) : Before(u, t)}

Rank(t, filter) == Cardinality(Ahead(t, filter))

\* Mutant: the offset counts from one.
PageFromOne(filter, offset, limit) ==
    {t \in Listed(filter) : offset < Rank(t, filter) /\ Rank(t, filter) <= offset + limit}

\* OFFSET and LIMIT.
Page(filter, offset, limit) ==
    {t \in Listed(filter) : offset <= Rank(t, filter) /\ Rank(t, filter) < offset + limit}

-----------------------------------------------------------------------------
\* created_at is read before the row is committed, and clocks differ: a new
\* Task may come anywhere in the list.
Create(t) ==
    /\ row[t].status = "ABSENT"
    /\ \E now \in Times : row' = [row EXCEPT ![t] = [status |-> "PENDING", created |-> now]]
    /\ UNCHANGED reader

\* t has left the list it was in.
Departs(t, r) ==
    [r EXCEPT !.steady = @ \ {t},
              !.departed = IF Rank(t, r.filter) < r.offset THEN @ + 1 ELSE @]

Move(t, status) ==
    /\ <<row[t].status, status>> \in Moves
    /\ row' = [row EXCEPT ![t].status = status]
    /\ IF reader.pc = "reading" /\ row[t].status = reader.filter
         THEN /\ reader.departed < MaxDepartures
              /\ reader' = Departs(t, reader)
         ELSE UNCHANGED reader

\* A client starts to read, at offset 0.
Begin(filter) ==
    /\ reader.pc = "idle"
    /\ reader' = [reader EXCEPT !.pc = "reading", !.filter = filter, !.steady = Listed(filter)]
    /\ UNCHANGED row

\* The next page, or an empty one, and the client stops.
NextPage(limit) ==
    /\ reader.pc = "reading"
    /\ reader' =
         IF Cardinality(Listed(reader.filter)) <= reader.offset
         THEN [reader EXCEPT !.pc = "done"]
         ELSE [reader EXCEPT !.shown = @ \cup Page(reader.filter, reader.offset, limit),
                             !.offset = @ + limit]
    /\ UNCHANGED row

Next ==
    \/ \E t \in Tasks : Create(t) \/ \E status \in Status : Move(t, status)
    \/ \E filter \in Status \cup {Any} : Begin(filter)
    \/ \E limit \in Limits : NextPage(limit)

Spec == Init /\ [][Next]_vars

-----------------------------------------------------------------------------
\* Types of the rows and of the reader.
TypeOK == row \in [Tasks -> Row] /\ reader \in Reader

\* Tasks that no later page will show.
Missed ==
    {t \in reader.steady \ reader.shown :
        reader.pc = "done" \/ Rank(t, reader.filter) < reader.offset}

\* A Task that was in the list all the time is skipped only because another
\* one, already passed, has left it: Tasks skipped never outnumber those.
MissedAtMostDeparted == Cardinality(Missed) <= reader.departed

\* docs/ARCHITECTURE.md: deterministic ordering, limit and offset.  Without a
\* filter a client is shown every Task there was when it began, whatever is
\* created and whichever way Tasks move meanwhile.
UnfilteredMissesNone == reader.filter = Any => Missed = {}

\* The inductive invariant behind them: what is steady is listed.
IInv ==
    /\ TypeOK
    /\ reader.pc = "idle" => reader.steady = {} /\ reader.offset = 0
    /\ reader.pc = "reading" => reader.steady \subseteq Listed(reader.filter)
    /\ MissedAtMostDeparted
    /\ UnfilteredMissesNone

=============================================================================
