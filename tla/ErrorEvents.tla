----------------------------- MODULE ErrorEvents ------------------------------
(***************************************************************************)
(* The table error_events, for one error: a type and a message.  Every     *)
(* report has a thread of its own, which looks for an unresolved row and   *)
(* then counts it up or inserts one.  Users resolve rows and clean up.     *)
(***************************************************************************)
EXTENDS Integers, Sequences, FiniteSets, Functions

CONSTANTS
    Writers,        \* threads that write reports at the same time
    MaxReports      \* bound: reports ever stored

ASSUME ErrorBounds == MaxReports \in Nat

VARIABLES
    events,     \* rows by id
    writer,     \* what each thread has read
    stored,     \* reports whose rows are there
    disturbed   \* a row was looked up or resolved while a thread was about to write

NoReport == [at |-> "idle", id |-> 0, count |-> 0]

ErrorsInit ==
    /\ events = <<>>
    /\ writer = [w \in Writers |-> NoReport]
    /\ stored = 0
    /\ disturbed = FALSE

Unresolved == {i \in DOMAIN events : ~events[i].resolved}
AboutToWrite(w) == writer[w].at = "found"

\* The read of a report; one that fails is the end of it.
LookUp(w) ==
    /\ writer[w].at = "idle" /\ stored < MaxReports
    /\ \/ \E i \in Unresolved :
            writer' = [writer EXCEPT ![w] = [at |-> "found", id |-> i, count |-> events[i].count]]
       \/ /\ Unresolved = {}
          /\ writer' = [writer EXCEPT ![w] = [at |-> "found", id |-> 0, count |-> 0]]
    /\ disturbed' = (disturbed \/ \E v \in Writers \ {w} : AboutToWrite(v))
    /\ UNCHANGED <<events, stored>>

NewRow == [count |-> 1, resolved |-> FALSE, gone |-> FALSE]

\* Mutant: the row's counter starts again.
CountedOnce(w) ==
    IF writer[w].id = 0 THEN Append(events, NewRow)
    ELSE [events EXCEPT ![writer[w].id].count = 1]

\* The count it has read, and one; an update of a row that is gone changes none.
Upserted(w) ==
    IF writer[w].id = 0 THEN Append(events, NewRow)
    ELSE IF events[writer[w].id].gone THEN events
    ELSE [events EXCEPT ![writer[w].id].count = writer[w].count + 1]

Store(w) ==
    /\ AboutToWrite(w) /\ stored < MaxReports
    /\ events' = Upserted(w)
    /\ writer' = [writer EXCEPT ![w] = NoReport]
    /\ stored' = stored + 1
    /\ UNCHANGED disturbed

StoreFails(w) ==
    /\ AboutToWrite(w)
    /\ writer' = [writer EXCEPT ![w] = NoReport]
    /\ UNCHANGED <<events, stored, disturbed>>

ResolveError(i) ==
    /\ i \in Unresolved
    /\ events' = [events EXCEPT ![i].resolved = TRUE]
    /\ disturbed' = (disturbed \/ \E w \in Writers : AboutToWrite(w))
    /\ UNCHANGED <<writer, stored>>

\* Of the resolved rows, those not seen for some days: any.
CleanupOldErrors(old) ==
    /\ old # {} /\ old \subseteq {i \in DOMAIN events : events[i].resolved /\ ~events[i].gone}
    /\ events' = [i \in DOMAIN events |-> [events[i] EXCEPT !.gone = @ \/ i \in old]]
    /\ UNCHANGED <<writer, stored, disturbed>>

ErrorsNext ==
    \/ \E w \in Writers : LookUp(w) \/ Store(w) \/ StoreFails(w)
    \/ \E i \in 1..MaxReports : ResolveError(i)
    \/ \E old \in SUBSET (1..MaxReports) : CleanupOldErrors(old)

ErrorsTypeOK ==
    /\ \A i \in DOMAIN events : /\ events[i].count \in 1..MaxReports
                                /\ {events[i].resolved, events[i].gone} \subseteq BOOLEAN
    /\ \A w \in Writers : writer[w].at \in {"idle", "found"} /\ writer[w].id \in 0..Len(events)
    /\ stored \in 0..MaxReports /\ disturbed \in BOOLEAN

\* As long as no thread looked the error up, and no user resolved it, between
\* another thread's read and its write, every report stored is counted once, in
\* one unresolved row.
\* (error_tracking._persist_error, errors.resolve_error)
ErrorsCounted ==
    ~disturbed => /\ Cardinality(Unresolved) <= 1
                  /\ SumFunction([i \in DOMAIN events |-> events[i].count]) = stored
=============================================================================
