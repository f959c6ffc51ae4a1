------------------------------- MODULE Records --------------------------------
(***************************************************************************)
(* The tables the two processes write side by side: the trade journal, the *)
(* shadow book and the error events.  They have no row in common, so that  *)
(* a behaviour works on one of them, which part names.                     *)
(***************************************************************************)
EXTENDS Journal, ShadowBook, ErrorEvents

VARIABLE part

journalVars == <<trades, check>>
bookVars == <<phantoms, update, met>>
errorVars == <<events, writer, stored, disturbed>>
vars == <<part, quote, journalVars, bookVars, errorVars>>

Init ==
    /\ part \in {"trades", "phantoms", "errors"}
    /\ quote \in Prices
    /\ JournalInit /\ BookInit /\ ErrorsInit

Next ==
    /\ UNCHANGED part
    /\ \/ part = "trades" /\ JournalNext /\ UNCHANGED <<bookVars, errorVars>>
       \/ part = "phantoms" /\ BookNext /\ UNCHANGED <<journalVars, errorVars>>
       \/ part = "errors" /\ ErrorsNext /\ UNCHANGED <<quote, journalVars, bookVars>>

Spec == Init /\ [][Next]_vars

TypeOK ==
    /\ quote \in Prices
    /\ JournalTypeOK /\ BookTypeOK /\ ErrorsTypeOK

\* The outcome of a signal, once it is there, is that outcome for good, except for
\* the rows two runs of the update had before them at the same time.
\* (update_phantom_outcomes, which both processes schedule)
OutcomesStand ==
    [][\A i \in DOMAIN phantoms : Resolved(i) /\ i \notin met =>
          phantoms'[i].exit = phantoms[i].exit]_vars
=============================================================================
