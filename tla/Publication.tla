----------------------------- MODULE Publication -----------------------------
(***************************************************************************)
(* What publishing promises, with no run, outbox, network or crash in      *)
(* sight.  Revisions are observed on a machine; the server stores observed *)
(* revisions and never forgets one; a revision may be waived, so that it   *)
(* will not be stored on this machine's account; an item may be refused    *)
(* for good.  The mark of an item names a revision that is stored or       *)
(* waived, and an item refused is never marked again.                      *)
(***************************************************************************)
CONSTANTS Items, Content, None

VARIABLES
    observed,  \* revisions the machine has held
    stored,    \* revisions the server holds
    waived,    \* revisions nobody will send again
    mark,      \* the revision of every item the machine will not send again
    refused    \* items the machine will never send again

vars == <<observed, stored, waived, mark, refused>>

Revision == Items \X Content

Init ==
    /\ observed = {} /\ stored = {} /\ waived = {} /\ refused = {}
    /\ mark = [i \in Items |-> None]

Observe ==
    /\ observed' \in SUBSET Revision
    /\ observed \subseteq observed'
    /\ UNCHANGED <<stored, waived, mark, refused>>

\* The server takes observed revisions and may waive others with them.
Store ==
    /\ stored \subseteq stored' /\ stored' \subseteq observed
    /\ waived \subseteq waived' /\ waived' \subseteq observed
    /\ UNCHANGED <<observed, mark, refused>>

\* The machine settles items: marks name stored or waived revisions, and what
\* it refuses stays as it was marked.
Settle ==
    /\ waived \subseteq waived' /\ waived' \subseteq observed
    /\ refused \subseteq refused' /\ refused' \subseteq Items
    /\ mark' \in [Items -> Content \cup {None}]
    /\ \A i \in Items :
          mark'[i] # mark[i] =>
              i \notin refused' /\ <<i, mark'[i]>> \in stored \cup waived'
    /\ UNCHANGED <<observed, stored>>

Next == Observe \/ Store \/ Settle

Spec == Init /\ [][Next]_vars
=============================================================================
