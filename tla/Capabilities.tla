---------------------------- MODULE Capabilities ----------------------------
(* RouterCapabilities (fritz_capabilities.h): what this box turned out to    *)
(* implement.  The table is a function from features to what is known of     *)
(* them; every operator returns the table that replaces it.                  *)

Availability == {"Unknown", "Present", "Absent"}

\* forget(): nothing is known of any feature.
Forget(table) == [f \in DOMAIN table |-> "Unknown"]

\* Unknown is worth one try, Absent never is.
WorthTrying(table, f) == table[f] # "Absent"

IsPresent(table, f) == table[f] = "Present"

MarkPresent(table, f) == [table EXCEPT ![f] = "Present"]

MarkAbsent(table, f) == [table EXCEPT ![f] = "Absent"]

\* The bit mask router.json keeps: the features that answered.
PresentMask(table) == {f \in DOMAIN table : table[f] = "Present"}

RestoreNothing(table, mask) == table

\* A restarted process takes back what answered before and keeps what it has
\* learned since.
RestorePresent(table, mask) ==
    [f \in DOMAIN table |->
        IF f \in mask /\ table[f] = "Unknown" THEN "Present" ELSE table[f]]
=============================================================================
