--------------------------- MODULE PublishedIndex ---------------------------
(***************************************************************************)
(* What a repository promises its readers: the generation they are shown   *)
(* (a number, later generations are greater) only moves forward, arrives   *)
(* in both stores whole and in one step, and never changes while it is     *)
(* shown. Legacy is the content indexed before generations existed.        *)
(***************************************************************************)
EXTENDS Integers

CONSTANTS Source, MaxRuns

VARIABLES
    shown,    \* the generation readers are shown, or Gone
    rows,     \* what MySQL holds of it
    chunks    \* what Chroma holds of it

Gone   == -1
Legacy == 0

IndexInit ==
    /\ shown = Legacy
    /\ rows \in SUBSET Source
    /\ chunks = rows

Publish ==
    /\ shown # Gone
    /\ shown' \in (shown + 1)..MaxRuns
    /\ rows' \in (SUBSET Source) \ {{}}
    /\ chunks' = rows'

Remove ==
    /\ shown' = Gone
    /\ rows' = {} /\ chunks' = {}

IndexNext == Publish \/ Remove

IndexSpec == IndexInit /\ [][IndexNext]_<<shown, rows, chunks>>
=============================================================================
