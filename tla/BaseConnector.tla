---------------------------- MODULE BaseConnector ----------------------------
(***************************************************************************)
(* What every connector promises of the entities of one type               *)
(* (data-plane/connectors/core/base.py), whatever queries it takes and     *)
(* however the source changes between them.  A scrape reports what is      *)
(* there and tombstones "anything the cursor previously saw but that       *)
(* vanished": nothing that was there all the time is tombstoned or left    *)
(* out, nothing that was never there is reported.                          *)
(***************************************************************************)
CONSTANT Urn

VARIABLES here,      \* what the source holds
          saved,     \* the cursor on disk
          known,     \* the cursor of the scrape under way
          ever,      \* what has been there at some moment of the scrape
          always,    \* what has been there at every moment of it
          scraping

vars == <<here, saved, known, ever, always, scraping>>

Init ==
    /\ here \subseteq Urn
    /\ saved = {} /\ known = {}
    /\ ever \subseteq Urn /\ always \subseteq Urn
    /\ scraping = FALSE

\* The source changes, in the middle of a scrape or not.
Change ==
    /\ here' \in SUBSET Urn
    /\ ever' = ever \cup here'
    /\ always' = always \cap here'
    /\ UNCHANGED <<saved, known, scraping>>

Begin ==
    /\ ~scraping /\ scraping'
    /\ known' = saved
    /\ ever' = here /\ always' = here
    /\ UNCHANGED <<here, saved>>

Report ==
    /\ scraping
    /\ \E u \in ever : known' = known \cup {u}
    /\ UNCHANGED <<here, saved, ever, always, scraping>>

Retire ==
    /\ scraping
    /\ known' \subseteq known
    /\ known \cap always \subseteq known'
    /\ UNCHANGED <<here, saved, ever, always, scraping>>

Save ==
    /\ scraping /\ ~scraping'
    /\ always \subseteq known /\ known \subseteq ever
    /\ saved' = known
    /\ known' = {}
    /\ UNCHANGED <<here, ever, always>>

\* A scrape that fails leaves the cursor of the last one.
Fail ==
    /\ scraping /\ ~scraping'
    /\ known' = {}
    /\ UNCHANGED <<here, saved, ever, always>>

Next == Change \/ Begin \/ Report \/ Retire \/ Save \/ Fail

Spec == Init /\ [][Next]_vars
=============================================================================
