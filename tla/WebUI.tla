------------------------------- MODULE WebUI -------------------------------
(***************************************************************************)
(* The pages of the web UI (control-plane/web/src) in one browser tab: the *)
(* session history, the component that the current route mounts, and the   *)
(* requests it has sent.  A page keeps its component, and the state in it, *)
(* when only the parameters of the route change.  Requests are answered in *)
(* any order, if need be after the page they were sent for is gone.        *)
(*                                                                         *)
(* A navigation and the effects it triggers are one step: React runs the   *)
(* effects of a user's event before it returns to the event loop.          *)
(***************************************************************************)
EXTENDS Naturals, Sequences

CONSTANTS Query,       \* search texts
          Filter,      \* the other search parameters: types, connections, tags, order
          NoFilter,
          Asset,       \* URNs
          Connection,  \* source connections
          None,
          MAX_ENTRIES, \* of the list of recently viewed assets
          MaxCalls,    \* bound on the requests in flight
          MaxHistory,  \* bound on the entries of the session history
          MaxMoves     \* bound on navigations

SearchPage(q, f) == [page |-> "search", key |-> q, filter |-> f]
AssetPage(urn) == [page |-> "asset", key |-> urn, filter |-> NoFilter]
SourcePage(id) == [page |-> "source", key |-> id, filter |-> NoFilter]
SourceList == [page |-> "sources", key |-> None, filter |-> NoFilter]

Location == {SearchPage(q, f) : q \in Query \cup {None}, f \in Filter}
            \cup {AssetPage(urn) : urn \in Asset}
            \cup {SourcePage(id) : id \in Connection}
            \cup {SourceList}

Slot == 1..MaxCalls

\* A request: what it asks for, what sent it, and whether that component is mounted.
Call == [about : Location, by : {"effect", "retry", "scrape"}, mounted : BOOLEAN]

Page == [status : {"idle", "loading", "success", "not_found", "error"},
         shown : Location \cup {None},
         landing : Seq(Asset),
         scrape : {"idle", "sending", "queued", "error"}]

ASSUME WebUIAssumption ==
    /\ None \notin Query \cup Location \cup Call
    /\ NoFilter \in Filter
    /\ MAX_ENTRIES \in Nat \ {0}
    /\ MaxCalls \in Nat /\ MaxHistory \in Nat /\ MaxMoves \in Nat

VARIABLES hist, pos,  \* the session history and the entry the tab is at
          page,       \* state of the component mounted there
          box,        \* text of the search box in the top bar
          calls,      \* requests in flight
          viewed,     \* recently viewed assets, in local storage
          moves,      \* navigations so far
          retried     \* whether Retry was used since the component was mounted

nav == <<hist, pos, box, moves>>
vars == <<nav, page, calls, viewed, retried>>

Here == hist[pos]

NewPage == [status |-> "loading", shown |-> None, landing |-> <<>>, scrape |-> "idle"]

TypeOK ==
    /\ hist \in Seq(Location) /\ pos \in DOMAIN hist
    /\ page \in Page
    /\ box \in Query \cup {None}
    /\ calls \in [Slot -> Call \cup {None}]
    /\ viewed \in Seq(Asset) /\ Len(viewed) <= MAX_ENTRIES
    /\ moves \in Nat
    /\ retried \in BOOLEAN

-----------------------------------------------------------------------------
(* Going from page to page. *)

IsLanding(l) == l.page = "search" /\ l.key = None

\* cs with one more request in it.
Sent(cs, l, by) ==
    {[cs EXCEPT ![i] = [about |-> l, by |-> by, mounted |-> TRUE]] :
        i \in {j \in Slot : cs[j] = None /\ \A k \in 1..(j - 1) : cs[k] # None}}

\* Mutant: the search effect has no cleanup.
OutliveUncancelled(c, l) ==
    IF c = None \/ l.page = Here.page THEN c
    ELSE IF c.about.page = "asset" THEN [c EXCEPT !.mounted = FALSE] ELSE None

\* What a move to l leaves of a request.  An answer for a component that is gone
\* changes nothing, except that the asset page still records what was viewed; and
\* the search page cancels the request of its effect when the search changes.
Outlive(c, l) ==
    IF c = None THEN None
    ELSE IF l.page # Here.page
         THEN IF c.about.page = "asset" THEN [c EXCEPT !.mounted = FALSE] ELSE None
    ELSE IF c.about.page = "search" /\ c.by = "effect" /\ c.about # l THEN None
    ELSE c

\* The component at l, mounted before or not, once its effect has run.
Entered(l, component) ==
    IF IsLanding(l) THEN [component EXCEPT !.status = "idle", !.landing = viewed]
    ELSE [component EXCEPT !.status = "loading"]

Requested(l, cs) == IF IsLanding(l) THEN {cs} ELSE Sent(cs, l, "effect")

\* The tab is opened at any address.
Init ==
    /\ hist \in {<<l>> : l \in Location} /\ pos = 1
    /\ viewed = <<>>
    /\ page = Entered(Here, NewPage)
    /\ calls \in Requested(Here, [i \in Slot |-> None])
    /\ box = IF Here.page = "search" THEN Here.key ELSE None
    /\ moves = 0
    /\ retried = FALSE

\* The tab moves to l; the same search, asset or connection again changes nothing.
Move(l) ==
    /\ moves < MaxMoves
    /\ moves' = moves + 1
    /\ IF l = Here THEN UNCHANGED <<page, box, calls, retried>>
       ELSE /\ page' = Entered(l, IF l.page = Here.page THEN page ELSE NewPage)
            /\ calls' \in Requested(l, [i \in Slot |-> Outlive(calls[i], l)])
            /\ box' = IF l.page = "search" THEN l.key ELSE box
            /\ retried' = (retried /\ l.page = Here.page)
    /\ UNCHANGED viewed

Push(l) ==
    /\ pos < MaxHistory
    /\ hist' = Append(SubSeq(hist, 1, pos), l)
    /\ pos' = pos + 1
    /\ Move(l)

\* A text is entered in the box and submitted; filters are not carried over.
Submit(q) == Push(SearchPage(q, NoFilter))

\* What the pages link to: results and facets, the recently viewed, an asset's
\* connection, every connection, the results of one connection.
SearchLinks == {AssetPage(urn) : urn \in Asset} \cup {SearchPage(Here.key, f) : f \in Filter}

LandingLinks == {AssetPage(page.landing[i]) : i \in DOMAIN page.landing}

AssetLinks == IF page.shown = None THEN {} ELSE {SourcePage(id) : id \in Connection}

SourceListLinks == {SourcePage(id) : id \in Connection}

\* The address has no search in it, so that these lead to the landing page.
SourceLinks == {SearchPage(None, f) : f \in Filter \ {NoFilter}}

\* With the links of the top bar.
Links ==
    {SearchPage(None, NoFilter), SourceList} \cup
    CASE IsLanding(Here) -> LandingLinks
      [] Here.page = "asset" /\ page.status \in {"success", "not_found"} -> AssetLinks
      [] ~IsLanding(Here) /\ Here.page = "search" /\ page.status = "success" -> SearchLinks
      [] Here.page = "sources" /\ page.status = "success" -> SourceListLinks
      [] Here.page = "source" /\ page.status = "success" -> SourceLinks
      [] OTHER -> {}

Follow(l) == l \in Links /\ l # Here /\ Push(l)

Go(n) ==
    /\ n \in DOMAIN hist \ {pos}
    /\ pos' = n
    /\ Move(hist[n])
    /\ UNCHANGED hist

\* The tab is loaded again where it is: only history and local storage remain.
Reload ==
    /\ moves < MaxMoves
    /\ moves' = moves + 1
    /\ page' = Entered(Here, NewPage)
    /\ calls' \in Requested(Here, [i \in Slot |-> None])
    /\ box' = IF Here.page = "search" THEN Here.key ELSE None
    /\ retried' = FALSE
    /\ UNCHANGED <<hist, pos, viewed>>
-----------------------------------------------------------------------------
(* Requests a page sends, and their answers. *)

Retry ==
    /\ page.status = "error"
    /\ ~IsLanding(Here)
    /\ page' = [page EXCEPT !.status = "loading"]
    /\ calls' \in Sent(calls, Here, "retry")
    /\ retried' = TRUE
    /\ UNCHANGED <<nav, viewed>>

\* Mutant: the button is always enabled.
ScrapeAgain ==
    /\ Here.page = "source" /\ page.status = "success"
    /\ page' = [page EXCEPT !.scrape = "sending"]
    /\ calls' \in Sent(calls, Here, "scrape")
    /\ UNCHANGED <<nav, viewed, retried>>

\* The button is disabled while a request is on its way.
handleScrapeNow ==
    /\ Here.page = "source" /\ page.status = "success"
    /\ page.scrape # "sending"
    /\ page' = [page EXCEPT !.scrape = "sending"]
    /\ calls' \in Sent(calls, Here, "scrape")
    /\ UNCHANGED <<nav, viewed, retried>>

\* Mutant: an asset that is in the list already is put in it again.
RecordAgain(urn) == IF Len(viewed) < MAX_ENTRIES THEN <<urn>> \o viewed ELSE <<urn>> \o SubSeq(viewed, 1, MAX_ENTRIES - 1)

\* What is left of s without urn: SelectSeq, in a form that proofs can unfold.
Without(s, urn) ==
    LET kept[i \in 0..Len(s)] == IF i = 0 THEN <<>>
                                 ELSE IF s[i] = urn THEN kept[i - 1] ELSE Append(kept[i - 1], s[i])
    IN  kept[Len(s)]

\* Mutant: the list is not cut.
RecordUnbounded(urn) == <<urn>> \o Without(viewed, urn)

\* Newest first, each asset once, at most MAX_ENTRIES.
recordRecentlyViewed(urn) ==
    LET next == <<urn>> \o Without(viewed, urn)
    IN  SubSeq(next, 1, IF Len(next) < MAX_ENTRIES THEN Len(next) ELSE MAX_ENTRIES)

Answered(i) ==
    /\ calls' = [calls EXCEPT ![i] = None]
    /\ UNCHANGED <<nav, retried>>

\* Mutant: a failed request is sent again at once.
AnswerPageResent(i, ok) ==
    LET c == calls[i] IN
    /\ c # None /\ c.by # "scrape" /\ c.about.page # "asset"
    /\ page' = IF ok THEN [page EXCEPT !.status = "success", !.shown = c.about] ELSE page
    /\ calls' \in {[cs EXCEPT ![i] = None] : cs \in IF ok THEN {calls} ELSE Sent(calls, c.about, c.by)}
    /\ UNCHANGED <<nav, retried, viewed>>

\* Searches, the list of connections and one connection: an answer or an error.
\* A connection that is not in its answer is an error.
AnswerPage(i, ok) ==
    LET c == calls[i] IN
    /\ c # None /\ c.by # "scrape" /\ c.about.page # "asset"
    /\ page' = [page EXCEPT !.status = IF ok THEN "success" ELSE "error",
                            !.shown = IF ok THEN c.about ELSE @]
    /\ Answered(i)
    /\ UNCHANGED viewed

\* Mutant: nothing is shown of a deleted asset.
AnswerAssetDeleted(i, outcome) ==
    LET c == calls[i] IN
    /\ c # None /\ c.about.page = "asset"
    /\ page' = IF ~c.mounted \/ outcome = "deleted" THEN page
               ELSE IF outcome = "live" THEN [page EXCEPT !.status = "success", !.shown = c.about]
               ELSE [page EXCEPT !.status = IF outcome = "failed" THEN "error" ELSE "not_found"]
    /\ viewed' = IF outcome = "live" THEN recordRecentlyViewed(c.about.key) ELSE viewed
    /\ Answered(i)

\* A deleted asset and a 404 are both "not found"; only the former is kept.
AnswerAsset(i, outcome) ==
    LET c == calls[i]
        status == CASE outcome = "live" -> "success"
                    [] outcome \in {"deleted", "missing"} -> "not_found"
                    [] outcome = "failed" -> "error" IN
    /\ c # None /\ c.about.page = "asset"
    /\ page' = IF ~c.mounted THEN page
               ELSE [page EXCEPT !.status = status,
                                 !.shown = IF outcome \in {"live", "deleted"} THEN c.about ELSE @]
    /\ viewed' = IF outcome = "live" THEN recordRecentlyViewed(c.about.key) ELSE viewed
    /\ Answered(i)

AnswerScrape(i, ok) ==
    /\ calls[i] # None /\ calls[i].by = "scrape"
    /\ page' = [page EXCEPT !.scrape = IF ok THEN "queued" ELSE "error"]
    /\ Answered(i)
    /\ UNCHANGED viewed

Answer(i) ==
    \/ \E ok \in BOOLEAN : AnswerPage(i, ok) \/ AnswerScrape(i, ok)
    \/ \E outcome \in {"live", "deleted", "missing", "failed"} : AnswerAsset(i, outcome)
-----------------------------------------------------------------------------
User ==
    \/ \E q \in Query \cup {None} : Submit(q)
    \/ \E l \in Location : Follow(l)
    \/ \E n \in DOMAIN hist : Go(n)
    \/ Reload \/ Retry \/ handleScrapeNow

Next == User \/ \E i \in Slot : Answer(i)

Spec == Init /\ [][Next]_vars

\* The browser answers or fails every request; the user need not do anything.
FairSpec == Spec /\ \A i \in Slot : WF_vars(Answer(i))
-----------------------------------------------------------------------------
(* Properties. *)

InFlight(by) == {i \in Slot : calls[i] # None /\ calls[i].mounted /\ calls[i].by \in by}

\* A page that shows a skeleton is waiting for a request that is in flight and
\* that will still be listened to, whatever navigations, cancellations, retries
\* and late answers came before.
LoadingIsAwaited == page.status = "loading" => InFlight({"effect", "retry"}) # {}

\* Results on the screen are those of the search in the address bar, unless Retry
\* was used since the page was opened: answers to the requests of the effect
\* never come through once the search has changed.
OnlyRetriesDrift ==
    Here.page = "search" /\ page.status = "success" /\ ~IsLanding(Here) /\ ~retried
        => page.shown = Here

\* The button says "Queuing" exactly while its one request is in flight, even
\* when the page has moved on to another connection meanwhile.
ScrapeIsAwaited ==
    /\ page.scrape = "sending" <=> InFlight({"scrape"}) # {}
    /\ \A i, j \in InFlight({"scrape"}) : i = j

\* The list of recently viewed assets names no asset twice, and the asset on the
\* screen is in it unless newer ones filled it, even when answers for pages that
\* were left come in later.
ViewedIsRemembered ==
    /\ \A i, j \in DOMAIN viewed : viewed[i] = viewed[j] => i = j
    /\ Here.page = "asset" /\ page.status = "success"
         => (\E i \in DOMAIN viewed : viewed[i] = page.shown.key) \/ Len(viewed) = MAX_ENTRIES

\* Once the user rests, no page shows a skeleton for ever.
LoadingEnds == page.status = "loading" ~> page.status # "loading"
=============================================================================
