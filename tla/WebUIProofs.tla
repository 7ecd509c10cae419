---------------------------- MODULE WebUIProofs ----------------------------
(***************************************************************************)
(* Theorems about the pages of the web UI, for every set of searches,      *)
(* assets and connections, and any number of navigations and of requests   *)
(* in flight.                                                              *)
(***************************************************************************)
EXTENDS WebUI, SequenceTheorems, Induction, TLAPS
-----------------------------------------------------------------------------
(* The invariant. *)

\* What the proofs need of the types.
Typed ==
    /\ hist \in Seq(Location) /\ pos \in DOMAIN hist
    /\ page = [status |-> page.status, shown |-> page.shown,
               landing |-> page.landing, scrape |-> page.scrape]
    /\ calls \in [Slot -> Call \cup {None}]
    /\ retried \in BOOLEAN

\* A request that is listened to was sent by the page that is mounted, an effect's
\* for the search in the address bar; only asset pages leave requests behind, only
\* the page of a connection asks for scrapes, and Retry is remembered.
Owned(c, l, again) ==
    /\ c.mounted => c.about.page = l.page
    /\ ~c.mounted => c.about.page = "asset" /\ c.by # "scrape"
    /\ c.by = "scrape" => c.about.page = "source"
    /\ c.by = "effect" /\ c.mounted /\ l.page = "search" => c.about = l
    /\ c.by = "retry" /\ c.mounted => again

CallsAreOwned == \A i \in Slot : calls[i] # None => Owned(calls[i], Here, retried)

IInv == Typed /\ CallsAreOwned /\ LoadingIsAwaited /\ OnlyRetriesDrift /\ ScrapeIsAwaited

\* The parts that speak of the page and its requests, for any page and requests.
Flying(cs, by) == {i \in Slot : cs[i] # None /\ cs[i].mounted /\ cs[i].by \in by}

Consistent(l, p, cs, again) ==
    /\ \A i \in Slot : cs[i] # None => Owned(cs[i], l, again)
    /\ p.status = "loading" => Flying(cs, {"effect", "retry"}) # {}
    /\ l.page = "search" /\ p.status = "success" /\ ~IsLanding(l) /\ ~again => p.shown = l
    /\ p.scrape = "sending" <=> Flying(cs, {"scrape"}) # {}
    /\ \A i, j \in Flying(cs, {"scrape"}) : i = j

LEMMA InvariantIsConsistency ==
    /\ IInv => Typed /\ CallsAreOwned /\ Consistent(Here, page, calls, retried)
    /\ Typed /\ Consistent(Here, page, calls, retried) => IInv
    /\ Typed' /\ Consistent(Here', page', calls', retried') => IInv'
BY DEF IInv, CallsAreOwned, LoadingIsAwaited, OnlyRetriesDrift, ScrapeIsAwaited, Consistent,
       Flying, InFlight

\* Where the tab can be, and requests are not nothing.
LEMMA Locations ==
    /\ \A l \in Location : l.page \in {"search", "asset", "source", "sources"}
    /\ \A q \in Query \cup {None} : SearchPage(q, NoFilter) \in Location
    /\ None \notin Call
BY WebUIAssumption DEF Location, SearchPage, AssetPage, SourcePage, SourceList
-----------------------------------------------------------------------------
(* Requests that are sent, left behind and answered. *)

\* Retry is remembered, and only the page of a connection asks for a scrape.
MaySend(l, by, again) == (by = "retry" => again) /\ (by = "scrape" => l.page = "source")

LEMMA SendingKeeps ==
    ASSUME NEW cs \in [Slot -> Call \cup {None}], NEW l \in Location, NEW again \in BOOLEAN,
           NEW by \in {"effect", "retry", "scrape"},
           \A i \in Slot : cs[i] # None => Owned(cs[i], l, again),
           MaySend(l, by, again),
           NEW sent \in Sent(cs, l, by)
    PROVE  /\ sent \in [Slot -> Call \cup {None}]
           /\ \A i \in Slot : sent[i] # None => Owned(sent[i], l, again)
           /\ by # "scrape" => /\ Flying(sent, {"effect", "retry"}) # {}
                               /\ Flying(sent, {"scrape"}) = Flying(cs, {"scrape"})
           /\ by = "scrape" => /\ Flying(sent, {"effect", "retry"}) = Flying(cs, {"effect", "retry"})
                               /\ \E i \in Slot : Flying(sent, {"scrape"}) = Flying(cs, {"scrape"}) \cup {i}
<1> DEFINE new == [about |-> l, by |-> by, mounted |-> TRUE]
<1>1. PICK i \in Slot : cs[i] = None /\ sent = [cs EXCEPT ![i] = new]
  BY DEF Sent
<1>2. new \in Call /\ new # None /\ new.about = l /\ new.by = by /\ new.mounted
  <2>1. new \in Call
    BY DEF Call
  <2>2. new.about = l /\ new.by = by
    OBVIOUS
  <2>3. new.mounted
    BY Zenon
  <2> QED BY <2>1, <2>2, <2>3, Locations
<1> HIDE DEF new
<1>sent. /\ sent \in [Slot -> Call \cup {None}]
      /\ sent[i] = new
      /\ \A j \in Slot \ {i} : sent[j] = cs[j]
  BY <1>1, <1>2
<1>3. Owned(new, l, again)
  BY <1>2 DEF Owned, MaySend
<1>4. \A j \in Slot : sent[j] # None => Owned(sent[j], l, again)
  BY <1>sent, <1>3
<1>5. ASSUME NEW bys, by \notin bys
      PROVE  Flying(sent, bys) = Flying(cs, bys)
  BY <1>1, <1>2, <1>sent, <1>5 DEF Flying
<1>6. ASSUME NEW bys, by \in bys
      PROVE  Flying(sent, bys) = Flying(cs, bys) \cup {i}
  BY <1>1, <1>2, <1>sent, <1>6 DEF Flying
<1>7. CASE by = "scrape"
  BY <1>sent, <1>4, <1>5, <1>6, <1>7
<1>8. CASE by # "scrape"
  <2>1. by \in {"effect", "retry"} /\ by \notin {"scrape"}
    BY <1>8
  <2> QED BY <1>sent, <1>4, <1>5, <1>6, <1>8, <2>1
<1> QED BY <1>7, <1>8

\* What a move leaves belongs to the page it leads to.
LEMMA LeavingKeeps ==
    ASSUME Typed, CallsAreOwned, NEW l \in Location, l # Here,
           NEW cs, cs = [i \in Slot |-> Outlive(calls[i], l)]
    PROVE  /\ cs \in [Slot -> Call \cup {None}]
           /\ \A i \in Slot : cs[i] # None => Owned(cs[i], l, retried /\ l.page = Here.page)
           /\ Flying(cs, {"scrape"}) = IF l.page = Here.page THEN Flying(calls, {"scrape"}) ELSE {}
<1>1. ASSUME NEW i \in Slot
      PROVE  /\ cs[i] \in Call \cup {None}
             /\ cs[i] # None => calls[i] # None /\ Owned(cs[i], l, retried /\ l.page = Here.page)
             /\ l.page # Here.page => i \notin Flying(cs, {"scrape"})
             /\ l.page = Here.page => (i \in Flying(cs, {"scrape"}) <=> i \in Flying(calls, {"scrape"}))
  <2> DEFINE c == calls[i]
  <2>1. c \in Call \cup {None} /\ cs[i] = Outlive(c, l) /\ retried \in BOOLEAN
    BY DEF Typed
  <2>2. CASE c = None
    BY <2>1, <2>2, Locations DEF Outlive, Flying
  <2>3. CASE c # None /\ l.page # Here.page
    <3>1. Owned(c, Here, retried) /\ c \in Call
      BY <2>1, <2>3 DEF CallsAreOwned
    <3>2. CASE c.about.page = "asset"
      <4>1. cs[i] = [c EXCEPT !.mounted = FALSE]
        BY <2>1, <2>3, <3>2 DEF Outlive
      <4>2. cs[i] \in Call /\ ~cs[i].mounted /\ cs[i].about = c.about /\ cs[i].by = c.by
        BY <3>1, <4>1 DEF Call
      <4>3. c.by # "scrape"
        BY <3>1, <3>2 DEF Owned
      <4> QED BY <2>1, <2>3, <3>2, <4>2, <4>3 DEF Owned, Flying
    <3>3. CASE c.about.page # "asset"
      BY <2>1, <2>3, <3>3, Locations DEF Outlive, Flying
    <3> QED BY <3>2, <3>3
  <2>4. CASE c # None /\ l.page = Here.page
    <3>1. Owned(c, Here, retried) /\ c \in Call
      BY <2>1, <2>4 DEF CallsAreOwned
    <3>2. CASE c.about.page = "search" /\ c.by = "effect" /\ c.about # l
      <4>1. cs[i] = None
        BY <2>1, <2>4, <3>2 DEF Outlive
      <4> QED BY <2>1, <2>4, <3>2, <4>1 DEF Flying
    <3>3. CASE ~(c.about.page = "search" /\ c.by = "effect" /\ c.about # l)
      <4>1. cs[i] = c
        BY <2>1, <2>4, <3>3 DEF Outlive
      <4>2. Owned(c, l, retried /\ l.page = Here.page)
        BY <2>1, <2>4, <3>1, <3>3 DEF Owned
      <4> QED BY <2>1, <2>4, <4>1, <4>2 DEF Flying
    <3> QED BY <3>2, <3>3
  <2> QED BY <2>2, <2>3, <2>4
<1>2. Flying(cs, {"scrape"}) \subseteq Slot /\ Flying(calls, {"scrape"}) \subseteq Slot
  BY DEF Flying
<1>3. cs \in [Slot -> Call \cup {None}]
  BY <1>1
<1>4. Flying(cs, {"scrape"}) = IF l.page = Here.page THEN Flying(calls, {"scrape"}) ELSE {}
  BY <1>1, <1>2
<1> QED BY <1>1, <1>3, <1>4
-----------------------------------------------------------------------------
(* Each action keeps the invariant. *)

LEMMA MoveKeeps ==
    ASSUME IInv, NEW l \in Location, Move(l), l # Here,
           hist' \in Seq(Location), pos' \in DOMAIN hist', Here' = l
    PROVE  IInv'
<1> DEFINE stays == l.page = Here.page
           from == IF stays THEN page ELSE NewPage
           cs == [i \in Slot |-> Outlive(calls[i], l)]
<1>1. Typed /\ CallsAreOwned /\ Consistent(Here, page, calls, retried)
  BY InvariantIsConsistency
<1>2. page' = Entered(l, from) /\ calls' \in Requested(l, cs) /\ retried' = (retried /\ stays)
  BY DEF Move
<1>3. from = [status |-> from.status, shown |-> from.shown, landing |-> from.landing, scrape |-> from.scrape]
  BY <1>1 DEF Typed, NewPage
<1>4. /\ page' = [status |-> page'.status, shown |-> page'.shown,
                  landing |-> page'.landing, scrape |-> page'.scrape]
      /\ page'.status = (IF IsLanding(l) THEN "idle" ELSE "loading")
      /\ page'.scrape = from.scrape
  <2> HIDE DEF from
  <2> QED BY <1>2, <1>3 DEF Entered
<1>5. /\ cs \in [Slot -> Call \cup {None}]
      /\ \A i \in Slot : cs[i] # None => Owned(cs[i], l, retried')
      /\ Flying(cs, {"scrape"}) = IF stays THEN Flying(calls, {"scrape"}) ELSE {}
  <2> HIDE DEF cs
  <2>1. cs = [i \in Slot |-> Outlive(calls[i], l)]
    BY DEF cs
  <2> QED BY <1>1, <1>2, <2>1, LeavingKeeps
<1>6. /\ from.scrape = "sending" <=> Flying(cs, {"scrape"}) # {}
      /\ \A i, j \in Flying(cs, {"scrape"}) : i = j
  <2>1. CASE stays
    BY <1>1, <1>5, <2>1 DEF Consistent
  <2>2. CASE ~stays
    BY <1>5, <2>2 DEF NewPage
  <2> QED BY <2>1, <2>2
<1>7. retried' \in BOOLEAN
  BY <1>1, <1>2 DEF Typed
<1> HIDE DEF cs, from, stays
<1>8. /\ calls' \in [Slot -> Call \cup {None}]
      /\ \A i \in Slot : calls'[i] # None => Owned(calls'[i], l, retried')
      /\ Flying(calls', {"scrape"}) = Flying(cs, {"scrape"})
      /\ ~IsLanding(l) => Flying(calls', {"effect", "retry"}) # {}
  <2>1. CASE IsLanding(l)
    BY <1>2, <1>5, <2>1 DEF Requested
  <2>2. CASE ~IsLanding(l)
    <3>1. calls' \in Sent(cs, l, "effect")
      BY <1>2, <2>2 DEF Requested
    <3>2. MaySend(l, "effect", retried')
      BY DEF MaySend
    <3> QED BY <1>5, <1>7, <3>1, <3>2, SendingKeeps
  <2> QED BY <2>1, <2>2
<1>9. Typed'
  BY <1>4, <1>7, <1>8 DEF Typed
<1>10. Consistent(l, page', calls', retried')
  BY <1>4, <1>6, <1>8 DEF Consistent
<1> QED BY <1>9, <1>10, InvariantIsConsistency

LEMMA StayKeeps ==
    ASSUME IInv, Move(Here), hist' \in Seq(Location), pos' \in DOMAIN hist', Here' = Here
    PROVE  IInv'
<1>1. UNCHANGED <<page, calls, retried>>
  BY DEF Move
<1>2. Typed /\ Consistent(Here, page, calls, retried)
  BY InvariantIsConsistency
<1>3. Typed'
  BY <1>1, <1>2 DEF Typed
<1> QED BY <1>1, <1>2, <1>3, InvariantIsConsistency

LEMMA PushKeeps ==
    ASSUME IInv, NEW l \in Location, Push(l)
    PROVE  IInv'
<1>1. hist \in Seq(Location) /\ pos \in 1..Len(hist)
  BY DEF IInv, Typed
<1>2. /\ SubSeq(hist, 1, pos) \in Seq(Location)
      /\ Len(SubSeq(hist, 1, pos)) = pos
  BY <1>1
<1>3. /\ hist' \in Seq(Location)
      /\ pos' \in DOMAIN hist'
      /\ Here' = l
  BY <1>1, <1>2 DEF Push, Here
<1>4. Move(l)
  BY DEF Push
<1> QED BY <1>3, <1>4, MoveKeeps, StayKeeps

LEMMA GoKeeps ==
    ASSUME IInv, NEW n \in DOMAIN hist, Go(n)
    PROVE  IInv'
<1>1. hist \in Seq(Location) /\ hist' = hist /\ pos' = n /\ Move(hist[n])
  BY DEF IInv, Typed, Go
<1>2. /\ hist' \in Seq(Location) /\ pos' \in DOMAIN hist'
      /\ Here' = hist[n] /\ hist[n] \in Location
  BY <1>1 DEF Here
<1> QED BY <1>1, <1>2, MoveKeeps, StayKeeps

\* A page that was just loaded.
LEMMA LoadedIsConsistent ==
    ASSUME NEW l \in Location, NEW again \in BOOLEAN, ~again, NEW p, p = Entered(l, NewPage),
           NEW cs \in Requested(l, [i \in Slot |-> None])
    PROVE  /\ cs \in [Slot -> Call \cup {None}]
           /\ p = [status |-> p.status, shown |-> p.shown, landing |-> p.landing, scrape |-> p.scrape]
           /\ Consistent(l, p, cs, again)
<1> DEFINE none == [i \in Slot |-> None]
<1>1. /\ none \in [Slot -> Call \cup {None}]
      /\ \A i \in Slot : none[i] # None => Owned(none[i], l, again)
      /\ Flying(none, {"scrape"}) = {}
  BY DEF Flying
<1>2. /\ p = [status |-> p.status, shown |-> p.shown, landing |-> p.landing, scrape |-> p.scrape]
      /\ p.status = (IF IsLanding(l) THEN "idle" ELSE "loading")
      /\ p.scrape = "idle"
  BY DEF Entered, NewPage
<1>3. cs \in Requested(l, none)
  OBVIOUS
<1> HIDE DEF none
<1>4. /\ cs \in [Slot -> Call \cup {None}]
      /\ \A i \in Slot : cs[i] # None => Owned(cs[i], l, again)
      /\ Flying(cs, {"scrape"}) = {}
      /\ ~IsLanding(l) => Flying(cs, {"effect", "retry"}) # {}
  <2>1. CASE IsLanding(l)
    BY <1>1, <1>3, <2>1 DEF Requested
  <2>2. CASE ~IsLanding(l)
    <3>1. cs \in Sent(none, l, "effect")
      BY <1>3, <2>2 DEF Requested
    <3>2. MaySend(l, "effect", again)
      BY DEF MaySend
    <3> QED BY <1>1, <3>1, <3>2, SendingKeeps
  <2> QED BY <2>1, <2>2
<1> QED BY <1>2, <1>4 DEF Consistent

LEMMA InitIsConsistent ==
    ASSUME Init
    PROVE  IInv
<1>1. PICK l \in Location : hist = <<l>> /\ pos = 1
  BY DEF Init
<1>2. hist \in Seq(Location) /\ pos \in DOMAIN hist /\ Here = l
  BY <1>1 DEF Here
<1>3. page = Entered(l, NewPage) /\ calls \in Requested(l, [i \in Slot |-> None]) /\ retried \in BOOLEAN /\ ~retried
  BY <1>2 DEF Init
<1>4. Typed /\ Consistent(Here, page, calls, retried)
  BY <1>2, <1>3, LoadedIsConsistent DEF Typed
<1> QED BY <1>4, InvariantIsConsistency

LEMMA ReloadKeeps ==
    ASSUME IInv, Reload
    PROVE  IInv'
<1>1. hist \in Seq(Location) /\ pos \in DOMAIN hist /\ hist' = hist /\ pos' = pos
  BY DEF IInv, Typed, Reload
<1>2. Here \in Location /\ Here' = Here
  BY <1>1 DEF Here
<1>3. /\ page' = Entered(Here, NewPage) /\ calls' \in Requested(Here, [i \in Slot |-> None])
      /\ retried' \in BOOLEAN /\ ~retried'
  BY DEF Reload
<1>4. Typed' /\ Consistent(Here, page', calls', retried')
  BY <1>1, <1>2, <1>3, LoadedIsConsistent DEF Typed
<1> QED BY <1>2, <1>4, InvariantIsConsistency

LEMMA RetryKeeps ==
    ASSUME IInv, Retry
    PROVE  IInv'
<1>1. Typed /\ Consistent(Here, page, calls, retried)
  BY InvariantIsConsistency
<1>2. Here \in Location /\ Here' = Here
  BY <1>1 DEF Here, Typed, Retry, nav
<1>3. calls' \in Sent(calls, Here, "retry") /\ retried' \in BOOLEAN /\ retried'
  BY DEF Retry
<1>4. \A i \in Slot : calls[i] # None => Owned(calls[i], Here, retried')
  BY <1>1, <1>3 DEF Consistent, Owned
<1>5. /\ calls' \in [Slot -> Call \cup {None}]
      /\ \A i \in Slot : calls'[i] # None => Owned(calls'[i], Here, retried')
      /\ Flying(calls', {"effect", "retry"}) # {}
      /\ Flying(calls', {"scrape"}) = Flying(calls, {"scrape"})
  <2>1. calls \in [Slot -> Call \cup {None}]
    BY <1>1 DEF Typed
  <2>2. MaySend(Here, "retry", retried')
    BY <1>3 DEF MaySend
  <2>3. retried' \in BOOLEAN /\ calls' \in Sent(calls, Here, "retry")
    BY <1>3
  <2> QED BY <1>2, <1>4, <2>1, <2>2, <2>3, SendingKeeps
<1>6. /\ page' = [status |-> page'.status, shown |-> page'.shown,
                  landing |-> page'.landing, scrape |-> page'.scrape]
      /\ page'.status = "loading" /\ page'.scrape = page.scrape
  BY <1>1 DEF Typed, Retry
<1>7. Typed'
  BY <1>1, <1>3, <1>5, <1>6 DEF Typed, Retry, nav
<1>8. Consistent(Here, page', calls', retried')
  BY <1>1, <1>3, <1>5, <1>6 DEF Consistent
<1> QED BY <1>2, <1>7, <1>8, InvariantIsConsistency

LEMMA ScrapeNowKeeps ==
    ASSUME IInv, handleScrapeNow
    PROVE  IInv'
<1>1. Typed /\ Consistent(Here, page, calls, retried)
  BY InvariantIsConsistency
<1>2. Here \in Location /\ Here' = Here /\ Here.page = "source"
  BY <1>1 DEF Here, Typed, handleScrapeNow, nav
<1>3. calls' \in Sent(calls, Here, "scrape") /\ retried' = retried
  BY DEF handleScrapeNow
<1>4. Flying(calls, {"scrape"}) = {}
  BY <1>1 DEF Consistent, handleScrapeNow
<1>5. /\ calls' \in [Slot -> Call \cup {None}]
      /\ \A i \in Slot : calls'[i] # None => Owned(calls'[i], Here, retried)
      /\ Flying(calls', {"effect", "retry"}) = Flying(calls, {"effect", "retry"})
      /\ \E i \in Slot : Flying(calls', {"scrape"}) = Flying(calls, {"scrape"}) \cup {i}
  <2>1. \A i \in Slot : calls[i] # None => Owned(calls[i], Here, retried)
    BY <1>1 DEF Consistent
  <2>2. calls \in [Slot -> Call \cup {None}] /\ retried \in BOOLEAN
    BY <1>1 DEF Typed
  <2>3. MaySend(Here, "scrape", retried)
    BY <1>2 DEF MaySend
  <2> QED BY <1>2, <1>3, <2>1, <2>2, <2>3, SendingKeeps
<1>6. /\ page' = [status |-> page'.status, shown |-> page'.shown,
                  landing |-> page'.landing, scrape |-> page'.scrape]
      /\ page'.status = page.status /\ page'.scrape = "sending" /\ page'.shown = page.shown
  BY <1>1 DEF Typed, handleScrapeNow
<1>7. Typed'
  BY <1>1, <1>3, <1>5, <1>6 DEF Typed, handleScrapeNow, nav
<1>8. Consistent(Here, page', calls', retried')
  BY <1>1, <1>2, <1>3, <1>4, <1>5, <1>6 DEF Consistent
<1> QED BY <1>2, <1>7, <1>8, InvariantIsConsistency

LEMMA AnsweringKeeps ==
    ASSUME IInv, NEW i \in Slot, calls[i] # None, Answered(i)
    PROVE  /\ hist' = hist /\ pos' = pos /\ Here' = Here /\ retried' = retried
           /\ calls' \in [Slot -> Call \cup {None}]
           /\ \A j \in Slot : calls'[j] # None => Owned(calls'[j], Here, retried)
           /\ \A bys : Flying(calls', bys) = Flying(calls, bys) \ {i}
           /\ calls[i] \in Call /\ Owned(calls[i], Here, retried)
<1>1. Typed /\ CallsAreOwned
  BY InvariantIsConsistency
<1>2. calls' = [calls EXCEPT ![i] = None]
  BY DEF Answered
<1>3. /\ calls' \in [Slot -> Call \cup {None}]
      /\ calls'[i] = None
      /\ \A j \in Slot \ {i} : calls'[j] = calls[j]
  BY <1>1, <1>2 DEF Typed
<1>4. \A bys : Flying(calls', bys) = Flying(calls, bys) \ {i}
  BY <1>3 DEF Flying
<1>5. hist' = hist /\ pos' = pos /\ Here' = Here /\ retried' = retried
  BY DEF Answered, nav, Here
<1> QED BY <1>1, <1>3, <1>4, <1>5 DEF CallsAreOwned, Typed

LEMMA AnswerPageKeeps ==
    ASSUME IInv, NEW i \in Slot, NEW ok \in BOOLEAN, AnswerPage(i, ok)
    PROVE  IInv'
<1>1. Typed /\ Consistent(Here, page, calls, retried)
  BY InvariantIsConsistency
<1>2. /\ calls[i] # None /\ calls[i].by # "scrape" /\ calls[i].about.page # "asset"
      /\ Answered(i)
  BY DEF AnswerPage
<1>3. /\ hist' = hist /\ pos' = pos /\ Here' = Here /\ retried' = retried
      /\ calls' \in [Slot -> Call \cup {None}]
      /\ \A j \in Slot : calls'[j] # None => Owned(calls'[j], Here, retried)
      /\ \A bys : Flying(calls', bys) = Flying(calls, bys) \ {i}
      /\ calls[i] \in Call /\ Owned(calls[i], Here, retried)
  BY <1>2, AnsweringKeeps
<1>4. i \notin Flying(calls, {"scrape"})
  BY <1>2 DEF Flying
<1>5. Flying(calls', {"scrape"}) = Flying(calls, {"scrape"})
  BY <1>3, <1>4
<1>6. /\ page' = [status |-> page'.status, shown |-> page'.shown,
                  landing |-> page'.landing, scrape |-> page'.scrape]
      /\ page'.status = (IF ok THEN "success" ELSE "error")
      /\ page'.shown = (IF ok THEN calls[i].about ELSE page.shown)
      /\ page'.scrape = page.scrape
  BY <1>1 DEF Typed, AnswerPage
<1>7. Here.page = "search" /\ ~retried => calls[i].about = Here
  BY <1>2, <1>3 DEF Owned, Call
<1>8. Typed'
  BY <1>1, <1>3, <1>6 DEF Typed
<1>9. Consistent(Here, page', calls', retried)
  BY <1>1, <1>3, <1>5, <1>6, <1>7 DEF Consistent
<1> QED BY <1>3, <1>8, <1>9, InvariantIsConsistency

LEMMA AnswerAssetKeeps ==
    ASSUME IInv, NEW i \in Slot, NEW outcome \in {"live", "deleted", "missing", "failed"},
           AnswerAsset(i, outcome)
    PROVE  IInv'
<1>1. Typed /\ Consistent(Here, page, calls, retried)
  BY InvariantIsConsistency
<1>2. calls[i] # None /\ calls[i].about.page = "asset" /\ Answered(i)
  BY DEF AnswerAsset
<1>3. /\ hist' = hist /\ pos' = pos /\ Here' = Here /\ retried' = retried
      /\ calls' \in [Slot -> Call \cup {None}]
      /\ \A j \in Slot : calls'[j] # None => Owned(calls'[j], Here, retried)
      /\ \A bys : Flying(calls', bys) = Flying(calls, bys) \ {i}
      /\ calls[i] \in Call /\ Owned(calls[i], Here, retried)
  BY <1>2, AnsweringKeeps
<1>4. i \notin Flying(calls, {"scrape"})
  BY <1>2, <1>3 DEF Flying, Owned
<1>5. Flying(calls', {"scrape"}) = Flying(calls, {"scrape"})
  BY <1>3, <1>4
<1>6. CASE ~calls[i].mounted
  <2>1. page' = page
    BY <1>6 DEF AnswerAsset
  <2>2. Flying(calls', {"effect", "retry"}) = Flying(calls, {"effect", "retry"})
    BY <1>3, <1>6 DEF Flying
  <2>3. Typed'
    BY <1>1, <1>3, <2>1 DEF Typed
  <2>4. Consistent(Here, page', calls', retried)
    BY <1>1, <1>3, <1>5, <2>1, <2>2 DEF Consistent
  <2> QED BY <1>3, <2>3, <2>4, InvariantIsConsistency
<1>7. CASE calls[i].mounted
  <2>1. Here.page = "asset"
    BY <1>2, <1>3, <1>7 DEF Owned
  <2>2. /\ page' = [status |-> page'.status, shown |-> page'.shown,
                    landing |-> page'.landing, scrape |-> page'.scrape]
        /\ page'.status \in {"success", "not_found", "error"}
        /\ page'.scrape = page.scrape
    BY <1>1, <1>7 DEF Typed, AnswerAsset
  <2>3. Typed'
    BY <1>1, <1>3, <2>2 DEF Typed
  <2>4. Consistent(Here, page', calls', retried)
    BY <1>1, <1>3, <1>5, <2>1, <2>2 DEF Consistent
  <2> QED BY <1>3, <2>3, <2>4, InvariantIsConsistency
<1> QED BY <1>6, <1>7

LEMMA AnswerScrapeKeeps ==
    ASSUME IInv, NEW i \in Slot, NEW ok \in BOOLEAN, AnswerScrape(i, ok)
    PROVE  IInv'
<1>1. Typed /\ Consistent(Here, page, calls, retried)
  BY InvariantIsConsistency
<1>2. calls[i] # None /\ calls[i].by = "scrape" /\ Answered(i)
  BY DEF AnswerScrape
<1>3. /\ hist' = hist /\ pos' = pos /\ Here' = Here /\ retried' = retried
      /\ calls' \in [Slot -> Call \cup {None}]
      /\ \A j \in Slot : calls'[j] # None => Owned(calls'[j], Here, retried)
      /\ \A bys : Flying(calls', bys) = Flying(calls, bys) \ {i}
      /\ calls[i] \in Call /\ Owned(calls[i], Here, retried)
  BY <1>2, AnsweringKeeps
<1>4. i \in Flying(calls, {"scrape"}) /\ i \notin Flying(calls, {"effect", "retry"})
  BY <1>2, <1>3 DEF Flying, Owned
<1>5. /\ Flying(calls', {"scrape"}) = {}
      /\ Flying(calls', {"effect", "retry"}) = Flying(calls, {"effect", "retry"})
  BY <1>1, <1>3, <1>4 DEF Consistent
<1>6. /\ page' = [status |-> page'.status, shown |-> page'.shown,
                  landing |-> page'.landing, scrape |-> page'.scrape]
      /\ page'.status = page.status /\ page'.shown = page.shown
      /\ page'.scrape # "sending"
  BY <1>1 DEF Typed, AnswerScrape
<1>7. Typed'
  BY <1>1, <1>3, <1>6 DEF Typed
<1>8. Consistent(Here, page', calls', retried)
  BY <1>1, <1>3, <1>5, <1>6 DEF Consistent
<1> QED BY <1>3, <1>7, <1>8, InvariantIsConsistency

LEMMA NextKeeps ==
    ASSUME IInv, [Next]_vars
    PROVE  IInv'
<1>1. ASSUME NEW q \in Query \cup {None}, Submit(q)
      PROVE  IInv'
  BY <1>1, PushKeeps, Locations DEF Submit
<1>2. ASSUME NEW l \in Location, Follow(l)
      PROVE  IInv'
  BY <1>2, PushKeeps DEF Follow
<1>3. ASSUME NEW n \in DOMAIN hist, Go(n)
      PROVE  IInv'
  BY <1>3, GoKeeps
<1>4. CASE Reload
  BY <1>4, ReloadKeeps
<1>5. CASE Retry
  BY <1>5, RetryKeeps
<1>6. CASE handleScrapeNow
  BY <1>6, ScrapeNowKeeps
<1>7. ASSUME NEW i \in Slot, Answer(i)
      PROVE  IInv'
  BY <1>7, AnswerPageKeeps, AnswerAssetKeeps, AnswerScrapeKeeps DEF Answer
<1>8. CASE UNCHANGED vars
  BY <1>8 DEF vars, nav, IInv, Typed, CallsAreOwned, Here, LoadingIsAwaited, OnlyRetriesDrift,
              ScrapeIsAwaited, InFlight
<1> QED BY <1>1, <1>2, <1>3, <1>4, <1>5, <1>6, <1>7, <1>8 DEF Next, User
-----------------------------------------------------------------------------
(* Theorems. *)

LEMMA InvariantHolds == Spec => []IInv
<1>1. Init => IInv
  BY InitIsConsistent
<1>2. IInv /\ [Next]_vars => IInv'
  BY NextKeeps
<1> QED BY <1>1, <1>2, PTL DEF Spec

\* A page that shows its skeleton waits for a request that is in flight and that it
\* will listen to, whatever was cancelled, retried or left before (the loading states
\* of SearchResultsPage, AssetDetailPage, SourceConnectionListPage and
\* SourceConnectionDetailPage).
THEOREM LoadingIsAwaitedAlways == Spec => []LoadingIsAwaited
<1>1. IInv => LoadingIsAwaited
  BY DEF IInv
<1> QED BY <1>1, InvariantHolds, PTL

\* The cleanup of the search effect is enough: unless Retry was used, the results on
\* the screen are those of the address (SearchResultsPage.tsx).
THEOREM OnlyRetriesDriftAlways == Spec => []OnlyRetriesDrift
<1>1. IInv => OnlyRetriesDrift
  BY DEF IInv
<1> QED BY <1>1, InvariantHolds, PTL

\* The scrape button is disabled exactly as long as its one request is under way, on
\* whichever connection the page is by then (SourceConnectionDetailPage.tsx).
THEOREM ScrapeIsAwaitedAlways == Spec => []ScrapeIsAwaited
<1>1. IInv => ScrapeIsAwaited
  BY DEF IInv
<1> QED BY <1>1, InvariantHolds, PTL
-----------------------------------------------------------------------------
(* The recently viewed assets. *)

Names(s, a) == \E i \in 1..Len(s) : s[i] = a

NoneTwice(s) == \A i, j \in 1..Len(s) : s[i] = s[j] => i = j

LEMMA Appended ==
    ASSUME NEW S, NEW s \in Seq(S), NEW e \in S
    PROVE  /\ Append(s, e) \in Seq(S) /\ Len(Append(s, e)) = Len(s) + 1
           /\ \A i \in 1..Len(s) : Append(s, e)[i] = s[i]
           /\ Append(s, e)[Len(s) + 1] = e
OBVIOUS

LEMMA AppendedNames ==
    ASSUME NEW S, NEW s \in Seq(S), NEW e \in S
    PROVE  /\ \A a : Names(Append(s, e), a) <=> a = e \/ Names(s, a)
           /\ NoneTwice(s) /\ ~Names(s, e) => NoneTwice(Append(s, e))
<1> DEFINE t == Append(s, e)
<1>1. /\ Len(s) \in Nat /\ Len(t) = Len(s) + 1
      /\ \A i \in 1..Len(s) : t[i] = s[i]
      /\ t[Len(s) + 1] = e
  BY Appended
<1> HIDE DEF t
<1>2. \A i \in 1..Len(t) : i \in 1..Len(s) \/ i = Len(s) + 1
  BY <1>1
<1>3. \A i \in 1..Len(s) : i \in 1..Len(t)
  BY <1>1
<1>4. Len(s) + 1 \in 1..Len(t)
  BY <1>1
<1>5. \A a : Names(t, a) <=> a = e \/ Names(s, a)
  BY <1>1, <1>2, <1>3, <1>4 DEF Names
<1>6. ASSUME NoneTwice(s), ~Names(s, e) PROVE NoneTwice(t)
  BY <1>1, <1>2, <1>6 DEF Names, NoneTwice
<1> QED BY <1>5, <1>6 DEF t

Past(s, urn, i, before) == IF s[i] = urn THEN before ELSE Append(before, s[i])

\* What is left of the first i assets of s, for each i.
Kept(s, urn) ==
    CHOOSE f : f = [i \in 0..Len(s) |-> IF i = 0 THEN <<>> ELSE Past(s, urn, i, f[i - 1])]

LEMMA KeptStepwise ==
    ASSUME NEW s, Len(s) \in Nat, NEW urn
    PROVE  Kept(s, urn) =
             [i \in 0..Len(s) |-> IF i = 0 THEN <<>> ELSE Past(s, urn, i, Kept(s, urn)[i - 1])]
<1> DEFINE Step(f, m) == [i \in 0..m |-> IF i = 0 THEN <<>> ELSE Past(s, urn, i, f[i - 1])]
           S == {m \in Nat : \E f : f = Step(f, m)}
<1>1. 0 \in S
  <2>1. [i \in 0..0 |-> <<>>] = Step([i \in 0..0 |-> <<>>], 0)
    OBVIOUS
  <2> QED BY <2>1
<1>2. ASSUME NEW m \in Nat, m \in S PROVE m + 1 \in S
  <2>1. PICK f : f = Step(f, m)
    BY <1>2
  <2> DEFINE g == [i \in 0..(m + 1) |-> IF i = m + 1 THEN Past(s, urn, i, f[m]) ELSE f[i]]
             t == Step(g, m + 1)
  <2>2. ASSUME NEW i \in 0..(m + 1) PROVE g[i] = t[i]
    <3>0. t[i] = IF i = 0 THEN <<>> ELSE Past(s, urn, i, g[i - 1])
      <4> HIDE DEF g
      <4> QED OBVIOUS
    <3> HIDE DEF t
    <3>1. CASE i = m + 1
      BY <3>0, <3>1
    <3>2. CASE i \in 0..m
      <4>1. g[i] = f[i] /\ f[i] = IF i = 0 THEN <<>> ELSE Past(s, urn, i, f[i - 1])
        BY <2>1, <3>2
      <4>2. i # 0 => g[i - 1] = f[i - 1]
        BY <3>2
      <4> QED BY <3>0, <4>1, <4>2
    <3> QED BY <3>1, <3>2
  <2>3. g = [i \in 0..(m + 1) |-> g[i]] /\ t = [i \in 0..(m + 1) |-> t[i]]
    OBVIOUS
  <2>4. g = Step(g, m + 1)
    <3> HIDE DEF g, t
    <3>1. g = t
      BY <2>2, <2>3
    <3> QED BY <3>1 DEF t
  <2> HIDE DEF g
  <2> QED BY <2>4
<1>3. Len(s) \in S
  <2> HIDE DEF S
  <2>1. 0..Len(s) \subseteq S
    BY <1>1, <1>2, Stepwise
  <2> QED BY <2>1
<1>4. Kept(s, urn) = CHOOSE f : f = Step(f, Len(s))
  BY DEF Kept
<1>5. Kept(s, urn) = Step(Kept(s, urn), Len(s))
  <2>1. \E f : f = Step(f, Len(s))
    BY <1>3
  <2> HIDE DEF Step
  <2> QED BY <1>4, <2>1
<1> QED BY <1>5

LEMMA WithoutMeans ==
    ASSUME NEW S, NEW s \in Seq(S), NEW urn
    PROVE  /\ Without(s, urn) \in Seq(S)
           /\ Len(Without(s, urn)) <= Len(s)
           /\ \A a : Names(Without(s, urn), a) <=> a # urn /\ Names(s, a)
           /\ NoneTwice(s) => NoneTwice(Without(s, urn)) /\ Len(Without(s, urn)) >= Len(s) - 1
<1> DEFINE kept == Kept(s, urn)
           Seen(i, a) == \E j \in 1..i : s[j] = a
           Good(i) == /\ kept[i] \in Seq(S)
                      /\ Len(kept[i]) <= i
                      /\ \A a : Names(kept[i], a) <=> a # urn /\ Seen(i, a)
                      /\ NoneTwice(s) => /\ NoneTwice(kept[i])
                                         /\ Len(kept[i]) >= i - 1
                                         /\ Seen(i, urn) \/ Len(kept[i]) = i
           T == {i \in Nat : Good(i)}
<1>0. Len(s) \in Nat /\ \A i \in 1..Len(s) : s[i] \in S
  OBVIOUS
<1>1. 0 \in T
  <2>1. kept[0] = <<>>
    BY <1>0, KeptStepwise
  <2> HIDE DEF kept
  <2>2. kept[0] \in Seq(S) /\ Len(kept[0]) = 0
    BY <2>1
  <2>3. \A a : ~Seen(0, a) /\ ~Names(kept[0], a)
    BY <2>2 DEF Names
  <2>4. NoneTwice(kept[0])
    BY <2>2 DEF NoneTwice
  <2> HIDE DEF Seen
  <2> QED BY <2>2, <2>3, <2>4
<1>2. ASSUME NEW i \in 0..Len(s), i < Len(s), i \in T PROVE i + 1 \in T
  <2>0. Good(i) /\ i \in Nat /\ i + 1 \in 1..Len(s) /\ s[i + 1] \in S
    BY <1>0, <1>2
  <2>1. kept[i + 1] = IF s[i + 1] = urn THEN kept[i] ELSE Append(kept[i], s[i + 1])
    <3>1. i + 1 \in 0..Len(s) /\ i + 1 # 0 /\ (i + 1) - 1 = i
      BY <1>0, <1>2
    <3>2. kept[i + 1] = Past(s, urn, i + 1, kept[i])
      BY <1>0, <3>1, KeptStepwise
    <3> QED BY <3>2 DEF Past
  <2>2. \A a : Seen(i + 1, a) <=> Seen(i, a) \/ s[i + 1] = a
    <3>1. \A j : j \in 1..(i + 1) <=> j \in 1..i \/ j = i + 1
      BY <2>0
    <3> QED BY <3>1
  <2>3. NoneTwice(s) => ~Seen(i, s[i + 1])
    <3>1. \A j \in 1..i : j \in 1..Len(s) /\ j # i + 1
      BY <1>0, <1>2
    <3> QED BY <2>0, <3>1 DEF NoneTwice
  <2> HIDE DEF kept, Seen
  <2>4. Len(kept[i]) \in Nat
    BY <2>0
  <2>5. CASE s[i + 1] = urn
    <3>1. kept[i + 1] = kept[i]
      BY <2>1, <2>5
    <3>2. NoneTwice(s) => Len(kept[i]) = i
      BY <2>0, <2>3, <2>5
    <3> QED BY <2>0, <2>2, <2>4, <2>5, <3>1, <3>2
  <2>6. CASE s[i + 1] # urn
    <3>1. kept[i + 1] = Append(kept[i], s[i + 1])
      BY <2>1, <2>6
    <3>2. kept[i + 1] \in Seq(S) /\ Len(kept[i + 1]) = Len(kept[i]) + 1
      BY <2>0, <3>1, Appended
    <3>3. \A a : Names(kept[i + 1], a) <=> a = s[i + 1] \/ Names(kept[i], a)
      BY <2>0, <3>1, AppendedNames
    <3>4. \A a : Names(kept[i + 1], a) <=> a # urn /\ Seen(i + 1, a)
      BY <2>0, <2>2, <2>6, <3>3
    <3>5. NoneTwice(s) => NoneTwice(kept[i + 1])
      <4>1. NoneTwice(s) => ~Names(kept[i], s[i + 1])
        BY <2>0, <2>3
      <4> QED BY <2>0, <3>1, <4>1, AppendedNames
    <3>6. NoneTwice(s) => Len(kept[i + 1]) >= (i + 1) - 1 /\ (Seen(i + 1, urn) \/ Len(kept[i + 1]) = i + 1)
      BY <2>0, <2>2, <2>4, <3>2
    <3>7. Len(kept[i + 1]) <= i + 1
      BY <2>0, <2>4, <3>2
    <3> QED BY <2>0, <3>2, <3>4, <3>5, <3>6, <3>7
  <2> QED BY <2>5, <2>6
<1>3. Good(Len(s))
  <2> HIDE DEF T
  <2>1. 0..Len(s) \subseteq T
    BY <1>0, <1>1, <1>2, Stepwise
  <2>2. Len(s) \in T
    BY <1>0, <2>1
  <2> QED BY <2>2 DEF T
<1>4. Without(s, urn) = kept[Len(s)]
  BY DEF Without, Kept, Past
<1>5. \A a : Seen(Len(s), a) <=> Names(s, a)
  BY DEF Names
<1> HIDE DEF kept, Seen
<1> QED BY <1>3, <1>4, <1>5

LEMMA RecordMeans ==
    ASSUME viewed \in Seq(Asset), Len(viewed) <= MAX_ENTRIES, NoneTwice(viewed),
           NEW urn \in Asset, NEW v, v = recordRecentlyViewed(urn)
    PROVE  /\ v \in Seq(Asset) /\ Len(v) <= MAX_ENTRIES
           /\ NoneTwice(v) /\ Names(v, urn)
           /\ \A a : Names(viewed, a) \/ Len(viewed) = MAX_ENTRIES
                       => Names(v, a) \/ Len(v) = MAX_ENTRIES
<1> DEFINE w == Without(viewed, urn)
           next == <<urn>> \o w
           n == IF Len(next) < MAX_ENTRIES THEN Len(next) ELSE MAX_ENTRIES
<1>1. /\ w \in Seq(Asset) /\ NoneTwice(w) /\ Len(w) >= Len(viewed) - 1
      /\ \A a : Names(w, a) <=> a # urn /\ Names(viewed, a)
  BY WithoutMeans
<1> HIDE DEF w
<1>2. /\ next \in Seq(Asset) /\ Len(next) = 1 + Len(w)
      /\ next[1] = urn /\ \A i \in 1..Len(w) : next[i + 1] = w[i]
  <2>1. <<urn>> \in Seq(Asset) /\ Len(<<urn>>) = 1 /\ <<urn>>[1] = urn
    OBVIOUS
  <2>2. /\ next \in Seq(Asset) /\ Len(next) = 1 + Len(w)
        /\ \A i \in 1..(1 + Len(w)) : next[i] = IF i <= 1 THEN <<urn>>[i] ELSE w[i - 1]
    BY <1>1, <2>1, ConcatProperties
  <2>3. Len(w) \in Nat
    BY <1>1
  <2> HIDE DEF next
  <2>4. ASSUME NEW i \in 1..Len(w) PROVE next[i + 1] = w[i]
    <3>1. i + 1 \in 1..(1 + Len(w)) /\ ~(i + 1 <= 1) /\ (i + 1) - 1 = i
      BY <2>3
    <3> QED BY <2>2, <3>1
  <2>5. 1 \in 1..(1 + Len(w))
    BY <2>3
  <2> QED BY <2>1, <2>2, <2>4, <2>5
<1>3. MAX_ENTRIES \in Nat /\ MAX_ENTRIES >= 1 /\ Len(w) \in Nat /\ Len(viewed) \in Nat
  BY <1>1, WebUIAssumption
<1>4. v = SubSeq(next, 1, n)
  BY DEF recordRecentlyViewed, w
<1> HIDE DEF next
<1>5. n \in Nat /\ 1 <= n /\ n <= Len(next) /\ n <= MAX_ENTRIES
  BY <1>2, <1>3
<1>6. n < MAX_ENTRIES => n = Len(next)
  BY <1>2, <1>3
<1> HIDE DEF n
<1>7. /\ v \in Seq(Asset) /\ Len(v) = n
      /\ \A i \in 1..n : v[i] = next[i]
  BY <1>2, <1>4, <1>5
<1>8. NoneTwice(v)
  <2>1. \A i \in 1..n : i = 1 \/ (i - 1 \in 1..Len(w) /\ v[i] = w[i - 1])
    <3>1. ASSUME NEW i \in 1..n, i # 1 PROVE i - 1 \in 1..Len(w) /\ v[i] = w[i - 1]
      <4>1. i - 1 \in 1..Len(w) /\ (i - 1) + 1 = i
        BY <1>2, <1>3, <1>5, <3>1
      <4> QED BY <1>2, <1>7, <4>1
    <3> QED BY <3>1
  <2>2. \A i \in 1..Len(w) : w[i] # urn
    BY <1>1 DEF Names
  <2>3. v[1] = urn
    BY <1>2, <1>5, <1>7
  <2>4. ASSUME NEW i \in 1..n, NEW j \in 1..n, v[i] = v[j] PROVE i = j
    <3>1. CASE i = 1 \/ j = 1
      BY <2>1, <2>2, <2>3, <2>4, <3>1
    <3>2. CASE i # 1 /\ j # 1
      <4>1. /\ i - 1 \in 1..Len(w) /\ v[i] = w[i - 1]
            /\ j - 1 \in 1..Len(w) /\ v[j] = w[j - 1]
        BY <2>1, <3>2
      <4>2. i - 1 = j - 1
        BY <1>1, <2>4, <4>1 DEF NoneTwice
      <4> QED BY <1>5, <4>2
    <3> QED BY <3>1, <3>2
  <2> QED BY <1>7, <2>4 DEF NoneTwice
<1>9. Names(v, urn)
  BY <1>2, <1>5, <1>7 DEF Names
<1>10. ASSUME NEW a, Names(viewed, a), n < MAX_ENTRIES PROVE Names(v, a)
  <2>1. CASE a = urn
    BY <1>9, <2>1
  <2>2. CASE a # urn
    <3>1. PICK i \in 1..Len(w) : w[i] = a
      BY <1>1, <1>10, <2>2 DEF Names
    <3>2. i + 1 \in 1..n /\ next[i + 1] = a
      BY <1>2, <1>3, <1>6, <1>10, <3>1
    <3> QED BY <1>7, <3>2 DEF Names
  <2> QED BY <2>1, <2>2
<1>11. Len(viewed) = MAX_ENTRIES => n = MAX_ENTRIES
  BY <1>1, <1>2, <1>3, <1>5, <1>6
<1> QED BY <1>3, <1>5, <1>7, <1>8, <1>9, <1>10, <1>11

\* The asset on the screen is in the list, unless the list is full.
Remembered ==
    Here.page = "asset" /\ page.status = "success" =>
        Names(viewed, page.shown.key) \/ Len(viewed) = MAX_ENTRIES

ListInv ==
    /\ page \in Page
    /\ box \in Query \cup {None}
    /\ viewed \in Seq(Asset) /\ Len(viewed) <= MAX_ENTRIES
    /\ moves \in Nat
    /\ NoneTwice(viewed)
    /\ Remembered

LEMMA EnteredType ==
    ASSUME NEW l \in Location, NEW c \in Page, viewed \in Seq(Asset)
    PROVE  /\ Entered(l, c) \in Page
           /\ Entered(l, c).status # "success"
BY DEF Entered, Page

LEMMA NewPageType == NewPage \in Page
<1>1. <<>> \in Seq(Asset)
  OBVIOUS
<1> QED BY <1>1 DEF NewPage, Page

LEMMA LocationKeys ==
    ASSUME NEW l \in Location
    PROVE  /\ l.page = "search" => l.key \in Query \cup {None}
           /\ l.page = "asset" => l.key \in Asset
BY DEF Location, SearchPage, AssetPage, SourcePage, SourceList

LEMMA MoveList ==
    ASSUME ListInv, NEW l \in Location, Move(l), Here' = l
    PROVE  ListInv'
<1>1. moves' \in Nat /\ viewed' = viewed
  BY DEF Move, ListInv
<1>2. CASE l = Here
  <2>1. page' = page /\ box' = box
    BY <1>2 DEF Move
  <2> QED BY <1>1, <1>2, <2>1 DEF ListInv, Remembered
<1>3. CASE l # Here
  <2>1. page' \in Page /\ page'.status # "success"
    BY <1>3, EnteredType, NewPageType DEF Move, ListInv
  <2>2. box' \in Query \cup {None}
    BY <1>3, LocationKeys DEF Move, ListInv
  <2> QED BY <1>1, <2>1, <2>2 DEF ListInv, Remembered
<1> QED BY <1>2, <1>3

LEMMA PushList ==
    ASSUME IInv, ListInv, NEW l \in Location, Push(l)
    PROVE  ListInv'
<1>1. hist \in Seq(Location) /\ pos \in 1..Len(hist)
  BY DEF IInv, Typed
<1>2. SubSeq(hist, 1, pos) \in Seq(Location) /\ Len(SubSeq(hist, 1, pos)) = pos
  BY <1>1
<1>3. Here' = l /\ Move(l)
  BY <1>1, <1>2 DEF Push, Here
<1> QED BY <1>3, MoveList

LEMMA GoList ==
    ASSUME IInv, ListInv, NEW n \in DOMAIN hist, Go(n)
    PROVE  ListInv'
<1>1. hist \in Seq(Location) /\ hist' = hist /\ pos' = n /\ Move(hist[n])
  BY DEF IInv, Typed, Go
<1>2. Here' = hist[n] /\ hist[n] \in Location
  BY <1>1 DEF Here
<1> QED BY <1>1, <1>2, MoveList

LEMMA InitList ==
    ASSUME Init
    PROVE  ListInv
<1>1. PICK l \in Location : hist = <<l>> /\ pos = 1
  BY DEF Init
<1>2. Here = l /\ viewed = <<>>
  BY <1>1 DEF Here, Init
<1>3. viewed \in Seq(Asset) /\ Len(viewed) = 0
  BY <1>2
<1>4. page \in Page /\ page.status # "success"
  BY <1>2, <1>3, EnteredType, NewPageType DEF Init
<1>5. box \in Query \cup {None} /\ moves \in Nat
  BY <1>2, LocationKeys DEF Init
<1>6. Len(viewed) <= MAX_ENTRIES /\ NoneTwice(viewed)
  BY <1>3, WebUIAssumption DEF NoneTwice
<1> QED BY <1>3, <1>4, <1>5, <1>6 DEF ListInv, Remembered

LEMMA ReloadList ==
    ASSUME IInv, ListInv, Reload
    PROVE  ListInv'
<1>1. Here \in Location /\ Here' = Here
  BY DEF IInv, Typed, Reload, Here
<1>2. page' \in Page /\ page'.status # "success"
  BY <1>1, EnteredType, NewPageType DEF Reload, ListInv
<1>3. box' \in Query \cup {None} /\ moves' \in Nat /\ viewed' = viewed
  BY <1>1, LocationKeys DEF Reload, ListInv
<1> QED BY <1>2, <1>3 DEF ListInv, Remembered

LEMMA AnswerList ==
    ASSUME IInv, ListInv, NEW i \in Slot, Answer(i)
    PROVE  ListInv'
<1>0. calls[i] # None /\ Answered(i)
  <2>1. ASSUME NEW ok \in BOOLEAN, AnswerPage(i, ok) PROVE calls[i] # None /\ Answered(i)
    BY <2>1 DEF AnswerPage
  <2>2. ASSUME NEW ok \in BOOLEAN, AnswerScrape(i, ok) PROVE calls[i] # None /\ Answered(i)
    BY <2>2 DEF AnswerScrape
  <2>3. ASSUME NEW outcome, AnswerAsset(i, outcome) PROVE calls[i] # None /\ Answered(i)
    BY <2>3 DEF AnswerAsset
  <2> QED BY <2>1, <2>2, <2>3 DEF Answer
<1>1. Here' = Here /\ box' = box /\ moves' = moves /\ calls[i] \in Call /\ Owned(calls[i], Here, retried)
  BY <1>0, AnsweringKeeps DEF Answered, nav
<1>2. calls[i].about \in Location
  BY <1>1 DEF Call
<1>3. ASSUME NEW ok \in BOOLEAN, AnswerPage(i, ok) PROVE ListInv'
  <2>1. page' \in Page /\ viewed' = viewed
    BY <1>2, <1>3 DEF AnswerPage, ListInv, Page
  <2>2. Here.page # "asset"
    BY <1>1, <1>3 DEF AnswerPage, Owned
  <2> QED BY <1>1, <2>1, <2>2 DEF ListInv, Remembered
<1>4. ASSUME NEW ok \in BOOLEAN, AnswerScrape(i, ok) PROVE ListInv'
  <2>1. page' \in Page /\ viewed' = viewed /\ page'.status = page.status /\ page'.shown = page.shown
    BY <1>4 DEF AnswerScrape, ListInv, Page
  <2> QED BY <1>1, <2>1 DEF ListInv, Remembered
<1>5. ASSUME NEW outcome \in {"live", "deleted", "missing", "failed"}, AnswerAsset(i, outcome)
      PROVE  ListInv'
  <2> DEFINE urn == calls[i].about.key
  <2>1. urn \in Asset
    BY <1>2, <1>5, LocationKeys DEF AnswerAsset
  <2>2. page' \in Page
    BY <1>2, <1>5 DEF AnswerAsset, ListInv, Page
  <2>3. /\ viewed' \in Seq(Asset) /\ Len(viewed') <= MAX_ENTRIES /\ NoneTwice(viewed')
        /\ \A a : Names(viewed, a) \/ Len(viewed) = MAX_ENTRIES
                    => Names(viewed', a) \/ Len(viewed') = MAX_ENTRIES
        /\ outcome = "live" => Names(viewed', urn)
    <3>1. CASE outcome = "live"
      <4>1. viewed' = recordRecentlyViewed(urn)
        BY <1>5, <3>1 DEF AnswerAsset
      <4> HIDE DEF urn
      <4> QED BY <2>1, <4>1, RecordMeans DEF ListInv
    <3>2. CASE outcome # "live"
      BY <1>5, <3>2 DEF AnswerAsset, ListInv
    <3> QED BY <3>1, <3>2
  <2>4. \/ page' = page
        \/ page'.status # "success"
        \/ outcome = "live" /\ page'.shown.key = urn
    BY <1>5 DEF AnswerAsset, ListInv, Page
  <2>5. Remembered'
    BY <1>1, <2>3, <2>4 DEF Remembered, ListInv
  <2> QED BY <1>1, <2>2, <2>3, <2>5 DEF ListInv
<1> QED BY <1>3, <1>4, <1>5 DEF Answer

LEMMA NextList ==
    ASSUME IInv, ListInv, [Next]_vars
    PROVE  ListInv'
<1>1. ASSUME NEW q \in Query \cup {None}, Submit(q) PROVE ListInv'
  BY <1>1, PushList, Locations DEF Submit
<1>2. ASSUME NEW l \in Location, Follow(l) PROVE ListInv'
  BY <1>2, PushList DEF Follow
<1>3. ASSUME NEW n \in DOMAIN hist, Go(n) PROVE ListInv'
  BY <1>3, GoList
<1>4. CASE Reload
  BY <1>4, ReloadList
<1>5. CASE Retry
  <2>1. page' \in Page /\ page'.status = "loading"
    BY <1>5 DEF Retry, ListInv, Page
  <2>2. UNCHANGED <<box, viewed, moves>>
    BY <1>5 DEF Retry, nav
  <2> QED BY <2>1, <2>2 DEF ListInv, Remembered
<1>6. CASE handleScrapeNow
  <2>1. page' \in Page /\ Here.page = "source" /\ Here' = Here
    BY <1>6 DEF handleScrapeNow, ListInv, Page, Here, nav
  <2>2. UNCHANGED <<box, viewed, moves>>
    BY <1>6 DEF handleScrapeNow, nav
  <2> QED BY <2>1, <2>2 DEF ListInv, Remembered
<1>7. ASSUME NEW i \in Slot, Answer(i) PROVE ListInv'
  BY <1>7, AnswerList
<1>8. CASE UNCHANGED vars
  BY <1>8 DEF vars, nav, ListInv, Remembered, Here
<1> QED BY <1>1, <1>2, <1>3, <1>4, <1>5, <1>6, <1>7, <1>8 DEF Next, User

LEMMA ListInvHolds == Spec => []ListInv
<1>1. Init => ListInv
  BY InitList
<1>2. IInv /\ ListInv /\ [Next]_vars => ListInv'
  BY NextList
<1> QED BY <1>1, <1>2, InvariantHolds, PTL DEF Spec

\* The pages, the requests, the history and the list keep their types, and the
\* list its bound.
THEOREM TypeCorrect == Spec => []TypeOK
<1>1. IInv /\ ListInv => TypeOK
  BY DEF IInv, Typed, ListInv, TypeOK
<1> QED BY <1>1, InvariantHolds, ListInvHolds, PTL

\* The recently viewed list names no asset twice, and what the asset page shows is
\* in it unless newer ones filled it, whenever answers come in (recentlyViewed.ts,
\* AssetDetailPage.tsx).
THEOREM ViewedIsRememberedAlways == Spec => []ViewedIsRemembered
<1>1. ListInv => ViewedIsRemembered
  BY DEF ListInv, Remembered, ViewedIsRemembered, NoneTwice, Names
<1> QED BY <1>1, ListInvHolds, PTL
=============================================================================
