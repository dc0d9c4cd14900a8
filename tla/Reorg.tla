------------------------------- MODULE Reorg --------------------------------
(***************************************************************************)
(* The scanner's canonical block history and its compensating rewind       *)
(* (ScannerStore.Commit in scanner_store.go, RewindReorg in reorg.go).     *)
(* The rewind is one transaction over every transfer of the replaced       *)
(* blocks; if any part of it fails, none of it happens.                    *)
(***************************************************************************)
EXTENDS Settlement

(* Commit of the next block: it extends the block recorded below it, and    *)
(* any other hash recorded at its height leaves canonical history.          *)
AdmitBlock(b) ==
  LET h == BlockInfo[b].height
  IN  /\ h = cursor + 1
      /\ BlockInfo[b].parent \in {NoBlock} \cup {x \in Block : block[x] = "safe"}
      /\ block' = [x \in Block |->
            CASE x = b -> "safe"
              [] x # b /\ BlockInfo[x].height = h /\ block[x] = "safe" -> "reorged"
              [] OTHER -> block[x]]
      /\ cursor' = h
      /\ UNCHANGED <<rewinds, now, paymentVars, triageVars, moneyVars, jobVars, outbox>>

-----------------------------------------------------------------------------
(* The blocks above height h leave canonical history, with their transfers. *)
Replaced(h) == {b \in Block : BlockInfo[b].height > h /\ BlockInfo[b].height <= cursor
                              /\ block[b] = "safe"}
Orphans(h)  == {e \in Transfer : transfer[e].status \notin {"none", "reorged"}
                              /\ transfer[e].block \in Replaced(h)}

(* loadReorgSettlements: found through the transfer's unreversed match.     *)
Correlation(m) == IF m.aggregate = 0 THEN m.event ELSE m.aggregate
(* Mutant: settlements are looked for through payment_observations. *)
LoadedObserved(e) == {l \in ledger : observation[e].finality # "none" /\ l.corr = e}

Loaded(e) == {l \in ledger : \E m \in matches : m.event = e /\ l.corr = Correlation(m)}

(* Mutant: only the orphans that stood alone in their settlement. *)
CompensatedExact(h)     == UNION {{l \in Loaded(e) : l.corr = e} : e \in Orphans(h)}
(* Mutant: only the settlements of aggregates. *)
CompensatedAggregate(h) == UNION {{l \in Loaded(e) : l.corr # e} : e \in Orphans(h)}

(* compensateSettlement fails, and the rewind with it, when a reversal of   *)
(* the posting exists already (unique business_reference) or the intent is  *)
(* not paid by it any more; two postings of one intent fail the version CAS.*)
Compensated(h) == UNION {Loaded(e) : e \in Orphans(h)}

Compensable(h) ==
  \A l \in Compensated(h) :
    /\ l.id \notin reversal
    /\ intent[l.intent].status \in {"settled", "overpaid", "confirmed"}
    /\ \A k \in Compensated(h) : k.intent = l.intent => k = l

(* reorgPaymentObservation: an observation the merchant has seen and that   *)
(* no compensation speaks for is announced as reorged.                      *)
Visible(e) == /\ observation[e].finality \notin {"none", "reorged"}
              /\ observation[e].emitted \cap {"payment.observed", "payment.confirming"} # {}

Reopened(r) == IF RouteInfo[r].grace > now THEN "active" ELSE "expired"

(* Two active reservations of one amount on one address may not overlap.    *)
SameAmount(r, x) == /\ RouteInfo[r].address = RouteInfo[x].address
                    /\ RouteInfo[r].asset = RouteInfo[x].asset
                    /\ RouteInfo[r].expected = RouteInfo[x].expected
                    /\ RouteInfo[r].starts < RouteInfo[x].grace
                    /\ RouteInfo[x].starts < RouteInfo[r].grace

(* The settlements are compensated one after another, and each restores the *)
(* reservation of its route unless an active one, restored just before or   *)
(* not, is in its way: S is restored exactly if nothing else can join it.   *)
Restorable(repaid) ==
  {r \in repaid : /\ reservation[r] = "consumed" /\ RouteInfo[r].grace > now
                  /\ ~\E x \in Route \ {r} : reservation[x] = "active" /\ SameAmount(r, x)}

Restores(repaid, S) ==
  /\ \A r, x \in S : r # x => ~SameAmount(r, x)
  /\ \A r \in Restorable(repaid) \ S : \E x \in S : SameAmount(r, x)

RestoredReservation(S) ==
  [r \in Route |-> IF r \in S THEN "active" ELSE reservation[r]]

(* The aggregate's job runs again; one that is leased only notes it. *)
Requeued(j) ==
  [status  |-> IF j.status = "leased" THEN "leased" ELSE "pending",
   resched |-> j.status = "leased",
   due     |-> IF j.status = "none" \/ j.due > now THEN now ELSE j.due,
   live    |-> j.live]

(* Mutant: only the matches of reversed aggregates are reversed. *)
ReversedAggregateMatches(E, corrs) == {m \in matches : m.aggregate \notin corrs}
(* Mutant: the aggregates stay settled. *)
KeptAggregates(corrs) == aggregate
(* Mutant: the aggregates are opened again under their identifiers. *)
ReopenedAggregates(corrs) ==
  [r \in Route |-> IF aggregate[r].state = "settled" /\ aggregate[r].id \in corrs
                   THEN [id |-> aggregate[r].id, state |-> "collecting"] ELSE aggregate[r]]
(* Mutant: the cases of orphaned transfers stay open. *)
KeptCases(E) == unmatched
(* Mutant: no reversal is posted. *)
NoReversals(L) == {}
(* Mutant: a reorganised intent waits for its payment again. *)
PendingAgain(i) == [status |-> "pending", version |-> intent[i].version + 1]
(* Mutant: the notice carries the version before the change. *)
ReorgNoticeEarly(i) == IntentEvent(i, intent[i].version, "payment.reorged")

(* The transaction's effects, by table. *)
Orphaned(o, announced) ==
  [finality |-> "reorged", route |-> o.route, generation |-> o.generation, conf |-> o.conf,
   version |-> IF o.finality \in {"none", "reorged"} THEN o.version ELSE o.version + 1,
   emitted |-> IF announced THEN o.emitted \cup {"payment.reorged"} ELSE o.emitted]

ReversedMatches(E, corrs) == {m \in matches : m.event \notin E /\ m.aggregate \notin corrs}

ReversedAggregates(corrs) ==
  [r \in Route |-> IF aggregate[r].state = "settled" /\ aggregate[r].id \in corrs
                   THEN [id |-> 0, state |-> "none"] ELSE aggregate[r]]

ClosedCases(E) ==
  [e \in Transfer |-> IF e \in E /\ unmatched[e].status # "none"
                      THEN WithStatus(unmatched[e], "reorged") ELSE unmatched[e]]

Reversals(L) == {l.id : l \in L}

UnderReview(i) == [status |-> "reorg_review", version |-> intent[i].version + 1]

ReorgNotice(i) == IntentEvent(i, intent[i].version + 1, "payment.reorged")

(* RewindReorg to height h.  first[l] is the orphan whose turn comes first  *)
(* among those that lead to posting l: only for that one is the posting     *)
(* still loaded, and its observation stays silent.  A generation of an      *)
(* observation is announced as reorged at most once (primary key).          *)
RewindReorg(h) ==
  LET E        == Orphans(h)
      L        == Compensated(h)
      repaid   == {l.route : l \in L}
      dropped  == {l.corr : l \in L}
      seen(S)  == {e \in E \ S : Visible(e)}
      seenAt(S) == {observation[e].route : e \in seen(S)}
  IN  /\ h < cursor /\ rewinds < MaxRewinds
      /\ Compensable(h)
      /\ \E first \in [L -> E] :
           LET silent == {first[l] : l \in L}
               told   == seen(silent)
           IN  /\ \A l \in L : l \in Loaded(first[l])
               /\ \A e \in silent : "payment.reorged" \notin observation[e].emitted
               /\ observation' = [e \in Transfer |->
                    IF e \notin E \/ observation[e].finality = "none" THEN observation[e]
                    ELSE Orphaned(observation[e], e \in silent \cup told)]
               /\ intent' = [i \in Intent |->
                    IF \/ i \in {l.intent : l \in L}
                       \/ /\ i \in {IntentOf[r] : r \in seenAt(silent)}
                          /\ intent[i].status \in {"observed", "confirmed"}
                    THEN UnderReview(i)
                    ELSE intent[i]]
               /\ route' = [r \in Route |->
                    IF \/ r \in repaid /\ route[r] = "settled"
                       \/ r \in seenAt(silent) /\ OpenRoute(r)
                    THEN Reopened(r) ELSE route[r]]
               /\ outbox' = outbox
                    \cup {ReorgNotice(l.intent) : l \in L}
                    \cup {ObservationEvent(e, observation[e].version + 1, "payment.reorged") : e \in told}
      /\ \E S \in SUBSET Restorable(repaid) :
           Restores(repaid, S) /\ reservation' = RestoredReservation(S)
      /\ reversal' = reversal \cup Reversals(L)
      /\ matches' = ReversedMatches(E, dropped)
      /\ aggregate' = ReversedAggregates(dropped)
      /\ job' = [r \in Route |-> IF \E l \in L : l.route = r /\ l.corr \notin Transfer
                                 THEN Requeued(job[r]) ELSE job[r]]
      /\ unmatched' = ClosedCases(E)
      /\ transfer' = [e \in Transfer |-> IF e \in E THEN WithStatus(transfer[e], "reorged")
                                         ELSE transfer[e]]
      /\ block' = [b \in Block |-> IF b \in Replaced(h) THEN "reorged" ELSE block[b]]
      /\ cursor' = h /\ rewinds' = rewinds + 1
      /\ UNCHANGED <<now, candidates, resolution, ledger, nextId>>
=============================================================================
