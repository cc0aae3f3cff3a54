---------------------------- MODULE UploadProofs ----------------------------
(***************************************************************************)
(* Proofs about the uploads of administrators and the bundles of the       *)
(* bundle URL: first BundleLoads, then UploadRequests.  The two components *)
(* share no state; they stand in one module because they are the two ways  *)
(* through the upload handlers.                                            *)
(***************************************************************************)
EXTENDS BundleLoads, UploadRequests, FiniteSetTheorems, TLAPS

-----------------------------------------------------------------------------
(* BundleLoads.  What is known of one load, from its step.                 *)

LoadRecord ==
  [ step : Steps, archive : Archives \cup {None}, declared : Nat \cup {None},
    received : Nat, outcome : Endings \cup {None} ]

Admissible(l, a) == a \in Archives /\ a.size <= Limit(l) /\ PreparationFaults(a) = {}

LoadOK(l, r) ==
  /\ r \in LoadRecord
  /\ r.outcome # None <=> r.step = "done"
  /\ r.archive = None => r.step \in {"idle", "requested", "done"}
  /\ r.step # "idle" => server = "serving"
  /\ r.received <= Limit(l)
  /\ r.declared # None => r.declared <= Limit(l)
  /\ r.step \in {"idle", "requested"} => r.received = 0
  /\ r.step = "reading" => r.received <= r.archive.size
  /\ r.step \in {"preparing", "detached"} => r.archive.size <= Limit(l)
  /\ r.step \in {"prepared", "applied"} \/ r.outcome = "applied" => Admissible(l, r.archive)

DataOK ==
  /\ config \in Configs /\ server \in {"starting", "refused", "serving"}
  /\ active \in Loads \cup {None} /\ archive_sha256 \in Archives \cup {None}
  /\ poisoned \in BOOLEAN /\ reloads \in Nat /\ failures \in [Reasons -> Nat]

ActiveWasApplied ==
  active # None => load[active].step = "applied" \/ load[active].outcome = "applied"

LoadsInv ==
  /\ DataOK
  /\ load \in [Loads -> LoadRecord]
  /\ \A l \in Loads : LoadOK(l, load[l])
  /\ ActiveWasApplied
  /\ IsFiniteSet(RecordedFailures)
  /\ CountersAreHonest

-----------------------------------------------------------------------------
(* Limits and faults.                                                      *)

LEMMA LimitIsLower ==
  ASSUME config \in Configs, NEW l
  PROVE  /\ Limit(l) \in Nat /\ Limit(l) <= config.max_bundle_compressed_bytes
         /\ l \notin Polls => Limit(l) <= config.max_request_size
<1> DEFINE a == config.max_bundle_compressed_bytes
           b == config.max_request_size
<1>1. a \in Nat /\ b \in Nat
  BY LoadsAssumption DEF Config
<1> HIDE DEF a, b
<1>2. Min({a, b}) \in {a, b} /\ Min({a, b}) <= a /\ Min({a, b}) <= b
  <2>1. \E x \in {a, b} : \A y \in {a, b} : x <= y
    BY <1>1
  <2>2. Min({a, b}) \in {a, b} /\ \A y \in {a, b} : Min({a, b}) <= y
    BY <2>1 DEF Min
  <2>3. QED
    BY <2>2
<1>3. QED
  BY <1>1, <1>2 DEF Limit, a, b

LEMMA FaultsAreReasons ==
  ASSUME NEW a \in Archive
  PROVE  PreparationFaults(a) \subseteq Reasons
<1>1. SignatureFaults(a) \subseteq Reasons
  BY DEF SignatureFaults, Reasons
<1>2. a.flaw \in {"none", "archive", "validation"}
  BY DEF Archive
<1>3. ValidationFaults(a) \subseteq Reasons
  BY <1>1, <1>2 DEF ValidationFaults, Reasons
<1>4. QED
  BY <1>3 DEF PreparationFaults, Reasons

LEMMA LoadsAreFinite ==
  IsFiniteSet(Loads) /\ \A S : S \subseteq Loads => IsFiniteSet(S) /\ Cardinality(S) \in Nat
<1>1. IsFiniteSet(Polls)
  BY LoadsAssumption, FS_Interval DEF Polls
<1>2. IsFiniteSet(Loads)
  BY <1>1, LoadsAssumption, FS_Union DEF Loads
<1>3. QED
  BY <1>2, FS_Subset, FS_CardinalityType

-----------------------------------------------------------------------------
(* Counting.  One load moves; which counters may go with it.               *)

(* Only a load that ends joins the loads with its outcome.                 *)
LEMMA EndedAfterMove ==
  ASSUME load \in [Loads -> LoadRecord], NEW l \in Loads, load[l].outcome = None,
         NEW r, load' = [load EXCEPT ![l] = r], NEW outcomes \in SUBSET Endings
  PROVE  /\ l \notin Ended(outcomes)
         /\ Ended(outcomes)' = IF r.outcome \in outcomes THEN Ended(outcomes) \cup {l} ELSE Ended(outcomes)
<1>1. \A k \in Loads : load'[k] = IF k = l THEN r ELSE load[k]
  OBVIOUS
<1>2. l \notin Ended(outcomes)
  BY LoadsAssumption DEF Ended
<1>3. \A k : k \in Ended(outcomes)' <=> k \in Loads /\ (IF k = l THEN r.outcome \in outcomes ELSE k \in Ended(outcomes))
  BY <1>1 DEF Ended
<1>4. QED
  BY <1>2, <1>3 DEF Ended

(* The loads that must be counted as failures, and those that may be.      *)
LEMMA AccountableAfterMove ==
  ASSUME load \in [Loads -> LoadRecord], NEW l \in Loads, load[l].outcome = None,
         NEW r, load' = [load EXCEPT ![l] = r], r.outcome \in Endings \cup {None}
  PROVE  /\ l \notin Accountable /\ l \notin Ended({"abandoned"})
         /\ Accountable' = IF r.outcome \in FailedEndings /\ ~Uncounted(l, r.outcome)
                           THEN Accountable \cup {l} ELSE Accountable
         /\ Ended({"abandoned"})' = IF r.outcome = "abandoned"
                                    THEN Ended({"abandoned"}) \cup {l} ELSE Ended({"abandoned"})
         /\ Accountable \cup Ended({"abandoned"}) \subseteq Loads
<1>1. \A k \in Loads : load'[k] = IF k = l THEN r ELSE load[k]
  OBVIOUS
<1>2. None \notin FailedEndings
  BY LoadsAssumption DEF Endings
<1>3. \A k : k \in Accountable <=> /\ k \in Loads /\ load[k].outcome \in FailedEndings
                                   /\ ~Uncounted(k, load[k].outcome)
  BY DEF Accountable, Ended
<1>4. \A k : k \in Accountable' <=> /\ k \in Loads /\ load'[k].outcome \in FailedEndings
                                    /\ ~Uncounted(k, load'[k].outcome)
  BY DEF Accountable, Ended, Uncounted
<1>5. l \notin Accountable
  BY <1>2, <1>3
<1>6. \A k : k \in Accountable' <=> k \in (IF r.outcome \in FailedEndings /\ ~Uncounted(l, r.outcome)
                                          THEN Accountable \cup {l} ELSE Accountable)
  BY <1>1, <1>3, <1>4, <1>5
<1>7. Accountable' = IF r.outcome \in FailedEndings /\ ~Uncounted(l, r.outcome)
                     THEN Accountable \cup {l} ELSE Accountable
  BY <1>6
<1>8. /\ l \notin Ended({"abandoned"})
      /\ Ended({"abandoned"})' = IF r.outcome = "abandoned"
                                 THEN Ended({"abandoned"}) \cup {l} ELSE Ended({"abandoned"})
  BY EndedAfterMove DEF Endings
<1>9. Accountable \cup Ended({"abandoned"}) \subseteq Loads
  BY DEF Accountable, Ended
<1>10. QED
  BY <1>5, <1>7, <1>8, <1>9

(* A load that moves on, or ends in a way that nothing counts, leaves the  *)
(* books balanced.                                                         *)
LEMMA UncountedMoves ==
  ASSUME LoadsInv, NEW l \in Loads, load[l].outcome = None,
         NEW r, load' = [load EXCEPT ![l] = r], r.outcome \in (Endings \cup {None}) \ {"applied"},
         r.outcome \in FailedEndings => Uncounted(l, r.outcome),
         UNCHANGED metricVars
  PROVE  CountersAreHonest' /\ RecordedFailures' = RecordedFailures
<1> DEFINE F == Accountable
           B == Ended({"abandoned"})
           G == F \cup B
<1>1. load \in [Loads -> LoadRecord] /\ CountersAreHonest
  BY DEF LoadsInv
<1>2. Ended({"applied"})' = Ended({"applied"})
  BY <1>1, EndedAfterMove DEF Endings
<1>3. l \notin G /\ F' = F /\ (B' = B \/ B' = B \cup {l}) /\ G \subseteq Loads
  BY <1>1, AccountableAfterMove
<1>4. G' = G \/ G' = G \cup {l}
  BY <1>3
<1>5. RecordedFailures' = RecordedFailures
  BY DEF RecordedFailures, metricVars
<1> HIDE DEF F, B
<1>6. Cardinality(G) \in Nat /\ Cardinality(G') \in Nat /\ Cardinality(G') >= Cardinality(G)
  <2> HIDE DEF G
  <2>1. IsFiniteSet(G) /\ Cardinality(G) \in Nat
    BY <1>3, LoadsAreFinite
  <2>2. Cardinality(G \cup {l}) = Cardinality(G) + 1
    BY <1>3, <2>1, FS_AddElement
  <2>3. CASE G' = G
    BY <2>1, <2>3
  <2>4. CASE G' = G \cup {l}
    <3>1. Cardinality(G') = Cardinality(G) + 1
      BY <2>2, <2>4
    <3>2. QED
      BY <2>1, <3>1
  <2>5. QED
    BY <1>4, <2>3, <2>4
<1>7. FailureTotal' = FailureTotal /\ reloads' = reloads
  BY <1>5 DEF FailureTotal, metricVars
<1>8. FailureTotal \in Nat
  BY FS_CardinalityType DEF FailureTotal, LoadsInv
<1>9. FailureTotal <= Cardinality(G) /\ Cardinality(F) <= FailureTotal /\ reloads = Cardinality(Ended({"applied"}))
  BY <1>1 DEF CountersAreHonest, F, B
<1>10. FailureTotal' <= Cardinality(G')
  <2> HIDE DEF G
  <2>1. QED
    BY <1>6, <1>7, <1>8, <1>9
<1>11. Cardinality(F') <= FailureTotal'
  BY <1>3, <1>7, <1>9
<1>12. QED
  BY <1>2, <1>5, <1>7, <1>9, <1>10, <1>11 DEF CountersAreHonest, F, B

(* One more failure of a reason is one more recorded failure.              *)
LEMMA RecordingAdds ==
  ASSUME failures \in [Reasons -> Nat], IsFiniteSet(RecordedFailures),
         NEW reason \in Reasons, RecordBundleFailure(reason)
  PROVE  /\ IsFiniteSet(RecordedFailures') /\ FailureTotal \in Nat
         /\ FailureTotal' = FailureTotal + 1 /\ reloads' = reloads
<1> DEFINE n == failures[reason]
           new == <<reason, n + 1>>
<1>1. \A x : x \in RecordedFailures <=> \E q \in Reasons : \E i \in 1 .. failures[q] : x = <<q, i>>
  BY DEF RecordedFailures
<1>2. \A x : x \in RecordedFailures' <=> \E q \in Reasons : \E i \in 1 .. failures'[q] : x = <<q, i>>
  BY DEF RecordedFailures
<1>3. n \in Nat /\ \A q \in Reasons : failures'[q] = IF q = reason THEN n + 1 ELSE failures[q]
  BY DEF RecordBundleFailure
<1> HIDE DEF n
<1>4. 1 .. n + 1 = (1 .. n) \cup {n + 1} /\ n + 1 \notin 1 .. n
  BY <1>3
<1>5. RecordedFailures' = RecordedFailures \cup {new}
  <2>1. ASSUME NEW x \in RecordedFailures'
        PROVE  x \in RecordedFailures \cup {new}
    <3>1. PICK q \in Reasons : \E i \in 1 .. failures'[q] : x = <<q, i>>
      BY <1>2
    <3>2. QED
      BY <1>1, <1>3, <1>4, <3>1 DEF n
  <2>2. ASSUME NEW x \in RecordedFailures
        PROVE  x \in RecordedFailures'
    <3>1. PICK q \in Reasons : \E i \in 1 .. failures[q] : x = <<q, i>>
      BY <1>1
    <3>2. \A i \in 1 .. failures[q] : i \in 1 .. failures'[q]
      BY <1>3, <1>4 DEF n
    <3>3. QED
      BY <1>2, <3>1, <3>2
  <2>3. new \in RecordedFailures'
    BY <1>2, <1>3, <1>4
  <2>4. QED
    BY <2>1, <2>2, <2>3
<1>6. new \notin RecordedFailures
  BY <1>1, <1>4 DEF n
<1>7. QED
  BY <1>5, <1>6, FS_AddElement, FS_CardinalityType DEF FailureTotal, RecordBundleFailure

(* A recorded failure is that of a load that ends with it.                 *)
LEMMA CountedMoves ==
  ASSUME LoadsInv, NEW l \in Loads, load[l].outcome = None,
         NEW r, load' = [load EXCEPT ![l] = r], r.outcome \in FailedEndings \cup {"abandoned"},
         ~Uncounted(l, r.outcome),
         NEW reason \in Reasons, RecordBundleFailure(reason)
  PROVE  CountersAreHonest' /\ IsFiniteSet(RecordedFailures')
<1> DEFINE F == Accountable
           B == Ended({"abandoned"})
           G == F \cup B
<1>1. load \in [Loads -> LoadRecord] /\ CountersAreHonest /\ DataOK /\ IsFiniteSet(RecordedFailures)
  BY DEF LoadsInv
<1>2. Ended({"applied"})' = Ended({"applied"})
  BY <1>1, EndedAfterMove DEF Endings, FailedEndings
<1>3. /\ l \notin F /\ l \notin B /\ F \cup B \subseteq Loads
      /\ (F' = F \cup {l} /\ B' = B) \/ (F' = F /\ B' = B \cup {l})
  BY <1>1, AccountableAfterMove DEF Endings, FailedEndings
<1> HIDE DEF F, B
<1>4. l \notin G /\ G' = G \cup {l} /\ G \subseteq Loads /\ F \subseteq Loads
  BY <1>3
<1>5. /\ IsFiniteSet(RecordedFailures') /\ FailureTotal \in Nat
      /\ FailureTotal' = FailureTotal + 1 /\ reloads' = reloads
  BY <1>1, RecordingAdds DEF DataOK
<1>6. /\ FailureTotal <= Cardinality(G) /\ Cardinality(F) <= FailureTotal
      /\ reloads = Cardinality(Ended({"applied"}))
  BY <1>1 DEF CountersAreHonest, F, B
<1> HIDE DEF G
<1>7. IsFiniteSet(F) /\ IsFiniteSet(G) /\ Cardinality(F) \in Nat /\ Cardinality(G) \in Nat
  BY <1>4, LoadsAreFinite
<1>8. Cardinality(G') = Cardinality(G) + 1
  BY <1>4, <1>7, FS_AddElement
<1>9. Cardinality(F') \in {Cardinality(F), Cardinality(F) + 1}
  BY <1>3, <1>7, FS_AddElement
<1>10. FailureTotal' <= Cardinality(G') /\ Cardinality(F') <= FailureTotal'
  BY <1>5, <1>6, <1>7, <1>8, <1>9
<1>11. QED
  BY <1>2, <1>5, <1>6, <1>10 DEF CountersAreHonest, F, B, G

(* A counted reload is that of a load that ends as applied.                *)
LEMMA CountedReloads ==
  ASSUME LoadsInv, NEW l \in Loads, load[l].outcome = None,
         NEW r, load' = [load EXCEPT ![l] = r], r.outcome = "applied", RecordBundleReload
  PROVE  CountersAreHonest' /\ RecordedFailures' = RecordedFailures
<1> DEFINE A == Ended({"applied"})
<1>1. load \in [Loads -> LoadRecord] /\ CountersAreHonest
  BY DEF LoadsInv
<1>2. l \notin A /\ A' = A \cup {l}
  BY <1>1, EndedAfterMove DEF Endings
<1>3. Accountable' = Accountable /\ Ended({"abandoned"})' = Ended({"abandoned"})
  BY <1>1, AccountableAfterMove DEF Endings, FailedEndings
<1>4. RecordedFailures' = RecordedFailures /\ FailureTotal' = FailureTotal
  BY DEF RecordBundleReload, RecordedFailures, FailureTotal
<1>5. A \subseteq Loads
  BY DEF Ended
<1> HIDE DEF A
<1>6. Cardinality(A') = Cardinality(A) + 1
  BY <1>2, <1>5, LoadsAreFinite, FS_AddElement
<1>7. QED
  BY <1>1, <1>3, <1>4, <1>6 DEF CountersAreHonest, RecordBundleReload, A

-----------------------------------------------------------------------------
(* Moves.  What a step may do to its load, and that it leaves the others.  *)

MovesTo(l, r) ==
  /\ load[l].outcome = None /\ load' = [load EXCEPT ![l] = r]
  /\ LoadOK(l, r)

LEMMA SettingsStay ==
  ASSUME UNCHANGED settingVars, NEW l
  PROVE  /\ Limit(l)' = Limit(l)
         /\ \A r : LoadOK(l, r)' <=> LoadOK(l, r)
<1>1. UNCHANGED <<config, server>>
  BY DEF settingVars
<1>2. Limit(l)' = Limit(l)
  BY <1>1 DEF Limit
<1>3. \A a : PreparationFaults(a)' = PreparationFaults(a)
  BY <1>1 DEF PreparationFaults, ValidationFaults, SignatureFaults
<1>4. QED
  BY <1>1, <1>2, <1>3 DEF LoadOK, Admissible

LEMMA OneLoadMoves ==
  ASSUME LoadsInv, NEW l \in Loads, NEW r, MovesTo(l, r), UNCHANGED settingVars
  PROVE  /\ load' \in [Loads -> LoadRecord]
         /\ (\A k \in Loads : LoadOK(k, load[k]))'
         /\ \A k \in Loads : load'[k] = IF k = l THEN r ELSE load[k]
<1>1. \A k \in Loads : load'[k] = IF k = l THEN r ELSE load[k]
  BY DEF LoadsInv, MovesTo
<1>2. load' \in [Loads -> LoadRecord]
  BY DEF LoadsInv, MovesTo, LoadOK
<1>3. ASSUME NEW k \in Loads
      PROVE  LoadOK(k, load[k])'
  <2>1. LoadOK(k, load'[k])
    BY <1>1 DEF LoadsInv, MovesTo
  <2>2. QED
    BY <2>1, SettingsStay
<1>4. QED
  BY <1>1, <1>2, <1>3

(* What was applied last is moved by nothing but its report.               *)
LEMMA ActiveStays ==
  ASSUME LoadsInv, NEW l \in Loads, NEW r, MovesTo(l, r), UNCHANGED <<settingVars, active>>,
         load[l].step = "applied" => r.outcome = "applied"
  PROVE  ActiveWasApplied'
<1>1. \A k \in Loads : load'[k] = IF k = l THEN r ELSE load[k]
  BY OneLoadMoves
<1>2. active \in Loads \cup {None} /\ ActiveWasApplied
  BY DEF LoadsInv, DataOK
<1>3. load[l].outcome # "applied"
  BY LoadsAssumption DEF MovesTo, Endings
<1>4. QED
  BY <1>1, <1>2, <1>3 DEF ActiveWasApplied

(* A load that moves on.                                                   *)
LEMMA MoveKeepsInv ==
  ASSUME LoadsInv, NEW l \in Loads, NEW r, MovesTo(l, r), r.outcome = None, load[l].step # "applied",
         UNCHANGED <<settingVars, storeVars, metricVars>>
  PROVE  LoadsInv'
<1>1. CountersAreHonest' /\ IsFiniteSet(RecordedFailures)'
  BY UncountedMoves, LoadsAssumption DEF MovesTo, LoadsInv, Endings, FailedEndings
<1>2. ActiveWasApplied'
  BY ActiveStays DEF storeVars
<1>3. DataOK'
  BY DEF LoadsInv, DataOK, settingVars, storeVars, metricVars
<1>4. QED
  BY <1>1, <1>2, <1>3, OneLoadMoves DEF LoadsInv

LEMMA EndMoves ==
  ASSUME LoadsInv, NEW l \in Loads, load[l].outcome = None, server = "serving",
         NEW outcome \in Endings, End(l, outcome),
         outcome = "applied" => Admissible(l, load[l].archive)
  PROVE  \E r : MovesTo(l, r) /\ r.outcome = outcome
<1> DEFINE archive == IF outcome = "applied" THEN load[l].archive ELSE None
           r == [ step |-> "done", outcome |-> outcome, declared |-> None, received |-> 0, archive |-> archive ]
<1>1. load' = [load EXCEPT ![l] = r]
  BY DEF End, LoadsInv
<1>2. archive \in Archives \cup {None} /\ (outcome = "applied" => Admissible(l, archive))
  BY DEF Admissible
<1>3. Limit(l) \in Nat
  BY LimitIsLower DEF LoadsInv, DataOK
<1> HIDE DEF archive
<1>4. LoadOK(l, r)
  BY <1>2, <1>3, LoadsAssumption DEF LoadOK, LoadRecord, Steps, Endings
<1>5. r.outcome = outcome
  OBVIOUS
<1> HIDE DEF r
<1>6. QED
  BY <1>1, <1>4, <1>5 DEF MovesTo

(* A load that ends without being counted.                                 *)
LEMMA UnrecordedEndKeepsInv ==
  ASSUME LoadsInv, NEW l \in Loads, load[l].outcome = None, server = "serving",
         load[l].step # "applied", NEW outcome \in Endings \ {"applied"},
         outcome \in FailedEndings => Uncounted(l, outcome), FailUnrecorded(l, outcome)
  PROVE  LoadsInv'
<1>1. PICK r : MovesTo(l, r) /\ r.outcome = outcome
  BY EndMoves DEF FailUnrecorded
<1>2. UNCHANGED <<settingVars, storeVars, metricVars>>
  BY DEF FailUnrecorded
<1>3. CountersAreHonest' /\ IsFiniteSet(RecordedFailures)'
  BY <1>1, <1>2, UncountedMoves DEF MovesTo, LoadsInv
<1>4. ActiveWasApplied'
  BY <1>1, <1>2, ActiveStays DEF storeVars
<1>5. DataOK'
  BY <1>2 DEF LoadsInv, DataOK, settingVars, storeVars, metricVars
<1>6. QED
  BY <1>1, <1>2, <1>3, <1>4, <1>5, OneLoadMoves DEF LoadsInv

(* A load that ends with a counted failure.                                *)
LEMMA RecordedEndKeepsInv ==
  ASSUME LoadsInv, NEW l \in Loads, load[l].outcome = None, server = "serving",
         load[l].step # "applied", NEW outcome \in FailedEndings \cup {"abandoned"}, ~Uncounted(l, outcome),
         End(l, outcome),
         NEW reason \in Reasons, RecordBundleFailure(reason), UNCHANGED <<settingVars, storeVars>>
  PROVE  LoadsInv'
<1>1. PICK r : MovesTo(l, r) /\ r.outcome = outcome
  BY EndMoves DEF Endings, FailedEndings
<1>2. CountersAreHonest' /\ IsFiniteSet(RecordedFailures)'
  BY <1>1, CountedMoves DEF MovesTo
<1>3. ActiveWasApplied'
  BY <1>1, ActiveStays DEF storeVars
<1>4. DataOK'
  BY DEF LoadsInv, DataOK, settingVars, storeVars, RecordBundleFailure
<1>5. QED
  BY <1>1, <1>2, <1>3, <1>4, OneLoadMoves DEF LoadsInv

LEMMA FailKeepsInv ==
  ASSUME LoadsInv, NEW l \in Loads, load[l].outcome = None, server = "serving",
         load[l].step # "applied", NEW outcome \in FailedEndings, ~Uncounted(l, outcome),
         NEW reason \in Reasons, Fail(l, outcome, reason)
  PROVE  LoadsInv'
BY RecordedEndKeepsInv DEF Fail

-----------------------------------------------------------------------------
(* The steps of a load.                                                    *)

LEMMA UnderWay ==
  ASSUME LoadsInv, NEW l \in Loads, load[l].step # "done"
  PROVE  /\ load[l].outcome = None /\ load[l] \in LoadRecord /\ LoadOK(l, load[l])
         /\ load[l].step # "idle" => server = "serving"
         /\ Limit(l) \in Nat /\ config \in Configs
BY LimitIsLower DEF LoadsInv, LoadOK, DataOK

LEMMA GoMoves ==
  ASSUME LoadsInv, NEW l \in Loads, load[l].step # "done", NEW step \in Steps \ {"done"}, Go(l, step),
         LoadOK(l, [load[l] EXCEPT !.step = step])
  PROVE  \E r : MovesTo(l, r) /\ r.outcome = None /\ r.step = step
<1> DEFINE r == [load[l] EXCEPT !.step = step]
<1>1. load' = [load EXCEPT ![l] = r] /\ r.outcome = None /\ r.step = step
  BY UnderWay DEF Go, LoadRecord
<1>2. load[l].outcome = None /\ LoadOK(l, r)
  BY UnderWay
<1> HIDE DEF r
<1>3. QED
  BY <1>1, <1>2 DEF MovesTo

(* Steps that only lead on.                                                *)
LEMMA GoKeepsInv ==
  ASSUME LoadsInv, NEW l \in Loads, load[l].step \notin {"done", "applied"},
         NEW step \in Steps \ {"done"}, Go(l, step),
         LoadOK(l, [load[l] EXCEPT !.step = step]),
         UNCHANGED <<settingVars, storeVars, metricVars>>
  PROVE  LoadsInv'
<1>1. PICK r : MovesTo(l, r) /\ r.outcome = None
  BY GoMoves
<1>2. QED
  BY <1>1, MoveKeepsInv

LEMMA ReadingKeepsInv ==
  ASSUME LoadsInv, NEW l \in Loads,
         NEW a \in Archives, NEW d \in {a.size, None}, StartReading(l, a, d)
  PROVE  LoadsInv'
<1> DEFINE r == [load[l] EXCEPT !.step = "reading", !.archive = a, !.declared = d]
<1>1. load[l].step \in {"idle", "requested"} /\ (load[l].step = "idle" => server = "serving")
  BY DEF StartReading, HeadersArrive, At
<1>2. /\ load[l].outcome = None /\ load[l] \in LoadRecord /\ LoadOK(l, load[l])
      /\ server = "serving" /\ Limit(l) \in Nat
  BY <1>1, UnderWay
<1>3. a.size \in Nat \ {0} /\ a # None
  BY LoadsAssumption DEF Archive
<1>4. load' = [load EXCEPT ![l] = r]
  BY <1>2 DEF StartReading, LoadRecord
<1>5. /\ r \in LoadRecord /\ r.outcome = None /\ r.step = "reading" /\ r.received = 0
      /\ r.archive = a /\ r.declared = d
  BY <1>1, <1>2, <1>3 DEF LoadRecord, LoadOK, Steps
<1>6. d # None => d <= Limit(l)
  BY DEF StartReading
<1> HIDE DEF r
<1>7. LoadOK(l, r)
  BY <1>2, <1>3, <1>5, <1>6, LoadsAssumption DEF LoadOK, Endings
<1>8. MovesTo(l, r)
  BY <1>2, <1>4, <1>7 DEF MovesTo
<1>9. load[l].step # "applied" /\ UNCHANGED <<settingVars, storeVars, metricVars>>
  BY <1>1 DEF StartReading
<1>10. \E q : MovesTo(l, q) /\ q.outcome = None
  BY <1>5, <1>8
<1>11. QED
  BY <1>9, <1>10, MoveKeepsInv

LEMMA ReceiveKeepsInv ==
  ASSUME LoadsInv, NEW l \in Loads, At(l, "reading"), NEW n \in 1 .. Missing(l), Receive(l, n)
  PROVE  LoadsInv'
<1> DEFINE r == [load[l] EXCEPT !.received = load[l].received + n]
<1>1. /\ load[l].outcome = None /\ load[l] \in LoadRecord /\ LoadOK(l, load[l])
      /\ server = "serving" /\ Limit(l) \in Nat /\ load[l].step = "reading"
  BY UnderWay DEF At
<1>2. load[l].archive \in Archive /\ load[l].archive.size \in Nat
  BY <1>1, LoadsAssumption DEF LoadOK, LoadRecord, Archive
<1>3. /\ load[l].received + n \in Nat /\ load[l].received + n <= load[l].archive.size
      /\ load[l].received + n <= Limit(l)
  BY <1>1, <1>2 DEF Missing, LoadRecord, Receive
<1>4. load' = [load EXCEPT ![l] = r]
  BY <1>1 DEF Receive, LoadRecord
<1>5. /\ r \in LoadRecord /\ r.outcome = None /\ r.step = "reading"
      /\ r.received = load[l].received + n /\ r.archive = load[l].archive /\ r.declared = load[l].declared
  BY <1>1, <1>3 DEF LoadRecord
<1> HIDE DEF r
<1>6. LoadOK(l, r)
  BY <1>1, <1>3, <1>5, LoadsAssumption DEF LoadOK, Endings
<1>7. MovesTo(l, r)
  BY <1>1, <1>4, <1>6 DEF MovesTo
<1>8. \E q : MovesTo(l, q) /\ q.outcome = None
  BY <1>5, <1>7
<1>9. QED
  BY <1>1, <1>8, MoveKeepsInv DEF Receive

LEMMA NetworkKeepsInv ==
  ASSUME LoadsInv, NEW l \in Loads, Network(l)
  PROVE  LoadsInv'
<1>1. CASE l \in Polls /\ RequestFails(l)
  BY <1>1, UnderWay, FailKeepsInv DEF RequestFails, At, Reasons, FailedEndings, Uncounted
<1>2. CASE l \in Polls /\ NotModified(l)
  BY <1>2, UnderWay, UnrecordedEndKeepsInv DEF NotModified, At, Endings, FailedEndings
<1>3. ASSUME NEW a \in Archives, DeclaredTooLarge(l, a)
      PROVE  LoadsInv'
  BY <1>3, UnderWay, FailKeepsInv DEF DeclaredTooLarge, HeadersArrive, At, Reasons, FailedEndings, Uncounted
<1>4. ASSUME NEW a \in Archives, NEW d \in {a.size, None}, StartReading(l, a, d)
      PROVE  LoadsInv'
  BY <1>4, ReadingKeepsInv
<1>5. ASSUME At(l, "reading"), NEW n \in 1 .. Missing(l), Receive(l, n)
      PROVE  LoadsInv'
  BY <1>5, ReceiveKeepsInv
<1>6. ASSUME NEW n, ChunkTooLarge(l, n)
      PROVE  LoadsInv'
  BY <1>6, UnderWay, FailKeepsInv DEF ChunkTooLarge, At, Reasons, FailedEndings, Uncounted
<1>7. CASE BodyBreaksOff(l)
  <2>1. load[l].step = "reading" /\ load[l].outcome = None /\ server = "serving"
    BY <1>7, UnderWay DEF BodyBreaksOff, At
  <2>2. CASE l \in Polls
    <3>1. l \notin Uploads
      BY <2>2, LoadsAssumption DEF Polls
    <3>2. QED
      BY <1>7, <2>1, <2>2, <3>1, FailKeepsInv DEF BodyBreaksOff, Reasons, FailedEndings, Uncounted
  <2>3. CASE l \notin Polls
    BY <1>7, <2>1, <2>3, UnrecordedEndKeepsInv DEF BodyBreaksOff, Endings, FailedEndings, Uncounted, Loads
  <2>4. QED
    BY <2>2, <2>3
<1>8. QED
  BY <1>1, <1>2, <1>3, <1>4, <1>5, <1>6, <1>7 DEF Network

LEMMA ReadCompletely ==
  ASSUME LoadsInv, NEW l \in Loads, Complete(l)
  PROVE  /\ load[l].step = "reading" /\ load[l].archive \in Archives
         /\ load[l].archive.size <= Limit(l)
<1>1. load[l].step = "reading" /\ load[l] \in LoadRecord /\ LoadOK(l, load[l]) /\ Limit(l) \in Nat
  BY UnderWay DEF Complete, At
<1>2. load[l].archive \in Archives /\ load[l].archive.size \in Nat
  BY <1>1, LoadsAssumption DEF LoadOK, LoadRecord, Archive
<1>3. load[l].archive.size = load[l].received
  BY <1>1, <1>2 DEF Complete, Missing, LoadRecord
<1>4. QED
  BY <1>1, <1>2, <1>3 DEF LoadOK

LEMMA StartPreparingKeepsInv ==
  ASSUME LoadsInv, NEW l \in Loads, StartPreparing(l)
  PROVE  LoadsInv'
<1> DEFINE r == [load[l] EXCEPT !.step = "preparing"]
<1>1. /\ load[l].step = "reading" /\ load[l].archive \in Archives
      /\ load[l].archive.size <= Limit(l)
  BY ReadCompletely DEF StartPreparing
<1>2. load[l].outcome = None /\ load[l] \in LoadRecord /\ LoadOK(l, load[l]) /\ server = "serving"
  BY <1>1, UnderWay
<1>3. LoadOK(l, r)
  BY <1>1, <1>2, LoadsAssumption DEF LoadOK, LoadRecord, Steps, Endings
<1> HIDE DEF r
<1>4. QED
  BY <1>1, <1>3, GoKeepsInv DEF StartPreparing, Steps, r

LEMMA PreparedKeepsInv ==
  ASSUME LoadsInv, NEW l \in Loads, PreparationSucceeds(l)
  PROVE  LoadsInv'
<1> DEFINE r == [load[l] EXCEPT !.step = "prepared"]
<1>1. load[l].step \in {"preparing", "detached"} /\ PreparationFaults(load[l].archive) = {}
  BY DEF PreparationSucceeds, Preparing
<1>2. load[l].outcome = None /\ load[l] \in LoadRecord /\ LoadOK(l, load[l]) /\ server = "serving"
  BY <1>1, UnderWay
<1>3. CASE At(l, "detached")
  BY <1>1, <1>2, <1>3, UnrecordedEndKeepsInv DEF PreparationSucceeds, FailUnrecorded, Endings, FailedEndings
<1>4. CASE ~At(l, "detached")
  <2>1. load[l].archive \in Archives /\ load[l].archive.size <= Limit(l)
    BY <1>1, <1>2 DEF LoadOK, LoadRecord
  <2>2. LoadOK(l, r)
    BY <1>1, <1>2, <2>1, LoadsAssumption DEF LoadOK, LoadRecord, Steps, Endings, Admissible
  <2> HIDE DEF r
  <2>3. QED
    BY <1>1, <1>4, <2>2, GoKeepsInv DEF PreparationSucceeds, Steps, r
<1>5. QED
  BY <1>3, <1>4

LEMMA PreparationFailsKeepsInv ==
  ASSUME LoadsInv, NEW l \in Loads, PreparationFails(l)
  PROVE  LoadsInv'
<1>1. load[l].step \in {"preparing", "detached"}
  BY DEF PreparationFails, Preparing
<1>2. load[l].outcome = None /\ load[l] \in LoadRecord /\ LoadOK(l, load[l]) /\ server = "serving"
  BY <1>1, UnderWay
<1>3. load[l].archive \in Archive
  BY <1>1, <1>2, LoadsAssumption DEF LoadOK, LoadRecord
<1>4. PICK reason \in PreparationFaults(load[l].archive) : RecordBundleFailure(reason)
  BY DEF PreparationFails
<1>5. reason \in Reasons
  BY <1>3, <1>4, FaultsAreReasons
<1>6. Unless(l, "failed") \in {"failed", "abandoned"}
  BY DEF Unless
<1>7. PICK outcome \in FailedEndings \cup {"abandoned"} : ~Uncounted(l, outcome) /\ End(l, outcome)
  BY <1>6 DEF PreparationFails, FailedEndings, Uncounted
<1>8. UNCHANGED <<settingVars, storeVars>>
  BY DEF PreparationFails
<1>9. QED
  BY <1>1, <1>2, <1>4, <1>5, <1>7, <1>8, RecordedEndKeepsInv

LEMMA ApplyKeepsInv ==
  ASSUME LoadsInv, NEW l \in Loads, Apply(l)
  PROVE  LoadsInv'
<1> DEFINE q == [load[l] EXCEPT !.step = "applied"]
<1>1. load[l].step = "prepared" /\ active' = l /\ Go(l, "applied")
      /\ UNCHANGED <<settingVars, archive_sha256, poisoned, metricVars>>
  BY DEF Apply, At
<1>2. load[l].outcome = None /\ load[l] \in LoadRecord /\ LoadOK(l, load[l]) /\ server = "serving"
  BY <1>1, UnderWay
<1>3. LoadOK(l, q)
  BY <1>1, <1>2, LoadsAssumption DEF LoadOK, LoadRecord, Steps, Endings, Admissible
<1> HIDE DEF q
<1>4. PICK r : MovesTo(l, r) /\ r.outcome = None /\ r.step = "applied"
  BY <1>1, <1>3, GoMoves DEF Steps, q
<1>5. CountersAreHonest' /\ IsFiniteSet(RecordedFailures)'
  BY <1>1, <1>4, UncountedMoves, LoadsAssumption DEF MovesTo, LoadsInv, Endings, FailedEndings
<1>6. ActiveWasApplied'
  <2>1. load'[l] = r
    BY <1>1, <1>4, OneLoadMoves
  <2>2. QED
    BY <1>1, <1>4, <2>1 DEF ActiveWasApplied
<1>7. DataOK'
  BY <1>1 DEF LoadsInv, DataOK, settingVars, metricVars
<1>8. QED
  BY <1>1, <1>4, <1>5, <1>6, <1>7, OneLoadMoves DEF LoadsInv

LEMMA ReportKeepsInv ==
  ASSUME LoadsInv, NEW l \in Loads, Report(l)
  PROVE  LoadsInv'
<1>1. load[l].step = "applied" /\ End(l, "applied") /\ RecordBundleReload
      /\ UNCHANGED <<settingVars, active, poisoned>>
      /\ archive_sha256' = IF l \in Polls THEN load[l].archive ELSE archive_sha256
  BY DEF Report, At
<1>2. load[l].outcome = None /\ load[l] \in LoadRecord /\ LoadOK(l, load[l]) /\ server = "serving"
  BY <1>1, UnderWay
<1>3. Admissible(l, load[l].archive)
  BY <1>1, <1>2 DEF LoadOK
<1>4. PICK r : MovesTo(l, r) /\ r.outcome = "applied"
  BY <1>1, <1>2, <1>3, EndMoves DEF Endings
<1>5. CountersAreHonest' /\ IsFiniteSet(RecordedFailures)'
  BY <1>1, <1>4, CountedReloads DEF MovesTo, LoadsInv
<1>6. ActiveWasApplied'
  BY <1>1, <1>4, ActiveStays
<1>7. DataOK'
  BY <1>1, <1>3 DEF LoadsInv, DataOK, settingVars, RecordBundleReload, Admissible
<1>8. QED
  BY <1>1, <1>4, <1>5, <1>6, <1>7, OneLoadMoves DEF LoadsInv

LEMMA WorkKeepsInv ==
  ASSUME LoadsInv, NEW l \in Loads, Work(l)
  PROVE  LoadsInv'
<1>1. CASE l \in Polls /\ SendRequest(l)
  <2>1. load[l].step = "idle" /\ server = "serving"
    BY <1>1 DEF SendRequest, At
  <2>2. LoadOK(l, load[l]) /\ load[l].outcome = None
    BY <2>1, UnderWay
  <2>3. LoadOK(l, [load[l] EXCEPT !.step = "requested"])
    BY <2>1, <2>2, LoadsAssumption DEF LoadOK, LoadRecord, Steps, Endings
  <2>4. Go(l, "requested") /\ UNCHANGED <<settingVars, storeVars, metricVars>>
    BY <1>1 DEF SendRequest
  <2>5. QED
    BY <2>1, <2>3, <2>4, GoKeepsInv DEF Steps
<1>2. CASE l \in Polls /\ BodyUnchanged(l)
  BY <1>2, ReadCompletely, UnderWay, UnrecordedEndKeepsInv DEF BodyUnchanged, Endings, FailedEndings
<1>3. CASE l \in Polls /\ ModeUnreadable(l)
  <2>1. l \notin Uploads
    BY <1>3, LoadsAssumption DEF Polls
  <2>2. QED
    BY <1>3, <2>1, ReadCompletely, UnderWay, FailKeepsInv DEF ModeUnreadable, Reasons, FailedEndings, Uncounted
<1>4. CASE PreparationPanics(l)
  <2>1. load[l].step \in {"preparing", "detached"}
    BY <1>4 DEF PreparationPanics, Preparing
  <2>2. PICK outcome \in {"panicked", "abandoned"} : FailUnrecorded(l, outcome)
    BY <1>4 DEF PreparationPanics, Unless
  <2>3. QED
    BY <2>1, <2>2, UnderWay, UnrecordedEndKeepsInv DEF Endings, FailedEndings, Uncounted
<1>5. CASE ApplyToPoisoned(l)
  <2>1. load[l].step = "prepared" /\ load[l].outcome = None /\ server = "serving"
    BY <1>5, UnderWay DEF ApplyToPoisoned, At
  <2>2. CASE l \in Polls
    <3>1. l \notin Uploads
      BY <2>2, LoadsAssumption DEF Polls
    <3>2. QED
      BY <1>5, <2>1, <2>2, <3>1, FailKeepsInv DEF ApplyToPoisoned, Reasons, FailedEndings, Uncounted
  <2>3. CASE l \notin Polls
    BY <1>5, <2>1, <2>3, UnrecordedEndKeepsInv DEF ApplyToPoisoned, Endings, FailedEndings, Uncounted, Loads
  <2>4. QED
    BY <2>2, <2>3
<1>6. QED
  BY <1>1, <1>2, <1>3, <1>4, <1>5, StartPreparingKeepsInv, PreparationFailsKeepsInv, PreparedKeepsInv,
     ApplyKeepsInv, ReportKeepsInv DEF Work

LEMMA AbandonKeepsInv ==
  ASSUME LoadsInv, NEW u \in Uploads, Abandon(u)
  PROVE  LoadsInv'
<1>1. u \in Loads
  BY DEF Loads
<1>2. CASE (At(u, "reading") \/ At(u, "prepared")) /\ FailUnrecorded(u, "abandoned")
  BY <1>1, <1>2, UnderWay, UnrecordedEndKeepsInv DEF At, Endings, FailedEndings
<1>3. CASE /\ At(u, "preparing") /\ Go(u, "detached")
           /\ UNCHANGED <<settingVars, storeVars, metricVars>>
  <2>1. load[u].step = "preparing" /\ LoadOK(u, load[u]) /\ load[u].outcome = None /\ server = "serving"
    BY <1>1, <1>3, UnderWay DEF At
  <2>2. LoadOK(u, [load[u] EXCEPT !.step = "detached"])
    BY <2>1, LoadsAssumption DEF LoadOK, LoadRecord, Steps, Endings
  <2>3. QED
    BY <1>1, <1>3, <2>1, <2>2, GoKeepsInv DEF Steps
<1>4. QED
  BY <1>2, <1>3 DEF Abandon

-----------------------------------------------------------------------------
(* The invariant of BundleLoads and what follows from it.                  *)

LEMMA LoadsInitInv == LoadsInit => LoadsInv
<1> SUFFICES ASSUME LoadsInit PROVE LoadsInv
  OBVIOUS
<1>1. DataOK
  BY DEF LoadsInit, DataOK
<1>2. \A l \in Loads : Limit(l) \in Nat
  BY <1>1, LimitIsLower DEF DataOK
<1>3. load \in [Loads -> LoadRecord] /\ \A l \in Loads : load[l].step = "idle" /\ load[l].outcome = None
  BY DEF LoadsInit, LoadRecord, Steps
<1>4. \A l \in Loads : LoadOK(l, load[l])
  BY <1>2, <1>3, LoadsAssumption DEF LoadsInit, LoadOK, Endings
<1>5. ActiveWasApplied
  BY DEF LoadsInit, ActiveWasApplied
<1>6. RecordedFailures = {}
  <2>1. ASSUME NEW x \in RecordedFailures
        PROVE  FALSE
    <3>1. PICK reason \in Reasons : \E i \in 1 .. failures[reason] : x = <<reason, i>>
      BY DEF RecordedFailures
    <3>2. failures[reason] = 0
      BY DEF LoadsInit
    <3>3. QED
      BY <3>1, <3>2
  <2>2. QED
    BY <2>1
<1>7. \A outcomes \in SUBSET Endings : Ended(outcomes) = {}
  BY <1>3, LoadsAssumption DEF Ended
<1>8. CountersAreHonest
  <2>1. Ended({"applied"}) = {} /\ Ended({"abandoned"}) = {} /\ Ended(FailedEndings) = {}
    BY <1>7 DEF Endings
  <2>2. Accountable = {} /\ Accountable \cup Ended({"abandoned"}) = {}
    BY <2>1 DEF Accountable
  <2>3. QED
    BY <1>6, <2>1, <2>2, FS_EmptySet DEF CountersAreHonest, FailureTotal, LoadsInit
<1>9. QED
  BY <1>1, <1>3, <1>4, <1>5, <1>6, <1>8, FS_EmptySet DEF LoadsInv

LEMMA LoadsNextKeepsInv == LoadsInv /\ [LoadsNext]_loadVars => LoadsInv'
<1> SUFFICES ASSUME LoadsInv, [LoadsNext]_loadVars PROVE LoadsInv'
  OBVIOUS
<1>1. ASSUME UNCHANGED <<load, metricVars, active>>
      PROVE  CountersAreHonest' /\ IsFiniteSet(RecordedFailures)' /\ ActiveWasApplied'
  BY <1>1 DEF LoadsInv, CountersAreHonest, Accountable, Uncounted, Ended, FailureTotal, RecordedFailures, ActiveWasApplied, metricVars
<1>2. CASE Start
  <2>1. UNCHANGED <<config, load, storeVars, metricVars>> /\ server' \in {"refused", "serving"}
    BY <1>2 DEF Start
  <2>2. \A l \in Loads : load[l].step = "idle" /\ LoadOK(l, load[l])
    BY <1>2, UnderWay DEF Start, LoadsInv, LoadOK
  <2>3. ASSUME NEW l \in Loads
        PROVE  LoadOK(l, load[l])'
    <3>1. Limit(l)' = Limit(l)
      BY <2>1 DEF Limit
    <3>2. \A a : PreparationFaults(a)' = PreparationFaults(a)
      BY <2>1 DEF PreparationFaults, ValidationFaults, SignatureFaults
    <3>3. QED
      BY <2>1, <2>2, <3>1, <3>2 DEF LoadOK, Admissible
  <2>4. DataOK'
    BY <2>1 DEF LoadsInv, DataOK, storeVars, metricVars
  <2>5. QED
    BY <1>1, <2>1, <2>3, <2>4 DEF LoadsInv, storeVars
<1>3. ASSUME NEW l \in Loads, Network(l) \/ Work(l)
      PROVE  LoadsInv'
  BY <1>3, NetworkKeepsInv, WorkKeepsInv
<1>4. ASSUME NEW u \in Uploads, Abandon(u)
      PROVE  LoadsInv'
  BY <1>4, AbandonKeepsInv
<1>5. CASE Poison \/ UNCHANGED loadVars
  <2>1. UNCHANGED <<settingVars, load, active, archive_sha256, metricVars>> /\ poisoned' \in {TRUE, poisoned}
    BY <1>5 DEF Poison, loadVars, storeVars
  <2>2. \A l \in Loads : LoadOK(l, load[l])'
    BY <2>1, SettingsStay DEF LoadsInv
  <2>3. DataOK'
    BY <2>1 DEF LoadsInv, DataOK, settingVars, metricVars
  <2>4. QED
    BY <1>1, <2>1, <2>2, <2>3 DEF LoadsInv
<1>6. QED
  BY <1>2, <1>3, <1>4, <1>5 DEF LoadsNext

(* Every reachable state satisfies the invariant: each load is known by    *)
(* its step to fit its limit and to be free of faults.                     *)
THEOREM LoadsInvariance == LoadsSpec => []LoadsInv
<1>1. QED
  BY LoadsInitInv, LoadsNextKeepsInv, PTL DEF LoadsSpec

(* In any chunking and for any declared size no load of the task or of     *)
(* upload_bundle holds more than its limit, and each is in a step of its   *)
(* way.                                                                    *)
THEOREM LoadsTypeCorrectness == LoadsSpec => []LoadsTypeOK
<1>1. LoadsInv => LoadsTypeOK
  <2> SUFFICES ASSUME LoadsInv PROVE LoadsTypeOK
    OBVIOUS
  <2>1. \A l \in Loads : LoadOK(l, load[l])
    BY DEF LoadsInv
  <2>2. BuffersAreBounded
    BY <2>1 DEF BuffersAreBounded, LoadOK
  <2>3. load \in [Loads -> [ step : Steps, archive : Archives \cup {None}, declared : Nat \cup {None},
                             received : Nat, outcome : Endings \cup {None} ]]
    BY DEF LoadsInv, LoadRecord
  <2>4. \A l \in Loads : /\ load[l].outcome # None <=> At(l, "done")
                         /\ load[l].archive = None => load[l].step \in {"idle", "requested", "done"}
                         /\ ~At(l, "idle") => server = "serving"
    BY <2>1 DEF LoadOK, At
  <2>5. QED
    BY <2>2, <2>3, <2>4 DEF LoadsInv, DataOK, LoadsTypeOK
<1>2. QED
  BY <1>1, LoadsInvariance, PTL

(* Under any accepted settings the bundle in force passed each of them:    *)
(* signature policy and keys, sizes, schema of the strict mode; the lower  *)
(* of the two limits for an upload.                                        *)
THEOREM ActiveBundleSafety == LoadsSpec => []ActiveBundleIsAdmissible
<1>1. LoadsInv => ActiveBundleIsAdmissible
  <2> SUFFICES ASSUME LoadsInv, active # None PROVE ActiveBundleIsAdmissible
    BY DEF ActiveBundleIsAdmissible
  <2> DEFINE a == load[active].archive
  <2>1. active \in Loads /\ config \in Configs
    BY DEF LoadsInv, DataOK
  <2>2. Admissible(active, a)
    BY <2>1 DEF LoadsInv, ActiveWasApplied, LoadOK
  <2>3. a \in Archive /\ a.size \in Nat
    BY <2>2, LoadsAssumption DEF Admissible, Archive
  <2> HIDE DEF a
  <2>4. ValidationFaults(a) = {} /\ (config.strict => a.schema)
    BY <2>2 DEF Admissible, PreparationFaults
  <2>5. SignatureFaults(a) = {} /\ a.flaw = "none" /\ ~(a.uncompressed > config.max_bundle_uncompressed_bytes)
    BY <2>4 DEF ValidationFaults
  <2>6. a.uncompressed <= config.max_bundle_uncompressed_bytes
    <3>1. a.uncompressed \in Nat /\ config.max_bundle_uncompressed_bytes \in Nat
      BY <2>1, <2>3, LoadsAssumption DEF Archive, Config
    <3>2. QED
      BY <2>5, <3>1
  <2>7. /\ a.signature # "none" => a.signature \in config.trusted_keys
        /\ config.signature_policy = "required" => a.signature # "none"
    BY <2>5 DEF SignatureFaults
  <2>8. /\ a.size <= config.max_bundle_compressed_bytes
        /\ active \notin Polls => a.size <= config.max_request_size
    <3>1. /\ Limit(active) \in Nat /\ Limit(active) <= config.max_bundle_compressed_bytes
          /\ active \notin Polls => Limit(active) <= config.max_request_size
          /\ a.size <= Limit(active)
      BY <2>1, <2>2, LimitIsLower DEF Admissible
    <3>2. config.max_bundle_compressed_bytes \in Nat /\ config.max_request_size \in Nat
      BY <2>1, LoadsAssumption DEF Config
    <3>3. QED
      BY <2>3, <3>1, <3>2
  <2>9. active \in Uploads => active \notin Polls
    BY LoadsAssumption DEF Polls
  <2>10. QED
    BY <2>4, <2>5, <2>6, <2>7, <2>8, <2>9 DEF ActiveBundleIsAdmissible, a
<1>2. QED
  BY <1>1, LoadsInvariance, PTL

(* For any number of polls and uploads: reloads are counted exactly; every *)
(* failed load is counted once, except those whose preparation panics, and *)
(* uploads whose body breaks off or which find the store poisoned; nothing *)
(* else is counted but what loads found whose clients had left.            *)
THEOREM HonestCounters == LoadsSpec => []CountersAreHonest
<1>1. LoadsInv => CountersAreHonest
  BY DEF LoadsInv
<1>2. QED
  BY <1>1, LoadsInvariance, PTL

-----------------------------------------------------------------------------
(* UploadRequests.  What is known of one request, from its stage: the      *)
(* process it was sent to while it is under way, the permission once it is *)
(* checked, and where its document came from.                              *)

UploadRecord ==
  [ stage : {"idle", "sent", "received", "checked", "understood", "answered", "lost"},
    kind : Kinds \cup {Nil}, sent_to : Nat \cup {Nil}, token : Nat \cup {Nil}, body : Bodies \cup {Nil},
    document : (Texts \cup {Nil}) \ {Empty}, code : Codes \cup {Nil}, metadata : Fits \cup {Nil} ]

JustifiedAnswer(r) ==
  /\ IF PayloadRefusal(r.body) # Nil THEN r.code = PayloadRefusal(r.body)
     ELSE ~MayUpload(r) => Status(r.code) \in {403, 500}
  /\ MayUpload(r) => Status(r.code) # 403
  /\ r.code = "ok" => Documented(r.kind, r.body)
  /\ r.code \in {"invalid_json_payload", "invalid_text_payload"}
       => ~Documented(r.kind, r.body) \/ r.body.text \in {Empty, Blank}

UploadOK(r) ==
  /\ r \in UploadRecord
  /\ r.stage # "idle" => r.kind \in Kinds /\ r.body \in Bodies
  /\ IF r.stage = "answered" THEN r.code \in Codes ELSE r.code = Nil
  /\ IF r.code = "ok" THEN r.metadata \in Fits ELSE r.metadata = Nil
  /\ r.stage \in {"sent", "received", "checked", "understood"} => r.sent_to = process
  /\ r.stage \in {"received", "checked", "understood"} => PayloadRefusal(r.body) = Nil
  /\ r.stage \in {"checked", "understood"} => MayUpload(r)
  /\ r.stage = "understood" => r.document = Understood(r.kind, r.body) /\ r.document # Nil
  /\ r.stage = "answered" => JustifiedAnswer(r)

ProcessOK ==
  /\ process \in 0 .. MaxRestarts
  /\ settings \in [allow_upload : BOOLEAN, bundle_url_mode : BOOLEAN]
  /\ lock_poisoned \in BOOLEAN
  /\ documents \in Fits

UploadInv ==
  /\ ProcessOK
  /\ upload \in [Clients -> UploadRecord]
  /\ \A c \in Clients : UploadOK(upload[c])

-----------------------------------------------------------------------------
(* Bodies.                                                                 *)

LEMMA UnderstoodForms ==
  ASSUME NEW kind \in Kinds, NEW body \in Bodies
  PROVE  /\ Understood(kind, body) \in Texts \cup {Nil}
         /\ Documented(kind, body) => Understood(kind, body) = body.text
         /\ Understood(kind, body) \notin {Nil, Junk} => Documented(kind, body)
<1>1. /\ body.type \in {"json", "text"} /\ body.form \in {"wrapper", "document", "neither"}
      /\ body.text \in Texts
  BY UploadAssumption
<1>2. Junk \in Texts
  BY DEF Texts
<1>3. CASE body.form = "neither"
  BY <1>1, <1>3 DEF Understood, Documented
<1>4. CASE body.form # "neither" /\ body.type = "json"
  BY <1>1, <1>4 DEF Understood, Documented
<1>5. CASE body.form # "neither" /\ body.type = "text"
  BY <1>1, <1>2, <1>5 DEF Understood, Documented
<1>6. QED
  BY <1>1, <1>3, <1>4, <1>5

LEMMA BodyRefusals ==
  ASSUME NEW kind \in Kinds, NEW body \in Bodies
  PROVE  /\ BodyRefusal(kind, body) \in {"invalid_json_payload", "invalid_text_payload", Nil}
         /\ BodyRefusal(kind, body) # Nil => ~Documented(kind, body) \/ body.text \in {Empty, Blank}
         /\ BodyRefusal(kind, body) = Nil => Understood(kind, body) \in Texts \ {Empty}
<1> DEFINE d == Understood(kind, body)
<1>1. /\ d \in Texts \cup {Nil} /\ body.text \in Texts
      /\ Documented(kind, body) => d = body.text
  BY UnderstoodForms, UploadAssumption
<1>2. Nil \notin Texts /\ Nil \notin {"invalid_json_payload", "invalid_text_payload"}
  BY UploadAssumption DEF Codes
<1> HIDE DEF d
<1>3. CASE d = Nil
  BY <1>1, <1>2, <1>3 DEF BodyRefusal, d
<1>4. CASE d # Nil /\ TextMissing(kind, d)
  BY <1>1, <1>2, <1>4 DEF BodyRefusal, TextMissing, d
<1>5. CASE d # Nil /\ ~TextMissing(kind, d)
  BY <1>1, <1>2, <1>5 DEF BodyRefusal, TextMissing, d
<1>6. QED
  BY <1>3, <1>4, <1>5

(* A document that fits is none of those that are no document.             *)
LEMMA FittingDocuments ==
  ASSUME ProcessOK, NEW c \in Clients, upload[c] \in UploadRecord, upload[c].kind \in Kinds, Updated(c) \in Fits
  PROVE  upload[c].document # Junk
<1> DEFINE kind == upload[c].kind
           d == upload[c].document
<1>1. /\ documents \in [policies : Policies \cup {Empty, Blank}, schema : Schemas \cup {Empty}]
      /\ Updated(c) \in [policies : Policies \cup {Empty, Blank}, schema : Schemas \cup {Empty}]
  BY UploadAssumption DEF ProcessOK
<1>2. kind = "policies" \/ kind = "schema"
  BY DEF Kinds
<1>3. Updated(c) = [documents EXCEPT ![kind] = d]
  BY DEF Updated
<1> HIDE DEF kind, d
<1>4. Updated(c)[kind] = d
  BY <1>1, <1>2, <1>3
<1>5. d \in Policies \cup {Empty, Blank} \cup Schemas
  BY <1>1, <1>2, <1>4
<1>6. QED
  BY <1>5, UploadAssumption DEF d

LEMMA Refusals ==
  ASSUME NEW q
  PROVE  /\ Refusal(q) \in {"upload_not_allowed", "invalid_upload_token", "bundle_mode_conflict", Nil}
         /\ Refusal(q) = Nil <=> settings.allow_upload /\ q.token = process /\ ~settings.bundle_url_mode
         /\ ~(settings.allow_upload /\ q.token = process)
              <=> Refusal(q) \in {"upload_not_allowed", "invalid_upload_token"}
BY UploadAssumption DEF Refusal, Codes

-----------------------------------------------------------------------------
(* Moves of one request.                                                   *)

LEMMA OneUploadMoves ==
  ASSUME UploadInv, NEW c \in Clients, NEW r, UploadOK(r), upload' = [upload EXCEPT ![c] = r],
         UNCHANGED <<process, settings>>
  PROVE  upload' \in [Clients -> UploadRecord] /\ (\A k \in Clients : UploadOK(upload[k]))'
<1>1. upload' \in [Clients -> UploadRecord]
  BY DEF UploadInv, UploadOK
<1>2. \A k \in Clients : UploadOK(upload'[k])
  BY DEF UploadInv
<1>3. \A q : UploadOK(q)' <=> UploadOK(q)
  BY DEF UploadOK, MayUpload, JustifiedAnswer
<1>4. QED
  BY <1>1, <1>2, <1>3

LEMMA AnswerMoves ==
  ASSUME UploadInv, NEW c \in Clients, upload[c].stage \in {"sent", "received", "checked", "understood"},
         NEW code \in Codes \ {"ok"}, Answers(c, code),
         JustifiedAnswer([upload[c] EXCEPT !.stage = "answered", !.code = code]),
         UNCHANGED <<process, settings, lock_poisoned, documents>>
  PROVE  UploadInv'
<1> DEFINE old == upload[c]
           r == [old EXCEPT !.stage = "answered", !.code = code]
<1>1. old \in UploadRecord /\ UploadOK(old)
  BY DEF UploadInv
<1>2. upload' = [upload EXCEPT ![c] = r]
  BY <1>1 DEF Answers, UploadInv, UploadRecord
<1>3. r \in UploadRecord /\ r.stage = "answered" /\ r.code = code /\ r.kind = old.kind /\ r.body = old.body
      /\ r.metadata = old.metadata
  BY <1>1 DEF UploadRecord
<1>4. old.stage \in {"sent", "received", "checked", "understood"} /\ JustifiedAnswer(r)
  OBVIOUS
<1> HIDE DEF r, old
<1>5. UploadOK(r)
  BY <1>1, <1>3, <1>4, UploadAssumption DEF UploadOK, Codes
<1>6. ProcessOK'
  BY DEF UploadInv, ProcessOK
<1>7. QED
  BY <1>2, <1>5, <1>6, OneUploadMoves DEF UploadInv

LEMMA RequestFacts ==
  ASSUME UploadInv, NEW c \in Clients
  PROVE  /\ ProcessOK /\ upload[c] \in UploadRecord /\ UploadOK(upload[c])
         /\ upload[c].stage # "idle" => upload[c].kind \in Kinds /\ upload[c].body \in Bodies
         /\ upload[c].stage # "answered" => upload[c].code = Nil /\ upload[c].metadata = Nil
         /\ upload[c].stage \in {"checked", "understood"} => MayUpload(upload[c]) /\ upload[c].token = process
         /\ upload[c].stage \in {"received", "checked", "understood"} => PayloadRefusal(upload[c].body) = Nil
BY UploadAssumption DEF UploadInv, UploadOK, Codes, MayUpload

LEMMA SendKeepsInv ==
  ASSUME UploadInv, NEW c \in Clients, NEW kind \in Kinds, NEW token \in 0 .. process \cup {Nil},
         NEW body \in Bodies, Send(c, kind, token, body)
  PROVE  UploadInv'
<1> DEFINE r == [Idle EXCEPT !.stage = "sent", !.kind = kind, !.sent_to = process,
                             !.token = token, !.body = body]
<1>1. ProcessOK /\ process \in Nat /\ token \in Nat \cup {Nil}
  BY UploadAssumption DEF UploadInv, ProcessOK
<1>2. upload' = [upload EXCEPT ![c] = r] /\ UNCHANGED <<process, settings, lock_poisoned, documents>>
  BY DEF Send
<1>3. /\ r \in UploadRecord /\ r.stage = "sent" /\ r.kind = kind /\ r.body = body /\ r.sent_to = process
      /\ r.code = Nil /\ r.metadata = Nil
  BY <1>1, UploadAssumption DEF Idle, UploadRecord, Texts
<1> HIDE DEF r
<1>4. UploadOK(r)
  BY <1>3, UploadAssumption DEF UploadOK, Codes
<1>5. ProcessOK'
  BY <1>2 DEF UploadInv, ProcessOK
<1>6. QED
  BY <1>2, <1>4, <1>5, OneUploadMoves DEF UploadInv

LEMMA PayloadRefusals ==
  ASSUME NEW body
  PROVE  PayloadRefusal(body) \in {"payload_overflow", "payload_broken", Nil}
BY DEF PayloadRefusal

(* The extractor's answer does not depend on who may upload.               *)
LEMMA RefuseToExtractKeepsInv ==
  ASSUME UploadInv, NEW c \in Clients, RefuseToExtract(c)
  PROVE  UploadInv'
<1> DEFINE old == upload[c]
<1>1. /\ old.stage = "sent" /\ PayloadRefusal(old.body) # Nil
      /\ UNCHANGED <<process, settings, lock_poisoned, documents>>
  BY DEF RefuseToExtract, InStage
<1>2. PICK code \in {"payload_overflow", "payload_broken"} :
        code = PayloadRefusal(old.body) /\ Answers(c, code)
  BY <1>1, PayloadRefusals DEF RefuseToExtract
<1> DEFINE r == [old EXCEPT !.stage = "answered", !.code = code]
<1>3. r.code = code /\ r.body = old.body
  BY RequestFacts DEF UploadRecord
<1>4. Status(code) # 403
  BY <1>2 DEF Status
<1> HIDE DEF r, old
<1>5. JustifiedAnswer(r)
  BY <1>1, <1>2, <1>3, <1>4 DEF JustifiedAnswer
<1>6. QED
  BY <1>1, <1>2, <1>5, AnswerMoves DEF Codes, r, old

LEMMA ExtractBodyKeepsInv ==
  ASSUME UploadInv, NEW c \in Clients, ExtractBody(c)
  PROVE  UploadInv'
<1> DEFINE old == upload[c]
           r == [old EXCEPT !.stage = "received"]
<1>1. /\ old.stage = "sent" /\ PayloadRefusal(old.body) = Nil
      /\ UNCHANGED <<process, settings, lock_poisoned, documents>>
  BY DEF ExtractBody, InStage
<1>2. old \in UploadRecord /\ UploadOK(old)
  BY RequestFacts
<1>3. upload' = [upload EXCEPT ![c] = r]
  BY <1>2 DEF ExtractBody, UploadInv, UploadRecord
<1>4. /\ r \in UploadRecord /\ r.stage = "received" /\ r.kind = old.kind /\ r.body = old.body
      /\ r.sent_to = old.sent_to /\ r.code = old.code /\ r.metadata = old.metadata
  BY <1>2 DEF UploadRecord
<1> HIDE DEF r, old
<1>5. UploadOK(r)
  BY <1>1, <1>2, <1>4 DEF UploadOK
<1>6. ProcessOK'
  BY <1>1 DEF UploadInv, ProcessOK
<1>7. QED
  BY <1>1, <1>3, <1>5, <1>6, OneUploadMoves DEF UploadInv

LEMMA FindPoisonedKeepsInv ==
  ASSUME UploadInv, NEW c \in Clients, FindPoisoned(c)
  PROVE  UploadInv'
<1> DEFINE r == [upload[c] EXCEPT !.stage = "answered", !.code = "lock_poisoned"]
<1>1. upload[c].stage \in {"received", "understood"} /\ Answers(c, "lock_poisoned")
      /\ UNCHANGED <<process, settings, lock_poisoned, documents>>
  BY DEF FindPoisoned
<1>2. r.code = "lock_poisoned" /\ PayloadRefusal(r.body) = Nil
  BY <1>1, RequestFacts DEF UploadRecord
<1> HIDE DEF r
<1>3. JustifiedAnswer(r)
  BY <1>2 DEF JustifiedAnswer, Status
<1>4. QED
  BY <1>1, <1>3, AnswerMoves DEF Codes, r

(* A refusal by the checks is for want of permission, unless there is one. *)
LEMMA RefuseUploadKeepsInv ==
  ASSUME UploadInv, NEW c \in Clients, RefuseUpload(c)
  PROVE  UploadInv'
<1>1. /\ upload[c].stage \in {"received", "understood"} /\ Refusal(upload[c]) # Nil
      /\ UNCHANGED <<process, settings, lock_poisoned, documents>>
  BY DEF RefuseUpload
<1>2. PICK code \in {"upload_not_allowed", "invalid_upload_token", "bundle_mode_conflict"} :
        code = Refusal(upload[c]) /\ Answers(c, code)
  BY <1>1, Refusals DEF RefuseUpload
<1> DEFINE r == [upload[c] EXCEPT !.stage = "answered", !.code = code]
<1>3. /\ r.code = code /\ r.token = upload[c].token /\ r.sent_to = upload[c].sent_to
      /\ PayloadRefusal(r.body) = Nil
  BY <1>1, RequestFacts DEF UploadRecord
<1>4. upload[c].sent_to = process
  BY <1>1, RequestFacts DEF UploadOK
<1> HIDE DEF r
<1>5. ~MayUpload(r) <=> code \in {"upload_not_allowed", "invalid_upload_token"}
  BY <1>2, <1>3, <1>4, Refusals DEF MayUpload
<1>6. Status(code) = IF code = "bundle_mode_conflict" THEN 409 ELSE 403
  BY <1>2 DEF Status
<1>7. JustifiedAnswer(r)
  BY <1>2, <1>3, <1>5, <1>6 DEF JustifiedAnswer
<1>8. QED
  BY <1>1, <1>2, <1>7, AnswerMoves DEF Codes, r

LEMMA PassCheckKeepsInv ==
  ASSUME UploadInv, NEW c \in Clients, PassCheck(c)
  PROVE  UploadInv'
<1> DEFINE old == upload[c]
           r == [old EXCEPT !.stage = "checked"]
<1>1. /\ old.stage = "received" /\ Refusal(old) = Nil
      /\ UNCHANGED <<process, settings, lock_poisoned, documents>>
  BY DEF PassCheck, InStage
<1>2. old \in UploadRecord /\ UploadOK(old)
  BY RequestFacts
<1>3. upload' = [upload EXCEPT ![c] = r]
  BY <1>2 DEF PassCheck, UploadInv, UploadRecord
<1>4. /\ r \in UploadRecord /\ r.stage = "checked" /\ r.kind = old.kind /\ r.body = old.body
      /\ r.sent_to = old.sent_to /\ r.token = old.token /\ r.code = old.code /\ r.metadata = old.metadata
  BY <1>2 DEF UploadRecord
<1>5. settings.allow_upload /\ old.token = process
  BY <1>1, Refusals
<1> HIDE DEF r, old
<1>6. UploadOK(r)
  BY <1>1, <1>2, <1>4, <1>5 DEF UploadOK, MayUpload
<1>7. ProcessOK'
  BY <1>1 DEF UploadInv, ProcessOK
<1>8. QED
  BY <1>1, <1>3, <1>6, <1>7, OneUploadMoves DEF UploadInv

LEMMA RefuseBodyKeepsInv ==
  ASSUME UploadInv, NEW c \in Clients, RefuseBody(c)
  PROVE  UploadInv'
<1> DEFINE old == upload[c]
<1>1. /\ old.stage = "checked" /\ BodyRefusal(old.kind, old.body) # Nil
      /\ UNCHANGED <<process, settings, lock_poisoned, documents>>
  BY DEF RefuseBody, InStage
<1>2. old \in UploadRecord /\ MayUpload(old) /\ old.kind \in Kinds /\ old.body \in Bodies
  BY <1>1, RequestFacts
<1>3. PICK code \in {"invalid_json_payload", "invalid_text_payload"} :
        code = BodyRefusal(old.kind, old.body) /\ Answers(c, code)
  BY <1>1, <1>2, BodyRefusals DEF RefuseBody
<1>4. ~Documented(old.kind, old.body) \/ old.body.text \in {Empty, Blank}
  BY <1>1, <1>2, BodyRefusals
<1> DEFINE r == [old EXCEPT !.stage = "answered", !.code = code]
<1>5. /\ r.code = code /\ r.token = old.token /\ r.sent_to = old.sent_to
      /\ r.kind = old.kind /\ r.body = old.body /\ PayloadRefusal(old.body) = Nil
  BY <1>1, <1>2, RequestFacts DEF UploadRecord
<1>6. Status(code) = 400
  BY <1>3 DEF Status
<1> HIDE DEF r, old
<1>7. JustifiedAnswer(r)
  BY <1>2, <1>4, <1>5, <1>6 DEF JustifiedAnswer, MayUpload
<1>8. QED
  BY <1>1, <1>3, <1>7, AnswerMoves DEF Codes, r, old

LEMMA UnderstandBodyKeepsInv ==
  ASSUME UploadInv, NEW c \in Clients, UnderstandBody(c)
  PROVE  UploadInv'
<1> DEFINE old == upload[c]
           d == Understood(old.kind, old.body)
           r == [old EXCEPT !.stage = "understood", !.document = d]
<1>1. /\ old.stage = "checked" /\ BodyRefusal(old.kind, old.body) = Nil
      /\ UNCHANGED <<process, settings, lock_poisoned, documents>>
  BY DEF UnderstandBody, InStage
<1>2. old \in UploadRecord /\ UploadOK(old) /\ old.kind \in Kinds /\ old.body \in Bodies
  BY <1>1, RequestFacts
<1>3. upload' = [upload EXCEPT ![c] = r]
  BY <1>2 DEF UnderstandBody, UploadInv, UploadRecord
<1>4. d \in Texts \ {Empty} /\ d # Nil
  BY <1>1, <1>2, BodyRefusals, UploadAssumption
<1>5. /\ r \in UploadRecord /\ r.stage = "understood" /\ r.kind = old.kind /\ r.body = old.body
      /\ r.sent_to = old.sent_to /\ r.token = old.token /\ r.code = old.code /\ r.metadata = old.metadata
      /\ r.document = d
  <2> HIDE DEF d
  <2>1. QED
    BY <1>2, <1>4 DEF UploadRecord
<1>6. d = Understood(r.kind, r.body)
  BY <1>5
<1> HIDE DEF r, old, d
<1>7. UploadOK(r)
  BY <1>1, <1>2, <1>4, <1>5, <1>6 DEF UploadOK, MayUpload
<1>8. ProcessOK'
  BY <1>1 DEF UploadInv, ProcessOK
<1>9. QED
  BY <1>1, <1>3, <1>7, <1>8, OneUploadMoves DEF UploadInv

LEMMA RejectDocumentKeepsInv ==
  ASSUME UploadInv, NEW c \in Clients, RejectDocument(c)
  PROVE  UploadInv'
<1> DEFINE r == [upload[c] EXCEPT !.stage = "answered", !.code = "schema_validation_error"]
<1>1. upload[c].stage = "understood" /\ Answers(c, "schema_validation_error")
      /\ UNCHANGED <<process, settings, lock_poisoned, documents>>
  BY DEF RejectDocument, InStage
<1>2. r.code = "schema_validation_error" /\ MayUpload(r) /\ PayloadRefusal(r.body) = Nil
  BY <1>1, RequestFacts DEF UploadRecord, MayUpload
<1> HIDE DEF r
<1>3. JustifiedAnswer(r)
  BY <1>2 DEF JustifiedAnswer, Status
<1>4. QED
  BY <1>1, <1>3, AnswerMoves DEF Codes, r

(* The only step that changes documents and is no restart.                 *)
LEMMA ApplyDocumentKeepsInv ==
  ASSUME UploadInv, NEW c \in Clients, ApplyDocument(c)
  PROVE  UploadInv'
<1> DEFINE old == upload[c]
           m == Updated(c)
           r == [old EXCEPT !.stage = "answered", !.code = "ok", !.metadata = m]
<1>1. /\ old.stage = "understood" /\ m \in Fits /\ documents' = m
      /\ UNCHANGED <<process, settings, lock_poisoned>>
  BY DEF ApplyDocument, InStage
<1>2. /\ old \in UploadRecord /\ UploadOK(old) /\ old.kind \in Kinds /\ old.body \in Bodies /\ MayUpload(old)
      /\ ProcessOK
  BY <1>1, RequestFacts
<1>3. upload' = [upload EXCEPT ![c] = r]
  BY <1>2 DEF ApplyDocument, UploadInv, UploadRecord
<1>4. old.document # Junk
  BY <1>1, <1>2, FittingDocuments
<1>5. Documented(old.kind, old.body)
  BY <1>1, <1>2, <1>4, UnderstoodForms DEF UploadOK
<1> HIDE DEF m
<1>6. /\ r \in UploadRecord /\ r.stage = "answered" /\ r.code = "ok" /\ r.metadata = m
      /\ r.kind = old.kind /\ r.body = old.body /\ r.document = old.document
      /\ r.sent_to = old.sent_to /\ r.token = old.token
  BY <1>1, <1>2 DEF UploadRecord, Codes
<1> HIDE DEF r, old
<1>7. JustifiedAnswer(r)
  <2>1. PayloadRefusal(r.body) = Nil
    BY <1>1, <1>2, <1>6 DEF UploadOK
  <2>2. Status(r.code) = 200
    BY <1>6 DEF Status
  <2>3. QED
    BY <1>2, <1>5, <1>6, <2>1, <2>2 DEF JustifiedAnswer, MayUpload
<1>8. UploadOK(r)
  BY <1>1, <1>2, <1>6, <1>7 DEF UploadOK, Codes
<1>9. ProcessOK'
  BY <1>1, <1>2 DEF ProcessOK
<1>10. QED
  BY <1>1, <1>3, <1>8, <1>9, OneUploadMoves DEF UploadInv

LEMMA FinishKeepsInv ==
  ASSUME UploadInv, NEW c \in Clients, Finish(c)
  PROVE  UploadInv'
<1>1. UploadOK(Idle)
  BY UploadAssumption DEF UploadOK, UploadRecord, Idle, Codes, Texts
<1>2. PICK r : r = Idle /\ UploadOK(r) /\ upload' = [upload EXCEPT ![c] = r]
  BY <1>1 DEF Finish
<1>3. UNCHANGED <<process, settings, lock_poisoned, documents>>
  BY DEF Finish
<1>4. ProcessOK'
  BY <1>3 DEF UploadInv, ProcessOK
<1>5. QED
  BY <1>2, <1>3, <1>4, OneUploadMoves DEF UploadInv

(* A restart changes the process under the requests: those under way are   *)
(* lost, the answers given stay justified.                                 *)
LEMMA RestartKeepsInv ==
  ASSUME UploadInv, Restart
  PROVE  UploadInv'
<1>1. ProcessOK'
  <2>1. process' \in 0 .. MaxRestarts
    BY UploadAssumption DEF UploadInv, ProcessOK, Restart
  <2>2. documents' \in Fits
    BY UploadAssumption DEF Restart, NoDocuments
  <2>3. lock_poisoned' = FALSE /\ settings' = settings
    BY DEF Restart
  <2>4. QED
    BY <2>1, <2>2, <2>3 DEF UploadInv, ProcessOK
<1>2. ASSUME NEW c \in Clients
      PROVE  upload'[c] \in UploadRecord /\ UploadOK(upload[c])'
  <2> DEFINE old == upload[c]
  <2>1. old \in UploadRecord /\ UploadOK(old) /\ settings' = settings
    BY RequestFacts DEF Restart
  <2>2. upload'[c] = IF old.stage \in {"idle", "answered", "lost"} THEN old ELSE [old EXCEPT !.stage = "lost"]
    BY DEF Restart
  <2>3. \A q : JustifiedAnswer(q)' <=> JustifiedAnswer(q)
    BY <2>1 DEF JustifiedAnswer, MayUpload
  <2>4. CASE old.stage \in {"idle", "answered", "lost"}
    <3>1. PICK q : q = old /\ upload'[c] = q
      BY <2>2, <2>4
    <3>2. UploadOK(q)'
      BY <2>1, <2>3, <2>4, <3>1 DEF UploadOK
    <3>3. QED
      BY <2>1, <3>1, <3>2
  <2>5. CASE old.stage \notin {"idle", "answered", "lost"}
    <3>1. PICK r : r = [old EXCEPT !.stage = "lost"] /\ upload'[c] = r
      BY <2>2, <2>5
    <3>2. /\ r \in UploadRecord /\ r.stage = "lost" /\ r.kind = old.kind /\ r.body = old.body
          /\ r.code = old.code /\ r.metadata = old.metadata
      BY <2>1, <3>1 DEF UploadRecord
    <3>3. old.code = Nil /\ old.metadata = Nil /\ old.kind \in Kinds /\ old.body \in Bodies
      BY <2>5, RequestFacts
    <3>4. UploadOK(r)'
      BY <3>2, <3>3, UploadAssumption DEF UploadOK, Codes
    <3>5. QED
      BY <3>1, <3>2, <3>4
  <2>6. QED
    BY <2>4, <2>5
<1>3. upload' \in [Clients -> UploadRecord]
  <2>1. upload' = [c \in Clients |-> upload'[c]]
    BY DEF Restart
  <2>2. QED
    BY <1>2, <2>1
<1>4. QED
  BY <1>1, <1>2, <1>3 DEF UploadInv

LEMMA UploadInitInv == UploadInit => UploadInv
<1> SUFFICES ASSUME UploadInit PROVE UploadInv
  OBVIOUS
<1>1. ProcessOK
  <2>1. process \in 0 .. MaxRestarts
    BY UploadAssumption DEF UploadInit
  <2>2. documents \in Fits
    BY UploadAssumption DEF UploadInit, NoDocuments
  <2>3. QED
    BY <2>1, <2>2 DEF UploadInit, ProcessOK
<1>2. Idle \in UploadRecord /\ UploadOK(Idle)
  BY UploadAssumption DEF UploadOK, UploadRecord, Idle, Codes, Texts
<1>3. upload \in [Clients -> UploadRecord] /\ \A c \in Clients : UploadOK(upload[c])
  BY <1>2 DEF UploadInit
<1>4. QED
  BY <1>1, <1>3 DEF UploadInv

LEMMA UploadNextKeepsInv == UploadInv /\ [UploadNext]_uploadVars => UploadInv'
<1> SUFFICES ASSUME UploadInv, [UploadNext]_uploadVars PROVE UploadInv'
  OBVIOUS
<1>1. CASE PoisonLock \/ UNCHANGED uploadVars
  <2>1. UNCHANGED <<process, settings, documents, upload>> /\ lock_poisoned' \in {TRUE, lock_poisoned}
    BY <1>1 DEF PoisonLock, uploadVars
  <2>2. ProcessOK'
    BY <2>1 DEF UploadInv, ProcessOK
  <2>3. \A q : UploadOK(q)' <=> UploadOK(q)
    BY <2>1 DEF UploadOK, MayUpload, JustifiedAnswer
  <2>4. QED
    BY <2>1, <2>2, <2>3 DEF UploadInv
<1>2. CASE Restart
  BY <1>2, RestartKeepsInv
<1>3. ASSUME NEW c \in Clients, NEW kind \in Kinds, NEW token \in 0 .. process \cup {Nil},
             NEW body \in Bodies, Send(c, kind, token, body)
      PROVE  UploadInv'
  BY <1>3, SendKeepsInv
<1>4. ASSUME NEW c \in Clients,
             \/ RefuseToExtract(c) \/ ExtractBody(c)
             \/ FindPoisoned(c) \/ RefuseUpload(c) \/ PassCheck(c) \/ RefuseBody(c)
             \/ UnderstandBody(c) \/ RejectDocument(c) \/ ApplyDocument(c) \/ Finish(c)
      PROVE  UploadInv'
  BY <1>4, RefuseToExtractKeepsInv, ExtractBodyKeepsInv, FindPoisonedKeepsInv, RefuseUploadKeepsInv, PassCheckKeepsInv, RefuseBodyKeepsInv,
     UnderstandBodyKeepsInv, RejectDocumentKeepsInv, ApplyDocumentKeepsInv, FinishKeepsInv
<1>5. QED
  BY <1>1, <1>2, <1>3, <1>4 DEF UploadNext

(* Every reachable state satisfies the invariant, for any number of        *)
(* clients, bodies, documents and restarts: a request under way belongs to *)
(* the process that checked it, and an answer given is justified.          *)
THEOREM UploadsInvariance == UploadSpec => []UploadInv
<1>1. QED
  BY UploadInitInv, UploadNextKeepsInv, PTL DEF UploadSpec

(* Whatever upload_policies and upload_schema are sent, the store holds    *)
(* documents that fit, and only an applied upload carries metadata.        *)
THEOREM UploadTypeCorrectness == UploadSpec => []UploadTypeOK
<1>1. UploadInv => UploadTypeOK
  <2> SUFFICES ASSUME UploadInv PROVE UploadTypeOK
    OBVIOUS
  <2>1. \A c \in Clients : upload[c] \in UploadRecord /\ UploadOK(upload[c])
    BY DEF UploadInv
  <2>2. \A c \in Clients : /\ upload[c].stage \in {"idle", "sent", "received", "checked", "understood", "answered", "lost"}
                           /\ upload[c].document \in (Texts \cup {Nil}) \ {Empty}
    BY <2>1 DEF UploadRecord
  <2>3. QED
    BY <2>1, <2>2 DEF UploadInv, ProcessOK, UploadOK, UploadTypeOK, InStage
<1>2. QED
  BY <1>1, UploadsInvariance, PTL

(* Each answer of the two handlers, for any interleaving of uploads,       *)
(* panics and restarts: a body that does not arrive is answered as that by *)
(* the extractor, alike for all clients; of those that arrive, what comes  *)
(* without permission is refused for that alone, nothing else is refused   *)
(* for want of permission, and only undocumented or missing text is        *)
(* refused for its form.                                                   *)
THEOREM JustifiedAnswers == UploadSpec => []AnswersAreJustified
<1>1. UploadInv => AnswersAreJustified
  <2> SUFFICES ASSUME UploadInv PROVE AnswersAreJustified
    OBVIOUS
  <2>1. \A c \in Clients : upload[c].stage = "answered" => JustifiedAnswer(upload[c])
    BY DEF UploadInv, UploadOK
  <2>2. RefusalsAreAlike
    BY <2>1 DEF RefusalsAreAlike, JustifiedAnswer, InStage
  <2>3. RefusalsAreDeserved
    BY <2>1 DEF RefusalsAreDeserved, JustifiedAnswer, InStage
  <2>4. DocumentedFormsAreUnderstood
    BY <2>1 DEF DocumentedFormsAreUnderstood, JustifiedAnswer, InStage
  <2>5. QED
    BY <2>2, <2>3, <2>4 DEF AnswersAreJustified
<1>2. QED
  BY <1>1, UploadsInvariance, PTL

(* In a step that is no restart, only an upload changes the documents that *)
(* shows the token of this very process, to a server that allows uploads,  *)
(* follows no bundle and whose lock is not poisoned: the second            *)
(* check_upload_auth, under the write lock, is the one that counts.        *)
THEOREM PermittedUploads == UploadSpec => UploadsArePermitted
<1> DEFINE Permitted ==
      documents' # documents =>
        \/ process' # process
        \/ /\ settings.allow_upload /\ ~settings.bundle_url_mode /\ ~lock_poisoned
           /\ \E c \in Clients :
                InStage(c, "understood") /\ upload[c].token = process /\ upload'[c].code = "ok"
<1>1. ASSUME UploadInv, [UploadNext]_uploadVars
      PROVE  Permitted \/ UNCHANGED uploadVars
  <2>1. CASE Restart
    <3>1. process \in Nat /\ process' = process + 1
      BY <1>1, <2>1, UploadAssumption DEF Restart, UploadInv, ProcessOK
    <3>2. QED
      BY <3>1
  <2>2. ASSUME NEW c \in Clients, ApplyDocument(c)
        PROVE  Permitted
    <3>1. Refusal(upload[c]) = Nil /\ InStage(c, "understood") /\ ~lock_poisoned
      BY <2>2 DEF ApplyDocument
    <3>2. settings.allow_upload /\ upload[c].token = process /\ ~settings.bundle_url_mode
      BY <3>1, Refusals
    <3>3. upload'[c].code = "ok"
      <4> DEFINE m == Updated(c)
      <4>1. /\ upload' = [upload EXCEPT ![c].stage = "answered", ![c].code = "ok", ![c].metadata = m]
            /\ upload \in [Clients -> UploadRecord]
        BY <1>1, <2>2 DEF ApplyDocument, UploadInv
      <4> HIDE DEF m
      <4>2. QED
        BY <4>1 DEF UploadRecord
    <3>4. QED
      BY <3>1, <3>2, <3>3
  <2>3. ASSUME NEW c \in Clients,
               \/ \E kind \in Kinds, token \in 0 .. process \cup {Nil}, body \in Bodies : Send(c, kind, token, body)
               \/ RefuseToExtract(c) \/ ExtractBody(c)
               \/ FindPoisoned(c) \/ RefuseUpload(c) \/ PassCheck(c) \/ RefuseBody(c)
               \/ UnderstandBody(c) \/ RejectDocument(c) \/ Finish(c)
        PROVE  documents' = documents
    BY <2>3 DEF Send, RefuseToExtract, ExtractBody, FindPoisoned, RefuseUpload, PassCheck, RefuseBody, UnderstandBody, RejectDocument, Finish
  <2>4. CASE PoisonLock
    BY <2>4 DEF PoisonLock
  <2>5. QED
    BY <1>1, <2>1, <2>2, <2>3, <2>4 DEF UploadNext
<1>2. QED
  BY <1>1, UploadsInvariance, PTL DEF UploadSpec, UploadsArePermitted

=============================================================================
