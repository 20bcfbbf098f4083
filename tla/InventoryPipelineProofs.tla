------------------------ MODULE InventoryPipelineProofs ------------------------
(* Proofs about InventoryPipeline for any number of reports, parts, crashes  *)
(* and administrators' decisions: what the comparison of two inventories     *)
(* yields, then the inductive invariant IndInv, one step per action.         *)
EXTENDS InventoryPipeline, TLAPS
-----------------------------------------------------------------------------
LEMMA InventoryParts ==
    ASSUME NEW c \in Inventories
    PROVE  c.parts \in SUBSET Parts
BY PipelineAssumption DEF Inventory

LEMMA NothingIsNoPart == Nothing \notin Parts
BY PipelineAssumption

(* What is kept of an inventory: of the parts of one key, one.               *)
LEMMA KeptParts ==
    ASSUME NEW some, NEW kept \in Keeps(some)
    PROVE  /\ kept \subseteq some
           /\ \A p, q \in kept : p = q \/ ~Same(p, q)
           /\ \A p \in some : p \in kept \/ \E q \in kept : Same(p, q)
BY DEF Keeps, OnePerKey

(* What pairs are made: of a part that went and one that came, one partner   *)
(* for each.                                                                 *)
LEMMA ReplacedMatches ==
    ASSUME NEW gone, NEW come, NEW inSlot \in SlotPairings(gone, come)
    PROVE  /\ Replaced(gone, come, inSlot) \subseteq gone \X come
           /\ \A v, w \in Replaced(gone, come, inSlot) : v[1] = w[1] <=> v[2] = w[2]
<1> DEFINE oldLeft == gone \ {w[1] : w \in inSlot}
           newLeft == come \ {w[2] : w \in inSlot}
           rest == {w \in (oldLeft \cap Sure) \X (newLeft \cap Sure) :
                      oldLeft = {w[1]} /\ newLeft = {w[2]}}
<1>1. Replaced(gone, come, inSlot) = inSlot \cup rest
  BY DEF Replaced
<1>2. inSlot \subseteq gone \X come /\ \A v, w \in inSlot : v[1] = w[1] <=> v[2] = w[2]
  BY DEF SlotPairings
<1>3. \A w \in rest : w[1] \in oldLeft /\ w[2] \in newLeft /\ oldLeft = {w[1]} /\ newLeft = {w[2]}
  OBVIOUS
<1>4. rest \subseteq gone \X come
  OBVIOUS
<1>5. \A v, w \in rest : v[1] = w[1] /\ v[2] = w[2]
  BY <1>3
<1>6. \A v \in inSlot, w \in rest : v[1] # w[1] /\ v[2] # w[2]
  <2> SUFFICES ASSUME NEW v \in inSlot, NEW w \in rest PROVE v[1] # w[1] /\ v[2] # w[2]
    OBVIOUS
  <2>1. v[1] \in {x[1] : x \in inSlot} /\ v[2] \in {x[2] : x \in inSlot}
    OBVIOUS
  <2>2. w[1] \notin {x[1] : x \in inSlot} /\ w[2] \notin {x[2] : x \in inSlot}
    BY <1>3
  <2> QED BY <2>1, <2>2
<1>7. ASSUME NEW v \in inSlot \cup rest, NEW w \in inSlot \cup rest
      PROVE  v[1] = w[1] <=> v[2] = w[2]
  <2> HIDE DEF rest
  <2>1. CASE v \in inSlot /\ w \in inSlot  BY <2>1, <1>2
  <2>2. CASE v \in rest /\ w \in rest  BY <2>2, <1>5
  <2>3. CASE v \in inSlot /\ w \in rest  BY <2>3, <1>6
  <2>4. CASE v \in rest /\ w \in inSlot  BY <2>4, <1>6
  <2> QED BY <2>1, <2>2, <2>3, <2>4
<1> HIDE DEF rest
<1> QED BY <1>1, <1>2, <1>4, <1>7

(* The four kinds of difference of _compare_category, with the parts they    *)
(* are about.                                                                *)
LEMMA ComparedKinds ==
    ASSUME NEW old, NEW new,
           NEW inSlot \in SlotPairings(Unmatched(old, new), Unmatched(new, old)),
           NEW d \in Compared(old, new, inSlot)
    PROVE  LET gone  == Unmatched(old, new)
               come  == Unmatched(new, old)
               pairs == Replaced(gone, come, inSlot)
           IN  \/ /\ d.kind = "CHANGED" /\ d.was \in old /\ d.now \in new
                  /\ Same(d.was, d.now) /\ d.was # d.now
               \/ /\ d.kind = "REPLACED" /\ d.was \in gone /\ d.now \in come
                  /\ <<d.was, d.now>> \in pairs
               \/ /\ d.kind = "REMOVED" /\ d.was \in gone /\ d.now = Nothing
                  /\ \A w \in pairs : w[1] # d.was
               \/ /\ d.kind = "ADDED" /\ d.now \in come /\ d.was = Nothing
                  /\ \A w \in pairs : w[2] # d.now
<1> DEFINE gone  == Unmatched(old, new)
           come  == Unmatched(new, old)
           pairs == Replaced(gone, come, inSlot)
<1>2. pairs \subseteq gone \X come
  BY ReplacedMatches
<1>3. d \in {[kind |-> "CHANGED", was |-> w[1], now |-> w[2]] :
                w \in {v \in old \X new : Same(v[1], v[2]) /\ v[1] # v[2]}}
           \cup {[kind |-> "REPLACED", was |-> w[1], now |-> w[2]] : w \in pairs}
           \cup {[kind |-> "REMOVED", was |-> p, now |-> Nothing] :
                    p \in gone \ {w[1] : w \in pairs}}
           \cup {[kind |-> "ADDED", was |-> Nothing, now |-> p] :
                    p \in come \ {w[2] : w \in pairs}}
  BY DEF Compared
<1> HIDE DEF gone, come, pairs
<1>4. CASE d \in {[kind |-> "CHANGED", was |-> w[1], now |-> w[2]] :
                w \in {v \in old \X new : Same(v[1], v[2]) /\ v[1] # v[2]}}
  BY <1>4
<1>5. CASE d \in {[kind |-> "REPLACED", was |-> w[1], now |-> w[2]] : w \in pairs}
  <2>1. PICK w \in pairs : d = [kind |-> "REPLACED", was |-> w[1], now |-> w[2]]
    BY <1>5
  <2>2. w \in gone \X come
    BY <1>2
  <2>3. w = <<w[1], w[2]>> /\ w[1] \in gone /\ w[2] \in come
    BY <2>2
  <2> QED BY <2>1, <2>3 DEF gone, come, pairs
<1>6. CASE d \in {[kind |-> "REMOVED", was |-> p, now |-> Nothing] :
                    p \in gone \ {w[1] : w \in pairs}}
  BY <1>6 DEF gone, come, pairs
<1>7. CASE d \in {[kind |-> "ADDED", was |-> Nothing, now |-> p] :
                    p \in come \ {w[2] : w \in pairs}}
  BY <1>7 DEF gone, come, pairs
<1> QED BY <1>3, <1>4, <1>5, <1>6, <1>7

(* A result of the comparison is one of the parts kept, in some pairing.     *)
LEMMA ComparisonKeeps ==
    ASSUME NEW before, NEW after, NEW found \in Comparisons(before, after)
    PROVE  \E old \in Keeps(before), new \in Keeps(after) :
             \E inSlot \in SlotPairings(Unmatched(old, new), Unmatched(new, old)) :
                found = Compared(old, new, inSlot)
BY DEF Comparisons

LEMMA ComparedType ==
    ASSUME NEW before \in SUBSET Parts, NEW after \in SUBSET Parts,
           NEW found \in Comparisons(before, after)
    PROVE  found \subseteq Difference
<1>1. PICK old \in Keeps(before), new \in Keeps(after) :
             \E inSlot \in SlotPairings(Unmatched(old, new), Unmatched(new, old)) :
                found = Compared(old, new, inSlot)
  BY ComparisonKeeps
<1>2. PICK inSlot \in SlotPairings(Unmatched(old, new), Unmatched(new, old)) :
             found = Compared(old, new, inSlot)
  BY <1>1
<1>3. old \subseteq Parts /\ new \subseteq Parts
  BY KeptParts
<1> DEFINE gone  == Unmatched(old, new)
           come  == Unmatched(new, old)
           pairs == Replaced(gone, come, inSlot)
<1>4. gone \subseteq Parts /\ come \subseteq Parts
  BY <1>3 DEF Unmatched
<1>5. pairs \subseteq gone \X come
  BY ReplacedMatches
<1>6. \A p \in Parts \cup {Nothing} : p \in Thing
  BY DEF Thing
<1> HIDE DEF gone, come, pairs
<1>7. \A w \in pairs : w[1] \in Thing /\ w[2] \in Thing
  BY <1>4, <1>5, <1>6
<1>8. \A p \in gone \cup come : p \in Thing
  BY <1>4, <1>6
<1>9. \A w \in old \X new : w[1] \in Thing /\ w[2] \in Thing
  BY <1>3, <1>6
<1>10. Compared(old, new, inSlot) \subseteq Difference
  BY <1>6, <1>7, <1>8, <1>9 DEF Compared, Difference, gone, come, pairs
<1> QED BY <1>2, <1>10

(* A part named by a difference is where it is said to be, and missing in    *)
(* the other inventory unless nothing is known about it or a twin of it is   *)
(* there.                                                                    *)
LEMMA ComparedSound ==
    ASSUME NEW before \in SUBSET Parts, NEW after \in SUBSET Parts,
           NEW found \in Comparisons(before, after), NEW d \in found
    PROVE  /\ d.kind \in {"CHANGED", "REPLACED", "REMOVED", "ADDED"}
           /\ d.was # Nothing =>
                 /\ d.was \in before
                 /\ d.was \in after => KeyOf[d.was] = Nothing \/ d.was \in Twins(after)
           /\ d.now # Nothing =>
                 /\ d.now \in after
                 /\ d.now \in before => KeyOf[d.now] = Nothing \/ d.now \in Twins(before)
<1>1. PICK old \in Keeps(before), new \in Keeps(after) :
             \E inSlot \in SlotPairings(Unmatched(old, new), Unmatched(new, old)) :
                found = Compared(old, new, inSlot)
  BY ComparisonKeeps
<1>2. PICK inSlot \in SlotPairings(Unmatched(old, new), Unmatched(new, old)) :
             found = Compared(old, new, inSlot)
  BY <1>1
<1> DEFINE gone  == Unmatched(old, new)
           come  == Unmatched(new, old)
<1>3. d \in Compared(old, new, inSlot)
  BY <1>2
<1>4. \/ /\ d.kind = "CHANGED" /\ d.was \in old /\ d.now \in new
         /\ Same(d.was, d.now) /\ d.was # d.now
      \/ /\ d.kind \in {"REPLACED", "REMOVED", "ADDED"}
         /\ d.was = Nothing \/ d.was \in gone
         /\ d.now = Nothing \/ d.now \in come
  BY <1>3, ComparedKinds
<1>5. /\ old \subseteq before /\ \A p \in before : p \in old \/ \E q \in old : Same(p, q)
      /\ new \subseteq after /\ \A p \in after : p \in new \/ \E q \in new : Same(p, q)
  BY KeptParts
<1>6. CASE /\ d.kind = "CHANGED" /\ d.was \in old /\ d.now \in new
           /\ Same(d.was, d.now) /\ d.was # d.now
  BY <1>5, <1>6 DEF Twins, Same
<1>7. CASE /\ d.kind \in {"REPLACED", "REMOVED", "ADDED"}
           /\ d.was = Nothing \/ d.was \in gone
           /\ d.now = Nothing \/ d.now \in come
  <2>1. /\ \A p \in gone : p \in old /\ \A q \in new : ~Same(p, q)
        /\ \A p \in come : p \in new /\ \A q \in old : ~Same(p, q)
    BY DEF Unmatched
  <2>2. \A p \in gone : p \in before /\ (p \in after => KeyOf[p] = Nothing)
    BY <1>5, <2>1 DEF Same
  <2>3. \A p \in come : p \in after /\ (p \in before => KeyOf[p] = Nothing)
    BY <1>5, <2>1 DEF Same
  <2> HIDE DEF gone, come
  <2> QED BY <1>7, <2>2, <2>3
<1> QED BY <1>4, <1>6, <1>7

(* A comparison explains a part in one difference only.                      *)
LEMMA ComparedOnce ==
    ASSUME NEW before \in SUBSET Parts, NEW after \in SUBSET Parts,
           NEW found \in Comparisons(before, after),
           NEW d \in found, NEW f \in found, d # f
    PROVE  /\ d.was = f.was => d.was = Nothing
           /\ d.now = f.now => d.now = Nothing
<1>a. PICK old \in Keeps(before), new \in Keeps(after) :
             \E inSlot \in SlotPairings(Unmatched(old, new), Unmatched(new, old)) :
                found = Compared(old, new, inSlot)
  BY ComparisonKeeps
<1>b. PICK inSlot \in SlotPairings(Unmatched(old, new), Unmatched(new, old)) :
             found = Compared(old, new, inSlot)
  BY <1>a
<1> DEFINE gone  == Unmatched(old, new)
           come  == Unmatched(new, old)
           pairs == Replaced(gone, come, inSlot)
           Kinds(x) ==
               \/ /\ x.kind = "CHANGED" /\ x.was \in old /\ x.now \in new
                  /\ Same(x.was, x.now) /\ x.was # x.now
               \/ /\ x.kind = "REPLACED" /\ x.was \in gone /\ x.now \in come
                  /\ <<x.was, x.now>> \in pairs
               \/ /\ x.kind = "REMOVED" /\ x.was \in gone /\ x.now = Nothing
                  /\ \A w \in pairs : w[1] # x.was
               \/ /\ x.kind = "ADDED" /\ x.now \in come /\ x.was = Nothing
                  /\ \A w \in pairs : w[2] # x.now
<1>1. Kinds(d) /\ Kinds(f)
  BY <1>b, ComparedKinds
<1>2. gone \subseteq old /\ come \subseteq new
  BY DEF Unmatched
<1>3. \A p \in gone : \A q \in new : ~Same(p, q)
  BY DEF Unmatched
<1>4. \A p \in come : \A q \in old : ~Same(q, p)
  BY DEF Unmatched, Same
<1>5. \A v, w \in pairs : v[1] = w[1] <=> v[2] = w[2]
  BY ReplacedMatches
<1>6. d \in Difference /\ f \in Difference
  BY ComparedType
<1>c. /\ old \subseteq Parts /\ new \subseteq Parts
      /\ \A p, q \in old : p = q \/ ~Same(p, q)
      /\ \A p, q \in new : p = q \/ ~Same(p, q)
  BY KeptParts
<1>7. Nothing \notin old /\ Nothing \notin new
  BY <1>c, NothingIsNoPart
<1>8. \A p, q \in old, s \in new : Same(p, s) /\ Same(q, s) => p = q
  BY <1>c DEF Same
<1>9. \A p, q \in new, s \in old : Same(s, p) /\ Same(s, q) => p = q
  BY <1>c DEF Same
<1> HIDE DEF gone, come, pairs
<1>10. d.kind # f.kind \/ d.was # f.was \/ d.now # f.now
  BY <1>6 DEF Difference
<1>11. \A p, q : <<p, q>> \in pairs => <<p, q>>[1] = p /\ <<p, q>>[2] = q
  OBVIOUS
<1>12. d.was = f.was => d.was = Nothing
  BY <1>1, <1>2, <1>3, <1>4, <1>5, <1>7, <1>9, <1>10, <1>11
<1>13. d.now = f.now => d.now = Nothing
  BY <1>1, <1>2, <1>3, <1>4, <1>5, <1>7, <1>8, <1>10, <1>11
<1> QED BY <1>12, <1>13

(* Every part kept of one inventory is matched by one of its key, or named.  *)
LEMMA KeptNamed ==
    ASSUME NEW old, NEW new,
           NEW inSlot \in SlotPairings(Unmatched(old, new), Unmatched(new, old))
    PROVE  /\ \A p \in old : \/ p \in new
                             \/ \E d \in Compared(old, new, inSlot) : d.was = p
           /\ \A p \in new : \/ p \in old
                             \/ \E d \in Compared(old, new, inSlot) : d.now = p
<1> DEFINE gone  == Unmatched(old, new)
           come  == Unmatched(new, old)
           pairs == Replaced(gone, come, inSlot)
           D == Compared(old, new, inSlot)
<1>1. \A p \in old, q \in new :
         Same(p, q) /\ p # q => [kind |-> "CHANGED", was |-> p, now |-> q] \in D
  <2> TAKE p \in old, q \in new
  <2> HAVE Same(p, q) /\ p # q
  <2> DEFINE changed == {v \in old \X new : Same(v[1], v[2]) /\ v[1] # v[2]}
  <2>1. <<p, q>> \in changed /\ <<p, q>>[1] = p /\ <<p, q>>[2] = q
    OBVIOUS
  <2>2. {[kind |-> "CHANGED", was |-> v[1], now |-> v[2]] : v \in changed} \subseteq D
    BY DEF Compared
  <2> HIDE DEF changed, D
  <2> QED BY <2>1, <2>2
<1>2. \A w \in pairs : [kind |-> "REPLACED", was |-> w[1], now |-> w[2]] \in D
  BY DEF Compared
<1>3. \A p \in gone : (\A w \in pairs : w[1] # p)
                        => [kind |-> "REMOVED", was |-> p, now |-> Nothing] \in D
  BY DEF Compared
<1>4. \A p \in come : (\A w \in pairs : w[2] # p)
                        => [kind |-> "ADDED", was |-> Nothing, now |-> p] \in D
  BY DEF Compared
<1>5. \A p \in old : p \in gone \/ \E q \in new : Same(p, q)
  BY DEF Unmatched
<1>6. \A p \in new : p \in come \/ \E q \in old : Same(q, p)
  BY DEF Unmatched, Same
<1> HIDE DEF gone, come, pairs, D
<1>7. \A p \in old : p \in new \/ \E d \in D : d.was = p
  <2> TAKE p \in old
  <2>1. CASE \E q \in new : Same(p, q)
    BY <2>1, <1>1
  <2>2. CASE p \in gone /\ \E w \in pairs : w[1] = p
    BY <2>2, <1>2
  <2>3. CASE p \in gone /\ \A w \in pairs : w[1] # p
    BY <2>3, <1>3
  <2> QED BY <2>1, <2>2, <2>3, <1>5
<1>8. \A p \in new : p \in old \/ \E d \in D : d.now = p
  <2> TAKE p \in new
  <2>1. CASE \E q \in old : Same(q, p)
    BY <2>1, <1>1
  <2>2. CASE p \in come /\ \E w \in pairs : w[2] = p
    BY <2>2, <1>2
  <2>3. CASE p \in come /\ \A w \in pairs : w[2] # p
    BY <2>3, <1>4
  <2> QED BY <2>1, <2>2, <2>3, <1>6
<1> QED BY <1>7, <1>8 DEF D

(* No part that went and none that came is left out, but for twins: a part   *)
(* that is not kept is represented by the one of its key that is.            *)
LEMMA ComparedComplete ==
    ASSUME NEW before, NEW after, NEW found \in Comparisons(before, after),
           NEW was, \A d \in found : d.was \in was,
           NEW now, \A d \in found : d.now \in now
    PROVE  /\ \A p \in before \ after : Told(p, before, after, was)
           /\ \A p \in after \ before : Told(p, after, before, now)
<1>1. PICK old \in Keeps(before), new \in Keeps(after) :
             \E inSlot \in SlotPairings(Unmatched(old, new), Unmatched(new, old)) :
                found = Compared(old, new, inSlot)
  BY ComparisonKeeps
<1>2. PICK inSlot \in SlotPairings(Unmatched(old, new), Unmatched(new, old)) :
             found = Compared(old, new, inSlot)
  BY <1>1
<1>3. /\ old \subseteq before /\ \A p \in before : p \in old \/ \E q \in old : Same(p, q)
      /\ new \subseteq after /\ \A p \in after : p \in new \/ \E q \in new : Same(p, q)
  BY KeptParts
<1>4. /\ \A p \in old : p \in new \/ \E d \in found : d.was = p
      /\ \A p \in new : p \in old \/ \E d \in found : d.now = p
  BY <1>2, KeptNamed
<1>5. /\ \A p \in old : p \in after \/ p \in was
      /\ \A p \in new : p \in before \/ p \in now
  BY <1>3, <1>4
<1>6. \A p \in before \ after : Told(p, before, after, was)
  BY <1>3, <1>5 DEF Told
<1>7. \A p \in after \ before : Told(p, after, before, now)
  BY <1>3, <1>5 DEF Told
<1> QED BY <1>6, <1>7
-----------------------------------------------------------------------------
(* What the comparison of a report with one baseline writes.                 *)
Detected(b, found) ==
    LET new == NewEvents(b, h.report, found, h.noticed) IN
    /\ events' = events \cup new
    /\ h' = [h EXCEPT !.at = "incidents", !.created = new]
    /\ comparedTo' = [comparedTo EXCEPT ![h.report] = @ \cup {b}]

LEMMA DetectedChanges ==
    ASSUME DetectChanges
    PROVE  \E b \in h.base : \E found \in PartDifferences(b, h.report) : Detected(b, found)
BY DEF DetectChanges, Detected

(* How the steps of a handler change its request.                            *)
LEMMA RequestFields ==
    ASSUME NEW g \in Request
    PROVE  /\ g.noticed \in SUBSET Difference
           /\ g.base \in SUBSET Reports
           /\ g.created \in SUBSET Event
BY DEF Request

LEMMA RequestSteps ==
    /\ Idle \in Request
    /\ \A r \in Reports, again, before \in BOOLEAN :
          [Idle EXCEPT !.at = "normalize", !.report = r, !.duplicate = again,
                       !.processed = before] \in Request
    /\ \A r \in Reports :
          [Idle EXCEPT !.at = "normalize", !.report = r] \in Request
    /\ \A g \in Request, point \in {"compare", "incidents"} :
          [g EXCEPT !.at = point] \in Request
    /\ \A g \in Request, some \in SUBSET Difference :
          [g EXCEPT !.at = "compare", !.noticed = some] \in Request
    /\ \A g \in Request, some \in SUBSET Reports :
          [g EXCEPT !.at = "detect", !.base = some] \in Request
    /\ \A g \in Request, some \in SUBSET Event :
          [g EXCEPT !.at = "incidents", !.created = some] \in Request
<1>1. \A r \in Reports : r \in 0..MaxReports
  BY PipelineAssumption DEF Reports
<1>2. 0 \in 0..MaxReports
  BY PipelineAssumption
<1>3. Idle \in Request
  BY <1>2 DEF Request, Idle
<1>4. \A r \in Reports, again, before \in BOOLEAN :
          [Idle EXCEPT !.at = "normalize", !.report = r, !.duplicate = again,
                       !.processed = before] \in Request
  BY <1>1 DEF Request, Idle
<1>5. \A r \in Reports :
          [Idle EXCEPT !.at = "normalize", !.report = r] \in Request
  BY <1>1 DEF Request, Idle
<1>6. \A g \in Request, point \in {"compare", "incidents"} :
          [g EXCEPT !.at = point] \in Request
  BY DEF Request
<1>7. \A g \in Request, some \in SUBSET Difference :
          [g EXCEPT !.at = "compare", !.noticed = some] \in Request
  BY DEF Request
<1>8. \A g \in Request, some \in SUBSET Reports :
          [g EXCEPT !.at = "detect", !.base = some] \in Request
  BY DEF Request
<1>9. \A g \in Request, some \in SUBSET Event :
          [g EXCEPT !.at = "incidents", !.created = some] \in Request
  BY DEF Request
<1> QED BY <1>3, <1>4, <1>5, <1>6, <1>7, <1>8, <1>9

LEMMA InitInd == Init => IndInv
<1> SUFFICES ASSUME Init PROVE IndInv
  OBVIOUS
<1>1. TypeOK
  <2>1. h \in Request
    BY RequestSteps DEF Init
  <2> QED BY <2>1, PipelineAssumption DEF Init, TypeOK, RawStatus
<1>2. EvidenceStored /\ HandlerKnows /\ AnsweredMeansProcessed
  BY DEF Init, EvidenceStored, HandlerKnows, AnsweredMeansProcessed, Processed, Idle
<1>3. EventsExplained /\ ComparisonsRecorded /\ EventsReachReview
  BY DEF Init, EventsExplained, ComparisonsRecorded, EventsReachReview, Idle
<1> QED BY <1>1, <1>2, <1>3 DEF IndInv

(* Evidence that was processed is compared by its well-formed contents.      *)
LEMMA ProcessedContent ==
    ASSUME IndInv, NEW r \in Processed
    PROVE  /\ r \in Reports
           /\ payload[r] \in Inventories
           /\ payload[r].host \in Hosts
           /\ payload[r].serial \in Serials
           /\ payload[r].parts \in SUBSET Parts
<1>1. r \in Reports /\ payload[r] \in Inventories
  BY DEF IndInv, EvidenceStored, Processed
<1>2. payload[r] \in Inventory
  BY <1>1, PipelineAssumption
<1> QED BY <1>1, <1>2, InventoryParts DEF Inventory

LEMMA PartDifferencesType ==
    ASSUME IndInv, NEW b \in Processed, NEW r \in Processed,
           NEW found \in PartDifferences(b, r)
    PROVE  found \subseteq Difference
BY ProcessedContent, ComparedType DEF PartDifferences

(* What the normalization may notice about the computer itself.              *)
LEMMA NoticedKinds ==
    ASSUME IndInv, NEW name \in Hosts, NEW serial \in Serials,
           NEW d \in Noticed(name, serial)
    PROVE  /\ d \in Difference
           /\ d.was # d.now
           /\ \/ d.kind = "HOSTNAME_CHANGED" /\ d.was \in Hosts /\ d.now = name
              \/ /\ d.kind = "DEVICE_IDENTITY_CHANGED"
                 /\ d.was \in Serials /\ d.now = serial
<1> USE DEF Difference, Thing
<1>1. hostname \in Hosts \cup {Nothing}
  BY DEF IndInv, TypeOK
<1>2. CASE d \in {[kind |-> "HOSTNAME_CHANGED", was |-> n, now |-> name] :
                     n \in {hostname} \ {Nothing, name}}
  BY <1>1, <1>2
<1>3. CASE d \in {[kind |-> "DEVICE_IDENTITY_CHANGED", was |-> s, now |-> serial] :
                     s \in {t \in Serials : /\ identifier[serial] = "none"
                                             /\ identifier[t] = "active"}}
  BY <1>3
<1> QED BY <1>2, <1>3 DEF Noticed

LEMMA NewEventsType ==
    ASSUME IndInv, h.at = "detect", NEW b \in h.base,
           NEW found \in PartDifferences(b, h.report)
    PROVE  NewEvents(b, h.report, found, h.noticed) \subseteq Event
<1>1. b \in Processed /\ h.report \in Processed /\ h.noticed \subseteq Difference
  BY RequestFields DEF IndInv, HandlerKnows, TypeOK
<1>2. found \cup h.noticed \subseteq Difference
  BY <1>1, PartDifferencesType
<1>3. b \in Reports /\ h.report \in Reports
  BY <1>1 DEF Processed
<1> QED BY <1>2, <1>3 DEF NewEvents, Event

LEMMA TypeStep == IndInv /\ [Next]_vars => TypeOK'
<1> SUFFICES ASSUME IndInv, [Next]_vars PROVE TypeOK'
  OBVIOUS
<1> USE PipelineAssumption DEF domain, review, admin, sender, RawStatus
<1>a. TypeOK /\ HandlerKnows
  BY DEF IndInv
<1>b. h.at # "idle" => h.report \in Reports
  BY <1>a DEF HandlerKnows
<1>1. ASSUME NEW r \in Reports, IngestNew(r) PROVE TypeOK'
  <2>1. h' \in Request
    BY <1>1, RequestSteps DEF IngestNew
  <2> QED BY <1>a, <1>1, <2>1 DEF TypeOK, IngestNew
<1>2. ASSUME NEW r \in Reports, IngestDuplicate(r) PROVE TypeOK'
  BY <1>a, <1>2, RequestSteps DEF TypeOK, IngestDuplicate, WasProcessed
<1>3. ASSUME NEW r \in Reports, BridgeDuplicate(r) PROVE TypeOK'
  BY <1>a, <1>3, RequestSteps DEF TypeOK, BridgeDuplicate, Reply
<1>4. ASSUME NEW r \in Reports, AcceptBaseline(r) PROVE TypeOK'
  BY <1>a, <1>4 DEF TypeOK, AcceptBaseline
<1>5. CASE ScopeRefused
  BY <1>a, <1>b, <1>5, RequestSteps DEF TypeOK, ScopeRefused
<1>6. CASE NormalizeExisting
  <2>1. h \in Request
    BY <1>a DEF TypeOK
  <2>2. CASE h.processed
    <3>1. Reply(h.report) /\ h.report \in Reports
      BY <1>6, <1>b, <2>2 DEF NormalizeExisting
    <3>2. h' \in Request
      BY <3>1, RequestSteps DEF Reply
    <3> QED BY <1>a, <1>6, <3>1, <3>2 DEF TypeOK, NormalizeExisting, Reply
  <2>3. CASE ~ h.processed
    <3>1. h' = [h EXCEPT !.at = "compare"] /\ UNCHANGED sender
      BY <1>6, <2>3 DEF NormalizeExisting
    <3>2. h' \in Request
      BY <2>1, <3>1, RequestSteps
    <3> QED BY <1>a, <1>6, <3>1, <3>2 DEF TypeOK, NormalizeExisting
  <2> QED BY <2>2, <2>3
<1>7. CASE NormalizeInvalid
  BY <1>a, <1>b, <1>7, RequestSteps DEF TypeOK, NormalizeInvalid
<1>8. CASE Normalize
  <2> DEFINE name   == payload[h.report].host
             serial == payload[h.report].serial
  <2>1. name \in Hosts /\ serial \in Serials
    <3>1. payload[h.report] \in Inventories
      BY <1>a, <1>8 DEF Normalize, HandlerKnows, IndInv, EvidenceStored, Content
    <3> QED BY <3>1 DEF Inventory
  <2>2. Noticed(name, serial) \subseteq Difference
    BY <2>1, NoticedKinds
  <2>3. /\ hostname' = name
        /\ identifier' = [s \in Serials |->
                IF s = serial THEN "active"
                ELSE IF identifier[serial] = "none" /\ identifier[s] = "active"
                       THEN "retired" ELSE identifier[s]]
        /\ h' = [h EXCEPT !.at = "compare", !.noticed = Noticed(name, serial)]
        /\ raw' = [raw EXCEPT ![h.report] = "PROCESSED"]
        /\ UNCHANGED <<payload, review, admin, sender, comparedTo, crashes>>
    BY <1>8 DEF Normalize
  <2> HIDE DEF name, serial
  <2>4. identifier' \in [Serials -> {"none", "active", "retired"}]
    BY <1>a, <2>3 DEF TypeOK
  <2> QED BY <1>a, <2>1, <2>2, <2>3, <2>4, RequestSteps DEF TypeOK
<1>9. CASE ReadBaseline
  <2>1. active \in SUBSET Reports /\ h \in Request
    BY <1>a DEF TypeOK
  <2>2. h' \in Request
    <3>1. \/ h' = [h EXCEPT !.at = "incidents"]
          \/ h' = [h EXCEPT !.at = "detect", !.base = active]
      BY <1>9 DEF ReadBaseline
    <3>2. CASE h' = [h EXCEPT !.at = "incidents"]
      BY <2>1, <3>2, RequestSteps
    <3>3. CASE h' = [h EXCEPT !.at = "detect", !.base = active]
      BY <2>1, <3>3, RequestSteps
    <3> QED BY <3>1, <3>2, <3>3
  <2> QED BY <1>a, <1>9, <2>2 DEF TypeOK, ReadBaseline
<1>10. CASE DetectChanges
  <2>a. PICK b \in h.base : \E found \in PartDifferences(b, h.report) : Detected(b, found)
    BY <1>10, DetectedChanges
  <2>b. PICK found \in PartDifferences(b, h.report) : Detected(b, found)
    BY <2>a
  <2>1. LET new == NewEvents(b, h.report, found, h.noticed) IN
          /\ events' = events \cup new
          /\ h' = [h EXCEPT !.at = "incidents", !.created = new]
          /\ comparedTo' = [comparedTo EXCEPT ![h.report] = @ \cup {b}]
    BY <2>b DEF Detected
  <2>2. NewEvents(b, h.report, found, h.noticed) \subseteq Event
    BY <1>10, NewEventsType DEF DetectChanges
  <2>3. b \in Reports
    BY <1>a, RequestFields DEF TypeOK
  <2>4. h' \in Request
    BY <1>a, <2>1, <2>2, RequestSteps DEF TypeOK
  <2>5. comparedTo' \in [Reports -> SUBSET Reports]
    BY <1>a, <2>1, <2>3 DEF TypeOK
  <2> QED BY <1>a, <1>10, <2>1, <2>2, <2>4, <2>5 DEF TypeOK, DetectChanges
<1>11. CASE CreateIncidents
  <2>1. h' \in Request /\ h.created \in SUBSET Event /\ h.report \in Reports
    BY <1>a, <1>b, <1>11, RequestFields, RequestSteps DEF TypeOK, CreateIncidents, Reply
  <2> QED BY <1>a, <1>11, <2>1 DEF TypeOK, CreateIncidents, Notify, Reply
<1>12. ASSUME NEW e \in incidents, DecideIncident(e) PROVE TypeOK'
  BY <1>a, <1>12 DEF TypeOK, DecideIncident
<1>13. CASE RevokeCredential
  <2>1. revocations' \in 0..MaxRevocations
    BY <1>a, <1>13 DEF TypeOK, RevokeCredential
  <2> QED BY <1>a, <1>13, <2>1 DEF TypeOK, RevokeCredential
<1>14. CASE ReissueCredential
  BY <1>a, <1>14 DEF TypeOK, ReissueCredential
<1>15. CASE Crash
  <2>1. crashes' \in 0..MaxCrashes
    BY <1>a, <1>15 DEF TypeOK, Crash
  <2>2. h' \in Request
    BY <1>15, RequestSteps DEF Crash
  <2> QED BY <1>a, <1>15, <2>1, <2>2 DEF TypeOK, Crash
<1>16. CASE UNCHANGED vars
  BY <1>a, <1>16 DEF TypeOK, vars
<1> QED
  BY <1>1, <1>2, <1>3, <1>4, <1>5, <1>6, <1>7, <1>8, <1>9, <1>10, <1>11, <1>12,
     <1>13, <1>14, <1>15, <1>16 DEF Next, Ingest, Process
-----------------------------------------------------------------------------
(* Which steps touch the stored evidence and which touch the events.         *)
LEMMA EvidenceFrame ==
    ASSUME [Next]_vars
    PROVE  \/ \E r \in Reports : IngestNew(r)
           \/ ScopeRefused
           \/ NormalizeInvalid
           \/ Normalize
           \/ UNCHANGED <<raw, payload>>
BY DEF Next, Ingest, Process, IngestDuplicate, BridgeDuplicate, AcceptBaseline,
       NormalizeExisting, ReadBaseline, DetectChanges, CreateIncidents, DecideIncident,
       RevokeCredential, ReissueCredential, Crash, vars, domain

LEMMA EventsFrame ==
    ASSUME [Next]_vars
    PROVE  DetectChanges \/ UNCHANGED <<events, comparedTo>>
BY DEF Next, Ingest, Process, IngestNew, IngestDuplicate, BridgeDuplicate, AcceptBaseline,
       ScopeRefused, NormalizeInvalid, Normalize, NormalizeExisting, ReadBaseline,
       CreateIncidents, DecideIncident, RevokeCredential, ReissueCredential, Crash,
       vars, review

LEMMA EvidenceStep ==
    ASSUME IndInv, [Next]_vars
    PROVE  /\ \A r \in Reports : raw'[r] # "none" => payload'[r] \in Content
           /\ \A r \in Reports : raw'[r] = "PROCESSED" => payload'[r] \in Inventories
           /\ \A r \in Processed : raw'[r] = "PROCESSED" /\ payload'[r] = payload[r]
<1>1. TypeOK /\ EvidenceStored /\ HandlerKnows
  BY DEF IndInv
<1>2. raw \in [Reports -> RawStatus] /\ payload \in [Reports -> Content \cup {Nothing}]
  BY <1>1 DEF TypeOK
<1> DEFINE Goal == /\ \A r \in Reports : raw'[r] # "none" => payload'[r] \in Content
                   /\ \A r \in Reports : raw'[r] = "PROCESSED" => payload'[r] \in Inventories
                   /\ \A r \in Processed : raw'[r] = "PROCESSED" /\ payload'[r] = payload[r]
<1>3. ASSUME NEW q \in Reports, IngestNew(q) PROVE Goal
  BY <1>1, <1>2, <1>3 DEF IngestNew, EvidenceStored, Processed
<1>4. CASE ScopeRefused
  BY <1>1, <1>2, <1>4 DEF ScopeRefused, EvidenceStored, Processed, HandlerKnows
<1>5. CASE NormalizeInvalid
  BY <1>1, <1>2, <1>5 DEF NormalizeInvalid, EvidenceStored, Processed, HandlerKnows
<1>6. CASE Normalize
  BY <1>1, <1>2, <1>6 DEF Normalize, EvidenceStored, Processed, HandlerKnows, Content
<1>7. CASE UNCHANGED <<raw, payload>>
  BY <1>1, <1>7 DEF EvidenceStored, Processed
<1> QED BY <1>3, <1>4, <1>5, <1>6, <1>7, EvidenceFrame

(* Processed evidence is compared the same way for good.                     *)
LEMMA EvidenceKept ==
    ASSUME IndInv, [Next]_vars
    PROVE  /\ \A r \in Processed : r \in Processed'
           /\ \A b, r \in Processed : PartDifferences(b, r)' = PartDifferences(b, r)
           /\ \A d : \A r \in Processed : IsNotice(d, r) => IsNotice(d, r)'
<1>1. \A r \in Processed : raw'[r] = "PROCESSED" /\ payload'[r] = payload[r]
  BY EvidenceStep
<1>2. \A r \in Processed : r \in Processed'
  BY <1>1 DEF Processed
<1>3. \A b, r \in Processed : PartDifferences(b, r)' = PartDifferences(b, r)
  BY <1>1 DEF PartDifferences
<1>4. \A d : \A r \in Processed : IsNotice(d, r) => IsNotice(d, r)'
  BY <1>1 DEF IsNotice
<1> QED BY <1>2, <1>3, <1>4

LEMMA EvidenceStoredStep == IndInv /\ [Next]_vars => EvidenceStored'
<1> SUFFICES ASSUME IndInv, [Next]_vars PROVE EvidenceStored'
  OBVIOUS
<1>1. active \subseteq Processed
  BY DEF IndInv, EvidenceStored
<1>2. ASSUME NEW r \in Reports, AcceptBaseline(r) PROVE (active \subseteq Processed)'
  BY <1>1, <1>2 DEF AcceptBaseline, Processed, domain
<1>3. (\E r \in Reports : AcceptBaseline(r)) \/ active' = active
  BY DEF Next, Ingest, Process, IngestNew, IngestDuplicate, BridgeDuplicate, ScopeRefused,
         NormalizeExisting, NormalizeInvalid, Normalize, ReadBaseline, DetectChanges,
         CreateIncidents, DecideIncident, RevokeCredential, ReissueCredential, Crash,
         vars, admin
<1>4. (active \subseteq Processed)'
  BY <1>1, <1>2, <1>3, EvidenceKept
<1> QED BY <1>4, EvidenceStep DEF EvidenceStored, Processed

(* An agent is told of success by the handler's last step only, or by one    *)
(* that found the report processed.                                          *)
LEMMA AnsweredStep == IndInv /\ [Next]_vars => AnsweredMeansProcessed'
<1> SUFFICES ASSUME IndInv, [Next]_vars PROVE AnsweredMeansProcessed'
  OBVIOUS
<1>1. \A r \in answered \ BridgeReports : r \in Processed
  BY DEF IndInv, AnsweredMeansProcessed, TypeOK, Processed
<1>2. \/ answered' = answered
      \/ \E r \in Processed \cup BridgeReports : answered' = answered \cup {r}
  <2> DEFINE Informed == \E r \in Processed \cup BridgeReports : answered' = answered \cup {r}
  <2>1. ASSUME NEW r \in Reports, BridgeDuplicate(r) PROVE Informed
    BY <2>1 DEF BridgeDuplicate, Reply
  <2>2. CASE NormalizeExisting
    BY <2>2 DEF NormalizeExisting, Reply, Processed, sender, IndInv, HandlerKnows
  <2>3. CASE CreateIncidents
    BY <2>3 DEF CreateIncidents, Reply, IndInv, HandlerKnows
  <2> QED
    BY <2>1, <2>2, <2>3 DEF Next, Ingest, Process, IngestNew, IngestDuplicate,
       AcceptBaseline, ScopeRefused, NormalizeInvalid, Normalize, ReadBaseline,
       DetectChanges, DecideIncident, RevokeCredential, ReissueCredential, Crash,
       vars, sender
<1>3. \A r \in answered' \ BridgeReports : r \in Processed
  BY <1>1, <1>2
<1> QED BY <1>3, EvidenceStep DEF AnsweredMeansProcessed

LEMMA HandlerStep == IndInv /\ [Next]_vars => HandlerKnows'
<1> SUFFICES ASSUME IndInv, [Next]_vars PROVE HandlerKnows'
  OBVIOUS
<1> USE DEF Idle
<1>a. TypeOK /\ EvidenceStored /\ HandlerKnows
  BY DEF IndInv
<1>b. raw \in [Reports -> RawStatus] /\ h \in Request
  BY <1>a DEF TypeOK
<1>c. h = [at |-> h.at, report |-> h.report, duplicate |-> h.duplicate,
           processed |-> h.processed, noticed |-> h.noticed, base |-> h.base,
           created |-> h.created]
  BY <1>b DEF Request
<1>d. ASSUME UNCHANGED <<raw, payload, events, h>> PROVE HandlerKnows'
  BY <1>a, <1>d DEF HandlerKnows, Processed, IsNotice
<1>e. ASSUME h' = Idle PROVE HandlerKnows'
  BY <1>e DEF HandlerKnows
<1>1. ASSUME NEW r \in Reports, IngestNew(r) PROVE HandlerKnows'
  BY <1>b, <1>1 DEF IngestNew, HandlerKnows
<1>2. ASSUME NEW r \in Reports, IngestDuplicate(r) PROVE HandlerKnows'
  BY <1>2 DEF IngestDuplicate, HandlerKnows, WasProcessed, domain
<1>3. NormalizeExisting => h.processed
  BY <1>a DEF NormalizeExisting, HandlerKnows
<1>4. CASE Normalize
  <2> DEFINE name   == payload[h.report].host
             serial == payload[h.report].serial
  <2>1. /\ h.at = "normalize" /\ h.report \in Reports
        /\ raw' = [raw EXCEPT ![h.report] = "PROCESSED"]
        /\ h' = [h EXCEPT !.at = "compare", !.noticed = Noticed(name, serial)]
        /\ UNCHANGED <<payload, events>>
    BY <1>a, <1>4 DEF Normalize, HandlerKnows, review
  <2>7. \A e \in events' : e.report # h.report
    BY <1>4 DEF Normalize, review, IndInv, EventsExplained, Processed
  <2>2. name \in Hosts /\ serial \in Serials
    <3>1. payload[h.report] \in Inventories
      BY <1>a, <1>4 DEF Normalize, HandlerKnows, EvidenceStored, Content
    <3> QED BY <3>1, PipelineAssumption DEF Inventory
  <2>3. \A d \in Noticed(name, serial) : IsNotice(d, h.report)
    BY <2>2, NoticedKinds DEF IsNotice
  <2>4. /\ h'.at = "compare" /\ h'.report = h.report
        /\ h'.noticed = Noticed(name, serial) /\ h'.created = {}
    <3> HIDE DEF name, serial
    <3> QED BY <1>a, <1>c, <2>1 DEF HandlerKnows
  <2>5. h.report \in Processed'
    BY <1>b, <2>1 DEF Processed
  <2>6. \A d \in h'.noticed : IsNotice(d, h.report)'
    BY <2>1, <2>3, <2>4 DEF IsNotice
  <2> HIDE DEF name, serial
  <2> QED BY <2>1, <2>4, <2>5, <2>6, <2>7 DEF HandlerKnows, Processed
<1>5. CASE ReadBaseline
  <2>1. /\ h.at = "compare" /\ h.report \in Processed /\ active \subseteq Processed
        /\ h.created = {} /\ \A d \in h.noticed : IsNotice(d, h.report)
        /\ \A e \in events : e.report # h.report
        /\ UNCHANGED <<raw, payload, events>>
    BY <1>a, <1>5 DEF ReadBaseline, HandlerKnows, EvidenceStored, domain, review
  <2>2. \/ h'.at = "detect" /\ h'.base = active
        \/ h'.at = "incidents"
    BY <1>5, <1>c DEF ReadBaseline
  <2>3. h'.report = h.report /\ h'.created = h.created /\ h'.noticed = h.noticed
    BY <1>5, <1>c DEF ReadBaseline
  <2> QED BY <2>1, <2>2, <2>3 DEF HandlerKnows, Processed, IsNotice
<1>6. CASE DetectChanges
  <2>1. /\ h'.at = "incidents" /\ h'.report = h.report /\ h'.created \subseteq events'
        /\ UNCHANGED raw
    BY <1>6, <1>c DEF DetectChanges, domain
  <2>2. h.report \in Processed
    BY <1>a, <1>6 DEF DetectChanges, HandlerKnows
  <2> QED BY <2>1, <2>2 DEF HandlerKnows, Processed
<1>7. \/ h' = Idle
      \/ UNCHANGED <<raw, payload, events, h>>
      \/ \E r \in Reports : IngestNew(r) \/ IngestDuplicate(r)
      \/ Normalize \/ ReadBaseline \/ DetectChanges
  BY <1>3 DEF Next, Ingest, Process, BridgeDuplicate, Reply, AcceptBaseline, ScopeRefused,
         NormalizeExisting, NormalizeInvalid, CreateIncidents, DecideIncident,
         RevokeCredential, ReissueCredential, Crash, vars, domain, review
<1> QED BY <1>d, <1>e, <1>1, <1>2, <1>4, <1>5, <1>6, <1>7
-----------------------------------------------------------------------------
(* What the comparison adds: events of its own two snapshots, of differences *)
(* computed or noticed, and nothing that was recorded before.                *)
LEMMA NewEventsKinds ==
    ASSUME IndInv, h.at = "detect", NEW b \in h.base,
           NEW found, NEW e \in NewEvents(b, h.report, found, h.noticed)
    PROVE  /\ b \in Processed /\ h.report \in Processed
           /\ e.base = b /\ e.report = h.report
           /\ e.diff \in found \/ IsNotice(e.diff, h.report)
           /\ e \notin events
<1>1. b \in Processed /\ h.report \in Processed
      /\ \A d \in h.noticed : IsNotice(d, h.report)
  BY DEF IndInv, HandlerKnows
<1>2. PICK d \in found \cup h.noticed :
         e = [base |-> b, diff |-> d, report |-> h.report] /\ ~Recorded(b, h.report, d)
  BY DEF NewEvents
<1>3. e.base = b /\ e.diff = d /\ e.report = h.report
  BY <1>2
<1>4. e \notin events
  BY <1>2, <1>3 DEF Recorded
<1> QED BY <1>1, <1>2, <1>3, <1>4

(* The comparison meets no event of its own report, so the events of two     *)
(* snapshots come from one comparison.                                       *)
LEMMA ExplainedStep == IndInv /\ [Next]_vars => EventsExplained'
<1> SUFFICES ASSUME IndInv, [Next]_vars PROVE EventsExplained'
  OBVIOUS
<1> DEFINE From(b, r, some, found) ==
       \A f \in some : f.base = b /\ f.report = r =>
                          f.diff \in found \/ IsNotice(f.diff, f.report)
<1>1. \A e \in events :
         /\ e.base \in Processed /\ e.report \in Processed
         /\ \E found \in PartDifferences(e.base, e.report) :
               From(e.base, e.report, events, found)
  BY DEF IndInv, EventsExplained
<1>2. \A e \in events' :
         /\ e.base \in Processed /\ e.report \in Processed
         /\ \E found \in PartDifferences(e.base, e.report) :
               From(e.base, e.report, events', found)
  <2>1. CASE DetectChanges
    <3>a. PICK b \in h.base : \E found \in PartDifferences(b, h.report) : Detected(b, found)
      BY <2>1, DetectedChanges
    <3>b. PICK found \in PartDifferences(b, h.report) : Detected(b, found)
      BY <3>a
    <3>1. events' = events \cup NewEvents(b, h.report, found, h.noticed)
      BY <3>b DEF Detected
    <3> DEFINE new == NewEvents(b, h.report, found, h.noticed)
    <3>2. \A e \in new : /\ b \in Processed /\ h.report \in Processed
                         /\ e.base = b /\ e.report = h.report
                         /\ e.diff \in found \/ IsNotice(e.diff, h.report)
      BY <2>1, NewEventsKinds DEF DetectChanges
    <3>3. \A e \in events : e.report # h.report
      BY <2>1 DEF DetectChanges, IndInv, HandlerKnows
    <3>4. events' = events \cup new
      BY <3>1
    <3> HIDE DEF new
    <3>5. From(b, h.report, events', found)
      BY <3>2, <3>3, <3>4
    <3>6. ASSUME NEW e \in events, NEW some, From(e.base, e.report, events, some)
          PROVE  From(e.base, e.report, events', some)
      BY <3>2, <3>3, <3>4, <3>6
    <3> HIDE DEF From
    <3>7. \A e \in events : \E some \in PartDifferences(e.base, e.report) :
               From(e.base, e.report, events', some)
      BY <1>1, <3>6
    <3> QED BY <1>1, <3>1, <3>2, <3>4, <3>5, <3>7
  <2>2. CASE UNCHANGED <<events, comparedTo>>
    BY <1>1, <2>2
  <2> QED BY <2>1, <2>2, EventsFrame
<1>3. ASSUME NEW e \in events'
      PROVE  /\ (e.base \in Processed)' /\ (e.report \in Processed)'
             /\ \E found \in PartDifferences(e.base, e.report)' :
                   \A f \in events' : f.base = e.base /\ f.report = e.report =>
                                         f.diff \in found \/ IsNotice(f.diff, f.report)'
  <2>1. PICK found \in PartDifferences(e.base, e.report) :
                \A f \in events' : f.base = e.base /\ f.report = e.report =>
                                      f.diff \in found \/ IsNotice(f.diff, f.report)
    BY <1>2
  <2>2. PartDifferences(e.base, e.report)' = PartDifferences(e.base, e.report)
    BY <1>2, EvidenceKept
  <2>3. \A f \in events' : IsNotice(f.diff, f.report) => IsNotice(f.diff, f.report)'
    BY <1>2, EvidenceKept
  <2> QED BY <1>2, <2>1, <2>2, <2>3, EvidenceKept
<1> QED BY <1>3 DEF EventsExplained

LEMMA RecordedStep == IndInv /\ [Next]_vars => ComparisonsRecorded'
<1> SUFFICES ASSUME IndInv, [Next]_vars PROVE ComparisonsRecorded'
  OBVIOUS
<1> DEFINE Named(b, r, some) ==
       \E found \in PartDifferences(b, r) :
          \A d \in found : \E e \in some : e.base = b /\ e.diff = d
<1>1. \A r \in Reports : \A b \in comparedTo[r] :
         b \in Processed /\ r \in Processed /\ Named(b, r, events)
  BY DEF IndInv, ComparisonsRecorded
<1>2. \A r \in Reports : \A b \in comparedTo'[r] :
         b \in Processed /\ r \in Processed /\ Named(b, r, events')
  <2>1. CASE DetectChanges
    <3>a. PICK b \in h.base : \E found \in PartDifferences(b, h.report) : Detected(b, found)
      BY <2>1, DetectedChanges
    <3>b. PICK found \in PartDifferences(b, h.report) : Detected(b, found)
      BY <3>a
    <3>1. /\ events' = events \cup NewEvents(b, h.report, found, h.noticed)
          /\ comparedTo' = [comparedTo EXCEPT ![h.report] = @ \cup {b}]
      BY <3>b DEF Detected
    <3>2. b \in Processed /\ h.report \in Processed
      BY <2>1 DEF DetectChanges, IndInv, HandlerKnows
    <3>3. \A d \in found : \E e \in events' : e.base = b /\ e.diff = d
      <4> SUFFICES ASSUME NEW d \in found
                   PROVE  \E e \in events' : e.base = b /\ e.diff = d
        OBVIOUS
      <4>1. CASE Recorded(b, h.report, d)
        BY <3>1, <4>1 DEF Recorded
      <4>2. CASE ~Recorded(b, h.report, d)
        <5>1. [base |-> b, diff |-> d, report |-> h.report]
                 \in NewEvents(b, h.report, found, h.noticed)
          BY <4>2 DEF NewEvents
        <5> QED BY <3>1, <5>1
      <4> QED BY <4>1, <4>2
    <3>4. comparedTo \in [Reports -> SUBSET Reports]
      BY DEF IndInv, TypeOK
    <3>5. \A r, c : Named(c, r, events) => Named(c, r, events')
      BY <3>1
    <3>6. \A r \in Reports : \A c \in comparedTo'[r] :
             c \in comparedTo[r] \/ (r = h.report /\ c = b)
      BY <3>1, <3>4
    <3>7. Named(b, h.report, events')
      BY <3>3
    <3> HIDE DEF Named
    <3> QED BY <1>1, <3>2, <3>5, <3>6, <3>7
  <2>2. CASE UNCHANGED <<events, comparedTo>>
    BY <1>1, <2>2
  <2> QED BY <2>1, <2>2, EventsFrame
<1>3. \A r \in Reports : \A b \in comparedTo'[r] :
         (b \in Processed)' /\ (r \in Processed)' /\ PartDifferences(b, r)' = PartDifferences(b, r)
  BY <1>2, EvidenceKept
<1> QED BY <1>2, <1>3 DEF ComparisonsRecorded

(* Every event gets its incident and its outbox row by the next commit.      *)
LEMMA ReviewStep == IndInv /\ [Next]_vars => EventsReachReview'
<1> SUFFICES ASSUME IndInv, [Next]_vars PROVE EventsReachReview'
  OBVIOUS
<1>a. /\ EventsReachReview /\ crashes \in Nat
      /\ h.created \subseteq events
      /\ h.at # "incidents" => h.created = {}
  BY PipelineAssumption DEF IndInv, HandlerKnows, TypeOK
<1>b. h = [at |-> h.at, report |-> h.report, duplicate |-> h.duplicate,
           processed |-> h.processed, noticed |-> h.noticed, base |-> h.base,
           created |-> h.created]
  BY DEF IndInv, TypeOK, Request
<1>1. CASE DetectChanges
  <2>a. PICK b \in h.base : \E found \in PartDifferences(b, h.report) : Detected(b, found)
    BY <1>1, DetectedChanges
  <2>b. PICK found \in PartDifferences(b, h.report) : Detected(b, found)
    BY <2>a
  <2>1. /\ events' = events \cup NewEvents(b, h.report, found, h.noticed)
        /\ h' = [h EXCEPT !.at = "incidents",
                          !.created = NewEvents(b, h.report, found, h.noticed)]
    BY <2>b DEF Detected
  <2> DEFINE new == NewEvents(b, h.report, found, h.noticed)
  <2>2. \A e \in new : e \notin events
    BY <1>1, NewEventsKinds DEF DetectChanges
  <2>3. events' = events \cup new /\ h'.at = "incidents" /\ h'.created = new
    BY <1>b, <2>1
  <2>4. h.at = "detect" /\ UNCHANGED <<incidents, outbox, crashes>>
    BY <1>1 DEF DetectChanges
  <2> HIDE DEF new
  <2> QED BY <1>a, <2>2, <2>3, <2>4 DEF EventsReachReview
<1>2. CASE CreateIncidents
  BY <1>a, <1>2 DEF CreateIncidents, Notify, Reply, Idle, EventsReachReview
<1>3. CASE Crash
  BY <1>a, <1>3 DEF Crash, review, EventsReachReview
<1>4. ASSUME UNCHANGED <<review, crashes>>, h'.at # "incidents", h.at # "incidents"
      PROVE  EventsReachReview'
  BY <1>a, <1>4 DEF review, EventsReachReview
<1>5. ASSUME UNCHANGED <<review, crashes, h>> PROVE EventsReachReview'
  BY <1>a, <1>5 DEF review, EventsReachReview
<1>6. CASE ReadBaseline
  <2>1. /\ h.at = "compare" /\ h'.at \in {"incidents", "detect"}
        /\ h'.created = h.created /\ UNCHANGED <<review, crashes>>
    BY <1>6, <1>b DEF ReadBaseline
  <2> QED BY <1>a, <2>1 DEF review, EventsReachReview
<1>7. \/ DetectChanges \/ CreateIncidents \/ Crash \/ ReadBaseline
      \/ UNCHANGED <<review, crashes>> /\ h'.at # "incidents" /\ h.at # "incidents"
      \/ UNCHANGED <<review, crashes, h>>
  <2>1. ASSUME NEW r \in Reports, Ingest(r)
        PROVE  UNCHANGED <<review, crashes>> /\ h'.at # "incidents" /\ h.at # "incidents"
    <3>1. h.at = "idle" /\ UNCHANGED <<review, crashes>>
      BY <2>1 DEF Ingest, IngestNew, IngestDuplicate, BridgeDuplicate, Offered
    <3>2. h'.at \in {"idle", "normalize"}
      <4>1. CASE IngestNew(r)
        BY <4>1 DEF IngestNew, Idle
      <4>2. CASE IngestDuplicate(r)
        BY <4>2 DEF IngestDuplicate, Idle
      <4>3. CASE BridgeDuplicate(r)
        BY <4>3 DEF BridgeDuplicate, Reply, Idle
      <4> QED BY <2>1, <4>1, <4>2, <4>3 DEF Ingest
    <3> QED BY <3>1, <3>2
  <2>2. CASE ScopeRefused \/ NormalizeInvalid
    BY <2>2 DEF ScopeRefused, NormalizeInvalid, Idle
  <2>3. CASE NormalizeExisting
    BY <1>b, <2>3 DEF NormalizeExisting, Reply, Idle
  <2>4. CASE Normalize
    BY <1>b, <2>4 DEF Normalize
  <2> QED
    BY <2>1, <2>2, <2>3, <2>4 DEF Next, Process, AcceptBaseline, DecideIncident,
       RevokeCredential, ReissueCredential, vars
<1> QED BY <1>1, <1>2, <1>3, <1>4, <1>5, <1>6, <1>7
-----------------------------------------------------------------------------
THEOREM Inductive == Spec => []IndInv
<1>1. Init => IndInv
  BY InitInd
<1>2. IndInv /\ [Next]_vars => IndInv'
  BY TypeStep, EvidenceStoredStep, HandlerStep, AnsweredStep, ExplainedStep,
     RecordedStep, ReviewStep DEF IndInv
<1> QED BY <1>1, <1>2, PTL DEF Spec

(* Every reachable state of the pipeline is of the declared types.           *)
THEOREM TypeCorrect == Spec => []TypeOK
<1>1. IndInv => TypeOK
  BY DEF IndInv
<1> QED BY <1>1, Inductive, PTL

(* The agent deletes its only copy for a snapshot, whatever crashes,         *)
(* repetitions and revocations came before (glpi_agent.py:88-110).           *)
THEOREM AnswersMeanSnapshots == Spec => []AnsweredMeansProcessed
<1>1. IndInv => AnsweredMeansProcessed
  BY DEF IndInv
<1> QED BY <1>1, Inductive, PTL

(* Without a crash no event stays without incident and no incident without   *)
(* its outbox row (incidents/service.py).                                    *)
THEOREM EventsAreReviewed == Spec => []EventsReachReview
<1>1. IndInv => EventsReachReview
  BY DEF IndInv
<1> QED BY <1>1, Inductive, PTL

(* For every catalogue of parts, keys and slots, also with twins and several *)
(* parts in one slot, an event is backed by the two inventories it names and *)
(* no part is explained twice by one comparison (detector.py:24-142).        *)
THEOREM EventsAreBacked == Spec => []EventsMatchEvidence
<1>1. IndInv => EventsMatchEvidence
  <2> SUFFICES ASSUME IndInv PROVE EventsMatchEvidence
    OBVIOUS
  <2>1. \A e \in events :
           /\ e.base \in Processed /\ e.report \in Processed
           /\ \E found \in PartDifferences(e.base, e.report) :
                 \A f \in events : f.base = e.base /\ f.report = e.report =>
                                      f.diff \in found \/ IsNotice(f.diff, f.report)
    BY DEF IndInv, EventsExplained
  <2>a. ASSUME NEW e \in events
        PROVE  \E found \in Comparisons(payload[e.base].parts, payload[e.report].parts) \cup {{}} :
                 /\ found # {} => payload[e.report].complete
                 /\ \A f \in events : f.base = e.base /\ f.report = e.report =>
                                         f.diff \in found \/ IsNotice(f.diff, f.report)
    BY <2>1 DEF PartDifferences
  <2>2. ASSUME NEW e \in events PROVE Backed(e)
    <3>1. CASE IsNotice(e.diff, e.report)
      BY <3>1 DEF IsNotice, Backed
    <3>2. CASE ~IsNotice(e.diff, e.report)
      <4>1. PICK found \in Comparisons(payload[e.base].parts, payload[e.report].parts) :
               payload[e.report].complete /\ e.diff \in found
        BY <2>a, <3>2
      <4>2. /\ payload[e.base].parts \in SUBSET Parts
            /\ payload[e.report].parts \in SUBSET Parts
        BY <2>1, ProcessedContent
      <4>3. /\ e.diff.kind \in {"CHANGED", "REPLACED", "REMOVED", "ADDED"}
            /\ e.diff.was # Nothing =>
                  /\ e.diff.was \in payload[e.base].parts
                  /\ e.diff.was \in payload[e.report].parts =>
                        \/ KeyOf[e.diff.was] = Nothing
                        \/ e.diff.was \in Twins(payload[e.report].parts)
            /\ e.diff.now # Nothing =>
                  /\ e.diff.now \in payload[e.report].parts
                  /\ e.diff.now \in payload[e.base].parts =>
                        \/ KeyOf[e.diff.now] = Nothing
                        \/ e.diff.now \in Twins(payload[e.base].parts)
        <5> DEFINE before == payload[e.base].parts
                   after  == payload[e.report].parts
                   d      == e.diff
        <5>1. /\ before \in SUBSET Parts /\ after \in SUBSET Parts
              /\ found \in Comparisons(before, after) /\ d \in found
          BY <4>1, <4>2
        <5> HIDE DEF before, after, d
        <5>2. /\ d.kind \in {"CHANGED", "REPLACED", "REMOVED", "ADDED"}
              /\ d.was # Nothing =>
                    /\ d.was \in before
                    /\ d.was \in after => KeyOf[d.was] = Nothing \/ d.was \in Twins(after)
              /\ d.now # Nothing =>
                    /\ d.now \in after
                    /\ d.now \in before => KeyOf[d.now] = Nothing \/ d.now \in Twins(before)
          BY <5>1, ComparedSound
        <5> QED BY <5>2 DEF before, after, d
      <4> QED BY <4>1, <4>3 DEF Backed
    <3> QED BY <3>1, <3>2
  <2>3. ASSUME NEW e \in events, NEW f \in events,
               e # f, e.base = f.base, e.report = f.report
        PROVE  /\ e.diff.was = f.diff.was => e.diff.was \notin Parts
               /\ e.diff.now = f.diff.now => e.diff.now \notin Parts
    <3>1. \A g \in events : IsNotice(g.diff, g.report)
                               => g.diff.was \notin Parts /\ g.diff.now \notin Parts
      BY <2>1, ProcessedContent, PipelineAssumption DEF IsNotice
    <3>2. e.diff # f.diff
      BY <2>3 DEF IndInv, TypeOK, Event
    <3>3. CASE IsNotice(e.diff, e.report) \/ IsNotice(f.diff, f.report)
      BY <3>1, <3>3
    <3>4. CASE ~IsNotice(e.diff, e.report) /\ ~IsNotice(f.diff, f.report)
      <4>1. PICK found \in Comparisons(payload[e.base].parts, payload[e.report].parts) :
               e.diff \in found /\ f.diff \in found
        BY <2>a, <2>3, <3>4
      <4>2. /\ payload[e.base].parts \in SUBSET Parts
            /\ payload[e.report].parts \in SUBSET Parts
        BY <2>1, ProcessedContent
      <4>3. /\ e.diff.was = f.diff.was => e.diff.was = Nothing
            /\ e.diff.now = f.diff.now => e.diff.now = Nothing
        BY <3>2, <4>1, <4>2, ComparedOnce
      <4> QED BY <4>3, NothingIsNoPart
    <3> QED BY <3>3, <3>4
  <2> QED BY <2>1, <2>2, <2>3 DEF EventsMatchEvidence, Processed
<1> QED BY <1>1, Inductive, PTL

(* For any inventories, with twins among their parts or without: a           *)
(* comparison leaves no part unrecorded that went or came, whatever an       *)
(* earlier report or an interrupted request recorded, unless a twin of it,   *)
(* another part of its key in the same inventory, is named in its place or   *)
(* listed by both (detector.py:96-131, 171-174).                             *)
THEOREM DifferencesAreRecorded == Spec => []NoDifferenceMissed
<1>1. IndInv => NoDifferenceMissed
  <2> SUFFICES ASSUME IndInv, NEW r \in Reports, NEW b \in comparedTo[r],
                      payload[r].complete
               PROVE  LET before == payload[b].parts
                          after  == payload[r].parts
                          from   == {e.diff : e \in {f \in events : f.base = b}}
                      IN  /\ \A p \in before \ after :
                                Told(p, before, after, {d.was : d \in from})
                          /\ \A p \in after \ before :
                                Told(p, after, before, {d.now : d \in from})
    BY DEF NoDifferenceMissed
  <2> DEFINE from == {e.diff : e \in {f \in events : f.base = b}}
             before == payload[b].parts
             after == payload[r].parts
  <2>1. PICK found \in PartDifferences(b, r) :
               \A d \in found : \E e \in events : e.base = b /\ e.diff = d
    BY DEF IndInv, ComparisonsRecorded
  <2>2. found \in Comparisons(before, after) /\ found \subseteq from
    BY <2>1 DEF PartDifferences
  <2> HIDE DEF from, before, after
  <2>3. /\ \A d \in found : d.was \in {x.was : x \in from}
        /\ \A d \in found : d.now \in {x.now : x \in from}
    BY <2>2
  <2>4. /\ \A p \in before \ after : Told(p, before, after, {d.was : d \in from})
        /\ \A p \in after \ before : Told(p, after, before, {d.now : d \in from})
    BY <2>2, <2>3, ComparedComplete
  <2> QED BY <2>4 DEF from, before, after
<1> QED BY <1>1, Inductive, PTL
=============================================================================
