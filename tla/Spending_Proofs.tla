---------------------------- MODULE Spending_Proofs ----------------------------
(***************************************************************************)
(* Proofs about what a tenant may spend: plan limits are overshot by a     *)
(* bounded amount (OvershootBounded), overage charges are accounted for    *)
(* (ChargesAccounted), and checkouts which do not race stay within the     *)
(* day's largest daily limit but for what amounts that are negative or not *)
(* a number undo (DailySpendBounded).                                      *)
(***************************************************************************)
EXTENDS PlanLimits, OverageBilling, SpendShield, FiniteSetTheorems, TLAPS

(***************************************************************************)
(* Plan limits.                                                            *)
(*                                                                         *)
(* A saver that counted below TopLimit, or passed its check, may add one   *)
(* counted channel.  PlanRoom bounds the counted channels together with    *)
(* these savers: a save trades one for the other, and a saver becomes one  *)
(* of them only when it sees fewer than TopLimit channels.                 *)
(***************************************************************************)

Counted(f) == Active(f) \ bypassed[f]
Holders(f) ==
    {h \in Savers :
        /\ saving[h] # NoSave /\ f \in saving[h].checked
        /\ \/ saving[h].step = "save"
           \/ saving[h].step = "enforce" /\ saving[h].used[f] < TopLimit}

PlanRoom ==
    \A f \in Features :
        Cardinality(Counted(f)) + Cardinality(Holders(f)) <= TopLimit + Cardinality(Savers) - 1

\* A saver is checked for no feature its channel does not count for.
CheckedAsked == \A h \in Savers : saving[h] # NoSave => saving[h].checked \subseteq Asked(h)

PlanInv == PlanTypes /\ CheckedAsked /\ PlanRoom

Saves == [step : {"count", "enforce", "save"}, channel : Channels, active : BOOLEAN,
          used : [Features -> Nat], checked : SUBSET Features]

\* Two finite sets that shrink, or of which one passes an element to the other,
\* have no more elements together.
LEMMA Shrinks ==
    ASSUME NEW C, NEW D, NEW H, NEW G, IsFiniteSet(C), IsFiniteSet(H),
           D \subseteq C, G \subseteq H
    PROVE  Cardinality(D) + Cardinality(G) <= Cardinality(C) + Cardinality(H)
<1>1. /\ Cardinality(D) <= Cardinality(C) /\ IsFiniteSet(D)
      /\ Cardinality(G) <= Cardinality(H) /\ IsFiniteSet(G)
  BY FS_Subset
<1>2. /\ Cardinality(C) \in Nat /\ Cardinality(D) \in Nat
      /\ Cardinality(H) \in Nat /\ Cardinality(G) \in Nat
  BY <1>1, FS_CardinalityType
<1> QED
  BY <1>1, <1>2

LEMMA Trades ==
    ASSUME NEW C, NEW D, NEW H, NEW G, IsFiniteSet(C), IsFiniteSet(H),
           NEW c, NEW h \in H, D \subseteq C \cup {c}, G \subseteq H \ {h}
    PROVE  Cardinality(D) + Cardinality(G) <= Cardinality(C) + Cardinality(H)
<1>1. IsFiniteSet(C \cup {c}) /\ Cardinality(C \cup {c}) <= Cardinality(C) + 1
  <2>1. Cardinality(C) \in Nat
    BY FS_CardinalityType
  <2>2. /\ IsFiniteSet(C \cup {c})
        /\ Cardinality(C \cup {c}) = IF c \in C THEN Cardinality(C) ELSE Cardinality(C) + 1
    BY FS_AddElement
  <2> QED
    BY <2>1, <2>2
<1>2. IsFiniteSet(H \ {h}) /\ Cardinality(H \ {h}) = Cardinality(H) - 1
  BY FS_RemoveElement
<1>3. Cardinality(D) + Cardinality(G) <= Cardinality(C \cup {c}) + Cardinality(H \ {h})
  BY <1>1, <1>2, Shrinks
<1>4. /\ Cardinality(C) \in Nat /\ Cardinality(H) \in Nat
      /\ Cardinality(C \cup {c}) \in Nat
  BY <1>1, FS_CardinalityType
<1>5. IsFiniteSet(D) /\ IsFiniteSet(G)
  BY <1>1, <1>2, FS_Subset
<1>6. Cardinality(D) \in Nat /\ Cardinality(G) \in Nat
  BY <1>5, FS_CardinalityType
<1> QED
  BY <1>1, <1>2, <1>3, <1>4, <1>6

\* Channels and savers are finitely many, now and after a step.
LEMMA PlanFinite ==
    /\ IsFiniteSet(Savers) /\ Cardinality(Savers) \in Nat /\ Cardinality(Savers) >= 1
    /\ \A f : IsFiniteSet(Active(f)) /\ Cardinality(Active(f)) \in Nat
    /\ \A f : IsFiniteSet(Counted(f)) /\ Cardinality(Counted(f)) <= Cardinality(Active(f))
    /\ \A f : IsFiniteSet(Holders(f)) /\ Cardinality(Holders(f)) \in Nat
    /\ TopLimit \in Nat
<1>1. IsFiniteSet(Savers) /\ Cardinality(Savers) \in Nat /\ Cardinality(Savers) # 0
  BY PlanAssumption, FS_CardinalityType, FS_EmptySet
<1>2. \A f : Active(f) \subseteq Channels /\ Counted(f) \subseteq Active(f)
  BY DEF Active, Concerned, Counted
<1>3. \A f : Holders(f) \subseteq Savers
  BY DEF Holders
<1>4. \A f : IsFiniteSet(Active(f)) /\ Cardinality(Active(f)) \in Nat
  BY <1>2, PlanAssumption, FS_Subset, FS_CardinalityType
<1>5. \A f : IsFiniteSet(Counted(f)) /\ Cardinality(Counted(f)) <= Cardinality(Active(f))
  BY <1>2, <1>4, FS_Subset
<1>6. \A f : IsFiniteSet(Holders(f)) /\ Cardinality(Holders(f)) \in Nat
  BY <1>1, <1>3, FS_Subset, FS_CardinalityType
<1> QED
  BY <1>1, <1>4, <1>5, <1>6, PlanAssumption

LEMMA PlanInitInv == PlanInit => PlanInv
<1> SUFFICES ASSUME PlanInit PROVE PlanInv
  OBVIOUS
<1>1. PlanTypes /\ CheckedAsked
  BY DEF PlanInit, PlanTypes, CheckedAsked
<1>2. ASSUME NEW f \in Features
      PROVE  Counted(f) = {} /\ Holders(f) = {}
  BY <1>2 DEF PlanInit, Counted, Holders, Active, Concerned
<1>3. PlanRoom
  BY <1>2, FS_EmptySet, PlanFinite DEF PlanRoom
<1> QED
  BY <1>1, <1>3 DEF PlanInv

\* Room is kept by a step that leaves no new counted channel and no new holder.
LEMMA RoomStays ==
    ASSUME PlanRoom,
           \A f \in Features : Counted(f)' \subseteq Counted(f) /\ Holders(f)' \subseteq Holders(f)
    PROVE  PlanRoom'
<1> SUFFICES ASSUME NEW f \in Features
             PROVE  Cardinality(Counted(f)') + Cardinality(Holders(f)')
                        <= TopLimit + Cardinality(Savers) - 1
  BY DEF PlanRoom
<1>1. Cardinality(Counted(f)') + Cardinality(Holders(f)')
          <= Cardinality(Counted(f)) + Cardinality(Holders(f))
  BY PlanFinite, Shrinks
<1>2. IsFiniteSet(Counted(f)') /\ IsFiniteSet(Holders(f)')
  BY PlanFinite, FS_Subset
<1>3. /\ Cardinality(Counted(f)') \in Nat /\ Cardinality(Holders(f)') \in Nat
      /\ Cardinality(Counted(f)) \in Nat
  BY <1>2, PlanFinite, FS_CardinalityType
<1> QED
  BY <1>1, <1>3, PlanFinite DEF PlanRoom

\* What SetActive does to the counted channels: it adds one only for a feature
\* that was checked.
LEMMA SetActiveCounts ==
    ASSUME PlanTypes, NEW c \in Channels, NEW active \in BOOLEAN, NEW checked,
           SetActive(c, active, checked), NEW f \in Features
    PROVE  /\ Counted(f)' \subseteq Counted(f) \cup {c}
           /\ ~active \/ f \notin checked => Counted(f)' \subseteq Counted(f)
  BY DEF PlanTypes, SetActive, Counted, Active

LEMMA SetActiveTypes ==
    ASSUME PlanTypes, NEW c \in Channels, NEW active \in BOOLEAN, NEW checked,
           SetActive(c, active, checked)
    PROVE  /\ channelRow' \in [Channels -> {"absent", "inactive", "active"}]
           /\ bypassed' \in [Features -> SUBSET Channels]
  BY DEF PlanTypes, SetActive

\* A saver that goes on to record b, the channels left alone.
LEMMA SaverMoves ==
    ASSUME PlanTypes, CheckedAsked, NEW h \in Savers, NEW b \in Saves,
           saving' = [saving EXCEPT ![h] = b],
           b.checked \subseteq {f \in Features : b.channel \in Concerned(f)},
           UNCHANGED <<channelRow, bypassed>>
    PROVE  /\ PlanTypes' /\ CheckedAsked'
           /\ \A f \in Features : /\ Counted(f)' = Counted(f)
                                  /\ Holders(f)' \subseteq Holders(f) \cup {h}
<1>1. PlanTypes'
  BY DEF PlanTypes, Saves
<1>2. CheckedAsked'
  BY DEF PlanTypes, CheckedAsked, Asked
<1>3. ASSUME NEW f \in Features
      PROVE  Counted(f)' = Counted(f) /\ Holders(f)' \subseteq Holders(f) \cup {h}
  BY <1>3 DEF Counted, Active, Holders, PlanTypes
<1> QED
  BY <1>1, <1>2, <1>3

LEMMA LookKeepsInv ==
    ASSUME PlanInv, NEW h \in Savers, NEW c \in Channels, NEW active \in BOOLEAN,
           Look(h, c, active)
    PROVE  PlanInv'
<1> DEFINE b == [step |-> IF channelRow[c] = "absent" /\ active THEN "count" ELSE "save",
                 channel |-> c, active |-> active, used |-> NoUse, checked |-> {}]
<1>1. b \in Saves
  BY DEF Saves, NoUse
<1>2. saving' = [saving EXCEPT ![h] = b] /\ b.checked = {} /\ b # NoSave
  BY DEF Look, NoSave
<1> HIDE DEF b
<1>3. /\ PlanTypes' /\ CheckedAsked'
      /\ \A f \in Features : Counted(f)' = Counted(f) /\ Holders(f)' \subseteq Holders(f) \cup {h}
  BY <1>1, <1>2, SaverMoves DEF PlanInv, Look
<1>4. saving'[h].checked = {}
  BY <1>2 DEF PlanInv, PlanTypes
<1>5. \A f \in Features : h \notin Holders(f)'
  BY <1>4 DEF Holders
<1> QED
  BY <1>3, <1>5, RoomStays DEF PlanInv

LEMMA CountKeepsInv ==
    ASSUME PlanInv, NEW h \in Savers, CountUsage(h)
    PROVE  PlanInv'
<1>1. saving[h] \in Saves
  <2>1. saving[h].step = "count"
    BY DEF CountUsage
  <2> QED
    BY <2>1 DEF PlanInv, PlanTypes, NoSave, Saves
<1>2. PICK answered \in SUBSET Asked(h) :
         saving' = [saving EXCEPT
             ![h].step = "enforce",
             ![h].used = [f \in Features |->
                             IF f \in answered THEN Cardinality(Active(f)) ELSE 0],
             ![h].checked = answered]
  BY DEF CountUsage
<1> DEFINE use == [f \in Features |-> IF f \in answered THEN Cardinality(Active(f)) ELSE 0]
           b == [saving[h] EXCEPT !.step = "enforce", !.used = use, !.checked = answered]
<1>3. use \in [Features -> Nat] /\ answered \subseteq Features
  BY PlanFinite DEF Asked
<1>4. /\ saving' = [saving EXCEPT ![h] = b]
  BY <1>2 DEF PlanInv, PlanTypes
<1> HIDE DEF use
<1>5. b \in Saves /\ b.channel = saving[h].channel /\ b.checked = answered
      /\ b.used = use /\ b.step = "enforce"
  BY <1>1, <1>3 DEF Saves
<1> HIDE DEF b
<1>6. b.checked \subseteq {f \in Features : b.channel \in Concerned(f)}
  BY <1>5 DEF Asked
<1>7. /\ PlanTypes' /\ CheckedAsked'
      /\ \A f \in Features : Counted(f)' = Counted(f) /\ Holders(f)' \subseteq Holders(f) \cup {h}
  BY <1>4, <1>5, <1>6, SaverMoves DEF PlanInv, CountUsage
<1>8. saving'[h] = b
  BY <1>4 DEF PlanInv, PlanTypes
<1>9. ASSUME NEW f \in Features
      PROVE  Cardinality(Counted(f)') + Cardinality(Holders(f)')
                 <= TopLimit + Cardinality(Savers) - 1
  <2>1. IsFiniteSet(Holders(f)') /\ Cardinality(Holders(f)') <= Cardinality(Savers)
    <3>1. Holders(f)' \subseteq Savers
      BY DEF Holders
    <3> QED
      BY <3>1, PlanFinite, FS_Subset
  <2>2. /\ Cardinality(Counted(f)) \in Nat
        /\ Cardinality(Holders(f)') \in Nat
        /\ Cardinality(Counted(f)') = Cardinality(Counted(f))
    BY <1>7, <2>1, PlanFinite, FS_CardinalityType
  <2>3. CASE h \in Holders(f)'
    <3>1. f \in answered /\ Cardinality(Active(f)) < TopLimit
      BY <1>5, <1>8, <2>3 DEF Holders, use
    <3> QED
      BY <2>1, <2>2, <3>1, PlanFinite
  <2>4. CASE h \notin Holders(f)'
    <3>1. Cardinality(Counted(f)') + Cardinality(Holders(f)')
             <= Cardinality(Counted(f)) + Cardinality(Holders(f))
      BY <1>7, <2>4, PlanFinite, Shrinks
    <3> QED
      BY <2>2, <3>1, PlanFinite DEF PlanInv, PlanRoom
  <2> QED
    BY <2>3, <2>4
<1> QED
  BY <1>7, <1>9 DEF PlanInv, PlanRoom

\* The limits a passed check compared with are none (negative) or above what was used.
LEMMA EnforceKeepsInv ==
    ASSUME PlanInv, NEW h \in Savers, Enforce(h)
    PROVE  PlanInv'
<1>1. saving[h] \in Saves /\ saving[h] # NoSave
  BY DEF PlanInv, PlanTypes, Enforce, NoSave, Saves
<1>2. PICK limits \in [Asked(h) -> LimitValues] :
         saving' = [saving EXCEPT ![h] =
             IF \A f \in Asked(h) : Within(saving[h].used[f], limits[f])
             THEN [@ EXCEPT !.step = "save", !.used = NoUse,
                            !.checked = {f \in saving[h].checked : limits[f] >= 0}]
             ELSE NoSave]
  BY DEF Enforce
<1>3. CASE \A f \in Asked(h) : Within(saving[h].used[f], limits[f])
  <2> DEFINE left == {f \in saving[h].checked : limits[f] >= 0}
             b == [saving[h] EXCEPT !.step = "save", !.used = NoUse, !.checked = left]
  <2>1. saving' = [saving EXCEPT ![h] = b]
    <3> DEFINE passed == \A f \in Asked(h) : Within(saving[h].used[f], limits[f])
    <3>1. saving' = [saving EXCEPT ![h] = IF passed THEN b ELSE NoSave]
      BY <1>2
    <3>2. passed
      BY <1>3
    <3> HIDE DEF passed, b
    <3> QED
      BY <3>1, <3>2
  <2>2. left \subseteq saving[h].checked /\ left \subseteq Features /\ NoUse \in [Features -> Nat]
    BY <1>1 DEF Saves, NoUse
  <2>3. b \in Saves /\ b.channel = saving[h].channel /\ b.checked = left
    BY <1>1, <2>2 DEF Saves
  <2>4. left \subseteq Asked(h)
    BY <1>1, <2>2 DEF PlanInv, CheckedAsked
  <2> HIDE DEF b
  <2>5. b.checked \subseteq {f \in Features : b.channel \in Concerned(f)}
    BY <2>3, <2>4 DEF Asked
  <2>6. /\ PlanTypes' /\ CheckedAsked'
        /\ \A f \in Features : Counted(f)' = Counted(f) /\ Holders(f)' \subseteq Holders(f) \cup {h}
    BY <2>1, <2>3, <2>5, SaverMoves DEF PlanInv, Enforce
  <2>7. saving'[h].checked = left
    BY <2>1, <2>3 DEF PlanInv, PlanTypes
  <2>8. ASSUME NEW f \in Features, h \in Holders(f)'
        PROVE  h \in Holders(f)
    <3>1. f \in saving[h].checked /\ f \in Asked(h) /\ limits[f] >= 0
      BY <2>4, <2>7, <2>8 DEF Holders
    <3>2. Within(saving[h].used[f], limits[f]) /\ limits[f] \in Int /\ limits[f] <= TopLimit
      BY <1>3, <3>1, PlanAssumption
    <3>3. saving[h].used[f] \in Nat
      BY <1>1, <2>8 DEF Saves
    <3>4. saving[h].used[f] < TopLimit
      BY <3>1, <3>2, <3>3, PlanAssumption DEF Within
    <3> QED
      BY <1>1, <3>1, <3>4 DEF Holders, Enforce
  <2> QED
    BY <2>6, <2>8, RoomStays DEF PlanInv
<1>4. CASE ~\A f \in Asked(h) : Within(saving[h].used[f], limits[f])
  <2>1. saving' = [saving EXCEPT ![h] = NoSave]
    BY <1>2, <1>4
  <2>2. PlanTypes' /\ CheckedAsked'
    BY <2>1 DEF Enforce, PlanInv, PlanTypes, CheckedAsked, Asked
  <2>3. \A f \in Features : Counted(f)' = Counted(f) /\ Holders(f)' \subseteq Holders(f)
    BY <2>1 DEF Enforce, PlanInv, PlanTypes, Counted, Active, Holders
  <2> QED
    BY <2>2, <2>3, RoomStays DEF PlanInv
<1> QED
  BY <1>3, <1>4

\* The save of a checked channel gives up the saver's place for the channel's.
LEMMA SaveKeepsInv ==
    ASSUME PlanInv, NEW h \in Savers, Save(h)
    PROVE  PlanInv'
<1>1. saving[h] \in Saves /\ saving[h] # NoSave
  BY DEF PlanInv, PlanTypes, Save, NoSave, Saves
<1> DEFINE c == saving[h].channel
           checked == saving[h].checked
<1>2. /\ c \in Channels /\ saving[h].active \in BOOLEAN
      /\ SetActive(c, saving[h].active, checked)
      /\ saving' = [saving EXCEPT ![h] = NoSave]
  BY <1>1 DEF Save, Saves
<1>3. PlanTypes' /\ CheckedAsked'
  BY <1>2, SetActiveTypes DEF PlanInv, PlanTypes, CheckedAsked, Asked
<1>4. ASSUME NEW f \in Features
      PROVE  Holders(f)' \subseteq Holders(f) \ {h}
  BY <1>2 DEF PlanInv, PlanTypes, Holders
<1>5. ASSUME NEW f \in Features
      PROVE  Cardinality(Counted(f)') + Cardinality(Holders(f)')
                 <= TopLimit + Cardinality(Savers) - 1
  <2>1. Cardinality(Counted(f)') + Cardinality(Holders(f)')
             <= Cardinality(Counted(f)) + Cardinality(Holders(f))
    <3>1. CASE f \in checked
      <4>1. h \in Holders(f)
        BY <1>1, <3>1 DEF Holders, Save
      <4>2. Counted(f)' \subseteq Counted(f) \cup {c}
        BY <1>2, SetActiveCounts DEF PlanInv
      <4> QED
        BY <1>4, <4>1, <4>2, PlanFinite, Trades
    <3>2. CASE f \notin checked
      <4>1. Counted(f)' \subseteq Counted(f)
        BY <1>2, <3>2, SetActiveCounts DEF PlanInv
      <4>2. Holders(f)' \subseteq Holders(f)
        BY <1>4
      <4> QED
        BY <4>1, <4>2, PlanFinite, Shrinks
    <3> QED
      BY <3>1, <3>2
  <2>2. IsFiniteSet(Counted(f)') /\ IsFiniteSet(Holders(f)')
    <3>1. /\ Counted(f)' \subseteq Counted(f) \cup {c}
          /\ Holders(f)' \subseteq Holders(f)
      BY <1>2, <1>4, SetActiveCounts DEF PlanInv
    <3> QED
      BY <3>1, PlanFinite, FS_AddElement, FS_Subset
  <2>3. /\ Cardinality(Counted(f)') \in Nat /\ Cardinality(Holders(f)') \in Nat
        /\ Cardinality(Counted(f)) \in Nat
    BY <2>2, PlanFinite, FS_CardinalityType
  <2> QED
    BY <2>1, <2>3, PlanFinite DEF PlanInv, PlanRoom
<1> QED
  BY <1>3, <1>5 DEF PlanInv, PlanRoom

LEMMA OtherRoutesKeepInv ==
    ASSUME PlanInv,
           \/ \E h \in Savers : SaveFails(h)
           \/ \E c \in Channels, active \in BOOLEAN : Switch(c, active)
           \/ \E cs \in SUBSET Channels : Delete(cs)
           \/ UNCHANGED planVars
    PROVE  PlanInv'
<1>1. ASSUME NEW h \in Savers, SaveFails(h)
      PROVE  PlanInv'
  <2>1. PlanTypes' /\ CheckedAsked'
    BY <1>1 DEF SaveFails, PlanInv, PlanTypes, CheckedAsked, Asked
  <2>2. \A f \in Features : Counted(f)' = Counted(f) /\ Holders(f)' \subseteq Holders(f)
    BY <1>1 DEF SaveFails, PlanInv, PlanTypes, Counted, Active, Holders
  <2> QED
    BY <2>1, <2>2, RoomStays DEF PlanInv
<1>2. ASSUME NEW c \in Channels, NEW active \in BOOLEAN, Switch(c, active)
      PROVE  PlanInv'
  <2>1. SetActive(c, active, {}) /\ saving' = saving
    BY <1>2 DEF Switch
  <2>2. PlanTypes' /\ CheckedAsked'
    BY <2>1, SetActiveTypes DEF PlanInv, PlanTypes, CheckedAsked, Asked
  <2>3. \A f \in Features : Counted(f)' \subseteq Counted(f)
    BY <2>1, SetActiveCounts DEF PlanInv
  <2>4. \A f \in Features : Holders(f)' = Holders(f)
    BY <2>1 DEF Holders
  <2> QED
    BY <2>2, <2>3, <2>4, RoomStays DEF PlanInv
<1>3. ASSUME NEW cs \in SUBSET Channels, Delete(cs)
      PROVE  PlanInv'
  <2>1. PlanTypes' /\ CheckedAsked'
    BY <1>3 DEF Delete, PlanInv, PlanTypes, CheckedAsked, Asked
  <2>2. \A f \in Features : Counted(f)' \subseteq Counted(f) /\ Holders(f)' = Holders(f)
    BY <1>3 DEF Delete, PlanInv, PlanTypes, Counted, Active, Concerned, Holders
  <2> QED
    BY <2>1, <2>2, RoomStays DEF PlanInv
<1>4. ASSUME UNCHANGED planVars
      PROVE  PlanInv'
  <2>1. PlanTypes' /\ CheckedAsked'
    BY <1>4 DEF planVars, PlanInv, PlanTypes, CheckedAsked, Asked
  <2>2. \A f \in Features : Counted(f)' = Counted(f) /\ Holders(f)' = Holders(f)
    BY <1>4 DEF planVars, Counted, Active, Holders
  <2> QED
    BY <2>1, <2>2, RoomStays DEF PlanInv
<1> QED
  BY <1>1, <1>2, <1>3, <1>4

LEMMA PlanStepKeepsInv == PlanInv /\ [PlanNext]_planVars => PlanInv'
<1> SUFFICES ASSUME PlanInv, [PlanNext]_planVars PROVE PlanInv'
  OBVIOUS
<1>1. ASSUME NEW c \in Channels, Delete({c}) \/ Delete({d \in Channels : Type[d] = Type[c]})
      PROVE  PlanInv'
  BY <1>1, OtherRoutesKeepInv
<1> QED
  BY <1>1, LookKeepsInv, CountKeepsInv, EnforceKeepsInv, SaveKeepsInv, OtherRoutesKeepInv
  DEF PlanNext, SaverStep

\* billing/plan-limits.ts with webhooks/alerting.ts: check and save are apart, yet
\* of the channels that were counted never more are active than the largest limit
\* plus one for each further saver.
THEOREM OvershootIsBounded == PlanSpec => []OvershootBounded
<1>1. PlanInv => OvershootBounded
  <2> SUFFICES ASSUME PlanInv, NEW f \in Features
               PROVE  Cardinality(Counted(f)) <= TopLimit + Cardinality(Savers) - 1
    BY DEF OvershootBounded, Counted
  <2>1. Cardinality(Counted(f)) \in Nat
    BY PlanFinite, FS_CardinalityType
  <2> QED
    BY <2>1, PlanFinite DEF PlanInv, PlanRoom
<1> QED
  BY <1>1, PlanInitInv, PlanStepKeepsInv, PTL DEF PlanSpec

(***************************************************************************)
(* Overage billing.                                                        *)
(*                                                                         *)
(* Between the steps of a run its invoice is a draft, then open, then paid *)
(* (RunsInvoiceInOrder), and no run has an invoice of a day to come        *)
(* (NoLaterInvoice), so at midnight every process starts without one.      *)
(* RowsFollowMeter carries NotOvercharged from the meter's row, and from   *)
(* the count a run has read, to the invoice.                               *)
(***************************************************************************)

Steps == {"invoice", "finalize", "pay", "record"}
Job(m, n, s) == [step |-> s, month |-> m, calls |-> n]
JobRecords == [step : Steps, month : Months, calls : 1..MaxOver]

Earlier(d, e) == d[1] < e[1] \/ (d[1] = e[1] /\ d[2] <= e[2])
NoLaterInvoice == \A i \in invoices : Earlier(i.date, today)

RunsInvoiceInOrder ==
    \A p \in Processes :
        /\ ~ran[p] => job[p] = NoJob /\ InvoiceOf(p) = {}
        /\ job[p].step = "invoice" => InvoiceOf(p) = {}
        /\ job[p].step = "finalize" => \A i \in InvoiceOf(p) : i.state = "draft"
        /\ job[p].step = "record" => \A i \in InvoiceOf(p) : i.state = "paid"

RowsFollowMeter ==
    /\ \A m \in Months \ straddled : overage[m] <= used[m]
    /\ \A p \in Processes :
          job[p] # NoJob /\ job[p].month \notin straddled =>
              job[p].calls >= MinCalls /\ job[p].calls <= used[job[p].month]

BillInv ==
    /\ BillTypes /\ today[1] >= 1
    /\ NoLaterInvoice /\ RunsInvoiceInOrder /\ RowsFollowMeter
    /\ ChargesAccounted

-----------------------------------------------------------------------------

\* A date is a pair of numbers.
LEMMA DateType == ASSUME NEW d \in Dates PROVE d[1] \in Nat /\ d[2] \in Nat
<1>1. d \in Months \X (1..31)
  BY DEF Dates
<1>2. d[1] \in Months /\ d[2] \in 1..31
  BY <1>1
<1>3. LastMonth \in Nat
  BY BillingAssumption
<1> QED
  BY <1>2, <1>3 DEF Months

LEMMA BillInitInv == BillInit => BillInv
<1> SUFFICES ASSUME BillInit PROVE BillInv
  OBVIOUS
<1>1. today \in Dates /\ today[1] >= 1
  BY BillingAssumption DEF BillInit, Dates, Months
<1>2. BillTypes
  BY <1>1, BillingAssumption DEF BillInit, BillTypes
<1>3. NoLaterInvoice /\ RunsInvoiceInOrder
  BY DEF BillInit, NoLaterInvoice, RunsInvoiceInOrder, InvoiceOf, NoJob
<1>4. RowsFollowMeter /\ ChargesAccounted
  BY DEF BillInit, RowsFollowMeter, ChargesAccounted, BooksAreBacked, OncePerRun, NotOvercharged
<1> QED
  BY <1>1, <1>2, <1>3, <1>4 DEF BillInv

\* The meter moves up, or writes what it has counted; the job is left alone.
LEMMA MeterKeepsInv ==
    ASSUME BillInv, NEW h \in Meters, Incr(h) \/ Upsert(h)
    PROVE  BillInv'
<1>1. /\ UNCHANGED <<today, job, ran, invoices, billed>>
      /\ today \in Dates /\ today[1] \in Months
      /\ used \in [Months -> 0..MaxOver] /\ overage \in [Months -> 0..MaxOver]
      /\ metering \in [Meters -> 0..MaxOver]
      /\ MaxOver \in Nat
  BY BillingAssumption DEF Incr, Upsert, BillInv, BillTypes, Dates
<1>2. /\ used' \in [Months -> 0..MaxOver] /\ overage' \in [Months -> 0..MaxOver]
      /\ metering' \in [Meters -> 0..MaxOver]
      /\ straddled \subseteq straddled' /\ straddled' \subseteq Months
      /\ \A m \in Months : used[m] <= used'[m]
  <2>1. CASE Incr(h)
    BY <1>1, <2>1 DEF Incr, BillInv, BillTypes
  <2>2. CASE Upsert(h)
    BY <1>1, <2>2 DEF Upsert, BillInv, BillTypes
  <2> QED
    BY <2>1, <2>2
<1>3. \A m \in Months \ straddled' : overage'[m] <= used'[m]
  <2>1. CASE Incr(h)
    BY <1>1, <1>2, <2>1 DEF Incr, BillInv, RowsFollowMeter
  <2>2. CASE Upsert(h)
    BY <1>1, <1>2, <2>2 DEF Upsert, BillInv, RowsFollowMeter
  <2> QED
    BY <2>1, <2>2
<1>4. BillTypes'
  BY <1>1, <1>2 DEF BillInv, BillTypes
<1>5. NoLaterInvoice' /\ RunsInvoiceInOrder' /\ BooksAreBacked' /\ OncePerRun'
  BY <1>1 DEF BillInv, NoLaterInvoice, RunsInvoiceInOrder, InvoiceOf, ChargesAccounted,
     BooksAreBacked, OncePerRun
<1>6. RowsFollowMeter'
  <2>1. ASSUME NEW p \in Processes, job[p] # NoJob, job[p].month \notin straddled'
        PROVE  job[p].calls >= MinCalls /\ job[p].calls <= used'[job[p].month]
    <3>1. job[p].month \in Months /\ job[p].calls \in Nat
      BY <2>1 DEF BillInv, BillTypes
    <3>2. job[p].calls >= MinCalls /\ job[p].calls <= used[job[p].month]
      BY <1>2, <2>1 DEF BillInv, RowsFollowMeter
    <3> QED
      BY <1>1, <1>2, <3>1, <3>2
  <2> QED
    BY <1>1, <1>3, <2>1 DEF RowsFollowMeter
<1>7. NotOvercharged'
  <2>1. ASSUME NEW i \in invoices, i.month \notin straddled'
        PROVE  i.calls >= MinCalls /\ i.calls <= used'[i.month]
    <3>1. i.month \in Months /\ i.calls \in Nat
      BY DEF BillInv, BillTypes, Invoices
    <3>2. i.calls >= MinCalls /\ i.calls <= used[i.month]
      BY <1>2, <2>1 DEF BillInv, ChargesAccounted, NotOvercharged
    <3> QED
      BY <1>1, <1>2, <3>1, <3>2
  <2> QED
    BY <1>1, <2>1 DEF NotOvercharged
<1> QED
  BY <1>1, <1>4, <1>5, <1>6, <1>7 DEF BillInv, ChargesAccounted

\* Process p goes on to b, and the meter is left alone.
LEMMA JobMoves ==
    ASSUME BillInv, NEW p \in Processes, NEW b \in {NoJob} \cup JobRecords,
           job' = [job EXCEPT ![p] = b],
           b # NoJob /\ b.month \notin straddled =>
               b.calls >= MinCalls /\ b.calls <= used[b.month],
           UNCHANGED <<today, used, metering, overage, straddled>>
    PROVE  /\ job' \in [Processes -> {NoJob} \cup JobRecords]
           /\ RowsFollowMeter'
           /\ \A q \in Processes \ {p} : job'[q] = job[q]
           /\ job'[p] = b
<1>1. job \in [Processes -> {NoJob} \cup JobRecords]
  BY DEF BillInv, BillTypes, JobRecords, Steps
<1>2. /\ job' \in [Processes -> {NoJob} \cup JobRecords]
      /\ \A q \in Processes \ {p} : job'[q] = job[q]
      /\ job'[p] = b
  BY <1>1
<1>3. RowsFollowMeter'
  BY <1>2 DEF BillInv, RowsFollowMeter
<1> QED
  BY <1>2, <1>3

LEMMA BillingMonthType == ASSUME BillInv PROVE BillingMonth \in Months
<1>1. today[1] \in Months /\ today[1] >= 1
  BY DEF BillInv, BillTypes, Dates
<1> QED
  BY <1>1, BillingAssumption DEF BillingMonth, Months

\* A run starts without an invoice, with a count the meter backs.
LEMMA SelectKeepsInv ==
    ASSUME BillInv, NEW p \in Processes, Select(p)
    PROVE  BillInv'
<1> DEFINE m == BillingMonth
           b == IF Due(m) THEN Job(m, overage[m], "invoice") ELSE NoJob
<1>1. m \in Months /\ overage[m] \in 0..MaxOver
  BY BillingMonthType DEF BillInv, BillTypes
<1>2. Due(m) => overage[m] >= MinCalls
  BY DEF Due
<1>3. b \in {NoJob} \cup JobRecords /\ (b # NoJob => Due(m) /\ b.month = m /\ b.calls = overage[m])
  BY <1>1, <1>2, BillingAssumption DEF Job, JobRecords, Steps
<1>4. job' = [job EXCEPT ![p] = b]
  BY DEF Select, Job
<1>5. b # NoJob => b.step = "invoice"
  BY DEF Job
<1>6. b # NoJob /\ b.month \notin straddled =>
          b.calls >= MinCalls /\ b.calls <= used[b.month]
  BY <1>1, <1>2, <1>3 DEF BillInv, RowsFollowMeter
<1> HIDE DEF b, m
<1>7. /\ job' \in [Processes -> {NoJob} \cup JobRecords]
      /\ RowsFollowMeter'
      /\ \A q \in Processes \ {p} : job'[q] = job[q]
      /\ job'[p] = b
  BY <1>3, <1>4, <1>6, JobMoves DEF Select
<1>8. ran' = [ran EXCEPT ![p] = TRUE] /\ ~ran[p]
      /\ UNCHANGED <<today, used, metering, overage, invoices, billed, straddled>>
  BY DEF Select
<1>9. BillTypes'
  BY <1>7, <1>8 DEF BillInv, BillTypes, JobRecords, Steps
<1>10. InvoiceOf(p) = {}
  BY <1>8 DEF BillInv, RunsInvoiceInOrder
<1>11. RunsInvoiceInOrder'
  <2>1. \A q : InvoiceOf(q)' = InvoiceOf(q)
    BY <1>8 DEF InvoiceOf
  <2>2. \A q \in Processes \ {p} : ran'[q] = ran[q]
    BY <1>8 DEF BillInv, BillTypes
  <2>3. ran'[p]
    BY <1>8 DEF BillInv, BillTypes
  <2>4. job'[p].step \notin {"finalize", "record"}
    BY <1>5, <1>7 DEF NoJob
  <2> QED
    BY <1>7, <1>10, <2>1, <2>2, <2>3, <2>4 DEF BillInv, RunsInvoiceInOrder
<1>12. NoLaterInvoice' /\ ChargesAccounted'
  BY <1>8 DEF BillInv, NoLaterInvoice, ChargesAccounted, BooksAreBacked, OncePerRun,
     NotOvercharged
<1> QED
  BY <1>7, <1>8, <1>9, <1>11, <1>12 DEF BillInv

\* A running job: process p has started today and its job is a record.
LEMMA RunningJob ==
    ASSUME BillInv, NEW p \in Processes, job[p] # NoJob, NEW s \in Steps
    PROVE  /\ job[p] \in JobRecords /\ ran[p]
           /\ [job[p] EXCEPT !.step = s] \in JobRecords
           /\ [job[p] EXCEPT !.step = s].step = s
           /\ [job[p] EXCEPT !.step = s].month = job[p].month
           /\ [job[p] EXCEPT !.step = s].calls = job[p].calls
<1>1. job[p] \in JobRecords
  BY DEF BillInv, BillTypes, JobRecords, Steps
<1>2. ran[p]
  BY DEF BillInv, RunsInvoiceInOrder
<1> QED
  BY <1>1, <1>2 DEF JobRecords

LEMMA GotoMoves ==
    ASSUME BillInv, NEW p \in Processes, job[p] # NoJob, NEW s \in Steps, Goto(p, s),
           UNCHANGED <<today, used, metering, overage, straddled>>
    PROVE  /\ job' \in [Processes -> {NoJob} \cup JobRecords]
           /\ RowsFollowMeter'
           /\ \A q \in Processes \ {p} : job'[q] = job[q]
           /\ job'[p] # NoJob /\ job'[p].step = s
<1> DEFINE b == [job[p] EXCEPT !.step = s]
<1>1. /\ b \in JobRecords /\ b.step = s
      /\ b.month = job[p].month /\ b.calls = job[p].calls
  BY RunningJob
<1>2. job' = [job EXCEPT ![p] = b]
  BY DEF Goto
<1> HIDE DEF b
<1>3. b.month \notin straddled => b.calls >= MinCalls /\ b.calls <= used[b.month]
  BY <1>1 DEF BillInv, RowsFollowMeter
<1>4. b # NoJob
  BY <1>1 DEF JobRecords, Steps, NoJob
<1> QED
  BY <1>1, <1>2, <1>3, <1>4, JobMoves

\* What giving an invoice a new state does: it stays the invoice of its run.
LEMMA SetStateKeeps ==
    ASSUME BillInv, NEW i \in invoices, NEW s \in {"draft", "open", "paid"}, SetState(i, s),
           i.state = "paid" => s = "paid",
           UNCHANGED <<today, used, straddled, billed>>
    PROVE  /\ invoices' \subseteq Invoices
           /\ NoLaterInvoice' /\ ChargesAccounted'
           /\ \A q : \A j \in InvoiceOf(q)' :
                 j \in InvoiceOf(q) \ {i} \/ (i \in InvoiceOf(q) /\ j.state = s)
<1> DEFINE n == [i EXCEPT !.state = s]
<1>1. invoices \subseteq Invoices
  BY DEF BillInv, BillTypes
<1>2. i \in Invoices
  BY <1>1
<1>3. /\ n \in Invoices /\ n.state = s
      /\ n.date = i.date /\ n.by = i.by /\ n.month = i.month /\ n.calls = i.calls
  BY <1>2 DEF Invoices
<1>4. invoices' = (invoices \ {i}) \cup {n}
  BY DEF SetState
<1> HIDE DEF n
<1>5. invoices' \subseteq Invoices
  BY <1>1, <1>3, <1>4
<1>6. NoLaterInvoice'
  BY <1>3, <1>4 DEF BillInv, NoLaterInvoice, Earlier
<1>7. BooksAreBacked'
  <2> SUFFICES ASSUME NEW id \in billed
               PROVE  \E j \in invoices' :
                         <<j.by, j.date>> = id[3] /\ <<j.month>> = id[2] /\ j.state = "paid"
    BY DEF BooksAreBacked
  <2>1. PICK j \in invoices :
           <<j.by, j.date>> = id[3] /\ <<j.month>> = id[2] /\ j.state = "paid"
    BY DEF BillInv, ChargesAccounted, BooksAreBacked
  <2>2. CASE j = i
    BY <1>3, <1>4, <2>1, <2>2
  <2>3. CASE j # i
    BY <1>4, <2>1, <2>3
  <2> QED
    BY <2>2, <2>3
<1>8. OncePerRun'
  <2>1. \A j, k \in invoices : j.by = k.by /\ j.date = k.date => j = k
    BY DEF BillInv, ChargesAccounted, OncePerRun
  <2> QED
    BY <1>3, <1>4, <2>1 DEF OncePerRun
<1>9. NotOvercharged'
  BY <1>3, <1>4 DEF BillInv, ChargesAccounted, NotOvercharged
<1>10. ASSUME NEW q, NEW j \in InvoiceOf(q)'
       PROVE  j \in InvoiceOf(q) \ {i} \/ (i \in InvoiceOf(q) /\ j.state = s)
  BY <1>3, <1>4 DEF InvoiceOf
<1> QED
  BY <1>5, <1>6, <1>7, <1>8, <1>9, <1>10 DEF ChargesAccounted

\* The step of a run that is about its own invoice: the other runs see nothing of it.
LEMMA OrderStep ==
    ASSUME BillInv, NEW p \in Processes, job[p] # NoJob,
           \A q \in Processes \ {p} : job'[q] = job[q] /\ InvoiceOf(q)' = InvoiceOf(q),
           ran' = ran,
           job'[p].step = "invoice" => InvoiceOf(p)' = {},
           job'[p].step = "finalize" => \A i \in InvoiceOf(p)' : i.state = "draft",
           job'[p].step = "record" => \A i \in InvoiceOf(p)' : i.state = "paid"
    PROVE  RunsInvoiceInOrder'
<1>1. ran[p]
  BY DEF BillInv, RunsInvoiceInOrder
<1>2. ASSUME NEW q \in Processes \ {p}
      PROVE  /\ ~ran'[q] => job'[q] = NoJob /\ InvoiceOf(q)' = {}
             /\ job'[q].step = "invoice" => InvoiceOf(q)' = {}
             /\ job'[q].step = "finalize" => \A i \in InvoiceOf(q)' : i.state = "draft"
             /\ job'[q].step = "record" => \A i \in InvoiceOf(q)' : i.state = "paid"
  BY <1>2 DEF BillInv, RunsInvoiceInOrder
<1> QED
  BY <1>1, <1>2 DEF RunsInvoiceInOrder

\* The one invoice of a run is made while there is none.
LEMMA InvoiceKeepsInv ==
    ASSUME BillInv, NEW p \in Processes, Invoice(p)
    PROVE  BillInv'
<1>1. job[p].step = "invoice" /\ job[p] # NoJob
  BY DEF Invoice, NoJob
<1> DEFINE n == [date |-> today, by |-> p, month |-> job[p].month, calls |-> job[p].calls,
                 state |-> "draft"]
<1>2. invoices' = invoices \cup {n}
      /\ UNCHANGED <<today, used, metering, overage, ran, billed, straddled>>
  BY DEF Invoice
<1>3. n \in Invoices /\ n.date = today /\ n.by = p /\ n.month = job[p].month
      /\ n.calls = job[p].calls /\ n.state = "draft"
  BY <1>1, RunningJob DEF JobRecords, Invoices, BillInv, BillTypes, Steps
<1> HIDE DEF n
<1>4. /\ job' \in [Processes -> {NoJob} \cup JobRecords]
      /\ RowsFollowMeter'
      /\ \A q \in Processes \ {p} : job'[q] = job[q]
      /\ job'[p].step = "finalize"
  BY <1>1, <1>2, GotoMoves DEF Invoice, Steps
<1>5. InvoiceOf(p) = {}
  BY <1>1 DEF BillInv, RunsInvoiceInOrder
<1>6. BillTypes'
  BY <1>2, <1>3, <1>4 DEF BillInv, BillTypes, JobRecords, Steps
<1>7. NoLaterInvoice'
  <2>1. today[1] \in Nat /\ today[2] \in Nat
    BY DateType DEF BillInv, BillTypes
  <2> QED
    BY <1>2, <1>3, <2>1 DEF BillInv, NoLaterInvoice, Earlier
<1>8. RunsInvoiceInOrder'
  <2>1. \A q \in Processes \ {p} : InvoiceOf(q)' = InvoiceOf(q)
    BY <1>2, <1>3 DEF InvoiceOf
  <2>2. InvoiceOf(p)' = {n}
    BY <1>2, <1>3, <1>5 DEF InvoiceOf
  <2>3. \A i \in InvoiceOf(p)' : i.state = "draft"
    BY <1>3, <2>2
  <2> QED
    BY <1>1, <1>2, <1>4, <2>1, <2>3, OrderStep
<1>9. BooksAreBacked'
  BY <1>2 DEF BillInv, ChargesAccounted, BooksAreBacked
<1>10. OncePerRun'
  <2>1. \A i \in invoices : ~(i.by = p /\ i.date = today)
    BY <1>5 DEF InvoiceOf
  <2>2. \A i, j \in invoices : i.by = j.by /\ i.date = j.date => i = j
    BY DEF BillInv, ChargesAccounted, OncePerRun
  <2> QED
    BY <1>2, <1>3, <2>1, <2>2 DEF OncePerRun
<1>11. NotOvercharged'
  BY <1>1, <1>2, <1>3 DEF BillInv, ChargesAccounted, NotOvercharged, RowsFollowMeter
<1> QED
  BY <1>2, <1>4, <1>6, <1>7, <1>8, <1>9, <1>10, <1>11 DEF BillInv, ChargesAccounted

LEMMA FinalizeKeepsInv ==
    ASSUME BillInv, NEW p \in Processes, Finalize(p)
    PROVE  BillInv'
<1>1. job[p].step = "finalize" /\ job[p] # NoJob
  BY DEF Finalize, NoJob
<1>2. PICK i \in InvoiceOf(p) : SetState(i, "open")
  BY DEF Finalize
<1>3. i \in invoices /\ i.state = "draft" /\ i.by = p
  BY <1>1 DEF BillInv, RunsInvoiceInOrder, InvoiceOf
<1>4. UNCHANGED <<today, used, metering, overage, ran, billed, straddled>>
  BY DEF Finalize
<1>5. /\ job' \in [Processes -> {NoJob} \cup JobRecords]
      /\ RowsFollowMeter'
      /\ \A q \in Processes \ {p} : job'[q] = job[q]
      /\ job'[p].step = "pay"
  BY <1>1, <1>4, GotoMoves DEF Finalize, Steps
<1>6. /\ invoices' \subseteq Invoices
      /\ NoLaterInvoice' /\ ChargesAccounted'
  BY <1>2, <1>3, <1>4, SetStateKeeps
<1>7. \A q \in Processes \ {p} : InvoiceOf(q)' = InvoiceOf(q)
  <2>1. i \in Invoices
    BY <1>3 DEF BillInv, BillTypes
  <2>2. [i EXCEPT !.state = "open"].by = p
    BY <1>3, <2>1 DEF Invoices
  <2> QED
    BY <1>2, <1>3, <1>4, <2>2 DEF SetState, InvoiceOf
<1>8. RunsInvoiceInOrder'
  BY <1>1, <1>4, <1>5, <1>7, OrderStep
<1>9. BillTypes'
  BY <1>4, <1>5, <1>6 DEF BillInv, BillTypes, JobRecords, Steps
<1> QED
  BY <1>4, <1>5, <1>6, <1>8, <1>9 DEF BillInv

\* Process p ends its job; nothing else moves.
LEMMA JobDone ==
    ASSUME BillInv, NEW p \in Processes, job' = [job EXCEPT ![p] = NoJob],
           UNCHANGED <<today, used, metering, overage, straddled>>
    PROVE  /\ job' \in [Processes -> {NoJob} \cup JobRecords]
           /\ RowsFollowMeter'
           /\ \A q \in Processes \ {p} : job'[q] = job[q]
           /\ job'[p].step = "idle"
<1>1. NoJob.step = "idle"
  BY DEF NoJob
<1> QED
  BY <1>1, JobMoves

LEMMA PayKeepsInv ==
    ASSUME BillInv, NEW p \in Processes, Pay(p)
    PROVE  BillInv'
<1>1. job[p].step = "pay" /\ job[p] # NoJob
  BY DEF Pay, NoJob
<1>2. PICK i \in InvoiceOf(p) : SetState(i, "paid")
  BY DEF Pay
<1>3. i \in invoices /\ i.by = p /\ i.date = today
  BY DEF InvoiceOf
<1>4. UNCHANGED <<today, used, metering, overage, ran, billed, straddled>>
  BY DEF Pay
<1>5. /\ job' \in [Processes -> {NoJob} \cup JobRecords]
      /\ RowsFollowMeter'
      /\ \A q \in Processes \ {p} : job'[q] = job[q]
      /\ job'[p].step \in {"record", "idle"}
  <2>1. CASE Goto(p, "record")
    BY <1>1, <1>4, <2>1, GotoMoves DEF Steps
  <2>2. CASE job' = [job EXCEPT ![p] = NoJob]
    BY <1>4, <2>2, JobDone
  <2> QED
    BY <2>1, <2>2 DEF Pay
<1>6. /\ invoices' \subseteq Invoices
      /\ NoLaterInvoice' /\ ChargesAccounted'
      /\ \A j \in InvoiceOf(p)' : j \in InvoiceOf(p) \ {i} \/ j.state = "paid"
  BY <1>2, <1>3, <1>4, SetStateKeeps
<1>7. \A q \in Processes \ {p} : InvoiceOf(q)' = InvoiceOf(q)
  <2>1. i \in Invoices
    BY <1>3 DEF BillInv, BillTypes
  <2>2. [i EXCEPT !.state = "paid"].by = p
    BY <1>3, <2>1 DEF Invoices
  <2> QED
    BY <1>2, <1>3, <1>4, <2>2 DEF SetState, InvoiceOf
<1>8. \A j \in InvoiceOf(p)' : j.state = "paid"
  <2>1. InvoiceOf(p) \ {i} = {}
    BY <1>3 DEF BillInv, ChargesAccounted, OncePerRun, InvoiceOf
  <2> QED
    BY <1>6, <2>1
<1>9. RunsInvoiceInOrder'
  BY <1>1, <1>4, <1>5, <1>7, <1>8, OrderStep
<1>10. BillTypes'
  BY <1>4, <1>5, <1>6 DEF BillInv, BillTypes, JobRecords, Steps
<1> QED
  BY <1>4, <1>5, <1>6, <1>9, <1>10 DEF BillInv

\* The books get the run's invoice, which is paid.
LEMMA RecordKeepsInv ==
    ASSUME BillInv, NEW p \in Processes, Record(p) \/ JobEnds(p)
    PROVE  BillInv'
<1>1. job[p] # NoJob /\ job' = [job EXCEPT ![p] = NoJob]
      /\ UNCHANGED <<today, used, metering, overage, ran, invoices, straddled>>
  BY DEF Record, JobEnds, NoJob
<1>2. /\ job' \in [Processes -> {NoJob} \cup JobRecords]
      /\ RowsFollowMeter'
      /\ \A q \in Processes \ {p} : job'[q] = job[q]
      /\ job'[p].step = "idle"
  BY <1>1, JobDone
<1>3. RunsInvoiceInOrder'
  <2>1. \A q : InvoiceOf(q)' = InvoiceOf(q)
    BY <1>1 DEF InvoiceOf
  <2> QED
    BY <1>1, <1>2, <2>1, OrderStep
<1>4. /\ billed' \subseteq {"overage"} \X {<<m>> : m \in Months} \X (Processes \X Dates)
      /\ BooksAreBacked'
  <2>1. CASE billed' = billed
    BY <1>1, <2>1 DEF BillInv, BillTypes, ChargesAccounted, BooksAreBacked
  <2>2. CASE Record(p)
    <3>1. PICK i \in InvoiceOf(p) :
             billed' = billed \cup {<<"overage", <<i.month>>, <<p, i.date>>>>}
      BY <2>2 DEF Record
    <3>2. i \in invoices /\ i.by = p /\ i.state = "paid" /\ i.month \in Months /\ i.date \in Dates
      BY <2>2 DEF Record, BillInv, BillTypes, Invoices, RunsInvoiceInOrder, InvoiceOf
    <3> DEFINE new == <<"overage", <<i.month>>, <<p, i.date>>>>
    <3>3. new[3] = <<p, i.date>> /\ new[2] = <<i.month>>
      OBVIOUS
    <3>4. new \in {"overage"} \X {<<m>> : m \in Months} \X (Processes \X Dates)
      BY <3>2
    <3>5. billed' = billed \cup {new}
      BY <3>1
    <3> HIDE DEF new
    <3>6. billed' \subseteq {"overage"} \X {<<m>> : m \in Months} \X (Processes \X Dates)
      BY <3>4, <3>5 DEF BillInv, BillTypes
    <3>7. BooksAreBacked'
      BY <1>1, <3>2, <3>3, <3>5 DEF BillInv, ChargesAccounted, BooksAreBacked
    <3> QED
      BY <3>6, <3>7
  <2> QED
    BY <2>1, <2>2 DEF JobEnds
<1>5. BillTypes'
  BY <1>1, <1>2, <1>4 DEF BillInv, BillTypes, JobRecords, Steps
<1>6. NoLaterInvoice' /\ OncePerRun' /\ NotOvercharged'
  BY <1>1 DEF BillInv, NoLaterInvoice, ChargesAccounted, OncePerRun, NotOvercharged
<1> QED
  BY <1>1, <1>2, <1>3, <1>4, <1>5, <1>6 DEF BillInv, ChargesAccounted

\* A payment that comes later finds the invoice open: its run is past that.
LEMMA CollectKeepsInv ==
    ASSUME BillInv, CollectLater
    PROVE  BillInv'
<1>1. PICK i \in invoices : i.state = "open" /\ SetState(i, "paid")
  BY DEF CollectLater
<1>2. UNCHANGED <<today, used, metering, overage, job, ran, billed, straddled>>
  BY DEF CollectLater
<1>3. /\ invoices' \subseteq Invoices
      /\ NoLaterInvoice' /\ ChargesAccounted'
      /\ \A q : \A j \in InvoiceOf(q)' :
            j \in InvoiceOf(q) \ {i} \/ (i \in InvoiceOf(q) /\ j.state = "paid")
  BY <1>1, <1>2, SetStateKeeps
<1>4. RunsInvoiceInOrder'
  <2> SUFFICES ASSUME NEW p \in Processes
               PROVE  /\ ~ran[p] => job[p] = NoJob /\ InvoiceOf(p)' = {}
                      /\ job[p].step = "invoice" => InvoiceOf(p)' = {}
                      /\ job[p].step = "finalize" => \A j \in InvoiceOf(p)' : j.state = "draft"
                      /\ job[p].step = "record" => \A j \in InvoiceOf(p)' : j.state = "paid"
    BY <1>2 DEF RunsInvoiceInOrder
  <2>1. InvoiceOf(p) = {} => InvoiceOf(p)' = {}
    BY <1>3
  <2>2. i \in InvoiceOf(p) => job[p].step \notin {"finalize", "record"}
    BY <1>1 DEF BillInv, RunsInvoiceInOrder
  <2> QED
    BY <1>3, <2>1, <2>2 DEF BillInv, RunsInvoiceInOrder
<1>5. BillTypes'
  BY <1>2, <1>3 DEF BillInv, BillTypes
<1>6. RowsFollowMeter'
  BY <1>2 DEF BillInv, RowsFollowMeter
<1> QED
  BY <1>2, <1>3, <1>4, <1>5, <1>6 DEF BillInv

\* Tomorrow is later than every invoice.
LEMMA MidnightKeepsInv ==
    ASSUME BillInv, Midnight
    PROVE  BillInv'
<1>1. /\ today' \in Dates
      /\ today' = IF today[2] < DaysIn[today[1]] THEN <<today[1], today[2] + 1>>
                  ELSE <<today[1] + 1, 1>>
      /\ \A p \in Processes : job[p] = NoJob
      /\ ran' = [p \in Processes |-> FALSE]
      /\ UNCHANGED <<used, metering, overage, job, invoices, billed, straddled>>
  BY DEF Midnight
<1>2. today \in Dates /\ today[1] \in Nat /\ today[2] \in Nat /\ today[1] >= 1
  BY DateType DEF BillInv, BillTypes
<1>3. \/ today'[1] = today[1] /\ today'[2] = today[2] + 1
      \/ today'[1] = today[1] + 1
  BY <1>1
<1>4. ASSUME NEW i \in invoices
      PROVE  Earlier(i.date, today)' /\ i.date # today'
  <2>1. Earlier(i.date, today)
    BY DEF BillInv, NoLaterInvoice
  <2>2. i.date[1] \in Nat /\ i.date[2] \in Nat
    BY DateType DEF BillInv, BillTypes, Invoices
  <2> QED
    BY <1>2, <1>3, <2>1, <2>2 DEF Earlier
<1>5. NoLaterInvoice'
  BY <1>1, <1>4 DEF NoLaterInvoice, Earlier
<1>6. RunsInvoiceInOrder'
  <2>1. \A p : InvoiceOf(p)' = {}
    BY <1>1, <1>4 DEF InvoiceOf
  <2> QED
    BY <1>1, <2>1 DEF RunsInvoiceInOrder
<1>7. BillTypes'
  BY <1>1 DEF BillInv, BillTypes
<1>8. today'[1] >= 1
  BY <1>2, <1>3
<1>9. RowsFollowMeter' /\ ChargesAccounted'
  BY <1>1 DEF BillInv, RowsFollowMeter, ChargesAccounted, BooksAreBacked, OncePerRun,
     NotOvercharged
<1> QED
  BY <1>5, <1>6, <1>7, <1>8, <1>9 DEF BillInv

LEMMA BillStepKeepsInv == BillInv /\ [BillNext]_billVars => BillInv'
<1> SUFFICES ASSUME BillInv, [BillNext]_billVars PROVE BillInv'
  OBVIOUS
<1>1. ASSUME UNCHANGED billVars
      PROVE  BillInv'
  BY <1>1 DEF billVars, BillInv, BillTypes, NoLaterInvoice, RunsInvoiceInOrder, InvoiceOf,
     RowsFollowMeter, ChargesAccounted, BooksAreBacked, OncePerRun, NotOvercharged, Earlier
<1> QED
  BY <1>1, MeterKeepsInv, SelectKeepsInv, InvoiceKeepsInv, FinalizeKeepsInv, PayKeepsInv,
     RecordKeepsInv, CollectKeepsInv, MidnightKeepsInv
  DEF BillNext, JobStep

\* billing/overage.ts: whatever crashes, is declined or answered too late, what the
\* books hold was collected, a run collects once, and a month is charged for no more
\* than the meter counted in it (unless a meter straddled the end of the month).
THEOREM ChargesAreAccounted == BillSpec => []ChargesAccounted
<1>1. BillInv => ChargesAccounted
  BY DEF BillInv
<1> QED
  BY <1>1, BillInitInv, BillStepKeepsInv, PTL DEF BillSpec

(***************************************************************************)
(* The spending shield.                                                    *)
(***************************************************************************)

\* A spend that is a number covers what is counted, but for what was credited.
Backs(spend) == spend = NaN \/ counted <= spend + credited

\* The limit held; where a spend is a number, it did.
LimitHolds     == counted = 0 \/ topLimit = NaN \/ counted <= topLimit + credited
Limited(spend) == spend = NaN \/ LimitHolds

\* A daily limit that was in force today.
Topped(daily) == topLimit = NaN \/ (daily # NaN /\ daily <= topLimit)

\* What a checkout in flight read covers what is counted: while it is in flight no
\* other checkout is counted.
ReadsCover == \A c \in InFlight : Backs(buying[c].spend) /\ Limited(buying[c].spend)

\* A checkout that did not race is alone.
UnracedAlone == \A c \in InFlight : c \notin raced => InFlight = {c}

\* So does the row; before it was reset today, nothing is counted.
RowCovers ==
    /\ Backs(limitRow.spend) /\ Limited(limitRow.spend)
    /\ limitRow.reset # spendDay => counted = 0

\* A checkout is about to reset the row only before anything is counted.
NothingBeforeReset == \A c \in Checkouts : buying[c].step = "reset" => counted = 0

\* A checkout that did not race finds the row as it read it: there, reset today,
\* and with a daily limit in force today.
UnracedSees ==
    \A c \in InFlight : c \notin raced =>
        /\ buying[c].hasRow => HasRow
        /\ buying[c].step = "write" /\ buying[c].hasRow => limitRow.reset = spendDay
        /\ Topped(buying[c].daily)

\* A checkout that will be allowed fits what it read, or that is not a number.
AllowedFits ==
    \A c \in Checkouts : buying[c].step = "write" =>
        ~Exceeds(Plus(buying[c].spend, buying[c].amount), buying[c].daily)

SpendInv ==
    /\ SpendTypes
    /\ ReadsCover /\ UnracedAlone /\ RowCovers /\ NothingBeforeReset
    /\ UnracedSees /\ AllowedFits
    /\ Topped(limitRow.daily)

USE SpendAssumption DEF NoBuy, NoRow, HasRow, InFlight

Rows  == [tx : Money, daily : Money, spend : Money, reset : 0..spendDay]
Reads == [step : {"reset", "write"}, amount : Amounts, hasRow : BOOLEAN,
          tx : Money, daily : Money, spend : Money]

-----------------------------------------------------------------------------

\* The record of a checkout in flight, and what changing one field of it gives.
LEMMA ReadsOf ==
    ASSUME SpendTypes, NEW c \in Checkouts, buying[c].step \in {"reset", "write"}
    PROVE  /\ buying[c] \in Reads
           /\ buying[c].spend \in Money /\ buying[c].amount \in Money /\ buying[c].daily \in Money
<1>1. buying[c] \in Buys
  BY DEF SpendTypes
<1>2. buying[c] \in Reads
  BY <1>1 DEF Buys, Reads
<1> QED
  BY <1>2 DEF Reads

LEMMA StepOf ==
    ASSUME NEW b \in Reads, NEW s \in {"reset", "write"}
    PROVE  /\ [b EXCEPT !.step = s] \in Reads
           /\ [b EXCEPT !.step = s].step = s
           /\ [b EXCEPT !.step = s].spend = b.spend
           /\ [b EXCEPT !.step = s].amount = b.amount
           /\ [b EXCEPT !.step = s].daily = b.daily
           /\ [b EXCEPT !.step = s].hasRow = b.hasRow
  BY DEF Reads

\* A row with a new spend and a new day of reset.
LEMMA RowOf ==
    ASSUME NEW row \in Rows, NEW n \in Money, NEW d \in 0..spendDay
    PROVE  /\ [row EXCEPT !.spend = n, !.reset = d] \in Rows
           /\ [row EXCEPT !.spend = n, !.reset = d].daily = row.daily
           /\ [row EXCEPT !.spend = n, !.reset = d].spend = n
           /\ [row EXCEPT !.spend = n, !.reset = d].reset = d
  BY DEF Rows

LEMMA SpendInitInv == SpendInit => SpendInv
<1> SUFFICES ASSUME SpendInit PROVE SpendInv
  OBVIOUS
<1>1. /\ Default.daily \in Nat /\ Default.tx \in Nat /\ Default.daily # NaN /\ 0 # NaN
      /\ Nat \subseteq Money
  BY DEF Money
<1>2. SpendTypes
  BY <1>1 DEF SpendInit, SpendTypes, Buys
<1>3. Topped(limitRow.daily) /\ RowCovers
  BY <1>1 DEF SpendInit, Topped, RowCovers, Backs, Limited, LimitHolds
<1> QED
  BY <1>2, <1>3
  DEF SpendInit, SpendInv, ReadsCover, UnracedAlone, NothingBeforeReset, UnracedSees, AllowedFits

\* What is credited only loosens.
Calm == /\ UNCHANGED <<spendDay, counted, topLimit>>
        /\ credited' \in Nat /\ credited' >= credited

LEMMA CalmKeeps ==
    ASSUME SpendTypes, Calm, NEW n \in Money
    PROVE  /\ Backs(n)  => n = NaN \/ counted' <= n + credited'
           /\ Limited(n) => n = NaN \/ LimitHolds'
<1>1. /\ counted' = counted /\ topLimit' = topLimit /\ credited' \in Nat /\ credited' >= credited
      /\ counted \in Nat /\ credited \in Nat
      /\ n # NaN => n \in Int
      /\ topLimit # NaN => topLimit \in Int
  BY DEF Calm, SpendTypes, Money
<1>2. Backs(n) => n = NaN \/ counted' <= n + credited'
  BY <1>1 DEF Backs
<1>3. LimitHolds => LimitHolds'
  BY <1>1 DEF LimitHolds
<1> QED
  BY <1>2, <1>3 DEF Limited

\* A checkout ends, and the row, if it changes, covers what is counted.
LEMMA LeaveKeepsInv ==
    ASSUME SpendInv, NEW c \in Checkouts, Calm,
           buying' = [buying EXCEPT ![c] = NoBuy],
           raced' = raced \ {c},
           cart' = cart,
           limitRow' \in Rows, limitRow'.daily = limitRow.daily,
           c \in InFlight \/ limitRow' = limitRow,
           limitRow'.spend = NaN \/ counted' <= limitRow'.spend + credited',
           limitRow'.spend = NaN \/ LimitHolds',
           limitRow'.reset # spendDay => counted = 0
    PROVE  SpendInv'
<1>1. /\ UNCHANGED <<spendDay, counted, topLimit>> /\ credited' \in Nat
      /\ InFlight' = InFlight \ {c}
      /\ \A d \in Checkouts : d # c => buying'[d] = buying[d]
      /\ buying'[c] = NoBuy
  BY DEF SpendInv, SpendTypes, Calm
<1>2. SpendTypes'
  BY <1>1 DEF SpendInv, SpendTypes, Rows, Buys
<1>3. ReadsCover'
  <2> SUFFICES ASSUME NEW d \in InFlight'
               PROVE  (Backs(buying[d].spend) /\ Limited(buying[d].spend))'
    BY DEF ReadsCover
  <2>1. d \in InFlight /\ buying'[d] = buying[d]
    BY <1>1
  <2>2. Backs(buying[d].spend) /\ Limited(buying[d].spend) /\ buying[d].spend \in Money
    BY <2>1, ReadsOf DEF SpendInv, ReadsCover
  <2>3. /\ buying[d].spend = NaN \/ counted' <= buying[d].spend + credited'
        /\ buying[d].spend = NaN \/ LimitHolds'
    BY <2>2, CalmKeeps DEF SpendInv
  <2> QED
    BY <2>1, <2>3 DEF Backs, Limited
<1>4. UnracedAlone'
  BY <1>1 DEF SpendInv, UnracedAlone
<1>5. RowCovers'
  BY <1>1 DEF RowCovers, Backs, Limited
<1>6. NothingBeforeReset' /\ AllowedFits'
  BY <1>1 DEF SpendInv, NothingBeforeReset, AllowedFits
<1>7. UnracedSees'
  <2> SUFFICES ASSUME NEW d \in InFlight', d \notin raced'
               PROVE  /\ buying'[d].hasRow => HasRow'
                      /\ buying'[d].step = "write" /\ buying'[d].hasRow => limitRow'.reset = spendDay'
                      /\ Topped(buying[d].daily)'
    BY DEF UnracedSees
  <2>1. d \in InFlight /\ d # c /\ d \notin raced /\ buying'[d] = buying[d]
    BY <1>1
  <2>2. limitRow' = limitRow
    BY <2>1 DEF SpendInv, UnracedAlone
  <2>3. /\ buying[d].hasRow => HasRow
        /\ buying[d].step = "write" /\ buying[d].hasRow => limitRow.reset = spendDay
        /\ Topped(buying[d].daily)
    BY <2>1 DEF SpendInv, UnracedSees
  <2> QED
    BY <1>1, <2>1, <2>2, <2>3 DEF Topped
<1>8. Topped(limitRow.daily)'
  BY <1>1 DEF SpendInv, Topped
<1> QED
  BY <1>2, <1>3, <1>4, <1>5, <1>6, <1>7, <1>8 DEF SpendInv

\* Leaving without touching the row.
LEMMA QuitKeepsInv ==
    ASSUME SpendInv, NEW c \in Checkouts,
           UNCHANGED <<spendDay, limitRow, cart, counted, credited, topLimit>>,
           buying' = [buying EXCEPT ![c] = NoBuy],
           raced' = raced \ {c}
    PROVE  SpendInv'
<1>1. Calm
  BY DEF Calm, SpendInv, SpendTypes
<1>2. /\ limitRow \in Rows /\ limitRow' = limitRow
      /\ limitRow'.spend = NaN \/ counted' <= limitRow'.spend + credited'
      /\ limitRow'.spend = NaN \/ LimitHolds'
      /\ limitRow'.reset # spendDay => counted = 0
  BY DEF SpendInv, SpendTypes, Rows, RowCovers, Backs, Limited, LimitHolds
<1> QED
  BY <1>1, <1>2, LeaveKeepsInv

\* Steps that change neither the row nor the histories, and put no checkout in flight.
LEMMA QuietKeepsInv ==
    ASSUME SpendInv,
           UNCHANGED <<spendDay, limitRow, counted, credited, raced, topLimit>>,
           cart' \in {EmptyCart} \cup [items : {TRUE}, total : Totals],
           \/ UNCHANGED buying
           \/ \E c \in Checkouts, a \in Amounts :
                 buying[c] = NoBuy /\ buying' = [buying EXCEPT ![c] = [step |-> "limits", amount |-> a]]
    PROVE  SpendInv'
<1>0. buying \in [Checkouts -> Buys] /\ buying' \in [Checkouts -> Buys]
  <2>1. buying \in [Checkouts -> Buys]
    BY DEF SpendInv, SpendTypes
  <2>2. \A a \in Amounts : [step |-> "limits", amount |-> a] \in Buys
    BY DEF Buys
  <2> QED
    BY <2>1, <2>2
<1>1. SpendTypes' /\ InFlight' = InFlight /\ \A c \in InFlight : buying'[c] = buying[c]
  <2>1. SpendTypes'
    BY <1>0 DEF SpendInv, SpendTypes
  <2>2. InFlight' = InFlight /\ \A c \in InFlight : buying'[c] = buying[c]
    BY <1>0
  <2> QED
    BY <2>1, <2>2
<1>2. \A c \in Checkouts : buying'[c].step \in {"reset", "write"} => buying'[c] = buying[c]
  BY DEF SpendInv, SpendTypes, Buys
<1> QED
  BY <1>1, <1>2
  DEF SpendInv, ReadsCover, UnracedAlone, RowCovers, Backs, Limited, LimitHolds, Topped,
      NothingBeforeReset, UnracedSees, AllowedFits

LEMMA ReadLimitsKeepsInv ==
    ASSUME SpendInv, NEW c \in Checkouts, ReadLimits(c)
    PROVE  SpendInv'
<1>1. buying[c] \in [step : {"limits"}, amount : Amounts] /\ c \notin InFlight
  BY DEF ReadLimits, SpendInv, SpendTypes, Buys
<1> DEFINE stale == HasRow /\ limitRow.reset < spendDay
           read  == [limitRow EXCEPT !.spend = IF stale THEN 0 ELSE @]
           buy   == [step |-> "reset", amount |-> buying[c].amount, hasRow |-> HasRow,
                     tx |-> read.tx, daily |-> read.daily, spend |-> read.spend]
           next  == IF stale THEN buy ELSE JudgedBuy(buy)
<1>0. /\ limitRow \in [tx : Money, daily : Money, spend : Money, reset : 0..spendDay]
      /\ counted \in Nat /\ credited \in Nat /\ spendDay \in Nat /\ 0 \in Money
  BY DEF SpendInv, SpendTypes, Money
<1>2. /\ buy \in [step : {"reset"}, amount : Amounts, hasRow : BOOLEAN,
                  tx : Money, daily : Money, spend : Money]
      /\ buy.daily = limitRow.daily /\ buy.spend = IF stale THEN 0 ELSE limitRow.spend
      /\ buy.hasRow = HasRow
  BY <1>0, <1>1
<1>3. /\ Backs(buy.spend) /\ Limited(buy.spend) /\ Topped(buy.daily)
      /\ stale => counted = 0
  BY <1>0, <1>2 DEF SpendInv, RowCovers, Backs, Limited, LimitHolds
<1>4. /\ buying' = [buying EXCEPT ![c] = next]
      /\ raced' = IF next = NoBuy \/ InFlight = {} THEN raced \ {c} ELSE raced \cup InFlight \cup {c}
      /\ UNCHANGED <<spendDay, limitRow, cart, counted, credited, topLimit>>
  BY DEF ReadLimits
<1>5. CASE next = NoBuy
  <2>1. buying' = [buying EXCEPT ![c] = NoBuy] /\ raced' = raced \ {c}
    BY <1>4, <1>5
  <2> QED
    BY <1>4, <2>1, QuitKeepsInv
<1>6. CASE next # NoBuy
  <2>1. /\ next = [buy EXCEPT !.step = next.step]
        /\ \/ next.step = "reset" /\ stale
           \/ next.step = "write" /\ ~stale /\ ~Exceeds(Plus(buy.spend, buy.amount), buy.daily)
    <3>1. CASE stale
      BY <1>2, <3>1
    <3>2. CASE ~stale
      <4>1. ~NeedsHuman(buy.amount, buy) /\ next = [buy EXCEPT !.step = "write"]
        BY <1>6, <3>2 DEF JudgedBuy
      <4>2. next.step = "write" /\ ~Exceeds(Plus(buy.spend, buy.amount), buy.daily)
        BY <1>2, <4>1 DEF NeedsHuman
      <4> QED
        BY <3>2, <4>1, <4>2
    <3> QED
      BY <3>1, <3>2
  <2>2. /\ next \in Reads /\ next.spend = buy.spend /\ next.amount = buy.amount
        /\ next.daily = buy.daily /\ next.hasRow = HasRow
    <3>1. buy \in Reads /\ buy.hasRow = HasRow
      BY <1>2 DEF Reads
    <3>2. next.step \in {"reset", "write"}
      BY <2>1
    <3>3. /\ [buy EXCEPT !.step = next.step] \in Reads
          /\ [buy EXCEPT !.step = next.step].spend = buy.spend
          /\ [buy EXCEPT !.step = next.step].amount = buy.amount
          /\ [buy EXCEPT !.step = next.step].daily = buy.daily
          /\ [buy EXCEPT !.step = next.step].hasRow = buy.hasRow
      <4> HIDE DEF buy, next
      <4> QED
        BY <3>1, <3>2, StepOf, Zenon
    <3> QED
      BY <2>1, <3>1, <3>3, Zenon
  <2> HIDE DEF buy, next
  <2>3. InFlight' = InFlight \cup {c} /\ buying'[c] = next
    BY <1>1, <1>4, <2>1 DEF SpendInv, SpendTypes
  <2>4. \A d \in Checkouts : d # c => buying'[d] = buying[d]
    BY <1>4 DEF SpendInv, SpendTypes
  <2>5. /\ \A d \in InFlight : d # c => d \in raced'
        /\ \A d \in InFlight' : d \notin raced' => d = c /\ InFlight = {}
    BY <1>1, <1>4, <1>6, <2>3
  <2>6. SpendTypes'
    BY <1>1, <1>4, <2>2 DEF Reads, SpendInv, SpendTypes, Buys
  <2>7. ReadsCover'
    BY <1>3, <1>4, <2>2, <2>3, <2>4 DEF SpendInv, ReadsCover, Backs, Limited, LimitHolds
  <2>8. UnracedAlone'
    BY <2>3, <2>5 DEF UnracedAlone
  <2>9. NothingBeforeReset'
    BY <1>3, <1>4, <2>1, <2>3, <2>4 DEF SpendInv, NothingBeforeReset
  <2>10. UnracedSees'
    <3>1. next.step = "write" /\ HasRow => limitRow.reset = spendDay
      BY <1>0, <2>1
    <3> QED
      <4> SUFFICES ASSUME NEW d \in InFlight', d \notin raced'
                   PROVE  /\ buying'[d].hasRow => HasRow'
                          /\ buying'[d].step = "write" /\ buying'[d].hasRow
                                => limitRow'.reset = spendDay'
                          /\ Topped(buying[d].daily)'
        BY DEF UnracedSees
      <4>1. d = c
        BY <2>5
      <4>2. buying'[c] = next
        BY <2>3
      <4> QED
        <5>1. /\ buying'[d].hasRow = HasRow /\ buying'[d].daily = buy.daily
              /\ buying'[d].step = next.step
          BY <2>2, <4>1, <4>2
        <5>2. HasRow' = HasRow /\ limitRow' = limitRow /\ UNCHANGED <<spendDay, topLimit>>
          BY <1>4
        <5>3. Topped(buying[d].daily)'
          BY <1>3, <5>1, <5>2 DEF Topped
        <5> QED
          BY <3>1, <5>1, <5>2, <5>3
  <2>11. AllowedFits'
    BY <1>4, <2>1, <2>2, <2>3, <2>4 DEF SpendInv, AllowedFits
  <2>12. RowCovers' /\ Topped(limitRow.daily)'
    BY <1>4 DEF SpendInv, RowCovers, Backs, Limited, LimitHolds, Topped
  <2> QED
    BY <2>6, <2>7, <2>8, <2>9, <2>10, <2>11, <2>12 DEF SpendInv
<1> QED
  BY <1>5, <1>6

LEMMA ResetKeepsInv ==
    ASSUME SpendInv, NEW c \in Checkouts, Reset(c)
    PROVE  SpendInv'
<1>1. /\ c \in InFlight /\ buying[c].step = "reset"
      /\ buying[c] \in Reads /\ buying[c].spend \in Money
  BY ReadsOf DEF Reset, SpendInv
<1>2. counted = 0 /\ UNCHANGED <<spendDay, cart, counted, credited, topLimit>>
  BY <1>1 DEF Reset, SpendInv, NothingBeforeReset
<1>3. /\ limitRow' \in Rows
      /\ limitRow'.daily = limitRow.daily
      /\ limitRow'.spend = limitRow.spend \/ limitRow'.spend = 0
      /\ HasRow' = HasRow
      /\ HasRow => limitRow'.reset = spendDay
  <2>1. limitRow \in Rows /\ 0 \in Money /\ spendDay \in 0..spendDay /\ spendDay # 0
    BY DEF Rows, SpendInv, SpendTypes, Money
  <2>2. CASE HasRow
    <3>1. limitRow' = [limitRow EXCEPT !.spend = 0, !.reset = spendDay]
      BY <2>2 DEF Reset
    <3>2. /\ limitRow' \in Rows /\ limitRow'.daily = limitRow.daily /\ limitRow'.reset = spendDay
          /\ limitRow'.spend = 0
      <4> DEFINE row == [limitRow EXCEPT !.spend = 0, !.reset = spendDay]
      <4>1. row \in Rows /\ row.daily = limitRow.daily /\ row.reset = spendDay /\ row.spend = 0
        BY <2>1 DEF Rows
      <4> HIDE DEF row
      <4> QED
        BY <3>1, <4>1 DEF row
    <3> QED
      BY <2>1, <2>2, <3>2
  <2>3. CASE ~HasRow
    BY <2>1, <2>3 DEF Reset
  <2> QED
    BY <2>2, <2>3
<1>4. Calm /\ LimitHolds' /\ LimitHolds
  BY <1>2 DEF Calm, LimitHolds, SpendInv, SpendTypes
<1>5. limitRow'.spend = NaN \/ counted' <= limitRow'.spend + credited'
  BY <1>2, <1>3 DEF SpendInv, SpendTypes, RowCovers, Backs
<1>6. \/ buying' = [buying EXCEPT ![c] = NoBuy] /\ raced' = raced \ {c}
      \/ /\ buying' = [buying EXCEPT ![c] = [buying[c] EXCEPT !.step = "write"]]
         /\ raced' = raced
         /\ ~Exceeds(Plus(buying[c].spend, buying[c].amount), buying[c].daily)
  <2>1. buying'[c] = JudgedBuy(buying[c])
    BY DEF Reset, SpendInv, SpendTypes
  <2>2. CASE NeedsHuman(buying[c].amount, buying[c])
    BY <2>1, <2>2 DEF Reset, JudgedBuy
  <2>3. CASE ~NeedsHuman(buying[c].amount, buying[c])
    <3>1. buying'[c] = [buying[c] EXCEPT !.step = "write"]
      BY <2>1, <2>3 DEF JudgedBuy
    <3>2. buying'[c].step = "write"
      BY <1>1, <3>1, StepOf
    <3>3. buying'[c] # NoBuy
      BY <3>2
    <3> QED
      BY <2>3, <3>1, <3>3 DEF Reset, JudgedBuy, NeedsHuman
  <2> QED
    BY <2>2, <2>3
<1>7. CASE buying' = [buying EXCEPT ![c] = NoBuy] /\ raced' = raced \ {c}
  BY <1>1, <1>2, <1>3, <1>4, <1>5, <1>7, LeaveKeepsInv
<1>8. CASE /\ buying' = [buying EXCEPT ![c] = [buying[c] EXCEPT !.step = "write"]]
           /\ raced' = raced
           /\ ~Exceeds(Plus(buying[c].spend, buying[c].amount), buying[c].daily)
  <2>1. /\ InFlight' = InFlight /\ buying'[c] = [buying[c] EXCEPT !.step = "write"]
        /\ \A d \in Checkouts : d # c => buying'[d] = buying[d]
    BY <1>1, <1>8, StepOf DEF SpendInv, SpendTypes
  <2>2. /\ buying'[c] \in Reads /\ buying'[c].step = "write"
        /\ buying'[c].spend = buying[c].spend /\ buying'[c].amount = buying[c].amount
        /\ buying'[c].daily = buying[c].daily /\ buying'[c].hasRow = buying[c].hasRow
    <3> DEFINE buy == [buying[c] EXCEPT !.step = "write"]
    <3>1. buy \in Reads /\ buy.step = "write" /\ buy.spend = buying[c].spend
          /\ buy.amount = buying[c].amount /\ buy.daily = buying[c].daily
          /\ buy.hasRow = buying[c].hasRow
      BY <1>1, StepOf
    <3>2. buying'[c] = buy
      BY <2>1
    <3> HIDE DEF buy
    <3> QED
      BY <3>1, <3>2
  <2>3. SpendTypes'
    BY <1>2, <1>3, <1>8, <2>1, <2>2 DEF Reads, Rows, SpendInv, SpendTypes, Buys
  <2>4. UnracedSees'
    BY <1>1, <1>2, <1>3, <1>8, <2>1, <2>2 DEF SpendInv, UnracedSees, UnracedAlone, Topped
  <2>5. ReadsCover' /\ UnracedAlone' /\ NothingBeforeReset'
    BY <1>1, <1>2, <1>8, <2>1, <2>2
    DEF SpendInv, ReadsCover, UnracedAlone, NothingBeforeReset, Backs, Limited, LimitHolds
  <2>6. AllowedFits'
    BY <1>1, <1>8, <2>1, <2>2 DEF SpendInv, AllowedFits
  <2>7. RowCovers' /\ Topped(limitRow.daily)'
    BY <1>2, <1>3, <1>4, <1>5 DEF SpendInv, RowCovers, Backs, Limited, Topped
  <2> QED
    BY <2>3, <2>4, <2>5, <2>6, <2>7 DEF SpendInv
<1> QED
  BY <1>6, <1>7, <1>8

\* What a negative amount takes off the spend is credited.
LEMMA CreditOf ==
    ASSUME SpendInv, NEW c \in Checkouts, buying[c].step = "write", WriteSpend(buying[c])
    PROVE  /\ credited' \in Nat /\ credited' >= credited
           /\ buying[c].amount # NaN => credited <= credited' + buying[c].amount
           /\ Exceeds(buying[c].amount, 0) => credited' = credited
<1>1. credited \in Nat /\ (buying[c].amount # NaN => buying[c].amount \in Int) /\ 0 # NaN
  <2>1. credited \in Nat
    BY DEF SpendInv, SpendTypes
  <2>2. buying[c].amount \in Money
    BY ReadsOf DEF SpendInv
  <2> QED
    BY <2>1, <2>2 DEF Money
<1>2. credited' = IF Exceeds(0, buying[c].amount) THEN credited - buying[c].amount ELSE credited
  BY DEF WriteSpend
<1>3. CASE buying[c].amount = NaN
  BY <1>1, <1>2, <1>3 DEF Exceeds
<1>4. CASE buying[c].amount # NaN
  BY <1>1, <1>2, <1>4 DEF Exceeds
<1> QED
  BY <1>3, <1>4

\* What a checkout writes, allowed or not, covers what was counted before it.
LEMMA WrittenCovers ==
    ASSUME SpendInv, NEW c \in Checkouts, buying[c].step = "write", WriteSpend(buying[c]),
           Calm
    PROVE  /\ limitRow' \in Rows
           /\ limitRow'.daily = limitRow.daily
           /\ limitRow'.spend = NaN \/ counted' <= limitRow'.spend + credited'
           /\ limitRow'.spend = NaN \/ LimitHolds'
           /\ limitRow'.reset # spendDay => counted = 0
           /\ buying[c].hasRow = HasRow =>
                 /\ limitRow'.spend = Plus(buying[c].spend, buying[c].amount)
                 /\ limitRow'.reset = IF HasRow THEN limitRow.reset ELSE spendDay
<1>1. /\ c \in InFlight
      /\ buying[c].spend \in Money /\ buying[c].amount \in Money
      /\ Backs(buying[c].spend) /\ Limited(buying[c].spend)
      /\ counted \in Nat /\ credited \in Nat /\ limitRow \in Rows /\ spendDay \in Nat
      /\ counted' = counted
  <2>1. c \in InFlight /\ buying[c].spend \in Money /\ buying[c].amount \in Money
    BY ReadsOf DEF SpendInv
  <2>2. Backs(buying[c].spend) /\ Limited(buying[c].spend)
    BY <2>1, Zenon DEF SpendInv, ReadsCover
  <2>3. counted \in Nat /\ credited \in Nat /\ limitRow \in Rows /\ spendDay \in Nat
    BY DEF SpendInv, SpendTypes, Rows
  <2> QED
    BY <2>1, <2>2, <2>3 DEF Calm
<1>2. limitRow' = Written(buying[c])
  BY DEF WriteSpend
<1>3. CASE buying[c].hasRow # HasRow
  <2>1. limitRow' = limitRow /\ limitRow.spend \in Money
    BY <1>1, <1>2, <1>3 DEF Written, Rows
  <2>2. /\ Backs(limitRow.spend) /\ Limited(limitRow.spend)
        /\ limitRow.reset # spendDay => counted = 0
    BY DEF SpendInv, RowCovers
  <2> QED
    BY <1>1, <1>3, <2>1, <2>2, CalmKeeps DEF SpendInv
<1>4. CASE buying[c].hasRow = HasRow
  <2> DEFINE n == Plus(buying[c].spend, buying[c].amount)
             d == IF HasRow THEN limitRow.reset ELSE spendDay
  <2>1. n \in Money /\ d \in 0..spendDay
    BY <1>1 DEF Rows, Plus, Money
  <2>2. limitRow' = [limitRow EXCEPT !.spend = n, !.reset = d]
    BY <1>2, <1>4 DEF Written
  <2>3. d # spendDay => counted = 0
    BY DEF SpendInv, RowCovers
  <2>4. n = NaN \/ counted' <= n + credited'
    <3>1. CASE NaN \in {buying[c].spend, buying[c].amount}
      BY <3>1 DEF Plus
    <3>2. CASE NaN \notin {buying[c].spend, buying[c].amount}
      <4>1. /\ buying[c].spend \in Int /\ buying[c].amount \in Int
            /\ n = buying[c].spend + buying[c].amount
        BY <1>1, <3>2 DEF Plus, Money
      <4>2. counted <= buying[c].spend + credited
        BY <1>1, <3>2 DEF Backs
      <4>3. credited <= credited' + buying[c].amount /\ credited' \in Nat
        BY <3>2, CreditOf
      <4> HIDE DEF n
      <4> QED
        BY <1>1, <4>1, <4>2, <4>3
    <3> QED
      BY <3>1, <3>2
  <2>5. n = NaN \/ LimitHolds'
    <3>1. buying[c].spend = NaN => n = NaN
      BY DEF Plus
    <3> QED
      BY <1>1, <3>1, CalmKeeps DEF SpendInv
  <2>6. /\ limitRow' \in Rows /\ limitRow'.daily = limitRow.daily
        /\ limitRow'.spend = n /\ limitRow'.reset = d
    <3> HIDE DEF n, d
    <3> QED
      <4> DEFINE row == [limitRow EXCEPT !.spend = n, !.reset = d]
      <4>1. row \in Rows /\ row.daily = limitRow.daily /\ row.spend = n /\ row.reset = d
        BY <1>1, <2>1 DEF Rows
      <4> HIDE DEF row
      <4> QED
        BY <2>2, <4>1 DEF row
  <2> QED
    BY <1>4, <2>3, <2>4, <2>5, <2>6
<1> QED
  BY <1>3, <1>4

LEMMA AllowKeepsInv ==
    ASSUME SpendInv, NEW c \in Checkouts, Allow(c)
    PROVE  SpendInv'
<1>1. /\ c \in InFlight /\ buying[c].step = "write" /\ WriteSpend(buying[c])
      /\ buying' = [buying EXCEPT ![c] = NoBuy] /\ raced' = raced \ {c}
      /\ UNCHANGED <<spendDay, cart, topLimit>>
  BY DEF Allow
<1>2. CASE ~(c \notin raced /\ Exceeds(buying[c].amount, 0))
  <2>1. Calm
    BY <1>1, <1>2, CreditOf DEF Allow, Calm
  <2> QED
    BY <1>1, <2>1, WrittenCovers, LeaveKeepsInv
<1>3. CASE c \notin raced /\ Exceeds(buying[c].amount, 0)
  <2>1. InFlight' = {}
    BY <1>1, <1>3 DEF SpendInv, SpendTypes, UnracedAlone
  <2>2. /\ counted' = counted + buying[c].amount /\ credited' = credited
        /\ counted \in Nat /\ credited \in Nat /\ spendDay \in Nat
        /\ buying[c].amount \in Nat /\ buying[c].amount # NaN
        /\ buying[c].spend \in Money /\ buying[c].daily \in Money
        /\ Backs(buying[c].spend)
        /\ limitRow \in Rows /\ topLimit \in Money
    <3>1. buying[c].amount # NaN /\ buying[c].amount \in Money /\ buying[c].amount > 0
      BY <1>1, <1>3, ReadsOf DEF Exceeds, SpendInv
    <3>2. buying[c].amount \in Nat
      BY <3>1 DEF Money
    <3> QED
      <4>1. counted' = counted + buying[c].amount
        BY <1>3 DEF Allow
      <4>2. credited' = credited
        BY <1>1, <1>3, CreditOf
      <4>3. /\ counted \in Nat /\ credited \in Nat /\ spendDay \in Nat
            /\ limitRow \in Rows /\ topLimit \in Money
        BY DEF SpendInv, SpendTypes, Rows
      <4>4. buying[c].spend \in Money /\ buying[c].daily \in Money
        BY <1>1, ReadsOf DEF SpendInv
      <4>5. Backs(buying[c].spend)
        BY <1>1, Zenon DEF SpendInv, ReadsCover
      <4> QED
        BY <3>1, <3>2, <4>1, <4>2, <4>3, <4>4, <4>5
  <2> DEFINE n == Plus(buying[c].spend, buying[c].amount)
             d == IF HasRow THEN limitRow.reset ELSE spendDay
  <2>3. limitRow' = [limitRow EXCEPT !.spend = n, !.reset = d] /\ d = spendDay
    <3>1. buying[c].hasRow = HasRow /\ (HasRow => limitRow.reset = spendDay)
      <4>1. /\ buying[c].hasRow => HasRow
            /\ buying[c].hasRow => limitRow.reset = spendDay
            /\ HasRow => buying[c].hasRow
        BY <1>1, <1>3 DEF Allow, SpendInv, UnracedSees
      <4>2. buying[c].hasRow \in BOOLEAN
        BY <1>1, ReadsOf DEF Reads, SpendInv
      <4> QED
        BY <4>1, <4>2
    <3> QED
      BY <1>1, <3>1 DEF WriteSpend, Written
  <2>4. n \in Money /\ d \in 0..spendDay
    BY <2>2, <2>3 DEF Plus, Money
  <2>5. /\ limitRow' \in Rows /\ limitRow'.daily = limitRow.daily
        /\ limitRow'.spend = n /\ limitRow'.reset = spendDay
    <3> HIDE DEF n, d
    <3> QED
      <4> DEFINE row == [limitRow EXCEPT !.spend = n, !.reset = d]
      <4>1. row \in Rows /\ row.daily = limitRow.daily /\ row.spend = n /\ row.reset = d
        BY <2>2, <2>4 DEF Rows
      <4> HIDE DEF row
      <4> QED
        BY <2>3, <4>1 DEF row
  <2>6. n # NaN => /\ buying[c].spend \in Int /\ n = buying[c].spend + buying[c].amount
                   /\ counted' <= n + credited
    BY <2>2 DEF Plus, Money, Backs
  <2>7. n = NaN \/ LimitHolds'
    <3> SUFFICES ASSUME n # NaN, topLimit # NaN
                 PROVE  counted' <= topLimit + credited
      BY <1>1, <2>2 DEF LimitHolds
    <3>1. Topped(buying[c].daily) /\ ~Exceeds(n, buying[c].daily)
      BY <1>1, <1>3 DEF SpendInv, UnracedSees, AllowedFits
    <3>2. buying[c].daily # NaN /\ buying[c].daily <= topLimit
      BY <3>1 DEF Topped
    <3>3. ~(n > buying[c].daily)
      BY <3>1, <3>2 DEF Exceeds
    <3>4. /\ n \in Int /\ buying[c].daily \in Int /\ topLimit \in Int /\ counted' \in Nat
      BY <2>2, <2>4, <3>2 DEF Money
    <3>5. n <= topLimit
      <4> HIDE DEF n
      <4> QED
        BY <3>2, <3>3, <3>4
    <3> HIDE DEF n
    <3> QED
      BY <2>2, <2>6, <3>4, <3>5
  <2>8. SpendTypes'
    <3>1. buying' \in [Checkouts -> Buys] /\ raced' \subseteq Checkouts
      BY <1>1 DEF SpendInv, SpendTypes, Buys
    <3>2. counted' \in Nat /\ credited' \in Nat
      BY <2>2
    <3> QED
      BY <1>1, <2>5, <3>1, <3>2 DEF SpendInv, SpendTypes, Rows
  <2>9. RowCovers'
    <3>1. n = NaN \/ counted' <= n + credited'
      BY <2>2, <2>6
    <3> HIDE DEF n
    <3> QED
      BY <1>1, <2>5, <2>7, <3>1 DEF RowCovers, Backs, Limited
  <2>10. ReadsCover' /\ UnracedAlone' /\ UnracedSees'
    BY <2>1 DEF ReadsCover, UnracedAlone, UnracedSees
  <2>11. NothingBeforeReset' /\ AllowedFits'
    BY <2>1 DEF NothingBeforeReset, AllowedFits
  <2>12. Topped(limitRow.daily)'
    BY <1>1, <2>5 DEF SpendInv, Topped
  <2> QED
    BY <2>8, <2>9, <2>10, <2>11, <2>12 DEF SpendInv
<1> QED
  BY <1>2, <1>3

LEMMA BlockKeepsInv ==
    ASSUME SpendInv, NEW c \in Checkouts, Block(c)
    PROVE  SpendInv'
<1>1. CASE UNCHANGED <<limitRow, credited>>
  BY <1>1, QuitKeepsInv DEF Block
<1>2. CASE buying[c].step = "write" /\ WriteSpend(buying[c])
  <2>1. /\ c \in InFlight /\ Calm
        /\ buying' = [buying EXCEPT ![c] = NoBuy] /\ raced' = raced \ {c} /\ cart' = cart
    BY <1>2, CreditOf DEF Block, Calm
  <2> QED
    BY <1>2, <2>1, WrittenCovers, LeaveKeepsInv
<1> QED
  BY <1>1, <1>2 DEF Block

LEMMA LargerTops ==
    ASSUME NEW a \in Money, NEW b \in Money
    PROVE  /\ Larger(a, b) \in Money
           /\ Larger(a, b) = NaN \/ (/\ a \in Int /\ b \in Int /\ Larger(a, b) \in Int
                                     /\ a <= Larger(a, b) /\ b <= Larger(a, b))
           /\ b = NaN => Larger(a, b) = NaN
  BY DEF Larger, Money

LEMMA SetLimitsKeepsInv ==
    ASSUME SpendInv, NEW l \in Limits, SetLimits(l)
    PROVE  SpendInv'
<1>1. /\ l \in [tx : Money, daily : Money] /\ topLimit \in Money /\ limitRow \in Rows
      /\ counted \in Nat /\ credited \in Nat /\ spendDay \in 1..LastDay /\ spendDay \in Nat \ {0}
  BY DEF SpendInv, SpendTypes, Rows
<1>2. /\ topLimit' = Larger(l.daily, topLimit)
      /\ limitRow' = [tx |-> l.tx, daily |-> l.daily, spend |-> limitRow.spend, reset |-> spendDay]
      /\ UNCHANGED <<spendDay, cart, buying, counted, credited, raced>>
  BY DEF SetLimits
<1>3. /\ limitRow' \in Rows /\ limitRow'.daily = l.daily /\ limitRow'.spend = limitRow.spend
      /\ limitRow'.reset = spendDay /\ l.daily \in Money /\ HasRow'
  BY <1>1, <1>2 DEF Rows
<1>4. /\ topLimit' \in Money
      /\ topLimit' = NaN \/ (/\ l.daily \in Int /\ topLimit \in Int /\ topLimit' \in Int
                             /\ l.daily <= topLimit' /\ topLimit <= topLimit')
      /\ topLimit = NaN => topLimit' = NaN
  BY <1>1, <1>2, <1>3, LargerTops
<1>5. LimitHolds => LimitHolds'
  BY <1>1, <1>2, <1>4 DEF LimitHolds
<1>6. \A n \in Money : Topped(n) => topLimit' = NaN \/ (n # NaN /\ n <= topLimit')
  BY <1>1, <1>4 DEF Topped, Money
<1>7. Topped(limitRow.daily)'
  BY <1>3, <1>4 DEF Topped
<1>8. SpendTypes'
  BY <1>1, <1>2, <1>3, <1>4 DEF SpendInv, SpendTypes, Rows, Buys
<1>9. RowCovers' /\ ReadsCover'
  BY <1>2, <1>3, <1>5 DEF SpendInv, RowCovers, ReadsCover, Backs, Limited
<1>10. UnracedSees'
  <2>1. \A d \in InFlight : buying[d].daily \in Money
    BY ReadsOf DEF SpendInv
  <2> QED
    BY <1>2, <1>3, <1>6, <2>1 DEF SpendInv, UnracedSees, Topped
<1>11. UnracedAlone' /\ NothingBeforeReset' /\ AllowedFits'
  BY <1>2 DEF SpendInv, UnracedAlone, NothingBeforeReset, AllowedFits
<1> QED
  BY <1>7, <1>8, <1>9, <1>10, <1>11 DEF SpendInv

\* When the row or the day goes, checkouts in flight have raced.
LEMMA ForgetKeepsInv ==
    ASSUME SpendInv, DeleteLimits \/ DayEnds
    PROVE  SpendInv'
<1>1. /\ limitRow \in Rows /\ topLimit \in Money /\ counted \in Nat /\ credited \in Nat
      /\ spendDay \in 1..LastDay /\ Default.daily \in Nat /\ Default.tx \in Nat
      /\ Nat \subseteq Money /\ 0 # NaN
  BY DEF SpendInv, SpendTypes, Rows, Money
<1>2. /\ counted' = 0 /\ raced' = raced \cup InFlight /\ UNCHANGED <<cart, buying, credited>>
      /\ \/ limitRow' = NoRow /\ topLimit' = Larger(Default.daily, topLimit) /\ spendDay' = spendDay
         \/ limitRow' = limitRow /\ topLimit' = limitRow.daily /\ spendDay' = spendDay + 1
            /\ spendDay < LastDay
  BY DEF DeleteLimits, DayEnds
<1>3. InFlight' = InFlight /\ LimitHolds' /\ \A d \in InFlight' : d \in raced'
  BY <1>2 DEF LimitHolds
<1>4. SpendTypes' /\ Topped(limitRow.daily)'
  <2>1. CASE limitRow' = NoRow /\ topLimit' = Larger(Default.daily, topLimit) /\ spendDay' = spendDay
    <3>1. /\ topLimit' \in Money
          /\ topLimit' = NaN \/ (Default.daily # NaN /\ Default.daily <= topLimit')
      BY <1>1, <2>1, LargerTops
    <3> QED
      <4>1. limitRow'.daily = Default.daily
        BY <2>1
      <4>2. limitRow' \in [tx : Money, daily : Money, spend : Money, reset : 0..spendDay']
        BY <1>1, <2>1
      <4>3. buying' \in [Checkouts -> Buys]' /\ raced' \subseteq Checkouts
        BY <1>2 DEF SpendInv, SpendTypes, Buys
      <4> QED
        BY <1>1, <1>2, <2>1, <3>1, <4>1, <4>2, <4>3 DEF SpendInv, SpendTypes, Topped
  <2>2. CASE limitRow' = limitRow /\ topLimit' = limitRow.daily /\ spendDay' = spendDay + 1
             /\ spendDay < LastDay
    <3>1. limitRow.daily \in Money /\ spendDay' \in 1..LastDay
      BY <1>1, <2>2 DEF Rows
    <3>2. limitRow' \in [tx : Money, daily : Money, spend : Money, reset : 0..spendDay']
      BY <1>1, <2>2 DEF Rows
    <3>3. buying' \in [Checkouts -> Buys]' /\ raced' \subseteq Checkouts
      BY <1>2 DEF SpendInv, SpendTypes, Buys
    <3>4. Topped(limitRow.daily)'
      BY <2>2, <3>1 DEF Topped, Money
    <3> QED
      BY <1>1, <1>2, <2>2, <3>1, <3>2, <3>3, <3>4 DEF SpendInv, SpendTypes
  <2> QED
    BY <1>2, <2>1, <2>2
<1>5. ReadsCover'
  <2> SUFFICES ASSUME NEW d \in InFlight
               PROVE  buying[d].spend = NaN \/ 0 <= buying[d].spend + credited
    BY <1>2, <1>3 DEF ReadsCover, Backs, Limited
  <2>1. buying[d].spend \in Money /\ Backs(buying[d].spend)
    BY ReadsOf DEF SpendInv, ReadsCover
  <2> QED
    BY <1>1, <2>1 DEF Backs, Money
<1>6. RowCovers'
  BY <1>1, <1>2, <1>3 DEF SpendInv, RowCovers, Backs, Limited, Rows, Money
<1>7. UnracedAlone' /\ UnracedSees' /\ NothingBeforeReset' /\ AllowedFits'
  BY <1>2, <1>3 DEF SpendInv, UnracedAlone, UnracedSees, NothingBeforeReset, AllowedFits
<1> QED
  BY <1>4, <1>5, <1>6, <1>7 DEF SpendInv

LEMMA SpendStepKeepsInv == SpendInv /\ [SpendNext]_spendVars => SpendInv'
<1> SUFFICES ASSUME SpendInv, [SpendNext]_spendVars PROVE SpendInv'
  OBVIOUS
<1>1. ASSUME SaveCart PROVE SpendInv'
  <2>1. cart' \in {EmptyCart} \cup [items : {TRUE}, total : Totals]
    <3>1. \A t \in Totals : [items |-> TRUE, total |-> t] \in [items : {TRUE}, total : Totals]
      OBVIOUS
    <3> QED
      BY <1>1, <3>1, Zenon DEF SaveCart
  <2> QED
    BY <1>1, <2>1, QuietKeepsInv DEF SaveCart
<1>2. ASSUME NEW c \in Checkouts, CheckoutStep(c) PROVE SpendInv'
  <2>1. ASSUME NEW a \in Amounts, CheckCart(c, a) PROVE SpendInv'
    BY <2>1, QuietKeepsInv DEF CheckCart, SpendInv, SpendTypes
  <2> QED
    BY <1>2, <2>1, ReadLimitsKeepsInv, ResetKeepsInv, AllowKeepsInv, BlockKeepsInv DEF CheckoutStep
<1>3. CASE UNCHANGED spendVars
  BY <1>3, QuietKeepsInv DEF spendVars, SpendInv, SpendTypes
<1> QED
  BY <1>1, <1>2, <1>3, SetLimitsKeepsInv, ForgetKeepsInv DEF SpendNext

\* What is allowed in a day without asking a human, races aside, stays within the
\* largest daily limit in force that day, but for what negative amounts re-open and
\* as long as neither the limit nor the recorded spend is NaN (validateUcpCall and
\* the limits' routes).
THEOREM DailySpendIsBounded == SpendSpec => []DailySpendBounded
<1>1. SpendInv => DailySpendBounded
  BY DEF SpendInv, RowCovers, Limited, LimitHolds, DailySpendBounded
<1> QED
  BY <1>1, SpendInitInv, SpendStepKeepsInv, PTL DEF SpendSpec
=============================================================================
