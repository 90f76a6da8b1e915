------------------------- MODULE ProcessMemoryProofs -------------------------
(***************************************************************************)
(* What the counts in the memory of one API process keep: the attempts to  *)
(* sign in (LoginLimits), the places of the imports (ImportSlots) and the  *)
(* room of the snapshots (SnapshotRoom), for every number of attempts,     *)
(* addresses, imports and snapshots, and for every limit.                  *)
(***************************************************************************)
EXTENDS LoginLimits, ImportSlots, SnapshotRoom, FiniteSetTheorems, WellFoundedInduction, TLAPS

-----------------------------------------------------------------------------
(***************************************************************************)
(* The attempts to sign in.                                                *)
(***************************************************************************)
(* The places of a window, in a state of the attempts. *)
PlacesIn(a, ip, end) == {r \in Attempts : a[r].at \in Holding /\ a[r].ip = ip /\ a[r].windowEnd = end}

(* A place taken is in a window that is over, or in the one its address has now. *)
PlaceInWindow ==
    \A r \in Attempts : attempt[r].at \in Holding =>
        \/ attempt[r].windowEnd <= now
        \/ byIp[attempt[r].ip] # NoWindow /\ byIp[attempt[r].ip].resetAt = attempt[r].windowEnd

(* The places of a window are never more than its limit, whether or not it is over. *)
PlacesBounded == \A ip \in Addresses : \A end \in WindowEnds : Cardinality(Holders(ip, end)) <= IpMax

LimitsInv == LimitsTypeOK /\ PlaceInWindow /\ WindowExact /\ PlacesBounded

-----------------------------------------------------------------------------
(***************************************************************************)
(* RateLimiter.                                                            *)
(***************************************************************************)
LEMMA EndsType == (\A e \in WindowEnds : e \in Nat) /\ \A t \in Nows : t + Window \in WindowEnds
  BY LimitAssumption DEF WindowEnds, Nows

LEMMA IsAWindow == \A w \in WindowOf : w # NoWindow
  <1>1. ASSUME NEW w \in WindowOf PROVE w \in [count : Int, resetAt : Int]
    <2>1. w.count \in Nat /\ w.resetAt \in WindowEnds
      BY <1>1 DEF WindowOf
    <2>2. w = [count |-> w.count, resetAt |-> w.resetAt]
      BY <1>1 DEF WindowOf
    <2>3. QED
      BY <2>1, <2>2, EndsType
  <1>2. QED
    BY <1>1, LimitAssumption

LEMMA HitCounts ==
    ASSUME now \in Nows, NEW w \in WindowOf \cup {NoWindow}
    PROVE  /\ Hit(w) \in WindowOf
           /\ Hit(w).count = (IF Current(w) THEN w.count ELSE 0) + 1
           /\ Hit(w).resetAt = IF Current(w) THEN w.resetAt ELSE now + Window
  <1>1. OpenedWindow(w) \in WindowOf
    BY EndsType DEF OpenedWindow, Current, WindowOf
  <1>2. ASSUME NEW o \in WindowOf
        PROVE  /\ [o EXCEPT !.count = @ + 1] \in WindowOf
               /\ [o EXCEPT !.count = @ + 1].count = o.count + 1
               /\ [o EXCEPT !.count = @ + 1].resetAt = o.resetAt
    BY DEF WindowOf
  <1>3. OpenedWindow(w).count = (IF Current(w) THEN w.count ELSE 0)
    BY DEF OpenedWindow
  <1>4. OpenedWindow(w).resetAt = IF Current(w) THEN w.resetAt ELSE now + Window
    BY DEF OpenedWindow
  <1>5. QED
    BY <1>1, <1>2, <1>3, <1>4 DEF Hit

LEMMA RefundCounts ==
    ASSUME NEW w \in WindowOf, NEW end
    PROVE  /\ Refund(w, end) \in WindowOf
           /\ Refund(w, end).count = IF w.resetAt = end /\ w.count > 0 THEN w.count - 1 ELSE w.count
           /\ Refund(w, end).resetAt = w.resetAt
  <1>1. w # NoWindow
    BY IsAWindow
  <1>2. w.count > 0 => /\ [w EXCEPT !.count = @ - 1] \in WindowOf
                       /\ [w EXCEPT !.count = @ - 1].count = w.count - 1
                       /\ [w EXCEPT !.count = @ - 1].resetAt = w.resetAt
    BY DEF WindowOf
  <1>3. QED
    BY <1>1, <1>2 DEF Refund

LEMMA RefundOfNothing == \A end : Refund(NoWindow, end) = NoWindow
  BY DEF Refund

-----------------------------------------------------------------------------
(***************************************************************************)
(* The places of a window.                                                 *)
(***************************************************************************)
LEMMA HoldersAre == \A ip, end : Holders(ip, end) = PlacesIn(attempt, ip, end)
  BY DEF Holders, PlacesIn

LEMMA HoldersFinite ==
    ASSUME NEW ip, NEW end
    PROVE  /\ PlacesIn(attempt, ip, end) \subseteq Attempts
           /\ IsFiniteSet(PlacesIn(attempt, ip, end))
           /\ Cardinality(PlacesIn(attempt, ip, end)) \in Nat
  <1>1. PlacesIn(attempt, ip, end) \subseteq Attempts
    BY DEF PlacesIn
  <1>2. IsFiniteSet(PlacesIn(attempt, ip, end))
    BY <1>1, LimitAssumption, FS_Subset
  <1>3. QED
    BY <1>1, <1>2, FS_CardinalityType

LEMMA AttemptFields ==
    ASSUME LimitsTypeOK, NEW r \in Attempts, attempt[r].at # "idle"
    PROVE  /\ attempt[r].ip \in Addresses
           /\ attempt[r].user \in Users
           /\ attempt[r].windowEnd \in WindowEnds
           /\ \A place \in {"failed", "over", "limited"} \cup Waits : [attempt[r] EXCEPT !.at = place] \in Attempt
  <1>1. attempt[r] \in Attempt
    BY DEF LimitsTypeOK
  <1>2. attempt[r] \in [at : {"failed", "over", "limited"} \cup Waits, ip : Addresses, user : Users, windowEnd : WindowEnds]
    BY <1>1 DEF Attempt, NoAttempt
  <1>3. QED
    BY <1>2 DEF Attempt

(* A step that lets nobody in or out of a place leaves the windows' places as they are. *)
LEMMA SamePlaces ==
    ASSUME NEW ip, NEW end,
           \A r \in Attempts : (attempt[r].at \in Holding \/ attempt'[r].at \in Holding) =>
               /\ attempt[r].at \in Holding /\ attempt'[r].at \in Holding
               /\ attempt'[r].ip = attempt[r].ip /\ attempt'[r].windowEnd = attempt[r].windowEnd
    PROVE  PlacesIn(attempt', ip, end) = PlacesIn(attempt, ip, end)
  BY DEF PlacesIn

-----------------------------------------------------------------------------
(***************************************************************************)
(* The steps.                                                              *)
(***************************************************************************)
LEMMA InitLimits == LimitsInit => LimitsInv
  <1>1. NoAttempt \in Attempt /\ NoAttempt.at = "idle" /\ "idle" \notin Holding
    BY DEF NoAttempt, Attempt, Holding, Waits
  <1>2. 0 \in Nows
    BY LimitAssumption DEF Nows
  <1>3. LimitsInit => LimitsTypeOK /\ PlaceInWindow /\ WindowExact
    BY <1>1, <1>2 DEF LimitsInit, LimitsTypeOK, PlaceInWindow, WindowExact
  <1>4. ASSUME LimitsInit, NEW ip, NEW end PROVE Cardinality(PlacesIn(attempt, ip, end)) = 0
    <2>1. PlacesIn(attempt, ip, end) = {}
      BY <1>1, <1>4 DEF LimitsInit, PlacesIn
    <2>2. QED
      BY <2>1, FS_EmptySet
  <1>5. LimitsInit => PlacesBounded
    BY <1>4, HoldersAre, LimitAssumption DEF PlacesBounded
  <1>6. QED
    BY <1>3, <1>5 DEF LimitsInv

(* Where nobody is let in or out of a place, and no window of an address changes, all is as before. *)
LEMMA NoPlaceMoves ==
    ASSUME LimitsInv, LimitsTypeOK', byIp' = byIp, now' \in Nows, now' >= now,
           \A r \in Attempts : (attempt[r].at \in Holding \/ attempt'[r].at \in Holding) =>
               /\ attempt[r].at \in Holding /\ attempt'[r].at \in Holding
               /\ attempt'[r].ip = attempt[r].ip /\ attempt'[r].windowEnd = attempt[r].windowEnd
    PROVE  LimitsInv'
  <1>1. \A ip, end : PlacesIn(attempt', ip, end) = PlacesIn(attempt, ip, end)
    BY SamePlaces
  <1>2. WindowExact'
    <2>1. ASSUME NEW ip \in Addresses, byIp'[ip] # NoWindow
          PROVE  byIp'[ip].count = Cardinality(PlacesIn(attempt', ip, byIp[ip].resetAt))
      BY HoldersAre, <1>1, <2>1 DEF LimitsInv, WindowExact
    <2>2. QED
      BY <2>1 DEF WindowExact, Holders, PlacesIn
  <1>3. PlacesBounded'
    <2>1. ASSUME NEW ip \in Addresses, NEW end \in WindowEnds PROVE Cardinality(PlacesIn(attempt', ip, end)) <= IpMax
      BY HoldersAre, <1>1 DEF LimitsInv, PlacesBounded
    <2>2. QED
      BY <2>1 DEF PlacesBounded, Holders, PlacesIn
  <1>4. PlaceInWindow'
    <2>1. ASSUME NEW r \in Attempts, attempt'[r].at \in Holding
          PROVE  \/ attempt'[r].windowEnd <= now'
                 \/ byIp'[attempt'[r].ip] # NoWindow /\ byIp'[attempt'[r].ip].resetAt = attempt'[r].windowEnd
      <3>1. /\ attempt[r].at \in Holding
            /\ attempt'[r].ip = attempt[r].ip /\ attempt'[r].windowEnd = attempt[r].windowEnd
        BY <2>1
      <3>2. attempt[r].windowEnd \in Nat
        BY <3>1, AttemptFields, EndsType DEF LimitsInv, Holding, Waits
      <3>3. CASE attempt[r].windowEnd <= now
        BY <3>1, <3>2, <3>3 DEF LimitsInv, LimitsTypeOK, Nows
      <3>4. CASE byIp[attempt[r].ip] # NoWindow /\ byIp[attempt[r].ip].resetAt = attempt[r].windowEnd
        BY <3>1, <3>4
      <3>5. QED
        BY <3>1, <3>3, <3>4 DEF LimitsInv, PlaceInWindow
    <2>2. QED
      BY <2>1 DEF PlaceInWindow
  <1>5. QED
    BY <1>2, <1>3, <1>4 DEF LimitsInv

(* An attempt is counted on its address, or refused. *)
LEMMA AsksInv ==
    ASSUME LimitsInv, NEW r \in Attempts, NEW ip \in Addresses, NEW user \in Users, NEW at \in {"host", "proof"},
           Asks(r, ip, user, at)
    PROVE  LimitsInv'
  <1> DEFINE hit == Hit(byIp[ip])
             Goes(place) == [at |-> place, ip |-> ip, user |-> user, windowEnd |-> hit.resetAt]
  <1>1. byIp[ip] \in WindowOf \cup {NoWindow} /\ now \in Nows
    BY DEF LimitsInv, LimitsTypeOK
  <1>2. /\ hit \in WindowOf
        /\ hit.count = (IF Current(byIp[ip]) THEN byIp[ip].count ELSE 0) + 1
        /\ hit.resetAt = IF Current(byIp[ip]) THEN byIp[ip].resetAt ELSE now + Window
    BY <1>1, HitCounts
  <1>2a. hit.count \in Nat
    BY <1>2 DEF WindowOf
  <1>3. /\ attempt[r].at = "idle"
        /\ UNCHANGED <<byUser, now>>
        /\ IF Allowed(hit, IpMax)
           THEN byIp' = [byIp EXCEPT ![ip] = hit] /\ attempt' = [attempt EXCEPT ![r] = Goes(at)]
           ELSE byIp' = [byIp EXCEPT ![ip] = Refund(hit, hit.resetAt)] /\ attempt' = [attempt EXCEPT ![r] = Goes("limited")]
    BY DEF Asks
  <1>4. \A place \in {"host", "proof", "limited"} : Goes(place) \in Attempt
    BY <1>2 DEF Attempt, WindowOf, Waits
  <1>5. /\ Refund(hit, hit.resetAt) \in WindowOf
        /\ Refund(hit, hit.resetAt).count = hit.count - 1
        /\ Refund(hit, hit.resetAt).resetAt = hit.resetAt
    <2>1. hit.count > 0
      BY <1>1, <1>2 DEF Current, WindowOf
    <2>2. QED
      BY <1>2, <2>1, RefundCounts
  <1>6. hit # NoWindow /\ Refund(hit, hit.resetAt) # NoWindow
    BY <1>2, <1>5, IsAWindow
  <1>7. Cardinality(PlacesIn(attempt, ip, hit.resetAt)) = hit.count - 1
    <2>1. CASE Current(byIp[ip])
      <3>1. byIp[ip] # NoWindow /\ byIp[ip].count \in Nat
        BY <1>1, <2>1 DEF Current, WindowOf
      <3>2. QED
        BY HoldersAre, <1>2, <2>1, <3>1 DEF LimitsInv, WindowExact
    <2>2. CASE ~Current(byIp[ip])
      <3>1. ASSUME NEW q \in PlacesIn(attempt, ip, now + Window) PROVE FALSE
        <4>1. q \in Attempts /\ attempt[q].at \in Holding /\ attempt[q].ip = ip /\ attempt[q].windowEnd = now + Window
          BY <3>1 DEF PlacesIn
        <4>2. attempt[q].windowEnd <= now \/ (byIp[ip] # NoWindow /\ byIp[ip].resetAt = now + Window)
          BY <4>1 DEF LimitsInv, PlaceInWindow
        <4>3. now \in Nat /\ Window \in Nat \ {0}
          BY <1>1, LimitAssumption DEF Nows
        <4>4. QED
          BY <2>2, <4>1, <4>2, <4>3 DEF Current
      <3>2. Cardinality(PlacesIn(attempt, ip, now + Window)) = 0
        BY <3>1, FS_EmptySet
      <3>3. QED
        BY <1>2, <2>2, <3>2
    <2>3. QED
      BY <2>1, <2>2
  <1> HIDE DEF hit, Goes
  <1>8. LimitsTypeOK'
    <2>1. byIp' \in [Addresses -> WindowOf \cup {NoWindow}] /\ attempt' \in [Attempts -> Attempt]
      BY <1>2, <1>3, <1>4, <1>5 DEF LimitsInv, LimitsTypeOK
    <2>2. QED
      BY <2>1, <1>3 DEF LimitsInv, LimitsTypeOK
  <1>9. "idle" \notin Holding /\ "limited" \notin Holding /\ at \in Holding
    BY DEF Holding, Waits
  <1>10. \A place : Goes(place).at = place /\ Goes(place).ip = ip /\ Goes(place).windowEnd = hit.resetAt
    BY DEF Goes
  <1>11. r \notin PlacesIn(attempt, ip, hit.resetAt)
    BY <1>3, <1>9 DEF PlacesIn
  <1>12. \A q \in Attempts \ {r} : attempt'[q] = attempt[q]
    BY <1>3 DEF LimitsInv, LimitsTypeOK
  <1>13. PlaceInWindow'
    <2>1. ASSUME NEW q \in Attempts, attempt'[q].at \in Holding
          PROVE  \/ attempt'[q].windowEnd <= now
                 \/ byIp'[attempt'[q].ip] # NoWindow /\ byIp'[attempt'[q].ip].resetAt = attempt'[q].windowEnd
      <3>1. byIp'[ip] # NoWindow /\ byIp'[ip].resetAt = hit.resetAt /\ \A other \in Addresses \ {ip} : byIp'[other] = byIp[other]
        BY <1>3, <1>5, <1>6 DEF LimitsInv, LimitsTypeOK
      <3>2. CASE q = r
        <4>1. attempt'[r] \in {Goes(at), Goes("limited")}
          BY <1>3 DEF LimitsInv, LimitsTypeOK
        <4>2. QED
          BY <3>1, <3>2, <4>1, <1>10
      <3>3. CASE q # r
        <4>1. attempt'[q] = attempt[q] /\ attempt[q].at \in Holding
          BY <1>12, <2>1, <3>3
        <4>2. attempt[q].ip \in Addresses /\ attempt[q].windowEnd \in Nat
          BY <1>9, <4>1, AttemptFields, EndsType DEF LimitsInv
        <4>3. attempt[q].windowEnd <= now \/ (byIp[attempt[q].ip] # NoWindow /\ byIp[attempt[q].ip].resetAt = attempt[q].windowEnd)
          BY <4>1 DEF LimitsInv, PlaceInWindow
        <4>4. CASE attempt[q].ip = ip /\ byIp[ip] # NoWindow /\ byIp[ip].resetAt = attempt[q].windowEnd
          <5>1. now \in Nat
            BY <1>1, LimitAssumption DEF Nows
          <5>2. attempt[q].windowEnd <= now \/ Current(byIp[ip])
            BY <4>2, <4>4, <5>1 DEF Current
          <5>3. QED
            BY <1>2, <3>1, <4>1, <4>4, <5>2
        <4>5. QED
          BY <3>1, <4>1, <4>2, <4>3, <4>4
      <3>4. QED
        BY <3>2, <3>3
    <2>2. QED
      BY <2>1, <1>3 DEF PlaceInWindow
  <1>14. CASE Allowed(hit, IpMax)
    <2>1. attempt'[r] = Goes(at) /\ byIp'[ip] = hit /\ \A other \in Addresses \ {ip} : byIp'[other] = byIp[other]
      BY <1>3, <1>14 DEF LimitsInv, LimitsTypeOK
    <2>2. PlacesIn(attempt', ip, hit.resetAt) = PlacesIn(attempt, ip, hit.resetAt) \cup {r}
      BY <1>9, <1>10, <1>12, <2>1 DEF PlacesIn
    <2>3. Cardinality(PlacesIn(attempt', ip, hit.resetAt)) = hit.count
      <3>1. Cardinality(PlacesIn(attempt, ip, hit.resetAt) \cup {r}) = Cardinality(PlacesIn(attempt, ip, hit.resetAt)) + 1
        BY <1>11, HoldersFinite, FS_AddElement
      <3>2. QED
        BY <1>7, <1>2a, <2>2, <3>1
    <2>4. ASSUME NEW address, NEW end, address # ip \/ end # hit.resetAt
          PROVE  PlacesIn(attempt', address, end) = PlacesIn(attempt, address, end)
      BY <1>3, <1>9, <1>10, <1>12, <2>1, <2>4 DEF PlacesIn
    <2>5. WindowExact'
      <3>1. ASSUME NEW address \in Addresses, byIp'[address] # NoWindow
            PROVE  byIp'[address].count = Cardinality(PlacesIn(attempt', address, byIp'[address].resetAt))
        BY HoldersAre, <2>1, <2>3, <2>4, <3>1 DEF LimitsInv, WindowExact
      <3>2. QED
        BY <3>1 DEF WindowExact, Holders, PlacesIn
    <2>6. PlacesBounded'
      <3>1. hit.count <= IpMax
        BY <1>14 DEF Allowed
      <3>2. ASSUME NEW address \in Addresses, NEW end \in WindowEnds
            PROVE  Cardinality(PlacesIn(attempt', address, end)) <= IpMax
        BY HoldersAre, <2>3, <2>4, <3>1 DEF LimitsInv, PlacesBounded
      <3>3. QED
        BY <3>2 DEF PlacesBounded, Holders, PlacesIn
    <2>7. QED
      BY <1>8, <1>13, <2>5, <2>6 DEF LimitsInv
  <1>15. CASE ~Allowed(hit, IpMax)
    <2>1. /\ attempt'[r] = Goes("limited") /\ byIp'[ip] = Refund(hit, hit.resetAt)
          /\ \A other \in Addresses \ {ip} : byIp'[other] = byIp[other]
      BY <1>3, <1>15 DEF LimitsInv, LimitsTypeOK
    <2>2. \A address, end : PlacesIn(attempt', address, end) = PlacesIn(attempt, address, end)
      BY <1>3, <1>9, <1>10, <1>12, <2>1, SamePlaces
    <2>3. WindowExact'
      <3>1. ASSUME NEW address \in Addresses, byIp'[address] # NoWindow
            PROVE  byIp'[address].count = Cardinality(PlacesIn(attempt', address, byIp'[address].resetAt))
        BY HoldersAre, <1>5, <1>7, <2>1, <2>2, <3>1 DEF LimitsInv, WindowExact
      <3>2. QED
        BY <3>1 DEF WindowExact, Holders, PlacesIn
    <2>4. PlacesBounded'
      <3>1. ASSUME NEW address \in Addresses, NEW end \in WindowEnds
            PROVE  Cardinality(PlacesIn(attempt', address, end)) <= IpMax
        BY HoldersAre, <2>2 DEF LimitsInv, PlacesBounded
      <3>2. QED
        BY <3>1 DEF PlacesBounded, Holders, PlacesIn
    <2>5. QED
      BY <1>8, <1>13, <2>3, <2>4 DEF LimitsInv
  <1>16. QED
    BY <1>14, <1>15

(* Whatever happens to an attempt that waits, its record keeps its type. *)
LEMMA MovesType ==
    ASSUME LimitsTypeOK, NEW r \in Attempts, attempt[r].at \in Waits,
           NEW place \in {"failed", "over"} \cup Waits, attempt' = [attempt EXCEPT ![r].at = place]
    PROVE  /\ attempt' \in [Attempts -> Attempt]
           /\ attempt'[r].at = place
           /\ attempt'[r].ip = attempt[r].ip /\ attempt'[r].windowEnd = attempt[r].windowEnd
           /\ \A q \in Attempts \ {r} : attempt'[q] = attempt[q]
  <1>1. [attempt[r] EXCEPT !.at = place] \in Attempt
    BY AttemptFields DEF Waits
  <1>2. attempt' = [attempt EXCEPT ![r] = [attempt[r] EXCEPT !.at = place]]
    OBVIOUS
  <1>3. attempt \in [Attempts -> Attempt]
    BY DEF LimitsTypeOK
  <1>4. attempt[r] \in [at : {"failed", "over", "limited"} \cup Waits, ip : Addresses, user : Users, windowEnd : WindowEnds]
    BY <1>3 DEF Attempt, NoAttempt, Waits
  <1>5. /\ [attempt[r] EXCEPT !.at = place].at = place
        /\ [attempt[r] EXCEPT !.at = place].ip = attempt[r].ip
        /\ [attempt[r] EXCEPT !.at = place].windowEnd = attempt[r].windowEnd
    BY <1>4
  <1>6. QED
    BY <1>1, <1>2, <1>3, <1>5

(* An attempt that goes on, or fails, keeps its place. *)
LEMMA StaysInv ==
    ASSUME LimitsInv, NEW r \in Attempts, attempt[r].at \in Waits,
           NEW place \in {"failed", "connecting"}, attempt' = [attempt EXCEPT ![r].at = place],
           byIp' = byIp, byUser' \in [Keys -> WindowOf \cup {NoWindow}], now' = now
    PROVE  LimitsInv'
  <1>1. /\ attempt' \in [Attempts -> Attempt]
        /\ attempt'[r].at = place
        /\ attempt'[r].ip = attempt[r].ip /\ attempt'[r].windowEnd = attempt[r].windowEnd
        /\ \A q \in Attempts \ {r} : attempt'[q] = attempt[q]
    BY MovesType DEF LimitsInv, Waits
  <1>2. LimitsTypeOK' /\ now' \in Nows /\ now' >= now
    BY <1>1, LimitAssumption DEF LimitsInv, LimitsTypeOK, Nows
  <1>3. attempt[r].at \in Holding /\ place \in Holding
    BY DEF Holding, Waits
  <1>4. QED
    BY <1>1, <1>2, <1>3, NoPlaceMoves

(* One that turns out not to be a failure gives its place back. *)
LEMMA LeavesInv ==
    ASSUME LimitsInv, NEW r \in Attempts, attempt[r].at \in Waits, Leaves(r),
           byUser' \in [Keys -> WindowOf \cup {NoWindow}], now' = now
    PROVE  LimitsInv'
  <1> DEFINE ip == attempt[r].ip
             end == attempt[r].windowEnd
             back == Refund(byIp[ip], end)
  <1>1. ip \in Addresses /\ end \in WindowEnds
    BY AttemptFields DEF LimitsInv, Waits
  <1>2. byIp[ip] \in WindowOf \cup {NoWindow} /\ byIp \in [Addresses -> WindowOf \cup {NoWindow}]
    BY <1>1 DEF LimitsInv, LimitsTypeOK
  <1>3. byIp' = [byIp EXCEPT ![ip] = back] /\ attempt' = [attempt EXCEPT ![r].at = "over"]
    BY DEF Leaves
  <1>4. /\ attempt' \in [Attempts -> Attempt]
        /\ attempt'[r].at = "over"
        /\ \A q \in Attempts \ {r} : attempt'[q] = attempt[q]
    BY <1>3, MovesType DEF LimitsInv
  <1>5. back \in WindowOf \cup {NoWindow}
    BY <1>2, RefundCounts, RefundOfNothing
  <1>6. LimitsTypeOK'
    BY <1>2, <1>3, <1>4, <1>5 DEF LimitsInv, LimitsTypeOK
  <1>7. "over" \notin Holding /\ attempt[r].at \in Holding
    BY DEF Holding, Waits
  <1>8. r \in PlacesIn(attempt, ip, end)
    BY <1>7 DEF PlacesIn
  <1>9. byIp[ip] # NoWindow =>
            /\ back # NoWindow
            /\ back.resetAt = byIp[ip].resetAt
            /\ back.count = IF byIp[ip].resetAt = end /\ byIp[ip].count > 0 THEN byIp[ip].count - 1 ELSE byIp[ip].count
    BY <1>2, RefundCounts, IsAWindow
  <1>10. byIp[ip] = NoWindow => back = NoWindow
    BY RefundOfNothing
  <1>11. byIp'[ip] = back /\ \A other \in Addresses \ {ip} : byIp'[other] = byIp[other]
    BY <1>1, <1>2, <1>3
  <1> HIDE DEF back
  <1>12. PlacesIn(attempt', ip, end) = PlacesIn(attempt, ip, end) \ {r}
    BY <1>4, <1>7 DEF PlacesIn
  <1>13. Cardinality(PlacesIn(attempt', ip, end)) = Cardinality(PlacesIn(attempt, ip, end)) - 1
    <2>1. Cardinality(PlacesIn(attempt, ip, end) \ {r}) = Cardinality(PlacesIn(attempt, ip, end)) - 1
      <3>1. IsFiniteSet(PlacesIn(attempt, ip, end))
        BY HoldersAre, HoldersFinite
      <3>2. QED
        BY <1>8, <3>1, FS_RemoveElement
    <2>2. QED
      BY <1>12, <2>1
  <1>14. ASSUME NEW address, NEW e, address # ip \/ e # end
         PROVE  PlacesIn(attempt', address, e) = PlacesIn(attempt, address, e)
    BY <1>4, <1>7, <1>14 DEF PlacesIn
  <1>15. Cardinality(PlacesIn(attempt, ip, end)) \in Nat \ {0}
    <2>1. /\ IsFiniteSet(PlacesIn(attempt, ip, end)) /\ Cardinality(PlacesIn(attempt, ip, end)) \in Nat
      BY HoldersAre, HoldersFinite
    <2>2. PlacesIn(attempt, ip, end) # {}
      BY <1>8
    <2>3. Cardinality(PlacesIn(attempt, ip, end)) # 0
      BY <2>1, <2>2, FS_EmptySet
    <2>4. QED
      BY <2>1, <2>3
  <1>16. WindowExact'
    <2>1. ASSUME NEW address \in Addresses, byIp'[address] # NoWindow
          PROVE  byIp'[address].count = Cardinality(PlacesIn(attempt', address, byIp'[address].resetAt))
      <3>1. CASE address # ip
        BY <1>11, <1>14, <2>1, <3>1, HoldersAre DEF LimitsInv, WindowExact
      <3>2. CASE address = ip
        <4>1. byIp[ip] # NoWindow /\ byIp[ip].count = Cardinality(PlacesIn(attempt, ip, byIp[ip].resetAt))
          BY <1>1, <1>10, <1>11, <2>1, <3>2, HoldersAre DEF LimitsInv, WindowExact
        <4>2. CASE byIp[ip].resetAt = end
          BY <1>9, <1>11, <1>13, <1>15, <3>2, <4>1, <4>2
        <4>3. CASE byIp[ip].resetAt # end
          BY <1>9, <1>11, <1>14, <3>2, <4>1, <4>3
        <4>4. QED
          BY <4>2, <4>3
      <3>3. QED
        BY <3>1, <3>2
    <2>2. QED
      BY <2>1 DEF WindowExact, Holders, PlacesIn
  <1>17. PlacesBounded'
    <2>1. ASSUME NEW address \in Addresses, NEW e \in WindowEnds PROVE Cardinality(PlacesIn(attempt', address, e)) <= IpMax
      <3>1. Cardinality(PlacesIn(attempt, address, e)) <= IpMax
        BY HoldersAre DEF LimitsInv, PlacesBounded
      <3>2. CASE address = ip /\ e = end
        BY <1>13, <1>15, <3>1, <3>2, LimitAssumption
      <3>3. CASE address # ip \/ e # end
        BY <1>14, <3>1, <3>3
      <3>4. QED
        BY <3>2, <3>3
    <2>2. QED
      BY <2>1 DEF PlacesBounded, Holders, PlacesIn
  <1>18. PlaceInWindow'
    <2>1. ASSUME NEW q \in Attempts, attempt'[q].at \in Holding
          PROVE  \/ attempt'[q].windowEnd <= now
                 \/ byIp'[attempt'[q].ip] # NoWindow /\ byIp'[attempt'[q].ip].resetAt = attempt'[q].windowEnd
      <3>1. attempt'[q] = attempt[q] /\ attempt[q].at \in Holding
        BY <1>4, <1>7, <2>1
      <3>2. attempt[q].ip \in Addresses
        BY <3>1, AttemptFields DEF LimitsInv, Holding, Waits
      <3>3. \/ attempt[q].windowEnd <= now
            \/ byIp[attempt[q].ip] # NoWindow /\ byIp[attempt[q].ip].resetAt = attempt[q].windowEnd
        BY <3>1 DEF LimitsInv, PlaceInWindow
      <3>4. QED
        BY <1>9, <1>11, <3>1, <3>2, <3>3
    <2>2. QED
      BY <2>1 DEF PlaceInWindow
  <1>19. QED
    BY <1>6, <1>16, <1>17, <1>18 DEF LimitsInv

(* The timer forgets the windows that are over. *)
LEMMA SweepInv == ASSUME LimitsInv, SweepIp PROVE LimitsInv'
  <1>1. /\ byIp' = [ip \in Addresses |-> Swept(byIp[ip])]
        /\ byUser' = byUser /\ attempt' = attempt /\ now' = now
    BY DEF SweepIp
  <1>2. \A ip \in Addresses : byIp'[ip] = byIp[ip] \/ (byIp'[ip] = NoWindow /\ ~Current(byIp[ip]))
    BY <1>1 DEF Swept
  <1>3. LimitsTypeOK'
    BY <1>1, <1>2 DEF LimitsInv, LimitsTypeOK
  <1>4. WindowExact' /\ PlacesBounded'
    BY <1>1, <1>2 DEF LimitsInv, WindowExact, PlacesBounded, Holders
  <1>5. PlaceInWindow'
    <2>1. ASSUME NEW q \in Attempts, attempt[q].at \in Holding
          PROVE  \/ attempt[q].windowEnd <= now
                 \/ byIp'[attempt[q].ip] # NoWindow /\ byIp'[attempt[q].ip].resetAt = attempt[q].windowEnd
      <3>1. attempt[q].ip \in Addresses /\ attempt[q].windowEnd \in Nat /\ now \in Nat
        <4>1. now \in Nat
          BY LimitAssumption DEF LimitsInv, LimitsTypeOK, Nows
        <4>2. attempt[q].at # "idle"
          BY <2>1 DEF Holding, Waits
        <4>3. QED
          BY <4>1, <4>2, AttemptFields, EndsType DEF LimitsInv
      <3>2. \/ attempt[q].windowEnd <= now
            \/ byIp[attempt[q].ip] # NoWindow /\ byIp[attempt[q].ip].resetAt = attempt[q].windowEnd
        BY <2>1 DEF LimitsInv, PlaceInWindow
      <3>3. QED
        BY <1>2, <3>1, <3>2 DEF Current
    <2>2. QED
      BY <1>1, <2>1 DEF PlaceInWindow
  <1>6. QED
    BY <1>3, <1>4, <1>5 DEF LimitsInv

LEMMA NextLimits == LimitsInv /\ [LimitsNext]_limitVars => LimitsInv'
  <1> SUFFICES ASSUME LimitsInv, [LimitsNext]_limitVars PROVE LimitsInv'
    OBVIOUS
  <1>1. /\ byIp \in [Addresses -> WindowOf \cup {NoWindow}] /\ byUser \in [Keys -> WindowOf \cup {NoWindow}]
        /\ attempt \in [Attempts -> Attempt] /\ now \in Nows
    BY DEF LimitsInv, LimitsTypeOK
  <1>2. ASSUME NEW r \in Attempts, attempt[r].at # "idle" PROVE KeyOf(r) \in Keys
    BY <1>2, AttemptFields DEF LimitsInv, KeyOf, Keys
  <1>3. ASSUME NEW r \in Attempts, Ask(r) PROVE LimitsInv'
    BY <1>3, AsksInv DEF Ask
  <1>4. ASSUME NEW r \in Attempts, WrongHost(r) \/ Refused(r) PROVE LimitsInv'
    <2>1. /\ attempt[r].at \in Waits /\ attempt' = [attempt EXCEPT ![r].at = "failed"]
          /\ byIp' = byIp /\ byUser' = byUser /\ now' = now
      BY <1>4 DEF WrongHost, Refused, Fails, Waits
    <2>2. QED
      BY <1>1, <2>1, StaysInv
  <1>5. ASSUME NEW r \in Attempts, CountedForUser(r) PROVE LimitsInv'
    <2> DEFINE hit == Hit(byUser[KeyOf(r)])
    <2>1. attempt[r].at \in Waits /\ attempt[r].at # "idle" /\ now' = now
      BY <1>5 DEF CountedForUser, Waits
    <2>2. KeyOf(r) \in Keys
      BY <1>2, <2>1
    <2>3. hit \in WindowOf
      BY <1>1, <2>2, HitCounts
    <2>4. byUser' \in [Keys -> WindowOf \cup {NoWindow}]
      BY <1>1, <1>5, <2>3 DEF CountedForUser
    <2>5. \/ attempt' = [attempt EXCEPT ![r].at = "connecting"] /\ byIp' = byIp
          \/ Leaves(r)
      BY <1>5 DEF CountedForUser
    <2>6. QED
      BY <2>1, <2>4, <2>5, StaysInv, LeavesInv
  <1>6. ASSUME NEW r \in Attempts, NotAFailure(r) PROVE LimitsInv'
    <2>1. attempt[r].at \in Waits /\ Leaves(r) /\ byUser' = byUser /\ now' = now
      BY <1>6 DEF NotAFailure, Waits
    <2>2. QED
      BY <1>1, <2>1, LeavesInv
  <1>7. ASSUME NEW r \in Attempts, SignedIn(r) PROVE LimitsInv'
    <2>1. /\ attempt[r].at \in Waits /\ attempt[r].at # "idle" /\ Leaves(r) /\ now' = now
          /\ byUser' = [byUser EXCEPT ![KeyOf(r)] = NoWindow]
      BY <1>7 DEF SignedIn, Waits
    <2>2. byUser' \in [Keys -> WindowOf \cup {NoWindow}]
      BY <1>1, <2>1
    <2>3. QED
      BY <2>1, <2>2, LeavesInv
  <1>8. ASSUME SweepUser \/ LimitsTick \/ UNCHANGED limitVars PROVE LimitsInv'
    <2>1. attempt' = attempt /\ byIp' = byIp
      BY <1>8 DEF SweepUser, LimitsTick, limitVars
    <2>2. now' \in Nows /\ now' >= now
      BY <1>1, <1>8, LimitAssumption DEF SweepUser, LimitsTick, limitVars, Nows
    <2>3. byUser' \in [Keys -> WindowOf \cup {NoWindow}]
      BY <1>1, <1>8 DEF SweepUser, LimitsTick, limitVars, Swept
    <2>4. QED
      BY <1>1, <2>1, <2>2, <2>3, NoPlaceMoves DEF LimitsTypeOK
  <1>9. QED
    BY <1>3, <1>4, <1>5, <1>6, <1>7, <1>8, SweepInv DEF LimitsNext

-----------------------------------------------------------------------------
(* The limiters of rate-limit.ts and the routes of session.ts keep to their types, and to what makes them exact. *)
THEOREM LimitsInvariance == LimitsSpec => []LimitsInv
  BY InitLimits, NextLimits, PTL DEF LimitsSpec

(* RateLimiter: a window counts its failures and the attempts under way, whatever is given back after it is over. *)
THEOREM WindowCounts == LimitsSpec => []WindowExact
  <1>1. LimitsInv => WindowExact
    BY DEF LimitsInv
  <1>2. QED
    BY <1>1, LimitsInvariance, PTL

(* ipLimiter: whatever burst comes in, an address gets no more failures through in one window than its limit. *)
THEOREM AddressLimited == LimitsSpec => []FailuresBounded
  <1>1. ASSUME LimitsInv PROVE FailuresBounded
    <2>1. ASSUME NEW ip \in Addresses, NEW end \in WindowEnds
          PROVE  Cardinality({r \in Holders(ip, end) : attempt[r].at = "failed"}) <= IpMax
      <3>1. /\ IsFiniteSet(Holders(ip, end)) /\ Cardinality(Holders(ip, end)) \in Nat
            /\ Cardinality(Holders(ip, end)) <= IpMax
        <4>1. IsFiniteSet(Holders(ip, end)) /\ Cardinality(Holders(ip, end)) \in Nat
          BY HoldersAre, HoldersFinite
        <4>2. Cardinality(Holders(ip, end)) <= IpMax
          BY <1>1 DEF LimitsInv, PlacesBounded
        <4>3. QED
          BY <4>1, <4>2
      <3>2. {r \in Holders(ip, end) : attempt[r].at = "failed"} \in SUBSET Holders(ip, end)
        OBVIOUS
      <3> DEFINE failures == {r \in Holders(ip, end) : attempt[r].at = "failed"}
      <3>3. /\ IsFiniteSet(failures) /\ Cardinality(failures) <= Cardinality(Holders(ip, end))
        BY <3>1, <3>2, FS_Subset
      <3>4. Cardinality(failures) \in Nat
        BY <3>3, FS_CardinalityType
      <3> HIDE DEF failures
      <3>5. Cardinality(failures) <= IpMax
        BY <3>1, <3>3, <3>4, LimitAssumption
      <3>6. QED
        BY <3>5 DEF failures
    <2>2. QED
      BY <2>1 DEF FailuresBounded
  <1>2. QED
    BY <1>1, LimitsInvariance, PTL

-----------------------------------------------------------------------------
(***************************************************************************)
(* The places of the imports.                                              *)
(***************************************************************************)
UnderWay == {"handler", "answering"}
InUse(answers) == {r \in Imports : answers[r].at \in UnderWay}

(* Of one answer: its lease is given back exactly once it is over, only what was answered is read, and what is
   buffered is one event at most, beside the heartbeats. *)
Sound(a) ==
    /\ a.at \in UnderWay => ~a.released
    /\ a.at = "over" => a.released
    /\ a.reading => a.at \in {"answering", "over"}
    /\ a.work # "none" => a.at \in {"answering", "over"}
    /\ a.queue <= a.beats + 1

SlotsInv ==
    /\ SlotsTypeOK
    /\ \A r \in Imports : Sound(answer[r])
    /\ inUse = Cardinality(InUse(answer))

-----------------------------------------------------------------------------
LEMMA InUseFinite ==
    ASSUME NEW answers PROVE IsFiniteSet(InUse(answers)) /\ Cardinality(InUse(answers)) \in Nat
  <1>1. InUse(answers) \subseteq Imports
    BY DEF InUse
  <1>2. IsFiniteSet(InUse(answers))
    BY <1>1, SlotAssumption, FS_Subset
  <1>3. QED
    BY <1>2, FS_CardinalityType

LEMMA NoAnswerSound == NoAnswer \in Answer /\ Sound(NoAnswer) /\ NoAnswer.at \notin UnderWay
  BY SlotAssumption DEF NoAnswer, Answer, Sound, UnderWay

(* What an answer begins as. *)
LEMMA ArrivedSound ==
    /\ [NoAnswer EXCEPT !.at = "refused"] \in Answer
    /\ Sound([NoAnswer EXCEPT !.at = "refused"])
    /\ [NoAnswer EXCEPT !.at = "refused"].at \notin UnderWay
    /\ [NoAnswer EXCEPT !.at = "handler"] \in Answer
    /\ Sound([NoAnswer EXCEPT !.at = "handler"])
    /\ [NoAnswer EXCEPT !.at = "handler"].at \in UnderWay
  <1>1. ASSUME NEW f \in Answer, Sound(f), ~f.reading, ~f.released, f.work = "none", NEW place \in {"refused", "handler"}
        PROVE  /\ [f EXCEPT !.at = place] \in Answer
               /\ Sound([f EXCEPT !.at = place])
               /\ [f EXCEPT !.at = place].at = place
    BY <1>1 DEF Answer, Sound, UnderWay
  <1>2. ~NoAnswer.reading /\ ~NoAnswer.released /\ NoAnswer.work = "none"
    BY DEF NoAnswer
  <1>3. QED
    BY <1>1, <1>2, NoAnswerSound DEF UnderWay

LEMMA InitSlots == SlotsInit => SlotsInv
  <1>1. NoAnswer \in Answer /\ Sound(NoAnswer) /\ NoAnswer.at \notin UnderWay
    BY NoAnswerSound
  <1>2. SUFFICES ASSUME SlotsInit PROVE SlotsInv
    OBVIOUS
  <1>3. \A r \in Imports : answer[r] = NoAnswer
    BY <1>2 DEF SlotsInit
  <1>4. InUse(answer) = {}
    BY <1>1, <1>3 DEF InUse
  <1>5. Cardinality(InUse(answer)) = 0
    BY <1>4, FS_EmptySet
  <1>6. SlotsTypeOK
    BY <1>1, <1>2, SlotAssumption DEF SlotsInit, SlotsTypeOK
  <1>7. QED
    BY <1>1, <1>2, <1>3, <1>5, <1>6 DEF SlotsInit, SlotsInv

(* A step of an answer that stays under way, or stays over. *)
LEMMA GoesOnInv ==
    ASSUME SlotsInv, NEW r \in Imports, NEW a \in Answer, Sound(a), Becomes(r, a), inUse' = inUse,
           a.at \in UnderWay <=> answer[r].at \in UnderWay
    PROVE  SlotsInv'
  <1>1. answer' = [answer EXCEPT ![r] = a] /\ answer \in [Imports -> Answer]
    BY DEF Becomes, SlotsInv, SlotsTypeOK
  <1>2. answer'[r] = a /\ \A q \in Imports \ {r} : answer'[q] = answer[q]
    BY <1>1
  <1>3. InUse(answer') = InUse(answer)
    BY <1>2 DEF InUse
  <1>4. SlotsTypeOK'
    BY <1>1 DEF SlotsInv, SlotsTypeOK
  <1>5. QED
    BY <1>2, <1>3, <1>4 DEF SlotsInv

(* The lease of an answer that is over: given back now, or before. *)
LEMMA ReleasesInv ==
    ASSUME SlotsInv, NEW r \in Imports, NEW a, [a EXCEPT !.released = TRUE] \in Answer, Sound([a EXCEPT !.released = TRUE]),
           [a EXCEPT !.released = TRUE].at = "over", answer[r].at \in UnderWay \cup {"over"}, Releases(r, a)
    PROVE  SlotsInv'
  <1> DEFINE b == [a EXCEPT !.released = TRUE]
  <1>1. answer' = [answer EXCEPT ![r] = b] /\ answer \in [Imports -> Answer] /\ inUse' = Released(r)
    BY DEF Releases, Becomes, SlotsInv, SlotsTypeOK
  <1> HIDE DEF b
  <1>2. answer'[r] = b /\ \A q \in Imports \ {r} : answer'[q] = answer[q]
    BY <1>1
  <1>3. b.at \notin UnderWay /\ b \in Answer /\ Sound(b)
    BY DEF UnderWay, b
  <1>4. InUse(answer') = InUse(answer) \ {r}
    BY <1>2, <1>3 DEF InUse
  <1>5. Cardinality(InUse(answer')) = IF r \in InUse(answer) THEN Cardinality(InUse(answer)) - 1 ELSE Cardinality(InUse(answer))
    BY <1>4, InUseFinite, FS_RemoveElement
  <1>6. r \in InUse(answer) <=> ~answer[r].released
    BY DEF SlotsInv, Sound, InUse, UnderWay
  <1>7. inUse' = Cardinality(InUse(answer'))
    BY <1>1, <1>5, <1>6 DEF Released, SlotsInv
  <1>8. inUse' \in 0..Slots
    <2>1. Cardinality(InUse(answer')) \in Nat
      BY InUseFinite
    <2>2. inUse' <= inUse /\ inUse \in 0..Slots
      BY <1>1 DEF Released, SlotsInv, SlotsTypeOK
    <2>3. QED
      BY <1>7, <2>1, <2>2, SlotAssumption
  <1>9. SlotsTypeOK'
    BY <1>1, <1>3, <1>8 DEF SlotsTypeOK
  <1>10. QED
    BY <1>2, <1>3, <1>7, <1>9 DEF SlotsInv

LEMMA ArriveInv == ASSUME SlotsInv, NEW r \in Imports, Arrive(r) PROVE SlotsInv'
  <1>1. answer[r].at \notin UnderWay /\ r \notin InUse(answer)
    BY DEF Arrive, UnderWay, InUse
  <1>2. CASE inUse >= Slots
    <2> DEFINE a == [NoAnswer EXCEPT !.at = "refused"]
    <2>1. a \in Answer /\ Sound(a) /\ a.at \notin UnderWay
      BY ArrivedSound
    <2>2. Becomes(r, a) /\ inUse' = inUse
      BY <1>2 DEF Arrive
    <2> HIDE DEF a
    <2>3. QED
      BY <1>1, <2>1, <2>2, GoesOnInv
  <1>3. CASE ~(inUse >= Slots)
    <2> DEFINE a == [NoAnswer EXCEPT !.at = "handler"]
    <2>1. a \in Answer /\ Sound(a) /\ a.at \in UnderWay
      BY ArrivedSound
    <2>2. answer' = [answer EXCEPT ![r] = a] /\ answer \in [Imports -> Answer] /\ inUse' = inUse + 1
      BY <1>3 DEF Arrive, Becomes, SlotsInv, SlotsTypeOK
    <2> HIDE DEF a
    <2>3. answer'[r] = a /\ \A q \in Imports \ {r} : answer'[q] = answer[q]
      BY <2>2
    <2>4. InUse(answer') = InUse(answer) \cup {r}
      BY <2>1, <2>3 DEF InUse
    <2>5. Cardinality(InUse(answer')) = Cardinality(InUse(answer)) + 1
      BY <1>1, <2>4, InUseFinite, FS_AddElement
    <2>6. SlotsTypeOK'
      BY <1>3, <2>1, <2>2, SlotAssumption DEF SlotsInv, SlotsTypeOK
    <2>7. QED
      BY <2>1, <2>2, <2>3, <2>5, <2>6 DEF SlotsInv
  <1>4. QED
    BY <1>2, <1>3

(* What a step makes of an answer. *)
LEMMA PlainSound ==
    ASSUME NEW f \in Answer, Sound(f), f.at = "handler"
    PROVE  /\ [f EXCEPT !.at = "answering", !.work = "ended", !.queue = 1, !.closed = TRUE] \in Answer
           /\ Sound([f EXCEPT !.at = "answering", !.work = "ended", !.queue = 1, !.closed = TRUE])
           /\ [f EXCEPT !.at = "answering", !.work = "ended", !.queue = 1, !.closed = TRUE].at \in UnderWay
  <1>1. f.queue \in 0..(Beats + 1) /\ f.beats \in 0..Beats /\ f.left \in 0..Events /\ f.queue <= f.beats + 1
    BY DEF Answer, Sound
  <1>1a. 1 \in 0..(Beats + 1)
    BY <1>1, SlotAssumption
  <1>2. [f EXCEPT !.at = "answering", !.work = "ended", !.queue = 1, !.closed = TRUE] \in Answer
    BY <1>1a DEF Answer
  <1>3. QED
    BY <1>1, <1>2, SlotAssumption DEF Answer, Sound, UnderWay

LEMMA DroppedSound ==
    ASSUME NEW f \in Answer, Sound(f), f.left > 0
    PROVE  /\ [f EXCEPT !.left = @ - 1] \in Answer
           /\ Sound([f EXCEPT !.left = @ - 1])
           /\ [f EXCEPT !.left = @ - 1].at = f.at
  <1>1. f.queue \in 0..(Beats + 1) /\ f.beats \in 0..Beats /\ f.left \in 0..Events /\ f.queue <= f.beats + 1
    BY DEF Answer, Sound
  <1>2. [f EXCEPT !.left = @ - 1] \in Answer
    BY <1>1, SlotAssumption DEF Answer, Sound
  <1>3. QED
    BY <1>1, <1>2, SlotAssumption DEF Answer, Sound, UnderWay

LEMMA WaitingSound ==
    ASSUME NEW f \in Answer, Sound(f), f.work = "works"
    PROVE  /\ [f EXCEPT !.work = "waits"] \in Answer
           /\ Sound([f EXCEPT !.work = "waits"])
           /\ [f EXCEPT !.work = "waits"].at = f.at
  <1>1. f.queue \in 0..(Beats + 1) /\ f.beats \in 0..Beats /\ f.left \in 0..Events /\ f.queue <= f.beats + 1
    BY DEF Answer, Sound
  <1>2. [f EXCEPT !.work = "waits"] \in Answer
    BY <1>1, SlotAssumption DEF Answer, Sound
  <1>3. QED
    BY <1>1, <1>2, SlotAssumption DEF Answer, Sound, UnderWay

LEMMA BufferedSound ==
    ASSUME NEW f \in Answer, Sound(f), f.left > 0
    PROVE  /\ [f EXCEPT !.left = @ - 1, !.queue = 1] \in Answer
           /\ Sound([f EXCEPT !.left = @ - 1, !.queue = 1])
           /\ [f EXCEPT !.left = @ - 1, !.queue = 1].at = f.at
  <1>1. f.queue \in 0..(Beats + 1) /\ f.beats \in 0..Beats /\ f.left \in 0..Events /\ f.queue <= f.beats + 1
    BY DEF Answer, Sound
  <1>1a. 1 \in 0..(Beats + 1) /\ f.left - 1 \in 0..Events
    BY <1>1, SlotAssumption
  <1>2. [f EXCEPT !.left = @ - 1, !.queue = 1] \in Answer
    BY <1>1a DEF Answer
  <1>3. QED
    BY <1>1, <1>2, SlotAssumption DEF Answer, Sound, UnderWay

LEMMA BeatSound ==
    ASSUME NEW f \in Answer, Sound(f), f.beats < Beats
    PROVE  /\ [f EXCEPT !.queue = @ + 1, !.beats = @ + 1] \in Answer
           /\ Sound([f EXCEPT !.queue = @ + 1, !.beats = @ + 1])
           /\ [f EXCEPT !.queue = @ + 1, !.beats = @ + 1].at = f.at
  <1>1. f.queue \in 0..(Beats + 1) /\ f.beats \in 0..Beats /\ f.left \in 0..Events /\ f.queue <= f.beats + 1
    BY DEF Answer, Sound
  <1>1a. f.queue + 1 \in 0..(Beats + 1) /\ f.beats + 1 \in 0..Beats
    BY <1>1, SlotAssumption
  <1>2. [f EXCEPT !.queue = @ + 1, !.beats = @ + 1] \in Answer
    BY <1>1a DEF Answer
  <1>3. QED
    BY <1>1, <1>2, SlotAssumption DEF Answer, Sound, UnderWay

LEMMA DoneSound ==
    ASSUME NEW f \in Answer, Sound(f), f.work = "works"
    PROVE  /\ [f EXCEPT !.work = "ended", !.closed = TRUE] \in Answer
           /\ Sound([f EXCEPT !.work = "ended", !.closed = TRUE])
           /\ [f EXCEPT !.work = "ended", !.closed = TRUE].at = f.at
  <1>1. f.queue \in 0..(Beats + 1) /\ f.beats \in 0..Beats /\ f.left \in 0..Events /\ f.queue <= f.beats + 1
    BY DEF Answer, Sound
  <1>2. [f EXCEPT !.work = "ended", !.closed = TRUE] \in Answer
    BY <1>1, SlotAssumption DEF Answer, Sound
  <1>3. QED
    BY <1>1, <1>2, SlotAssumption DEF Answer, Sound, UnderWay

LEMMA PulledSound ==
    ASSUME NEW f \in Answer, Sound(f), f.at = "answering"
    PROVE  /\ [f EXCEPT !.reading = TRUE] \in Answer
           /\ Sound([f EXCEPT !.reading = TRUE])
           /\ [f EXCEPT !.reading = TRUE].at = f.at
  <1>1. f.queue \in 0..(Beats + 1) /\ f.beats \in 0..Beats /\ f.left \in 0..Events /\ f.queue <= f.beats + 1
    BY DEF Answer, Sound
  <1>2. [f EXCEPT !.reading = TRUE] \in Answer
    BY <1>1, SlotAssumption DEF Answer, Sound
  <1>3. QED
    BY <1>1, <1>2, SlotAssumption DEF Answer, Sound, UnderWay

LEMMA ReadSound ==
    ASSUME NEW f \in Answer, Sound(f), f.queue > 0
    PROVE  /\ [f EXCEPT !.queue = @ - 1, !.reading = FALSE] \in Answer
           /\ Sound([f EXCEPT !.queue = @ - 1, !.reading = FALSE])
           /\ [f EXCEPT !.queue = @ - 1, !.reading = FALSE].at = f.at
  <1>1. f.queue \in 0..(Beats + 1) /\ f.beats \in 0..Beats /\ f.left \in 0..Events /\ f.queue <= f.beats + 1
    BY DEF Answer, Sound
  <1>1a. f.queue - 1 \in 0..(Beats + 1)
    BY <1>1, SlotAssumption
  <1>2. [f EXCEPT !.queue = @ - 1, !.reading = FALSE] \in Answer
    BY <1>1a DEF Answer
  <1>3. QED
    BY <1>1, <1>2, SlotAssumption DEF Answer, Sound, UnderWay

LEMMA StreamSound ==
    ASSUME NEW f \in Answer, Sound(f), f.at = "handler", NEW n \in 1..Events
    PROVE  /\ [f EXCEPT !.at = "answering", !.work = "works", !.left = n] \in Answer
           /\ Sound([f EXCEPT !.at = "answering", !.work = "works", !.left = n])
           /\ [f EXCEPT !.at = "answering", !.work = "works", !.left = n].at \in UnderWay
  <1>1. n \in 0..Events
    BY SlotAssumption
  <1>2. [f EXCEPT !.at = "answering", !.work = "works", !.left = n] \in Answer
    BY <1>1 DEF Answer
  <1>3. QED
    BY <1>2 DEF Answer, Sound, UnderWay

LEMMA WokenSound ==
    ASSUME NEW f \in Answer, Sound(f) PROVE Woken(f) \in Answer /\ Sound(Woken(f)) /\ Woken(f).at = f.at
  BY DEF Woken, Answer, Sound, UnderWay

(* What an answer that ends leaves. *)
LEMMA OverSound ==
    ASSUME NEW f \in Answer, Sound(f), f.at \in UnderWay \cup {"over"}
    PROVE  /\ [[f EXCEPT !.at = "over"] EXCEPT !.released = TRUE] \in Answer
           /\ Sound([[f EXCEPT !.at = "over"] EXCEPT !.released = TRUE])
           /\ [[f EXCEPT !.at = "over"] EXCEPT !.released = TRUE].at = "over"
           /\ [[f EXCEPT !.at = "over", !.reading = FALSE] EXCEPT !.released = TRUE] \in Answer
           /\ Sound([[f EXCEPT !.at = "over", !.reading = FALSE] EXCEPT !.released = TRUE])
           /\ [[f EXCEPT !.at = "over", !.reading = FALSE] EXCEPT !.released = TRUE].at = "over"
  <1>1. /\ [[f EXCEPT !.at = "over"] EXCEPT !.released = TRUE] \in Answer
        /\ Sound([[f EXCEPT !.at = "over"] EXCEPT !.released = TRUE])
        /\ [[f EXCEPT !.at = "over"] EXCEPT !.released = TRUE].at = "over"
    BY DEF Answer, Sound, UnderWay
  <1>2. /\ [[f EXCEPT !.at = "over", !.reading = FALSE] EXCEPT !.released = TRUE] \in Answer
        /\ Sound([[f EXCEPT !.at = "over", !.reading = FALSE] EXCEPT !.released = TRUE])
        /\ [[f EXCEPT !.at = "over", !.reading = FALSE] EXCEPT !.released = TRUE].at = "over"
    BY DEF Answer, Sound, UnderWay
  <1>3. QED
    BY <1>1, <1>2

LEMMA GoneSound ==
    ASSUME NEW f \in Answer, Sound(f), f.at = "answering"
    PROVE  /\ [Gone(f) EXCEPT !.released = TRUE] \in Answer
           /\ Sound([Gone(f) EXCEPT !.released = TRUE])
           /\ [Gone(f) EXCEPT !.released = TRUE].at = "over"
  <1> DEFINE g == [f EXCEPT !.at = "over", !.closed = TRUE, !.queue = 0, !.beats = 0]
  <1>1. 0 \in 0..(Beats + 1) /\ 0 \in 0..Beats
    BY SlotAssumption
  <1>2. g \in Answer
    BY <1>1 DEF Answer
  <1>3. g.at = "over" /\ g.work = f.work /\ g.reading = f.reading /\ g.queue = 0 /\ g.beats = 0
    BY DEF Answer
  <1> HIDE DEF g
  <1>4. Woken(g) \in Answer /\ Woken(g).at = "over" /\ Woken(g).queue = 0 /\ Woken(g).beats = 0
    BY <1>2, <1>3 DEF Woken, Answer
  <1>5. ASSUME NEW h \in Answer, h.at = "over", h.queue = 0, h.beats = 0
        PROVE  /\ [h EXCEPT !.released = TRUE] \in Answer
               /\ Sound([h EXCEPT !.released = TRUE])
               /\ [h EXCEPT !.released = TRUE].at = "over"
    <2>1. [h EXCEPT !.released = TRUE] \in Answer
      BY <1>5 DEF Answer
    <2>2. /\ [h EXCEPT !.released = TRUE].at = "over"
          /\ [h EXCEPT !.released = TRUE].queue = 0 /\ [h EXCEPT !.released = TRUE].beats = 0
          /\ [h EXCEPT !.released = TRUE].released
      BY <1>5 DEF Answer
    <2>3. QED
      BY <2>1, <2>2 DEF Sound, UnderWay
  <1>6. Gone(f) = Woken(g)
    BY DEF Gone, g
  <1>7. QED
    BY <1>4, <1>5, <1>6

LEMMA NextSlots == SlotsInv /\ [SlotsNext]_slotVars => SlotsInv'
  <1> SUFFICES ASSUME SlotsInv, [SlotsNext]_slotVars PROVE SlotsInv'
    OBVIOUS
  <1>1. \A r \in Imports : answer[r] \in Answer /\ Sound(answer[r])
    BY DEF SlotsInv, SlotsTypeOK
  <1>2. ASSUME NEW r \in Imports, NoBody(r) PROVE SlotsInv'
    <2>1. answer[r].at = "handler" /\ Releases(r, [answer[r] EXCEPT !.at = "over"])
      BY <1>2 DEF NoBody
    <2>2. answer[r].at \in UnderWay \cup {"over"}
      BY <2>1 DEF UnderWay
    <2>3. QED
      BY <1>1, <2>1, <2>2, OverSound, ReleasesInv
  <1>3. ASSUME NEW r \in Imports, Plain(r) PROVE SlotsInv'
    <2> DEFINE a == [answer[r] EXCEPT !.at = "answering", !.work = "ended", !.queue = 1, !.closed = TRUE]
    <2>1. answer[r].at = "handler" /\ Becomes(r, a) /\ inUse' = inUse
      BY <1>3 DEF Plain
    <2>2. a \in Answer /\ Sound(a) /\ a.at \in UnderWay
      BY <1>1, <2>1, PlainSound
    <2> HIDE DEF a
    <2>3. QED
      BY <2>1, <2>2, GoesOnInv DEF UnderWay
  <1>4. ASSUME NEW r \in Imports, Stream(r) PROVE SlotsInv'
    <2>1. PICK n \in 1..Events : Becomes(r, [answer[r] EXCEPT !.at = "answering", !.work = "works", !.left = n])
      BY <1>4 DEF Stream
    <2> DEFINE a == [answer[r] EXCEPT !.at = "answering", !.work = "works", !.left = n]
    <2>2. answer[r].at = "handler" /\ Becomes(r, a) /\ inUse' = inUse
      BY <1>4, <2>1 DEF Stream
    <2>3. a \in Answer /\ Sound(a) /\ a.at \in UnderWay
      BY <1>1, <2>2, StreamSound
    <2> HIDE DEF a
    <2>4. QED
      BY <2>2, <2>3, GoesOnInv DEF UnderWay
  <1>5. ASSUME NEW r \in Imports, Send(r) PROVE SlotsInv'
    <2> DEFINE dropped == [answer[r] EXCEPT !.left = @ - 1]
               waiting == [answer[r] EXCEPT !.work = "waits"]
               buffered == [answer[r] EXCEPT !.left = @ - 1, !.queue = 1]
    <2>1. answer[r].work = "works" /\ answer[r].left > 0 /\ inUse' = inUse
      BY <1>5 DEF Send
    <2>2. Becomes(r, dropped) \/ Becomes(r, waiting) \/ Becomes(r, buffered)
      BY <1>5 DEF Send
    <2>3. /\ dropped \in Answer /\ Sound(dropped) /\ dropped.at = answer[r].at
          /\ waiting \in Answer /\ Sound(waiting) /\ waiting.at = answer[r].at
          /\ buffered \in Answer /\ Sound(buffered) /\ buffered.at = answer[r].at
      BY <1>1, <2>1, DroppedSound, WaitingSound, BufferedSound
    <2> HIDE DEF dropped, waiting, buffered
    <2>4. QED
      BY <2>1, <2>2, <2>3, GoesOnInv
  <1>6. ASSUME NEW r \in Imports, Heartbeat(r) PROVE SlotsInv'
    <2> DEFINE a == [answer[r] EXCEPT !.queue = @ + 1, !.beats = @ + 1]
    <2>1. answer[r].beats < Beats /\ Becomes(r, a) /\ inUse' = inUse
      BY <1>6 DEF Heartbeat
    <2>2. a \in Answer /\ Sound(a) /\ a.at = answer[r].at
      BY <1>1, <2>1, BeatSound
    <2> HIDE DEF a
    <2>3. QED
      BY <2>1, <2>2, GoesOnInv
  <1>7. ASSUME NEW r \in Imports, WorkEnds(r) PROVE SlotsInv'
    <2> DEFINE a == [answer[r] EXCEPT !.work = "ended", !.closed = TRUE]
    <2>1. answer[r].work = "works" /\ Becomes(r, a) /\ inUse' = inUse
      BY <1>7 DEF WorkEnds
    <2>2. a \in Answer /\ Sound(a) /\ a.at = answer[r].at
      BY <1>1, <2>1, DoneSound
    <2> HIDE DEF a
    <2>3. QED
      BY <2>1, <2>2, GoesOnInv
  <1>8. ASSUME NEW r \in Imports, Pull(r) PROVE SlotsInv'
    <2> DEFINE a == [answer[r] EXCEPT !.reading = TRUE]
    <2>1. answer[r].at = "answering" /\ Becomes(r, a) /\ inUse' = inUse
      BY <1>8 DEF Pull
    <2>2. a \in Answer /\ Sound(a) /\ a.at = answer[r].at
      BY <1>1, <2>1, PulledSound
    <2> HIDE DEF a
    <2>3. QED
      BY <2>1, <2>2, GoesOnInv
  <1>9. ASSUME NEW r \in Imports, Line(r) PROVE SlotsInv'
    <2> DEFINE a == [answer[r] EXCEPT !.queue = @ - 1, !.reading = FALSE]
    <2>1. answer[r].queue > 0 /\ inUse' = inUse /\ (Becomes(r, Woken(a)) \/ Becomes(r, a))
      BY <1>9 DEF Line
    <2>2. a \in Answer /\ Sound(a) /\ a.at = answer[r].at
      BY <1>1, <2>1, ReadSound
    <2> HIDE DEF a
    <2>3. Woken(a) \in Answer /\ Sound(Woken(a)) /\ Woken(a).at = answer[r].at
      BY <2>2, WokenSound
    <2>4. QED
      BY <2>1, <2>2, <2>3, GoesOnInv
  <1>10. ASSUME NEW r \in Imports, LastLine(r) PROVE SlotsInv'
    <2>1. answer[r].reading /\ Releases(r, [answer[r] EXCEPT !.at = "over", !.reading = FALSE])
      BY <1>10 DEF LastLine
    <2>2. answer[r].at \in UnderWay \cup {"over"}
      BY <1>1, <2>1 DEF Sound, UnderWay
    <2>3. QED
      BY <1>1, <2>1, <2>2, OverSound, ReleasesInv
  <1>11. ASSUME NEW r \in Imports, GoAway(r) PROVE SlotsInv'
    <2>1. answer[r].at = "answering" /\ Releases(r, Gone(answer[r]))
      BY <1>11 DEF GoAway
    <2>2. answer[r].at \in UnderWay \cup {"over"}
      BY <2>1 DEF UnderWay
    <2>3. QED
      BY <1>1, <2>1, <2>2, GoneSound, ReleasesInv
  <1>12. CASE UNCHANGED slotVars
    BY <1>12 DEF slotVars, SlotsInv, SlotsTypeOK
  <1>13. QED
    BY <1>2, <1>3, <1>4, <1>5, <1>6, <1>7, <1>8, <1>9, <1>10, <1>11, <1>12, ArriveInv DEF SlotsNext, Handle, Work, Read

-----------------------------------------------------------------------------
(* ConcurrencyLimit: the places in use are those of the requests under way, whatever finds out that one is over. *)
THEOREM PlacesExact == SlotsSpec => []SlotsExact
  <1>1. SlotsSpec => []SlotsInv
    BY InitSlots, NextSlots, PTL DEF SlotsSpec
  <1>2. SlotsInv => SlotsExact
    BY DEF SlotsInv, SlotsExact, InUse, UnderWay
  <1>3. QED
    BY <1>1, <1>2, PTL

-----------------------------------------------------------------------------
(***************************************************************************)
(* The sums of the room (SumFunction, which is defined by a recursion on   *)
(* the set that is summed over).                                           *)
(***************************************************************************)
(* A family of subsets of a finite set that has each one whose smaller subsets it has, has them all. *)
LEMMA SetInduction ==
    ASSUME NEW S, IsFiniteSet(S), NEW F, \A T \in SUBSET S : (\A U \in SUBSET T : U # T => U \in F) => T \in F
    PROVE  SUBSET S \subseteq F
  <1> DEFINE Bad == {T \in SUBSET S : T \notin F}
  <1>1. SUFFICES ASSUME Bad # {} PROVE FALSE
    OBVIOUS
  <1>2. Bad \subseteq FiniteSubsetsOf(S)
    BY FS_FiniteSubsetsOfFinite
  <1>3. PICK T \in Bad : \A U \in Bad : ~ (<<U, T>> \in StrictSubsetOrdering(S))
    <2> HIDE DEF Bad
    <2>1. QED
      BY <1>1, <1>2, FS_StrictSubsetOrderingWellFounded, WFMin
  <1>4. \A U \in SUBSET T : U # T => U \in F
    BY <1>3 DEF StrictSubsetOrdering
  <1>5. QED
    BY <1>3, <1>4

First(s) == CHOOSE x \in s : TRUE
PartialSum(f, g, s) == IF s = {} THEN 0 ELSE f[First(s)] + g[s \ {First(s)}]
Sums(f, S, g) == g = [s \in SUBSET S |-> PartialSum(f, g, s)]

LEMMA FirstIn ==
    ASSUME NEW s, s # {}
    PROVE  First(s) \in s /\ s \ {First(s)} \in SUBSET s /\ s \ {First(s)} # s
  BY DEF First

(* There is one such function at most, and there is one. *)
LEMMA SumsAgree ==
    ASSUME NEW S, IsFiniteSet(S), NEW f, NEW A, NEW B, S \subseteq A, S \subseteq B,
           NEW g, NEW h, Sums(f, A, g), Sums(f, B, h)
    PROVE  \A s \in SUBSET S : g[s] = h[s]
  <1> DEFINE F == {s \in SUBSET S : g[s] = h[s]}
  <1>1. ASSUME NEW T \in SUBSET S, \A U \in SUBSET T : U # T => U \in F PROVE T \in F
    <2>1. g[T] = PartialSum(f, g, T) /\ h[T] = PartialSum(f, h, T)
      BY DEF Sums
    <2>2. ASSUME T # {} PROVE g[T \ {First(T)}] = h[T \ {First(T)}]
      BY <1>1, <2>2, FirstIn
    <2>3. QED
      BY <2>1, <2>2 DEF PartialSum
  <1> HIDE DEF F
  <1>2. SUBSET S \subseteq F
    BY <1>1, SetInduction
  <1>3. QED
    BY <1>2 DEF F

LEMMA SumsExist ==
    ASSUME NEW S, IsFiniteSet(S), NEW f
    PROVE  \E g : Sums(f, S, g)
  <1> DEFINE F == {T \in SUBSET S : \E g : Sums(f, T, g)}
  <1>1. ASSUME NEW T \in SUBSET S, \A U \in SUBSET T : U # T => U \in F PROVE T \in F
    <2> DEFINE G(U) == CHOOSE g : Sums(f, U, g)
               part == [s \in SUBSET T |-> G(s)[s]]
               g == [s \in SUBSET T |-> PartialSum(f, part, s)]
    <2>1. \A U \in SUBSET T : U # T => Sums(f, U, G(U))
      BY <1>1
    <2> HIDE DEF G
    <2>2. ASSUME NEW U \in SUBSET T, U # T PROVE part[U] = g[U]
      <3>1. Sums(f, U, G(U)) /\ part[U] = G(U)[U] /\ U \in SUBSET U
        BY <2>1, <2>2
      <3>2. G(U)[U] = PartialSum(f, G(U), U)
        BY <3>1 DEF Sums
      <3>3. ASSUME U # {} PROVE G(U)[U \ {First(U)}] = part[U \ {First(U)}]
        <4> DEFINE V == U \ {First(U)}
        <4>1. V \in SUBSET U /\ V \in SUBSET T /\ V # T
          BY <2>2, <3>3, FirstIn
        <4> HIDE DEF V
        <4>2. Sums(f, V, G(V)) /\ part[V] = G(V)[V]
          BY <2>1, <4>1
        <4>3. IsFiniteSet(V)
          BY <1>1, <4>1, FS_Subset
        <4>4. G(U)[V] = G(V)[V]
          BY <3>1, <4>1, <4>2, <4>3, SumsAgree
        <4>5. QED
          BY <4>2, <4>4 DEF V
      <3>4. g[U] = PartialSum(f, part, U)
        BY <2>2
      <3> HIDE DEF part, g
      <3>5. QED
        BY <3>1, <3>2, <3>3, <3>4 DEF PartialSum
    <2>3. ASSUME NEW s \in SUBSET T PROVE g[s] = PartialSum(f, g, s)
      <3>1. g[s] = PartialSum(f, part, s)
        BY <2>3
      <3>2. ASSUME s # {} PROVE part[s \ {First(s)}] = g[s \ {First(s)}]
        <4>1. s \ {First(s)} \in SUBSET T /\ s \ {First(s)} # T
          BY <2>3, <3>2, FirstIn
        <4>2. QED
          BY <2>2, <4>1
      <3> HIDE DEF part, g
      <3>3. QED
        BY <3>1, <3>2 DEF PartialSum
    <2>4. g = [s \in SUBSET T |-> g[s]]
      OBVIOUS
    <2> HIDE DEF g
    <2>5. g = [s \in SUBSET T |-> PartialSum(f, g, s)]
      BY <2>3, <2>4
    <2>6. QED
      BY <2>5 DEF Sums
  <1> HIDE DEF F
  <1>2. SUBSET S \subseteq F
    BY <1>1, SetInduction
  <1>3. S \in F
    BY <1>2
  <1>4. QED
    BY <1>3 DEF F

LEMMA SumExpands ==
    ASSUME NEW f, NEW S, IsFiniteSet(S)
    PROVE  \E g : Sums(f, S, g) /\ SumFunctionOnSet(f, S) = g[S]
  <1> DEFINE g == CHOOSE h : Sums(f, S, h)
  <1>1. Sums(f, S, g)
    BY SumsExist
  <1>2. SumFunctionOnSet(f, S) = g[S]
    BY DEF SumFunctionOnSet, FoldFunctionOnSet, MapThenFoldSet, Sums, PartialSum, First
  <1> HIDE DEF g
  <1>3. QED
    BY <1>1, <1>2

LEMMA SumOfNone ==
    ASSUME NEW f
    PROVE  SumFunctionOnSet(f, {}) = 0
  <1>1. PICK g : Sums(f, {}, g) /\ SumFunctionOnSet(f, {}) = g[{}]
    BY SumExpands, FS_EmptySet
  <1>2. g[{}] = PartialSum(f, g, {})
    BY <1>1 DEF Sums
  <1>3. QED
    BY <1>1, <1>2 DEF PartialSum

LEMMA SumOfSome ==
    ASSUME NEW f, NEW S, IsFiniteSet(S), S # {}
    PROVE  SumFunctionOnSet(f, S) = f[First(S)] + SumFunctionOnSet(f, S \ {First(S)})
  <1> DEFINE T == S \ {First(S)}
  <1>1. T \in SUBSET S /\ IsFiniteSet(T)
    BY FS_Subset
  <1> HIDE DEF T
  <1>2. PICK g : Sums(f, S, g) /\ SumFunctionOnSet(f, S) = g[S]
    BY SumExpands
  <1>3. PICK h : Sums(f, T, h) /\ SumFunctionOnSet(f, T) = h[T]
    BY <1>1, SumExpands
  <1>4. g[T] = h[T]
    BY <1>1, <1>2, <1>3, SumsAgree
  <1>5. g[S] = f[First(S)] + g[T]
    <2>1. g[S] = PartialSum(f, g, S)
      BY <1>2 DEF Sums
    <2>2. QED
      BY <2>1 DEF PartialSum, T
  <1>6. QED
    BY <1>2, <1>3, <1>4, <1>5 DEF T

(* What the sums are: of naturals a natural, the same for functions that agree, and each element counts once. *)
LEMMA SumIsNat ==
    ASSUME NEW S, IsFiniteSet(S), NEW f, \A x \in S : f[x] \in Nat
    PROVE  \A T \in SUBSET S : SumFunctionOnSet(f, T) \in Nat
  <1> DEFINE F == {T \in SUBSET S : SumFunctionOnSet(f, T) \in Nat}
  <1>1. ASSUME NEW T \in SUBSET S, \A U \in SUBSET T : U # T => U \in F PROVE T \in F
    <2>1. CASE T = {}
      BY <2>1, SumOfNone
    <2>2. CASE T # {}
      <3>1. IsFiniteSet(T) /\ T \ {First(T)} \in F /\ f[First(T)] \in Nat
        BY <1>1, <2>2, FirstIn, FS_Subset
      <3>2. SumFunctionOnSet(f, T) = f[First(T)] + SumFunctionOnSet(f, T \ {First(T)})
        BY <2>2, <3>1, SumOfSome
      <3>3. QED
        BY <3>1, <3>2
    <2>3. QED
      BY <2>1, <2>2
  <1> HIDE DEF F
  <1>2. SUBSET S \subseteq F
    BY <1>1, SetInduction
  <1>3. QED
    BY <1>2 DEF F

LEMMA SumIsSame ==
    ASSUME NEW S, IsFiniteSet(S), NEW f, NEW g, \A x \in S : f[x] = g[x]
    PROVE  SumFunctionOnSet(f, S) = SumFunctionOnSet(g, S)
  <1> DEFINE F == {T \in SUBSET S : SumFunctionOnSet(f, T) = SumFunctionOnSet(g, T)}
  <1>1. ASSUME NEW T \in SUBSET S, \A U \in SUBSET T : U # T => U \in F PROVE T \in F
    <2>1. CASE T = {}
      BY <2>1, SumOfNone
    <2>2. CASE T # {}
      <3>1. IsFiniteSet(T) /\ T \ {First(T)} \in F /\ f[First(T)] = g[First(T)]
        BY <1>1, <2>2, FirstIn, FS_Subset
      <3>2. /\ SumFunctionOnSet(f, T) = f[First(T)] + SumFunctionOnSet(f, T \ {First(T)})
            /\ SumFunctionOnSet(g, T) = g[First(T)] + SumFunctionOnSet(g, T \ {First(T)})
        BY <2>2, <3>1, SumOfSome
      <3>3. QED
        BY <3>1, <3>2
    <2>3. QED
      BY <2>1, <2>2
  <1> HIDE DEF F
  <1>2. SUBSET S \subseteq F
    BY <1>1, SetInduction
  <1>3. S \in F
    BY <1>2
  <1>4. QED
    BY <1>3 DEF F

LEMMA SumWithout ==
    ASSUME NEW S, IsFiniteSet(S), NEW f, \A x \in S : f[x] \in Nat, NEW y \in S
    PROVE  SumFunctionOnSet(f, S) = f[y] + SumFunctionOnSet(f, S \ {y})
  <1> DEFINE F == {T \in SUBSET S : \A x \in T : SumFunctionOnSet(f, T) = f[x] + SumFunctionOnSet(f, T \ {x})}
  <1>1. ASSUME NEW T \in SUBSET S, \A U \in SUBSET T : U # T => U \in F PROVE T \in F
    <2> SUFFICES ASSUME NEW x \in T PROVE SumFunctionOnSet(f, T) = f[x] + SumFunctionOnSet(f, T \ {x})
      OBVIOUS
    <2> DEFINE c == First(T)
    <2>1. /\ IsFiniteSet(T) /\ c \in T /\ f[c] \in Nat /\ f[x] \in Nat
          /\ SumFunctionOnSet(f, T) = f[c] + SumFunctionOnSet(f, T \ {c})
      BY FirstIn, FS_Subset, SumOfSome
    <2> HIDE DEF c
    <2>2. CASE x = c
      BY <2>1, <2>2
    <2>3. CASE x # c
      <3>1. T \ {c} \in F /\ T \ {x} \in F /\ x \in T \ {c} /\ c \in T \ {x} /\ (T \ {c}) \ {x} = (T \ {x}) \ {c}
        BY <1>1, <2>1, <2>3
      <3>2. PICK rest : rest = (T \ {c}) \ {x} /\ rest = (T \ {x}) \ {c}
        BY <3>1
      <3>3. /\ SumFunctionOnSet(f, T \ {c}) = f[x] + SumFunctionOnSet(f, rest)
            /\ SumFunctionOnSet(f, T \ {x}) = f[c] + SumFunctionOnSet(f, rest)
            /\ SumFunctionOnSet(f, rest) \in Nat
        <4>1. rest \in SUBSET S
          BY <3>2
        <4>2. QED
          BY <3>1, <3>2, <4>1, SumIsNat
      <3> HIDE DEF F
      <3>4. QED
        BY <2>1, <3>3
    <2>4. QED
      BY <2>2, <2>3
  <1> HIDE DEF F
  <1>2. SUBSET S \subseteq F
    BY <1>1, SetInduction
  <1>3. S \in F
    BY <1>2
  <1>4. QED
    BY <1>3 DEF F

(* Fewer elements, each of which counts as much or less, weigh no more. *)
LEMMA SumOfFewer ==
    ASSUME NEW S, IsFiniteSet(S), NEW f, \A x \in S : f[x] \in Nat
    PROVE  \A T \in SUBSET S : SumFunctionOnSet(f, T) <= SumFunctionOnSet(f, S)
  <1> DEFINE F == {A \in SUBSET S : \A T \in SUBSET A : SumFunctionOnSet(f, T) <= SumFunctionOnSet(f, A)}
  <1>1. ASSUME NEW A \in SUBSET S, \A U \in SUBSET A : U # A => U \in F PROVE A \in F
    <2> SUFFICES ASSUME NEW T \in SUBSET A PROVE SumFunctionOnSet(f, T) <= SumFunctionOnSet(f, A)
      OBVIOUS
    <2>1. \A U \in SUBSET S : SumFunctionOnSet(f, U) \in Nat
      BY SumIsNat
    <2>2. CASE T = A
      BY <2>1, <2>2
    <2>3. CASE T # A
      <3>1. PICK x \in A : x \notin T
        BY <2>3
      <3>2. A \ {x} \in F /\ T \in SUBSET (A \ {x}) /\ f[x] \in Nat /\ IsFiniteSet(A)
        BY <1>1, <3>1, FS_Subset
      <3>3. SumFunctionOnSet(f, T) <= SumFunctionOnSet(f, A \ {x})
        BY <3>2
      <3>4. SumFunctionOnSet(f, A) = f[x] + SumFunctionOnSet(f, A \ {x})
        BY <3>2, SumWithout
      <3>5. /\ SumFunctionOnSet(f, A) \in Nat /\ SumFunctionOnSet(f, A \ {x}) \in Nat /\ SumFunctionOnSet(f, T) \in Nat
        BY <2>1
      <3> HIDE DEF F
      <3>6. QED
        BY <3>2, <3>3, <3>4, <3>5
    <2>4. QED
      BY <2>2, <2>3
  <1> HIDE DEF F
  <1>2. SUBSET S \subseteq F
    BY <1>1, SetInduction
  <1>3. S \in F
    BY <1>2
  <1>4. QED
    BY <1>3 DEF F

-----------------------------------------------------------------------------
(***************************************************************************)
(* The room of the snapshots.                                              *)
(***************************************************************************)
Weight(all) == [t \in Kept(all) |-> all[t].bytes]
Aside(takers) == [t \in {u \in Takers : takers[u].at = "taking"} |-> takers[t].limit]

Outcomes == {"kept", "full", "too many", "too large", "failed"}

RoomInv ==
    /\ RoomTypeOK
    /\ \A t \in Takers : taker[t].at = "taking" => taker[t].scope \in Scopes
    /\ RoomKept

LEMMA HeldBytesAre ==
    ASSUME NEW all \in [Takers -> Held \cup {NoSnapshot}]
    PROVE  /\ Kept(all) \subseteq Takers /\ IsFiniteSet(Kept(all)) /\ \A t \in Kept(all) : all[t] \in Held /\ all[t].bytes \in Nat
           /\ HeldBytes(all) = SumFunctionOnSet(Weight(all), Kept(all)) /\ HeldBytes(all) \in Nat
  <1>1. Kept(all) \subseteq Takers /\ \A t \in Kept(all) : all[t] \in Held
    BY DEF Kept
  <1>2. IsFiniteSet(Kept(all))
    BY <1>1, RoomAssumption, FS_Subset
  <1>3. \A t \in Kept(all) : all[t].bytes \in Nat
    BY <1>1, RoomAssumption DEF Held
  <1>4. HeldBytes(all) = SumFunctionOnSet(Weight(all), Kept(all))
    BY DEF HeldBytes, SumFunction, Weight
  <1>5. SumFunctionOnSet(Weight(all), Kept(all)) \in Nat
    <2>1. \A t \in Kept(all) : Weight(all)[t] \in Nat
      BY <1>3 DEF Weight
    <2>2. Kept(all) \in SUBSET Kept(all)
      OBVIOUS
    <2>3. QED
      BY <1>2, <2>1, <2>2, SumIsNat
  <1>6. QED
    BY <1>1, <1>2, <1>3, <1>4, <1>5

(* Whoever drops snapshots holds no more than before. *)
LEMMA HoldingFewer ==
    ASSUME NEW all \in [Takers -> Held \cup {NoSnapshot}], NEW fewer \in [Takers -> Held \cup {NoSnapshot}],
           \A t \in Takers : fewer[t] \in {all[t], NoSnapshot}
    PROVE  HeldBytes(fewer) <= HeldBytes(all)
  <1> DEFINE K == Kept(fewer)
  <1>1. /\ IsFiniteSet(Kept(all)) /\ K \subseteq Kept(all) /\ IsFiniteSet(K)
        /\ \A t \in K : fewer[t] = all[t]
        /\ \A t \in Kept(all) : all[t].bytes \in Nat
    BY HeldBytesAre DEF Kept
  <1>2. SumFunctionOnSet(Weight(fewer), K) = SumFunctionOnSet(Weight(all), K)
    <2>1. \A t \in K : Weight(fewer)[t] = Weight(all)[t]
      BY <1>1 DEF Weight
    <2> HIDE DEF K
    <2>2. QED
      BY <1>1, <2>1, SumIsSame
  <1>3. SumFunctionOnSet(Weight(all), K) <= SumFunctionOnSet(Weight(all), Kept(all))
    <2>1. \A t \in Kept(all) : Weight(all)[t] \in Nat
      BY <1>1 DEF Weight
    <2> HIDE DEF K
    <2>2. QED
      BY <1>1, <2>1, SumOfFewer
  <1>4. QED
    BY <1>2, <1>3, HeldBytesAre

(* Whoever keeps one more holds its weight more, at most. *)
LEMMA HoldingOneMore ==
    ASSUME NEW all \in [Takers -> Held \cup {NoSnapshot}], NEW t \in Takers, NEW h \in Held
    PROVE  HeldBytes([all EXCEPT ![t] = h]) <= HeldBytes(all) + h.bytes
  <1> DEFINE more == [all EXCEPT ![t] = h]
             rest == [all EXCEPT ![t] = NoSnapshot]
  <1>1. /\ more \in [Takers -> Held \cup {NoSnapshot}] /\ rest \in [Takers -> Held \cup {NoSnapshot}]
        /\ more[t] = h /\ rest[t] = NoSnapshot /\ h # NoSnapshot
        /\ \A u \in Takers \ {t} : more[u] = all[u] /\ rest[u] = all[u]
    BY RoomAssumption
  <1> HIDE DEF more, rest
  <1>2. t \in Kept(more) /\ Kept(more) \ {t} = Kept(rest)
    BY <1>1 DEF Kept
  <1>3. HeldBytes(rest) <= HeldBytes(all)
    BY <1>1, HoldingFewer
  <1>4. SumFunctionOnSet(Weight(more), Kept(more)) = Weight(more)[t] + SumFunctionOnSet(Weight(more), Kept(rest))
    <2>1. IsFiniteSet(Kept(more)) /\ \A u \in Kept(more) : Weight(more)[u] \in Nat
      BY <1>1, HeldBytesAre DEF Weight
    <2>2. QED
      BY <1>2, <2>1, SumWithout
  <1>5. SumFunctionOnSet(Weight(more), Kept(rest)) = SumFunctionOnSet(Weight(rest), Kept(rest))
    <2>1. \A u \in Kept(rest) : Weight(more)[u] = Weight(rest)[u]
      BY <1>1, <1>2 DEF Weight, Kept
    <2>2. IsFiniteSet(Kept(rest))
      BY <1>1, HeldBytesAre
    <2>3. QED
      BY <2>1, <2>2, SumIsSame
  <1>6. Weight(more)[t] = h.bytes /\ h.bytes \in Nat
    BY <1>1, <1>2, RoomAssumption DEF Weight, Held
  <1>7. HeldBytes(more) = h.bytes + HeldBytes(rest) /\ HeldBytes(rest) \in Nat /\ HeldBytes(all) \in Nat
    BY <1>1, <1>4, <1>5, <1>6, HeldBytesAre
  <1>8. HeldBytes(more) <= HeldBytes(all) + h.bytes
    BY <1>3, <1>6, <1>7
  <1>9. QED
    BY <1>8 DEF more

(* What is set aside, when one call more is under way, or one less. *)
LEMMA AsideIs ==
    ASSUME NEW takers \in [Takers -> Taker]
    PROVE  LET S == {u \in Takers : takers[u].at = "taking"} IN
           /\ IsFiniteSet(S) /\ \A t \in S : takers[t].limit \in Nat /\ Aside(takers)[t] = takers[t].limit
           /\ SumFunction(Aside(takers)) = SumFunctionOnSet(Aside(takers), S) /\ SumFunction(Aside(takers)) \in Nat
  <1> DEFINE S == {u \in Takers : takers[u].at = "taking"}
  <1>1. S \subseteq Takers /\ IsFiniteSet(S)
    BY RoomAssumption, FS_Subset
  <1>2. \A t \in S : takers[t].limit \in Nat /\ Aside(takers)[t] = takers[t].limit
    <2>1. \A t \in S : takers[t] \in Taker /\ takers[t].limit \in 0..Total
      BY DEF Taker
    <2>2. \A t \in S : Aside(takers)[t] = takers[t].limit
      BY DEF Aside
    <2> HIDE DEF S
    <2>3. QED
      BY <2>1, <2>2, RoomAssumption
  <1>3. SumFunction(Aside(takers)) = SumFunctionOnSet(Aside(takers), S)
    BY DEF SumFunction, Aside
  <1> HIDE DEF S
  <1>4. SumFunctionOnSet(Aside(takers), S) \in Nat
    BY <1>1, <1>2, SumIsNat
  <1>5. QED
    BY <1>1, <1>2, <1>3, <1>4 DEF S

LEMMA AsideWithout ==
    ASSUME NEW takers \in [Takers -> Taker], NEW fewer \in [Takers -> Taker], NEW t \in Takers,
           takers[t].at = "taking", fewer[t].at # "taking", \A u \in Takers \ {t} : fewer[u] = takers[u]
    PROVE  /\ SumFunction(Aside(takers)) = takers[t].limit + SumFunction(Aside(fewer))
           /\ SumFunction(Aside(fewer)) \in Nat /\ takers[t].limit \in Nat
  <1> DEFINE S == {u \in Takers : takers[u].at = "taking"}
             T == {u \in Takers : fewer[u].at = "taking"}
  <1>1. T = S \ {t} /\ t \in S
    OBVIOUS
  <1>2. /\ IsFiniteSet(S) /\ \A u \in S : takers[u].limit \in Nat /\ Aside(takers)[u] = takers[u].limit
        /\ SumFunction(Aside(takers)) = SumFunctionOnSet(Aside(takers), S)
    BY AsideIs
  <1>3. /\ IsFiniteSet(T) /\ \A u \in T : Aside(fewer)[u] = fewer[u].limit
        /\ SumFunction(Aside(fewer)) = SumFunctionOnSet(Aside(fewer), T) /\ SumFunction(Aside(fewer)) \in Nat
    BY AsideIs
  <1>4. \A u \in T : fewer[u] = takers[u]
    OBVIOUS
  <1> HIDE DEF S, T
  <1>5. SumFunctionOnSet(Aside(takers), S) = Aside(takers)[t] + SumFunctionOnSet(Aside(takers), T)
    BY <1>1, <1>2, SumWithout
  <1>6. SumFunctionOnSet(Aside(takers), T) = SumFunctionOnSet(Aside(fewer), T)
    <2>1. \A u \in T : Aside(takers)[u] = Aside(fewer)[u]
      BY <1>1, <1>2, <1>3, <1>4
    <2>2. QED
      BY <1>3, <2>1, SumIsSame
  <1>7. QED
    BY <1>1, <1>2, <1>3, <1>5, <1>6

LEMMA AsideSame ==
    ASSUME NEW takers \in [Takers -> Taker], NEW others \in [Takers -> Taker],
           \A u \in Takers : takers[u].at = "taking" \/ others[u].at = "taking" => others[u] = takers[u]
    PROVE  SumFunction(Aside(others)) = SumFunction(Aside(takers))
  <1>1. Aside(others) = Aside(takers)
    BY DEF Aside
  <1>2. QED
    BY <1>1

LEMMA KeptAside == RoomKept <=> reserved = SumFunction(Aside(taker)) /\ HeldBytes(held) + reserved <= Total
  BY DEF RoomKept, Aside, Taking

(* What is past its time goes first. *)
LEMMA ExpiryHolds ==
    ASSUME RoomInv
    PROVE  /\ Unexpired \in [Takers -> Held \cup {NoSnapshot}]
           /\ HeldBytes(Unexpired) <= HeldBytes(held) /\ HeldBytes(Unexpired) \in Nat /\ HeldBytes(held) \in Nat
           /\ \A t \in Takers : Unexpired[t] \in {held[t], NoSnapshot}
  <1>1. /\ held \in [Takers -> Held \cup {NoSnapshot}] /\ Unexpired \in [Takers -> Held \cup {NoSnapshot}]
        /\ \A t \in Takers : Unexpired[t] \in {held[t], NoSnapshot}
    BY DEF RoomInv, RoomTypeOK, Unexpired
  <1>2. QED
    BY <1>1, HoldingFewer, HeldBytesAre

-----------------------------------------------------------------------------
(***************************************************************************)
(* Each step of the room.                                                  *)
(***************************************************************************)
LEMMA RoomFacts ==
    ASSUME RoomInv
    PROVE  /\ held \in [Takers -> Held \cup {NoSnapshot}] /\ taker \in [Takers -> Taker] /\ time \in 0..MaxTime
           /\ reserved \in Nat /\ reserved \in 0..Total /\ HeldBytes(held) \in Nat /\ HeldBytes(held) + reserved <= Total
           /\ reserved = SumFunction(Aside(taker)) /\ Total \in Nat \ {0} /\ Most \in Nat \ {0} /\ MaxTime \in Nat
           /\ \A t \in Takers : taker[t] \in Taker /\ (taker[t].at = "taking" => taker[t].scope \in Scopes)
  BY KeptAside, ExpiryHolds, RoomAssumption DEF RoomInv, RoomTypeOK

(* One call goes from what it was to u. *)
LEMMA TakerMoves ==
    ASSUME RoomInv, NEW t \in Takers, NEW u \in Taker, taker' = [taker EXCEPT ![t] = u]
    PROVE  taker' \in [Takers -> Taker] /\ taker'[t] = u /\ \A v \in Takers \ {t} : taker'[v] = taker[v]
  BY RoomFacts

(* What a call under way has set aside is a part of all that is. *)
LEMMA LimitFacts ==
    ASSUME RoomInv, NEW t \in Takers, taker[t].at = "taking"
    PROVE  /\ taker[t].limit \in Nat /\ taker[t].limit <= reserved /\ SetAside(t) \in Nat
           /\ taker[t].began \in 0..MaxTime /\ taker[t].scope \in Scopes
  <1> DEFINE u == [taker[t] EXCEPT !.at = "failed"]
             fewer == [taker EXCEPT ![t] = u]
  <1>1. taker[t] \in Taker /\ u \in Taker /\ u.at = "failed"
    BY RoomFacts DEF Taker
  <1> HIDE DEF u
  <1>2. fewer \in [Takers -> Taker] /\ fewer[t] = u /\ \A v \in Takers \ {t} : fewer[v] = taker[v]
    BY <1>1, RoomFacts
  <1> HIDE DEF fewer
  <1>3. /\ SumFunction(Aside(taker)) = taker[t].limit + SumFunction(Aside(fewer))
        /\ SumFunction(Aside(fewer)) \in Nat /\ taker[t].limit \in Nat
    BY <1>1, <1>2, RoomFacts, AsideWithout
  <1>4. taker[t].limit <= reserved /\ reserved - taker[t].limit \in Nat
    BY <1>3, RoomFacts
  <1>5. taker[t].began \in 0..MaxTime
    BY <1>1 DEF Taker
  <1>6. QED
    BY <1>3, <1>4, <1>5, RoomFacts DEF SetAside

(* A call that ends gives back what it set aside: what is left is what the others did. *)
LEMMA Ending ==
    ASSUME RoomInv, NEW t \in Takers, taker[t].at = "taking", NEW u \in Taker, u.at # "taking",
           taker' = [taker EXCEPT ![t] = u], Release(t),
           held' \in [Takers -> Held \cup {NoSnapshot}], time' = time,
           HeldBytes(held)' <= HeldBytes(held) \/ HeldBytes(held)' + SetAside(t) <= Total
    PROVE  RoomInv'
  <1>1. taker' \in [Takers -> Taker] /\ taker'[t] = u /\ \A v \in Takers \ {t} : taker'[v] = taker[v]
    BY TakerMoves
  <1>2. /\ SumFunction(Aside(taker)) = taker[t].limit + SumFunction(Aside(taker'))
        /\ SumFunction(Aside(taker')) \in Nat /\ taker[t].limit \in Nat
    BY <1>1, RoomFacts, AsideWithout
  <1>3. reserved' = SumFunction(Aside(taker')) /\ reserved' \in Nat /\ reserved' <= reserved /\ reserved' = SetAside(t)
    BY <1>2, RoomFacts DEF Release, SetAside
  <1>4. HeldBytes(held') \in Nat /\ HeldBytes(held)' = HeldBytes(held')
    BY HeldBytesAre DEF HeldBytes, Kept
  <1>5. HeldBytes(held') + reserved' <= Total /\ reserved' \in 0..Total
    BY <1>3, <1>4, RoomFacts
  <1>6. RoomKept'
    <2>1. (reserved = SumFunction(Aside(taker)))'
      BY <1>3 DEF Aside
    <2>2. (HeldBytes(held) + reserved <= Total)'
      BY <1>4, <1>5
    <2>3. QED
      BY <2>1, <2>2 DEF RoomKept, Aside, Taking
  <1>7. QED
    BY <1>1, <1>5, <1>6, RoomFacts DEF RoomInv, RoomTypeOK

LEMMA ReserveKeeps ==
    ASSUME RoomInv, NEW t \in Takers, NEW scope \in Scopes, Reserve(t, scope)
    PROVE  RoomInv'
  <1> DEFINE limit == Limit
             left == RoomLeft(Unexpired)
             u == [at |-> "taking", scope |-> scope, limit |-> limit, began |-> time, bytes |-> 0]
             v == [taker[t] EXCEPT !.at = "full"]
  <1>1. taker[t].at = "idle" /\ held' = Unexpired /\ time' = time /\ taker[t] \in Taker
    BY RoomFacts DEF Reserve
  <1>2. HeldBytes(held') <= HeldBytes(held) /\ HeldBytes(held') \in Nat /\ held' \in [Takers -> Held \cup {NoSnapshot}]
    BY <1>1, ExpiryHolds
  <1>3. CASE limit <= 0
    <2>1. taker' = [taker EXCEPT ![t] = v] /\ reserved' = reserved
      BY <1>3 DEF Reserve, Is
    <2>2. v \in Taker /\ v.at = "full"
      BY <1>1 DEF Taker
    <2> HIDE DEF v
    <2>3. taker' \in [Takers -> Taker] /\ taker'[t] = v /\ \A w \in Takers \ {t} : taker'[w] = taker[w]
      BY <2>1, <2>2, TakerMoves
    <2>4. SumFunction(Aside(taker')) = SumFunction(Aside(taker))
      BY <1>1, <2>2, <2>3, RoomFacts, AsideSame
    <2>5. HeldBytes(held') + reserved' <= Total /\ reserved' = SumFunction(Aside(taker'))
      BY <1>2, <2>1, <2>4, RoomFacts
    <2>6. RoomKept'
      BY <2>5 DEF RoomKept, Aside, Taking, HeldBytes, Kept
    <2>7. QED
      BY <1>1, <1>2, <2>1, <2>2, <2>3, <2>6, RoomFacts DEF RoomInv, RoomTypeOK
  <1>4. CASE ~(limit <= 0)
    <2>1. left = Total - HeldBytes(Unexpired) - reserved /\ left \in Int /\ HeldBytes(Unexpired) = HeldBytes(held')
      BY <1>1, <1>2, RoomFacts DEF RoomLeft
    <2>2. limit \in Int /\ limit <= left /\ limit <= Most /\ limit \in {Most, left}
      <3> HIDE DEF left
      <3>1. Limit = Min({Most, left})
        BY DEF Limit, left
      <3>2. Most \in Int /\ left \in Int
        BY <2>1, RoomFacts
      <3>3. Min({Most, left}) \in {Most, left} /\ \A y \in {Most, left} : Min({Most, left}) <= y
        <4>1. \E x \in {Most, left} : \A y \in {Most, left} : x <= y
          BY <3>2
        <4>2. QED
          BY <4>1 DEF Min
      <3>4. QED
        BY <3>1, <3>2, <3>3
    <2>3. taker' = [taker EXCEPT ![t] = u] /\ reserved' = reserved + limit
      BY <1>4 DEF Reserve
    <2> HIDE DEF left
    <2>4. limit \in Nat /\ limit \in 0..Total /\ HeldBytes(held') + (reserved + limit) <= Total
      BY <1>2, <1>4, <2>1, <2>2, RoomFacts
    <2> HIDE DEF limit
    <2>5. u \in Taker /\ u.at = "taking" /\ u.limit = limit /\ u.scope = scope
      <3>1. 0 \in 0..(Most + 2) /\ time \in 0..MaxTime
        BY RoomFacts
      <3>2. QED
        BY <2>4, <3>1 DEF Taker
    <2> HIDE DEF u
    <2>6. taker' \in [Takers -> Taker] /\ taker'[t] = u /\ \A w \in Takers \ {t} : taker'[w] = taker[w]
      BY <2>3, <2>5, TakerMoves
    <2>7. SumFunction(Aside(taker')) = limit + SumFunction(Aside(taker))
      BY <1>1, <2>5, <2>6, RoomFacts, AsideWithout
    <2>8. reserved' = SumFunction(Aside(taker')) /\ reserved' \in 0..Total /\ HeldBytes(held') + reserved' <= Total
      BY <1>2, <2>3, <2>4, <2>7, RoomFacts
    <2>9. RoomKept'
      BY <2>8 DEF RoomKept, Aside, Taking, HeldBytes, Kept
    <2>10. QED
      BY <1>1, <1>2, <2>5, <2>6, <2>8, <2>9, RoomFacts DEF RoomInv, RoomTypeOK
  <1>5. QED
    BY <1>3, <1>4

(* The dump of a call is weighed: too much of it is refused, else it is kept. *)
LEMMA StoreKeeps ==
    ASSUME RoomInv, NEW t \in Takers, Store(t)
    PROVE  RoomInv'
  <1>1. PICK text \in 0..(Most + 1), more \in 0..1 :
            LET scope == taker[t].scope
                bytes == text + more
                mine == {k \in Kept(Unexpired) : held[k].scope = scope}
            IN
            /\ taker[t].at = "taking"
            /\ Release(t)
            /\ IF text > taker[t].limit THEN Weighed(t, "too large", bytes) /\ UNCHANGED held
               ELSE IF Cardinality(mine) >= MaxCount THEN Weighed(t, "too many", bytes) /\ held' = Unexpired
               ELSE IF SetAside(t) + HeldBytes(Unexpired) + bytes > Total THEN Weighed(t, "full", bytes) /\ held' = Unexpired
               ELSE /\ Weighed(t, "kept", bytes)
                    /\ held' = [Unexpired EXCEPT ![t] = [scope |-> scope, bytes |-> bytes, at |-> taker[t].began]]
            /\ UNCHANGED time
    BY DEF Store
  <1> DEFINE bytes == text + more
             h == [scope |-> taker[t].scope, bytes |-> bytes, at |-> taker[t].began]
  <1>2. /\ taker[t].at = "taking" /\ taker[t] \in Taker /\ taker[t].scope \in Scopes /\ Release(t) /\ time' = time
    BY <1>1, RoomFacts
  <1>2a. bytes \in 0..(Most + 2) /\ bytes \in Nat
    BY RoomFacts
  <1>3. PICK state \in Outcomes :
            /\ Weighed(t, state, bytes)
            /\ \/ held' = held
               \/ held' = Unexpired
               \/ held' = [Unexpired EXCEPT ![t] = h] /\ SetAside(t) + HeldBytes(Unexpired) + bytes <= Total
    <2>1. SetAside(t) \in Nat /\ HeldBytes(Unexpired) \in Nat /\ Total \in Nat
      BY <1>2, LimitFacts, RoomFacts, ExpiryHolds
    <2> HIDE DEF bytes
    <2>2. SetAside(t) + HeldBytes(Unexpired) + bytes > Total \/ SetAside(t) + HeldBytes(Unexpired) + bytes <= Total
      BY <1>2a, <2>1
    <2>3. QED
      BY <1>1, <2>2 DEF bytes, Outcomes
  <1> DEFINE u == [taker[t] EXCEPT !.at = state, !.bytes = bytes]
  <1> HIDE DEF bytes
  <1>4. u \in Taker /\ u.at # "taking" /\ taker' = [taker EXCEPT ![t] = u]
    BY <1>2a, <1>2, <1>3 DEF Taker, Weighed, Outcomes
  <1> HIDE DEF u
  <1>5. CASE held' = held
    <2>1. HeldBytes(held)' = HeldBytes(held)
      BY <1>5 DEF HeldBytes, Kept
    <2>2. HeldBytes(held)' <= HeldBytes(held)
      BY <2>1, RoomFacts
    <2>3. QED
      BY <1>2, <1>4, <1>5, <2>2, RoomFacts, Ending
  <1>6. CASE held' = Unexpired
    <2>1. HeldBytes(held)' <= HeldBytes(held)
      BY <1>6, ExpiryHolds DEF HeldBytes, Kept
    <2>2. QED
      BY <1>2, <1>4, <1>6, <2>1, ExpiryHolds, Ending
  <1>7. CASE held' = [Unexpired EXCEPT ![t] = h] /\ SetAside(t) + HeldBytes(Unexpired) + bytes <= Total
    <2>1. /\ SetAside(t) \in Nat /\ taker[t].began \in 0..MaxTime /\ Total \in Nat
          /\ HeldBytes(Unexpired) \in Nat /\ SetAside(t) + HeldBytes(Unexpired) + bytes <= Total
      BY <1>2, <1>7, LimitFacts, ExpiryHolds, RoomFacts
    <2>2. h \in Held /\ h.bytes = bytes
      <3>1. bytes \in 0..Total
        BY <1>2a, <2>1
      <3>2. QED
        BY <1>2, <2>1, <3>1 DEF Held
    <2> HIDE DEF h
    <2>3. held' \in [Takers -> Held \cup {NoSnapshot}] /\ HeldBytes(held') <= HeldBytes(Unexpired) + bytes /\ HeldBytes(held') \in Nat
      BY <1>7, <2>2, ExpiryHolds, HoldingOneMore, HeldBytesAre
    <2>4. HeldBytes(held)' + SetAside(t) <= Total
      <3>1. HeldBytes(held') + SetAside(t) <= Total
        BY <1>2a, <2>1, <2>3
      <3>2. QED
        BY <3>1 DEF HeldBytes, Kept
    <2>5. QED
      BY <1>2, <1>4, <2>3, <2>4, Ending
  <1>8. QED
    BY <1>3, <1>5, <1>6, <1>7

LEMMA DumpFailsKeeps ==
    ASSUME RoomInv, NEW t \in Takers, DumpFails(t)
    PROVE  RoomInv'
  <1> DEFINE u == [taker[t] EXCEPT !.at = "failed"]
  <1>1. taker' = [taker EXCEPT ![t] = u] /\ u \in Taker /\ u.at = "failed"
    BY RoomFacts DEF DumpFails, Is, Taker
  <1> HIDE DEF u
  <1>2. HeldBytes(held)' <= HeldBytes(held)
    BY RoomFacts DEF DumpFails, HeldBytes, Kept
  <1>3. QED
    BY <1>1, <1>2, RoomFacts, Ending DEF DumpFails

(* Who only lets go of what is held keeps the room. *)
LEMMA LettingGo ==
    ASSUME RoomInv, UNCHANGED <<reserved, taker>>, time' \in 0..MaxTime,
           held' \in [Takers -> Held \cup {NoSnapshot}], \A t \in Takers : held'[t] \in {held[t], NoSnapshot}
    PROVE  RoomInv'
  <1>1. HeldBytes(held') <= HeldBytes(held) /\ HeldBytes(held') \in Nat
    BY RoomFacts, HoldingFewer, HeldBytesAre
  <1>2. HeldBytes(held') + reserved <= Total
    BY <1>1, RoomFacts
  <1>3. RoomKept'
    BY <1>2, RoomFacts DEF RoomKept, Aside, Taking, HeldBytes, Kept
  <1>4. QED
    BY <1>3, RoomFacts DEF RoomInv, RoomTypeOK

LEMMA RoomInit0 == RoomInit => RoomInv
  <1> SUFFICES ASSUME RoomInit PROVE RoomInv
    OBVIOUS
  <1>1. Kept(held) = {} /\ Taking = {}
    BY DEF RoomInit, Kept, Taking
  <1>2. HeldBytes(held) = 0
    BY <1>1, SumOfNone DEF HeldBytes, SumFunction
  <1>3. SumFunction([t \in Taking |-> taker[t].limit]) = 0
    BY <1>1, SumOfNone DEF SumFunction
  <1>4. RoomKept
    BY <1>2, <1>3, RoomAssumption DEF RoomKept, RoomInit
  <1>5. RoomTypeOK
    BY RoomAssumption DEF RoomTypeOK, RoomInit, Taker
  <1>6. QED
    BY <1>4, <1>5 DEF RoomInv, RoomInit

LEMMA RoomStep == RoomInv /\ [RoomNext]_roomVars => RoomInv'
  <1> SUFFICES ASSUME RoomInv, [RoomNext]_roomVars PROVE RoomInv'
    OBVIOUS
  <1>1. CASE Look
    BY <1>1, ExpiryHolds, RoomFacts, LettingGo DEF Look
  <1>2. CASE RoomTick
    BY <1>2, RoomFacts, LettingGo DEF RoomTick
  <1>3. ASSUME NEW t \in Takers, NEW scope \in Scopes, Reserve(t, scope) PROVE RoomInv'
    BY <1>3, ReserveKeeps
  <1>4. ASSUME NEW t \in Takers, Store(t) \/ DumpFails(t) PROVE RoomInv'
    BY <1>4, StoreKeeps, DumpFailsKeeps
  <1>5. ASSUME NEW t \in Takers, Remove(t) PROVE RoomInv'
    <2>1. /\ held' \in [Takers -> Held \cup {NoSnapshot}]
          /\ \A u \in Takers : held'[u] \in {held[u], NoSnapshot}
      BY <1>5, ExpiryHolds DEF Remove
    <2>2. QED
      BY <1>5, <2>1, RoomFacts, LettingGo DEF Remove
  <1>6. CASE UNCHANGED roomVars
    BY <1>6, RoomFacts, LettingGo DEF roomVars
  <1>7. QED
    BY <1>1, <1>2, <1>3, <1>4, <1>5, <1>6 DEF RoomNext

LEMMA RoomInvariance == RoomSpec => []RoomInv
  BY RoomInit0, RoomStep, PTL DEF RoomSpec

(* What is held and what is set aside for the snapshots being taken never outgrow the total, and exactly what the  *)
(* calls under way may add is set aside, whoever fails or removes what meanwhile (reserve and store, snapshots.ts). *)
THEOREM RoomIsKept == RoomSpec => [](RoomTypeOK /\ RoomKept)
  <1>1. RoomInv => RoomTypeOK /\ RoomKept
    BY DEF RoomInv
  <1>2. QED
    BY <1>1, RoomInvariance, PTL

LEMMA FullIsOutgrown ==
    ASSUME RoomInv, RoomNext, NEW t \in Takers, taker[t].at = "taking", taker'[t].at = "full"
    PROVE  taker'[t].bytes > taker[t].limit
  <1>1. /\ taker \in [Takers -> Taker] /\ taker[t].limit \in Nat /\ HeldBytes(held) + reserved <= Total /\ reserved \in Nat
        /\ HeldBytes(held) \in Nat /\ Total \in Nat
        /\ HeldBytes(Unexpired) <= HeldBytes(held) /\ HeldBytes(Unexpired) \in Nat
    BY RoomFacts, ExpiryHolds, LimitFacts
  <1>2. ASSUME NEW v \in Takers, NEW u, taker' = [taker EXCEPT ![v] = u] PROVE v = t
    BY <1>1, <1>2
  <1>3. CASE \E v \in Takers : Store(v)
    <2>1. PICK v \in Takers : Store(v)
      BY <1>3
    <2>2. PICK text \in 0..(Most + 1), more \in 0..1, state \in Outcomes :
              /\ Weighed(v, state, text + more)
              /\ state = "full" => SetAside(v) + HeldBytes(Unexpired) + (text + more) > Total
      BY <2>1 DEF Store, Outcomes
    <2>3. v = t
      BY <1>2, <2>2 DEF Weighed
    <2>4. taker'[t].at = state /\ taker'[t].bytes = text + more
      BY <1>1, <2>2, <2>3 DEF Weighed, Taker
    <2>5. SetAside(t) + HeldBytes(Unexpired) + (text + more) > Total
      BY <2>2, <2>3, <2>4
    <2>6. PICK bytes \in Nat : bytes = text + more
      <3>1. text \in Nat /\ more \in Nat
        BY RoomFacts
      <3>2. QED
        BY <3>1
    <2>7. bytes > taker[t].limit
      <3>1. (reserved - taker[t].limit) + HeldBytes(Unexpired) + bytes > Total
        BY <2>5, <2>6 DEF SetAside
      <3>2. QED
        BY <1>1, <3>1
    <2>8. QED
      BY <2>4, <2>6, <2>7
  <1>4. ASSUME NEW v \in Takers, NEW scope \in Scopes, Reserve(v, scope) PROVE FALSE
    <2>1. v = t
      BY <1>2, <1>4 DEF Reserve, Is
    <2>2. QED
      BY <1>4, <2>1 DEF Reserve
  <1>5. ASSUME NEW v \in Takers, DumpFails(v) PROVE FALSE
    BY <1>1, <1>5 DEF DumpFails, Is, Taker
  <1>6. QED
    BY <1>3, <1>4, <1>5 DEF RoomNext, Look, RoomTick, Remove

(* A snapshot that weighs no more than the room it was given is kept, or refused for another reason: nobody took   *)
(* the room it set aside while it was read (store, snapshots.ts).                                                  *)
THEOREM RoomGiven == RoomSpec => RoomGivenIsThere
  <1>1. RoomInv /\ [RoomNext]_roomVars => \A t \in Taking : taker'[t].at = "full" => taker'[t].bytes > taker[t].limit
    BY FullIsOutgrown DEF Taking, roomVars
  <1>2. QED
    BY <1>1, RoomInvariance, PTL DEF RoomSpec, RoomGivenIsThere
=============================================================================
