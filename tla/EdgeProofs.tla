----------------------------- MODULE EdgeProofs -----------------------------
(***************************************************************************)
(* Proofs about the parts at the edge of the runtime: the way in           *)
(* (ObservationIngress), the awareness notes, the presence loop, the       *)
(* presenter of replies and the cognition engine.  The five share no       *)
(* state; each part of this module states the inductive invariant of one   *)
(* of them, shows that every action keeps it, and draws the component's    *)
(* properties from it.                                                     *)
(***************************************************************************)
EXTENDS ObservationIngress, AwarenessNotes, Presence, ReplyPresenter, CognitionEngine,
        FiniteSetTheorems, SequenceTheorems, WellFoundedInduction, TLAPS

-----------------------------------------------------------------------------
(* What the proofs need of sequences. *)

\* Removing an element moves those behind it up.
LEMMA RemovedAt ==
  ASSUME NEW S, NEW s \in Seq(S), NEW p \in 1..Len(s)
  PROVE  /\ RemoveAt(s, p) \in Seq(S) /\ Len(RemoveAt(s, p)) = Len(s) - 1
         /\ \A j \in 1..(Len(s) - 1) : RemoveAt(s, p)[j] = IF j < p THEN s[j] ELSE s[j + 1]
  <1> DEFINE a == SubSeq(s, 1, p - 1)
             b == SubSeq(s, p + 1, Len(s))
  <1>1. /\ Len(s) \in Nat /\ p \in Nat /\ 1 <= p /\ p <= Len(s)
        /\ a \in Seq(S) /\ Len(a) = p - 1 /\ \A j \in 1..(p - 1) : a[j] = s[j]
    OBVIOUS
  <1>2. b \in Seq(S) /\ Len(b) = Len(s) - p /\ \A j \in 1..(Len(s) - p) : b[j] = s[p + j]
    OBVIOUS
  <1> HIDE DEF a, b
  <1>3. /\ a \o b \in Seq(S) /\ Len(a \o b) = Len(s) - 1
        /\ \A j \in 1..(Len(s) - 1) : (a \o b)[j] = IF j < p THEN s[j] ELSE s[j + 1]
    <2>1. /\ a \o b \in Seq(S) /\ Len(a \o b) = Len(a) + Len(b)
          /\ \A j \in 1..(Len(a) + Len(b)) : (a \o b)[j] = IF j <= Len(a) THEN a[j] ELSE b[j - Len(a)]
      BY <1>1, <1>2, ConcatProperties
    <2> QED BY <1>1, <1>2, <2>1, SMTT(30)
  <1> QED BY <1>3 DEF RemoveAt, a, b

-----------------------------------------------------------------------------
(* The way in. *)

Submitting == {d \in Deliveries : delivery[d] \in Admitting}

ArrivalsTyped ==
  /\ arrivals \in Seq(Events) /\ delivery \in Seq(DeliveryStages) /\ Len(delivery) = Len(arrivals)

\* The submissions are counted; once stop() waits for the queue there are none, and none
\* can begin.
DrainInv ==
  /\ IsFiniteSet(Submitting) /\ submissions = Cardinality(Submitting)
  /\ drain \in {"joining", "drained"} => Submitting = {}
  /\ drain = "drained" => queued = 0

\* The messages that arrived after a delivery, and those remembered behind a place.
Later(k) == {arrivals[x] : x \in (k + 1)..Len(arrivals)} \cap DirectMessages
Behind(s, p) == {s[q] : q \in (p + 1)..Len(s)}

\* What is remembered is in the order of its last arrivals.
InOrder ==
  /\ remembered \in Seq(DirectMessages) /\ Len(remembered) <= DedupeCapacity
  /\ \A p, q \in 1..Len(remembered) : remembered[p] = remembered[q] => p = q
  /\ \A p \in 1..Len(remembered) : \E k \in Deliveries :
       arrivals[k] = remembered[p] /\ Later(k) = Behind(remembered, p)

\* A message has a last arrival; it is remembered, or enough others came after it.
LastArrival(m, k) ==
  /\ k \in Deliveries /\ arrivals[k] = m /\ m \notin Later(k)
  /\ InSeq(m, remembered) \/ Cardinality(Later(k)) >= DedupeCapacity
ForgottenForGood ==
  /\ \A k \in Deliveries : IsFiniteSet(Later(k))
  /\ \A d \in Deliveries : arrivals[d] \in DirectMessages => \E k \in Deliveries : LastArrival(arrivals[d], k)

IngressInv == ArrivalsTyped /\ DrainInv /\ InOrder /\ ForgottenForGood /\ OneTurnPerMessage

\* Between two arrivals of a message it was forgotten.
Forgotten(i, j) ==
  \E k, l \in i..j :
    /\ k < l /\ arrivals[k] = arrivals[i] /\ arrivals[l] = arrivals[i]
    /\ LET between == {arrivals[x] : x \in (k + 1)..(l - 1)} \cap DirectMessages IN
       arrivals[i] \notin between /\ Cardinality(between) >= DedupeCapacity

\* The property, in terms of that.
LEMMA TurnsAre ==
  OneTurnPerMessage <=>
    \A i, j \in Deliveries :
      (i < j /\ arrivals[i] = arrivals[j] /\ arrivals[i] \in DirectMessages
             /\ delivery[i] # "duplicate" /\ delivery[j] # "duplicate") => Forgotten(i, j)
  BY DEF OneTurnPerMessage, Forgotten

\* What is remembered, and what is forgotten, depends on nothing else than the arrivals.
LEMMA RestKeeps ==
  ASSUME UNCHANGED <<arrivals, remembered>>
  PROVE  (InOrder => InOrder') /\ (ForgottenForGood => ForgottenForGood')
  <1>1. Deliveries' = Deliveries
    BY DEF Deliveries
  <1>2. \A k : Later(k)' = Later(k)
    BY DEF Later
  <1>3. ASSUME InOrder PROVE InOrder'
    <2>1. \A p \in 1..Len(remembered') : \E k \in Deliveries' :
            arrivals'[k] = remembered'[p] /\ Later(k)' = Behind(remembered', p)
      BY <1>1, <1>2, <1>3 DEF InOrder
    <2> QED BY <1>3, <2>1 DEF InOrder, Behind
  <1>4. ASSUME ForgottenForGood PROVE ForgottenForGood'
    <2>1. \A m, k : LastArrival(m, k) => LastArrival(m, k)'
      BY <1>1, <1>2 DEF LastArrival, InSeq
    <2>2. \A k \in Deliveries' : IsFiniteSet(Later(k)')
      BY <1>1, <1>2, <1>4 DEF ForgottenForGood
    <2>3. \A d \in Deliveries' : arrivals'[d] \in DirectMessages => \E k \in Deliveries' : LastArrival(arrivals[d], k)'
      BY <1>1, <1>4, <2>1 DEF ForgottenForGood
    <2> QED BY <2>2, <2>3 DEF ForgottenForGood
  <1> QED BY <1>3, <1>4

\* A message stays forgotten, as long as no duplicate becomes a turn.
LEMMA TurnsKeep ==
  ASSUME OneTurnPerMessage, arrivals' = arrivals,
         \A x \in Deliveries : delivery'[x] # "duplicate" => delivery[x] # "duplicate"
  PROVE  OneTurnPerMessage'
  <1>1. Deliveries' = Deliveries
    BY DEF Deliveries
  <1>2. \A i, j : Forgotten(i, j)' = Forgotten(i, j)
    BY DEF Forgotten
  <1>3. \A i, j \in Deliveries' :
          (i < j /\ arrivals'[i] = arrivals'[j] /\ arrivals'[i] \in DirectMessages
                 /\ delivery'[i] # "duplicate" /\ delivery'[j] # "duplicate") => Forgotten(i, j)'
    BY <1>1, <1>2, TurnsAre
  <1> QED BY <1>3, TurnsAre DEF OneTurnPerMessage, Forgotten

\* One more arrival.
Arrives(e, how) ==
  /\ e \in Events /\ how \in {"duplicate", "claimed"}
  /\ arrivals' = Append(arrivals, e) /\ delivery' = Append(delivery, how)

\* An arrival is one delivery more; the earlier ones stay.
LEMMA ArrivalAppends ==
  ASSUME ArrivalsTyped, NEW e, NEW how, Arrives(e, how)
  PROVE  /\ ArrivalsTyped' /\ Len(arrivals) \in Nat /\ Len(arrivals') = Len(arrivals) + 1
         /\ Deliveries = 1..Len(arrivals) /\ Deliveries' = 1..(Len(arrivals) + 1)
         /\ \A d \in Deliveries : arrivals'[d] = arrivals[d] /\ delivery'[d] = delivery[d]
         /\ arrivals'[Len(arrivals) + 1] = e /\ delivery'[Len(arrivals) + 1] = how
  <1>1. /\ arrivals \in Seq(Events) /\ delivery \in Seq(DeliveryStages) /\ Len(delivery) = Len(arrivals)
        /\ e \in Events /\ how \in DeliveryStages
        /\ arrivals' = Append(arrivals, e) /\ delivery' = Append(delivery, how)
    BY DEF ArrivalsTyped, Arrives, DeliveryStages, HandlingEnded
  <1>2. /\ arrivals' \in Seq(Events) /\ Len(arrivals') = Len(arrivals) + 1 /\ Len(arrivals) \in Nat
        /\ \A d \in 1..Len(arrivals) : arrivals'[d] = arrivals[d]
        /\ arrivals'[Len(arrivals) + 1] = e
        /\ DOMAIN arrivals = 1..Len(arrivals) /\ DOMAIN arrivals' = 1..(Len(arrivals) + 1)
    BY <1>1
  <1>3. /\ delivery' \in Seq(DeliveryStages) /\ Len(delivery') = Len(arrivals) + 1
        /\ \A d \in 1..Len(arrivals) : delivery'[d] = delivery[d]
        /\ delivery'[Len(arrivals) + 1] = how
    BY <1>1
  <1> QED BY <1>2, <1>3 DEF ArrivalsTyped, Deliveries

\* What came after an earlier delivery now includes the message that just arrived.
LEMMA LaterGrows ==
  ASSUME ArrivalsTyped, NEW e, NEW how, Arrives(e, how)
  PROVE  /\ \A k \in Deliveries : Later(k)' = Later(k) \cup ({e} \cap DirectMessages)
         /\ \A k : k = Len(arrivals) + 1 => Later(k)' = {}
  <1>1. /\ Len(arrivals) \in Nat /\ Len(arrivals') = Len(arrivals) + 1 /\ Deliveries = 1..Len(arrivals)
        /\ \A d \in 1..Len(arrivals) : arrivals'[d] = arrivals[d]
        /\ arrivals'[Len(arrivals) + 1] = e
    BY ArrivalAppends
  <1>2. ASSUME NEW k \in Deliveries
        PROVE  Later(k)' = Later(k) \cup ({e} \cap DirectMessages)
    <2>1. k \in Nat /\ 1 <= k /\ k <= Len(arrivals)
      BY <1>1
    <2>2. ASSUME NEW m \in Later(k)' PROVE m \in Later(k) \cup ({e} \cap DirectMessages)
      <3>1. PICK x \in (k + 1)..(Len(arrivals) + 1) : m = arrivals'[x]
        BY <1>1, <2>2 DEF Later
      <3>2. x = Len(arrivals) + 1 \/ x \in (k + 1)..Len(arrivals)
        BY <1>1, <2>1
      <3> QED BY <1>1, <2>1, <2>2, <3>1, <3>2 DEF Later
    <2>3. ASSUME NEW m \in Later(k) \cup ({e} \cap DirectMessages) PROVE m \in Later(k)'
      <3>1. CASE m \in Later(k)
        <4>1. PICK x \in (k + 1)..Len(arrivals) : m = arrivals[x]
          BY <3>1 DEF Later
        <4>2. x \in (k + 1)..(Len(arrivals) + 1) /\ arrivals'[x] = m
          BY <1>1, <2>1, <4>1
        <4> QED BY <1>1, <3>1, <4>2 DEF Later
      <3>2. CASE m = e /\ e \in DirectMessages
        <4>1. Len(arrivals) + 1 \in (k + 1)..(Len(arrivals) + 1)
          BY <1>1, <2>1
        <4> QED BY <1>1, <3>2, <4>1 DEF Later
      <3> QED BY <2>3, <3>1, <3>2
    <2> QED BY <2>2, <2>3
  <1>3. ASSUME NEW k, k = Len(arrivals) + 1 PROVE Later(k)' = {}
    <2>1. (k + 1)..Len(arrivals') = {}
      BY <1>1, <1>3
    <2> QED BY <2>1 DEF Later
  <1> QED BY <1>2, <1>3

\* What claiming a message does to what is remembered: it goes last, the others stay in
\* order, and only the first may be forgotten, when there is no room for a new one.
GoesLast(s, r, e) ==
  /\ r \in Seq(DirectMessages) /\ Len(r) \in Nat \ {0} /\ Len(r) <= DedupeCapacity
  /\ \A p, q \in 1..Len(r) : r[p] = r[q] => p = q
  /\ r[Len(r)] = e
  /\ \A p \in 1..(Len(r) - 1) : \E q \in 1..Len(s) : r[p] = s[q] /\ Behind(r, p) = Behind(s, q) \cup {e}
  /\ \A x : InSeq(x, s) => InSeq(x, r) \/ (x = s[1] /\ Len(s) = DedupeCapacity /\ ~InSeq(e, s))

\* Claiming a message does that.
LEMMA ClaimGoesLast ==
  ASSUME InOrder, NEW e \in DirectMessages
  PROVE  GoesLast(remembered, Remembered(e), e)
  <1> DEFINE s == remembered
             r == Remembered(e)
             n == Len(s)
             cap == DedupeCapacity
  <1>1. /\ s \in Seq(DirectMessages) /\ n \in Nat /\ n <= cap /\ cap \in Nat /\ cap >= 1
        /\ DOMAIN s = 1..n
        /\ \A p, q \in 1..n : s[p] = s[q] => p = q
    BY IngressAssumption DEF InOrder
  <1>2. CASE InSeq(e, s)
    <2> DEFINE i == CHOOSE i \in DOMAIN remembered : remembered[i] = e
               t == RemoveAt(s, i)
    <2>1. i \in 1..n /\ s[i] = e
      BY <1>1, <1>2 DEF InSeq
    <2>2. r = Append(t, e)
      BY <1>2, SMTT(30) DEF Remembered
    <2> HIDE DEF i
    <2>3. /\ t \in Seq(DirectMessages) /\ Len(t) = n - 1
          /\ \A j \in 1..(n - 1) : t[j] = IF j < i THEN s[j] ELSE s[j + 1]
      BY <1>1, <2>1, RemovedAt, Zenon
    <2> HIDE DEF t, s, r
    <2>4. /\ r \in Seq(DirectMessages) /\ Len(r) = n /\ r[n] = e
          /\ \A j \in 1..(n - 1) : r[j] = IF j < i THEN s[j] ELSE s[j + 1]
      <3>1. n >= 1 /\ n - 1 \in Nat /\ (n - 1) + 1 = n
        BY <1>1, <2>1
      <3>2. /\ Append(t, e) \in Seq(DirectMessages) /\ Len(Append(t, e)) = Len(t) + 1
            /\ Append(t, e)[Len(t) + 1] = e
            /\ \A j \in 1..Len(t) : Append(t, e)[j] = t[j]
        BY <2>3, AppendProperties
      <3> HIDE DEF n
      <3> QED BY <2>2, <2>3, <3>1, <3>2
    <2> HIDE DEF n, cap
    <2>5. \A j \in 1..(n - 1) : r[j] # e
      BY <1>1, <2>1, <2>4
    <2>6. \A p, q \in 1..n : r[p] = r[q] => p = q
      <3> SUFFICES ASSUME NEW p \in 1..n, NEW q \in 1..n, r[p] = r[q] PROVE p = q
        OBVIOUS
      <3>1. CASE p = n \/ q = n
        BY <1>1, <2>4, <2>5, <3>1
      <3>2. CASE p # n /\ q # n
        <4>1. p \in 1..(n - 1) /\ q \in 1..(n - 1)
          BY <1>1, <3>2
        <4> QED BY <1>1, <2>1, <2>4, <4>1
      <3> QED BY <3>1, <3>2
    <2>7. ASSUME NEW p \in 1..(n - 1)
          PROVE  \E q \in 1..n : r[p] = s[q] /\ Behind(r, p) = Behind(s, q) \cup {e}
      <3> DEFINE q == IF p < i THEN p ELSE p + 1
      <3>1. q \in 1..n /\ r[p] = s[q]
        BY <1>1, <2>1, <2>4
      <3>2. ASSUME NEW x \in Behind(r, p) PROVE x \in Behind(s, q) \cup {e}
        <4>1. PICK y \in (p + 1)..n : x = r[y]
          BY <2>4, <3>2 DEF Behind
        <4>2. CASE y = n BY <2>4, <4>1, <4>2
        <4>3. CASE y # n
          <5>1. y \in 1..(n - 1)
            BY <1>1, <4>1, <4>3
          <5>2. (IF y < i THEN y ELSE y + 1) \in (q + 1)..n
            BY <1>1, <2>1, <4>1, <5>1
          <5>3. x = s[IF y < i THEN y ELSE y + 1]
            BY <2>4, <4>1, <5>1
          <5> QED BY <5>2, <5>3 DEF Behind, n
        <4> QED BY <4>2, <4>3
      <3>3. ASSUME NEW x \in Behind(s, q) \cup {e} PROVE x \in Behind(r, p)
        <4>1. CASE x = e
          <5>1. n \in (p + 1)..n
            BY <1>1
          <5> QED BY <2>4, <4>1, <5>1 DEF Behind
        <4>2. CASE x # e /\ x \in Behind(s, q)
          <5>1. PICK y \in (q + 1)..n : x = s[y]
            BY <4>2 DEF Behind, n
          <5>2. y # i
            BY <2>1, <4>2, <5>1
          <5>3. (IF y < i THEN y ELSE y - 1) \in (p + 1)..(n - 1)
            BY <1>1, <2>1, <5>1, <5>2
          <5>4. x = r[IF y < i THEN y ELSE y - 1]
            <6>1. CASE y < i BY <2>4, <5>1, <5>3, <6>1
            <6>2. CASE ~(y < i)
              <7>1. y - 1 \in 1..(n - 1) /\ ~(y - 1 < i) /\ (y - 1) + 1 = y
                BY <1>1, <2>1, <5>1, <5>2, <5>3, <6>2
              <7>2. r[y - 1] = s[y]
                BY <2>4, <7>1
              <7> QED BY <5>1, <6>2, <7>2
            <6> QED BY <6>1, <6>2
          <5>5. (IF y < i THEN y ELSE y - 1) \in (p + 1)..n
            BY <1>1, <5>3
          <5> QED BY <2>4, <5>4, <5>5 DEF Behind
        <4> QED BY <3>3, <4>1, <4>2
      <3> QED BY <3>1, <3>2, <3>3
    <2>8. ASSUME NEW x, InSeq(x, s) PROVE InSeq(x, r)
      <3>1. PICK y \in 1..n : x = s[y]
        BY <1>1, <2>8 DEF InSeq
      <3>2. DOMAIN r = 1..n
        BY <2>4
      <3>3. CASE y = i BY <1>1, <2>1, <2>4, <3>1, <3>2, <3>3 DEF InSeq
      <3>4. CASE y # i
        <4>1. (IF y < i THEN y ELSE y - 1) \in 1..(n - 1)
          BY <1>1, <2>1, <3>1, <3>4
        <4>2. x = r[IF y < i THEN y ELSE y - 1]
          BY <1>1, <2>1, <2>4, <3>1, <3>4, <4>1
        <4>3. (IF y < i THEN y ELSE y - 1) \in 1..n
          BY <1>1, <4>1
        <4> QED BY <3>2, <4>2, <4>3 DEF InSeq
      <3> QED BY <3>3, <3>4
    <2>9. n \in Nat \ {0}
      BY <1>1, <2>1
    <2>10. n = Len(s)
      BY SMTT(30) DEF n
    <2>11. GoesLast(s, r, e)
      BY <1>1, <2>4, <2>6, <2>7, <2>8, <2>9, <2>10 DEF GoesLast, cap
    <2> QED BY <2>11 DEF s, r
  <1>3. CASE ~InSeq(e, s)
    <2> DEFINE t == Append(s, e)
    <2>1. r = Trimmed(t, cap)
      BY <1>3 DEF Remembered
    <2> HIDE DEF s, r, cap
    <2>2. /\ t \in Seq(DirectMessages) /\ Len(t) = n + 1 /\ t[n + 1] = e
          /\ \A j \in 1..n : t[j] = s[j]
      BY <1>1
    <2>3. \A j \in 1..n : s[j] # e
      BY <1>1, <1>3 DEF InSeq
    <2> DEFINE k == IF n + 1 > cap THEN 1 ELSE 0
               m == n + 1 - k
    <2>4. /\ r \in Seq(DirectMessages) /\ Len(r) = m /\ \A j \in 1..m : r[j] = t[j + k]
      <3>1. CASE n + 1 > cap
        <4>1. r = Tail(t) /\ t # <<>>
          BY <2>1, <2>2, <3>1 DEF Trimmed
        <4>2. Tail(t) \in Seq(DirectMessages) /\ Len(Tail(t)) = n /\ \A j \in 1..n : Tail(t)[j] = t[j + 1]
          <5> HIDE DEF t
          <5> QED BY <1>1, <2>2, <4>1
        <4> QED BY <1>1, <3>1, <4>1, <4>2
      <3>2. CASE ~(n + 1 > cap)
        BY <1>1, <2>1, <2>2, <3>2 DEF Trimmed
      <3> QED BY <3>1, <3>2
    <2>5. /\ m \in Nat \ {0} /\ m <= cap /\ k \in {0, 1} /\ n \in Nat /\ (k = 1 => n = cap)
          /\ n + 1 = m + k
      <3>1. n \in Nat /\ n <= cap /\ cap \in Nat /\ cap >= 1
        BY <1>1
      <3> HIDE DEF n
      <3>2. CASE n + 1 > cap BY <3>1, <3>2
      <3>3. CASE ~(n + 1 > cap) BY <3>1, <3>3
      <3> QED BY <3>2, <3>3
    <2> HIDE DEF t, k, m, n
    <2>6. r[m] = e /\ \A j \in 1..(m - 1) : r[j] = s[j + k] /\ j + k \in 1..n
      BY <2>2, <2>4, <2>5
    <2>7. \A p, q \in 1..m : r[p] = r[q] => p = q
      <3> SUFFICES ASSUME NEW p \in 1..m, NEW q \in 1..m, r[p] = r[q] PROVE p = q
        OBVIOUS
      <3>1. CASE p = m \/ q = m
        BY <2>3, <2>5, <2>6, <3>1
      <3>2. CASE p # m /\ q # m
        <4>1. p \in 1..(m - 1) /\ q \in 1..(m - 1)
          BY <2>5, <3>2
        <4> QED BY <1>1, <2>5, <2>6, <4>1
      <3> QED BY <3>1, <3>2
    <2>8. ASSUME NEW p \in 1..(m - 1)
          PROVE  \E q \in 1..n : r[p] = s[q] /\ Behind(r, p) = Behind(s, q) \cup {e}
      <3>1. p + k \in 1..n /\ r[p] = s[p + k]
        BY <2>6
      <3>2. ASSUME NEW x \in Behind(r, p) PROVE x \in Behind(s, p + k) \cup {e}
        <4>1. PICK y \in (p + 1)..m : x = r[y]
          BY <2>4, <3>2 DEF Behind
        <4>2. CASE y = m BY <2>6, <4>1, <4>2
        <4>3. CASE y # m
          <5>1. y \in 1..(m - 1) /\ y + k \in (p + k + 1)..n
            BY <2>5, <4>1, <4>3
          <5> QED BY <2>6, <4>1, <5>1 DEF Behind, n
        <4> QED BY <4>2, <4>3
      <3>3. ASSUME NEW x \in Behind(s, p + k) \cup {e} PROVE x \in Behind(r, p)
        <4>1. CASE x = e
          <5>1. m \in (p + 1)..m
            BY <2>5
          <5> QED BY <2>4, <2>6, <4>1, <5>1 DEF Behind
        <4>2. CASE x \in Behind(s, p + k)
          <5>1. PICK y \in (p + k + 1)..n : x = s[y]
            BY <4>2 DEF Behind, n
          <5>2. y - k \in (p + 1)..m /\ y - k \in 1..(m - 1) /\ (y - k) + k = y
            BY <2>5, <5>1
          <5>3. x = r[y - k]
            BY <2>6, <5>1, <5>2
          <5> QED BY <2>4, <5>2, <5>3 DEF Behind
        <4> QED BY <3>3, <4>1, <4>2
      <3> QED BY <3>1, <3>2, <3>3
    <2>9. ASSUME NEW x, InSeq(x, s) PROVE InSeq(x, r) \/ (x = s[1] /\ n = cap)
      <3>1. PICK y \in 1..n : x = s[y]
        BY <1>1, <2>9 DEF InSeq
      <3>2. DOMAIN r = 1..m
        BY <2>4, <2>5
      <3>3. CASE y - k = 0
        BY <2>5, <3>1, <3>3
      <3>4. CASE y - k # 0
        <4>1. y - k \in 1..(m - 1) /\ (y - k) + k = y /\ y - k \in 1..m
          BY <2>5, <3>1, <3>4
        <4>2. x = r[y - k]
          BY <2>6, <3>1, <4>1
        <4> QED BY <3>2, <4>1, <4>2 DEF InSeq
      <3> QED BY <3>3, <3>4
    <2>10. GoesLast(s, r, e)
      BY <1>3, <2>4, <2>5, <2>6, <2>7, <2>8, <2>9 DEF GoesLast, cap, n
    <2> QED BY <2>10 DEF s, r
  <1> QED BY <1>2, <1>3

\* A message that is remembered first has all the others behind it, each once.
LEMMA BehindTheFirst ==
  ASSUME NEW s \in Seq(DirectMessages), Len(s) >= 1,
         \A p, q \in 1..Len(s) : s[p] = s[q] => p = q
  PROVE  /\ IsFiniteSet(Behind(s, 1)) /\ Cardinality(Behind(s, 1)) = Len(s) - 1
         /\ s[1] \notin Behind(s, 1)
  <1> DEFINE n == Len(s) - 1
             f == [p \in 1..n |-> s[p + 1]]
  <1>1. n \in Nat /\ Len(s) = n + 1
    OBVIOUS
  <1>2. \A p \in 1..n : p + 1 \in 2..(n + 1) /\ p + 1 \in 1..(n + 1)
    BY <1>1
  <1>3. Behind(s, 1) = {s[q] : q \in 2..(n + 1)}
    BY <1>1 DEF Behind
  <1> HIDE DEF n
  <1>4. f \in Bijection(1..n, Behind(s, 1))
    <2>1. f \in [1..n -> Behind(s, 1)]
      BY <1>2, <1>3
    <2>2. ASSUME NEW p \in 1..n, NEW q \in 1..n, f[p] = f[q] PROVE p = q
      <3>1. p + 1 = q + 1
        BY <1>1, <1>2, <2>2
      <3> QED BY <1>1, <3>1
    <2>3. ASSUME NEW m \in Behind(s, 1) PROVE \E p \in 1..n : f[p] = m
      <3>1. PICK q \in 2..(n + 1) : m = s[q]
        BY <1>3
      <3>2. q - 1 \in 1..n /\ f[q - 1] = s[(q - 1) + 1] /\ (q - 1) + 1 = q
        BY <1>1
      <3> QED BY <3>1, <3>2
    <2> HIDE DEF f
    <2> QED BY <2>1, <2>2, <2>3 DEF Bijection, Injection, Surjection, IsInjective
  <1>5. ExistsBijection(1..n, Behind(s, 1))
    BY <1>4 DEF ExistsBijection
  <1>6. Cardinality(Behind(s, 1)) = n /\ IsFiniteSet(Behind(s, 1))
    BY <1>1, <1>5, FS_CountingElements, FS_NatBijection
  <1>7. s[1] \notin Behind(s, 1)
    <2> SUFFICES ASSUME NEW q \in 2..(n + 1), s[q] = s[1] PROVE FALSE
      BY <1>3
    <2>1. q \in 1..(n + 1) /\ q # 1 /\ 1 \in 1..(n + 1)
      BY <1>1
    <2> QED BY <1>1, <2>1
  <1> QED BY <1>1, <1>6, <1>7

\* A message that is claimed leaves what is remembered in order.
LEMMA ClaimKeepsOrder ==
  ASSUME ArrivalsTyped, InOrder, NEW e \in DirectMessages, NEW how, Arrives(e, how),
         remembered' = Remembered(e)
  PROVE  InOrder'
  <1> DEFINE s == remembered
             r == remembered'
  <1>0. PICK n : n = Len(arrivals) + 1
    OBVIOUS
  <1>1. GoesLast(s, r, e)
    BY ClaimGoesLast
  <1>2. /\ Deliveries' = 1..n /\ Deliveries = 1..Len(arrivals) /\ Len(arrivals) \in Nat
        /\ \A d \in Deliveries : arrivals'[d] = arrivals[d]
        /\ arrivals'[n] = e /\ n \in Deliveries' /\ Deliveries \subseteq Deliveries'
    BY <1>0, ArrivalAppends
  <1>3. /\ \A k \in Deliveries : Later(k)' = Later(k) \cup {e}
        /\ Later(n)' = {}
    BY <1>0, LaterGrows
  <1>4. /\ r \in Seq(DirectMessages) /\ Len(r) \in Nat /\ Len(r) >= 1 /\ r[Len(r)] = e
        /\ \A p \in 1..(Len(r) - 1) : \E q \in 1..Len(s) : r[p] = s[q] /\ Behind(r, p) = Behind(s, q) \cup {e}
    <2> HIDE DEF s, r
    <2>1. r \in Seq(DirectMessages) /\ Len(r) \in Nat \ {0} /\ r[Len(r)] = e
      BY <1>1 DEF GoesLast
    <2>2. \A p \in 1..(Len(r) - 1) : \E q \in 1..Len(s) : r[p] = s[q] /\ Behind(r, p) = Behind(s, q) \cup {e}
      BY <1>1 DEF GoesLast
    <2>3. Len(r) \in Nat /\ Len(r) >= 1
      BY <2>1
    <2> QED BY <2>1, <2>2, <2>3
  <1>5. \A q \in 1..Len(s) : \E k \in Deliveries : arrivals[k] = s[q] /\ Later(k) = Behind(s, q)
    BY DEF InOrder
  <1>6. ASSUME NEW p \in 1..Len(r)
        PROVE  \E k \in Deliveries' : arrivals'[k] = r[p] /\ Later(k)' = Behind(r, p)
    <2>1. CASE p = Len(r)
      <3>1. (p + 1)..Len(r) = {}
        BY <1>4, <2>1
      <3>2. Behind(r, p) = {}
        BY <3>1 DEF Behind
      <3>3. n \in Deliveries'
        BY <1>2
      <3>4. arrivals'[n] = r[p] /\ Later(n)' = Behind(r, p)
        BY <1>2, <1>3, <1>4, <2>1, <3>2
      <3> QED BY <3>3, <3>4
    <2>2. CASE p # Len(r)
      <3>1. p \in 1..(Len(r) - 1)
        BY <1>4, <2>2
      <3>2. PICK q \in 1..Len(s) : r[p] = s[q] /\ Behind(r, p) = Behind(s, q) \cup {e}
        BY <1>4, <3>1
      <3>3. PICK k \in Deliveries : arrivals[k] = s[q] /\ Later(k) = Behind(s, q)
        BY <1>5
      <3>4. k \in Deliveries' /\ arrivals'[k] = r[p] /\ Later(k)' = Behind(r, p)
        BY <1>2, <1>3, <3>2, <3>3
      <3> QED BY <3>4
    <2> QED BY <2>1, <2>2
  <1> QED BY <1>1, <1>6 DEF InOrder, GoesLast, Behind, Later

\* A message whose last arrival counted as forgotten stays forgotten, and one that is
\* forgotten now has DedupeCapacity others behind it.
LEMMA ClaimKeepsForgotten ==
  ASSUME ArrivalsTyped, InOrder, ForgottenForGood, NEW e \in DirectMessages, NEW how, Arrives(e, how),
         remembered' = Remembered(e)
  PROVE  ForgottenForGood'
  <1> DEFINE s == remembered
             r == remembered'
             cap == DedupeCapacity
  <1>0. PICK n : n = Len(arrivals) + 1
    OBVIOUS
  <1>1. GoesLast(s, r, e)
    BY ClaimGoesLast
  <1>2. /\ Deliveries' = 1..n /\ Deliveries = 1..Len(arrivals) /\ Len(arrivals) \in Nat
        /\ \A d \in Deliveries : arrivals'[d] = arrivals[d]
        /\ arrivals'[n] = e /\ n \in Deliveries' /\ Deliveries \subseteq Deliveries'
        /\ \A d \in Deliveries' : d = n \/ d \in Deliveries
    BY <1>0, ArrivalAppends
  <1>3. /\ \A k \in Deliveries : Later(k)' = Later(k) \cup {e}
        /\ Later(n)' = {}
    BY <1>0, LaterGrows
  <1>4. /\ Len(r) >= 1 /\ r[Len(r)] = e /\ DOMAIN r = 1..Len(r) /\ Len(r) \in Nat
        /\ \A x : InSeq(x, s) => InSeq(x, r) \/ (x = s[1] /\ Len(s) = cap /\ ~InSeq(e, s))
    BY <1>1 DEF GoesLast
  <1>5. InSeq(e, r)
    BY <1>4 DEF InSeq
  <1>6. \A k \in Deliveries : IsFiniteSet(Later(k))
    BY DEF ForgottenForGood
  <1>7. \A k \in Deliveries : IsFiniteSet(Later(k)') /\ (Cardinality(Later(k)) >= cap => Cardinality(Later(k)') >= cap)
    <2> TAKE k \in Deliveries
    <2>1. IsFiniteSet(Later(k)) /\ Later(k)' = Later(k) \cup {e}
      BY <1>3, <1>6
    <2>2. /\ IsFiniteSet(Later(k) \cup {e})
          /\ Cardinality(Later(k) \cup {e}) = IF e \in Later(k) THEN Cardinality(Later(k)) ELSE Cardinality(Later(k)) + 1
      BY <2>1, FS_AddElement
    <2>3. Cardinality(Later(k)) \in Nat /\ cap \in Nat
      BY <2>1, FS_CardinalityType, IngressAssumption
    <2> QED BY <2>1, <2>2, <2>3
  <1>8. \A k \in Deliveries' : IsFiniteSet(Later(k)')
    <2> TAKE k \in Deliveries'
    <2>1. CASE k = n
      <3>1. IsFiniteSet(Later(n)')
        BY <1>3, FS_EmptySet
      <3> QED BY <2>1, <3>1
    <2>2. CASE k \in Deliveries BY <1>7, <2>2
    <2> QED BY <1>2, <2>1, <2>2
  <1> HIDE DEF r, s, cap
  <1>9. ASSUME NEW d \in Deliveries', arrivals'[d] \in DirectMessages
        PROVE  \E k \in Deliveries' :
                 /\ arrivals'[k] = arrivals'[d] /\ arrivals'[d] \notin Later(k)'
                 /\ InSeq(arrivals'[d], r) \/ Cardinality(Later(k)') >= cap
    <2> DEFINE m == arrivals'[d]
    <2>1. CASE m = e
      <3>1. /\ n \in Deliveries' /\ arrivals'[n] = arrivals'[d] /\ InSeq(arrivals'[d], r)
            /\ arrivals'[d] \notin Later(n)'
        BY <1>2, <1>3, <1>5, <2>1
      <3> QED BY <3>1
    <2>2. CASE m # e
      <3>1. d \in Deliveries /\ arrivals[d] = m
        BY <1>2, <2>2
      <3>2. PICK k \in Deliveries : LastArrival(m, k)
        BY <1>9, <3>1 DEF ForgottenForGood
      <3>3. /\ arrivals'[k] = m /\ k \in Deliveries' /\ m \notin Later(k)'
            /\ InSeq(m, s) \/ Cardinality(Later(k)) >= cap
        BY <1>2, <1>3, <2>2, <3>2 DEF LastArrival, s, cap
      <3>4. CASE InSeq(m, r) \/ Cardinality(Later(k)) >= cap
        BY <1>7, <3>3, <3>4
      <3>5. CASE ~InSeq(m, r) /\ InSeq(m, s)
        <4>1. m = s[1] /\ Len(s) = cap /\ ~InSeq(e, s)
          BY <1>4, <3>5
        <4>2. /\ s \in Seq(DirectMessages) /\ cap \in Nat /\ cap >= 1
              /\ \A p, q \in 1..Len(s) : s[p] = s[q] => p = q
              /\ \A p \in 1..Len(s) : \E l \in Deliveries : arrivals[l] = s[p] /\ Later(l) = Behind(s, p)
          BY IngressAssumption DEF InOrder, s, cap
        <4>3. PICK l \in Deliveries : arrivals[l] = m /\ Later(l) = Behind(s, 1)
          BY <4>1, <4>2
        <4>4. IsFiniteSet(Behind(s, 1)) /\ Cardinality(Behind(s, 1)) = cap - 1 /\ m \notin Behind(s, 1)
          BY <4>1, <4>2, BehindTheFirst
        <4>5. e \notin Behind(s, 1)
          BY <4>1, <4>2 DEF Behind, InSeq
        <4>6. Cardinality(Behind(s, 1) \cup {e}) = cap
          <5>1. Cardinality(Behind(s, 1) \cup {e}) = Cardinality(Behind(s, 1)) + 1
            BY <4>4, <4>5, FS_AddElement
          <5> QED BY <4>2, <4>4, <5>1
        <4>7. Later(l)' = Behind(s, 1) \cup {e}
          BY <1>3, <4>3
        <4>8. l \in Deliveries' /\ arrivals'[l] = m /\ m \notin Later(l)' /\ Cardinality(Later(l)') >= cap
          BY <1>2, <2>2, <4>2, <4>3, <4>4, <4>6, <4>7, SMTT(30)
        <4> QED BY <4>8
      <3> QED BY <3>3, <3>4, <3>5
    <2> QED BY <2>1, <2>2
  <1>10. \A d \in Deliveries' : arrivals'[d] \in DirectMessages =>
           \E k \in Deliveries' : LastArrival(arrivals[d], k)'
    BY <1>9 DEF LastArrival, r, cap, InSeq
  <1> QED BY <1>8, <1>10 DEF ForgottenForGood

\* An event of another environment changes nothing of what is remembered or forgotten.
LEMMA AmbientArrivalKeeps ==
  ASSUME ArrivalsTyped, InOrder, ForgottenForGood, NEW e, e \notin DirectMessages, NEW how,
         Arrives(e, how), remembered' = remembered
  PROVE  InOrder' /\ ForgottenForGood'
  <1>0. PICK n : n = Len(arrivals) + 1
    OBVIOUS
  <1>1. /\ Deliveries \subseteq Deliveries' /\ \A d \in Deliveries' : d = n \/ d \in Deliveries
        /\ \A d \in Deliveries : arrivals'[d] = arrivals[d]
        /\ arrivals'[n] = e
    BY <1>0, ArrivalAppends
  <1>2. /\ \A k \in Deliveries : Later(k)' = Later(k)
        /\ Later(n)' = {}
    <2>1. {e} \cap DirectMessages = {}
      OBVIOUS
    <2>2. \A k \in Deliveries : Later(k)' = Later(k) \cup ({e} \cap DirectMessages)
      BY LaterGrows
    <2>3. Later(n)' = {}
      BY <1>0, LaterGrows
    <2> QED BY <2>1, <2>2, <2>3
  <1>3. InOrder'
    <2>1. ASSUME NEW p \in 1..Len(remembered)
          PROVE  \E k \in Deliveries' : arrivals'[k] = remembered[p] /\ Later(k)' = Behind(remembered, p)
      <3>1. PICK k \in Deliveries : arrivals[k] = remembered[p] /\ Later(k) = Behind(remembered, p)
        BY DEF InOrder
      <3> QED BY <1>1, <1>2, <3>1
    <2>2. \A p \in 1..Len(remembered') : \E k \in Deliveries' :
            arrivals'[k] = remembered'[p] /\ Later(k)' = Behind(remembered', p)
      BY <2>1
    <2> QED BY <2>2 DEF InOrder, Behind
  <1>4. \A k \in Deliveries' : IsFiniteSet(Later(k)')
    <2> TAKE k \in Deliveries'
    <2>1. CASE k = n
      <3>1. IsFiniteSet(Later(n)')
        BY <1>2, FS_EmptySet
      <3> QED BY <2>1, <3>1
    <2>2. CASE k \in Deliveries BY <1>2, <2>2 DEF ForgottenForGood
    <2> QED BY <1>1, <2>1, <2>2
  <1>5. ASSUME NEW d \in Deliveries', arrivals'[d] \in DirectMessages
        PROVE  \E k \in Deliveries' :
                 /\ arrivals'[k] = arrivals'[d] /\ arrivals'[d] \notin Later(k)'
                 /\ InSeq(arrivals'[d], remembered) \/ Cardinality(Later(k)') >= DedupeCapacity
    <2>1. d \in Deliveries /\ arrivals'[d] = arrivals[d]
      BY <1>1, <1>5
    <2>2. PICK k \in Deliveries : LastArrival(arrivals[d], k)
      BY <1>5, <2>1 DEF ForgottenForGood
    <2> QED BY <1>1, <1>2, <2>1, <2>2 DEF LastArrival
  <1>6. \A d \in Deliveries' : arrivals'[d] \in DirectMessages =>
          \E k \in Deliveries' : LastArrival(arrivals[d], k)'
    BY <1>5 DEF LastArrival, InSeq
  <1> QED BY <1>3, <1>4, <1>6 DEF ForgottenForGood

\* A message that arrives again and is not remembered has been forgotten: since its last
\* arrival as many others came as are remembered.
LEMMA ArrivalKeepsTurns ==
  ASSUME ArrivalsTyped, ForgottenForGood, OneTurnPerMessage, NEW e, NEW how, Arrives(e, how),
         (e \in DirectMessages /\ how # "duplicate") => ~InSeq(e, remembered)
  PROVE  OneTurnPerMessage'
  <1> DEFINE Between(k, l) == {arrivals[x] : x \in (k + 1)..(l - 1)} \cap DirectMessages
             Between1(k, l) == {arrivals'[x] : x \in (k + 1)..(l - 1)} \cap DirectMessages
  <1>0. PICK n : n = Len(arrivals) + 1
    OBVIOUS
  <1>1. /\ Len(arrivals) \in Nat /\ Deliveries = 1..Len(arrivals) /\ Deliveries' = 1..n
        /\ \A d \in Deliveries : arrivals'[d] = arrivals[d] /\ delivery'[d] = delivery[d]
        /\ arrivals'[n] = e /\ delivery'[n] = how
    BY <1>0, ArrivalAppends
  <1>2. \A k \in Deliveries, l \in Deliveries' : Between1(k, l) = Between(k, l)
    <2> TAKE k \in Deliveries, l \in Deliveries'
    <2>1. \A x \in (k + 1)..(l - 1) : x \in Deliveries
      BY <1>0, <1>1
    <2> QED BY <1>1, <2>1
  <1>3. ASSUME NEW i \in Deliveries', NEW j \in Deliveries', i < j, arrivals'[i] = arrivals'[j],
               arrivals'[i] \in DirectMessages, "duplicate" \notin {delivery'[i], delivery'[j]}
        PROVE  \E k, l \in i..j :
                 /\ k < l /\ arrivals'[k] = arrivals'[i] /\ arrivals'[l] = arrivals'[i]
                 /\ arrivals'[i] \notin Between1(k, l) /\ Cardinality(Between1(k, l)) >= DedupeCapacity
    <2>1. i \in Deliveries /\ i \in Nat /\ j \in Nat
      BY <1>0, <1>1, <1>3
    <2>2. CASE j = n
      <3>1. e \in DirectMessages /\ ~InSeq(e, remembered) /\ arrivals[i] = e
        BY <1>1, <1>3, <2>1, <2>2
      <3>2. PICK k \in Deliveries : LastArrival(e, k)
        BY <2>1, <3>1 DEF ForgottenForGood
      <3>3. arrivals[k] = e /\ e \notin Later(k) /\ Cardinality(Later(k)) >= DedupeCapacity
        BY <3>1, <3>2 DEF LastArrival
      <3>4. i <= k
        <4>1. ~(i \in (k + 1)..Len(arrivals))
          BY <3>1, <3>3 DEF Later
        <4> QED BY <1>1, <2>1, <4>1
      <3>5. k \in i..j /\ n \in i..j /\ k < n /\ n \in Deliveries' /\ n - 1 = Len(arrivals)
        BY <1>0, <1>1, <2>1, <2>2, <3>4
      <3>6. Between1(k, n) = Later(k)
        BY <1>2, <3>5 DEF Later
      <3>7. arrivals'[k] = e /\ arrivals'[n] = e /\ arrivals'[i] = e
        BY <1>1, <2>1, <3>1, <3>3
      <3> HIDE DEF Between1
      <3> QED BY <3>3, <3>5, <3>6, <3>7
    <2>3. CASE j # n
      <3>1. j \in Deliveries
        BY <1>0, <1>1, <2>3
      <3>2. PICK k \in i..j, l \in i..j :
               /\ k < l /\ arrivals[k] = arrivals[i] /\ arrivals[l] = arrivals[i]
               /\ arrivals[i] \notin Between(k, l) /\ Cardinality(Between(k, l)) >= DedupeCapacity
        <4>1. Forgotten(i, j)
          BY <1>1, <1>3, <2>1, <3>1, TurnsAre
        <4> QED BY <4>1 DEF Forgotten
      <3>3. k \in Deliveries /\ l \in Deliveries /\ l \in Deliveries'
        BY <1>0, <1>1, <2>1, <3>1
      <3>4. Between1(k, l) = Between(k, l)
        BY <1>2, <3>3
      <3> HIDE DEF Between, Between1
      <3> QED BY <1>1, <2>1, <3>2, <3>3, <3>4
    <2> QED BY <2>2, <2>3
  <1> QED BY <1>3 DEF OneTurnPerMessage

\* The handling of a delivery does not make a duplicate of it, or of a duplicate a turn.
LEMMA HandlingKeeps ==
  ASSUME ArrivalsTyped, OneTurnPerMessage, UNCHANGED arrivals,
         NEW d \in Deliveries, NEW to \in DeliveryStages, Moved(d, to),
         delivery[d] # "duplicate", to # "duplicate"
  PROVE  /\ ArrivalsTyped' /\ OneTurnPerMessage' /\ delivery'[d] = to
         /\ Submitting' = IF to \in Admitting THEN Submitting \cup {d} ELSE Submitting \ {d}
  <1>1. /\ delivery \in Seq(DeliveryStages) /\ Len(delivery) = Len(arrivals)
        /\ arrivals \in Seq(Events) /\ d \in 1..Len(delivery) /\ Deliveries = 1..Len(delivery)
        /\ delivery' = [delivery EXCEPT ![d] = to]
    BY DEF ArrivalsTyped, Deliveries, Moved
  <1>2. /\ delivery' \in Seq(DeliveryStages) /\ Len(delivery') = Len(delivery)
        /\ \A x \in Deliveries : delivery'[x] = IF x = d THEN to ELSE delivery[x]
    BY <1>1
  <1>3. ArrivalsTyped' /\ delivery'[d] = to
    BY <1>1, <1>2 DEF ArrivalsTyped
  <1>4. Submitting' = IF to \in Admitting THEN Submitting \cup {d} ELSE Submitting \ {d}
    BY <1>2 DEF Submitting, Deliveries
  <1>5. \A x \in Deliveries : delivery'[x] # "duplicate" => delivery[x] # "duplicate"
    BY <1>2
  <1>6. OneTurnPerMessage'
    BY <1>5, TurnsKeep
  <1> QED BY <1>3, <1>4, <1>6

\* Counting in: a submission begins while the runtime runs.
LEMMA CountedIn ==
  ASSUME DrainInv, drain = "running", drain' = drain, NEW d, d \notin Submitting,
         Submitting' = Submitting \cup {d}, submissions' = submissions + 1
  PROVE  DrainInv'
  <1>1. IsFiniteSet(Submitting \cup {d}) /\ Cardinality(Submitting \cup {d}) = Cardinality(Submitting) + 1
    BY FS_AddElement DEF DrainInv
  <1> QED BY <1>1 DEF DrainInv

\* Counting out: the put was settled, refused or cancelled.
LEMMA CountedOut ==
  ASSUME DrainInv, drain' = drain, queued' = queued, NEW d \in Submitting,
         Submitting' = Submitting \ {d}, submissions' = submissions - 1
  PROVE  DrainInv'
  <1>1. IsFiniteSet(Submitting \ {d}) /\ Cardinality(Submitting \ {d}) = Cardinality(Submitting) - 1
    BY FS_RemoveElement DEF DrainInv
  <1> QED BY <1>1 DEF DrainInv

\* Every step of the edge, of the admission and of stop() keeps the invariant.
LEMMA NextIngressInv ==
  ASSUME IngressInv, IngressNext
  PROVE  IngressInv'
  <1>1. ArrivalsTyped /\ DrainInv /\ InOrder /\ ForgottenForGood /\ OneTurnPerMessage
    BY DEF IngressInv
  <1> DEFINE Kept == /\ InOrder' /\ ForgottenForGood'
      Admittable == DeliveryStages \ {"duplicate"}
  <1>2. UNCHANGED <<arrivals, remembered>> => Kept
    BY <1>1, RestKeeps
  <1> HIDE DEF Kept
  <1>3. ASSUME NEW d \in Deliveries, NEW to, Moved(d, to), UNCHANGED <<arrivals, remembered>>,
               delivery[d] # "duplicate", to \in DeliveryStages, to # "duplicate"
        PROVE  /\ ArrivalsTyped' /\ OneTurnPerMessage' /\ Kept
               /\ Submitting' = IF to \in Admitting THEN Submitting \cup {d} ELSE Submitting \ {d}
    BY <1>1, <1>2, <1>3, HandlingKeeps
  <1>4. ASSUME NEW e \in Events, Deliver(e) PROVE IngressInv'
    <2>1. PICK how : /\ how = IF e \in DirectMessages /\ InSeq(e, remembered) THEN "duplicate" ELSE "claimed"
      OBVIOUS
    <2>2. Arrives(e, how)
      BY <1>4, <2>1, IngressAssumption DEF Deliver, Arrives, Events
    <2>3. Kept
      <3>1. CASE e \in DirectMessages
        BY <1>1, <1>4, <2>2, <3>1, ClaimKeepsOrder, ClaimKeepsForgotten, IngressAssumption
           DEF Deliver, Kept
      <3>2. CASE e \notin DirectMessages
        BY <1>1, <1>4, <2>2, <3>2, AmbientArrivalKeeps DEF Deliver, Kept, Events
      <3> QED BY <3>1, <3>2
    <2>4. OneTurnPerMessage'
      BY <1>1, <2>1, <2>2, ArrivalKeepsTurns
    <2>5. ArrivalsTyped' /\ Submitting' = Submitting
      <3>1. how \notin Admitting
        BY <2>1 DEF Admitting
      <3>2. PICK n : n = Len(arrivals) + 1
        OBVIOUS
      <3>3. /\ ArrivalsTyped' /\ Deliveries' = Deliveries \cup {n} /\ n \notin Deliveries
            /\ delivery'[n] = how /\ \A x \in Deliveries : delivery'[x] = delivery[x]
        BY <1>1, <2>2, <3>2, ArrivalAppends
      <3> QED BY <3>1, <3>3 DEF Submitting
    <2>6. DrainInv'
      BY <1>1, <1>4, <2>5 DEF DrainInv, Deliver
    <2> QED BY <2>3, <2>4, <2>5, <2>6 DEF IngressInv, Kept
  <1>5. ASSUME NEW d \in Deliveries, Register(d) PROVE IngressInv'
    <2>1. delivery[d] = "claimed" /\ d \notin Submitting
      BY <1>5 DEF Register, Submitting, Admitting
    <2>2. CASE drain = "running"
      <3>1. Moved(d, "putting") /\ UNCHANGED <<arrivals, remembered>>
        BY <1>5, <2>2 DEF Register
      <3>2. ArrivalsTyped' /\ OneTurnPerMessage' /\ Kept /\ Submitting' = Submitting \cup {d}
        BY <1>3, <2>1, <3>1 DEF DeliveryStages, Admitting
      <3>3. DrainInv'
        BY <1>1, <1>5, <2>1, <2>2, <3>2, CountedIn DEF Register
      <3> QED BY <3>2, <3>3 DEF IngressInv, Kept
    <2>3. CASE drain # "running"
      <3>1. Moved(d, "over") /\ UNCHANGED <<arrivals, remembered>>
        BY <1>5, <2>3 DEF Register
      <3>2. ArrivalsTyped' /\ OneTurnPerMessage' /\ Kept /\ Submitting' = Submitting
        BY <1>3, <2>1, <3>1 DEF DeliveryStages, HandlingEnded, Admitting
      <3>3. DrainInv'
        BY <1>1, <1>5, <2>3, <3>2 DEF DrainInv, Register
      <3> QED BY <3>2, <3>3 DEF IngressInv, Kept
    <2> QED BY <2>2, <2>3
  <1>6. ASSUME NEW d \in Deliveries, Puts(d) \/ PutBlocks(d) PROVE IngressInv'
    <2>1. PICK to \in {"put", "blocked"} : Moved(d, to)
      BY <1>6 DEF Puts, PutBlocks
    <2>2. /\ delivery[d] \in Admitting /\ UNCHANGED <<arrivals, remembered, submissions, drain>>
          /\ d \in Submitting
      BY <1>6 DEF Puts, PutBlocks, Admitting, Submitting
    <2>3. ArrivalsTyped' /\ OneTurnPerMessage' /\ Kept /\ Submitting' = Submitting
      BY <1>3, <2>1, <2>2 DEF DeliveryStages, Admitting
    <2>4. drain \notin {"joining", "drained"}
      BY <1>1, <2>2 DEF DrainInv
    <2>5. DrainInv'
      BY <1>1, <2>2, <2>3, <2>4 DEF DrainInv
    <2> QED BY <2>3, <2>5 DEF IngressInv, Kept
  <1>7. ASSUME NEW d \in Deliveries, AdmissionSettles(d) \/ AdmissionRefused(d) \/ AdmissionCancelled(d)
        PROVE  IngressInv'
    <2>1. PICK to \in {"admitted", "over"} : Moved(d, to)
      BY <1>7 DEF AdmissionSettles, AdmissionRefused, AdmissionCancelled
    <2>2. /\ delivery[d] \in Admitting /\ UNCHANGED <<arrivals, remembered, drain, queued>>
          /\ d \in Submitting /\ submissions' = submissions - 1
      BY <1>7 DEF AdmissionSettles, AdmissionRefused, AdmissionCancelled, Admitting, Submitting
    <2>3. ArrivalsTyped' /\ OneTurnPerMessage' /\ Kept /\ Submitting' = Submitting \ {d}
      BY <1>3, <2>1, <2>2 DEF DeliveryStages, HandlingEnded, Admitting
    <2>4. DrainInv'
      BY <1>1, <2>2, <2>3, CountedOut
    <2> QED BY <2>3, <2>4 DEF IngressInv, Kept
  <1>8. ASSUME NEW d \in Deliveries, CognitionStep(d) \/ SubmissionReturns(d) PROVE IngressInv'
    <2>1. PICK to \in {"over", "submitting", "turn"} : Moved(d, to)
      BY <1>8 DEF CognitionStep, SubmissionReturns
    <2>2. /\ delivery[d] \in {"admitted", "submitting"} /\ d \notin Submitting
          /\ UNCHANGED <<arrivals, remembered, drain, queued, submissions>>
      BY <1>8 DEF CognitionStep, SubmissionReturns, Admitting, Submitting
    <2>3. ArrivalsTyped' /\ OneTurnPerMessage' /\ Kept /\ Submitting' = Submitting
      BY <1>3, <2>1, <2>2 DEF DeliveryStages, HandlingEnded, Admitting
    <2>4. DrainInv'
      BY <1>1, <2>2, <2>3 DEF DrainInv
    <2> QED BY <2>3, <2>4 DEF IngressInv, Kept
  <1>9. ASSUME ConsumeEvent \/ StopCloses \/ AdaptersEnd \/ SubmissionsSettle \/ QueueJoined
        PROVE  IngressInv'
    <2>1. UNCHANGED <<arrivals, remembered, delivery, submissions>>
      BY <1>9 DEF ConsumeEvent, StopCloses, AdaptersEnd, SubmissionsSettle, QueueJoined, Draining
    <2>2. ArrivalsTyped' /\ OneTurnPerMessage' /\ Kept /\ Submitting' = Submitting
      <3>1. OneTurnPerMessage'
        BY <1>1, <2>1, TurnsKeep
      <3> QED BY <1>1, <1>2, <2>1, <3>1 DEF ArrivalsTyped, Submitting, Deliveries
    <2>3. DrainInv'
      <3>1. CASE ConsumeEvent
        BY <1>1, <2>1, <2>2, <3>1 DEF DrainInv, ConsumeEvent
      <3>2. CASE StopCloses \/ AdaptersEnd
        BY <1>1, <2>1, <2>2, <3>2 DEF DrainInv, StopCloses, AdaptersEnd, Draining
      <3>3. CASE SubmissionsSettle
        <4>1. Submitting = {}
          BY <1>1, <3>3, FS_EmptySet DEF DrainInv, SubmissionsSettle
        <4> QED BY <1>1, <2>1, <2>2, <3>3, <4>1 DEF DrainInv, SubmissionsSettle, Draining
      <3>4. CASE QueueJoined
        BY <1>1, <2>1, <2>2, <3>4 DEF DrainInv, QueueJoined, Draining
      <3> QED BY <1>9, <3>1, <3>2, <3>3, <3>4
    <2> QED BY <2>2, <2>3 DEF IngressInv, Kept
  <1> QED BY <1>4, <1>5, <1>6, <1>7, <1>8, <1>9 DEF IngressNext

\* The inductive invariant of the way in: the submissions are counted, and what the
\* edge remembers is in the order of the last arrivals.
THEOREM IngressInvariant == IngressSpec => []IngressInv
  <1>1. IngressInit => IngressInv
    <2> SUFFICES ASSUME IngressInit PROVE IngressInv
      OBVIOUS
    <2>1. /\ arrivals = <<>> /\ delivery = <<>> /\ remembered = <<>> /\ Len(remembered) = 0
          /\ submissions = 0 /\ drain = "running" /\ Deliveries = {}
      BY DEF IngressInit, Deliveries
    <2>2. ArrivalsTyped
      BY <2>1 DEF ArrivalsTyped
    <2>3. DrainInv
      <3>1. Submitting = {}
        BY <2>1 DEF Submitting
      <3> QED BY <2>1, <3>1, FS_EmptySet DEF DrainInv
    <2>4. InOrder
      BY <2>1, IngressAssumption DEF InOrder
    <2>5. ForgottenForGood /\ OneTurnPerMessage
      BY <2>1 DEF ForgottenForGood, OneTurnPerMessage
    <2> QED BY <2>2, <2>3, <2>4, <2>5 DEF IngressInv
  <1>2. IngressInv /\ UNCHANGED ingressVars => IngressInv'
    <2> SUFFICES ASSUME IngressInv, UNCHANGED ingressVars PROVE IngressInv'
      OBVIOUS
    <2>1. ArrivalsTyped' /\ DrainInv'
      BY DEF IngressInv, ingressVars, ArrivalsTyped, DrainInv, Submitting, Deliveries
    <2>2. InOrder' /\ ForgottenForGood' /\ OneTurnPerMessage'
      BY RestKeeps, TurnsKeep DEF IngressInv, ingressVars
    <2> QED BY <2>1, <2>2 DEF IngressInv
  <1>3. IngressInv /\ [IngressNext]_ingressVars => IngressInv'
    BY <1>2, NextIngressInv
  <1> QED BY <1>1, <1>3, PTL DEF IngressSpec

\* A drained runtime has an empty queue and no submission on its way into it, for any
\* capacity and any number of events (kernel.py:811-820).
THEOREM NothingIsLeftBehind == IngressSpec => []NothingLeftBehind
  <1>1. IngressInv => NothingLeftBehind
    BY DEF IngressInv, DrainInv, Submitting, NothingLeftBehind
  <1> QED BY <1>1, IngressInvariant, PTL

\* A message gets a second turn only if as many others arrived in between as the edge
\* remembers, for any capacity (edge.py:178-194).
THEOREM OneTurnForEachMessage == IngressSpec => []OneTurnPerMessage
  <1>1. IngressInv => OneTurnPerMessage
    BY DEF IngressInv
  <1> QED BY <1>1, IngressInvariant, PTL

-----------------------------------------------------------------------------
(* The awareness notes. *)

\* Every active note is found under its keys: no other note can have them.
Indexed(ns, ds, ss) ==
  /\ \A i \in Active(ns) :
       /\ <<ns[i].on, ns[i].dedup>> \in DOMAIN ds /\ ds[<<ns[i].on, ns[i].dedup>>] = i
       /\ ns[i].replaces # NoKey =>
            <<ns[i].on, ns[i].replaces>> \in DOMAIN ss /\ ss[<<ns[i].on, ns[i].replaces>>] = i
  /\ \A k \in DOMAIN ss : ss[k] \in DOMAIN ns => k = <<ns[ss[k]].on, ns[ss[k]].replaces>>
\* The ids of notes to come are free.
Numbered ==
  /\ nextNote \in Nat /\ \A i \in DOMAIN notes : i \in Nat /\ i <= nextNote
  /\ \A k \in DOMAIN supersedes : supersedes[k] \in Nat /\ supersedes[k] <= nextNote
IndexInv == Numbered /\ Indexed(notes, dedups, supersedes)

\* Removing notes leaves the others indexed.
LEMMA NotesGo ==
  ASSUME NEW ns, NEW ds, NEW ss, NEW gone, Indexed(ns, ds, ss)
  PROVE  Indexed(Without(ns, gone), ds, ss)
  <1>1. /\ DOMAIN Without(ns, gone) = DOMAIN ns \ gone
        /\ \A i \in DOMAIN ns \ gone : Without(ns, gone)[i] = ns[i]
    BY DEF Without, Restrict
  <1>2. \A i \in Active(Without(ns, gone)) : i \in Active(ns) /\ Without(ns, gone)[i] = ns[i]
    BY <1>1 DEF Active
  <1> QED BY <1>1, <1>2 DEF Indexed

\* What is left when some keys are taken out of a function.
LEMMA WithoutIs ==
  ASSUME NEW f, NEW keys
  PROVE  /\ DOMAIN Without(f, keys) = DOMAIN f \ keys
         /\ \A k \in DOMAIN f \ keys : Without(f, keys)[k] = f[k]
  BY DEF Without, Restrict

\* An index that drops what it holds of removed notes keeps what it holds of the others.
LEMMA IndexesForget ==
  ASSUME NEW ns, NEW ds, NEW ss, NEW ids, NEW moreIds, Indexed(ns, ds, ss),
         \A i \in Active(ns) : i \notin ids /\ i \notin moreIds
  PROVE  Indexed(ns, Unindexed(ds, ids), Unindexed(ss, moreIds))
  <1>1. \A k \in DOMAIN ds : ds[k] \notin ids =>
          k \in DOMAIN Unindexed(ds, ids) /\ Unindexed(ds, ids)[k] = ds[k]
    BY DEF Unindexed, Without, Restrict, StillNames
  <1>2. /\ \A k \in DOMAIN ss : ss[k] \notin moreIds =>
             k \in DOMAIN Unindexed(ss, moreIds) /\ Unindexed(ss, moreIds)[k] = ss[k]
        /\ \A k \in DOMAIN Unindexed(ss, moreIds) :
             k \in DOMAIN ss /\ Unindexed(ss, moreIds)[k] = ss[k]
    BY DEF Unindexed, Without, Restrict, StillNames
  <1> QED BY <1>1, <1>2 DEF Indexed

\* A compaction removes notes and what the indexes hold of them.
LEMMA RemovalKeeps ==
  ASSUME Indexed(notes, dedups, supersedes), NEW gone
  PROVE  /\ Indexed(Without(notes, gone), Unindexed(dedups, gone), Unindexed(supersedes, gone))
         /\ DOMAIN Without(notes, gone) = DOMAIN notes \ gone
         /\ \A i \in DOMAIN notes \ gone : Without(notes, gone)[i] = notes[i]
  <1>1. \A i \in Active(Without(notes, gone)) : i \notin gone
    BY DEF Active, Without, Restrict
  <1>2. Indexed(Without(notes, gone), dedups, supersedes)
    BY NotesGo
  <1>3. /\ DOMAIN Without(notes, gone) = DOMAIN notes \ gone
        /\ \A i \in DOMAIN notes \ gone : Without(notes, gone)[i] = notes[i]
    BY DEF Without, Restrict
  <1> QED BY <1>1, <1>2, <1>3, IndexesForget

\* A note that is refreshed or no longer active keeps its keys to itself.
LEMMA NoteChanges ==
  ASSUME NEW ns, NEW ds, NEW ss, NEW i, NEW n, Indexed(ns, ds, ss),
         i \in DOMAIN ns => n.on = ns[i].on /\ n.dedup = ns[i].dedup /\ n.replaces = ns[i].replaces,
         i \in DOMAIN ns /\ n.status = "active" => ns[i].status = "active"
  PROVE  Indexed([ns EXCEPT ![i] = n], ds, ss)
  <1> DEFINE new == [ns EXCEPT ![i] = n]
  <1>1. /\ DOMAIN new = DOMAIN ns
        /\ \A j \in DOMAIN ns : new[j] = IF j = i THEN n ELSE ns[j]
    OBVIOUS
  <1> HIDE DEF new
  <1>2. \A j \in Active(new) : j \in Active(ns) /\ new[j].on = ns[j].on /\ new[j].dedup = ns[j].dedup
                               /\ new[j].replaces = ns[j].replaces
    BY <1>1 DEF Active
  <1>3. \A j \in DOMAIN new : j \in DOMAIN ns /\ new[j].on = ns[j].on /\ new[j].replaces = ns[j].replaces
    BY <1>1
  <1>4. Indexed(new, ds, ss)
    BY <1>2, <1>3 DEF Indexed
  <1> QED BY <1>4 DEF new

\* Keys that no active note has may go, and so may such families.
LEMMA KeysGo ==
  ASSUME NEW ns, NEW ds, NEW ss, NEW keys, Indexed(ns, ds, ss),
         \A i \in Active(ns) : <<ns[i].on, ns[i].dedup>> \notin keys
  PROVE  Indexed(ns, Without(ds, keys), ss)
  <1>1. \A k \in DOMAIN ds \ keys : k \in DOMAIN Without(ds, keys) /\ Without(ds, keys)[k] = ds[k]
    BY DEF Without, Restrict
  <1> QED BY <1>1 DEF Indexed

\* The same for the families of notes that supersede one another.
LEMMA FamiliesGo ==
  ASSUME NEW ns, NEW ds, NEW ss, NEW families, Indexed(ns, ds, ss),
         \A i \in Active(ns) : ns[i].replaces # NoKey => <<ns[i].on, ns[i].replaces>> \notin families
  PROVE  Indexed(ns, ds, Without(ss, families))
  <1>1. /\ DOMAIN Without(ss, families) = DOMAIN ss \ families
        /\ \A k \in DOMAIN ss \ families : Without(ss, families)[k] = ss[k]
    BY DEF Without, Restrict
  <1> QED BY <1>1 DEF Indexed

\* A new note takes keys that no active note has, and a family whose note has just gone.
LEMMA NoteAdded ==
  ASSUME NEW ns, NEW ds, NEW ss, NEW id, NEW n, Indexed(ns, ds, ss), id \notin DOMAIN ns,
         \A k \in DOMAIN ss : ss[k] # id,
         \A i \in Active(ns) : <<ns[i].on, ns[i].dedup>> # <<n.on, n.dedup>>,
         n.replaces # NoKey => \A i \in Active(ns) : <<ns[i].on, ns[i].replaces>> # <<n.on, n.replaces>>,
         NEW families, families = IF n.replaces = NoKey THEN ss ELSE Put(ss, <<n.on, n.replaces>>, id)
  PROVE  Indexed(Put(ns, id, n), Put(ds, <<n.on, n.dedup>>, id), families)
  <1> DEFINE new == Put(ns, id, n)
             keys == Put(ds, <<n.on, n.dedup>>, id)
             k0 == <<n.on, n.dedup>>
             f0 == <<n.on, n.replaces>>
  <1>1. /\ DOMAIN new = DOMAIN ns \cup {id} /\ new[id] = n
        /\ \A j \in DOMAIN ns : new[j] = ns[j]
    BY DEF Put
  <1>2. /\ DOMAIN keys = DOMAIN ds \cup {k0} /\ keys[k0] = id
        /\ \A k \in DOMAIN ds : k # k0 => keys[k] = ds[k]
    BY DEF Put
  <1>3. /\ \A k \in DOMAIN ss : n.replaces = NoKey \/ k # f0 => k \in DOMAIN families /\ families[k] = ss[k]
        /\ n.replaces # NoKey => f0 \in DOMAIN families /\ families[f0] = id
    BY DEF Put
  <1>a. n = new[id] BY <1>1
  <1> HIDE DEF new, keys
  <1>4. \A j \in Active(new) : j = id \/ (j \in Active(ns) /\ new[j] = ns[j] /\ j # id)
    BY <1>1 DEF Active
  <1>5. Indexed(new, keys, families)
    <2>0. \A k \in DOMAIN families : families[k] \in DOMAIN new =>
            k = <<new[families[k]].on, new[families[k]].replaces>>
      <3>1. \A k \in DOMAIN families : \/ n.replaces # NoKey /\ k = f0
                                       \/ k \in DOMAIN ss /\ families[k] = ss[k]
        BY DEF Put
      <3>2. \A k \in DOMAIN ss : ss[k] \in DOMAIN new =>
              ss[k] \in DOMAIN ns /\ new[ss[k]] = ns[ss[k]]
        BY <1>1
      <3> QED BY <1>1, <1>3, <3>1, <3>2 DEF Indexed
    <2> SUFFICES ASSUME NEW j \in Active(new)
                 PROVE  /\ <<new[j].on, new[j].dedup>> \in DOMAIN keys /\ keys[<<new[j].on, new[j].dedup>>] = j
                        /\ new[j].replaces # NoKey =>
                             <<new[j].on, new[j].replaces>> \in DOMAIN families
                             /\ families[<<new[j].on, new[j].replaces>>] = j
      BY <2>0 DEF Indexed
    <2>1. CASE j = id BY <1>1, <1>2, <1>3, <2>1
    <2>2. CASE j # id
      <3>1. j \in Active(ns) /\ new[j] = ns[j]
        BY <1>4, <2>2
      <3>2. <<ns[j].on, ns[j].dedup>> \in DOMAIN ds /\ ds[<<ns[j].on, ns[j].dedup>>] = j
        BY <3>1 DEF Indexed
      <3>3. ns[j].replaces # NoKey =>
              <<ns[j].on, ns[j].replaces>> \in DOMAIN ss /\ ss[<<ns[j].on, ns[j].replaces>>] = j
        BY <3>1 DEF Indexed
      <3>4. <<ns[j].on, ns[j].dedup>> # k0 /\ (n.replaces # NoKey => <<ns[j].on, ns[j].replaces>> # f0)
        BY <3>1
      <3>5. <<new[j].on, new[j].dedup>> \in DOMAIN keys /\ keys[<<new[j].on, new[j].dedup>>] = j
        BY <1>2, <3>1, <3>2, <3>4
      <3>6. new[j].replaces # NoKey =>
              <<new[j].on, new[j].replaces>> \in DOMAIN families /\ families[<<new[j].on, new[j].replaces>>] = j
        BY <1>3, <3>1, <3>3, <3>4
      <3> QED BY <3>5, <3>6
    <2> QED BY <2>1, <2>2
  <1> QED BY <1>5 DEF new, keys

\* admit() of a new occurrence keeps it, whatever is superseded and evicted.
LEMMA AdmitNewKeeps ==
  ASSUME IndexInv, NEW s, NEW key, NEW family, AdmitNew(s, key, family)
  PROVE  IndexInv'
  <1> DEFINE ds == Unindexed(dedups, Stale(notes))
             ss == Unindexed(supersedes, Stale(notes))
             id == nextNote + 1
             n == Note(s, key, family)
             replaced == IF family # NoKey /\ <<s, family>> \in DOMAIN ss
                           THEN {ss[<<s, family>>]} \cap Active(Compacted) ELSE {}
             left == Without(Compacted, replaced)
             unkeyed == Without(ds, {<<s, Compacted[i].dedup>> : i \in replaced})
             families == IF family = NoKey THEN ss ELSE Put(ss, <<s, family>>, id)
             added == Put(left, id, n)
             gone == Overflow(added, s)
  <1>1. /\ <<s, key>> \notin DOMAIN ds /\ nextNote' = id
        /\ notes' = Without(added, gone)
        /\ dedups' = Unindexed(Put(unkeyed, <<s, key>>, id), gone)
        /\ supersedes' = Unindexed(families, replaced \cup gone)
    BY DEF AdmitNew
  <1>2. Indexed(Compacted, ds, ss) /\ DOMAIN Compacted \subseteq DOMAIN notes
    BY RemovalKeeps DEF IndexInv, Compacted
  <1>3. /\ n.on = s /\ n.dedup = key /\ n.replaces = family
    BY DEF Note
  <1>4. /\ replaced \subseteq Active(Compacted)
        /\ \A i \in replaced : family # NoKey /\ <<s, family>> \in DOMAIN ss /\ i = ss[<<s, family>>]
        /\ \A i \in Active(Compacted) :
             family # NoKey /\ <<s, family>> \in DOMAIN ss /\ i = ss[<<s, family>>] => i \in replaced
    OBVIOUS
  <1> HIDE DEF ds, ss, n, replaced
  <1>5a. Indexed(left, ds, ss)
    BY <1>2, NotesGo
  <1>5b. /\ DOMAIN left = DOMAIN Compacted \ replaced
         /\ \A i \in DOMAIN left : left[i] = Compacted[i]
    BY DEF Without, Restrict
  <1>5. /\ Indexed(left, ds, ss) /\ DOMAIN left = DOMAIN Compacted \ replaced
        /\ \A i \in DOMAIN left : left[i] = Compacted[i]
    BY <1>5a, <1>5b
  <1>6. \A i \in Active(left) : i \in Active(Compacted) /\ i \notin replaced /\ left[i] = Compacted[i]
    BY <1>5 DEF Active
  <1>7. \A i \in Active(left) : <<left[i].on, left[i].dedup>> \notin {<<s, Compacted[j].dedup>> : j \in replaced}
    <2> SUFFICES ASSUME NEW i \in Active(left), NEW j \in replaced,
                        <<left[i].on, left[i].dedup>> = <<s, Compacted[j].dedup>>
                 PROVE  FALSE
      OBVIOUS
    <2>1. family # NoKey /\ <<s, family>> \in DOMAIN ss /\ j = ss[<<s, family>>] /\ j \in Active(Compacted)
      BY <1>4
    <2>2. Compacted[j].on = s
      BY <1>2, <2>1 DEF Indexed, Active
    <2>3. /\ ds[<<Compacted[j].on, Compacted[j].dedup>>] = j
          /\ ds[<<Compacted[i].on, Compacted[i].dedup>>] = i
      BY <1>2, <1>6, <2>1 DEF Indexed
    <2> QED BY <1>6, <2>2, <2>3
  <1>8. Indexed(left, unkeyed, ss)
    BY <1>5, <1>7, KeysGo
  <1>9. /\ id \notin DOMAIN left /\ id \in Nat /\ nextNote <= id
        /\ \A i \in DOMAIN left : i \in DOMAIN notes
        /\ DOMAIN ss \subseteq DOMAIN supersedes /\ \A k \in DOMAIN ss : ss[k] = supersedes[k]
    <2>1. DOMAIN ss \subseteq DOMAIN supersedes /\ \A k \in DOMAIN ss : ss[k] = supersedes[k]
      BY DEF Unindexed, Without, Restrict, ss
    <2>2. DOMAIN left \subseteq DOMAIN notes
      BY <1>2, <1>5
    <2>3. nextNote \in Nat /\ \A i \in DOMAIN notes : i \in Nat /\ i <= nextNote
      BY DEF IndexInv, Numbered
    <2> QED BY <2>1, <2>2, <2>3
  <1>10. \A k \in DOMAIN ss : ss[k] # id /\ ss[k] \in Nat /\ ss[k] <= id
    BY <1>9 DEF IndexInv, Numbered
  <1>11. \A i \in Active(left) : <<left[i].on, left[i].dedup>> # <<n.on, n.dedup>>
    BY <1>1, <1>3, <1>5 DEF Indexed
  <1>12. n.replaces # NoKey => \A i \in Active(left) : <<left[i].on, left[i].replaces>> # <<n.on, n.replaces>>
    <2> SUFFICES ASSUME family # NoKey, NEW i \in Active(left),
                        left[i].on = s, left[i].replaces = family
                 PROVE  FALSE
      BY <1>3
    <2>1. <<s, family>> \in DOMAIN ss /\ ss[<<s, family>>] = i
      BY <1>5 DEF Indexed
    <2> QED BY <1>4, <1>6, <2>1
  <1>13. Indexed(added, Put(unkeyed, <<s, key>>, id), families)
    BY <1>3, <1>8, <1>9, <1>10, <1>11, <1>12, NoteAdded
  <1>14. Indexed(notes', Put(unkeyed, <<s, key>>, id), families)
    BY <1>1, <1>13, NotesGo
  <1>15. /\ DOMAIN added = DOMAIN left \cup {id}
         /\ DOMAIN Without(added, gone) = DOMAIN added \ gone
    BY DEF Put, Without, Restrict
  <1>16. \A i \in Active(notes') : i \notin gone /\ i \notin replaced \cup gone
    <2>1. id \notin replaced
      BY <1>2, <1>4, <1>9, <1>5 DEF Active, IndexInv, Numbered
    <2> QED BY <1>1, <1>5, <1>15, <2>1 DEF Active
  <1>17. Indexed(notes, dedups, supersedes)'
    BY <1>1, <1>14, <1>16, IndexesForget
  <1>18. Numbered'
    <2>1. \A k \in DOMAIN supersedes' : k \in DOMAIN families /\ supersedes'[k] = families[k]
      BY <1>1 DEF Unindexed, Without, Restrict
    <2>2. \A k \in DOMAIN families : families[k] = id \/ (k \in DOMAIN ss /\ families[k] = ss[k])
      BY DEF Put
    <2>3. \A i \in DOMAIN notes' : i = id \/ i \in DOMAIN notes
      BY <1>1, <1>9, <1>15
    <2>4. nextNote' = id /\ id \in Nat /\ nextNote \in Nat /\ \A i \in DOMAIN notes : i \in Nat /\ i <= id
      BY <1>1, <1>9 DEF IndexInv, Numbered
    <2> HIDE DEF id, families
    <2> QED BY <1>10, <2>1, <2>2, <2>3, <2>4 DEF Numbered
  <1> QED BY <1>17, <1>18 DEF IndexInv

\* mark_handled keeps it, whatever the note has become since it was looked up.
LEMMA MarkHandledKeeps ==
  ASSUME IndexInv, NEW i, MarkHandled(i)
  PROVE  IndexInv'
  <1> DEFINE ds == Unindexed(dedups, Stale(notes))
             ss == Unindexed(supersedes, Stale(notes))
  <1>1. Indexed(Compacted, ds, ss)
    BY RemovalKeeps DEF IndexInv, Compacted
  <1>2. /\ DOMAIN Compacted \subseteq DOMAIN notes
        /\ \A j \in DOMAIN Compacted : Compacted[j] = notes[j]
    BY DEF Compacted, Without, Restrict
  <1>3. DOMAIN ss \subseteq DOMAIN supersedes /\ \A k \in DOMAIN ss : ss[k] = supersedes[k]
    BY DEF Unindexed, Without, Restrict
  <1>4. CASE i \notin Active(Compacted)
    BY <1>1, <1>2, <1>3, <1>4 DEF MarkHandled, CompactIndexes, IndexInv, Numbered
  <1>5. CASE i \in Active(Compacted)
    <2> DEFINE n == notes[i]
               handled == [Compacted[i] EXCEPT !.status = "handled"]
    <2>1. /\ notes' = [Compacted EXCEPT ![i] = handled] /\ nextNote' = nextNote
          /\ dedups' = Without(ds, {<<n.on, n.dedup>>})
          /\ supersedes' = Without(ss, {<<n.on, n.replaces>>})
      BY <1>5 DEF MarkHandled
    <2>2. /\ Compacted[i] = n /\ i \in DOMAIN Compacted
          /\ handled.on = Compacted[i].on /\ handled.dedup = Compacted[i].dedup
          /\ handled.replaces = Compacted[i].replaces /\ handled.status # "active"
      BY <1>2, <1>5 DEF Active
    <2> HIDE DEF ds, ss, handled
    <2>3. Indexed(notes', ds, ss)
      BY <1>1, <2>1, <2>2, NoteChanges
    <2>4. /\ DOMAIN notes' = DOMAIN Compacted
          /\ \A j \in Active(notes') : j \in Active(Compacted) /\ j # i /\ notes'[j] = Compacted[j]
      BY <2>1, <2>2 DEF Active
    <2>5. \A j \in Active(notes') : <<notes'[j].on, notes'[j].dedup>> \notin {<<n.on, n.dedup>>}
      <3> SUFFICES ASSUME NEW j \in Active(notes'), <<notes'[j].on, notes'[j].dedup>> = <<n.on, n.dedup>>
                   PROVE  FALSE
        OBVIOUS
      <3>1. ds[<<Compacted[j].on, Compacted[j].dedup>>] = j /\ ds[<<Compacted[i].on, Compacted[i].dedup>>] = i
        BY <1>1, <1>5, <2>4 DEF Indexed
      <3> QED BY <2>2, <2>4, <3>1
    <2>6. \A j \in Active(notes') :
            notes'[j].replaces # NoKey => <<notes'[j].on, notes'[j].replaces>> \notin {<<n.on, n.replaces>>}
      <3> SUFFICES ASSUME NEW j \in Active(notes'), notes'[j].replaces # NoKey,
                          <<notes'[j].on, notes'[j].replaces>> = <<n.on, n.replaces>>
                   PROVE  FALSE
        OBVIOUS
      <3>1. /\ Compacted[j].replaces # NoKey /\ Compacted[i].replaces # NoKey
            /\ <<Compacted[j].on, Compacted[j].replaces>> = <<Compacted[i].on, Compacted[i].replaces>>
        BY <2>2, <2>4
      <3>2. /\ ss[<<Compacted[j].on, Compacted[j].replaces>>] = j
            /\ ss[<<Compacted[i].on, Compacted[i].replaces>>] = i
        BY <1>1, <1>5, <2>4, <3>1 DEF Indexed
      <3> QED BY <2>4, <3>1, <3>2
    <2>7. Indexed(notes', dedups', ss)
      BY <2>1, <2>3, <2>5, KeysGo
    <2>8. Indexed(notes', dedups', supersedes')
      BY <2>1, <2>6, <2>7, FamiliesGo
    <2>9. DOMAIN supersedes' \subseteq DOMAIN ss /\ \A k \in DOMAIN supersedes' : supersedes'[k] = ss[k]
      BY <2>1 DEF Without, Restrict
    <2> QED BY <1>2, <1>3, <2>1, <2>4, <2>8, <2>9 DEF IndexInv, Numbered
  <1> QED BY <1>4, <1>5

\* Every call of the buffer keeps the invariant.
LEMMA NextIndexInv == IndexInv /\ [NoteNext]_noteVars => IndexInv'
  <1> SUFFICES ASSUME IndexInv, [NoteNext]_noteVars PROVE IndexInv'
    OBVIOUS
  <1>1. ASSUME NEW gone, notes' = Without(notes, gone), nextNote' = nextNote,
               dedups' = Unindexed(dedups, gone), supersedes' = Unindexed(supersedes, gone)
        PROVE  IndexInv'
    <2>1. Indexed(notes', dedups', supersedes')
      BY <1>1, RemovalKeeps DEF IndexInv
    <2>2. DOMAIN notes' \subseteq DOMAIN notes
      BY <1>1 DEF Without, Restrict
    <2>3. DOMAIN supersedes' \subseteq DOMAIN supersedes
          /\ \A k \in DOMAIN supersedes' : supersedes'[k] = supersedes[k]
      BY <1>1 DEF Unindexed, Without, Restrict
    <2> QED BY <1>1, <2>1, <2>2, <2>3 DEF IndexInv, Numbered
  <1>2. CASE Compact
    BY <1>1, <1>2 DEF Compact, Compacted, CompactIndexes
  <1>3. ASSUME NEW s, ClearSurface(s) PROVE IndexInv'
    BY <1>1, <1>3 DEF ClearSurface
  <1>4. ASSUME NEW s, NEW k, LookUpByKey(s, k) PROVE IndexInv'
    BY <1>1, <1>4 DEF LookUpByKey, Compacted, CompactIndexes
  <1>5. ASSUME NEW s, NEW key, Coalesce(s, key) PROVE IndexInv'
    <2> DEFINE ds == Unindexed(dedups, Stale(notes))
               ss == Unindexed(supersedes, Stale(notes))
               i == ds[<<s, key>>]
               n == [Compacted[i] EXCEPT !.seen = noteClock]
    <2>1. /\ notes' = [Compacted EXCEPT ![i] = n] /\ nextNote' = nextNote
          /\ dedups' = ds /\ supersedes' = ss
      BY <1>5 DEF Coalesce, CompactIndexes
    <2>2. Indexed(Compacted, ds, ss)
      BY RemovalKeeps DEF IndexInv, Compacted
    <2>3. /\ n.on = Compacted[i].on /\ n.dedup = Compacted[i].dedup
          /\ n.replaces = Compacted[i].replaces /\ n.status = Compacted[i].status
      OBVIOUS
    <2>4. DOMAIN Compacted \subseteq DOMAIN notes
      BY DEF Compacted, Without, Restrict
    <2>5. DOMAIN ss \subseteq DOMAIN supersedes /\ \A k \in DOMAIN ss : ss[k] = supersedes[k]
      BY DEF Unindexed, Without, Restrict
    <2> HIDE DEF ds, ss, i, n
    <2>6. Indexed(notes', ds, ss)
      BY <2>1, <2>2, <2>3, NoteChanges
    <2>7. DOMAIN notes' = DOMAIN Compacted
      BY <2>1
    <2> QED BY <2>1, <2>4, <2>5, <2>6, <2>7 DEF IndexInv, Numbered
  <1>6. CASE NoteTick \/ UNCHANGED noteVars
    BY <1>6 DEF NoteTick, noteVars, IndexInv, Indexed, Numbered, Active
  <1>7. CASE HandleLookedUp
    BY <1>7, MarkHandledKeeps DEF HandleLookedUp
  <1>8. ASSUME NEW i, HandleNote(i) PROVE IndexInv'
    BY <1>8, MarkHandledKeeps DEF HandleNote
  <1> QED BY <1>2, <1>3, <1>4, <1>5, <1>6, <1>7, <1>8, AdmitNewKeeps DEF NoteNext, AdmitNote

\* An active note is found under its key, and no other active note of its environment
\* supersedes the same family, after any admissions, expiries and evictions
\* (awareness.py).
THEOREM NotesKeepTheirKeys == NoteSpec => []OneNotePerKey
  <1>1. NoteInit => IndexInv
    BY AwarenessAssumption DEF NoteInit, Empty, IndexInv, Indexed, Numbered, Active
  <1>2. IndexInv => OneNotePerKey
    <2> SUFFICES ASSUME IndexInv, NEW i \in Active(notes)
                 PROVE  /\ <<notes[i].on, notes[i].dedup>> \in DOMAIN dedups
                        /\ dedups[<<notes[i].on, notes[i].dedup>>] = i
                        /\ notes[i].replaces # NoKey =>
                             \A j \in ActiveOn(notes, notes[i].on) :
                               notes[j].replaces = notes[i].replaces => j = i
      BY DEF OneNotePerKey
    <2>1. /\ <<notes[i].on, notes[i].dedup>> \in DOMAIN dedups
          /\ dedups[<<notes[i].on, notes[i].dedup>>] = i
          /\ notes[i].replaces # NoKey => supersedes[<<notes[i].on, notes[i].replaces>>] = i
      BY DEF IndexInv, Indexed
    <2>2. ASSUME NEW j \in ActiveOn(notes, notes[i].on), notes[j].replaces = notes[i].replaces,
                 notes[i].replaces # NoKey
          PROVE  j = i
      <3>1. supersedes[<<notes[j].on, notes[j].replaces>>] = j /\ notes[j].on = notes[i].on
        BY <2>2 DEF IndexInv, Indexed, ActiveOn
      <3> QED BY <2>1, <2>2, <3>1
    <2> QED BY <2>1, <2>2
  <1> QED BY <1>1, <1>2, NextIndexInv, PTL DEF NoteSpec

-----------------------------------------------------------------------------
(* The presence loop. *)

Excluded == {u \in UserTurns : userTurn[u] \in Excluding}

\* The exclusions are counted, and there is an end to counting them.
ExclusionInv ==
  /\ userTurn \in [UserTurns -> Excluding \cup {"new", "refused", "done"}]
  /\ IsFiniteSet(Excluded) /\ ExclusionBalanced

\* A turn that goes from one excluding stage to another leaves the count alone.
LEMMA StillExcluded ==
  ASSUME ExclusionInv, NEW u \in UserTurns, NEW to \in Excluding, userTurn[u] \in Excluding,
         userTurn' = [userTurn EXCEPT ![u] = to], blocks' = blocks
  PROVE  ExclusionInv'
  <1>1. Excluded' = Excluded
    BY DEF Excluded, ExclusionInv
  <1>2. userTurn' \in [UserTurns -> Excluding \cup {"new", "refused", "done"}]
    BY DEF ExclusionInv
  <1> QED BY <1>1, <1>2 DEF ExclusionInv, ExclusionBalanced, Excluded

\* end_actor_user gives one back.
LEMMA OneReleased ==
  ASSUME ExclusionInv, NEW u \in UserTurns, NEW to \in {"refused", "done"}, userTurn[u] \in Excluding,
         Releases(u, to)
  PROVE  ExclusionInv'
  <1>1. Excluded' = Excluded \ {u} /\ u \in Excluded
    BY DEF Excluded, ExclusionInv, Releases, Excluding
  <1>2. userTurn' \in [UserTurns -> Excluding \cup {"new", "refused", "done"}]
    BY DEF ExclusionInv, Releases
  <1>3. IsFiniteSet(Excluded') /\ Cardinality(Excluded') = Cardinality(Excluded) - 1
    BY <1>1, FS_RemoveElement DEF ExclusionInv
  <1>4. Cardinality(Excluded) \in Nat /\ blocks = Cardinality(Excluded) /\ Cardinality(Excluded') \in Nat
    BY <1>3, FS_CardinalityType DEF ExclusionInv, ExclusionBalanced, Excluded
  <1>5. blocks' = Cardinality(Excluded')
    BY <1>3, <1>4 DEF Releases
  <1> QED BY <1>2, <1>3, <1>5 DEF ExclusionInv, ExclusionBalanced, Excluded

\* Every step of the presence loop and of the turns keeps the count: what a turn takes
\* it gives back once, whether it is accepted, refused or settles.
LEMMA NextExclusionInv == ExclusionInv /\ [PresenceNext]_presenceVars => ExclusionInv'
  <1> SUFFICES ASSUME ExclusionInv, [PresenceNext]_presenceVars PROVE ExclusionInv'
    OBVIOUS
  <1>1. CASE UNCHANGED turnState
    BY <1>1 DEF turnState, ExclusionInv, Excluded, ExclusionBalanced
  <1>2. ASSUME NEW u \in UserTurns, TurnExcludes(u) PROVE ExclusionInv'
    <2>1. Excluded' = Excluded \cup {u} /\ u \notin Excluded
      BY <1>2 DEF Excluded, ExclusionInv, TurnExcludes, Excluding
    <2>2. userTurn' \in [UserTurns -> Excluding \cup {"new", "refused", "done"}]
      BY <1>2 DEF ExclusionInv, TurnExcludes, Excluding
    <2>3. IsFiniteSet(Excluded') /\ Cardinality(Excluded') = Cardinality(Excluded) + 1
      BY <2>1, FS_AddElement DEF ExclusionInv
    <2>4. blocks' = Cardinality(Excluded')
      BY <1>2, <2>3 DEF TurnExcludes, ExclusionInv, ExclusionBalanced, Excluded
    <2> QED BY <2>2, <2>3, <2>4 DEF ExclusionInv, ExclusionBalanced, Excluded
  <1>3. ASSUME NEW u \in UserTurns, TurnStep(u) PROVE ExclusionInv'
    <2>1. CASE TurnAccepted(u) \/ QueuesAppraisal(u) \/ TurnSettles(u)
      BY <2>1, StillExcluded DEF TurnAccepted, QueuesAppraisal, TurnSettles, Excluding
    <2>2. CASE TurnRefused(u) \/ TurnReleased(u)
      BY <2>2, OneReleased DEF TurnRefused, TurnReleased, Excluding
    <2> QED BY <1>3, <2>1, <2>2 DEF TurnStep
  <1>4. CASE PresenceNext /\ ~\E u \in UserTurns : TurnExcludes(u) \/ TurnStep(u)
    BY <1>1, <1>4 DEF PresenceNext, PresenceStarts, LoopStep, DeadlineFires, Declines, Decides,
       IdleAdmitted,
       IdleRefused, LoopEnds, LoopWaits, KernelCloses, PresenceStops, StopStepP, LoopJoined,
       InternalJoined,
       TimePasses, InternalSettles
  <1> QED BY <1>1, <1>2, <1>3, <1>4 DEF presenceVars, turnState

\* The internal thoughts are excluded exactly while a user turn is under way: no
\* interleaving of turns, refusals and closing leaves the count above what is running,
\* or lets it fall below (presence.py).
THEOREM ExclusionsAreGivenBack == PresenceSpec => []ExclusionBalanced
  <1>1. PresenceInit => ExclusionInv
    <2> SUFFICES ASSUME PresenceInit PROVE ExclusionInv
      OBVIOUS
    <2>1. Excluded = {}
      BY DEF PresenceInit, Excluded, Excluding
    <2> QED BY <2>1, FS_EmptySet DEF PresenceInit, ExclusionInv, ExclusionBalanced, Excluded
  <1>2. ExclusionInv => ExclusionBalanced
    BY DEF ExclusionInv
  <1> QED BY <1>1, <1>2, NextExclusionInv, PTL DEF PresenceSpec

-----------------------------------------------------------------------------
(* The presenter of replies. *)

Texts == [n : Nat, tail : Tails \cup {"nothing"}]
Fragments(d) == d.n + (IF d.tail = "plain" THEN 0 ELSE 1)
Count(d) == Len(Chunks(d))

\* A text has as many messages as its fragments fill.
LEMMA ChunksAre ==
  ASSUME NEW d \in Texts
  PROVE  /\ Fragments(d) \in Nat /\ Count(d) \in Nat
         /\ Count(d) = (Fragments(d) + ChunkSize - 1) \div ChunkSize
         /\ DOMAIN Chunks(d) = 1..Count(d) /\ Chunks(d) \in Seq(Texts)
  <1> DEFINE count == (Fragments(d) + ChunkSize - 1) \div ChunkSize
  <1>1. Fragments(d) \in Nat /\ ChunkSize \in Nat /\ ChunkSize >= 1
    BY PresenterAssumption DEF Texts, Fragments
  <1>2. count \in Nat
    BY <1>1
  <1>3. Chunks(d) = [i \in 1..count |->
           Display(IF i * ChunkSize < d.n THEN i * ChunkSize ELSE d.n, IF i = count THEN d.tail ELSE "plain")]
    BY DEF Chunks, Fragments
  <1>4. \A i \in 1..count : i * ChunkSize \in Nat
    BY <1>1, <1>2
  <1> HIDE DEF count
  <1>5. Chunks(d) \in [1..count -> Texts]
    BY <1>2, <1>3, <1>4 DEF Texts, Display, Tails
  <1>6. Chunks(d) \in Seq(Texts) /\ Len(Chunks(d)) = count
    BY <1>2, <1>5
  <1> QED BY <1>1, <1>2, <1>5, <1>6 DEF Count, count

\* A longer text has no fewer messages.
LEMMA LongerIsNotShorter ==
  ASSUME NEW d \in Texts, NEW e \in Texts, Fragments(d) <= Fragments(e)
  PROVE  Count(d) <= Count(e)
  <1> DEFINE a == Fragments(d) + ChunkSize - 1
             b == Fragments(e) + ChunkSize - 1
  <1>1. a \in Nat /\ b \in Nat /\ a <= b /\ ChunkSize \in Nat /\ ChunkSize >= 1
    <2>1. Fragments(d) \in Nat /\ Fragments(e) \in Nat
      BY ChunksAre
    <2> QED BY <2>1, PresenterAssumption
  <1>2. a \div ChunkSize <= b \div ChunkSize
    <2> HIDE DEF a, b
    <2> QED BY <1>1
  <1>3. Count(d) = a \div ChunkSize /\ Count(e) = b \div ChunkSize
    BY ChunksAre
  <1> QED BY <1>2, <1>3

-----------------------------------------------------------------------------
PresenterTyped ==
  /\ semantic \in BOOLEAN /\ text \in Nat /\ visible \in Nat
  /\ terminal \in Texts /\ channel \in Seq(Texts) /\ published \in Seq(Texts)
  /\ goal \in [what : Texts, raw : Nat, forced : BOOLEAN, done : Nat]

Begins == Display(text, "plain")

\* What the edge is doing says whether the last text is known, and that text is not shorter
\* than what a pump without semantic streaming has shown.
ReplyInv ==
  /\ reply = "open" => pump = "absent" /\ channel = <<>> /\ published = <<>>
  /\ reply \in {"open", "streaming"} => terminal = Nothing
  /\ reply = "answered" => pump = "finished"
  /\ ~semantic /\ terminal # Nothing => text <= Fragments(terminal)

\* While it publishes, the channel begins with the messages that are done, and still shows
\* the published ones behind them.
PublishingInv ==
  pump = "publishing" =>
    /\ goal.done <= Count(goal.what) /\ goal.done <= Len(channel)
    /\ \A i \in 1..goal.done : channel[i] = Chunks(goal.what)[i]
    /\ \A i \in (goal.done + 1)..Count(goal.what) :
         i <= Len(published) => i <= Len(channel) /\ channel[i] = published[i]
    /\ ~semantic => Len(channel) <= Count(goal.what)
    /\ IF goal.forced THEN goal.what = terminal /\ terminal # Nothing
                      ELSE ~semantic => Fragments(goal.what) <= text

\* Between two publications the channel shows what was published, and without semantic
\* streaming not more messages than the text has.
RestingInv ==
  /\ pump \in {"turning", "resting", "timed", "lookahead"} =>
       channel = published /\ (~semantic => Len(channel) <= Count(Begins))
  /\ pump = "lookahead" => semantic

\* A pump that returned has shown the last text.
FinishedInv == pump = "finished" => channel = Chunks(terminal) /\ terminal # Nothing

PresenterInv == PresenterTyped /\ ReplyInv /\ PublishingInv /\ RestingInv /\ FinishedInv

\* What the presenter starts from is a text.
LEMMA BeginsIsText ==
  ASSUME text \in Nat
  PROVE  Begins \in Texts /\ Fragments(Begins) = text
  BY DEF Begins, Texts, Display, Fragments, Tails

\* A publication that starts from what was published.
LEMMA PublishesKeeps ==
  ASSUME PresenterInv, pump \in {"turning", "lookahead"},
         NEW d \in Texts, NEW raw \in Nat, NEW forced \in BOOLEAN, Publishes(d, raw, forced),
         IF forced THEN d = terminal /\ terminal # Nothing ELSE semantic \/ d = Begins,
         UNCHANGED <<semantic, text, terminal, published, channel, visible, reply>>
  PROVE  PresenterInv'
  <1>1. /\ goal' = [what |-> d, raw |-> raw, forced |-> forced, done |-> 0]
        /\ pump' \in {"turning", "publishing"}
    BY DEF Publishes, Job
  <1>2. PresenterTyped' /\ ReplyInv' /\ FinishedInv'
    BY <1>1 DEF PresenterInv, PresenterTyped, ReplyInv, FinishedInv, Fragments
  <1>3. /\ channel = published /\ channel \in Seq(Texts) /\ Len(channel) \in Nat
        /\ ~semantic => Len(channel) <= Count(Begins)
    BY DEF PresenterInv, RestingInv, PresenterTyped
  <1>4. RestingInv'
    BY <1>1, <1>3 DEF RestingInv, Count, Begins
  <1>5. Count(d) \in Nat /\ Fragments(d) \in Nat /\ Begins \in Texts /\ Fragments(Begins) = text
    BY ChunksAre, BeginsIsText DEF PresenterInv, PresenterTyped
  <1>6. ~semantic => Len(channel) <= Count(d)
    <2>1. CASE semantic \/ d = Begins
      BY <1>3, <2>1
    <2>2. CASE ~semantic /\ d = terminal /\ terminal # Nothing
      <3>1. text <= Fragments(terminal)
        BY <2>2 DEF PresenterInv, ReplyInv
      <3>2. Count(Begins) <= Count(d)
        BY <1>5, <2>2, <3>1, LongerIsNotShorter
      <3>3. Count(Begins) \in Nat
        BY <1>5, ChunksAre
      <3> QED BY <1>3, <1>5, <3>2, <3>3
    <2> QED BY <2>1, <2>2
  <1>7. PublishingInv'
    <2> SUFFICES ASSUME pump' = "publishing" PROVE PublishingInv'
      BY DEF PublishingInv
    <2>1. /\ 0 <= Count(d) /\ 0 <= Len(channel)
          /\ 1..0 = {} /\ \A i \in 1..Count(d) : i <= Len(published) => i <= Len(channel) /\ channel[i] = published[i]
      BY <1>3, <1>5
    <2>2. goal'.what = d /\ goal'.done = 0 /\ goal'.forced = forced
      BY <1>1
    <2>3. IF forced THEN d = terminal /\ terminal # Nothing ELSE ~semantic => Fragments(d) <= text
      BY <1>5 DEF PresenterInv, PresenterTyped
    <2> QED BY <1>6, <2>1, <2>2, <2>3 DEF PublishingInv, Count, Fragments
  <1> QED BY <1>2, <1>4, <1>7 DEF PresenterInv

\* A step that moves neither the pump's publication nor the last text.
LEMMA PumpStaysKeeps ==
  ASSUME PresenterInv, UNCHANGED <<semantic, text, terminal, published, channel, visible, goal, reply>>,
         \/ pump' = pump
         \/ pump \in {"turning", "resting", "timed", "lookahead"} /\ pump' \in {"turning", "resting", "timed"}
         \/ pump = "turning" /\ pump' = "lookahead" /\ semantic
         \/ pump = "publishing" /\ pump' = "failed"
  PROVE  PresenterInv'
  <1>1. PresenterTyped' /\ ReplyInv' /\ FinishedInv'
    BY DEF PresenterInv, PresenterTyped, ReplyInv, FinishedInv, Fragments
  <1>2. PublishingInv' /\ RestingInv'
    BY DEF PresenterInv, PublishingInv, RestingInv, Begins, Count, Fragments
  <1> QED BY <1>1, <1>2 DEF PresenterInv

\* A request that was answered has put the next message where it belongs.
LEMMA RequestAnsweredKeeps ==
  ASSUME PresenterInv, RequestAnswered
  PROVE  PresenterInv'
  <1> DEFINE chunks == Chunks(goal.what)
             count == Count(goal.what)
             i == goal.done + 1
  <1>1. /\ pump = "publishing" /\ ~Reconciled
        /\ IF AsPublished(i) THEN UNCHANGED channel ELSE Requested(i)
        /\ goal' = IF i <= count THEN [goal EXCEPT !.done = i] ELSE goal
        /\ UNCHANGED <<semantic, text, terminal, published, visible, attempted, pump, observed,
                       intervalOver, pumpWake, reply>>
    BY DEF RequestAnswered, Count
  <1>2. /\ count \in Nat /\ chunks \in Seq(Texts) /\ DOMAIN chunks = 1..count
        /\ goal.done \in Nat /\ channel \in Seq(Texts) /\ published \in Seq(Texts)
        /\ Len(channel) \in Nat /\ Len(published) \in Nat /\ DOMAIN published = 1..Len(published)
    BY ChunksAre DEF PresenterInv, PresenterTyped
  <1>3. /\ goal.done <= count /\ goal.done <= Len(channel)
        /\ \A j \in 1..goal.done : channel[j] = chunks[j]
        /\ \A j \in i..count : j <= Len(published) => j <= Len(channel) /\ channel[j] = published[j]
        /\ ~semantic => Len(channel) <= count
        /\ IF goal.forced THEN goal.what = terminal /\ terminal # Nothing
                          ELSE ~semantic => Fragments(goal.what) <= text
    BY <1>1 DEF PresenterInv, PublishingInv
  <1>4. i <= count \/ (i = count + 1 /\ semantic /\ Len(channel) > count)
    BY <1>1, <1>2, <1>3 DEF Reconciled, Count
  <1>5. goal'.what = goal.what /\ goal'.forced = goal.forced /\ goal'.raw = goal.raw
        /\ goal'.done = (IF i <= count THEN i ELSE goal.done)
        /\ goal' \in [what : Texts, raw : Nat, forced : BOOLEAN, done : Nat]
    <2>1. goal \in [what : Texts, raw : Nat, forced : BOOLEAN, done : Nat] /\ i \in Nat
      BY <1>2 DEF PresenterInv, PresenterTyped
    <2> HIDE DEF i, count
    <2> QED BY <1>1, <2>1
  <1> HIDE DEF chunks, count
  <1>6. /\ channel' \in Seq(Texts)
        /\ goal'.done <= Len(channel')
        /\ \A j \in 1..goal'.done : channel'[j] = chunks[j]
        /\ \A j \in (goal'.done + 1)..count : j <= Len(published) => j <= Len(channel') /\ channel'[j] = published[j]
        /\ ~semantic => Len(channel') <= count
    <2>1. CASE i <= count /\ AsPublished(i)
      <3>1. i <= Len(channel) /\ channel[i] = chunks[i]
        BY <1>2, <1>3, <2>1 DEF AsPublished, chunks
      <3> QED BY <1>1, <1>2, <1>3, <1>5, <2>1, <3>1
    <2>2. CASE i <= count /\ ~AsPublished(i) /\ i > Len(channel)
      <3>1. channel' = Append(channel, chunks[i]) /\ chunks[i] \in Texts /\ Len(channel) = goal.done
        BY <1>1, <1>2, <1>3, <2>2 DEF Requested, chunks, count, Count
      <3>2. /\ channel' \in Seq(Texts) /\ Len(channel') = i /\ channel'[i] = chunks[i]
            /\ \A j \in 1..goal.done : channel'[j] = channel[j]
        BY <1>2, <3>1
      <3> QED BY <1>2, <1>3, <1>5, <2>2, <3>1, <3>2
    <2>3. CASE i <= count /\ ~AsPublished(i) /\ i <= Len(channel)
      <3>1. channel' = [channel EXCEPT ![i] = chunks[i]] /\ chunks[i] \in Texts
        BY <1>1, <1>2, <1>3, <2>3 DEF Requested, chunks, count, Count
      <3>2. /\ channel' \in Seq(Texts) /\ Len(channel') = Len(channel) /\ channel'[i] = chunks[i]
            /\ \A j \in 1..Len(channel) : j # i => channel'[j] = channel[j]
        BY <1>2, <2>3, <3>1
      <3>3. goal'.done = i /\ i \in Nat /\ i \in 1..Len(channel) /\ (~semantic => Len(channel') <= count)
        BY <1>2, <1>3, <1>5, <2>3, <3>2
      <3>4. ASSUME NEW j \in 1..i PROVE channel'[j] = chunks[j]
        <4>1. CASE j = i BY <3>2, <4>1
        <4>2. CASE j # i
          <5>1. j \in 1..goal.done /\ j \in 1..Len(channel)
            BY <1>2, <2>3, <3>3, <4>2
          <5> QED BY <1>3, <3>2, <4>2, <5>1
        <4> QED BY <4>1, <4>2
      <3>5. ASSUME NEW j \in (i + 1)..count, j <= Len(published)
            PROVE  j <= Len(channel') /\ channel'[j] = published[j]
        <4>1. j \in i..count /\ j # i /\ j \in Nat /\ j >= 1
          BY <1>2, <3>3
        <4>2. j <= Len(channel) /\ channel[j] = published[j]
          BY <1>3, <3>5, <4>1
        <4> QED BY <3>2, <4>1, <4>2
      <3> QED BY <3>2, <3>3, <3>4, <3>5
    <2>4. CASE i = count + 1 /\ semantic /\ Len(channel) > count
      <3>1. channel' = RemoveAt(channel, count + 1)
        BY <1>1, <1>2, <2>4 DEF Requested, AsPublished, chunks, count, Count
      <3>2. /\ channel' \in Seq(Texts) /\ Len(channel') = Len(channel) - 1
            /\ \A j \in 1..count : channel'[j] = channel[j]
        <4>1. count + 1 \in 1..Len(channel)
          BY <1>2, <2>4
        <4>2. \A j \in 1..count : j \in 1..(Len(channel) - 1) /\ j < count + 1
          BY <1>2, <2>4
        <4>3. /\ RemoveAt(channel, count + 1) \in Seq(Texts)
              /\ Len(RemoveAt(channel, count + 1)) = Len(channel) - 1
              /\ \A j \in 1..(Len(channel) - 1) :
                   RemoveAt(channel, count + 1)[j] = IF j < count + 1 THEN channel[j] ELSE channel[j + 1]
          BY <1>2, <4>1, RemovedAt
        <4> QED BY <3>1, <4>2, <4>3
      <3> QED BY <1>2, <1>3, <1>5, <2>4, <3>2
    <2> QED BY <1>2, <1>4, <2>1, <2>2, <2>3, <2>4
  <1>7. PresenterTyped' /\ ReplyInv' /\ FinishedInv' /\ RestingInv'
    BY <1>1, <1>5, <1>6 DEF PresenterInv, PresenterTyped, ReplyInv, FinishedInv, RestingInv,
       Fragments
  <1>8. goal'.done <= count
    BY <1>3, <1>5
  <1>9. PublishingInv'
    BY <1>1, <1>3, <1>5, <1>6, <1>8 DEF PublishingInv, chunks, count, Count, Fragments
  <1> QED BY <1>7, <1>9 DEF PresenterInv

\* A publication that ends shows what it published, and nothing behind it.
LEMMA PublishingEndsKeeps ==
  ASSUME PresenterInv, PublishingEnds
  PROVE  PresenterInv'
  <1> DEFINE chunks == Chunks(goal.what)
             count == Count(goal.what)
  <1>1. /\ pump = "publishing" /\ goal.done = count /\ (semantic => Len(channel) <= count)
        /\ published' = chunks
        /\ UNCHANGED <<semantic, text, terminal, channel, goal, reply>>
        /\ IF goal.forced THEN pump' = "finished" /\ visible' = visible
           ELSE pump' = "turning" /\ visible' \in {visible, goal.what.n}
    BY DEF PublishingEnds, Reconciled, Count
  <1>2. /\ count \in Nat /\ chunks \in Seq(Texts) /\ Len(chunks) = count
        /\ channel \in Seq(Texts) /\ Len(channel) \in Nat /\ semantic \in BOOLEAN
        /\ goal.what \in Texts /\ goal.forced \in BOOLEAN
    BY ChunksAre DEF PresenterInv, PresenterTyped, Count
  <1>3. /\ count <= Len(channel) /\ \A j \in 1..count : channel[j] = chunks[j]
        /\ ~semantic => Len(channel) <= count
        /\ IF goal.forced THEN goal.what = terminal /\ terminal # Nothing
                          ELSE ~semantic => Fragments(goal.what) <= text
    BY <1>1 DEF PresenterInv, PublishingInv
  <1>4. channel = chunks
    <2> HIDE DEF chunks, count
    <2>1. Len(channel) = count
      BY <1>1, <1>2, <1>3
    <2> QED BY <1>2, <1>3, <2>1
  <1>5. ~semantic /\ ~goal.forced => Len(channel) <= Count(Begins)
    <2>1. Begins \in Texts /\ Fragments(Begins) = text
      BY BeginsIsText DEF PresenterInv, PresenterTyped
    <2> QED BY <1>2, <1>3, <1>4, <2>1, LongerIsNotShorter
  <1>6. PresenterTyped'
    BY <1>1, <1>2 DEF PresenterInv, PresenterTyped, Texts
  <1>7. ReplyInv'
    BY <1>1 DEF PresenterInv, ReplyInv, Fragments
  <1>8. PublishingInv' /\ RestingInv' /\ FinishedInv'
    BY <1>1, <1>3, <1>4, <1>5 DEF PublishingInv, RestingInv, FinishedInv, Count, Begins
  <1> QED BY <1>6, <1>7, <1>8 DEF PresenterInv

\* Every step of the edge's handlers and of the pump keeps the invariant.
LEMMA NextPresenterInv == PresenterInv /\ [PresenterNext]_presenterVars => PresenterInv'
  <1> SUFFICES ASSUME PresenterInv, [PresenterNext]_presenterVars PROVE PresenterInv'
    OBVIOUS
  <1>0. /\ text \in Nat /\ visible \in Nat /\ terminal \in Texts /\ semantic \in BOOLEAN
    BY DEF PresenterInv, PresenterTyped
  <1>1. CASE Bind
    <2>1. pump' = "turning" /\ reply' = "streaming" /\ reply = "open"
          /\ UNCHANGED <<semantic, text, terminal, published, channel, visible, goal>>
      BY <1>1 DEF Bind, shownVars
    <2>2. channel = <<>> /\ published = <<>> /\ terminal = Nothing /\ Len(<<>>) = 0
      BY <2>1 DEF PresenterInv, ReplyInv
    <2>3. Count(Begins) \in Nat
      BY <1>0, BeginsIsText, ChunksAre
    <2>4. RestingInv'
      BY <2>1, <2>2, <2>3 DEF RestingInv, Begins, Count
    <2>5. PresenterTyped' /\ ReplyInv' /\ PublishingInv' /\ FinishedInv'
      BY <2>1, <2>2 DEF PresenterInv, PresenterTyped, ReplyInv, PublishingInv, FinishedInv
    <2> QED BY <2>4, <2>5 DEF PresenterInv
  <1>2. CASE AppendDelta
    <2>1. /\ reply = "streaming" /\ text' = text + 1 /\ pump' = pump
          /\ UNCHANGED <<semantic, terminal, published, channel, visible, goal, reply>>
      BY <1>2 DEF AppendDelta, shownVars
    <2>2. terminal = Nothing
      BY <2>1 DEF PresenterInv, ReplyInv
    <2>3. Begins \in Texts /\ Begins' \in Texts /\ Fragments(Begins) = text /\ Fragments(Begins') = text + 1
      BY <1>0, <2>1 DEF Begins, Texts, Display, Fragments, Tails
    <2>4. Count(Begins) <= Count(Begins') /\ Count(Begins) \in Nat /\ Count(Begins') \in Nat
      <3>1. Fragments(Begins) <= Fragments(Begins')
        BY <1>0, <2>3
      <3>2. Count(Begins) \in Nat /\ Count(Begins') \in Nat
        BY <2>3, ChunksAre
      <3> QED BY <2>3, <3>1, <3>2, LongerIsNotShorter
    <2>5. Len(channel) \in Nat /\ (goal.what \in Texts => Fragments(goal.what) \in Nat)
      BY ChunksAre DEF PresenterInv, PresenterTyped
    <2>6. RestingInv'
      BY <2>1, <2>4, <2>5 DEF PresenterInv, RestingInv, Count
    <2>7. PublishingInv'
      BY <1>0, <2>1, <2>5 DEF PresenterInv, PresenterTyped, PublishingInv, Count, Fragments
    <2>8. PresenterTyped' /\ ReplyInv' /\ FinishedInv'
      BY <1>0, <2>1, <2>2 DEF PresenterInv, PresenterTyped, ReplyInv, FinishedInv
    <2> QED BY <2>6, <2>7, <2>8 DEF PresenterInv
  <1>3. CASE Finalize
    <2>1. PICK marked \in BOOLEAN : AcceptsText(marked) /\ terminal' = LastText(marked)
      BY <1>3 DEF Finalize, FinalizeWith
    <2>2. /\ reply = "streaming" /\ terminal = Nothing /\ reply' = "finalizing" /\ pump' = pump
          /\ UNCHANGED <<semantic, text, published, channel, visible, goal>>
      BY <1>3 DEF Finalize, FinalizeWith, shownVars
    <2>3. /\ terminal' \in Texts /\ terminal' # Nothing
          /\ ~semantic => text <= Fragments(terminal')
      BY <1>0, <2>1 DEF LastText, AcceptsText, Texts, Display, Tails, Nothing, Fragments
    <2>4. PresenterTyped' /\ ReplyInv' /\ RestingInv' /\ FinishedInv'
      BY <2>2, <2>3 DEF PresenterInv, PresenterTyped, ReplyInv, RestingInv, FinishedInv, Begins,
         Count, Fragments
    <2>5. PublishingInv'
      BY <2>2 DEF PresenterInv, PublishingInv, Count, Fragments
    <2> QED BY <2>4, <2>5 DEF PresenterInv
  <1>4. CASE FinalizeReturns \/ Cleaned
    <2>1. /\ UNCHANGED <<semantic, text, terminal, published, channel, visible, goal, pump>>
          /\ \/ reply' = "answered" /\ pump = "finished"
             \/ reply' = "aborted"
      BY <1>4 DEF FinalizeReturns, Cleaned, shownVars
    <2>2. PresenterTyped' /\ ReplyInv' /\ RestingInv' /\ FinishedInv'
      BY <2>1 DEF PresenterInv, PresenterTyped, ReplyInv, RestingInv, FinishedInv, Begins, Count,
         Fragments
    <2>3. PublishingInv'
      BY <2>1 DEF PresenterInv, PublishingInv, Count, Fragments
    <2> QED BY <2>2, <2>3 DEF PresenterInv
  <1>5. CASE Aborts
    <2>1. /\ reply' = "cleaning" /\ CancelsPump
          /\ UNCHANGED channel \/ (pump = "publishing" /\ ~Reconciled /\ Requested(goal.done + 1))
          /\ UNCHANGED <<semantic, text, terminal, published, visible, goal>>
      BY <1>5 DEF Aborts
    <2>2. pump' \notin {"publishing", "turning", "resting", "timed", "lookahead"}
          /\ (pump' = "finished" => pump = "finished")
      BY <2>1 DEF CancelsPump, PumpAlive
    <2>3. channel' \in Seq(Texts)
      <3>1. CASE UNCHANGED channel
        BY <3>1 DEF PresenterInv, PresenterTyped
      <3>2. CASE ~UNCHANGED channel
        <4>1. pump = "publishing" /\ ~Reconciled /\ Requested(goal.done + 1)
          BY <2>1, <3>2
        <4>2. /\ goal.what \in Texts /\ channel \in Seq(Texts) /\ goal.done \in Nat
              /\ Chunks(goal.what) \in Seq(Texts) /\ Count(goal.what) \in Nat
              /\ DOMAIN Chunks(goal.what) = 1..Count(goal.what)
              /\ goal.done <= Count(goal.what) /\ goal.done <= Len(channel) /\ Len(channel) \in Nat
          BY <4>1, ChunksAre DEF PresenterInv, PresenterTyped, PublishingInv
        <4>3. CASE goal.done + 1 > Count(goal.what)
          <5>1. channel' = RemoveAt(channel, Count(goal.what) + 1)
            BY <4>1, <4>3 DEF Requested, Count
          <5>2. Len(channel) > Count(goal.what)
            BY <4>1, <4>2, <4>3 DEF Reconciled, Count
          <5>3. Count(goal.what) + 1 \in 1..Len(channel)
            BY <4>2, <5>2
          <5> QED BY <4>2, <5>1, <5>3, RemovedAt
        <4>4. CASE goal.done + 1 <= Count(goal.what)
          <5>1. Chunks(goal.what)[goal.done + 1] \in Texts
            BY <4>2, <4>4
          <5>2. \/ channel' = Append(channel, Chunks(goal.what)[goal.done + 1])
                \/ /\ goal.done + 1 <= Len(channel)
                   /\ channel' = [channel EXCEPT ![goal.done + 1] = Chunks(goal.what)[goal.done + 1]]
            BY <4>1, <4>2, <4>4 DEF Requested, Count
          <5>3. Append(channel, Chunks(goal.what)[goal.done + 1]) \in Seq(Texts)
            BY <4>2, <5>1
          <5>4. goal.done + 1 <= Len(channel) =>
                  [channel EXCEPT ![goal.done + 1] = Chunks(goal.what)[goal.done + 1]] \in Seq(Texts)
            <6> DEFINE c == Chunks(goal.what)[goal.done + 1]
                       j == goal.done + 1
            <6>1. c \in Texts /\ j \in Nat /\ 1 <= j
              BY <4>2, <5>1
            <6> HIDE DEF c, j
            <6>2. j <= Len(channel) => [channel EXCEPT ![j] = c] \in Seq(Texts)
              BY <4>2, <6>1, ExceptSeq
            <6> QED BY <6>2 DEF c, j
          <5> QED BY <5>2, <5>3, <5>4
        <4> QED BY <4>2, <4>3, <4>4
      <3> QED BY <3>1, <3>2
    <2>4. channel' = channel \/ pump' # "finished"
      BY <2>1, <2>2
    <2> QED BY <2>1, <2>2, <2>3, <2>4 DEF PresenterInv, PresenterTyped, ReplyInv, PublishingInv,
               RestingInv, FinishedInv, Fragments
  <1>6. CASE PumpTurns
    <2>1. pump = "turning" /\ UNCHANGED <<semantic, text, terminal, published, channel, visible, reply>>
      BY <1>6 DEF PumpTurns
    <2>2. CASE terminal # Nothing
      <3>1. Publishes(terminal, text, TRUE)
        BY <1>6, <2>2 DEF PumpTurns
      <3> QED BY <1>0, <2>1, <2>2, <3>1, PublishesKeeps
    <2>3. CASE terminal = Nothing /\ Ready /\ semantic
      <3>1. FlushSemantic
        BY <1>6, <2>3 DEF PumpTurns
      <3>2. ASSUME NEW m \in Nat, NEW tail \in {"plain", "repair"}, Publishes(Display(m, tail), text, FALSE)
            PROVE  PresenterInv'
        <4>1. Display(m, tail) \in Texts
          BY DEF Display, Texts, Tails
        <4> QED BY <1>0, <2>1, <2>3, <3>2, <4>1, PublishesKeeps
      <3>3. CASE published = <<>> /\ Previews(text)
        BY <1>0, <3>2, <3>3 DEF Previews
      <3>4. CASE \E m \in (visible + 1)..text : Previews(m)
        <4>1. PICK m \in (visible + 1)..text : Previews(m)
          BY <3>4
        <4>2. m \in Nat
          BY <1>0
        <4> QED BY <3>2, <4>1, <4>2 DEF Previews
      <3>5. CASE pump' = "lookahead" /\ UNCHANGED goal
        BY <2>1, <2>3, <3>5, PumpStaysKeeps
      <3> QED BY <3>1, <3>3, <3>4, <3>5 DEF FlushSemantic
    <2>4. CASE terminal = Nothing /\ Ready /\ ~semantic
      <3>1. Publishes(Begins, text, FALSE)
        BY <1>6, <2>4 DEF PumpTurns, Begins
      <3> QED BY <1>0, <2>1, <2>4, <3>1, BeginsIsText, PublishesKeeps
    <2>5. CASE terminal = Nothing /\ ~Ready
      <3>1. pump' \in {"timed", "resting"} /\ UNCHANGED goal
        BY <1>6, <2>5 DEF PumpTurns
      <3> QED BY <2>1, <3>1, PumpStaysKeeps
    <2> QED BY <1>0, <2>2, <2>3, <2>4, <2>5
  <1>7. CASE Lookahead
    <2>1. pump = "lookahead" /\ UNCHANGED <<semantic, text, terminal, published, channel, visible, reply>>
      BY <1>7 DEF Lookahead
    <2>2. semantic
      BY <2>1 DEF PresenterInv, RestingInv
    <2>3. ASSUME NEW m \in Nat, NEW tail \in {"plain", "repair"}, Publishes(Display(m, tail), text, FALSE)
          PROVE  PresenterInv'
      <3>1. Display(m, tail) \in Texts
        BY DEF Display, Texts, Tails
      <3> QED BY <1>0, <2>1, <2>2, <2>3, <3>1, PublishesKeeps
    <2>4. CASE \E m \in (visible + 1)..text : Previews(m)
      <3>1. PICK m \in (visible + 1)..text : Previews(m)
        BY <2>4
      <3>2. m \in Nat
        BY <1>0
      <3> QED BY <2>3, <3>1, <3>2 DEF Previews
    <2>5. CASE \E m \in (visible + 1)..observed : Previews(m)
      <3>1. PICK m \in (visible + 1)..observed : Previews(m)
        BY <2>5
      <3>2. m \in Nat
        BY <1>0
      <3> QED BY <2>3, <3>1, <3>2 DEF Previews
    <2>6. CASE UNCHANGED goal /\ pump' \in {pump, "turning"}
      BY <2>1, <2>6, PumpStaysKeeps
    <2> QED BY <1>7, <2>4, <2>5, <2>6 DEF Lookahead, NothingToShow
  <1>8. CASE PumpWakes \/ RequestFails \/ IntervalPasses
    <2>1. /\ UNCHANGED <<semantic, text, terminal, published, channel, visible, goal, reply>>
          /\ \/ pump' = pump
             \/ pump \in {"resting", "timed"} /\ pump' = "turning"
             \/ pump = "publishing" /\ pump' = "failed"
      BY <1>8 DEF PumpWakes, RequestFails, IntervalPasses, shownVars
    <2> QED BY <2>1, PumpStaysKeeps
  <1>9. CASE UNCHANGED presenterVars
    <2>1. UNCHANGED <<semantic, text, terminal, published, channel, visible, goal, reply, pump>>
      BY <1>9 DEF presenterVars
    <2> QED BY <2>1, PumpStaysKeeps
  <1> QED BY <1>1, <1>2, <1>3, <1>4, <1>5, <1>6, <1>7, <1>8, <1>9, RequestAnsweredKeeps,
             PublishingEndsKeeps
          DEF PresenterNext, PumpStep, ReplyEnds

\* When the presenter has finished, what the channel shows is the last text of the
\* reply, for every length of it and of a message.
THEOREM TheLastTextIsShown == PresenterSpec => []FinalTextShown
  <1>1. PresenterInit => PresenterInv
    <2> SUFFICES ASSUME PresenterInit PROVE PresenterInv
      OBVIOUS
    <2>1. PresenterTyped
      BY DEF PresenterInit, PresenterTyped, NoJob, Job, Nothing, Display, Texts, Tails
    <2>2. ReplyInv /\ PublishingInv /\ RestingInv /\ FinishedInv
      BY DEF PresenterInit, ReplyInv, PublishingInv, RestingInv, FinishedInv
    <2> QED BY <2>1, <2>2 DEF PresenterInv
  <1>2. PresenterInv => FinalTextShown
    BY DEF PresenterInv, ReplyInv, FinishedInv, FinalTextShown
  <1> QED BY <1>1, <1>2, NextPresenterInv, PTL DEF PresenterSpec

-----------------------------------------------------------------------------
(* What a model may think: each lane is kept, and the evidence tells of      *)
(* every thought (CognitionEngine).                                         *)

Candidate ==
  [intentions : Seq(Intentions), actions : Seq({"speak", "stay_silent"}), wakes : Nat,
   intervention : {"unset", "none", "respond", "interject"}, disposed : BOOLEAN]
Returned(o, c) == [opportunity |-> o, status |-> "returned", candidate |-> c]

\* A log k that has r at its end, and before it what log had, but for its oldest if it was full.
EndsIn(S, log, r, capacity, k) ==
  /\ k \in Seq(S) /\ Len(k) \in 1..capacity /\ k[Len(k)] = r
  /\ \E gone \in {0, 1} :
       /\ Len(k) = Len(log) + 1 - gone
       /\ Len(k) < capacity => gone = 0
       /\ \A j \in 1..(Len(k) - 1) : j + gone \in 1..Len(log) /\ k[j] = log[j + gone]

\* A record is kept behind those that are, and the oldest of a full log goes.
LEMMA KeptAtTheEnd ==
  ASSUME NEW S, NEW log \in Seq(S), NEW r \in S, NEW capacity \in Nat \ {0}, Len(log) <= capacity,
         NEW k, k = Keep(log, capacity, r)
  PROVE  EndsIn(S, log, r, capacity, k)
  <1>1. CASE Len(log) = capacity
    <2> DEFINE t == Tail(log)
    <2>1. log # <<>> /\ t \in Seq(S) /\ Len(t) = Len(log) - 1
      BY <1>1
    <2>2. \A j \in 1..Len(t) : t[j] = log[j + 1]
      BY <2>1
    <2>3. k = Append(t, r)
      BY <1>1 DEF Keep
    <2> HIDE DEF t
    <2>4. k \in Seq(S) /\ Len(k) = Len(t) + 1 /\ k[Len(k)] = r /\ \A j \in 1..Len(t) : k[j] = t[j]
      BY <2>1, <2>3, AppendProperties
    <2>5. \A j \in 1..(Len(k) - 1) : j + 1 \in 1..Len(log) /\ k[j] = log[j + 1]
      BY <2>1, <2>2, <2>4
    <2>6. Len(k) \in 1..capacity /\ Len(k) = Len(log) + 1 - 1 /\ ~(Len(k) < capacity)
      BY <1>1, <2>1, <2>4
    <2> QED BY <2>4, <2>5, <2>6 DEF EndsIn
  <1>2. CASE Len(log) # capacity
    <2>1. k = Append(log, r)
      BY <1>2 DEF Keep
    <2>2. /\ k \in Seq(S) /\ Len(k) = Len(log) + 1 /\ k[Len(k)] = r
          /\ \A j \in 1..Len(log) : k[j] = log[j]
      BY <2>1, AppendProperties
    <2>3. \A j \in 1..(Len(k) - 1) : j + 0 \in 1..Len(log) /\ k[j] = log[j + 0]
      BY <2>2
    <2>4. Len(k) \in 1..capacity /\ Len(k) = Len(log) + 1 - 0
      BY <1>2, <2>2
    <2> QED BY <2>2, <2>3, <2>4 DEF EndsIn
  <1> QED BY <1>1, <1>2

\* What the opportunities that are thought about have in common.
LEMMA OpportunityShapes ==
  ASSUME NEW o \in Opportunities
  PROVE  /\ o.source \in {"external", "temporal", "internal", "user"}
         /\ o.reason \in {"appraisal", "idle", "other"}
         /\ o.source \in {"user", "external"} => o.reason = "other"
         /\ o.source = "internal" /\ ~LeftAlone(o) =>
              \/ o.reason = "appraisal" /\ o.intention = "none"
              \/ o.reason = "idle" /\ o.intention \in {"initiative", "deferred_commitment"}
         /\ o.source = "external" /\ ~LeftAlone(o) => ~o.direct
         /\ o.source = "temporal" => ~o.direct
  <1>1. CASE \E reason \in {"appraisal", "idle", "other"} : o = Plain("temporal", reason)
    BY <1>1 DEF Plain
  <1>2. CASE o \in {Plain("external", "other"), Plain("internal", "other"),
                    Plain("internal", "appraisal"), Plain("user", "other")}
    BY <1>2 DEF Plain, LeftAlone
  <1>3. CASE o = [Plain("external", "other") EXCEPT !.direct = TRUE]
    BY <1>3 DEF Plain, LeftAlone
  <1>4. CASE o = [Plain("internal", "appraisal") EXCEPT !.known = FALSE]
    BY <1>4 DEF Plain, LeftAlone
  <1>5. CASE \E i \in Intentions \cup {"none"} :
               o = [Plain("internal", "idle") EXCEPT !.intention = i]
    <2>1. PICK i \in Intentions \cup {"none"} : o = [Plain("internal", "idle") EXCEPT !.intention = i]
      BY <1>5
    <2>2. o.source = "internal" /\ o.reason = "idle" /\ o.intention = i
      BY <2>1 DEF Plain
    <2> QED BY <2>2 DEF Intentions, LeftAlone
  <1> QED BY <1>1, <1>2, <1>3, <1>4, <1>5 DEF Opportunities

\* No lane forbids to decide nothing.
LEMMA QuietInLane ==
  Quiet \in Candidate /\ \A o \in Opportunities : InLane(o, Quiet)
  <1>1. Quiet \in Candidate
    BY DEF Quiet, Candidate
  <1>2. ASSUME NEW o \in Opportunities PROVE InLane(o, Quiet)
    <2>1. /\ Quiet.intentions = <<>> /\ Quiet.actions = <<>> /\ Quiet.wakes = 0
          /\ Quiet.intervention = "unset" /\ ~Quiet.disposed
          /\ Quiet = [Quiet EXCEPT !.disposed = Quiet.disposed]
          /\ Quiet = [Quiet EXCEPT !.intentions = Quiet.intentions]
          /\ Quiet = [Quiet EXCEPT !.actions = Quiet.actions]
      BY DEF Quiet
    <2>2. ~Speaks(Quiet) /\ MaxProposals \in Nat
      BY <2>1, EngineAssumption DEF Speaks
    <2> QED BY <2>1, <2>2 DEF InLane
  <1> QED BY <1>1, <1>2

\* A candidate that has one intention, or one action, and nothing else.
LEMMA OneDecision ==
  /\ \A i \in {"initiative", "deferred_commitment"} :
       LET c == [Quiet EXCEPT !.intentions = <<i>>]
       IN /\ c \in Candidate /\ c = [Quiet EXCEPT !.intentions = c.intentions]
          /\ c.intentions = <<i>> /\ Len(c.intentions) = 1 /\ c.intentions # <<>>
          /\ c.intervention = "unset"
  /\ \A a \in {"speak", "stay_silent"} :
       LET c == [Quiet EXCEPT !.actions = <<a>>]
       IN /\ c \in Candidate /\ c = [Quiet EXCEPT !.actions = c.actions]
          /\ c.actions = <<a>> /\ Len(c.actions) = 1 /\ c.intentions = <<>>
          /\ c.intervention = "unset"
  <1>1. ASSUME NEW i \in {"initiative", "deferred_commitment"}
        PROVE  /\ <<i>> \in Seq(Intentions) /\ Len(<<i>>) = 1 /\ <<i>> # <<>>
    BY DEF Intentions
  <1>2. ASSUME NEW a \in {"speak", "stay_silent"}
        PROVE  /\ <<a>> \in Seq({"speak", "stay_silent"}) /\ Len(<<a>>) = 1
    OBVIOUS
  <1>3. <<>> \in Seq(Intentions) /\ <<>> \in Seq({"speak", "stay_silent"})
    OBVIOUS
  <1> QED BY <1>1, <1>2, <1>3 DEF Quiet, Candidate

\* The contract of an appraisal or of an idle opportunity.
LEMMA ParsedInLane ==
  ASSUME NEW o \in Opportunities, o.source = "internal", ~LeftAlone(o), NEW r \in ActionReplies
  PROVE  LET c == Parse(o, r).candidate
         IN /\ c \in Candidate /\ InLane(o, c) /\ c.intervention = "unset"
            /\ Parse(o, r).outcome \in Outcomes(Returned(o, c))
  <1> DEFINE p == Parse(o, r)
             c == p.candidate
  <1>0. SUFFICES /\ c \in Candidate /\ InLane(o, c) /\ c.intervention = "unset"
                 /\ p.outcome \in Outcomes(Returned(o, c))
    OBVIOUS
  <1>1. CASE \/ p = Result(Quiet, "invalid")
             \/ p = Result(Quiet, "no_change") /\ o.reason = "appraisal"
    <2>1. /\ c = Quiet
          /\ p.outcome = "invalid" \/ (p.outcome = "no_change" /\ o.reason = "appraisal")
      BY <1>1 DEF Result
    <2>2. Quiet.intentions = <<>> /\ Quiet.actions = <<>> /\ Quiet.intervention = "unset"
      BY DEF Quiet
    <2>3. <<>> # <<"speak">> /\ <<>> # <<"stay_silent">>
      OBVIOUS
    <2> QED BY <2>1, <2>2, <2>3, QuietInLane DEF Outcomes, Returned
  <1>2. CASE \E i \in {"initiative", "deferred_commitment"} :
               /\ o.reason = "appraisal"
               /\ p = Result([Quiet EXCEPT !.intentions = <<i>>], "create_intention")
    <2>1. PICK i \in {"initiative", "deferred_commitment"} :
            /\ o.reason = "appraisal"
            /\ p = Result([Quiet EXCEPT !.intentions = <<i>>], "create_intention")
      BY <1>2
    <2>2. c = [Quiet EXCEPT !.intentions = <<i>>] /\ p.outcome = "create_intention"
      BY <2>1 DEF Result
    <2>3. /\ c \in Candidate /\ c = [Quiet EXCEPT !.intentions = c.intentions]
          /\ Len(c.intentions) = 1 /\ c.intentions # <<>> /\ c.intervention = "unset"
      BY <2>2, OneDecision
    <2> HIDE DEF c, p
    <2>4. InLane(o, c)
      BY <2>1, <2>3 DEF InLane
    <2>5. p.outcome \in Outcomes(Returned(o, c))
      BY <2>2, <2>3 DEF Outcomes, Returned
    <2> QED BY <2>3, <2>4, <2>5 DEF c, p
  <1>3. CASE /\ o.reason = "idle"
             /\ \/ p = Acts("stay_silent", "stay_silent") /\ o.intention = "initiative"
                \/ p = Acts("speak", "speak") /\ o.intention = "initiative"
                \/ p = Acts("speak", "fulfill") /\ o.intention = "deferred_commitment"
    <2>1. PICK a \in {"speak", "stay_silent"} :
            /\ c = [Quiet EXCEPT !.actions = <<a>>]
            /\ \/ a = "stay_silent" /\ p.outcome = "stay_silent" /\ o.intention = "initiative"
               \/ a = "speak" /\ p.outcome = "speak" /\ o.intention = "initiative"
               \/ a = "speak" /\ p.outcome = "fulfill" /\ o.intention = "deferred_commitment"
      BY <1>3 DEF Acts, Result
    <2>2. /\ c \in Candidate /\ c = [Quiet EXCEPT !.actions = c.actions]
          /\ c.actions = <<a>> /\ Len(c.actions) = 1 /\ c.intentions = <<>>
          /\ c.intervention = "unset"
      BY <2>1, OneDecision
    <2> HIDE DEF c, p
    <2>3. InLane(o, c)
      BY <1>3, <2>1, <2>2 DEF InLane
    <2>4. <<"speak">> # <<"stay_silent">>
      OBVIOUS
    <2>5. p.outcome \in Outcomes(Returned(o, c))
      BY <1>3, <2>1, <2>2, <2>4 DEF Outcomes, Returned
    <2> QED BY <2>2, <2>3, <2>5 DEF c, p
  <1>4. CASE o.reason = "appraisal"
    BY <1>1, <1>2, <1>4 DEF Parse, ParseAppraisal, Invalid, Intentions
  <1> HIDE DEF c, p
  <1>5. CASE o.reason = "idle"
    <2>1. CASE o.intention = "deferred_commitment"
      <3>1. p = Acts("speak", "fulfill") \/ p = Result(Quiet, "invalid")
        BY <1>5, <2>1 DEF p, Parse, ParseCommitment, Invalid
      <3> QED BY <1>1, <1>3, <1>5, <2>1, <3>1
    <2>2. CASE o.intention = "initiative"
      <3>1. \/ p = Acts("stay_silent", "stay_silent") \/ p = Acts("speak", "speak")
            \/ p = Result(Quiet, "invalid")
        BY <1>5, <2>2 DEF p, Parse, ParseInitiative, Invalid
      <3> QED BY <1>1, <1>3, <1>5, <2>2, <3>1
    <2> QED BY <1>5, <2>1, <2>2, OpportunityShapes
  <1> QED BY <1>4, <1>5, OpportunityShapes

\* Ambient and temporal thought.
LEMMA CompiledInLane ==
  ASSUME NEW o \in Opportunities, o.source \in {"external", "temporal"}, ~LeftAlone(o),
         NEW r \in AmbientReplies
  PROVE  /\ Compiled(r) \in Candidate /\ InLane(o, Compiled(r))
         /\ Compiled(r).intervention \in {"respond", "interject"} <=> Speaks(Compiled(r))
         /\ ~ValidIntervention(r) => Compiled(r) = Quiet
  <1> DEFINE s == [n \in 1..r.states |-> "initiative"]
  <1>1. CASE ~ValidIntervention(r)
    BY <1>1, QuietInLane DEF Compiled, Quiet, Speaks
  <1>2. CASE ValidIntervention(r)
    <2>1. r.states \in Nat /\ r.wakes \in Nat /\ r.states <= MaxProposals /\ r.wakes <= MaxProposals
      BY <1>2, EngineAssumption DEF ValidIntervention, AmbientReplies
    <2>2. s \in Seq(Intentions) /\ Len(s) = r.states /\ \A n \in DOMAIN s : s[n] = "initiative"
      BY <2>1 DEF Intentions
    <2> DEFINE a == IF r.utterance = "said" THEN <<"speak">> ELSE <<>>
    <2>3. Compiled(r) = [intentions |-> s, actions |-> a, wakes |-> r.wakes,
                         intervention |-> r.intervention, disposed |-> r.disposition = "valid"]
      BY <1>2 DEF Compiled
    <2>4. /\ a \in Seq({"speak", "stay_silent"})
          /\ r.utterance = "said" <=> \E n \in DOMAIN a : a[n] = "speak"
      <3>1. CASE r.utterance = "said"
        <4>1. a = <<"speak">> /\ DOMAIN <<"speak">> = {1} /\ <<"speak">>[1] = "speak"
          BY <3>1
        <4> QED BY <3>1, <4>1
      <3>2. CASE r.utterance # "said"
        <4>1. a = <<>> /\ DOMAIN <<>> = {}
          BY <3>2
        <4> QED BY <3>2, <4>1
      <3> QED BY <3>1, <3>2
    <2>5. /\ r.intervention \in {"none", "respond", "interject"}
          /\ r.intervention = "none" => r.disposition = "null" /\ r.utterance = "null"
          /\ r.intervention # "none" => r.disposition = "valid" /\ r.utterance = "said"
      BY <1>2 DEF ValidIntervention, Whole, AmbientReplies
    <2> HIDE DEF s, a
    <2>6. Compiled(r) \in Candidate
      BY <2>1, <2>2, <2>3, <2>4, <2>5 DEF Candidate
    <2>7. Speaks(Compiled(r)) <=> r.utterance = "said"
      BY <2>3, <2>4 DEF Speaks
    <2>8. InLane(o, Compiled(r))
      <3> DEFINE c == Compiled(r)
      <3>1. /\ c.intentions = s /\ c.wakes = r.wakes /\ c.intervention = r.intervention
            /\ c.disposed = (r.disposition = "valid")
        BY <2>3
      <3> HIDE DEF c
      <3>2. ~o.direct
        BY OpportunityShapes
      <3> QED BY <2>1, <2>2, <2>5, <2>7, <3>1, <3>2 DEF InLane, c
    <2> QED BY <1>2, <2>3, <2>5, <2>6, <2>7, <2>8
  <1> QED BY <1>1, <1>2

\* A planner decides how a turn is answered.
LEMMA PlannedInLane ==
  ASSUME NEW o \in Opportunities, o.source = "user", NEW r \in PlanReplies
  PROVE  Planned(r) \in Candidate /\ InLane(o, Planned(r))
  <1> DEFINE c == Planned(r)
  <1>1. c = [Quiet EXCEPT !.disposed = r.fields /\ r.reasons] /\ c.disposed = (r.fields /\ r.reasons)
    BY DEF Planned, Quiet
  <1>2. c \in Candidate
    <2>1. (r.fields /\ r.reasons) \in BOOLEAN
      OBVIOUS
    <2>2. ASSUME NEW b \in BOOLEAN PROVE [Quiet EXCEPT !.disposed = b] \in Candidate
      BY QuietInLane DEF Candidate
    <2> QED BY <1>1, <2>1, <2>2
  <1>3. c = [Quiet EXCEPT !.disposed = c.disposed]
    BY <1>1
  <1> HIDE DEF c
  <1>4. InLane(o, c)
    BY <1>3 DEF InLane
  <1> QED BY <1>2, <1>4 DEF c

\* The calls: the last one may be under way, and every other is over.
ThoughtRecord ==
  [opportunity : Opportunities, status : Over \cup {"generating", "joining"},
   candidate : Candidate]
ThoughtsInv ==
  /\ thoughts \in Seq(ThoughtRecord)
  /\ ThoughtsKeepTheirLane
  /\ \A n \in 1..Len(thoughts) :
       /\ LeftAlone(thoughts[n].opportunity) => thoughts[n].status = "returned"
       /\ n < Len(thoughts) => thoughts[n].status \in Over

\* The logs: typed, bounded, in order, and about calls that are over.
Results ==
  {"none", "provider_or_runtime", "cancelled", "uncontained", "invalid", "no_change",
   "create_intention", "stay_silent", "fulfill", "speak"}
CognitionRecord ==
  [thought : Nat, reason : {"appraisal", "idle", "other"},
   stage : {"generation_completed", "generation_failed", "parse"}, result : Results]
AmbientRecord ==
  [thought : Nat, intervention : {"unset", "none", "respond", "interject"}, valid : BOOLEAN,
   speaks : BOOLEAN]
RecordsInOrder(log) ==
  \A j, k \in 1..Len(log) :
    j < k => \/ log[j].thought < log[k].thought
             \/ /\ log[j].thought = log[k].thought
                /\ log[j].stage = "generation_completed" /\ log[k].stage = "parse"
TellsOfAmbient(e, t) ==
  /\ t.opportunity.source = "external" /\ t.status \in Over
  /\ t.candidate.intervention = e.intervention
  /\ e.speaks <=> Speaks(t.candidate)
  /\ ~e.valid => t.candidate = Quiet
MustClose(t) == Proactive(t.opportunity) /\ ~LeftAlone(t.opportunity) /\ t.status \in Over
LogsInv ==
  /\ cognitionEvidence \in Seq(CognitionRecord) /\ Len(cognitionEvidence) <= CognitionCapacity
  /\ RecordsInOrder(cognitionEvidence)
  /\ \A e \in ToSet(cognitionEvidence) :
       /\ e.thought \in 1..Len(thoughts) /\ thoughts[e.thought].status \in Over
       /\ Tells(e, thoughts[e.thought])
  /\ \A n \in 1..Len(thoughts) :
       MustClose(thoughts[n]) /\ Len(cognitionEvidence) < CognitionCapacity
       => \E e \in ToSet(cognitionEvidence) : e.thought = n /\ Closes(e, thoughts[n])
  /\ ambientEvidence \in Seq(AmbientRecord) /\ Len(ambientEvidence) <= AmbientCapacity
  /\ \A e \in ToSet(ambientEvidence) :
       e.thought \in 1..Len(thoughts) /\ TellsOfAmbient(e, thoughts[e.thought])
EngineInv == ThoughtsInv /\ LogsInv

\* What a log holds after a record was kept in it.
LEMMA KeptMembers ==
  ASSUME NEW S, NEW log \in Seq(S), NEW r \in S, NEW capacity \in Nat \ {0}, Len(log) <= capacity
  PROVE  LET k == Keep(log, capacity, r)
         IN /\ k \in Seq(S) /\ Len(k) <= capacity
            /\ r \in ToSet(k) /\ ToSet(k) \subseteq ToSet(log) \cup {r}
            /\ Len(k) < capacity => Len(log) < capacity /\ ToSet(log) \subseteq ToSet(k)
  <1> DEFINE k == Keep(log, capacity, r)
  <1>0. k = Keep(log, capacity, r)
    OBVIOUS
  <1> HIDE DEF k
  <1>a. EndsIn(S, log, r, capacity, k)
    BY <1>0, KeptAtTheEnd
  <1>1. k \in Seq(S) /\ Len(k) \in 1..capacity /\ k[Len(k)] = r
    BY <1>a DEF EndsIn
  <1>2. PICK gone \in {0, 1} :
          /\ Len(k) = Len(log) + 1 - gone
          /\ Len(k) < capacity => gone = 0
          /\ \A j \in 1..(Len(k) - 1) : j + gone \in 1..Len(log) /\ k[j] = log[j + gone]
    BY <1>a DEF EndsIn
  <1>3. DOMAIN k = 1..Len(k) /\ DOMAIN log = 1..Len(log) /\ Len(log) \in Nat
    BY <1>1
  <1>4. r \in ToSet(k)
    BY <1>1, <1>3 DEF ToSet
  <1>5. ASSUME NEW j \in 1..Len(k) PROVE k[j] \in ToSet(log) \cup {r}
    <2>1. CASE j = Len(k)
      BY <1>1, <2>1
    <2>2. CASE j # Len(k)
      <3>1. j + gone \in 1..Len(log) /\ k[j] = log[j + gone]
        BY <1>1, <1>2, <2>2
      <3> QED BY <1>3, <3>1 DEF ToSet
    <2> QED BY <2>1, <2>2
  <1>6. ASSUME Len(k) < capacity, NEW j \in 1..Len(log) PROVE log[j] \in ToSet(k)
    <2>1. gone = 0 /\ Len(k) - 1 = Len(log)
      BY <1>2, <1>3, <1>6
    <2>2. j \in 1..(Len(k) - 1) /\ j \in DOMAIN k /\ j + gone = j
      BY <1>3, <2>1
    <2>3. k[j] = log[j]
      BY <1>2, <2>2
    <2> QED BY <2>2, <2>3 DEF ToSet
  <1>7. ToSet(k) \subseteq ToSet(log) \cup {r}
    BY <1>3, <1>5 DEF ToSet
  <1>8. Len(k) < capacity => Len(log) < capacity /\ ToSet(log) \subseteq ToSet(k)
    <2> SUFFICES ASSUME Len(k) < capacity
                 PROVE  Len(log) < capacity /\ ToSet(log) \subseteq ToSet(k)
      OBVIOUS
    <2>1. Len(log) < capacity
      BY <1>1, <1>2, <1>3
    <2> QED BY <1>3, <1>6, <2>1 DEF ToSet
  <1> QED BY <1>1, <1>4, <1>7, <1>8 DEF k

\* A record that comes behind all others leaves the log in order.
LEMMA KeptInOrder ==
  ASSUME NEW log \in Seq(CognitionRecord), NEW r \in CognitionRecord,
         Len(log) <= CognitionCapacity, RecordsInOrder(log),
         \A e \in ToSet(log) :
           \/ e.thought < r.thought
           \/ e.thought = r.thought /\ e.stage = "generation_completed" /\ r.stage = "parse"
  PROVE  RecordsInOrder(Keep(log, CognitionCapacity, r))
  <1> DEFINE k == Keep(log, CognitionCapacity, r)
  <1>0. CognitionCapacity \in Nat \ {0} /\ k = Keep(log, CognitionCapacity, r)
    BY EngineAssumption
  <1> HIDE DEF k
  <1>a. EndsIn(CognitionRecord, log, r, CognitionCapacity, k)
    BY <1>0, KeptAtTheEnd
  <1>1. k \in Seq(CognitionRecord) /\ Len(k) \in 1..CognitionCapacity /\ k[Len(k)] = r
    BY <1>a DEF EndsIn
  <1>2. PICK gone \in {0, 1} :
          /\ Len(k) = Len(log) + 1 - gone
          /\ Len(k) < CognitionCapacity => gone = 0
          /\ \A j \in 1..(Len(k) - 1) : j + gone \in 1..Len(log) /\ k[j] = log[j + gone]
    BY <1>a DEF EndsIn
  <1>3. ASSUME NEW i \in 1..Len(k), NEW j \in 1..Len(k), i < j
        PROVE  \/ k[i].thought < k[j].thought
               \/ /\ k[i].thought = k[j].thought
                  /\ k[i].stage = "generation_completed" /\ k[j].stage = "parse"
    <2>1. i + gone \in 1..Len(log) /\ k[i] = log[i + gone]
      BY <1>1, <1>2, <1>3
    <2>2. CASE j = Len(k)
      <3>1. k[i] \in ToSet(log)
        BY <2>1 DEF ToSet
      <3> QED BY <1>1, <2>2, <3>1
    <2>3. CASE j # Len(k)
      <3>1. j + gone \in 1..Len(log) /\ k[j] = log[j + gone]
        BY <1>1, <1>2, <2>3
      <3>2. i + gone < j + gone
        BY <1>1, <1>2, <1>3
      <3> QED BY <2>1, <3>1, <3>2, SMTT(30) DEF RecordsInOrder
    <2> QED BY <2>2, <2>3
  <1> QED BY <1>3 DEF RecordsInOrder, k

\* A call begins.
LEMMA BeginningKeeps ==
  ASSUME EngineInv, Resting, NEW o \in Opportunities, NEW status \in {"returned", "generating"},
         LeftAlone(o) <=> status = "returned",
         thoughts' = Append(thoughts, Thought(o, status)),
         UNCHANGED <<cognitionEvidence, ambientEvidence>>
  PROVE  EngineInv'
  <1> DEFINE t == Thought(o, status)
             N == Len(thoughts)
  <1>1. /\ t \in ThoughtRecord /\ t.opportunity = o /\ t.status = status /\ t.candidate = Quiet
        /\ InLane(o, Quiet)
    BY QuietInLane DEF Thought, ThoughtRecord, Over
  <1>2. thoughts \in Seq(ThoughtRecord) /\ N \in Nat
    BY DEF EngineInv, ThoughtsInv
  <1> HIDE DEF t
  <1>3. thoughts' = Append(thoughts, t)
    BY DEF t
  <1>4. /\ thoughts' \in Seq(ThoughtRecord) /\ Len(thoughts') = N + 1 /\ thoughts'[N + 1] = t
        /\ \A n \in 1..N : thoughts'[n] = thoughts[n]
    BY <1>1, <1>2, <1>3, AppendProperties
  <1>5. \A n \in 1..N : thoughts[n].status \in Over
    BY <1>2 DEF Resting
  <1> HIDE DEF N
  <1>6. \A n \in 1..Len(thoughts') : n \in 1..N \/ n = N + 1
    BY <1>2, <1>4
  <1>7. ThoughtsInv'
    <2>1. ThoughtsKeepTheirLane'
      <3>1. ASSUME NEW n \in 1..Len(thoughts')
            PROVE  IF thoughts'[n].status = "returned"
                   THEN InLane(thoughts'[n].opportunity, thoughts'[n].candidate)
                   ELSE thoughts'[n].candidate = Quiet
        <4>1. CASE n = N + 1
          BY <1>1, <1>4, <4>1
        <4>2. CASE n \in 1..N
          BY <1>2, <1>4, <4>2 DEF EngineInv, ThoughtsInv, ThoughtsKeepTheirLane, N
        <4> QED BY <1>6, <4>1, <4>2
      <3> QED BY <1>4, <3>1 DEF ThoughtsKeepTheirLane
    <2>2. ASSUME NEW n \in 1..Len(thoughts')
          PROVE  /\ LeftAlone(thoughts'[n].opportunity) => thoughts'[n].status = "returned"
                 /\ n < Len(thoughts') => thoughts'[n].status \in Over
      <3>1. CASE n = N + 1
        BY <1>1, <1>2, <1>4, <3>1
      <3>2. CASE n \in 1..N
        BY <1>4, <1>5, <3>2 DEF EngineInv, ThoughtsInv, N
      <3> QED BY <1>6, <3>1, <3>2
    <2> QED BY <1>4, <2>1, <2>2 DEF ThoughtsInv
  <1>8. LogsInv'
    <2>1. \A e \in ToSet(cognitionEvidence) :
            /\ e.thought \in 1..Len(thoughts') /\ thoughts'[e.thought].status \in Over
            /\ Tells(e, thoughts'[e.thought])
      BY <1>2, <1>4 DEF EngineInv, LogsInv, N
    <2>2. \A e \in ToSet(ambientEvidence) :
            e.thought \in 1..Len(thoughts') /\ TellsOfAmbient(e, thoughts'[e.thought])
      BY <1>2, <1>4 DEF EngineInv, LogsInv, N
    <2>3. ASSUME NEW n \in 1..Len(thoughts'), MustClose(thoughts'[n]),
                 Len(cognitionEvidence) < CognitionCapacity
          PROVE  \E e \in ToSet(cognitionEvidence) : e.thought = n /\ Closes(e, thoughts'[n])
      <3>1. n # N + 1
        BY <1>1, <1>4, <2>3 DEF MustClose, Over
      <3>2. n \in 1..Len(thoughts) /\ thoughts'[n] = thoughts[n]
        BY <1>4, <1>6, <3>1 DEF N
      <3> QED BY <2>3, <3>2 DEF EngineInv, LogsInv
    <2> QED BY <2>1, <2>2, <2>3 DEF EngineInv, LogsInv
  <1> QED BY <1>7, <1>8 DEF EngineInv

\* What holds of the call under way.
LEMMA UnderWay ==
  ASSUME EngineInv, ~Resting
  PROVE  /\ Len(thoughts) \in 1..Len(thoughts) /\ Current \in ThoughtRecord
         /\ Current.status \in {"generating", "joining"}
         /\ ~LeftAlone(Current.opportunity) /\ Current.opportunity \in Opportunities
         /\ Current.candidate = Quiet
         /\ \A e \in ToSet(cognitionEvidence) : e.thought \in 1..(Len(thoughts) - 1)
         /\ \A e \in ToSet(ambientEvidence) : e.thought \in 1..(Len(thoughts) - 1)
  <1>1. thoughts \in Seq(ThoughtRecord) /\ DOMAIN thoughts = 1..Len(thoughts) /\ Len(thoughts) \in Nat
    BY DEF EngineInv, ThoughtsInv
  <1>2. PICK n \in 1..Len(thoughts) : thoughts[n].status \notin Over
    BY <1>1 DEF Resting
  <1>3. n = Len(thoughts)
    <2>1. \A m \in 1..Len(thoughts) : m < Len(thoughts) => thoughts[m].status \in Over
      BY DEF EngineInv, ThoughtsInv
    <2>2. ~(n < Len(thoughts))
      BY <1>2, <2>1
    <2>3. Len(thoughts) \in Nat /\ n \in 1..Len(thoughts)
      BY <1>1, <1>2
    <2> QED BY <2>2, <2>3
  <1>4. Current = thoughts[n] /\ Current \in ThoughtRecord /\ Current.status \notin Over
    BY <1>1, <1>2, <1>3 DEF Current
  <1>5. Current.status \in {"generating", "joining"} /\ Current.opportunity \in Opportunities
    BY <1>4 DEF ThoughtRecord
  <1>6. ~LeftAlone(Current.opportunity) /\ Current.candidate = Quiet
    BY <1>1, <1>2, <1>4, <1>5 DEF EngineInv, ThoughtsInv, ThoughtsKeepTheirLane
  <1>7. \A e \in ToSet(cognitionEvidence) : e.thought \in 1..(Len(thoughts) - 1)
    BY <1>1, <1>2, <1>3 DEF EngineInv, LogsInv
  <1>8. \A e \in ToSet(ambientEvidence) : e.thought \in 1..(Len(thoughts) - 1)
    BY <1>1, <1>2, <1>3 DEF EngineInv, LogsInv, TellsOfAmbient
  <1> QED BY <1>2, <1>3, <1>4, <1>5, <1>6, <1>7, <1>8

\* The call goes on, or ends and leaves the records that it must.
LEMMA GoingOnKeeps ==
  ASSUME EngineInv, ~Resting, NEW t \in ThoughtRecord, t.opportunity = Current.opportunity,
         thoughts' = [thoughts EXCEPT ![Len(thoughts)] = t],
         IF t.status = "returned" THEN InLane(t.opportunity, t.candidate) ELSE t.candidate = Quiet,
         cognitionEvidence' \in Seq(CognitionRecord),
         Len(cognitionEvidence') <= CognitionCapacity, RecordsInOrder(cognitionEvidence'),
         \A e \in ToSet(cognitionEvidence') :
           \/ e \in ToSet(cognitionEvidence)
           \/ e.thought = Len(thoughts) /\ t.status \in Over /\ Tells(e, t),
         Len(cognitionEvidence') < CognitionCapacity =>
           /\ Len(cognitionEvidence) < CognitionCapacity
           /\ ToSet(cognitionEvidence) \subseteq ToSet(cognitionEvidence')
           /\ MustClose(t) => \E e \in ToSet(cognitionEvidence') :
                                e.thought = Len(thoughts) /\ Closes(e, t),
         ambientEvidence' \in Seq(AmbientRecord), Len(ambientEvidence') <= AmbientCapacity,
         \A e \in ToSet(ambientEvidence') :
           \/ e \in ToSet(ambientEvidence)
           \/ e.thought = Len(thoughts) /\ TellsOfAmbient(e, t)
  PROVE  EngineInv'
  <1> DEFINE N == Len(thoughts)
  <1>1. thoughts \in Seq(ThoughtRecord) /\ N \in Nat \ {0} /\ N \in 1..N
    BY UnderWay DEF EngineInv, ThoughtsInv
  <1>2. /\ thoughts' \in Seq(ThoughtRecord) /\ Len(thoughts') = N /\ thoughts'[N] = t
        /\ \A n \in 1..N : n # N => thoughts'[n] = thoughts[n]
    BY <1>1
  <1> HIDE DEF N
  <1>3. ~LeftAlone(t.opportunity)
    BY UnderWay
  <1>4. ThoughtsInv'
    <2>1. ThoughtsKeepTheirLane'
      <3>1. ASSUME NEW n \in 1..N
            PROVE  IF thoughts'[n].status = "returned"
                   THEN InLane(thoughts'[n].opportunity, thoughts'[n].candidate)
                   ELSE thoughts'[n].candidate = Quiet
        <4>1. CASE n = N
          BY <1>2, <4>1
        <4>2. CASE n # N
          <5>1. DOMAIN thoughts = 1..N
            BY <1>1 DEF N
          <5>2. n \in DOMAIN thoughts /\ thoughts'[n] = thoughts[n]
            BY <1>2, <4>2, <5>1
          <5> QED BY <5>2 DEF EngineInv, ThoughtsInv, ThoughtsKeepTheirLane
        <4> QED BY <4>1, <4>2
      <3> QED BY <1>2, <3>1 DEF ThoughtsKeepTheirLane
    <2>2. ASSUME NEW n \in 1..N
          PROVE  /\ LeftAlone(thoughts'[n].opportunity) => thoughts'[n].status = "returned"
                 /\ n < N => thoughts'[n].status \in Over
      <3>1. CASE n = N
        BY <1>1, <1>2, <1>3, <3>1, SMTT(30)
      <3>2. CASE n # N
        BY <1>2, <3>2, Zenon DEF EngineInv, ThoughtsInv, N
      <3> QED BY <3>1, <3>2
    <2> QED BY <1>2, <2>1, <2>2 DEF ThoughtsInv
  <1>5. LogsInv'
    <2>1. ASSUME NEW e \in ToSet(cognitionEvidence')
          PROVE  /\ e.thought \in 1..N /\ thoughts'[e.thought].status \in Over
                 /\ Tells(e, thoughts'[e.thought])
      <3>1. CASE e \in ToSet(cognitionEvidence)
        <4>1. e.thought \in 1..(N - 1)
          BY <3>1, UnderWay DEF N
        <4>2. e.thought \in 1..N /\ thoughts'[e.thought] = thoughts[e.thought]
          BY <1>1, <1>2, <4>1
        <4> QED BY <3>1, <4>2 DEF EngineInv, LogsInv
      <3>2. CASE e.thought = N /\ t.status \in Over /\ Tells(e, t)
        BY <1>1, <1>2, <3>2
      <3> QED BY <3>1, <3>2 DEF N
    <2>2. ASSUME NEW e \in ToSet(ambientEvidence')
          PROVE  e.thought \in 1..N /\ TellsOfAmbient(e, thoughts'[e.thought])
      <3>1. CASE e \in ToSet(ambientEvidence)
        <4>1. e.thought \in 1..(N - 1)
          BY <3>1, UnderWay DEF N
        <4>2. e.thought \in 1..N /\ thoughts'[e.thought] = thoughts[e.thought]
          BY <1>1, <1>2, <4>1
        <4> QED BY <3>1, <4>2 DEF EngineInv, LogsInv
      <3>2. CASE e.thought = N /\ TellsOfAmbient(e, t)
        BY <1>1, <1>2, <3>2
      <3> QED BY <3>1, <3>2 DEF N
    <2>3. ASSUME NEW n \in 1..N, MustClose(thoughts'[n]),
                 Len(cognitionEvidence') < CognitionCapacity
          PROVE  \E e \in ToSet(cognitionEvidence') : e.thought = n /\ Closes(e, thoughts'[n])
      <3>1. CASE n = N
        BY <1>2, <2>3, <3>1, Zenon DEF N
      <3>2. CASE n # N
        <4>1. thoughts'[n] = thoughts[n] /\ n \in 1..Len(thoughts)
          BY <1>2, <3>2, Zenon DEF N
        <4>2. PICK e \in ToSet(cognitionEvidence) : e.thought = n /\ Closes(e, thoughts[n])
          BY <2>3, <4>1 DEF EngineInv, LogsInv
        <4>3. e \in ToSet(cognitionEvidence')
          BY <2>3, <4>2
        <4> QED BY <4>1, <4>2, <4>3, SMTT(30)
      <3> QED BY <3>1, <3>2, SMTT(30)
    <2> QED BY <1>2, <2>1, <2>2, <2>3 DEF LogsInv
  <1> QED BY <1>4, <1>5 DEF EngineInv

\* The record of the call under way.
RecordNow(at, result) ==
  [thought |-> Len(thoughts), reason |-> Current.opportunity.reason, stage |-> at,
   result |-> result]

\* It comes behind the records of earlier calls, and behind that of its generation.
LEMMA RecordedKeeps ==
  ASSUME EngineInv, ~Resting,
         NEW at \in {"generation_completed", "generation_failed", "parse"},
         NEW result \in Results,
         NEW log \in Seq(CognitionRecord), Len(log) <= CognitionCapacity, RecordsInOrder(log),
         \A e \in ToSet(log) :
           \/ e.thought \in 1..(Len(thoughts) - 1)
           \/ e.thought = Len(thoughts) /\ e.stage = "generation_completed" /\ at = "parse"
  PROVE  LET k == Recorded(log, at, result)
         IN /\ k \in Seq(CognitionRecord) /\ Len(k) <= CognitionCapacity /\ RecordsInOrder(k)
            /\ RecordNow(at, result) \in ToSet(k)
            /\ ToSet(k) \subseteq ToSet(log) \cup {RecordNow(at, result)}
            /\ Len(k) < CognitionCapacity =>
                 Len(log) < CognitionCapacity /\ ToSet(log) \subseteq ToSet(k)
  <1> DEFINE r == RecordNow(at, result)
             k == Recorded(log, at, result)
  <1>1. /\ r \in CognitionRecord /\ r.thought = Len(thoughts) /\ r.stage = at
        /\ Len(thoughts) \in Nat
    BY UnderWay, OpportunityShapes DEF RecordNow, CognitionRecord
  <1>2. k = Keep(log, CognitionCapacity, r)
    BY DEF Recorded, RecordNow
  <1>3. CognitionCapacity \in Nat \ {0}
    BY EngineAssumption
  <1> HIDE DEF r, k
  <1>4. \A e \in ToSet(log) :
          \/ e.thought < r.thought
          \/ e.thought = r.thought /\ e.stage = "generation_completed" /\ r.stage = "parse"
    BY <1>1
  <1>5. RecordsInOrder(k)
    BY <1>1, <1>2, <1>4, KeptInOrder
  <1>6. /\ k \in Seq(CognitionRecord) /\ Len(k) <= CognitionCapacity
        /\ r \in ToSet(k) /\ ToSet(k) \subseteq ToSet(log) \cup {r}
        /\ Len(k) < CognitionCapacity =>
             Len(log) < CognitionCapacity /\ ToSet(log) \subseteq ToSet(k)
    BY <1>1, <1>2, <1>3, KeptMembers
  <1> QED BY <1>5, <1>6 DEF r, k

\* How a call ends.
LEMMA EndsShape ==
  ASSUME EngineInv, ~Resting, NEW status \in Over, NEW c \in Candidate, Ends(status, c)
  PROVE  LET t == [Current EXCEPT !.status = status, !.candidate = c]
         IN /\ t \in ThoughtRecord /\ t.opportunity = Current.opportunity
            /\ t.status = status /\ t.candidate = c
            /\ thoughts' = [thoughts EXCEPT ![Len(thoughts)] = t]
  <1>1. Current \in ThoughtRecord
    BY UnderWay
  <1>2. thoughts \in Seq(ThoughtRecord)
    BY DEF EngineInv, ThoughtsInv
  <1>3. thoughts' = [thoughts EXCEPT ![Len(thoughts)].status = status,
                                     ![Len(thoughts)].candidate = c]
    BY DEF Ends
  <1> QED BY <1>1, <1>2, <1>3 DEF Current, ThoughtRecord

\* An appraisal or an idle opportunity leaves two records.
LEMMA AnswersKeeps ==
  ASSUME EngineInv, NEW r \in ActionReplies, Answers(r)
  PROVE  EngineInv'
  <1> DEFINE o == Current.opportunity
             c == Parse(o, r).candidate
             t == [Current EXCEPT !.status = "returned", !.candidate = c]
             x == Parse(o, r).outcome
             e1 == RecordNow("generation_completed", "none")
             e2 == RecordNow("parse", x)
             log1 == Recorded(cognitionEvidence, "generation_completed", "none")
             log2 == Recorded(log1, "parse", x)
  <1>1. /\ ~Resting /\ o.source = "internal" /\ Ends("returned", c)
        /\ cognitionEvidence' = log2 /\ ambientEvidence' = ambientEvidence
    BY DEF Answers
  <1>2. o \in Opportunities /\ ~LeftAlone(o)
    BY <1>1, UnderWay
  <1>3. c \in Candidate /\ InLane(o, c) /\ x \in Outcomes(Returned(o, c))
    BY <1>1, <1>2, ParsedInLane
  <1>4. x \in Results
    BY <1>3 DEF Outcomes, Results
  <1>5. "returned" \in Over
    BY DEF Over
  <1> HIDE DEF c
  <1>6. /\ t \in ThoughtRecord /\ t.opportunity = o /\ t.status = "returned" /\ t.candidate = c
        /\ thoughts' = [thoughts EXCEPT ![Len(thoughts)] = t]
    BY <1>1, <1>3, <1>5, EndsShape, ZenonT(40)
  <1>7. /\ cognitionEvidence \in Seq(CognitionRecord) /\ RecordsInOrder(cognitionEvidence)
        /\ Len(cognitionEvidence) <= CognitionCapacity
        /\ \A e \in ToSet(cognitionEvidence) : e.thought \in 1..(Len(thoughts) - 1)
    BY <1>1, UnderWay DEF EngineInv, LogsInv
  <1>8. /\ e1.thought = Len(thoughts) /\ e1.reason = o.reason /\ e1.stage = "generation_completed"
        /\ e2.thought = Len(thoughts) /\ e2.reason = o.reason /\ e2.stage = "parse"
        /\ e2.result = x
    BY DEF RecordNow
  <1> HIDE DEF e1, e2, x, t
  <1>9. /\ log1 \in Seq(CognitionRecord) /\ Len(log1) <= CognitionCapacity /\ RecordsInOrder(log1)
        /\ e1 \in ToSet(log1) /\ ToSet(log1) \subseteq ToSet(cognitionEvidence) \cup {e1}
        /\ Len(log1) < CognitionCapacity =>
             /\ Len(cognitionEvidence) < CognitionCapacity
             /\ ToSet(cognitionEvidence) \subseteq ToSet(log1)
    <2>1. "none" \in Results
      BY DEF Results
    <2> QED BY <1>1, <1>7, <2>1, RecordedKeeps DEF e1
  <1> HIDE DEF log1
  <1>10. /\ log2 \in Seq(CognitionRecord) /\ Len(log2) <= CognitionCapacity /\ RecordsInOrder(log2)
         /\ e2 \in ToSet(log2) /\ ToSet(log2) \subseteq ToSet(log1) \cup {e2}
         /\ Len(log2) < CognitionCapacity =>
              Len(log1) < CognitionCapacity /\ ToSet(log1) \subseteq ToSet(log2)
    <2>1. \A e \in ToSet(log1) :
            \/ e.thought \in 1..(Len(thoughts) - 1)
            \/ e.thought = Len(thoughts) /\ e.stage = "generation_completed" /\ "parse" = "parse"
      BY <1>7, <1>8, <1>9
    <2> QED BY <1>1, <1>4, <1>9, <2>1, RecordedKeeps DEF e2
  <1> HIDE DEF log2
  <1>11. Proactive(o)
    BY <1>1, <1>2, OpportunityShapes DEF Proactive
  <1>12. Outcomes(t) = Outcomes(Returned(o, c))
    BY <1>6 DEF Outcomes, Returned
  <1>13. Tells(e1, t) /\ Tells(e2, t) /\ Closes(e2, t)
    BY <1>1, <1>2, <1>3, <1>6, <1>8, <1>11, <1>12 DEF Tells, Closes
  <1> HIDE DEF o
  <1>14. \A e \in ToSet(log2) :
           \/ e \in ToSet(cognitionEvidence)
           \/ e.thought = Len(thoughts) /\ t.status \in Over /\ Tells(e, t)
    BY <1>5, <1>6, <1>8, <1>9, <1>10, <1>13
  <1>15. Len(log2) < CognitionCapacity =>
           /\ Len(cognitionEvidence) < CognitionCapacity
           /\ ToSet(cognitionEvidence) \subseteq ToSet(log2)
           /\ MustClose(t) => \E e \in ToSet(log2) : e.thought = Len(thoughts) /\ Closes(e, t)
    BY <1>8, <1>9, <1>10, <1>13
  <1>16. /\ ambientEvidence' \in Seq(AmbientRecord) /\ Len(ambientEvidence') <= AmbientCapacity
         /\ ToSet(ambientEvidence') = ToSet(ambientEvidence)
    BY <1>1 DEF EngineInv, LogsInv
  <1> QED BY <1>1, <1>3, <1>6, <1>10, <1>14, <1>15, <1>16, GoingOnKeeps DEF o

\* Ambient thought leaves one in the log of its own; a wake leaves one when its reason is proactive.
LEMMA IntervenesKeeps ==
  ASSUME EngineInv, NEW r \in AmbientReplies, Intervenes(r)
  PROVE  EngineInv'
  <1> DEFINE o == Current.opportunity
             c == Compiled(r)
             t == [Current EXCEPT !.status = "returned", !.candidate = c]
             e == RecordNow("generation_completed", "none")
             a == [thought |-> Len(thoughts), intervention |-> c.intervention,
                   valid |-> ValidIntervention(r),
                   speaks |-> c.intervention \in {"respond", "interject"}]
  <1>1. ~Resting /\ o.source \in {"external", "temporal"} /\ Ends("returned", c)
    BY DEF Intervenes
  <1>2. /\ ambientEvidence' = IF o.source = "temporal" THEN ambientEvidence
                              ELSE Keep(ambientEvidence, AmbientCapacity, a)
        /\ cognitionEvidence' = IF Proactive(o)
                                THEN Recorded(cognitionEvidence, "generation_completed", "none")
                                ELSE cognitionEvidence
    BY DEF Intervenes
  <1>3. o \in Opportunities /\ ~LeftAlone(o) /\ Len(thoughts) \in Nat
    BY <1>1, UnderWay
  <1>4. /\ c \in Candidate /\ InLane(o, c)
        /\ c.intervention \in {"respond", "interject"} <=> Speaks(c)
        /\ ~ValidIntervention(r) => c = Quiet
    BY <1>1, <1>3, CompiledInLane
  <1>5. "returned" \in Over
    BY DEF Over
  <1>6. a \in AmbientRecord /\ a.thought = Len(thoughts)
    <2>1. ValidIntervention(r) \in BOOLEAN
      BY DEF ValidIntervention
    <2>2. c.intervention \in {"unset", "none", "respond", "interject"}
      BY <1>4 DEF Candidate
    <2> QED BY <1>3, <2>1, <2>2 DEF AmbientRecord
  <1>7. /\ a.intervention = c.intervention /\ a.valid = ValidIntervention(r)
        /\ a.speaks = (c.intervention \in {"respond", "interject"})
    OBVIOUS
  <1> HIDE DEF c, a, e
  <1>8. /\ t \in ThoughtRecord /\ t.opportunity = o /\ t.status = "returned" /\ t.candidate = c
        /\ thoughts' = [thoughts EXCEPT ![Len(thoughts)] = t]
    <2>1. c \in Candidate /\ ~Resting /\ Ends("returned", c)
      BY <1>1, <1>4
    <2> QED BY <1>5, <2>1, EndsShape, ZenonT(40)
  <1>9. /\ cognitionEvidence \in Seq(CognitionRecord) /\ RecordsInOrder(cognitionEvidence)
        /\ Len(cognitionEvidence) <= CognitionCapacity
        /\ \A x \in ToSet(cognitionEvidence) : x.thought \in 1..(Len(thoughts) - 1)
        /\ ambientEvidence \in Seq(AmbientRecord) /\ Len(ambientEvidence) <= AmbientCapacity
    BY <1>1, UnderWay DEF EngineInv, LogsInv
  <1>10. e.thought = Len(thoughts) /\ e.reason = o.reason /\ e.stage = "generation_completed"
    BY DEF e, RecordNow
  <1> HIDE DEF t
  <1>11. TellsOfAmbient(a, t) \/ o.source = "temporal"
    BY <1>1, <1>4, <1>5, <1>7, <1>8 DEF TellsOfAmbient
  <1>12. /\ ambientEvidence' \in Seq(AmbientRecord) /\ Len(ambientEvidence') <= AmbientCapacity
         /\ \A x \in ToSet(ambientEvidence') :
              \/ x \in ToSet(ambientEvidence)
              \/ x.thought = Len(thoughts) /\ TellsOfAmbient(x, t)
    <2>1. CASE o.source = "temporal"
      BY <1>2, <1>9, <2>1
    <2>2. CASE o.source # "temporal"
      <3> DEFINE k == Keep(ambientEvidence, AmbientCapacity, a)
      <3>1. AmbientCapacity \in Nat \ {0} /\ ambientEvidence' = k
        BY <1>2, <2>2, EngineAssumption
      <3>2. /\ k \in Seq(AmbientRecord) /\ Len(k) <= AmbientCapacity
            /\ a \in ToSet(k) /\ ToSet(k) \subseteq ToSet(ambientEvidence) \cup {a}
            /\ Len(k) < AmbientCapacity =>
                 Len(ambientEvidence) < AmbientCapacity /\ ToSet(ambientEvidence) \subseteq ToSet(k)
        BY <1>6, <1>9, <3>1, KeptMembers
      <3> HIDE DEF k
      <3> QED BY <1>6, <1>11, <2>2, <3>1, <3>2
    <2> QED BY <2>1, <2>2
  <1>13. /\ cognitionEvidence' \in Seq(CognitionRecord)
         /\ Len(cognitionEvidence') <= CognitionCapacity /\ RecordsInOrder(cognitionEvidence')
         /\ \A x \in ToSet(cognitionEvidence') :
              \/ x \in ToSet(cognitionEvidence)
              \/ x.thought = Len(thoughts) /\ t.status \in Over /\ Tells(x, t)
         /\ Len(cognitionEvidence') < CognitionCapacity =>
              /\ Len(cognitionEvidence) < CognitionCapacity
              /\ ToSet(cognitionEvidence) \subseteq ToSet(cognitionEvidence')
              /\ MustClose(t) => \E x \in ToSet(cognitionEvidence') :
                                   x.thought = Len(thoughts) /\ Closes(x, t)
    <2>1. CASE ~Proactive(o)
      BY <1>2, <1>8, <1>9, <2>1 DEF MustClose
    <2>2. CASE Proactive(o)
      <3> DEFINE k == Recorded(cognitionEvidence, "generation_completed", "none")
      <3>1. "none" \in Results /\ cognitionEvidence' = k
        BY <1>2, <2>2 DEF Results
      <3>2. /\ k \in Seq(CognitionRecord) /\ Len(k) <= CognitionCapacity /\ RecordsInOrder(k)
            /\ e \in ToSet(k) /\ ToSet(k) \subseteq ToSet(cognitionEvidence) \cup {e}
            /\ Len(k) < CognitionCapacity =>
                 /\ Len(cognitionEvidence) < CognitionCapacity
                 /\ ToSet(cognitionEvidence) \subseteq ToSet(k)
        BY <1>1, <1>9, <3>1, RecordedKeeps DEF e
      <3> HIDE DEF k
      <3>3. Tells(e, t) /\ Closes(e, t)
        BY <1>1, <1>3, <1>8, <1>10, <2>2 DEF Tells, Closes
      <3> QED BY <1>5, <1>8, <1>10, <3>1, <3>2, <3>3
    <2> QED BY <2>1, <2>2
  <1> QED BY <1>1, <1>4, <1>8, <1>12, <1>13, GoingOnKeeps

\* A call that leaves no records: one of the planner, or one that is cancelled.
LEMMA UnrecordedKeeps ==
  ASSUME EngineInv, ~Resting, NEW t \in ThoughtRecord, t.opportunity = Current.opportunity,
         thoughts' = [thoughts EXCEPT ![Len(thoughts)] = t],
         IF t.status = "returned" THEN InLane(t.opportunity, t.candidate) ELSE t.candidate = Quiet,
         ~MustClose(t), UNCHANGED <<cognitionEvidence, ambientEvidence>>
  PROVE  EngineInv'
  <1>1. /\ cognitionEvidence' \in Seq(CognitionRecord)
        /\ Len(cognitionEvidence') <= CognitionCapacity /\ RecordsInOrder(cognitionEvidence')
        /\ ambientEvidence' \in Seq(AmbientRecord) /\ Len(ambientEvidence') <= AmbientCapacity
        /\ ToSet(cognitionEvidence') = ToSet(cognitionEvidence)
        /\ ToSet(ambientEvidence') = ToSet(ambientEvidence)
        /\ Len(cognitionEvidence') = Len(cognitionEvidence)
    BY DEF EngineInv, LogsInv
  <1> QED BY <1>1, GoingOnKeeps

\* A call that raises leaves one when its reason is proactive.
LEMMA RaisesKeeps ==
  ASSUME EngineInv, NEW status \in Over \ {"returned"}, Raises(status)
  PROVE  EngineInv'
  <1> DEFINE o == Current.opportunity
             t == [Current EXCEPT !.status = status, !.candidate = Quiet]
             x == IF status = "failed" THEN "provider_or_runtime" ELSE status
             e == RecordNow("generation_failed", x)
  <1>1. ~Resting /\ Ends(status, Quiet) /\ UNCHANGED ambientEvidence
    BY DEF Raises
  <1>2. o \in Opportunities /\ ~LeftAlone(o)
    BY <1>1, UnderWay
  <1>3. /\ t \in ThoughtRecord /\ t.opportunity = o /\ t.status = status /\ t.candidate = Quiet
        /\ thoughts' = [thoughts EXCEPT ![Len(thoughts)] = t]
    BY <1>1, EndsShape, QuietInLane, ZenonT(40)
  <1>4. CASE ~Proactive(o)
    <2>1. UNCHANGED <<cognitionEvidence, ambientEvidence>>
      BY <1>1, <1>4 DEF Raises, ToldOf
    <2>2. ~MustClose(t)
      BY <1>3, <1>4 DEF MustClose
    <2> HIDE DEF t
    <2> QED BY <1>1, <1>3, <2>1, <2>2, UnrecordedKeeps
  <1>5. CASE Proactive(o)
    <2> DEFINE k == Recorded(cognitionEvidence, "generation_failed", x)
    <2>1. cognitionEvidence' = k /\ ambientEvidence' = ambientEvidence
      BY <1>1, <1>5 DEF Raises, ToldOf
    <2>2. x \in Results
      BY DEF Over, Results
    <2>3. /\ cognitionEvidence \in Seq(CognitionRecord) /\ RecordsInOrder(cognitionEvidence)
          /\ Len(cognitionEvidence) <= CognitionCapacity
          /\ \A y \in ToSet(cognitionEvidence) : y.thought \in 1..(Len(thoughts) - 1)
          /\ ambientEvidence' \in Seq(AmbientRecord) /\ Len(ambientEvidence') <= AmbientCapacity
          /\ ToSet(ambientEvidence') = ToSet(ambientEvidence)
      BY <1>1, <2>1, UnderWay DEF EngineInv, LogsInv
    <2>4. /\ e.thought = Len(thoughts) /\ e.reason = o.reason /\ e.stage = "generation_failed"
          /\ e.result = IF status = "failed" THEN "provider_or_runtime" ELSE status
      BY DEF RecordNow
    <2> HIDE DEF x, e, t
    <2>5. /\ k \in Seq(CognitionRecord) /\ Len(k) <= CognitionCapacity /\ RecordsInOrder(k)
          /\ e \in ToSet(k) /\ ToSet(k) \subseteq ToSet(cognitionEvidence) \cup {e}
          /\ Len(k) < CognitionCapacity =>
               /\ Len(cognitionEvidence) < CognitionCapacity
               /\ ToSet(cognitionEvidence) \subseteq ToSet(k)
      BY <1>1, <2>2, <2>3, RecordedKeeps DEF e
    <2> HIDE DEF k
    <2>6. Tells(e, t) /\ Closes(e, t) /\ t.status \in Over
      BY <1>2, <1>3, <1>5, <2>4 DEF Tells, Closes
    <2>7. \A y \in ToSet(cognitionEvidence') :
            \/ y \in ToSet(cognitionEvidence)
            \/ y.thought = Len(thoughts) /\ t.status \in Over /\ Tells(y, t)
      BY <2>1, <2>4, <2>5, <2>6
    <2>8. Len(cognitionEvidence') < CognitionCapacity =>
            /\ Len(cognitionEvidence) < CognitionCapacity
            /\ ToSet(cognitionEvidence) \subseteq ToSet(cognitionEvidence')
            /\ MustClose(t) => \E y \in ToSet(cognitionEvidence') :
                                 y.thought = Len(thoughts) /\ Closes(y, t)
      BY <2>1, <2>4, <2>5, <2>6
    <2> QED BY <1>1, <1>3, <2>1, <2>3, <2>5, <2>7, <2>8, GoingOnKeeps
  <1> QED BY <1>4, <1>5

\* The inductive invariant: every call keeps to its lane, one that is left alone returns at
\* once, and the logs are about calls that are over, in their order.
THEOREM EngineInvariant == EngineSpec => []EngineInv
  <1>1. EngineInit => EngineInv
    <2> SUFFICES ASSUME EngineInit PROVE EngineInv
      OBVIOUS
    <2>1. /\ thoughts = <<>> /\ Len(thoughts) = 0 /\ DOMAIN thoughts = {}
          /\ thoughts \in Seq(ThoughtRecord)
      BY DEF EngineInit
    <2>2. /\ cognitionEvidence = <<>> /\ cognitionEvidence \in Seq(CognitionRecord)
          /\ ToSet(cognitionEvidence) = {} /\ Len(cognitionEvidence) = 0
          /\ ambientEvidence = <<>> /\ ambientEvidence \in Seq(AmbientRecord)
          /\ ToSet(ambientEvidence) = {} /\ Len(ambientEvidence) = 0
      BY DEF EngineInit, ToSet
    <2>3. ThoughtsInv
      BY <2>1 DEF ThoughtsInv, ThoughtsKeepTheirLane
    <2>4. LogsInv
      BY <2>1, <2>2, EngineAssumption DEF LogsInv, RecordsInOrder
    <2> QED BY <2>3, <2>4 DEF EngineInv
  <1>2. EngineInv /\ [EngineNext]_engineVars => EngineInv'
    <2> SUFFICES ASSUME EngineInv, [EngineNext]_engineVars PROVE EngineInv'
      OBVIOUS
    <2>1. ASSUME NEW o \in Opportunities, LeavesAlone(o) PROVE EngineInv'
      BY <2>1, BeginningKeeps DEF LeavesAlone
    <2>2. ASSUME NEW o \in Opportunities, NEW given \in Given(o), Asks(o, given) PROVE EngineInv'
      BY <2>2, BeginningKeeps DEF Asks
    <2>3. ASSUME NEW r \in ActionReplies, Answers(r) PROVE EngineInv'
      BY <2>3, AnswersKeeps
    <2>4. ASSUME NEW r \in AmbientReplies, Intervenes(r) PROVE EngineInv'
      BY <2>4, IntervenesKeeps
    <2>5. ASSUME NEW r \in PlanReplies, Plans(r) PROVE EngineInv'
      <3> DEFINE c == Planned(r)
                 t == [Current EXCEPT !.status = "returned", !.candidate = c]
      <3>1. /\ ~Resting /\ Current.opportunity.source = "user" /\ Ends("returned", c)
            /\ UNCHANGED <<cognitionEvidence, ambientEvidence>>
        BY <2>5 DEF Plans
      <3>2. Current.opportunity \in Opportunities
        BY <3>1, UnderWay
      <3>3. c \in Candidate /\ InLane(Current.opportunity, c)
        BY <3>1, <3>2, PlannedInLane
      <3>4. "returned" \in Over
        BY DEF Over
      <3> HIDE DEF c
      <3>5. /\ t \in ThoughtRecord /\ t.opportunity = Current.opportunity
            /\ t.status = "returned" /\ t.candidate = c
            /\ thoughts' = [thoughts EXCEPT ![Len(thoughts)] = t]
        BY <3>1, <3>3, <3>4, EndsShape
      <3>6. ~MustClose(t)
        BY <3>1, <3>2, <3>5, OpportunityShapes DEF MustClose, Proactive
      <3> HIDE DEF t
      <3> QED BY <3>1, <3>3, <3>5, <3>6, UnrecordedKeeps
    <2>6. CASE TaskCancelled
      <3> DEFINE t == [Current EXCEPT !.status = "joining"]
      <3>1. /\ ~Resting /\ UNCHANGED <<cognitionEvidence, ambientEvidence>>
            /\ thoughts' = [thoughts EXCEPT ![Len(thoughts)].status = "joining"]
        BY <2>6 DEF TaskCancelled
      <3>2. Current \in ThoughtRecord /\ Current.candidate = Quiet
        BY <3>1, UnderWay
      <3>3. /\ t \in ThoughtRecord /\ t.opportunity = Current.opportunity
            /\ t.status = "joining" /\ t.candidate = Quiet
        BY <3>2 DEF ThoughtRecord
      <3>4. thoughts' = [thoughts EXCEPT ![Len(thoughts)] = t]
        BY <3>1 DEF Current
      <3>5. ~MustClose(t)
        BY <3>3 DEF MustClose, Over
      <3> HIDE DEF t
      <3> QED BY <3>1, <3>3, <3>4, <3>5, UnrecordedKeeps
    <2>7. ASSUME NEW status \in Over \ {"returned"}, Raises(status) PROVE EngineInv'
      BY <2>7, RaisesKeeps
    <2>8. CASE UNCHANGED engineVars
      <3>1. UNCHANGED <<thoughts, cognitionEvidence, ambientEvidence>>
        BY <2>8 DEF engineVars
      <3>2. ThoughtsInv'
        BY <3>1 DEF EngineInv, ThoughtsInv, ThoughtsKeepTheirLane
      <3>3. LogsInv'
        BY <3>1 DEF EngineInv, LogsInv
      <3> QED BY <3>2, <3>3 DEF EngineInv
    <2> QED BY <2>1, <2>2, <2>3, <2>4, <2>5, <2>6, <2>7, <2>8 DEF EngineNext
  <1> QED BY <1>1, <1>2, PTL DEF EngineSpec

\* Each lane lets a model decide what is its own and nothing else, and a call that did not
\* return decides nothing (cognition_model.py:929-1063), for any number of calls, any sizes and
\* any replies.
THEOREM EachLaneIsKept == EngineSpec => []ThoughtsKeepTheirLane
  <1>1. EngineInv => ThoughtsKeepTheirLane
    BY DEF EngineInv, ThoughtsInv
  <1> QED BY <1>1, EngineInvariant, PTL

\* The evidence tells of each thought what became of it, in order, whatever failed, was
\* cancelled or outlived its join, and for any capacity of the logs (cognition_model.py:1006-1063,
\* 1111-1127, 1206-1219).
THEOREM TheEvidenceIsTrue == EngineSpec => []EvidenceTellsTheThought
  <1>1. EngineInv => EvidenceTellsTheThought
    <2> SUFFICES ASSUME EngineInv PROVE EvidenceTellsTheThought
      OBVIOUS
    <2>1. /\ DOMAIN thoughts = 1..Len(thoughts)
          /\ DOMAIN cognitionEvidence = 1..Len(cognitionEvidence)
          /\ DOMAIN ambientEvidence = 1..Len(ambientEvidence)
      BY DEF EngineInv, ThoughtsInv, LogsInv
    <2>2. ASSUME NEW j \in DOMAIN cognitionEvidence
          PROVE  /\ cognitionEvidence[j].thought \in DOMAIN thoughts
                 /\ Tells(cognitionEvidence[j], thoughts[cognitionEvidence[j].thought])
      <3>1. cognitionEvidence[j] \in ToSet(cognitionEvidence)
        BY DEF ToSet
      <3> QED BY <2>1, <3>1 DEF EngineInv, LogsInv
    <2>3. \A j, k \in DOMAIN cognitionEvidence :
            j < k => \/ cognitionEvidence[j].thought < cognitionEvidence[k].thought
                     \/ /\ cognitionEvidence[j].thought = cognitionEvidence[k].thought
                        /\ cognitionEvidence[j].stage = "generation_completed"
                        /\ cognitionEvidence[k].stage = "parse"
      BY <2>1 DEF EngineInv, LogsInv, RecordsInOrder
    <2>4. ASSUME NEW n \in DOMAIN thoughts,
                 Proactive(thoughts[n].opportunity), ~LeftAlone(thoughts[n].opportunity),
                 thoughts[n].status \in Over, Len(cognitionEvidence) < CognitionCapacity
          PROVE  \E j \in DOMAIN cognitionEvidence :
                   cognitionEvidence[j].thought = n /\ Closes(cognitionEvidence[j], thoughts[n])
      <3>1. PICK e \in ToSet(cognitionEvidence) : e.thought = n /\ Closes(e, thoughts[n])
        BY <2>1, <2>4 DEF EngineInv, LogsInv, MustClose
      <3>2. PICK j \in DOMAIN cognitionEvidence : e = cognitionEvidence[j]
        BY DEF ToSet
      <3> QED BY <3>1, <3>2
    <2>5. ASSUME NEW j \in DOMAIN ambientEvidence
          PROVE  LET e == ambientEvidence[j]
                 IN /\ e.thought \in DOMAIN thoughts
                    /\ thoughts[e.thought].opportunity.source = "external"
                    /\ thoughts[e.thought].candidate.intervention = e.intervention
                    /\ e.speaks <=> Speaks(thoughts[e.thought].candidate)
                    /\ ~e.valid => thoughts[e.thought].candidate = Quiet
      <3>1. ambientEvidence[j] \in ToSet(ambientEvidence)
        BY DEF ToSet
      <3>2. /\ ambientEvidence[j].thought \in DOMAIN thoughts
            /\ TellsOfAmbient(ambientEvidence[j], thoughts[ambientEvidence[j].thought])
        BY <2>1, <3>1 DEF EngineInv, LogsInv
      <3> QED BY <3>2 DEF TellsOfAmbient
    <2> QED BY <2>2, <2>3, <2>4, <2>5 DEF EvidenceTellsTheThought
  <1> QED BY <1>1, EngineInvariant, PTL

-----------------------------------------------------------------------------
(* What is sent: the newest that fits (CognitionEngine).  The recursive      *)
(* functions of the model exist and are what their equations say, by the     *)
(* least number for which they would not be.                                 *)

\* A set of numbers has a least one: what the induction of the proofs below comes down to.
LEMMA LeastNatural ==
  ASSUME NEW T \in SUBSET Nat, T # {}
  PROVE  \E n \in T : \A m \in T : n <= m
  <1> DEFINE R == {p \in Nat \X Nat : p[1] < p[2]}
  <1>1. IsWellFoundedOn(R, Nat)
    BY NatLessThanWellFounded DEF OpToRel
  <1> HIDE DEF R
  <1>2. PICK n \in T : \A m \in T : ~(<<m, n>> \in R)
    BY <1>1, WFMin
  <1>3. \A m \in T : ~(m < n)
    BY <1>2 DEF R
  <1> QED BY <1>3

\* A function that is computed from 0 upwards exists.
Computed(N, base, step, f) ==
  f = [n \in 0..N |-> IF n = 0 THEN base ELSE step[<<f[n - 1], n>>]]

\* A function over 0..N that gives each number from the one before exists.
LEMMA RecursionExists ==
  ASSUME NEW N \in Nat, NEW A, NEW base \in A, NEW step \in [A \X (1..N) -> A]
  PROVE  \E f \in [0..N -> A] : Computed(N, base, step, f)
  <1> DEFINE Fails == {m \in 0..N : ~\E f \in [0..m -> A] : Computed(m, base, step, f)}
  <1> SUFFICES ASSUME Fails # {} PROVE FALSE
    OBVIOUS
  <1>1. Fails \in SUBSET Nat
    OBVIOUS
  <1>2. PICK m \in Fails : \A k \in Fails : m <= k
    <2> HIDE DEF Fails
    <2> QED BY <1>1, LeastNatural
  <1>3. m \in 0..N /\ ~\E f \in [0..m -> A] : Computed(m, base, step, f)
    OBVIOUS
  <1>4. CASE m = 0
    <2> DEFINE f == [n \in 0..m |-> base]
    <2>1. f \in [0..m -> A]
      OBVIOUS
    <2>2. Computed(m, base, step, f)
      BY <1>4 DEF Computed
    <2> QED BY <1>3, <2>1, <2>2
  <1>5. CASE m # 0
    <2>1. m - 1 \in 0..N /\ ~(m - 1 \in Fails)
      BY <1>2, <1>3, <1>5
    <2>2. PICK f \in [0..(m - 1) -> A] : Computed(m - 1, base, step, f)
      BY <2>1
    <2> DEFINE last == step[<<f[m - 1], m>>]
               g == [n \in 0..m |-> IF n = m THEN last ELSE f[n]]
    <2>3. last \in A
      BY <1>3, <1>5, <2>2
    <2>4. g \in [0..m -> A]
      <3> HIDE DEF last
      <3> QED BY <1>3, <1>5, <2>2, <2>3
    <2>5. Computed(m, base, step, g)
      <3>1. ASSUME NEW n \in 0..m PROVE g[n] = IF n = 0 THEN base ELSE step[<<g[n - 1], n>>]
        <4>1. CASE n = m
          <5>1. g[n] = step[<<f[m - 1], m>>] /\ g[m - 1] = f[m - 1]
            BY <1>3, <1>5, <4>1
          <5> QED BY <1>5, <4>1, <5>1
        <4>2. CASE n # m
          <5>1. n \in 0..(m - 1) /\ g[n] = f[n]
            BY <1>3, <4>2
          <5>2. f[n] = IF n = 0 THEN base ELSE step[<<f[n - 1], n>>]
            BY <2>2, <5>1 DEF Computed
          <5>3. n # 0 => g[n - 1] = f[n - 1]
            BY <1>3, <5>1
          <5> QED BY <5>1, <5>2, <5>3
        <4> QED BY <4>1, <4>2
      <3> HIDE DEF g
      <3>2. g = [n \in 0..m |-> g[n]]
        BY <2>4
      <3> QED BY <3>1, <3>2 DEF Computed
    <2> QED BY <1>3, <2>4, <2>5
  <1> QED BY <1>4, <1>5

\* The sums of a sequence, from its end.
Sums(s, f) ==
  /\ f \in [0..Len(s) -> Nat] /\ f[0] = 0
  /\ \A n \in 1..Len(s) : f[n] = f[n - 1] + s[Len(s) - n + 1]

\* The total of a sequence is the last of its sums, taken from the newest.
LEMMA TotalIsASum ==
  ASSUME NEW s \in Seq(Nat)
  PROVE  \E f \in [0..Len(s) -> Nat] : Sums(s, f) /\ Total(s) = f[Len(s)]
  <1> DEFINE step == [p \in Nat \X (1..Len(s)) |-> p[1] + s[Len(s) - p[2] + 1]]
  <1>1. Len(s) \in Nat /\ \A n \in 1..Len(s) : s[Len(s) - n + 1] \in Nat
    OBVIOUS
  <1>2. step \in [Nat \X (1..Len(s)) -> Nat]
    BY <1>1
  <1>3. \A k \in Nat, n \in 1..Len(s) : step[<<k, n>>] = k + s[Len(s) - n + 1]
    OBVIOUS
  <1> HIDE DEF step
  <1>4. PICK f \in [0..Len(s) -> Nat] : Computed(Len(s), 0, step, f)
    BY <1>1, <1>2, RecursionExists
  <1>5. \A n \in 0..Len(s) : f[n] = IF n = 0 THEN 0 ELSE step[<<f[n - 1], n>>]
    BY <1>4 DEF Computed
  <1>6. \A n \in 0..Len(s) : f[n] = IF n = 0 THEN 0 ELSE f[n - 1] + s[Len(s) - n + 1]
    <2>1. ASSUME NEW n \in 0..Len(s), n # 0
          PROVE  step[<<f[n - 1], n>>] = f[n - 1] + s[Len(s) - n + 1]
      <3>1. n \in 1..Len(s) /\ n - 1 \in 0..Len(s)
        BY <1>1, <2>1
      <3>2. f[n - 1] \in Nat
        BY <3>1
      <3> QED BY <1>3, <3>1, <3>2
    <2> QED BY <1>5, <2>1
  <1> DEFINE sum == CHOOSE g : g = [n \in 0..Len(s) |->
                                      IF n = 0 THEN 0 ELSE g[n - 1] + s[Len(s) - n + 1]]
  <1>7. f = [n \in 0..Len(s) |-> IF n = 0 THEN 0 ELSE f[n - 1] + s[Len(s) - n + 1]]
    BY <1>6
  <1>8. sum = [n \in 0..Len(s) |-> IF n = 0 THEN 0 ELSE sum[n - 1] + s[Len(s) - n + 1]]
    BY <1>7, Zenon
  <1>9. Total(s) = sum[Len(s)]
    BY Zenon DEF Total
  <1> HIDE DEF sum
  <1>10. \A n \in 0..Len(s) : sum[n] = IF n = 0 THEN 0 ELSE sum[n - 1] + s[Len(s) - n + 1]
    BY <1>8
  <1> DEFINE Differ == {n \in 0..Len(s) : sum[n] # f[n]}
  <1>11. Differ = {}
    <2> SUFFICES ASSUME Differ # {} PROVE FALSE
      OBVIOUS
    <2>1. PICK n \in Differ : \A m \in Differ : n <= m
      <3>1. Differ \in SUBSET Nat
        OBVIOUS
      <3> HIDE DEF Differ
      <3> QED BY <3>1, LeastNatural
    <2>2. n \in 0..Len(s) /\ sum[n] # f[n]
      OBVIOUS
    <2>3. n # 0
      BY <1>1, <1>6, <1>10, <2>2
    <2>4. n - 1 \in 0..Len(s) /\ ~(n - 1 \in Differ)
      BY <1>1, <2>1, <2>2, <2>3
    <2>5. sum[n - 1] = f[n - 1]
      BY <2>4
    <2> QED BY <1>6, <1>10, <2>2, <2>3, <2>5
  <1>12. Len(s) \in 0..Len(s) /\ sum[Len(s)] = f[Len(s)]
    BY <1>1, <1>11
  <1>13. Sums(s, f)
    BY <1>1, <1>6 DEF Sums
  <1> QED BY <1>9, <1>12, <1>13

\* The end of a sequence.
LEMMA TheLastOnes ==
  ASSUME NEW S, NEW s \in Seq(S), NEW n \in 0..Len(s)
  PROVE  /\ LastOnes(s, n) \in Seq(S) /\ Len(LastOnes(s, n)) = n
         /\ \A j \in 1..n : LastOnes(s, n)[j] = s[Len(s) - n + j]
  <1>1. Len(s) \in Nat /\ Len(s) - n + 1 \in Int /\ Len(s) \in Int
    OBVIOUS
  <1>2. \A i \in (Len(s) - n + 1)..Len(s) : s[i] \in S
    BY <1>1, ElementOfSeq
  <1> DEFINE e == SubSeq(s, Len(s) - n + 1, Len(s))
  <1>3. /\ e \in Seq(S)
        /\ Len(e) = IF Len(s) - n + 1 <= Len(s) THEN Len(s) - (Len(s) - n + 1) + 1 ELSE 0
        /\ \A i \in 1..(Len(s) - (Len(s) - n + 1) + 1) : e[i] = s[(Len(s) - n + 1) + i - 1]
    BY <1>1, <1>2, SubSeqProperties
  <1> HIDE DEF e
  <1>4. Len(e) = n /\ \A j \in 1..n : e[j] = s[Len(s) - n + j]
    BY <1>1, <1>3
  <1> QED BY <1>3, <1>4 DEF LastOnes, e

\* The sums of a sequence are the totals of its ends, and they grow.
LEMMA TotalsOfEnds ==
  ASSUME NEW s \in Seq(Nat), NEW f, Sums(s, f), NEW n \in 0..Len(s)
  PROVE  Total(LastOnes(s, n)) = f[n]
  <1> DEFINE t == LastOnes(s, n)
  <1>1. /\ t \in Seq(Nat) /\ Len(t) = n /\ Len(s) \in Nat
        /\ \A j \in 1..n : t[j] = s[Len(s) - n + j]
    BY TheLastOnes
  <1> HIDE DEF t
  <1>2. PICK g \in [0..Len(t) -> Nat] : Sums(t, g) /\ Total(t) = g[Len(t)]
    BY <1>1, TotalIsASum
  <1> DEFINE Differ == {k \in 0..n : g[k] # f[k]}
  <1>3. Differ = {}
    <2> SUFFICES ASSUME Differ # {} PROVE FALSE
      OBVIOUS
    <2>1. PICK k \in Differ : \A m \in Differ : k <= m
      <3>1. Differ \in SUBSET Nat
        OBVIOUS
      <3> HIDE DEF Differ
      <3> QED BY <3>1, LeastNatural
    <2>2. k \in 0..n /\ g[k] # f[k]
      OBVIOUS
    <2>3. k # 0
      BY <1>2, <2>2 DEF Sums
    <2>4. k - 1 \in 0..n /\ ~(k - 1 \in Differ)
      BY <2>1, <2>2, <2>3
    <2>5. g[k - 1] = f[k - 1]
      BY <2>4
    <2>6. g[k] = g[k - 1] + t[n - k + 1] /\ f[k] = f[k - 1] + s[Len(s) - k + 1]
      <3>1. k \in 1..Len(t) /\ k \in 1..Len(s)
        BY <1>1, <2>2, <2>3
      <3>2. g[k] = g[k - 1] + t[Len(t) - k + 1]
        BY <1>2, <3>1 DEF Sums
      <3>3. f[k] = f[k - 1] + s[Len(s) - k + 1]
        BY <3>1 DEF Sums
      <3> QED BY <1>1, <3>2, <3>3
    <2>7. n - k + 1 \in 1..n /\ Len(s) - n + (n - k + 1) = Len(s) - k + 1
      BY <1>1, <2>2, <2>3
    <2>8. t[n - k + 1] = s[Len(s) - k + 1]
      BY <1>1, <2>7
    <2> QED BY <2>2, <2>5, <2>6, <2>8
  <1>4. n \in 0..n
    OBVIOUS
  <1> QED BY <1>1, <1>2, <1>3, <1>4 DEF t

\* A longer suffix has no smaller total.
LEMMA TotalsGrow ==
  ASSUME NEW s \in Seq(Nat), NEW f, Sums(s, f), NEW m \in 0..Len(s), NEW n \in m..Len(s)
  PROVE  f[m] <= f[n]
  <1>0. Len(s) \in Nat /\ m \in Nat
    OBVIOUS
  <1> DEFINE Less == {k \in m..Len(s) : ~(f[m] <= f[k])}
  <1>1. Less = {}
    <2> SUFFICES ASSUME Less # {} PROVE FALSE
      OBVIOUS
    <2>1. PICK k \in Less : \A j \in Less : k <= j
      <3>1. Less \in SUBSET Nat
        OBVIOUS
      <3> HIDE DEF Less
      <3> QED BY <3>1, LeastNatural
    <2>2. k \in m..Len(s) /\ ~(f[m] <= f[k])
      OBVIOUS
    <2>3. f[m] \in Nat /\ f[k] \in Nat
      <3>1. k \in 0..Len(s)
        BY <1>0, <2>2
      <3> QED BY <3>1 DEF Sums
    <2>4. k # m
      BY <2>2, <2>3
    <2>5. k - 1 \in m..Len(s) /\ ~(k - 1 \in Less)
      BY <2>1, <2>2, <2>4
    <2>6. f[m] <= f[k - 1]
      BY <2>5
    <2>7. k \in 1..Len(s) /\ Len(s) - k + 1 \in 1..Len(s) /\ k - 1 \in 0..Len(s)
      BY <1>0, <2>2, <2>4
    <2>8. f[k] = f[k - 1] + s[Len(s) - k + 1] /\ f[k - 1] \in Nat
      BY <2>7 DEF Sums
    <2>9. s[Len(s) - k + 1] \in Nat
      BY <2>7, ElementOfSeq
    <2> QED BY <2>2, <2>3, <2>6, <2>8, <2>9
  <1> QED BY <1>1

\* What is fitted is the longest end that fits: when every message fits alone, and the newest
\* is always among them.
LEMMA FittedContext ==
  ASSUME NEW s \in Seq(1..MaxContext)
  PROVE  /\ FitContext(s) \in Seq(1..MaxContext)
         /\ LongestSuffix(FitContext(s), s, MaxContext)
         /\ s # <<>> => FitContext(s) # <<>> /\ Last(FitContext(s)) = Last(s)
  <1> DEFINE N == Len(s)
             Fits == {n \in 0..N : n <= 1 \/ Total(LastOnes(s, n)) <= MaxContext}
             step == [p \in Nat \X (1..N) |-> IF p[2] \in Fits THEN p[2] ELSE p[1]]
  <1>1. N \in Nat /\ MaxContext \in Nat \ {0}
    BY EngineAssumption
  <1>2. step \in [Nat \X (1..N) -> Nat]
    <2> HIDE DEF Fits, N
    <2> QED BY <1>1
  <1>3. \A k \in Nat, n \in 1..N : step[<<k, n>>] = IF n \in Fits THEN n ELSE k
    <2> HIDE DEF Fits, N
    <2> QED BY <1>1
  <1>4. PICK f \in [0..N -> Nat] : Computed(N, 0, step, f)
    <2> HIDE DEF step, N
    <2> QED BY <1>1, <1>2, RecursionExists
  <1>5. \A n \in 0..N : f[n] = IF n \in Fits THEN n ELSE f[n - 1]
    <2> HIDE DEF step
    <2>1. \A n \in 0..N : f[n] = IF n = 0 THEN 0 ELSE step[<<f[n - 1], n>>]
      BY <1>4 DEF Computed
    <2>2. ASSUME NEW n \in 0..N, n # 0
          PROVE  step[<<f[n - 1], n>>] = IF n \in Fits THEN n ELSE f[n - 1]
      <3>1. n \in 1..N /\ n - 1 \in 0..N
        BY <1>1, <2>2
      <3>2. f[n - 1] \in Nat
        BY <3>1
      <3> HIDE DEF Fits
      <3> QED BY <1>3, <3>1, <3>2
    <2>3. 0 \in Fits
      BY <1>1
    <2> HIDE DEF Fits
    <2> QED BY <2>1, <2>2, <2>3
  <1> DEFINE kept == CHOOSE g : g = [n \in 0..Len(s) |->
                       IF n <= 1 \/ Total(LastOnes(s, n)) <= MaxContext THEN n ELSE g[n - 1]]
  <1>6. f = [n \in 0..Len(s) |->
               IF n <= 1 \/ Total(LastOnes(s, n)) <= MaxContext THEN n ELSE f[n - 1]]
    <2>1. \A n \in 0..N :
             f[n] = IF n <= 1 \/ Total(LastOnes(s, n)) <= MaxContext THEN n ELSE f[n - 1]
      BY <1>5
    <2> QED BY <2>1
  <1>7. kept = [n \in 0..Len(s) |->
                  IF n <= 1 \/ Total(LastOnes(s, n)) <= MaxContext THEN n ELSE kept[n - 1]]
    BY <1>6, Zenon
  <1>8. FitContext(s) = LastOnes(s, kept[N])
    BY Zenon DEF FitContext
  <1> HIDE DEF kept
  <1>9. \A n \in 0..N : kept[n] = IF n \in Fits THEN n ELSE kept[n - 1]
    BY <1>7
  <1> HIDE DEF step
  <1> DEFINE Wrong ==
        {n \in 0..N : ~(kept[n] \in 0..n /\ kept[n] \in Fits
                        /\ \A m \in (kept[n] + 1)..n : m \notin Fits)}
  <1>10. Wrong = {}
    <2> SUFFICES ASSUME Wrong # {} PROVE FALSE
      OBVIOUS
    <2>1. PICK n \in Wrong : \A m \in Wrong : n <= m
      <3>1. Wrong \in SUBSET Nat
        BY <1>1
      <3> HIDE DEF Wrong
      <3> QED BY <3>1, LeastNatural
    <2>2. n \in 0..N
      OBVIOUS
    <2>3. 0 \in Fits
      BY <1>1
    <2>4. n \notin Fits
      <3> SUFFICES ASSUME n \in Fits PROVE FALSE
        OBVIOUS
      <3>1. kept[n] = n
        BY <1>9, <2>2
      <3> HIDE DEF Fits
      <3> QED BY <1>1, <2>1, <2>2, <3>1
    <2> HIDE DEF Fits
    <2>5. n # 0 /\ kept[n] = kept[n - 1]
      BY <1>9, <2>2, <2>3, <2>4
    <2>6. n - 1 \in 0..N /\ ~(n - 1 \in Wrong)
      BY <1>1, <2>1, <2>2, <2>5
    <2>7. /\ kept[n] \in 0..(n - 1) /\ kept[n] \in Fits
          /\ \A m \in (kept[n] + 1)..(n - 1) : m \notin Fits
      BY <2>5, <2>6
    <2>8. \A m \in (kept[n] + 1)..n : m \in (kept[n] + 1)..(n - 1) \/ m = n
      BY <2>2, <2>7
    <2> QED BY <1>1, <2>1, <2>2, <2>4, <2>7, <2>8
  <1> DEFINE K == kept[N]
             c == LastOnes(s, K)
  <1>11. K \in 0..N /\ K \in Fits /\ \A m \in (K + 1)..N : m \notin Fits
    <2>1. N \in 0..N /\ ~(N \in Wrong)
      BY <1>1, <1>10
    <2> HIDE DEF N, Fits
    <2> QED BY <1>1, <2>1
  <1> HIDE DEF K
  <1>12. /\ c \in Seq(1..MaxContext) /\ Len(c) = K
         /\ \A j \in 1..K : c[j] = s[N - K + j]
    BY <1>11, TheLastOnes
  <1>13. Total(c) <= MaxContext
    <2>1. CASE ~(K <= 1)
      BY <1>11, <2>1
    <2>2. CASE K <= 1
      <3>1. c \in Seq(Nat)
        BY <1>1, <1>12, SeqMonotonic
      <3> HIDE DEF c
      <3>2. PICK g \in [0..Len(c) -> Nat] : Sums(c, g) /\ Total(c) = g[Len(c)]
        BY <3>1, TotalIsASum
      <3>3. CASE K = 0
        BY <1>1, <1>12, <3>2, <3>3 DEF Sums
      <3>4. CASE K = 1
        <4>1. 1 \in 1..Len(c)
          BY <1>12, <3>4
        <4>2. g[1] = g[0] + c[1] /\ g[0] = 0
          BY <1>12, <3>2, <3>4, <4>1 DEF Sums
        <4>3. c[1] \in 1..MaxContext
          BY <1>12, <4>1, ElementOfSeq
        <4> QED BY <1>1, <1>12, <3>2, <3>4, <4>2, <4>3
      <3> QED BY <1>11, <2>2, <3>3, <3>4
    <2> QED BY <2>1, <2>2
  <1>14. \A n \in (Len(c) + 1)..Len(s) : Total(LastOnes(s, n)) > MaxContext
    <2> SUFFICES ASSUME NEW n \in (K + 1)..N PROVE Total(LastOnes(s, n)) > MaxContext
      <3> HIDE DEF c
      <3> QED BY <1>12
    <2>1. n \in 0..N /\ n \notin Fits
      <3> HIDE DEF Fits, N
      <3> QED BY <1>1, <1>11
    <2>2. ~(Total(LastOnes(s, n)) <= MaxContext)
      BY <2>1
    <2>3. Total(LastOnes(s, n)) \in Nat
      <3>1. s \in Seq(Nat)
        BY <1>1, SeqMonotonic
      <3>2. PICK g \in [0..Len(s) -> Nat] : Sums(s, g) /\ Total(s) = g[Len(s)]
        BY <3>1, TotalIsASum
      <3>3. Total(LastOnes(s, n)) = g[n]
        BY <2>1, <3>1, <3>2, TotalsOfEnds
      <3> QED BY <2>1, <3>2, <3>3
    <2> HIDE DEF N
    <2> QED BY <1>1, <2>2, <2>3
  <1>15. LongestSuffix(c, s, MaxContext)
    <2> HIDE DEF Fits
    <2>1. Len(c) <= Len(s) /\ c = LastOnes(s, Len(c))
      BY <1>1, <1>11, <1>12
    <2> HIDE DEF c
    <2> QED BY <1>13, <1>14, <2>1 DEF LongestSuffix
  <1>16. s # <<>> => c # <<>> /\ Last(c) = Last(s)
    <2> SUFFICES ASSUME s # <<>> PROVE c # <<>> /\ Last(c) = Last(s)
      OBVIOUS
    <2>1. N # 0
      OBVIOUS
    <2>2. K # 0
      <3> SUFFICES ASSUME K = 0 PROVE FALSE
        OBVIOUS
      <3>1. 1 \in (K + 1)..N
        BY <1>1, <2>1
      <3>2. 1 \notin Fits
        BY <1>11, <3>1
      <3> QED BY <1>1, <2>1, <3>2
    <2> HIDE DEF Fits, c
    <2>3. K \in 1..K /\ N - K + K = N
      BY <1>1, <1>11, <2>2
    <2>4. c[K] = s[N]
      BY <1>12, <2>3
    <2> QED BY <1>12, <2>2, <2>4 DEF Last
  <1> QED
    <2>1. FitContext(s) = c
      BY <1>8 DEF K
    <2> HIDE DEF c
    <2> QED BY <1>12, <1>15, <1>16, <2>1

\* The prompt is its header and the longest end of the sections that leaves room for it.
LEMMA FittedPrompt ==
  ASSUME NEW s \in Seq(Nat)
  PROVE  /\ Head(FitPrompt(s)) = Header
         /\ LongestSuffix(Tail(FitPrompt(s)), s, MaxContext - Header)
  <1> DEFINE N == Len(s)
             Stops == {n \in 0..N : n = N \/ Header + Total(LastOnes(s, n + 1)) > MaxContext}
             step == [p \in (0..N) \X (1..N) |-> IF N - p[2] \in Stops THEN N - p[2] ELSE p[1]]
  <1>1. N \in Nat /\ MaxContext \in Nat \ {0} /\ Header = 1
    BY EngineAssumption DEF Header
  <1>2. step \in [(0..N) \X (1..N) -> 0..N]
    <2> HIDE DEF Stops, N
    <2> QED BY <1>1
  <1>3. \A k \in 0..N, n \in 1..N : step[<<k, n>>] = IF N - n \in Stops THEN N - n ELSE k
    <2> HIDE DEF Stops, N
    <2> QED BY <1>1
  <1>4. PICK f \in [0..N -> 0..N] : Computed(N, N, step, f)
    <2> HIDE DEF step, N
    <2>1. N \in 0..N
      BY <1>1
    <2> QED BY <1>1, <1>2, <2>1, RecursionExists
  <1>5. N \in Stops
    BY <1>1
  <1>6. \A n \in 0..N : f[n] = IF N - n \in Stops THEN N - n ELSE f[n - 1]
    <2> HIDE DEF step
    <2>1. \A n \in 0..N : f[n] = IF n = 0 THEN N ELSE step[<<f[n - 1], n>>]
      BY <1>4 DEF Computed
    <2>2. ASSUME NEW n \in 0..N, n # 0
          PROVE  step[<<f[n - 1], n>>] = IF N - n \in Stops THEN N - n ELSE f[n - 1]
      <3>1. n \in 1..N /\ n - 1 \in 0..N
        BY <1>1, <2>2
      <3>2. f[n - 1] \in 0..N
        BY <3>1
      <3> HIDE DEF Stops
      <3> QED BY <1>3, <3>1, <3>2
    <2>3. f[0] = N /\ N - 0 = N
      <3>1. 0 \in 0..N
        BY <1>1
      <3> HIDE DEF N
      <3>2. f[0] = N
        BY <2>1, <3>1
      <3> QED BY <1>1, <3>2
    <2> HIDE DEF Stops, N
    <2>4. ASSUME NEW n \in 0..N PROVE f[n] = IF N - n \in Stops THEN N - n ELSE f[n - 1]
      <3>1. CASE n = 0
        BY <1>5, <2>3, <3>1
      <3>2. CASE n # 0
        BY <2>1, <2>2, <3>2
      <3> QED BY <3>1, <3>2
    <2> QED BY <2>4
  <1> DEFINE a == [n \in 0..N |-> f[N - n]]
             added == CHOOSE g : g = [n \in 0..Len(s) |->
                        IF n = Len(s) \/ Header + Total(LastOnes(s, n + 1)) > MaxContext
                        THEN n ELSE g[n + 1]]
  <1>7. a = [n \in 0..Len(s) |->
               IF n = Len(s) \/ Header + Total(LastOnes(s, n + 1)) > MaxContext
               THEN n ELSE a[n + 1]]
    <2>1. ASSUME NEW n \in 0..N
          PROVE  a[n] = IF n \in Stops THEN n ELSE a[n + 1]
      <3>1. N - n \in 0..N /\ N - (N - n) = n /\ a[n] = f[N - n]
        BY <1>1
      <3>2. a[n] = IF n \in Stops THEN n ELSE f[N - n - 1]
        <4> HIDE DEF Stops, N, a
        <4> QED BY <1>6, <3>1
      <3>3. CASE n \in Stops
        BY <3>2, <3>3
      <3>4. CASE n \notin Stops
        <4>1. n + 1 \in 0..N /\ N - (n + 1) = N - n - 1
          BY <1>1, <1>5, <3>4
        <4>2. a[n + 1] = f[N - n - 1]
          BY <4>1
        <4> HIDE DEF Stops, a
        <4> QED BY <3>2, <3>4, <4>2
      <3> QED BY <3>3, <3>4
    <2>2. a = [n \in 0..N |-> a[n]]
      OBVIOUS
    <2> HIDE DEF a
    <2>3. \A n \in 0..N : a[n] = IF n = Len(s) \/ Header + Total(LastOnes(s, n + 1)) > MaxContext
                                 THEN n ELSE a[n + 1]
      BY <2>1
    <2> QED BY <2>2, <2>3
  <1> HIDE DEF a
  <1>8. added = [n \in 0..Len(s) |->
                   IF n = Len(s) \/ Header + Total(LastOnes(s, n + 1)) > MaxContext
                   THEN n ELSE added[n + 1]]
    BY <1>7, Zenon
  <1>9. FitPrompt(s) = <<Header>> \o LastOnes(s, added[0])
    BY Zenon DEF FitPrompt
  <1> HIDE DEF added
  <1>10. \A n \in 0..N : added[n] = IF n \in Stops THEN n ELSE added[n + 1]
    BY <1>8
  <1> HIDE DEF step
  <1> DEFINE Wrong ==
        {j \in 0..N : ~(added[N - j] \in (N - j)..N /\ added[N - j] \in Stops
                        /\ \A m \in (N - j)..(added[N - j] - 1) : m \notin Stops)}
  <1>11. Wrong = {}
    <2> SUFFICES ASSUME Wrong # {} PROVE FALSE
      OBVIOUS
    <2>1. PICK j \in Wrong : \A m \in Wrong : j <= m
      <3>1. Wrong \in SUBSET Nat
        BY <1>1
      <3> HIDE DEF Wrong
      <3> QED BY <3>1, LeastNatural
    <2>2. j \in 0..N
      OBVIOUS
    <2> DEFINE n == N - j
    <2>3. n \in 0..N
      BY <1>1, <2>2
    <2>4. n \notin Stops
      <3> SUFFICES ASSUME n \in Stops PROVE FALSE
        OBVIOUS
      <3>1. added[n] = n
        BY <1>10, <2>3
      <3> HIDE DEF Stops
      <3> QED BY <1>1, <2>1, <2>2, <3>1
    <2> HIDE DEF Stops
    <2>5. n # N /\ added[n] = added[n + 1]
      BY <1>5, <1>10, <2>3, <2>4
    <2>6. j - 1 \in 0..N /\ ~(j - 1 \in Wrong) /\ N - (j - 1) = n + 1
      <3>1. j # 0
        BY <1>1, <2>2, <2>5
      <3>2. j - 1 \in 0..N /\ N - (j - 1) = n + 1 /\ ~(j <= j - 1)
        BY <1>1, <2>2, <3>1
      <3>3. ~(j - 1 \in Wrong)
        <4> HIDE DEF Wrong
        <4> QED BY <2>1, <3>2
      <3> QED BY <3>2, <3>3
    <2>7. /\ added[n + 1] \in (n + 1)..N /\ added[n + 1] \in Stops
          /\ \A m \in (n + 1)..(added[n + 1] - 1) : m \notin Stops
      BY <2>6
    <2>8. \A m \in n..(added[n] - 1) : m \in (n + 1)..(added[n] - 1) \/ m = n
      BY <2>3, <2>5, <2>7
    <2>9. \A m \in n..(added[n] - 1) : m \notin Stops
      <3> HIDE DEF n
      <3> QED BY <2>4, <2>5, <2>7, <2>8
    <2>10. added[n] \in n..N /\ added[n] \in Stops
      <3> HIDE DEF n
      <3> QED BY <1>1, <2>3, <2>5, <2>7
    <2> QED BY <2>1, <2>9, <2>10
  <1> DEFINE K == added[0]
             c == LastOnes(s, K)
  <1>12. K \in 0..N /\ K \in Stops /\ \A m \in 0..(K - 1) : m \notin Stops
    <2>1. N \in 0..N /\ ~(N \in Wrong) /\ N - N = 0
      <3> HIDE DEF Wrong, N
      <3> QED BY <1>1, <1>11
    <2> HIDE DEF N, Stops
    <2> QED BY <1>1, <2>1
  <1> HIDE DEF K
  <1>13. c \in Seq(Nat) /\ Len(c) = K /\ K \in Nat
    BY <1>12, TheLastOnes
  <1>14. PICK g \in [0..Len(s) -> Nat] : Sums(s, g) /\ Total(s) = g[Len(s)]
    BY TotalIsASum
  <1>15. \A n \in 0..N : Total(LastOnes(s, n)) = g[n] /\ g[n] \in Nat
    BY <1>14, TotalsOfEnds
  <1>16. Total(c) <= MaxContext - Header
    <2>1. CASE K = 0
      <3>1. Total(c) = g[0] /\ g[0] = 0
        BY <1>1, <1>14, <1>15, <2>1 DEF Sums
      <3> HIDE DEF c
      <3> QED BY <1>1, <3>1
    <2>2. CASE K # 0
      <3>1. K - 1 \in 0..(K - 1) /\ K - 1 \in 0..N /\ K - 1 + 1 = K
        BY <1>1, <1>12, <2>2
      <3>2. K - 1 \notin Stops
        <4> HIDE DEF Stops
        <4> QED BY <1>12, <3>1
      <3>3. ~(Header + Total(c) > MaxContext)
        BY <3>1, <3>2
      <3>4. Total(c) \in Nat
        BY <1>12, <1>15
      <3> HIDE DEF c
      <3> QED BY <1>1, <3>3, <3>4
    <2> QED BY <2>1, <2>2
  <1>17. \A n \in (Len(c) + 1)..Len(s) : Total(LastOnes(s, n)) > MaxContext - Header
    <2> SUFFICES ASSUME NEW n \in (K + 1)..N PROVE Total(LastOnes(s, n)) > MaxContext - Header
      <3> HIDE DEF c
      <3> QED BY <1>13
    <2>1. n \in 0..N /\ K + 1 \in 0..Len(s) /\ n \in (K + 1)..Len(s) /\ K # N
      <3> HIDE DEF Stops
      <3> QED BY <1>1, <1>12
    <2>2. Header + Total(LastOnes(s, K + 1)) > MaxContext
      BY <1>12, <2>1
    <2>3. g[K + 1] <= g[n]
      BY <1>14, <2>1, TotalsGrow
    <2>4. Total(LastOnes(s, n)) = g[n] /\ Total(LastOnes(s, K + 1)) = g[K + 1]
          /\ g[n] \in Nat /\ g[K + 1] \in Nat
      BY <1>15, <2>1
    <2>5. Header + g[K + 1] > MaxContext
      BY <2>2, <2>4
    <2>6. g[n] > MaxContext - Header
      BY <1>1, <2>3, <2>4, <2>5
    <2> QED BY <2>4, <2>6
  <1>18. LongestSuffix(c, s, MaxContext - Header)
    <2>1. Len(c) <= Len(s) /\ c = LastOnes(s, Len(c))
      <3> HIDE DEF Stops
      <3> QED BY <1>1, <1>12, <1>13
    <2> HIDE DEF c
    <2> QED BY <1>16, <1>17, <2>1 DEF LongestSuffix
  <1>19. Head(FitPrompt(s)) = Header /\ Tail(FitPrompt(s)) = c
    <2>1. FitPrompt(s) = <<Header>> \o c
      BY <1>9 DEF K
    <2>2. <<Header>> \in Seq(Nat) /\ Len(<<Header>>) = 1 /\ <<Header>>[1] = Header
      BY <1>1
    <2> HIDE DEF c
    <2> DEFINE p == <<Header>> \o c
    <2>3. /\ p \in Seq(Nat) /\ Len(p) = 1 + Len(c) /\ p[1] = Header
          /\ \A j \in 1..Len(c) : p[j + 1] = c[j]
      <3> DEFINE h == <<Header>>
      <3>0. h \in Seq(Nat) /\ Len(h) = 1 /\ h[1] = Header
        BY <2>2
      <3> HIDE DEF h
      <3>1. /\ h \o c \in Seq(Nat) /\ Len(h \o c) = Len(h) + Len(c)
            /\ \A j \in 1..(Len(h) + Len(c)) : (h \o c)[j] = IF j <= Len(h) THEN h[j] ELSE c[j - Len(h)]
        BY <1>13, <3>0, ConcatProperties
      <3>2. (h \o c)[1] = Header
        BY <1>13, <3>0, <3>1
      <3>3. ASSUME NEW j \in 1..Len(c) PROVE (h \o c)[j + 1] = c[j]
        <4>1. j + 1 \in 1..(Len(h) + Len(c)) /\ ~(j + 1 <= Len(h)) /\ j + 1 - Len(h) = j
          BY <1>13, <3>0
        <4> QED BY <3>1, <4>1
      <3> QED BY <3>0, <3>1, <3>2, <3>3 DEF h
    <2> HIDE DEF p
    <2>4. p # <<>>
      BY <1>13, <2>3
    <2>5. Head(p) = Header
      BY <2>3, <2>4
    <2>6. /\ Tail(p) \in Seq(Nat) /\ Len(Tail(p)) = Len(c)
          /\ \A j \in 1..Len(Tail(p)) : Tail(p)[j] = p[j + 1]
      <3>1. /\ Tail(p) \in Seq(Nat) /\ Len(Tail(p)) = Len(p) - 1
            /\ \A j \in 1..Len(Tail(p)) : Tail(p)[j] = p[j + 1]
        BY <2>3, <2>4, HeadTailProperties
      <3> QED BY <1>13, <2>3, <3>1
    <2>7. Tail(p) = c
      BY <1>13, <2>3, <2>6, SeqEqual
    <2> QED BY <2>1, <2>5, <2>7 DEF p
  <1> QED
    <2> HIDE DEF c
    <2> QED BY <1>18, <1>19

\* What is shown of the observations are sections, each of some size.
LEMMA SectionsTyped ==
  ASSUME NEW observations \in Seq(Nat)
  PROVE  Rendered(observations) \in Seq(Nat)
  <1> DEFINE N == Len(observations)
             shown(n) == IF observations[n] > MaxObservation THEN Notice ELSE observations[n]
             step == [p \in Seq(Nat) \X (1..N) |->
                        IF observations[p[2]] = 0 THEN p[1] ELSE Append(p[1], shown(p[2]))]
  <1>1. N \in Nat /\ Notice \in Nat /\ \A n \in 1..N : shown(n) \in Nat
    BY DEF Notice
  <1> HIDE DEF shown
  <1>2. step \in [Seq(Nat) \X (1..N) -> Seq(Nat)]
    <2>1. \A p \in Seq(Nat) \X (1..N) : p[1] \in Seq(Nat) /\ Append(p[1], shown(p[2])) \in Seq(Nat)
      BY <1>1, AppendProperties
    <2> HIDE DEF N
    <2> QED BY <2>1
  <1>3. \A k \in Seq(Nat), n \in 1..N :
          step[<<k, n>>] = IF observations[n] = 0 THEN k ELSE Append(k, shown(n))
    <2> HIDE DEF N
    <2> QED BY <1>1
  <1>4. PICK f \in [0..N -> Seq(Nat)] : Computed(N, <<>>, step, f)
    <2> HIDE DEF step, N
    <2>1. <<>> \in Seq(Nat)
      OBVIOUS
    <2> QED BY <1>1, <1>2, <2>1, RecursionExists
  <1>5. \A n \in 0..N :
          f[n] = IF n = 0 THEN <<>>
                 ELSE IF observations[n] = 0 THEN f[n - 1] ELSE Append(f[n - 1], shown(n))
    <2> HIDE DEF step
    <2>1. \A n \in 0..N : f[n] = IF n = 0 THEN <<>> ELSE step[<<f[n - 1], n>>]
      BY <1>4 DEF Computed
    <2>2. ASSUME NEW n \in 0..N, n # 0
          PROVE  step[<<f[n - 1], n>>] =
                   IF observations[n] = 0 THEN f[n - 1] ELSE Append(f[n - 1], shown(n))
      <3>1. n \in 1..N /\ n - 1 \in 0..N
        BY <1>1, <2>2
      <3>2. f[n - 1] \in Seq(Nat)
        BY <3>1
      <3> HIDE DEF N
      <3> QED BY <1>3, <3>1, <3>2
    <2> HIDE DEF N
    <2> QED BY <2>1, <2>2
  <1> DEFINE rendered == CHOOSE g : g = [n \in 0..Len(observations) |->
               IF n = 0 THEN <<>>
               ELSE IF observations[n] = 0 THEN g[n - 1]
               ELSE Append(g[n - 1],
                           IF observations[n] > MaxObservation THEN Notice ELSE observations[n])]
  <1>6. f = [n \in 0..Len(observations) |->
               IF n = 0 THEN <<>>
               ELSE IF observations[n] = 0 THEN f[n - 1]
               ELSE Append(f[n - 1],
                           IF observations[n] > MaxObservation THEN Notice ELSE observations[n])]
    <2> HIDE DEF step
    <2> QED BY <1>5 DEF shown
  <1>7. rendered = [n \in 0..Len(observations) |->
               IF n = 0 THEN <<>>
               ELSE IF observations[n] = 0 THEN rendered[n - 1]
               ELSE Append(rendered[n - 1],
                           IF observations[n] > MaxObservation THEN Notice ELSE observations[n])]
    BY <1>6, Zenon
  <1>8. Rendered(observations) = IF rendered[N] = <<>> THEN <<Notice>> ELSE rendered[N]
    BY Zenon DEF Rendered
  <1> HIDE DEF rendered, step
  <1>9. \A n \in 0..N :
          rendered[n] = IF n = 0 THEN <<>>
                        ELSE IF observations[n] = 0 THEN rendered[n - 1]
                        ELSE Append(rendered[n - 1], shown(n))
    BY <1>7 DEF shown
  <1> DEFINE Untyped == {n \in 0..N : rendered[n] \notin Seq(Nat)}
  <1>10. Untyped = {}
    <2> SUFFICES ASSUME Untyped # {} PROVE FALSE
      OBVIOUS
    <2>1. PICK n \in Untyped : \A m \in Untyped : n <= m
      <3>1. Untyped \in SUBSET Nat
        BY <1>1
      <3> HIDE DEF Untyped
      <3> QED BY <3>1, LeastNatural
    <2>2. n \in 0..N /\ rendered[n] \notin Seq(Nat)
      OBVIOUS
    <2>3. n # 0
      <3> SUFFICES ASSUME n = 0 PROVE FALSE
        OBVIOUS
      <3>1. rendered[n] = <<>>
        BY <1>9, <2>2
      <3> QED BY <2>2, <3>1
    <2>4. n \in 1..N /\ n - 1 \in 0..N /\ ~(n <= n - 1)
      BY <1>1, <2>2, <2>3
    <2>5. rendered[n - 1] \in Seq(Nat)
      BY <2>1, <2>4
    <2> HIDE DEF N
    <2>6. Append(rendered[n - 1], shown(n)) \in Seq(Nat)
      BY <1>1, <2>4, <2>5, AppendProperties
    <2> QED BY <1>9, <2>2, <2>3, <2>5, <2>6
  <1>11. rendered[N] \in Seq(Nat)
    <2>1. N \in 0..N
      BY <1>1
    <2> QED BY <1>10, <2>1
  <1>12. <<Notice>> \in Seq(Nat)
    BY <1>1
  <1> QED BY <1>8, <1>11, <1>12

\* The window on a history ends where the history does.
LEMMA WindowEndsAlike ==
  ASSUME NEW s \in Seq(1..MaxContext), NEW n \in Nat \ {0}
  PROVE  /\ Window(s, n) \in Seq(1..MaxContext)
         /\ s # <<>> => Window(s, n) # <<>> /\ Last(Window(s, n)) = Last(s)
  <1>1. CASE ~(Len(s) > n)
    BY <1>1 DEF Window
  <1>2. CASE Len(s) > n
    <2> DEFINE w == LastOnes(s, n)
    <2>1. n \in 0..Len(s) /\ Len(s) \in Nat
      BY <1>2
    <2>2. /\ w \in Seq(1..MaxContext) /\ Len(w) = n
          /\ \A j \in 1..n : w[j] = s[Len(s) - n + j]
      BY <2>1, TheLastOnes
    <2>3. Window(s, n) = w
      BY <1>2 DEF Window
    <2> HIDE DEF w
    <2>4. n \in 1..n /\ Len(s) - n + n = Len(s)
      BY <2>1
    <2>5. w # <<>> /\ w[Len(w)] = s[Len(s)]
      BY <2>2, <2>4
    <2> QED BY <2>2, <2>3, <2>5 DEF Last
  <1> QED BY <1>1, <1>2

\* What comes with an opportunity.
LEMMA GivenTyped ==
  ASSUME NEW o \in Opportunities, NEW given \in Given(o)
  PROVE  /\ o.source = "external" => given \in Seq(Nat)
         /\ o.source = "user" => given \in Seq(1..MaxContext) /\ given # <<>>
         /\ o.source = "internal" /\ o.reason = "appraisal" => given \in Seq(1..MaxContext)
  <1>1. Sizes \subseteq 1..MaxContext /\ MaxContext \in Nat
    BY EngineAssumption
  <1>2. ASSUME NEW S, NEW s \in BoundedSeq(S, MaxGiven) PROVE s \in Seq(S)
    <2>1. PICK m \in 0..MaxGiven : s \in [1..m -> S]
      BY DEF BoundedSeq, SeqOf
    <2>2. m \in Nat
      BY <2>1, EngineAssumption
    <2> QED BY <2>1, <2>2, SeqDef
  <1>3. CASE o.source = "external"
    <2>1. given \in BoundedSeq(Sizes \cup {0}, MaxGiven)
      BY <1>3 DEF Given
    <2>2. given \in Seq(Sizes \cup {0}) /\ Sizes \cup {0} \subseteq Nat
      BY <1>1, <1>2, <2>1
    <2>3. given \in Seq(Nat)
      BY <2>2, SeqMonotonic
    <2> QED BY <1>3, <2>3
  <1>4. CASE o.source = "user"
    <2>1. given \in BoundedSeq(Sizes, MaxGiven) /\ given # <<>>
      BY <1>4 DEF Given
    <2>2. given \in Seq(1..MaxContext)
      BY <1>1, <1>2, <2>1, SeqMonotonic
    <2> QED BY <1>4, <2>1, <2>2
  <1>5. CASE o.source = "internal" /\ o.reason = "appraisal"
    <2>1. given \in BoundedSeq(Sizes, MaxGiven)
      BY <1>5 DEF Given
    <2>2. given \in Seq(1..MaxContext)
      BY <1>1, <1>2, <2>1, SeqMonotonic
    <2> QED BY <1>5, <2>2
  <1> QED BY <1>3, <1>4, <1>5

\* While a call is under way, what it was given came with its opportunity, and what it sent was
\* made from it.
AskedInv ==
  ~Resting => /\ asked.given \in Given(Current.opportunity)
              /\ asked.sent = Sent(Current.opportunity, asked.given)

\* A call that ends leaves none under way.
LEMMA EndsRests ==
  ASSUME EngineInv, ~Resting, NEW status \in Over, NEW c, Ends(status, c)
  PROVE  Resting'
  <1>1. thoughts \in Seq(ThoughtRecord) /\ Len(thoughts) \in 1..Len(thoughts)
    BY UnderWay DEF EngineInv, ThoughtsInv
  <1>2. \A n \in 1..Len(thoughts) : n < Len(thoughts) => thoughts[n].status \in Over
    BY DEF EngineInv, ThoughtsInv
  <1>3. thoughts' = [thoughts EXCEPT ![Len(thoughts)].status = status,
                                     ![Len(thoughts)].candidate = c]
    BY DEF Ends
  <1>4. DOMAIN thoughts' = 1..Len(thoughts) /\ Len(thoughts) \in Nat
    BY <1>1, <1>3
  <1>5. ASSUME NEW n \in 1..Len(thoughts) PROVE thoughts'[n].status \in Over
    <2>1. CASE n = Len(thoughts)
      <3>1. thoughts[n] \in ThoughtRecord
        BY <1>1, ElementOfSeq
      <3>2. thoughts'[n].status = status
        BY <1>1, <1>3, <2>1, <3>1 DEF ThoughtRecord
      <3> QED BY <3>2
    <2>2. CASE n # Len(thoughts)
      <3>1. thoughts'[n] = thoughts[n]
        BY <1>1, <1>3, <2>2
      <3> QED BY <1>2, <1>4, <2>2, <3>1
    <2> QED BY <2>1, <2>2
  <1> QED BY <1>4, <1>5 DEF Resting

\* Every step keeps what was asked with the call that it was asked for.
LEMMA NextAskedInv ==
  ASSUME EngineInv, AskedInv, [EngineNext]_engineVars
  PROVE  AskedInv'
  <1>0. thoughts \in Seq(ThoughtRecord) /\ DOMAIN thoughts = 1..Len(thoughts) /\ Len(thoughts) \in Nat
    BY DEF EngineInv, ThoughtsInv
  <1>1. ASSUME NEW o \in Opportunities, LeavesAlone(o) PROVE AskedInv'
    <2>1. Resting /\ thoughts' = Append(thoughts, Thought(o, "returned"))
      BY <1>1 DEF LeavesAlone
    <2> DEFINE t == Thought(o, "returned")
    <2>2. t.status \in Over
      BY DEF Thought, Over
    <2> HIDE DEF t
    <2>3. DOMAIN thoughts' = 1..(Len(thoughts) + 1) /\ thoughts'[Len(thoughts) + 1] = t
          /\ \A n \in 1..Len(thoughts) : thoughts'[n] = thoughts[n]
      BY <1>0, <2>1 DEF t
    <2>4. \A n \in 1..(Len(thoughts) + 1) : n \in 1..Len(thoughts) \/ n = Len(thoughts) + 1
      BY <1>0
    <2>5. Resting'
      BY <1>0, <2>1, <2>2, <2>3, <2>4 DEF Resting
    <2> QED BY <2>5 DEF AskedInv
  <1>2. ASSUME NEW o \in Opportunities, NEW given \in Given(o), Asks(o, given) PROVE AskedInv'
    <2>1. /\ thoughts' = Append(thoughts, Thought(o, "generating"))
          /\ asked' = [given |-> given, sent |-> Sent(o, given)]
      BY <1>2 DEF Asks
    <2> DEFINE t == Thought(o, "generating")
    <2>2. t.opportunity = o
      BY DEF Thought
    <2> HIDE DEF t
    <2>3. Len(thoughts') = Len(thoughts) + 1 /\ thoughts'[Len(thoughts) + 1] = t
      BY <1>0, <2>1 DEF t
    <2>4. Current'.opportunity = o
      BY <2>2, <2>3 DEF Current
    <2>5. asked'.given = given /\ asked'.sent = Sent(o, given)
      BY <2>1
    <2> QED BY <2>4, <2>5 DEF AskedInv
  <1>3. ASSUME ~Resting, NEW status \in Over, NEW c, Ends(status, c) PROVE AskedInv'
    BY <1>3, EndsRests DEF AskedInv
  <1>4. "returned" \in Over
    BY DEF Over
  <1>5. ASSUME NEW r \in ActionReplies, Answers(r) PROVE AskedInv'
    BY <1>3, <1>4, <1>5 DEF Answers
  <1>6. ASSUME NEW r \in AmbientReplies, Intervenes(r) PROVE AskedInv'
    BY <1>3, <1>4, <1>6 DEF Intervenes
  <1>7. ASSUME NEW r \in PlanReplies, Plans(r) PROVE AskedInv'
    BY <1>3, <1>4, <1>7 DEF Plans
  <1>8. CASE TaskCancelled
    <2>1. /\ ~Resting /\ asked' = asked
          /\ thoughts' = [thoughts EXCEPT ![Len(thoughts)].status = "joining"]
      BY <1>8 DEF TaskCancelled
    <2>2. Len(thoughts) \in 1..Len(thoughts) /\ Current \in ThoughtRecord
      BY <2>1, UnderWay
    <2>3. Len(thoughts') = Len(thoughts) /\ Current' = [Current EXCEPT !.status = "joining"]
      BY <1>0, <2>1, <2>2 DEF Current
    <2>4. Current'.opportunity = Current.opportunity
      BY <2>2, <2>3 DEF ThoughtRecord
    <2> QED BY <2>1, <2>4 DEF AskedInv
  <1>9. ASSUME NEW status \in Over \ {"returned"}, Raises(status) PROVE AskedInv'
    BY <1>3, <1>9 DEF Raises
  <1>10. CASE UNCHANGED engineVars
    BY <1>10 DEF engineVars, AskedInv, Resting, Current
  <1> QED BY <1>1, <1>2, <1>5, <1>6, <1>7, <1>8, <1>9, <1>10 DEF EngineNext

\* What the model reads fits the wire, and is the newest that fits (cognition_model.py:844-879,
\* 1065-1109, 1129-1150): for any sizes, any bound on the wire and any windows, whatever is
\* asked in whatever order.
THEOREM TheNewestIsSent == EngineSpec => []RequestsAreTheNewest
  <1>1. EngineInit => AskedInv
    BY DEF EngineInit, AskedInv, Resting
  <1>2. EngineInv /\ AskedInv => RequestsAreTheNewest
    <2> SUFFICES ASSUME EngineInv, AskedInv, ~Resting PROVE RequestsAreTheNewest
      BY DEF RequestsAreTheNewest
    <2> DEFINE o == Current.opportunity
               given == asked.given
    <2>1. o \in Opportunities /\ given \in Given(o) /\ asked.sent = Sent(o, given)
      BY UnderWay DEF AskedInv
    <2>2. PlannerWindow \in Nat \ {0} /\ AppraisalWindow \in Nat \ {0}
      BY EngineAssumption
    <2> HIDE DEF o, given
    <2>3. CASE o.source = "external"
      <3>1. given \in Seq(Nat) /\ asked.sent = FitPrompt(Rendered(given))
        BY <2>1, <2>3, GivenTyped DEF Sent
      <3>2. /\ Head(asked.sent) = Header
            /\ LongestSuffix(Tail(asked.sent), Rendered(given), MaxContext - Header)
        BY <3>1, SectionsTyped, FittedPrompt
      <3> QED BY <2>3, <3>2 DEF RequestsAreTheNewest, o, given
    <2>4. CASE o.source = "user"
      <3> DEFINE w == Window(given, PlannerWindow)
      <3>1. given \in Seq(1..MaxContext) /\ given # <<>> /\ asked.sent = FitContext(w)
        BY <2>1, <2>4, GivenTyped DEF Sent, PlannerMessages
      <3>2. w \in Seq(1..MaxContext) /\ w # <<>> /\ Last(w) = Last(given)
        BY <2>2, <3>1, WindowEndsAlike
      <3> HIDE DEF w
      <3>3. /\ LongestSuffix(asked.sent, w, MaxContext)
            /\ asked.sent # <<>> /\ Last(asked.sent) = Last(given)
        BY <3>1, <3>2, FittedContext
      <3> QED BY <2>4, <3>3 DEF RequestsAreTheNewest, o, given, w
    <2>5. CASE o.source = "internal" /\ o.reason = "appraisal"
      <3> DEFINE w == Window(given, AppraisalWindow)
      <3>1. given \in Seq(1..MaxContext) /\ asked.sent = FitContext(w)
        BY <2>1, <2>5, GivenTyped DEF Sent, AppraisalMessages
      <3>2. w \in Seq(1..MaxContext)
        BY <2>2, <3>1, WindowEndsAlike
      <3> HIDE DEF w
      <3>3. LongestSuffix(asked.sent, w, MaxContext)
        BY <3>1, <3>2, FittedContext
      <3> QED BY <2>5, <3>3 DEF RequestsAreTheNewest, o, given, w
    <2>6. CASE /\ o.source # "external" /\ o.source # "user"
               /\ ~(o.source = "internal" /\ o.reason = "appraisal")
      <3>1. asked.sent = OwnPrompt
        BY <2>1, <2>6 DEF Sent
      <3> QED BY <2>6, <3>1 DEF RequestsAreTheNewest, o
    <2> QED BY <2>3, <2>4, <2>5, <2>6
  <1> QED BY <1>1, <1>2, EngineInvariant, NextAskedInv, PTL DEF EngineSpec
=============================================================================
