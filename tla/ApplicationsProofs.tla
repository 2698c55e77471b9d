--------------------------- MODULE ApplicationsProofs ---------------------------
(* Theorems about Applications, for any configuration and any ring. *)
EXTENDS Applications, FiniteSetTheorems, TLAPS

\* What a publisher does to the ring leaves its index and its entries in range.
LEMMA PlacesNext ==
    ASSUME NEW i \in Places
    PROVE  (i + 1) % Size \in Places
  BY ApplicationsAssumption DEF Places

\* The ring keeps the newest entries.
LEMMA RecentNext ==
    ASSUME NEW s \in Seq(Handed), Len(s) <= Size + 1, NEW e \in Handed
    PROVE  LET t == <<e>> \o SubSeq(s, 1, IF Len(s) > Size THEN Size ELSE Len(s))
           IN  t \in Seq(Handed) /\ Len(t) <= Size + 1
<1> DEFINE n == IF Len(s) > Size THEN Size ELSE Len(s)
           u == SubSeq(s, 1, n)
<1>1. n \in Nat /\ n <= Len(s) /\ n <= Size
  BY ApplicationsAssumption
<1>2. u \in Seq(Handed) /\ Len(u) = n
  <2>1. \A i \in 1 .. n : s[i] \in Handed
    BY <1>1
  <2>2. QED
    BY <1>1, <2>1
<1>3. <<e>> \o u \in Seq(Handed) /\ Len(<<e>> \o u) = 1 + n
  BY <1>2
<1>4. QED
  BY <1>1, <1>3, ApplicationsAssumption

\* SendApplicationMessage up to GetNext changes no number and no place.
LEMMA SendKeepsTypes ==
    ASSUME TypeOK, NEW a \in Publishers, NEW c, SendApplicationMessage(a, c)
    PROVE  TypeOK'
<1>1. at' \in [Publishers -> InGetNext \cup {"wait", "push", "again", "ended"}]
  BY DEF SendApplicationMessage, TypeOK, Goto, InGetNext
<1>2. stable' \in [Publishers -> SUBSET Places] /\ alone' \in [Publishers -> BOOLEAN]
  <2>1. CASE c \in Channels
    BY <2>1 DEF SendApplicationMessage, TypeOK, Inside
  <2>2. CASE c \notin Channels
    BY <2>2 DEF SendApplicationMessage, TypeOK
  <2>3. QED
    BY <2>1, <2>2
<1>3. recent' \in Seq(Handed) /\ Len(recent') <= Size + 1
  <2>1. CASE c \in Channels
    <3> DEFINE marked(i) == [recent[i] EXCEPT !.alone = @ /\ ~Unfinished(i)]
    <3>1. recent' = [i \in DOMAIN recent |-> marked(i)]
      BY <2>1 DEF SendApplicationMessage
    <3>2. \A i \in 1 .. Len(recent) : marked(i) \in Handed
      <4>1. ASSUME NEW i \in 1 .. Len(recent) PROVE recent[i] \in Handed
        BY <4>1 DEF TypeOK
      <4>2. QED
        BY <4>1 DEF Handed
    <3> HIDE DEF marked
    <3>3. DOMAIN recent = 1 .. Len(recent) /\ Len(recent) \in Nat
      BY DEF TypeOK
    <3>4. QED
      BY <3>1, <3>2, <3>3 DEF TypeOK
  <2>2. CASE c \notin Channels
    BY <2>2 DEF SendApplicationMessage, TypeOK
  <2>3. QED
    BY <2>1, <2>2
<1>4. QED
  BY <1>1, <1>2, <1>3 DEF SendApplicationMessage, TypeOK, config

\* Every step of an application keeps the types.
LEMMA StepKeepsTypes == TypeOK /\ [Next]_vars => TypeOK'
<1> SUFFICES ASSUME TypeOK, [Next]_vars PROVE TypeOK'
  OBVIOUS
<1> USE DEF TypeOK, config, ring, locals, Goto, InGetNext
<1>1. ASSUME NEW a \in Publishers, Step(a) PROVE TypeOK'
  <2>1. CASE Publish(a)
    <3>1. CASE PublishNodePositionPanics
      BY <3>1 DEF PublishNodePositionPanics
    <3>2. CASE MarshalFails(a)
      BY <3>2 DEF MarshalFails
    <3>3. CASE ~PublishNodePositionPanics /\ ~MarshalFails(a)
      BY <2>1, <3>3, SendKeepsTypes
      DEF Publish, SendText, PublishNodeInfo, PublishDeviceMetrics, PublishNodePosition
    <3>4. QED
      BY <3>1, <3>2, <3>3
  <2>2. CASE Scan(a)
    BY <2>2 DEF Scan
  <2>3. CASE Load(a) \/ Reload(a)
    BY <2>3 DEF Load, Reload
  <2>4. CASE Store(a)
    <3>1. [id |-> value[a], by |-> a, alone |-> alone[a]] \in Handed
      BY DEF Handed
    <3>2. recent' \in Seq(Handed) /\ Len(recent') <= Size + 1
      BY <2>4, <3>1, RecentNext DEF Store
    <3>3. value' \in [Publishers -> Numbers] /\ prev' \in [Places -> Numbers]
      BY <2>4, ApplicationsAssumption DEF Store
    <3>4. stable' \in [Publishers -> SUBSET Places]
      BY <2>4 DEF Store
    <3>5. at' \in [Publishers -> InGetNext \cup {"wait", "push", "again", "ended"}]
      BY <2>4 DEF Store
    <3>6. QED
      BY <2>4, <3>2, <3>3, <3>4, <3>5 DEF Store
  <2>5. CASE Advance(a)
    <3>1. index' \in Places
      BY <2>5, PlacesNext DEF Advance
    <3>2. 0 \in Places
      BY ApplicationsAssumption DEF Places
    <3>3. QED
      BY <2>5, <3>1, <3>2 DEF Advance
  <2>6. CASE Push(a) \/ Again(a)
    BY <2>6 DEF Push, Again
  <2>7. CASE PushPanics(a)
    BY <2>7 DEF PushPanics
  <2>8. QED
    BY <1>1, <2>1, <2>2, <2>3, <2>4, <2>5, <2>6, <2>7 DEF Step, Send
<1>2. CASE UNCHANGED vars
  BY <1>2 DEF vars
<1>3. running \subseteq Publishers
  BY ApplicationsAssumption
<1>4. QED
  BY <1>1, <1>2, <1>3 DEF Next

\* In whatever order the applications go through GetNext, which has no lock,
\* it never reads or writes past the end of its ring.
THEOREM TypeCorrect == Spec => []TypeOK
<1>1. Init => TypeOK
  BY ApplicationsAssumption DEF Init, TypeOK, Places, InGetNext
<1>2. QED
  BY <1>1, StepKeepsTypes, PTL DEF Spec
-------------------------------------------------------------------------------
(* Identifiers differ                                                     *)

\* The calls of GetNext that have stored their number and not moved the index on.
Advancing == {a \in Publishers : at[a] \in {"reload", "advance"}}

\* How many places the index moved on from just after p to q.
Ahead(p, q) == IF q > p THEN q - p - 1 ELSE q - p - 1 + Size

\* An identifier put into the ring by a call that is over and overlapped with none.
Settled(i) == i \in DOMAIN recent /\ recent[i].alone /\ ~Unfinished(i)

\* The ring still holds identifier i at place p.  Of the i - 1 calls that have stored
\* theirs since, those that advance have not moved the index on, and each of the
\* others has by at most one place: neither the index nor what calls have read of it
\* is further ahead.
HoldsAt(i, p) ==
    /\ prev[p] = recent[i].id
    /\ Ahead(p, index) + Cardinality(Advancing) <= i - 1
    /\ \A a \in Publishers : at[a] \in {"store", "advance"} =>
           Ahead(p, place[a]) + Cardinality(Advancing) <= i - 1

\* It has such a place as long as it is one of the last that the ring has room for.
SettledInv == \A i \in 1 .. Size : Settled(i) => \E p \in Places : HoldsAt(i, p)

\* A call that overlaps with no other so far.
AloneInv ==
    /\ \A i \in DOMAIN recent : Unfinished(i) /\ recent[i].alone => alone[recent[i].by]
    /\ \A a \in Publishers : Inside(a) /\ alone[a] =>
        /\ \A b \in Publishers : Inside(b) => b = a
        /\ at[a] = "scan" => stable[a] = Places
        /\ at[a] = "store" => place[a] = index
        /\ a \in Advancing =>
              /\ Len(recent) > 0 /\ recent[1].by = a
              /\ place[a] = index /\ prev[index] = recent[1].id
        /\ at[a] \in {"load", "store"} =>
              \A i \in 1 .. Size : i \in DOMAIN recent /\ recent[i].alone => recent[i].id # value[a]

\* The invariant of the ring.
RingInv == SettledInv /\ AloneInv /\ RecentIdsDiffer

\* The index comes round.
LEMMA Wrap == ASSUME NEW i \in Places PROVE (i + 1) % Size = IF i + 1 = Size THEN 0 ELSE i + 1
BY ApplicationsAssumption DEF Places

\* The distance of two places of the ring.
LEMMA AheadFacts == ASSUME NEW p \in Places, NEW q \in Places
    PROVE  /\ Ahead(p, q) \in 0 .. Size - 1
           /\ Ahead(p, q) = Size - 1 <=> q = p
           /\ Ahead(p, (q + 1) % Size) = IF q = p THEN 0 ELSE Ahead(p, q) + 1
<1>1. Size \in Nat \ {0} /\ p \in 0 .. Size - 1 /\ q \in 0 .. Size - 1
  BY ApplicationsAssumption DEF Places
<1>2. (q + 1) % Size = IF q + 1 = Size THEN 0 ELSE q + 1
  BY Wrap
<1>3. QED
  BY <1>1, <1>2 DEF Ahead

\* There are finitely many calls that advance.
LEMMA AdvancingFacts == /\ IsFiniteSet(Advancing) /\ Cardinality(Advancing) \in Nat
                        /\ Advancing # {} => Cardinality(Advancing) > 0
<1>1. IsFiniteSet({"text", "node_info", "telemetry", "position"})
  <2>1. IsFiniteSet({"text"}) /\ IsFiniteSet({"node_info"})
        /\ IsFiniteSet({"telemetry"}) /\ IsFiniteSet({"position"})
    BY FS_Singleton
  <2>2. IsFiniteSet({"text"} \cup {"node_info"}) /\ IsFiniteSet({"telemetry"} \cup {"position"})
    BY <2>1, FS_Union
  <2>3. IsFiniteSet(({"text"} \cup {"node_info"}) \cup ({"telemetry"} \cup {"position"}))
    BY <2>2, FS_Union
  <2>4. {"text", "node_info", "telemetry", "position"}
          = ({"text"} \cup {"node_info"}) \cup ({"telemetry"} \cup {"position"})
    OBVIOUS
  <2>5. QED
    BY <2>3, <2>4
<1>2. IsFiniteSet(Advancing)
  BY <1>1, ApplicationsAssumption, FS_Subset DEF Advancing
<1>3. QED
  BY <1>2, FS_CardinalityType, FS_EmptySet

\* A step that leaves the ring alone, and in which a call reads the index at most.
LEMMA RingKept ==
    ASSUME TypeOK, SettledInv, prev' = prev, index' = index, Advancing' = Advancing,
           \A i \in 1 .. Size : Settled(i)' => Settled(i) /\ recent'[i].id = recent[i].id,
           \A a \in Publishers : at'[a] \in {"store", "advance"} =>
               \/ at[a] \in {"store", "advance"} /\ place'[a] = place[a]
               \/ place'[a] = index
    PROVE  SettledInv'
<1>1. ASSUME NEW i \in 1 .. Size, NEW p \in Places, HoldsAt(i, p), recent'[i].id = recent[i].id
      PROVE  HoldsAt(i, p)'
  BY <1>1 DEF HoldsAt, Ahead
<1>2. QED
  BY <1>1 DEF SettledInv

\* What Store does to what went into the ring.
LEMMA StoreFacts == ASSUME TypeOK, NEW a \in Publishers, Store(a)
    PROVE  /\ recent'[1] = [id |-> value[a], by |-> a, alone |-> alone[a]]
           /\ Len(recent') \in 1 .. Size + 1 /\ Len(recent') <= Len(recent) + 1
           /\ DOMAIN recent' = 1 .. Len(recent') /\ DOMAIN recent = 1 .. Len(recent)
           /\ Len(recent) \in Nat
           /\ \A i \in 1 .. Len(recent') - 1 : recent'[i + 1] = recent[i]
<1> DEFINE n == IF Len(recent) > Size THEN Size ELSE Len(recent)
           first == [id |-> value[a], by |-> a, alone |-> alone[a]]
           u == SubSeq(recent, 1, n)
<1>1. Size \in Nat \ {0}
  BY ApplicationsAssumption
<1>2. recent \in Seq(Handed) /\ Len(recent) \in Nat /\ n \in Nat /\ n <= Len(recent) /\ n <= Size
  BY <1>1 DEF TypeOK
<1>3. u \in Seq(Handed) /\ Len(u) = n /\ \A i \in 1 .. n : u[i] = recent[i]
  <2>1. \A i \in 1 .. n : recent[i] \in Handed
    BY <1>2
  <2>2. QED
    BY <1>2, <2>1
<1>4. first \in Handed
  BY DEF TypeOK, Handed
<1>5. recent' = <<first>> \o u
  BY DEF Store
<1> HIDE DEF u, n, first
<1>6. /\ Len(recent') = 1 + n /\ recent'[1] = first
      /\ \A i \in 1 .. n : recent'[i + 1] = u[i]
      /\ DOMAIN recent' = 1 .. Len(recent')
  BY <1>2, <1>3, <1>4, <1>5
<1>7. QED
  BY <1>1, <1>2, <1>3, <1>6 DEF first

\* A call under way is not over until it has moved the index on.
LEMMA StoreUnfinished == ASSUME TypeOK, NEW a \in Publishers, Store(a)
    PROVE  /\ Unfinished(1)'
           /\ \A i \in 1 .. Len(recent') - 1 : Unfinished(i + 1)' <=> Unfinished(i)
           /\ a \notin Advancing /\ Advancing' = Advancing \cup {a}
<1>1. /\ at[a] = "store" /\ at' \in [Publishers -> InGetNext \cup {"wait", "push", "again", "ended"}]
      /\ at'[a] \in {"reload", "advance"} /\ \A b \in Publishers \ {a} : at'[b] = at[b]
  BY DEF Store, Goto, TypeOK, InGetNext
<1>2. /\ recent'[1].by = a
      /\ Len(recent') \in Nat /\ Len(recent') - 1 <= Len(recent) /\ Len(recent) \in Nat
      /\ \A i \in 1 .. Len(recent') - 1 : recent'[i + 1] = recent[i]
  <2>1. /\ recent'[1] = [id |-> value[a], by |-> a, alone |-> alone[a]]
        /\ Len(recent') \in 1 .. Size + 1 /\ Len(recent') <= Len(recent) + 1 /\ Len(recent) \in Nat
        /\ \A i \in 1 .. Len(recent') - 1 : recent'[i + 1] = recent[i]
    BY StoreFacts
  <2>2. QED
    BY <2>1, ApplicationsAssumption
<1>3. \A i \in 1 .. Len(recent) : recent[i].by \in Publishers
  <2>1. \A i \in 1 .. Len(recent) : recent[i] \in Handed
    BY DEF TypeOK
  <2>2. QED
    BY <2>1 DEF Handed
<1>4. Unfinished(1)'
  BY <1>1, <1>2 DEF Unfinished
<1>5. ASSUME NEW i \in 1 .. Len(recent') - 1 PROVE Unfinished(i + 1)' <=> Unfinished(i)
  <2>1. recent'[i + 1].by = recent[i].by /\ recent[i].by \in Publishers
    BY <1>2, <1>3
  <2>2. CASE recent[i].by = a
    BY <1>1, <1>2, <2>1, <2>2 DEF Unfinished
  <2>3. CASE recent[i].by # a
    <3>1. at'[recent[i].by] = at[recent[i].by]
      BY <1>1, <2>1, <2>3
    <3>2. (\A j \in 1 .. i : recent'[j].by # recent[i].by)
            <=> (\A j \in 1 .. i - 1 : recent[j].by # recent[i].by)
      <4>1. \A j \in 1 .. i - 1 : recent'[j + 1] = recent[j] /\ j + 1 \in 2 .. i
        BY <1>2
      <4>2. \A j \in 2 .. i : j - 1 \in 1 .. i - 1 /\ recent'[j] = recent[j - 1]
        BY <1>2
      <4>3. \A j \in 1 .. i : j = 1 \/ j \in 2 .. i
        OBVIOUS
      <4>4. ASSUME \A j \in 1 .. i - 1 : recent[j].by # recent[i].by, NEW j \in 1 .. i
            PROVE  recent'[j].by # recent[i].by
        BY <1>2, <2>3, <4>2, <4>3, <4>4
      <4>5. ASSUME \A j \in 1 .. i : recent'[j].by # recent[i].by, NEW j \in 1 .. i - 1
            PROVE  recent[j].by # recent[i].by
        <5>1. j + 1 \in 1 .. i /\ recent'[j + 1] = recent[j]
          BY <1>2, <4>1
        <5>2. QED
          BY <4>5, <5>1
      <4>6. QED
        BY <4>4, <4>5
    <3>3. QED
      BY <2>1, <3>1, <3>2 DEF Unfinished
  <2>4. QED
    BY <2>2, <2>3
<1>6. QED
  BY <1>1, <1>4, <1>5 DEF Advancing

\* Of a step in which nobody begins or ends to advance, and no identifier is stored.
LEMMA UnfinishedKept ==
    ASSUME TypeOK, Advancing' = Advancing, DOMAIN recent' = DOMAIN recent,
           \A i \in DOMAIN recent : recent'[i].by = recent[i].by, NEW i \in DOMAIN recent
    PROVE  Unfinished(i)' <=> Unfinished(i)
<1>1. Len(recent) \in Nat /\ DOMAIN recent = 1 .. Len(recent)
      /\ \A j \in 1 .. Len(recent) : recent[j] \in Handed
  BY DEF TypeOK
<1>2. recent[i].by \in Publishers /\ i \in 1 .. Len(recent)
      /\ \A j \in 1 .. i - 1 : j \in 1 .. Len(recent)
  BY <1>1 DEF Handed
<1>3. at'[recent[i].by] \in {"reload", "advance"} <=> at[recent[i].by] \in {"reload", "advance"}
  BY <1>2 DEF Advancing
<1>4. recent'[i].by = recent[i].by /\ \A j \in 1 .. i - 1 : recent'[j].by = recent[j].by
  BY <1>1, <1>2
<1>5. QED
  BY <1>3, <1>4 DEF Unfinished

\* What was settled has moved on by one, and is still there.
LEMMA SettledStore == ASSUME TypeOK, SettledInv, NEW a \in Publishers,
                             Store(a)
                      PROVE  SettledInv'
<1>1. Size \in Nat \ {0} /\ Len(recent') \in 1 .. Size + 1 /\ Len(recent) \in Nat
      /\ DOMAIN recent' = 1 .. Len(recent') /\ DOMAIN recent = 1 .. Len(recent)
      /\ Len(recent') <= Len(recent) + 1
      /\ \A i \in 1 .. Len(recent') - 1 : recent'[i + 1] = recent[i]
  BY StoreFacts, ApplicationsAssumption
<1>2. /\ Unfinished(1)'
      /\ \A i \in 1 .. Len(recent') - 1 : Unfinished(i + 1)' <=> Unfinished(i)
      /\ a \notin Advancing /\ Advancing' = Advancing \cup {a}
  BY StoreUnfinished
<1>3. /\ IsFiniteSet(Advancing) /\ Cardinality(Advancing) \in Nat
      /\ Cardinality(Advancing)' = Cardinality(Advancing) + 1
  <2>1. IsFiniteSet(Advancing) /\ Cardinality(Advancing) \in Nat
    BY AdvancingFacts
  <2>2. QED
    BY <1>2, <2>1, FS_AddElement
<1>4. at[a] = "store" /\ place \in [Publishers -> Places] /\ index \in Places
  BY DEF Store, TypeOK
<1>5. ASSUME NEW i \in 1 .. Size, Settled(i)' PROVE \E p \in Places : HoldsAt(i, p)'
  <2>1. i # 1 /\ i \in 1 .. Len(recent')
    BY <1>1, <1>2, <1>5 DEF Settled
  <2>2. PICK k \in 1 .. Len(recent') - 1 : i = k + 1
    <3>1. i - 1 \in 1 .. Len(recent') - 1 /\ i = (i - 1) + 1
      BY <1>1, <2>1
    <3>2. QED
      BY <3>1
  <2>3. Settled(k) /\ k \in 1 .. Size /\ k <= Size - 1 /\ recent'[i] = recent[k]
    <3>1. k \in 1 .. Size /\ k <= Size - 1 /\ recent'[i] = recent[k] /\ k \in DOMAIN recent
      BY <1>1, <2>2
    <3>2. recent'[i].alone /\ ~Unfinished(i)'
      BY <1>5 DEF Settled
    <3>3. ~Unfinished(k)
      BY <1>2, <2>2, <3>2
    <3>4. QED
      BY <3>1, <3>2, <3>3 DEF Settled
  <2>4. PICK p \in Places : HoldsAt(k, p)
    BY <2>3 DEF SettledInv
  <2>5. /\ prev[p] = recent[k].id
        /\ Ahead(p, index) + Cardinality(Advancing) <= k - 1
        /\ \A b \in Publishers : at[b] \in {"store", "advance"} =>
               Ahead(p, place[b]) + Cardinality(Advancing) <= k - 1
    BY <2>4 DEF HoldsAt
  <2>6. Ahead(p, place[a]) <= Size - 2 /\ place[a] # p
    <3>1. Ahead(p, place[a]) \in 0 .. Size - 1 /\ (Ahead(p, place[a]) = Size - 1 <=> place[a] = p)
      BY <1>4, AheadFacts
    <3>2. QED
      BY <1>1, <1>3, <1>4, <2>3, <2>5, <3>1
  <2>7. prev'[p] = prev[p] /\ index' = index /\ place' = place
        /\ \A b \in Publishers : at'[b] \in {"store", "advance"} => at[b] \in {"store", "advance"}
    BY <1>4, <2>6 DEF Store, TypeOK, Goto
  <2>8. /\ prev'[p] = recent'[i].id
        /\ Ahead(p, index') + Cardinality(Advancing)' <= i - 1
    <3>1. Ahead(p, index) \in 0 .. Size - 1
      BY <1>4, AheadFacts
    <3>2. QED
      BY <1>1, <1>3, <2>2, <2>3, <2>5, <2>7, <3>1
  <2>9. ASSUME NEW b \in Publishers, at'[b] \in {"store", "advance"}
        PROVE  Ahead(p, place'[b]) + Cardinality(Advancing)' <= i - 1
    <3>1. Ahead(p, place[b]) \in 0 .. Size - 1
      BY <1>4, AheadFacts
    <3>2. QED
      BY <1>1, <1>3, <2>2, <2>5, <2>7, <2>9, <3>1
  <2>10. QED
    BY <2>8, <2>9 DEF HoldsAt, Ahead
<1>6. QED
  BY <1>5 DEF SettledInv

\* The call that moves the index on is over; if it overlapped with none, its number
\* is just behind the index.
LEMMA SettledAdvance == ASSUME TypeOK, SettledInv, AloneInv, NEW a \in Publishers, Advance(a)
                        PROVE  SettledInv'
<1>1. /\ at[a] = "advance" /\ at' \in [Publishers -> InGetNext \cup {"wait", "push", "again", "ended"}]
      /\ at'[a] \in {"push", "again"} /\ \A b \in Publishers \ {a} : at'[b] = at[b]
      /\ index' = (place[a] + 1) % Size /\ UNCHANGED <<prev, recent>>
      /\ \A b \in Publishers \ {a} : place'[b] = place[b]
  BY DEF Advance, Goto, TypeOK, InGetNext
<1>2. /\ Size \in Nat \ {0} /\ place \in [Publishers -> Places] /\ index \in Places
      /\ Len(recent) \in Nat /\ DOMAIN recent = 1 .. Len(recent)
      /\ \A j \in 1 .. Len(recent) : recent[j] \in Handed
  BY ApplicationsAssumption DEF TypeOK
<1>3. a \in Advancing /\ Advancing' = Advancing \ {a}
  BY <1>1 DEF Advancing
<1>4. /\ Cardinality(Advancing) \in Nat /\ Cardinality(Advancing) > 0
      /\ Cardinality(Advancing)' = Cardinality(Advancing) - 1
  <2>1. IsFiniteSet(Advancing) /\ Cardinality(Advancing) \in Nat /\ Cardinality(Advancing) > 0
    BY <1>3, AdvancingFacts
  <2>2. QED
    BY <1>3, <2>1, FS_RemoveElement
<1>5. ASSUME NEW i \in 1 .. Size, Settled(i) PROVE \E p \in Places : HoldsAt(i, p)'
  <2>1. PICK p \in Places : HoldsAt(i, p)
    BY <1>5 DEF SettledInv
  <2>2. /\ prev[p] = recent[i].id
        /\ \A b \in Publishers : at[b] \in {"store", "advance"} =>
               Ahead(p, place[b]) + Cardinality(Advancing) <= i - 1
    BY <2>1 DEF HoldsAt
  <2>3. ASSUME NEW b \in Publishers
        PROVE  /\ Ahead(p, place[b]) \in 0 .. Size - 1
               /\ Ahead(p, place[b]) = Size - 1 <=> place[b] = p
               /\ Ahead(p, (place[b] + 1) % Size)
                      = IF place[b] = p THEN 0 ELSE Ahead(p, place[b]) + 1
    BY <1>2, AheadFacts
  <2>4. Ahead(p, index') + Cardinality(Advancing)' <= i - 1
    BY <1>1, <1>2, <1>4, <2>2, <2>3
  <2>5. ASSUME NEW b \in Publishers, at'[b] \in {"store", "advance"}
        PROVE  Ahead(p, place'[b]) + Cardinality(Advancing)' <= i - 1
    BY <1>1, <1>2, <1>4, <2>2, <2>3, <2>5
  <2>6. QED
    BY <1>1, <2>2, <2>4, <2>5 DEF HoldsAt, Ahead
<1>6. ASSUME NEW i \in 1 .. Size, Settled(i)', ~Settled(i) PROVE \E p \in Places : HoldsAt(i, p)'
  <2>1. i \in DOMAIN recent /\ recent[i].alone /\ Unfinished(i) /\ ~Unfinished(i)'
    BY <1>1, <1>6 DEF Settled
  <2>2. recent[i].by = a
    <3>1. recent[i].by \in Publishers
      BY <1>2, <2>1 DEF Handed
    <3>2. QED
      BY <1>1, <2>1, <3>1 DEF Unfinished
  <2>3. alone[a] /\ Inside(a)
    BY <1>1, <2>1, <2>2 DEF AloneInv, Inside, InGetNext
  <2>4. /\ \A b \in Publishers : Inside(b) => b = a
        /\ Len(recent) > 0 /\ recent[1].by = a
        /\ place[a] = index /\ prev[index] = recent[1].id
    BY <1>3, <2>3 DEF AloneInv
  <2>5. i = 1
    <3>1. i > 1 => 1 \in 1 .. i - 1
      OBVIOUS
    <3>2. QED
      BY <2>1, <2>2, <2>4, <3>1 DEF Unfinished
  <2>6. Advancing' = {} /\ Cardinality(Advancing)' = 0
    <3>1. Advancing' = {}
      BY <1>3, <2>4 DEF Advancing, Inside, InGetNext
    <3>2. QED
      BY <3>1, FS_EmptySet
  <2>7. \A b \in Publishers : at'[b] \notin {"store", "advance"}
    BY <1>1, <2>4 DEF Inside, InGetNext
  <2>8. Ahead(index, index') = 0
    BY <1>1, <1>2, <2>4, AheadFacts
  <2>9. PICK p \in Places : p = index
    BY <1>2
  <2>10. prev'[p] = recent'[i].id /\ Ahead(p, index') + Cardinality(Advancing)' <= i - 1
    BY <1>1, <2>4, <2>5, <2>6, <2>8, <2>9
  <2>11. HoldsAt(i, p)'
    BY <2>7, <2>10 DEF HoldsAt, Ahead
  <2>12. QED
    BY <2>11
<1>7. QED
  BY <1>5, <1>6 DEF SettledInv

\* Who calls SendApplicationMessage overlaps with those who are inside, and they
\* with it.
LEMMA RingSend == ASSUME TypeOK, RingInv, NEW a \in Publishers, NEW c,
                         SendApplicationMessage(a, c)
                  PROVE  RingInv'
<1> USE DEF RingInv
<1>1. /\ at[a] = "wait" /\ at' \in [Publishers -> InGetNext \cup {"wait", "push", "again", "ended"}]
      /\ at'[a] \in {"scan", "again"} /\ \A b \in Publishers \ {a} : at'[b] = at[b]
      /\ UNCHANGED <<place, prev, index, value>>
  BY DEF SendApplicationMessage, Goto, TypeOK, InGetNext
<1>2. Advancing' = Advancing
  BY <1>1 DEF Advancing
<1>3. /\ DOMAIN recent' = DOMAIN recent /\ Len(recent) \in Nat /\ Len(recent') = Len(recent)
      /\ DOMAIN recent = 1 .. Len(recent)
      /\ \A i \in DOMAIN recent :
            /\ recent'[i].by = recent[i].by /\ recent'[i].id = recent[i].id
            /\ recent'[i].alone => recent[i].alone /\ (c \in Channels => ~Unfinished(i))
  <2>1. Len(recent) \in Nat /\ DOMAIN recent = 1 .. Len(recent) /\ \A i \in DOMAIN recent : recent[i] \in Handed
    BY DEF TypeOK
  <2>2. CASE c \notin Channels
    BY <2>1, <2>2 DEF SendApplicationMessage
  <2>3. CASE c \in Channels
    <3>1. recent' = [i \in DOMAIN recent |-> [recent[i] EXCEPT !.alone = @ /\ ~Unfinished(i)]]
      BY <2>3 DEF SendApplicationMessage
    <3>2. DOMAIN recent' = 1 .. Len(recent)
      BY <2>1, <3>1
    <3>3. Len(recent') = Len(recent)
      BY <2>1, <3>1
    <3>4. QED
      BY <2>1, <3>1, <3>2, <3>3 DEF Handed
  <2>4. QED
    BY <2>2, <2>3
<1>4. \A i \in DOMAIN recent : Unfinished(i)' <=> Unfinished(i)
  BY <1>2, <1>3, UnfinishedKept
<1>5. SettledInv'
  <2>1. \A i \in 1 .. Size : Settled(i)' => Settled(i) /\ recent'[i].id = recent[i].id
    BY <1>3, <1>4 DEF Settled
  <2>2. QED
    BY <1>1, <1>2, <2>1, RingKept
<1>6. AloneInv'
  <2>1. CASE c \notin Channels
    <3>1. at'[a] = "again" /\ UNCHANGED <<recent, alone, stable>>
      BY <2>1, <1>1 DEF SendApplicationMessage, Goto, TypeOK
    <3>2. \A b \in Publishers : Inside(b)' <=> Inside(b) /\ b # a
      BY <1>1, <3>1 DEF Inside, InGetNext
    <3>3. QED
      BY <1>1, <1>2, <1>3, <1>4, <3>1, <3>2 DEF AloneInv, Inside, InGetNext
  <2>2. CASE c \in Channels
    <3>1. /\ at'[a] = "scan" /\ stable'[a] = Places
          /\ \A b \in Publishers : alone'[b] =
                IF b = a THEN \A o \in Publishers : ~Inside(o) ELSE alone[b] /\ ~Inside(b)
      BY <2>2 DEF SendApplicationMessage, Goto, TypeOK
    <3>2. \A b \in Publishers \ {a} : Inside(b)' <=> Inside(b)
      BY <1>1 DEF Inside
    <3>3. \A i \in DOMAIN recent : ~(Unfinished(i)' /\ recent'[i].alone)
      BY <1>3, <1>4, <2>2
    <3>4. ASSUME NEW b \in Publishers, Inside(b)', alone'[b]
          PROVE  b = a /\ \A o \in Publishers : Inside(o)' => o = a
      BY <3>1, <3>2, <3>4
    <3>5. a \notin Advancing'
      BY <3>1 DEF Advancing
    <3>6. QED
      BY <1>3, <3>1, <3>3, <3>4, <3>5 DEF AloneInv
  <2>3. QED
    BY <2>1, <2>2
<1>7. RecentIdsDiffer'
  BY <1>3 DEF RecentIdsDiffer
<1>8. QED
  BY <1>5, <1>6, <1>7

\* A call that overlaps with no other is the only one to take a step inside.
LEMMA OnlyOneInside == ASSUME AloneInv, NEW a \in Publishers, Inside(a),
                              NEW b \in Publishers, Inside(b), alone[b]
                       PROVE  a = b
BY DEF AloneInv

\* A number is drawn: no place has it that the call has looked at.
LEMMA RingScan == ASSUME TypeOK, RingInv, NEW a \in Publishers, Scan(a) PROVE RingInv'
<1> USE DEF RingInv
<1>1. /\ at[a] = "scan" /\ at'[a] = "load" /\ \A b \in Publishers \ {a} : at'[b] = at[b]
      /\ UNCHANGED <<place, prev, index, recent, alone>>
      /\ value'[a] \notin {prev[i] : i \in stable[a]}
  BY DEF Scan, Goto, TypeOK, ring
<1>2. Advancing' = Advancing /\ \A i \in DOMAIN recent : Unfinished(i)' <=> Unfinished(i)
  <2>1. Advancing' = Advancing
    BY <1>1 DEF Advancing
  <2>2. QED
    BY <1>1, <2>1, UnfinishedKept
<1>3. SettledInv'
  <2>1. \A i \in 1 .. Size : Settled(i)' => Settled(i) /\ recent'[i].id = recent[i].id
    BY <1>1, <1>2 DEF Settled
  <2>2. QED
    BY <1>1, <1>2, <2>1, RingKept
<1>4. \A b \in Publishers : Inside(b)' <=> Inside(b)
  BY <1>1 DEF Inside, InGetNext
<1>5. ASSUME alone[a], NEW i \in 1 .. Size, i \in DOMAIN recent, recent[i].alone
      PROVE  recent[i].id # value'[a]
  <2>1. stable[a] = Places /\ \A b \in Publishers : Inside(b) => b = a
    BY <1>1, <1>5 DEF AloneInv, Inside, InGetNext
  <2>2. recent[i].by \in Publishers
    <3>1. recent[i] \in Handed
      BY <1>5 DEF TypeOK
    <3>2. QED
      BY <3>1 DEF Handed
  <2>3. Settled(i)
    BY <1>1, <1>5, <2>1, <2>2 DEF Settled, Unfinished, Inside, InGetNext
  <2>4. PICK p \in Places : prev[p] = recent[i].id
    BY <2>3 DEF SettledInv, HoldsAt
  <2>5. QED
    BY <1>1, <2>1, <2>4
<1>6. AloneInv'
  <2>1. ASSUME NEW b \in Publishers, Inside(b)', alone'[b] PROVE b = a /\ Inside(a) /\ alone[a]
    BY <1>1, <1>4, <2>1, OnlyOneInside DEF Inside, InGetNext
  <2>2. a \notin Advancing'
    BY <1>1 DEF Advancing
  <2>3. QED
    BY <1>1, <1>2, <1>4, <1>5, <2>1, <2>2 DEF AloneInv
<1>7. RecentIdsDiffer'
  BY <1>1 DEF RecentIdsDiffer
<1>8. QED
  BY <1>3, <1>6, <1>7

\* The index is read.
LEMMA RingLoad == ASSUME TypeOK, RingInv, NEW a \in Publishers,
                         Load(a) \/ Reload(a)
                  PROVE  RingInv'
<1> USE DEF RingInv
<1>1. /\ \/ at[a] = "load" /\ at'[a] = "store"
         \/ at[a] = "reload" /\ at'[a] = "advance"
      /\ \A b \in Publishers \ {a} : at'[b] = at[b] /\ place'[b] = place[b]
      /\ place'[a] = index
      /\ UNCHANGED <<stable, value, alone, prev, index, recent>>
  BY DEF Load, Reload, Goto, TypeOK, ring
<1>2. Advancing' = Advancing /\ \A i \in DOMAIN recent : Unfinished(i)' <=> Unfinished(i)
  <2>1. Advancing' = Advancing
    BY <1>1 DEF Advancing
  <2>2. QED
    BY <1>1, <2>1, UnfinishedKept
<1>3. SettledInv'
  <2>1. \A i \in 1 .. Size : Settled(i)' => Settled(i) /\ recent'[i].id = recent[i].id
    BY <1>1, <1>2 DEF Settled
  <2>2. QED
    BY <1>1, <1>2, <2>1, RingKept
<1>4. \A b \in Publishers : Inside(b)' <=> Inside(b)
  BY <1>1 DEF Inside, InGetNext
<1>5. AloneInv'
  <2>1. ASSUME NEW b \in Publishers, Inside(b)', alone'[b] PROVE b = a /\ Inside(a) /\ alone[a]
    BY <1>1, <1>4, <2>1, OnlyOneInside DEF Inside, InGetNext
  <2>2. QED
    BY <1>1, <1>2, <1>4, <2>1 DEF AloneInv
<1>6. RecentIdsDiffer'
  BY <1>1 DEF RecentIdsDiffer
<1>7. QED
  BY <1>3, <1>5, <1>6

\* The number goes into the ring.
LEMMA RingStore == ASSUME TypeOK, RingInv, NEW a \in Publishers, Store(a) PROVE RingInv'
<1> USE DEF RingInv
<1>1. /\ at[a] = "store" /\ at'[a] \in {"reload", "advance"}
      /\ \A b \in Publishers \ {a} : at'[b] = at[b]
      /\ UNCHANGED <<place, alone, index>>
      /\ prev'[place[a]] = value[a]
  BY DEF Store, Goto, TypeOK
<1>2. /\ recent'[1].id = value[a] /\ recent'[1].by = a /\ recent'[1].alone = alone[a]
      /\ Len(recent') \in 1 .. Size + 1 /\ Len(recent') <= Len(recent) + 1 /\ Len(recent) \in Nat
      /\ DOMAIN recent' = 1 .. Len(recent') /\ DOMAIN recent = 1 .. Len(recent)
      /\ \A i \in 1 .. Len(recent') - 1 : recent'[i + 1] = recent[i]
      /\ \A i \in 1 .. Len(recent') - 1 : Unfinished(i + 1)' <=> Unfinished(i)
      /\ Size \in Nat
  <2>1. recent'[1] = [id |-> value[a], by |-> a, alone |-> alone[a]]
    BY StoreFacts
  <2>2. QED
    BY <2>1, StoreFacts, StoreUnfinished, ApplicationsAssumption
\* An identifier of the new ones is the one stored, or was there before.
<1>3. ASSUME NEW i \in DOMAIN recent', i # 1
      PROVE  \E k \in DOMAIN recent : /\ i = k + 1 /\ k \in 1 .. Size /\ recent'[i] = recent[k]
                                      /\ Unfinished(i)' <=> Unfinished(k)
  <2>1. i - 1 \in 1 .. Len(recent') - 1 /\ i = (i - 1) + 1 /\ i - 1 \in 1 .. Size
        /\ i - 1 \in DOMAIN recent
    BY <1>2, <1>3
  <2>2. QED
    BY <1>2, <2>1
<1>4. SettledInv'
  BY SettledStore
<1>5. \A b \in Publishers : Inside(b)' <=> Inside(b)
  BY <1>1 DEF Inside, InGetNext
<1>6. AloneInv'
  <2>1. ASSUME NEW b \in Publishers, Inside(b)', alone'[b]
        PROVE  b = a /\ Inside(a) /\ alone[a] /\ place[a] = index
    BY <1>1, <1>5, <2>1, OnlyOneInside DEF Inside, InGetNext, AloneInv
  <2>2. ASSUME NEW i \in DOMAIN recent', Unfinished(i)', recent'[i].alone
        PROVE  alone'[recent'[i].by]
    <3>1. CASE i = 1
      BY <1>1, <1>2, <2>2, <3>1
    <3>2. CASE i # 1
      BY <1>1, <1>3, <2>2, <3>2 DEF AloneInv
    <3>3. QED
      BY <3>1, <3>2
  <2>3. ASSUME NEW b \in Publishers, Inside(b)', alone'[b]
        PROVE  /\ \A o \in Publishers : Inside(o)' => o = b
               /\ at'[b] \notin {"scan", "load", "store"}
               /\ Len(recent') > 0 /\ recent'[1].by = b
               /\ place'[b] = index' /\ prev'[index'] = recent'[1].id
    <3>1. b = a /\ Inside(a) /\ alone[a] /\ place[a] = index
      BY <2>1, <2>3
    <3>2. \A o \in Publishers : Inside(o)' => o = b
      BY <1>5, <3>1 DEF AloneInv
    <3>3. QED
      BY <1>1, <1>2, <3>1, <3>2
  <2>4. QED
    BY <2>2, <2>3 DEF AloneInv
<1>7. ASSUME alone[a], NEW j \in DOMAIN recent', j # 1, recent'[j].alone
      PROVE  recent'[j].id # value[a]
  <2>1. PICK k \in DOMAIN recent : k \in 1 .. Size /\ recent'[j] = recent[k]
    BY <1>3, <1>7
  <2>2. Inside(a)
    BY <1>1 DEF Inside, InGetNext
  <2>3. QED
    BY <1>1, <1>7, <2>1, <2>2 DEF AloneInv
<1>8. RecentIdsDiffer'
  <2> SUFFICES ASSUME NEW i \in DOMAIN recent', NEW j \in DOMAIN recent', i # j,
                      recent'[i].alone, recent'[j].alone
               PROVE  recent'[i].id # recent'[j].id
    BY DEF RecentIdsDiffer
  <2>1. CASE i = 1
    BY <1>2, <1>7, <2>1
  <2>2. CASE j = 1
    BY <1>2, <1>7, <2>2
  <2>3. CASE i # 1 /\ j # 1
    <3>1. PICK k \in DOMAIN recent : i = k + 1 /\ recent'[i] = recent[k]
      BY <1>3, <2>3
    <3>2. PICK l \in DOMAIN recent : j = l + 1 /\ recent'[j] = recent[l]
      BY <1>3, <2>3
    <3>3. k # l
      BY <3>1, <3>2
    <3>4. QED
      BY <3>1, <3>2, <3>3 DEF RecentIdsDiffer
  <2>4. QED
    BY <2>1, <2>2, <2>3
<1>9. QED
  BY <1>4, <1>6, <1>8

\* The index moves on, and the call is over.
LEMMA RingAdvance == ASSUME TypeOK, RingInv, NEW a \in Publishers, Advance(a) PROVE RingInv'
<1> USE DEF RingInv
<1>1. /\ at[a] = "advance" /\ at'[a] \in {"push", "again"}
      /\ \A b \in Publishers \ {a} : at'[b] = at[b]
      /\ UNCHANGED <<stable, value, alone, prev, recent>>
  BY DEF Advance, Goto, TypeOK
<1>2. \A i \in DOMAIN recent : Unfinished(i)' => Unfinished(i)
  <2>1. \A i \in DOMAIN recent : recent[i].by \in Publishers
    <3>1. \A i \in DOMAIN recent : recent[i] \in Handed
      BY DEF TypeOK
    <3>2. QED
      BY <3>1 DEF Handed
  <2>2. QED
    BY <1>1, <2>1 DEF Unfinished
<1>3. \A b \in Publishers : Inside(b)' => Inside(b) /\ b # a
  BY <1>1 DEF Inside, InGetNext
<1>4. AloneInv'
  <2>1. ASSUME NEW b \in Publishers, Inside(b)', alone'[b] PROVE FALSE
    BY <1>1, <1>3, <2>1, OnlyOneInside DEF Inside, InGetNext
  <2>2. QED
    BY <1>1, <1>2, <2>1 DEF AloneInv
<1>5. SettledInv'
  BY SettledAdvance
<1>6. RecentIdsDiffer'
  BY <1>1 DEF RecentIdsDiffer
<1>7. QED
  BY <1>4, <1>5, <1>6

\* The steps of those who are not in GetNext.
LEMMA RingElse ==
    ASSUME TypeOK, RingInv, UNCHANGED <<locals, ring>>,
           \A a \in Publishers : at'[a] = at[a] \/ (~Inside(a) /\ ~Inside(a)')
    PROVE  RingInv'
<1> USE DEF RingInv, locals, ring
<1>1. \A a \in Publishers : (Inside(a)' <=> Inside(a)) /\ (Inside(a) => at'[a] = at[a])
  BY DEF Inside
<1>2. Advancing' = Advancing /\ \A i \in DOMAIN recent : Unfinished(i)' <=> Unfinished(i)
  <2>1. Advancing' = Advancing
    BY <1>1 DEF Advancing, Inside, InGetNext
  <2>2. QED
    BY <2>1, UnfinishedKept
<1>3. SettledInv'
  <2>1. \A i \in 1 .. Size : Settled(i)' => Settled(i) /\ recent'[i].id = recent[i].id
    BY <1>2 DEF Settled
  <2>2. \A a \in Publishers : at'[a] \in {"store", "advance"} => at[a] \in {"store", "advance"}
    BY <1>1 DEF Inside, InGetNext
  <2>3. QED
    BY <1>2, <2>1, <2>2, RingKept
<1>4. AloneInv'
  BY <1>1, <1>2 DEF AloneInv
<1>5. RecentIdsDiffer'
  BY DEF RecentIdsDiffer
<1>6. QED
  BY <1>3, <1>4, <1>5

\* Two of the identifiers that went into the ring last are equal only if a call of
\* GetNext for one of them overlapped with another; earlier overlaps, though they
\* lose places and set the index back, do no harm (packet_id.go:20-34).
THEOREM IdentifiersDiffer == Spec => []RecentIdsDiffer
<1>1. Init => RingInv
  BY DEF Init, RingInv, SettledInv, Settled, AloneInv, Inside, InGetNext, RecentIdsDiffer
<1>2. TypeOK /\ RingInv /\ [Next]_vars => RingInv'
  <2> SUFFICES ASSUME TypeOK, RingInv, [Next]_vars PROVE RingInv'
    OBVIOUS
  <2>1. ASSUME NEW a \in Publishers, Publish(a) PROVE RingInv'
    <3>1. CASE PublishNodePositionPanics
      <4>1. at' = at /\ UNCHANGED <<locals, ring>>
        BY <3>1 DEF PublishNodePositionPanics
      <4>2. \A b \in Publishers : at'[b] = at[b] \/ (~Inside(b) /\ ~Inside(b)')
        BY <4>1
      <4>3. QED
        BY <4>1, <4>2, RingElse
    <3>2. CASE MarshalFails(a)
      <4>1. /\ UNCHANGED <<locals, ring>> /\ at[a] = "wait" /\ at'[a] = "ended"
            /\ \A b \in Publishers \ {a} : at'[b] = at[b]
        BY <3>2 DEF MarshalFails, Goto, TypeOK
      <4>2. \A b \in Publishers : at'[b] = at[b] \/ (~Inside(b) /\ ~Inside(b)')
        BY <4>1 DEF Inside, InGetNext
      <4>3. QED
        BY <4>1, <4>2, RingElse
    <3>3. CASE ~PublishNodePositionPanics /\ ~MarshalFails(a)
      BY <2>1, <3>3, RingSend
      DEF Publish, SendText, PublishNodeInfo, PublishDeviceMetrics, PublishNodePosition
    <3>4. QED
      BY <3>1, <3>2, <3>3
  <2>2. ASSUME NEW a \in Publishers, Send(a) PROVE RingInv'
    <3>1. CASE Push(a) \/ PushPanics(a) \/ Again(a)
      <4>1. UNCHANGED <<locals, ring>>
        BY <3>1 DEF Push, PushPanics, Again
      <4>2. \/ at' = at
            \/ /\ at[a] \in {"push", "again"} /\ at'[a] \in {"wait", "again"}
               /\ \A b \in Publishers \ {a} : at'[b] = at[b]
        BY <3>1 DEF Push, PushPanics, Again, Goto, TypeOK
      <4>3. \A b \in Publishers : at'[b] = at[b] \/ (~Inside(b) /\ ~Inside(b)')
        BY <4>2 DEF Inside, InGetNext
      <4>4. QED
        BY <4>1, <4>3, RingElse
    <3>2. QED
      BY <2>2, <3>1, RingScan, RingLoad, RingStore, RingAdvance DEF Send
  <2>3. CASE UNCHANGED vars
    <3>1. at' = at /\ UNCHANGED <<locals, ring>>
      BY <2>3 DEF vars
    <3>2. \A b \in Publishers : at'[b] = at[b] \/ (~Inside(b) /\ ~Inside(b)')
      BY <3>1
    <3>3. QED
      BY <3>1, <3>2, RingElse
  <2>4. running \subseteq Publishers
    BY ApplicationsAssumption DEF TypeOK
  <2>5. QED
    BY <2>1, <2>2, <2>3, <2>4 DEF Next, Step
<1>3. RingInv => RecentIdsDiffer
  BY DEF RingInv
<1>4. QED
  BY <1>1, <1>2, <1>3, TypeCorrect, PTL DEF Spec
===============================================================================
