------------------------------- MODULE MeshProofs -------------------------------
(* Theorems about Mesh, for every network, hop limit and number of repeats. *)
EXTENDS Mesh, TLAPS

\* The flags a packet starts with, but for the hop limit.
Rest(p) ==
    (IF p \in WantAck THEN 1 ELSE 0) + (IF p \in ViaMqtt THEN 2 ELSE 0) + 4 * HopStart

CopyOK(c) ==
    /\ c.of \in Packets
    /\ c.relays \in 0 .. HopStart
    /\ c.flags = 8 * Rest(c.of) + (HopStart - c.relays)

Copies == [of : Packets, flags : Int, nth : 0 .. Repeats, relays : Nat]

\* Every copy is its packet's with the relays taken off; what was given was a
\* copy on its way before.
MeshInv ==
    /\ toSend \in [Nodes -> SUBSET Copies]
    /\ \A n \in Nodes : \A c \in toSend[n] : CopyOK(c)
    /\ \A n \in Nodes : \A g \in given[n] : g.hops = g.relays

-------------------------------------------------------------------------------
(* The byte of flags *)

\* The fields of the byte of a copy are those of its packet.
LEMMA CopyFields ==
    ASSUME NEW c, CopyOK(c)
    PROVE  /\ HopStartOf(c.flags) = HopStart
           /\ HopLimitOf(c.flags) = HopStart - c.relays
           /\ WantAckOf(c.flags) = (c.of \in WantAck)
           /\ ViaMqttOf(c.flags) = (c.of \in ViaMqtt)
<1> DEFINE ack == IF c.of \in WantAck THEN 1 ELSE 0
           mqtt == IF c.of \in ViaMqtt THEN 1 ELSE 0
           r == HopStart - c.relays
<1>1. HopStart \in 0 .. 7 /\ c.relays \in 0 .. HopStart
  BY MeshAssumption DEF CopyOK
<1>2. ack \in 0 .. 1 /\ mqtt \in 0 .. 1 /\ r \in 0 .. 7
  BY <1>1
<1>3. c.flags = 8 * (ack + 2 * mqtt + 4 * HopStart) + r
  BY <1>1 DEF CopyOK, Rest
<1> HIDE DEF ack, mqtt, r
<1>4. c.flags % 8 = r
  BY <1>1, <1>2, <1>3
<1>5. c.flags \div 8 = ack + 2 * mqtt + 4 * HopStart
  BY <1>1, <1>2, <1>3
<1>6. c.flags \div 16 = mqtt + 2 * HopStart
  BY <1>1, <1>2, <1>3
<1>7. c.flags \div 32 = HopStart
  BY <1>1, <1>2, <1>3
<1>8. (c.flags \div 8) % 2 = ack
  BY <1>1, <1>2, <1>5
<1>9. (c.flags \div 16) % 2 = mqtt
  BY <1>1, <1>2, <1>6
<1>10. QED
  BY <1>4, <1>7, <1>8, <1>9 DEF HopStartOf, HopLimitOf, WantAckOf, ViaMqttOf, ack, mqtt, r

\* A copy that is published is right.
LEMMA PublishedCopy ==
    ASSUME NEW p \in Packets, NEW n \in 0 .. Repeats
    PROVE  Copy(p, n) \in Copies /\ CopyOK(Copy(p, n))
<1>1. HopStart \in 0 .. 7
  BY MeshAssumption
<1>2. Flags(p) = 8 * Rest(p) + HopStart /\ Flags(p) \in Int
  BY <1>1 DEF Flags, Rest
<1>3. QED
  BY <1>1, <1>2 DEF Copy, Copies, CopyOK

\* What a node forwards of a right copy is right: one relay more, one hop less.
LEMMA RelayedCopy ==
    ASSUME NEW c \in Copies, CopyOK(c), NEW d \in Relayed(c)
    PROVE  d \in Copies /\ CopyOK(d)
<1>1. HopLimitOf(c.flags) = HopStart - c.relays
  BY CopyFields
<1>2. /\ HopLimitOf(c.flags) # 0 
      /\ d = [of |-> c.of, flags |-> NextHop(c.flags), nth |-> c.nth, relays |-> c.relays + 1]
  BY DEF Relayed
<1>3. HopStart \in 0 .. 7 /\ c.relays \in 0 .. HopStart /\ c.flags \in Int
  BY MeshAssumption DEF CopyOK, Copies
<1>4. c.relays + 1 \in 0 .. HopStart
  BY <1>1, <1>2, <1>3
<1>5. NextHop(c.flags) = c.flags - 1
  BY <1>1, <1>3 DEF NextHop
<1>6. d.of = c.of /\ d.relays = c.relays + 1 /\ d.flags = c.flags - 1 /\ d \in Copies
  BY <1>2, <1>3, <1>5 DEF Copies
<1>7. Rest(c.of) \in Int
  BY <1>3 DEF Rest
<1>8. QED
  BY <1>3, <1>4, <1>6, <1>7 DEF CopyOK

-------------------------------------------------------------------------------
(* The steps *)

\* A transmission that is heard or lost leaves every header true.
LEMMA SendKeeps ==
    ASSUME MeshInv, NEW n \in Nodes, NEW c \in toSend[n], NEW heard, Send(n, c, heard)
    PROVE  MeshInv'
<1>1. c \in Copies /\ CopyOK(c)
  BY DEF MeshInv
<1> DEFINE new == {m \in heard : c.of \notin seen[m]}
<1>2. PICK chosen \in [new -> UNION {Decodes(m, c.of) : m \in new}] :
        /\ given' = [m \in Nodes |-> given[m] \cup
               IF m \in new /\ chosen[m] # 0 THEN {Give(c, chosen[m])} ELSE {}]
        /\ toSend' = [m \in Nodes |->
               (IF m = n THEN toSend[m] \ {c} ELSE toSend[m]) \cup
               IF m \in new /\ Forwards(m, c.of, chosen[m]) THEN Relayed(c) ELSE {}]
  BY DEF Send
<1>3. ASSUME NEW m \in Nodes, NEW d \in toSend'[m] PROVE d \in Copies /\ CopyOK(d)
  <2>1. CASE d \in toSend[m]
    BY <2>1 DEF MeshInv
  <2>2. CASE d \in Relayed(c)
    BY <2>2, <1>1, RelayedCopy
  <2>3. QED
    BY <1>2, <1>3, <2>1, <2>2
<1>4. toSend' \in [Nodes -> SUBSET Copies]
  <2>1. \A m \in Nodes : toSend'[m] \subseteq Copies
    BY <1>3
  <2>2. toSend' = [m \in Nodes |-> toSend'[m]]
    BY <1>2
  <2>3. QED
    BY <2>1, <2>2
<1>5. ASSUME NEW m \in Nodes, NEW g \in given'[m] PROVE g.hops = g.relays
  <2>1. CASE g \in given[m]
    BY <2>1 DEF MeshInv
  <2>2. ASSUME NEW i, g = Give(c, i) PROVE g.hops = g.relays
    <3>1. HopsOf(c.flags) = HopStart - (HopStart - c.relays)
      BY <1>1, CopyFields DEF HopsOf
    <3>2. HopsOf(c.flags) = c.relays
      BY <3>1, <1>1, MeshAssumption DEF CopyOK
    <3>3. QED
      BY <2>2, <3>2 DEF Give
  <2>3. QED
    BY <1>2, <1>5, <2>1, <2>2
<1>6. QED
  BY <1>3, <1>4, <1>5 DEF MeshInv

\* So does every step.
LEMMA StepKeeps == MeshInv /\ [Next]_vars => MeshInv'
<1> SUFFICES ASSUME MeshInv, [Next]_vars PROVE MeshInv'
  OBVIOUS
<1>1. ASSUME NEW p \in Packets, Publish(p) PROVE MeshInv'
  <2>1. From[p] \in Nodes
    BY MeshAssumption
  <2>2. ASSUME NEW c \in {Copy(p, n) : n \in 0 .. Repeats} PROVE c \in Copies /\ CopyOK(c)
    BY PublishedCopy
  <2>3. toSend' = [toSend EXCEPT ![From[p]] = @ \cup {Copy(p, n) : n \in 0 .. Repeats}]
    BY <1>1 DEF Publish
  <2>4. toSend' \in [Nodes -> SUBSET Copies]
    BY <2>1, <2>2, <2>3 DEF MeshInv
  <2>5. \A n \in Nodes : \A c \in toSend'[n] : CopyOK(c)
    BY <2>1, <2>2, <2>3 DEF MeshInv
  <2>6. QED
    BY <1>1, <2>4, <2>5 DEF MeshInv, Publish
<1>2. ASSUME NEW n \in Nodes, SendSome(n) PROVE MeshInv'
  BY <1>2, SendKeeps DEF SendSome
<1>3. CASE (\E m \in Nodes, p \in Packets : Forget(m, p)) \/ UNCHANGED vars
  BY <1>3 DEF Forget, vars, MeshInv
<1>4. QED
  BY <1>1, <1>2, <1>3 DEF Next

\* The header of every copy in every network tells the truth, and so do the
\* distances given to the applications.
THEOREM HeadersAreTrue == Spec => []HeadersTrue
<1>1. Init => MeshInv
  BY DEF Init, MeshInv
<1>2. MeshInv => FlagsRight
  <2> SUFFICES ASSUME MeshInv, NEW n \in Nodes, NEW c \in toSend[n]
               PROVE  /\ HopStartOf(c.flags) = HopStart
                      /\ HopLimitOf(c.flags) + c.relays = HopStart
                      /\ WantAckOf(c.flags) = (c.of \in WantAck)
                      /\ ViaMqttOf(c.flags) = (c.of \in ViaMqtt)
    BY DEF FlagsRight
  <2>1. CopyOK(c)
    BY DEF MeshInv
  <2>2. (HopStart - c.relays) + c.relays = HopStart
    BY <2>1, MeshAssumption DEF CopyOK
  <2>3. QED
    BY <2>1, <2>2, CopyFields
<1>3. MeshInv => HopsTold
  BY DEF MeshInv, HopsTold
<1>4. QED
  BY <1>1, <1>2, <1>3, StepKeeps, PTL DEF Spec, HeadersTrue
===============================================================================
