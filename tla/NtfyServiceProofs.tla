--------------------------- MODULE NtfyServiceProofs ---------------------------
(* Theorems about NtfyService: types, the file of names, and the replies. *)
EXTENDS NtfyService, TLAPS

\* What a step of the process does to the directory, and to the streams.
DirectoryStep ==
    \/ Load \/ Forget \/ Save
    \/ \E n \in Nodes, name \in Names : Set(n, name)
    \/ UNCHANGED directoryVars

BridgeStep ==
    \/ BridgeStart \/ BridgeEnd
    \/ \E c \in Channels : Connect(c) \/ Break(c) \/ Wake(c) \/ Scan(c)
    \/ \E event \in Events : \E topic : Post(topic, event)
    \/ UNCHANGED bridgeVars

\* Every step of the process is one of the directory and one of the streams
\* (cmd/ws-ntfy/main.go)
LEMMA StepsBelow == ASSUME TypeOK, [Next]_vars PROVE DirectoryStep /\ BridgeStep
<1> USE DEF DirectoryStep, BridgeStep, TypeOK
<1>1. CASE Start
  BY <1>1 DEF Start
<1>2. CASE End
  BY <1>2 DEF End
<1>3. ASSUME NEW n \in Nodes, NEW name \in Names, NodeInfo(n, name)
      PROVE DirectoryStep /\ BridgeStep
  BY <1>3 DEF NodeInfo
<1>4. CASE SaveStep
  BY <1>4 DEF SaveStep
<1>5. ASSUME NEW m \in Texts, TakeText(m) PROVE DirectoryStep /\ BridgeStep
  BY <1>5 DEF TakeText
<1>6. CASE PostText
  <2>1. CASE UNCHANGED bridgeVars
    BY <1>6, <2>1 DEF PostText
  <2>2. CASE Post(TopicOf[TextChannel[Head(posting)]],
                  [text |-> Head(posting), tagged |-> TRUE])
    <3>1. [text |-> Head(posting), tagged |-> TRUE] \in Events
      BY <1>6, ServiceAssumption DEF PostText, Events
    <3>2. QED
      BY <1>6, <2>2, <3>1 DEF PostText
  <2>3. QED
    BY <1>6, <2>1, <2>2 DEF PostText
<1>7. ASSUME NEW r \in Replies, Type(r) PROVE DirectoryStep /\ BridgeStep
  <2>1. [text |-> r, tagged |-> FALSE] \in Events
    BY ServiceAssumption DEF Events
  <2>2. QED
    BY <1>7, <2>1 DEF Type
<1>8. ASSUME NEW c \in Channels, Listen(c) PROVE DirectoryStep /\ BridgeStep
  BY <1>8 DEF Listen
<1>9. CASE UNCHANGED vars
  BY <1>9 DEF vars
<1>10. QED
  BY <1>1, <1>2, <1>3, <1>4, <1>5, <1>6, <1>7, <1>8, <1>9 DEF Next

-------------------------------------------------------------------------------

\* The directory and its files keep their types (nodeDirectory)
LEMMA DirectoryTypes == ASSUME DirectoryTypeOK, DirectoryStep PROVE DirectoryTypeOK'
<1>a. Nobody \in Directory
  BY DEF Nobody, Directory
<1>b. Broken \in Files
  BY <1>a, Zenon DEF Broken, Files
<1>c. ASSUME NEW d \in Directory PROVE Whole(d) \in Files
  BY Zenon DEF Whole, Files
<1>d. ASSUME NEW f \in Files PROVE f.names \in Directory
  BY DEF Files
<1> USE DEF DirectoryTypeOK
<1>1. CASE Load
  BY <1>a, <1>d, <1>1 DEF Load
<1>2. CASE Forget
  BY <1>a, <1>d, <1>2 DEF Forget
<1>3. CASE OpenTmp
  BY <1>a, <1>b, <1>c, <1>d, <1>3 DEF OpenTmp
<1>4. CASE WriteTmp
  BY <1>a, <1>b, <1>c, <1>d, <1>4 DEF WriteTmp
<1>5. CASE Rename
  BY <1>a, <1>b, <1>c, <1>d, <1>5 DEF Rename
<1>6. ASSUME NEW n \in Nodes, NEW name \in Names, Set(n, name) PROVE DirectoryTypeOK'
  BY <1>6 DEF Set, Directory
<1>7. CASE UNCHANGED directoryVars
  BY <1>7 DEF directoryVars
<1>8. QED
  BY <1>1, <1>2, <1>3, <1>4, <1>5, <1>6, <1>7 DEF DirectoryStep, Save

\* The streams keep their types, and no pause is doubled beyond the limit
\* (runReplyBridge, streamReplies)
LEMMA BridgeTypes == ASSUME BridgeTypeOK, BridgeStep PROVE BridgeTypeOK'
<1> USE BridgeAssumption DEF BridgeTypeOK
<1>1. CASE BridgeStart
  BY <1>1 DEF BridgeStart
<1>2. CASE BridgeEnd
  BY <1>2 DEF BridgeEnd
<1>3. ASSUME NEW c \in Channels, Connect(c) PROVE BridgeTypeOK'
  BY <1>3 DEF Connect
<1>4. ASSUME NEW c \in Channels, Break(c) PROVE BridgeTypeOK'
  BY <1>4 DEF Break
<1>5. ASSUME NEW c \in Channels, Wake(c) PROVE BridgeTypeOK'
  BY <1>5 DEF Wake
<1>6. ASSUME NEW c \in Channels, Scan(c) PROVE BridgeTypeOK'
  <2>a. conn[c] \in Seq(Events) /\ conn[c] # <<>>
    BY <1>6 DEF Scan
  <2>b. Head(conn[c]) \in Events /\ Tail(conn[c]) \in Seq(Events)
    BY <2>a
  <2>1. [channel |-> c, text |-> Head(conn[c]).text] \in Outgoing
    BY <2>b DEF Events, Outgoing
  <2>2. conn' \in [Channels -> Seq(Events)]
    BY <1>6, <2>b DEF Scan
  <2>c. \/ toMesh' = Append(toMesh, [channel |-> c, text |-> Head(conn[c]).text])
        \/ toMesh' = toMesh
    BY <1>6 DEF Scan
  <2>d. Append(toMesh, [channel |-> c, text |-> Head(conn[c]).text]) \in Seq(Outgoing)
    BY <2>1
  <2>3. toMesh' \in Seq(Outgoing)
    BY <2>c, <2>d
  <2>4. QED
    BY <1>6, <2>2, <2>3 DEF Scan
<1>7. ASSUME NEW event \in Events, NEW topic, Post(topic, event) PROVE BridgeTypeOK'
  BY <1>7 DEF Post
<1>8. CASE UNCHANGED bridgeVars
  BY <1>8 DEF bridgeVars
<1>9. QED
  BY <1>1, <1>2, <1>3, <1>4, <1>5, <1>6, <1>7, <1>8 DEF BridgeStep

\* The process keeps its types (cmd/ws-ntfy/main.go)
THEOREM TypeCorrect == Spec => []TypeOK
<1>1. Init => TypeOK
  <2> SUFFICES ASSUME Init PROVE TypeOK
    OBVIOUS
  <2>1. Nobody \in Directory
    BY DEF Nobody, Directory
  <2>2. Whole(Nobody) \in Files /\ Broken \in Files
    BY <2>1, Zenon DEF Whole, Broken, Files
  <2>3. DirectoryTypeOK
    BY <2>1, <2>2 DEF Init, DirectoryInit, DirectoryTypeOK
  <2>4. BridgeTypeOK
    BY BridgeAssumption DEF Init, BridgeInit, BridgeTypeOK
  <2>5. starts \in 0 .. MaxStarts
    BY ServiceAssumption DEF Init
  <2>a. up \in BOOLEAN
    BY DEF Init
  <2>b. typed \in Seq(Replies)
    BY DEF Init
  <2>6. posting \in {<<>>} \cup {<<m>> : m \in Texts} /\ handled \subseteq Texts
    BY DEF Init
  <2>7. QED
    BY <2>3, <2>4, <2>5, <2>a, <2>b, <2>6 DEF TypeOK
<1>2. TypeOK /\ [Next]_vars => TypeOK'
  <2> SUFFICES ASSUME TypeOK, [Next]_vars PROVE TypeOK'
    OBVIOUS
  <2>1. DirectoryTypeOK' /\ BridgeTypeOK'
    BY StepsBelow, DirectoryTypes, BridgeTypes DEF TypeOK
  <2>2. /\ up' \in BOOLEAN
        /\ starts' \in 0 .. MaxStarts
        /\ posting' \in {<<>>} \cup {<<m>> : m \in Texts}
        /\ handled' \subseteq Texts
        /\ typed' \in Seq(Replies)
    <3> USE ServiceAssumption DEF TypeOK, serviceVars
    <3>1. CASE Start
      BY <3>1 DEF Start
    <3>2. CASE End
      BY <3>2 DEF End
    <3>3. CASE \E n \in Nodes, name \in Names : NodeInfo(n, name)
      BY <3>3 DEF NodeInfo
    <3>4. CASE SaveStep
      BY <3>4 DEF SaveStep
    <3>5. CASE \E m \in Texts : TakeText(m)
      BY <3>5 DEF TakeText
    <3>6. CASE PostText
      BY <3>6 DEF PostText
    <3>7. CASE \E r \in Replies : Type(r)
      BY <3>7 DEF Type
    <3>8. CASE \E c \in Channels : Listen(c)
      BY <3>8 DEF Listen
    <3>9. CASE UNCHANGED vars
      BY <3>9 DEF vars
    <3>10. QED
      BY <3>1, <3>2, <3>3, <3>4, <3>5, <3>6, <3>7, <3>8, <3>9 DEF Next
  <2>3. QED
    BY <2>1, <2>2 DEF TypeOK
<1>3. QED
  BY <1>1, <1>2, PTL DEF Spec

-------------------------------------------------------------------------------

\* The file and the map: the file is whole, what save is about to commit is
\* the map, and no name is on file that the map does not have.
FileInv ==
    /\ file.whole
    /\ saving # "no" => up /\ raw = names
    /\ saving = "rename" => tmp = Whole(raw)
    /\ up /\ ~ReadFails => \A n \in Nodes : Named(n) => names[n] # NoName

\* It holds at the start, and no step breaks it (nodeDirectory.load, set, save)
LEMMA FileInvStep == ASSUME TypeOK, FileInv, [Next]_vars PROVE FileInv'
<1> USE DEF FileInv, Named
<1>1. CASE Start
  BY <1>1 DEF Start, Load
<1>2. CASE End
  BY <1>2 DEF End, Forget
<1>3. ASSUME NEW n \in Nodes, NEW name \in Names, NodeInfo(n, name) PROVE FileInv'
  <2>1. \A k \in Nodes : names'[k] = IF k = n THEN name ELSE names[k]
    BY <1>3 DEF NodeInfo, Set, TypeOK, DirectoryTypeOK, Directory
  <2>2. QED
    BY <1>3, <2>1, DirectoryAssumption DEF NodeInfo, Set, serviceVars
<1>4. CASE SaveStep
  <2>1. CASE OpenTmp
    BY <1>4, <2>1 DEF SaveStep, OpenTmp, serviceVars
  <2>2. CASE WriteTmp
    BY <1>4, <2>2 DEF SaveStep, WriteTmp, serviceVars
  <2>3. CASE Rename
    BY <1>4, <2>3 DEF SaveStep, Rename, serviceVars, Whole
  <2>4. QED
    BY <1>4, <2>1, <2>2, <2>3 DEF SaveStep, Save
<1>5. CASE \E m \in Texts : TakeText(m)
  BY <1>5 DEF TakeText, directoryVars
<1>6. CASE PostText
  BY <1>6 DEF PostText, directoryVars
<1>7. CASE \E r \in Replies : Type(r)
  BY <1>7 DEF Type, directoryVars
<1>8. CASE \E c \in Channels : Listen(c)
  BY <1>8 DEF Listen, directoryVars, serviceVars
<1>9. CASE UNCHANGED vars
  BY <1>9 DEF vars, directoryVars, serviceVars
<1>10. QED
  BY <1>1, <1>2, <1>3, <1>4, <1>5, <1>6, <1>7, <1>8, <1>9 DEF Next

\* It is an invariant of the process, and with it the file is always whole
\* (nodeDirectory.save)
LEMMA FileIsWhole == Spec => []FileInv
<1>1. Init => FileInv
  BY DEF Init, DirectoryInit, FileInv, Named, Whole, Nobody
<1>2. TypeOK /\ FileInv /\ [Next]_vars => FileInv'
  BY FileInvStep
<1>3. QED
  BY <1>1, <1>2, TypeCorrect, PTL DEF Spec

\* The file changes in one action only.
LEMMA FileChanges == ASSUME TypeOK, [Next]_vars, file' # file PROVE SaveStep /\ Rename
<1>1. DirectoryStep
  BY StepsBelow
<1>2. Rename
  BY <1>1 DEF DirectoryStep, Load, Forget, Save, OpenTmp, WriteTmp, Set, directoryVars
<1>3. QED
  BY <1>2 DEF Next, Start, End, NodeInfo, TakeText, PostText, Type, Listen, vars,
              Load, Forget, Set, directoryVars

\* No save that has been overtaken takes a name back: the file always becomes
\* what the map is at that moment (nodeDirectory.save)
THEOREM CommitsAreCurrent == Spec => CommitIsCurrent
<1>1. TypeOK /\ FileInv /\ [Next]_vars => (file' # file => file' = Whole(names))
  BY FileChanges DEF FileInv, Rename
<1>2. QED
  BY <1>1, TypeCorrect, FileIsWhole, PTL DEF Spec, CommitIsCurrent

\* Wherever the process ends, and whatever writes fail, a node that has a name
\* on file keeps one, if the file can be read (nodeDirectory.load, set, save)
THEOREM NamesStay == ASSUME ~ReadFails PROVE Spec => NamesKept
<1>1. TypeOK /\ FileInv /\ [Next]_vars => (\A n \in Nodes : Named(n) => Named(n)')
  <2> SUFFICES ASSUME TypeOK, FileInv, [Next]_vars, NEW n \in Nodes, Named(n)
               PROVE Named(n)'
    OBVIOUS
  <2>1. CASE file' = file
    BY <2>1 DEF Named
  <2>2. CASE file' # file
    <3>1. SaveStep /\ Rename
      BY <2>2, FileChanges
    <3>2. file' = Whole(names) /\ up
      BY <2>2, <3>1 DEF FileInv, Rename
    <3>3. QED
      BY <3>2 DEF FileInv, Named, Whole
  <2>3. QED
    BY <2>1, <2>2
<1>2. QED
  BY <1>1, TypeCorrect, FileIsWhole, PTL DEF Spec, NamesKept
-------------------------------------------------------------------------------

\* In the replies t one was typed before the other; one was typed on the topic of
\* a channel.
Before(t, a, b) == \E k, l \in 1 .. Len(t) : k < l /\ t[k] = a /\ t[l] = b
TypedFor(t, a, c) == \E k \in 1 .. Len(t) : t[k] = a /\ TypedOn[t[k]] = TopicOf[c]

\* What waits in the stream q of a channel without the tag was typed on its
\* topic, in that order, and after all of m that has been published from it.
StreamOK(q, c, t, m) ==
    \A i \in 1 .. Len(q) : ~q[i].tagged =>
        /\ TypedFor(t, q[i].text, c)
        /\ \A j \in 1 .. i - 1 : ~q[j].tagged => Before(t, q[j].text, q[i].text)
        /\ \A j \in 1 .. Len(m) : m[j].channel = c => Before(t, m[j].text, q[i].text)

\* RepliesGoHome in the terms of this proof.
Home(t, m) ==
    \A i \in 1 .. Len(m) :
        /\ TypedFor(t, m[i].text, m[i].channel)
        /\ \A j \in 1 .. i - 1 : m[j].channel = m[i].channel =>
               Before(t, m[j].text, m[i].text)

RepliesInv ==
    /\ Home(typed, toMesh)
    /\ \A c \in Channels : StreamOK(conn[c], c, typed, toMesh)

\* There is nothing to say of an empty stream (streamReplies)
LEMMA EmptyStream == ASSUME NEW c, NEW t, NEW m PROVE StreamOK(<<>>, c, t, m)
BY DEF StreamOK

\* The tag of what this program posts keeps it out of what is said of replies
\* (postIncoming)
LEMMA TaggedPost ==
    ASSUME NEW c, NEW t, NEW m, NEW q \in Seq(Events), StreamOK(q, c, t, m),
           NEW e \in Events, e.tagged
    PROVE  StreamOK(Append(q, e), c, t, m)
<1>1. /\ Len(Append(q, e)) = Len(q) + 1 /\ Len(q) \in Nat
      /\ \A i \in 1 .. Len(q) : Append(q, e)[i] = q[i]
      /\ Append(q, e)[Len(q) + 1] = e
  OBVIOUS
<1>2. ASSUME NEW i \in 1 .. Len(q) + 1, ~Append(q, e)[i].tagged
      PROVE  /\ TypedFor(t, Append(q, e)[i].text, c)
             /\ \A j \in 1 .. i - 1 : ~Append(q, e)[j].tagged =>
                    Before(t, Append(q, e)[j].text, Append(q, e)[i].text)
             /\ \A j \in 1 .. Len(m) : m[j].channel = c =>
                    Before(t, m[j].text, Append(q, e)[i].text)
  <2>1. i \in 1 .. Len(q)
    BY <1>1, <1>2
  <2>2. Append(q, e)[i] = q[i] /\ \A j \in 1 .. i - 1 : Append(q, e)[j] = q[j]
    BY <1>1, <2>1
  <2>3. QED
    BY <1>2, <2>1, <2>2 DEF StreamOK
<1>3. QED
  BY <1>1, <1>2 DEF StreamOK

\* Reading leaves the stream as good as before (streamReplies)
LEMMA ReadStream ==
    ASSUME NEW c, NEW t, NEW m, NEW q \in Seq(Events), q # <<>>, StreamOK(q, c, t, m)
    PROVE  StreamOK(Tail(q), c, t, m)
<1>1. /\ Len(Tail(q)) = Len(q) - 1 /\ Len(q) \in Nat
      /\ \A i \in 1 .. Len(q) - 1 : Tail(q)[i] = q[i + 1]
  OBVIOUS
<1>2. ASSUME NEW i \in 1 .. Len(q) - 1, ~Tail(q)[i].tagged
      PROVE  /\ TypedFor(t, Tail(q)[i].text, c)
             /\ \A j \in 1 .. i - 1 : ~Tail(q)[j].tagged =>
                    Before(t, Tail(q)[j].text, Tail(q)[i].text)
             /\ \A j \in 1 .. Len(m) : m[j].channel = c =>
                    Before(t, m[j].text, Tail(q)[i].text)
  <2>1. /\ i + 1 \in 1 .. Len(q)
        /\ Tail(q)[i] = q[i + 1]
        /\ \A j \in 1 .. i - 1 : j + 1 \in 1 .. (i + 1) - 1 /\ Tail(q)[j] = q[j + 1]
    BY <1>1
  <2>2. QED
    BY <1>2, <2>1 DEF StreamOK
<1>3. QED
  BY <1>1, <1>2 DEF StreamOK

\* What is published comes after all that was, and before all that waits; the
\* other channels do not see it (streamReplies)
LEMMA Published ==
    ASSUME NEW t, NEW m \in Seq(Outgoing), Home(t, m),
           NEW c \in Channels, NEW q \in Seq(Events), q # <<>>, StreamOK(q, c, t, m),
           ~Head(q).tagged,
           NEW out \in Outgoing, out = [channel |-> c, text |-> Head(q).text]
    PROVE  /\ Home(t, Append(m, out))
           /\ StreamOK(Tail(q), c, t, Append(m, out))
           /\ \A d, p : d # c /\ StreamOK(p, d, t, m) => StreamOK(p, d, t, Append(m, out))
<1>1. /\ Len(Append(m, out)) = Len(m) + 1 /\ Len(m) \in Nat
      /\ \A i \in 1 .. Len(m) : Append(m, out)[i] = m[i]
      /\ Append(m, out)[Len(m) + 1] = out
  OBVIOUS
<1>2. out.channel = c /\ out.text = q[1].text /\ ~q[1].tagged /\ 1 \in 1 .. Len(q)
  OBVIOUS
<1>3. /\ TypedFor(t, out.text, c)
      /\ \A j \in 1 .. Len(m) : m[j].channel = c => Before(t, m[j].text, out.text)
  BY <1>2 DEF StreamOK
<1>4. Home(t, Append(m, out))
  <2>1. ASSUME NEW i \in 1 .. Len(m) + 1
        PROVE  /\ TypedFor(t, Append(m, out)[i].text, Append(m, out)[i].channel)
               /\ \A j \in 1 .. i - 1 :
                      Append(m, out)[j].channel = Append(m, out)[i].channel =>
                          Before(t, Append(m, out)[j].text, Append(m, out)[i].text)
    <3>1. CASE i \in 1 .. Len(m)
      <4>1. Append(m, out)[i] = m[i] /\ \A j \in 1 .. i - 1 : Append(m, out)[j] = m[j]
        BY <1>1, <3>1
      <4>2. QED
        BY <3>1, <4>1 DEF Home
    <3>2. CASE i = Len(m) + 1
      BY <1>1, <1>2, <1>3, <3>2
    <3>3. QED
      BY <1>1, <3>1, <3>2
  <2>2. QED
    BY <1>1, <2>1 DEF Home
<1>5. StreamOK(Tail(q), c, t, Append(m, out))
  <2>1. StreamOK(Tail(q), c, t, m)
    BY ReadStream
  <2>2. ASSUME NEW i \in 1 .. Len(Tail(q)), ~Tail(q)[i].tagged
        PROVE  Before(t, out.text, Tail(q)[i].text)
    <3>1. i + 1 \in 1 .. Len(q) /\ Tail(q)[i] = q[i + 1] /\ 1 \in 1 .. (i + 1) - 1
      OBVIOUS
    <3>2. QED
      BY <1>2, <2>2, <3>1 DEF StreamOK
  <2>3. QED
    BY <1>1, <2>1, <2>2 DEF StreamOK
<1>6. ASSUME NEW d, NEW p, d # c, StreamOK(p, d, t, m)
      PROVE  StreamOK(p, d, t, Append(m, out))
  BY <1>1, <1>2, <1>6 DEF StreamOK
<1>7. QED
  BY <1>4, <1>5, <1>6

\* A reply comes after all that has been typed before it, in every stream of its
\* topic (the server keeps the order)
LEMMA TypedLast ==
    ASSUME NEW t \in Seq(Replies), NEW r \in Replies, NEW m, Home(t, m),
           NEW c, NEW q \in Seq(Events), StreamOK(q, c, t, m),
           NEW e \in Events, e.text = r
    PROVE  /\ Home(Append(t, r), m)
           /\ StreamOK(q, c, Append(t, r), m)
           /\ TypedOn[r] = TopicOf[c] => StreamOK(Append(q, e), c, Append(t, r), m)
<1>1. /\ Len(Append(t, r)) = Len(t) + 1 /\ Len(t) \in Nat
      /\ \A k \in 1 .. Len(t) : Append(t, r)[k] = t[k]
      /\ Append(t, r)[Len(t) + 1] = r
  OBVIOUS
<1>2. ASSUME NEW a, NEW b, Before(t, a, b) PROVE Before(Append(t, r), a, b)
  BY <1>1, <1>2 DEF Before
<1>3. ASSUME NEW a, NEW d, TypedFor(t, a, d)
      PROVE  TypedFor(Append(t, r), a, d) /\ Before(Append(t, r), a, r)
  <2>1. PICK k \in 1 .. Len(t) : t[k] = a /\ TypedOn[t[k]] = TopicOf[d]
    BY <1>3 DEF TypedFor
  <2>2. /\ k \in 1 .. Len(Append(t, r)) /\ Len(t) + 1 \in 1 .. Len(Append(t, r))
        /\ k < Len(t) + 1
    BY <1>1
  <2>3. QED
    BY <1>1, <2>1, <2>2 DEF TypedFor, Before
<1>4. Home(Append(t, r), m)
  BY <1>2, <1>3 DEF Home
<1>5. StreamOK(q, c, Append(t, r), m)
  BY <1>2, <1>3 DEF StreamOK
<1>6. ASSUME TypedOn[r] = TopicOf[c] PROVE StreamOK(Append(q, e), c, Append(t, r), m)
  <2>1. /\ Len(Append(q, e)) = Len(q) + 1 /\ Len(q) \in Nat
        /\ \A i \in 1 .. Len(q) : Append(q, e)[i] = q[i]
        /\ Append(q, e)[Len(q) + 1] = e
    OBVIOUS
  <2>2. TypedFor(Append(t, r), r, c)
    <3>1. Len(t) + 1 \in 1 .. Len(Append(t, r))
      BY <1>1
    <3>2. QED
      BY <1>1, <1>6, <3>1 DEF TypedFor
  <2>3. ASSUME NEW i \in 1 .. Len(q) + 1, ~Append(q, e)[i].tagged
        PROVE  /\ TypedFor(Append(t, r), Append(q, e)[i].text, c)
               /\ \A j \in 1 .. i - 1 : ~Append(q, e)[j].tagged =>
                      Before(Append(t, r), Append(q, e)[j].text, Append(q, e)[i].text)
               /\ \A j \in 1 .. Len(m) : m[j].channel = c =>
                      Before(Append(t, r), m[j].text, Append(q, e)[i].text)
    <3>1. CASE i \in 1 .. Len(q)
      <4>1. Append(q, e)[i] = q[i] /\ \A j \in 1 .. i - 1 : Append(q, e)[j] = q[j]
        BY <2>1, <3>1
      <4>2. QED
        BY <1>5, <2>3, <3>1, <4>1 DEF StreamOK
    <3>2. CASE i = Len(q) + 1
      <4>1. Append(q, e)[i].text = r
        BY <2>1, <3>2
      <4>2. \A j \in 1 .. i - 1 : ~Append(q, e)[j].tagged =>
                Before(Append(t, r), Append(q, e)[j].text, r)
        BY <1>3, <2>1, <3>2 DEF StreamOK
      <4>3. \A j \in 1 .. Len(m) : m[j].channel = c => Before(Append(t, r), m[j].text, r)
        BY <1>3 DEF Home
      <4>4. QED
        BY <2>2, <4>1, <4>2, <4>3
    <3>3. QED
      BY <2>1, <3>1, <3>2
  <2>4. QED
    BY <2>1, <2>3 DEF StreamOK
<1>7. QED
  BY <1>4, <1>5, <1>6

\* A step that types and publishes nothing, and at most empties streams or adds
\* posts of this program to them (streamReplies, postIncoming)
LEMMA QuietStep ==
    ASSUME TypeOK, RepliesInv, UNCHANGED <<typed, toMesh>>,
           \A c \in Channels :
               \/ conn'[c] = conn[c]
               \/ conn'[c] = <<>>
               \/ \E e \in Events : e.tagged /\ conn'[c] = Append(conn[c], e)
    PROVE  RepliesInv'
<1>1. ASSUME NEW c \in Channels PROVE StreamOK(conn'[c], c, typed, toMesh)
  <2>1. conn[c] \in Seq(Events) /\ StreamOK(conn[c], c, typed, toMesh)
    BY DEF TypeOK, BridgeTypeOK, RepliesInv
  <2>2. QED
    BY <2>1, EmptyStream, TaggedPost
<1>2. QED
  BY <1>1 DEF RepliesInv

\* A reply that is read from the stream of its channel is published, or dropped
\* (streamReplies)
LEMMA ScanStep ==
    ASSUME TypeOK, RepliesInv, NEW c \in Channels, Scan(c), UNCHANGED typed
    PROVE  RepliesInv'
<1> DEFINE out == [channel |-> c, text |-> Head(conn[c]).text]
<1>1. /\ conn[c] \in Seq(Events) /\ conn[c] # <<>>
      /\ toMesh \in Seq(Outgoing)
  BY DEF TypeOK, BridgeTypeOK, Scan
<1>2. Head(conn[c]) \in Events
  BY <1>1
<1>3. out \in Outgoing
  BY <1>2 DEF Events, Outgoing
<1>4. conn' = [conn EXCEPT ![c] = Tail(conn[c])]
  BY DEF Scan
<1>5. /\ conn'[c] = Tail(conn[c])
      /\ \A d \in Channels \ {c} : conn'[d] = conn[d]
  BY <1>4 DEF TypeOK, BridgeTypeOK
<1>6. /\ Home(typed, toMesh)
      /\ \A d \in Channels : StreamOK(conn[d], d, typed, toMesh)
  BY DEF RepliesInv
<1>7. CASE toMesh' = toMesh
  <2>1. StreamOK(Tail(conn[c]), c, typed, toMesh)
    BY <1>1, <1>6, ReadStream
  <2>2. QED
    BY <1>5, <1>6, <1>7, <2>1 DEF RepliesInv
<1>8. CASE ~Head(conn[c]).tagged /\ toMesh' = Append(toMesh, out)
  <2>1. /\ Home(typed, toMesh')
        /\ StreamOK(Tail(conn[c]), c, typed, toMesh')
        /\ \A d, p : d # c /\ StreamOK(p, d, typed, toMesh) => StreamOK(p, d, typed, toMesh')
    BY <1>1, <1>3, <1>6, <1>8, Published
  <2>2. QED
    BY <1>5, <1>6, <2>1 DEF RepliesInv
<1>9. QED
  BY <1>7, <1>8 DEF Scan

\* Somebody types a reply (the server)
LEMMA TypeStep ==
    ASSUME TypeOK, RepliesInv, NEW r \in Replies, Type(r) PROVE RepliesInv'
<1> DEFINE e == [text |-> r, tagged |-> FALSE]
<1>1. e \in Events /\ e.text = r
  BY ServiceAssumption DEF Events
<1> HIDE DEF e
<1>2. typed \in Seq(Replies) /\ typed' = Append(typed, r) /\ toMesh' = toMesh
  BY DEF TypeOK, Type, Post
<1>3. Home(typed, toMesh)
  BY DEF RepliesInv
<1>4. ASSUME NEW c \in Channels PROVE StreamOK(conn'[c], c, typed', toMesh)
  <2>1. conn[c] \in Seq(Events) /\ StreamOK(conn[c], c, typed, toMesh)
    BY DEF TypeOK, BridgeTypeOK, RepliesInv
  <2>2. \/ conn'[c] = conn[c]
        \/ TypedOn[r] = TopicOf[c] /\ conn'[c] = Append(conn[c], e)
    BY DEF Type, Post, e
  <2>3. QED
    BY <1>1, <1>2, <1>3, <2>1, <2>2, TypedLast
<1>5. Home(typed', toMesh)
  <2>1. <<>> \in Seq(Events) /\ \A c : StreamOK(<<>>, c, typed, toMesh)
    BY EmptyStream
  <2>2. QED
    BY <1>1, <1>2, <1>3, <2>1, TypedLast
<1>6. QED
  BY <1>2, <1>4, <1>5 DEF RepliesInv

\* What goes to the mesh was typed for it, on the topic of its channel and in
\* that order; no text of the mesh goes back to it (streamReplies, postIncoming)
THEOREM RepliesStayHome == Spec => []RepliesGoHome
<1>1. Init => RepliesInv
  <2> SUFFICES ASSUME Init PROVE RepliesInv
    OBVIOUS
  <2>1. \A c \in Channels : conn[c] = <<>>
    BY DEF Init, BridgeInit
  <2>2. \A c \in Channels : StreamOK(conn[c], c, typed, toMesh)
    BY <2>1, EmptyStream
  <2>3. Home(typed, toMesh)
    BY DEF Init, BridgeInit, Home
  <2>4. QED
    BY <2>2, <2>3 DEF RepliesInv
<1>2. TypeOK /\ RepliesInv /\ [Next]_vars => RepliesInv'
  <2> SUFFICES ASSUME TypeOK, RepliesInv, [Next]_vars PROVE RepliesInv'
    OBVIOUS
  <2> USE DEF bridgeVars, serviceVars
  <2>1. CASE Start
    BY <2>1, QuietStep DEF Start, BridgeStart
  <2>2. CASE End
    BY <2>2, QuietStep DEF End, BridgeEnd
  <2>3. CASE \E n \in Nodes, name \in Names : NodeInfo(n, name)
    BY <2>3, QuietStep DEF NodeInfo
  <2>4. CASE SaveStep
    BY <2>4, QuietStep DEF SaveStep
  <2>5. CASE \E m \in Texts : TakeText(m)
    BY <2>5, QuietStep DEF TakeText
  <2>6. CASE PostText
    <3> DEFINE e == [text |-> Head(posting), tagged |-> TRUE]
    <3>1. e \in Events /\ e.tagged
      BY <2>6, ServiceAssumption DEF PostText, Events, TypeOK
    <3> HIDE DEF e
    <3>2. CASE Post(TopicOf[TextChannel[Head(posting)]], e)
      <4>1. ASSUME NEW c \in Channels
            PROVE  conn'[c] = conn[c] \/ conn'[c] = Append(conn[c], e)
        BY <3>2 DEF Post
      <4>2. UNCHANGED <<typed, toMesh>>
        BY <2>6, <3>2 DEF PostText, Post
      <4>3. QED
        BY <3>1, <4>1, <4>2, QuietStep
    <3>3. CASE UNCHANGED bridgeVars
      BY <2>6, <3>3, QuietStep DEF PostText
    <3>4. QED
      BY <2>6, <3>2, <3>3 DEF PostText, e
  <2>7. CASE \E r \in Replies : Type(r)
    BY <2>7, TypeStep
  <2>8. ASSUME NEW c \in Channels, Listen(c) PROVE RepliesInv'
    <3>1. UNCHANGED typed
      BY <2>8 DEF Listen
    <3>2. CASE Connect(c)
      BY <3>1, <3>2, QuietStep DEF Connect
    <3>3. CASE Break(c)
      <4>1. \A d \in Channels : conn'[d] = conn[d] \/ conn'[d] = <<>>
        BY <3>3 DEF Break, TypeOK, BridgeTypeOK
      <4>2. QED
        BY <3>1, <3>3, <4>1, QuietStep DEF Break
    <3>4. CASE Wake(c)
      BY <3>1, <3>4, QuietStep DEF Wake
    <3>5. CASE Scan(c)
      BY <3>1, <3>5, ScanStep
    <3>6. QED
      BY <2>8, <3>2, <3>3, <3>4, <3>5 DEF Listen
  <2>9. CASE UNCHANGED vars
    BY <2>9, QuietStep DEF vars
  <2>10. QED
    BY <2>1, <2>2, <2>3, <2>4, <2>5, <2>6, <2>7, <2>8, <2>9 DEF Next
<1>3. RepliesInv => RepliesGoHome
  BY DEF RepliesInv, Home, RepliesGoHome, TypedFor, Before
<1>4. QED
  BY <1>1, <1>2, <1>3, TypeCorrect, PTL DEF Spec
===============================================================================
