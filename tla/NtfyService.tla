------------------------------ MODULE NtfyService ------------------------------
(***************************************************************************)
(* cmd/ws-ntfy/main.go: the process that posts the texts of the mesh to    *)
(* ntfy and sends what is typed there to the mesh, with a directory of the *)
(* names of nodes that outlives it.                                        *)
(*                                                                         *)
(* One goroutine handles the names that nodes announce, one the texts, and *)
(* one per channel listens for replies.  The process may end at any point, *)
(* by a signal or otherwise, and be started again.                         *)
(***************************************************************************)
EXTENDS NodeDirectory, ReplyBridge

CONSTANTS
    Texts,          \* texts received from the mesh, each once
    Replies,        \* messages typed on a topic, each once
    TextChannel,    \* the channel of each text; it need not be a mapped one
    TypedOn,        \* the topic of each reply
    MaxStarts       \* bound: how often the process is started

ASSUME ServiceAssumption ==
    /\ Messages = Texts \cup Replies
    /\ Texts \cap Replies = {}
    /\ TypedOn \in [Replies -> Topics]
    /\ DOMAIN TextChannel = Texts
    /\ MaxStarts \in Nat

VARIABLES
    up,         \* the process is there
    starts,
    posting,    \* the text that postIncoming posts: none or one
    handled,    \* ghost: the texts that the process has received
    typed       \* ghost: the replies, in the order in which they were typed

serviceVars == <<up, starts, posting, handled, typed>>
vars == <<directoryVars, bridgeVars, serviceVars>>

\* Type invariant: the process, its directory and its streams
TypeOK ==
    /\ DirectoryTypeOK
    /\ BridgeTypeOK
    /\ up \in BOOLEAN
    /\ starts \in 0 .. MaxStarts
    /\ posting \in {<<>>} \cup {<<m>> : m \in Texts}
    /\ handled \subseteq Texts
    /\ typed \in Seq(Replies)

Init ==
    /\ DirectoryInit
    /\ BridgeInit
    /\ up = FALSE
    /\ starts = 0
    /\ posting = <<>>
    /\ handled = {}
    /\ typed = <<>>

-------------------------------------------------------------------------------

Start ==
    /\ ~up /\ starts < MaxStarts
    /\ up' = TRUE
    /\ starts' = starts + 1
    /\ Load
    /\ BridgeStart
    /\ UNCHANGED <<posting, handled, typed>>

\* A signal, a crash, or the end of the container.
End ==
    /\ up
    /\ up' = FALSE
    /\ posting' = <<>>
    /\ Forget
    /\ BridgeEnd
    /\ UNCHANGED <<starts, handled, typed>>

\* A node announces its name.
NodeInfo(n, name) ==
    /\ up
    /\ Set(n, name)
    /\ UNCHANGED <<bridgeVars, serviceVars>>

SaveStep == Save /\ UNCHANGED <<bridgeVars, serviceVars>>

\* A text is taken from NATS; on a channel without a topic it is dropped.
TakeText(m) ==
    /\ up /\ posting = <<>> /\ m \notin handled
    /\ handled' = handled \cup {m}
    /\ posting' = IF TextChannel[m] \in Channels THEN <<m>> ELSE <<>>
    /\ UNCHANGED <<directoryVars, bridgeVars, up, starts, typed>>

\* Slip: the text is posted without the tag.
PostTextSlip ==
    /\ posting # <<>>
    /\ posting' = <<>>
    /\ Post(TopicOf[TextChannel[Head(posting)]], [text |-> Head(posting), tagged |-> FALSE])
    /\ UNCHANGED <<directoryVars, up, starts, handled, typed>>

\* postIncoming returns; the server has got the text, or not.
PostText ==
    /\ posting # <<>>
    /\ posting' = <<>>
    /\ \/ Post(TopicOf[TextChannel[Head(posting)]],
               [text |-> Head(posting), tagged |-> TRUE])
       \/ UNCHANGED bridgeVars
    /\ UNCHANGED <<directoryVars, up, starts, handled, typed>>

\* Somebody types a reply.
Type(r) ==
    /\ \A i \in DOMAIN typed : typed[i] # r
    /\ typed' = Append(typed, r)
    /\ Post(TypedOn[r], [text |-> r, tagged |-> FALSE])
    /\ UNCHANGED <<directoryVars, up, starts, posting, handled>>

Listen(c) ==
    /\ Connect(c) \/ Break(c) \/ Wake(c) \/ Scan(c)
    /\ UNCHANGED <<directoryVars, serviceVars>>

Next ==
    \/ Start \/ End
    \/ \E n \in Nodes, name \in Names : NodeInfo(n, name)
    \/ SaveStep
    \/ \E m \in Texts : TakeText(m)
    \/ PostText
    \/ \E r \in Replies : Type(r)
    \/ \E c \in Channels : Listen(c)

Spec == Init /\ [][Next]_vars

-------------------------------------------------------------------------------
(* Safety *)

\* A node that has a name on file keeps one, whenever the process ends and is
\* started again (main.go:81-143; config/ntfy.yaml.example: "persisting avoids
\* losing names across restarts").  The file must have been readable.
Named(n) == file.whole /\ file.names[n] # NoName
NamesKept == [][\A n \in Nodes : Named(n) => Named(n)']_vars

\* What is committed to the file is the directory as it is at that moment: no
\* save that has been overtaken takes a name back (main.go:107-144).
CommitIsCurrent == [][file' # file => file' = Whole(names)]_vars

\* What goes to the mesh was typed on the topic of its channel, each reply
\* once per channel and in the order of typing.  A text of the mesh never goes
\* back to it, though it appears on the same topic (main.go:207-245, 249-257).
RepliesGoHome ==
    \A i \in 1 .. Len(toMesh) :
        /\ \E k \in 1 .. Len(typed) :
               /\ typed[k] = toMesh[i].text
               /\ TypedOn[typed[k]] = TopicOf[toMesh[i].channel]
        /\ \A j \in 1 .. i - 1 : toMesh[j].channel = toMesh[i].channel =>
               \E k, l \in 1 .. Len(typed) :
                   k < l /\ typed[k] = toMesh[j].text /\ typed[l] = toMesh[i].text

-------------------------------------------------------------------------------
(* Liveness *)

\* The goroutines run, and the server accepts a connection now and then.
Fairness ==
    \A c \in Channels :
        /\ WF_vars(Wake(c) /\ UNCHANGED <<directoryVars, serviceVars>>)
        /\ SF_vars(Connect(c) /\ UNCHANGED <<directoryVars, serviceVars>>)

FairSpec == Spec /\ Fairness

\* While the process is there every channel is listened to again and again,
\* however often its stream breaks (main.go:172-188).
KeepsListening == \A c \in Channels : []<>(stream[c] = "open" \/ ~up)
===============================================================================
