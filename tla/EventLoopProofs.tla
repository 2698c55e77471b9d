---------------------------- MODULE EventLoopProofs ----------------------------
(***************************************************************************)
(* Theorems about EventLoop, for every set of events and every horizon:    *)
(* types, wakeups, the list and the pass that share no event, the          *)
(* implementation of DelayedTasks, and the length of the sleep.            *)
(***************************************************************************)
EXTENDS EventLoop, TLAPS

\* Every reachable state has the types declared for it.
THEOREM TypeCorrect == Spec => []TypeOK
<1>1. Init => TypeOK
  <2> SUFFICES ASSUME Init PROVE TypeOK
    OBVIOUS
  <2>1. now \in Times /\ passStart \in Times
    BY EventLoopAssumption DEF Init, Times
  <2>2. wake \in BOOLEAN /\ cancelled \in BOOLEAN
    BY DEF Init
  <2>3. /\ eventQueue \in Pointers /\ eventQueueTail \in Pointers
        /\ next \in [Events -> Pointers] /\ scheduledBy \in [Events -> Nat]
        /\ pc = "select" /\ event \in Pointers /\ nextEvent \in Pointers
        /\ sleepDuration \in Int /\ deadline \in Int
        /\ waking = {} /\ posted = {} /\ ran = {} /\ fresh = {} /\ crossed = {}
    BY DEF Init, Pointers
  <2>4. QED
    BY <2>1, <2>2, <2>3 DEF TypeOK
<1>2. TypeOK /\ [Next]_vars => TypeOK'
  <2> SUFFICES ASSUME TypeOK, [Next]_vars PROVE TypeOK'
    OBVIOUS
  <2> USE EventLoopAssumption DEF TypeOK, Pointers, Times
  <2>1. CASE \E e \in Events : Post(e)
    BY <2>1 DEF Post, Enqueue, loopVars
  <2>2. CASE \E e \in Events : WakeUp(e)
    BY <2>2 DEF WakeUp, queueVars, loopVars, ghostVars
  <2>3. CASE Quit
    BY <2>3 DEF Quit, queueVars, loopVars, ghostVars
  <2>4. CASE Select
    BY <2>4 DEF Select, SelectDone, SelectWake, SelectTimer, queueVars, ghostVars
  <2>5. CASE Drain
    BY <2>5 DEF Drain
  <2>6. CASE Check
    BY <2>6 DEF Check, queueVars
  <2>7. CASE CallbackReturns
    BY <2>7 DEF CallbackReturns, queueVars, ghostVars
  <2>8. CASE Postpone
    <3>1. scheduledBy[event] - now \in Int
      BY <2>8 DEF Postpone
    <3>2. QED
      BY <2>8, <3>1 DEF Postpone, Enqueue
  <2>9. CASE Sleep
    BY <2>9 DEF Sleep, queueVars, ghostVars
  <2>10. CASE Tick
    BY <2>10 DEF Tick, queueVars, loopVars, ghostVars
  <2>11. CASE UNCHANGED vars
    BY <2>11 DEF vars, queueVars, loopVars, ghostVars
  <2>12. QED
    BY <2>1, <2>2, <2>3, <2>4, <2>5, <2>6, <2>7, <2>8, <2>9, <2>10, <2>11
       DEF Next, ProcessEvents
<1>3. QED
  BY <1>1, <1>2, PTL DEF Spec

\* No event posted is left to the timer: it is announced by a token in the
\* channel wake, or its poster is about to put one there, or the loop is
\* already on its way to take the list.  The invariant is inductive by itself.
THEOREM WakeupsAreKept == Spec => []NoLostWakeup
<1>1. Init => NoLostWakeup
  BY DEF Init, NoLostWakeup
<1>2. NoLostWakeup /\ [Next]_vars => NoLostWakeup'
  <2> SUFFICES ASSUME NoLostWakeup, [Next]_vars PROVE NoLostWakeup'
    OBVIOUS
  <2> USE DEF NoLostWakeup
  <2>1. CASE \E e \in Events : Post(e)
    BY <2>1 DEF Post, loopVars
  <2>2. CASE \E e \in Events : WakeUp(e)
    BY <2>2 DEF WakeUp, loopVars, ghostVars
  <2>3. CASE Quit
    BY <2>3 DEF Quit, loopVars, ghostVars
  <2>4. CASE Select
    BY <2>4 DEF Select, SelectDone, SelectWake, SelectTimer, ghostVars
  <2>5. CASE Drain
    BY <2>5 DEF Drain
  <2>6. CASE Check \/ CallbackReturns \/ Postpone \/ Sleep
    BY <2>6 DEF Check, CallbackReturns, Postpone, Sleep, ghostVars
  <2>7. CASE Tick
    BY <2>7 DEF Tick, loopVars, ghostVars
  <2>8. CASE UNCHANGED vars
    BY <2>8 DEF vars, loopVars, ghostVars
  <2>9. QED
    BY <2>1, <2>2, <2>3, <2>4, <2>5, <2>6, <2>7, <2>8 DEF Next, ProcessEvents
<1>3. QED
  BY <1>1, <1>2, PTL DEF Spec
-------------------------------------------------------------------------------
(* Chains *)

\* The chain of an event is the least set that has it and is closed under next.
LEMMA ChainLeast == ASSUME TypeOK, NEW e \in Events
    PROVE  /\ e \in Chain(e) /\ Chain(e) \subseteq Events
           /\ Closed(Chain(e))
           /\ \A S \in SUBSET Events : e \in S /\ Closed(S) => Chain(e) \subseteq S
<1>1. e # Null
  BY EventLoopAssumption
<1>2. \A S \in SUBSET Events : e \in S /\ Closed(S) => Chain(e) \subseteq S
  BY <1>1 DEF Chain
<1>3. e \in Chain(e) /\ Chain(e) \subseteq Events
  BY <1>1 DEF Chain
<1>4. ASSUME NEW x \in Chain(e) PROVE next[x] \in Chain(e) \cup {Null}
  <2>1. next[x] \in Events \cup {Null}
    BY <1>3, <1>4 DEF TypeOK, Pointers
  <2>2. ASSUME NEW S \in SUBSET Events, e \in S, Closed(S) PROVE next[x] \in S \cup {Null}
    <3>1. x \in S
      BY <1>2, <1>4, <2>2
    <3>2. QED
      BY <2>2, <3>1 DEF Closed
  <2>3. QED
    BY <1>1, <2>1, <2>2 DEF Chain
<1>5. QED
  BY <1>2, <1>3, <1>4 DEF Closed

\* It is the event, followed by the chain of the next.
LEMMA ChainUnfolds == ASSUME TypeOK, NEW e \in Events
    PROVE  Chain(e) = {e} \cup Chain(next[e])
<1>1. next[e] \in Events \cup {Null} /\ Chain(Null) = {}
  BY DEF TypeOK, Pointers, Chain
<1>2. CASE next[e] = Null
  <2>1. Closed({e})
    BY <1>2 DEF Closed
  <2>2. QED
    BY <1>1, <1>2, <2>1, ChainLeast
<1>3. CASE next[e] \in Events
  <2> DEFINE n == next[e]
  <2>1. /\ n \in Chain(n) /\ Chain(n) \subseteq Events /\ Closed(Chain(n))
        /\ \A S \in SUBSET Events : n \in S /\ Closed(S) => Chain(n) \subseteq S
    BY <1>3, ChainLeast
  <2>2. /\ e \in Chain(e) /\ Chain(e) \subseteq Events /\ Closed(Chain(e))
        /\ \A S \in SUBSET Events : e \in S /\ Closed(S) => Chain(e) \subseteq S
    BY ChainLeast
  <2>3. Closed({e} \cup Chain(n))
    BY <2>1 DEF Closed
  <2>4. Chain(e) \subseteq {e} \cup Chain(n)
    BY <2>1, <2>2, <2>3
  <2>5. n \in Chain(e)
    BY <1>3, <2>2, EventLoopAssumption DEF Closed
  <2>6. QED
    BY <2>1, <2>2, <2>4, <2>5
<1>4. QED
  BY <1>1, <1>2, <1>3

\* A step that leaves the links of a chain leaves the chain.
LEMMA ChainKept == ASSUME TypeOK, TypeOK', NEW p \in Pointers,
                          \A x \in Chain(p) : next'[x] = next[x]
                   PROVE  Chain(p)' = Chain(p)
<1>1. CASE p = Null
  BY <1>1 DEF Chain
<1>2. CASE p \in Events
  <2> DEFINE C == Chain(p)
             D == Chain(p)'
  <2>1. /\ p \in C /\ C \subseteq Events /\ Closed(C)
        /\ \A S \in SUBSET Events : p \in S /\ Closed(S) => C \subseteq S
    BY <1>2, ChainLeast
  <2>2. p # Null
    BY <1>2, EventLoopAssumption
  <2>3. D = {x \in Events : \A S \in SUBSET Events :
                p \in S /\ (\A y \in S : next'[y] \in S \cup {Null}) => x \in S}
    BY <2>2 DEF Chain, Closed
  <2>4. \A y \in C : next'[y] \in C \cup {Null}
    BY <2>1 DEF Closed
  <2> HIDE DEF C, D
  <2>5. D \subseteq C
    BY <2>1, <2>3, <2>4
  <2>6. p \in D
    BY <1>2, <2>3
  <2>7. ASSUME NEW x \in D PROVE next[x] \in D \cup {Null}
    <3>1. next'[x] = next[x] /\ next[x] \in Events \cup {Null}
      BY <2>1, <2>5, <2>7 DEF C, TypeOK, Pointers
    <3>2. ASSUME NEW S \in SUBSET Events, p \in S, \A y \in S : next'[y] \in S \cup {Null}
          PROVE  next[x] \in S \cup {Null}
      <4>1. x \in S
        BY <2>3, <2>7, <3>2
      <4>2. QED
        BY <3>1, <3>2, <4>1
    <3>3. QED
      BY <2>3, <3>1, <3>2
  <2>8. Closed(D)
    BY <2>7 DEF Closed
  <2>9. C \subseteq D
    BY <2>1, <2>3, <2>6, <2>8
  <2>10. QED
    BY <2>5, <2>9 DEF C, D
<1>3. QED
  BY <1>1, <1>2 DEF Pointers

\* What the two lemmas above say of the state after a step.
ChainFacts ==
    \A e \in Events :
        /\ e \in Chain(e) /\ Chain(e) \subseteq Events
        /\ Closed(Chain(e))
        /\ \A S \in SUBSET Events : e \in S /\ Closed(S) => Chain(e) \subseteq S
        /\ Chain(e) = {e} \cup Chain(next[e])

\* They hold in every state of the types declared, so after a step as before it.
LEMMA ChainFactsHold == TypeOK => ChainFacts
BY ChainLeast, ChainUnfolds DEF ChainFacts

\* Likewise.
LEMMA ChainFactsAfter == TypeOK' => ChainFacts'
BY ChainFactsHold, PTL

\* No event of S is on the chain that follows it.
Acyclic(S) == \A x \in S : x \notin Chain(next[x])

\* A chain whose links a step leaves alone stays free of cycles.
LEMMA AcyclicKept == ASSUME TypeOK, TypeOK', NEW p \in Pointers, Acyclic(Chain(p)),
                            \A x \in Chain(p) : next'[x] = next[x]
                     PROVE  Chain(p)' = Chain(p) /\ Acyclic(Chain(p))'
<1>1. Chain(p)' = Chain(p)
  BY ChainKept
<1>2. ASSUME NEW x \in Chain(p) PROVE x \notin Chain(next[x])'
  <2>1. /\ next'[x] = next[x] /\ next[x] \in Pointers /\ x \notin Chain(next[x])
        /\ next[x] \in Chain(p) \cup {Null} /\ p \in Events
    BY <1>2, ChainLeast DEF Chain, Closed, Acyclic, Pointers, TypeOK
  <2>2. Chain(next[x]) \subseteq Chain(p)
    <3>1. CASE next[x] = Null
      BY <3>1 DEF Chain
    <3>2. CASE next[x] \in Chain(p)
      BY <2>1, <3>2, ChainLeast
    <3>3. QED
      BY <2>1, <3>1, <3>2
  <2> DEFINE n == next[x]
  <2>3. n \in Pointers /\ \A y \in Chain(n) : next'[y] = next[y]
    BY <2>1, <2>2
  <2> HIDE DEF n
  <2>4. QED
    BY <2>1, <2>3, ChainKept DEF n, Chain, Closed
<1>3. QED
  BY <1>1, <1>2 DEF Acyclic

\* The list ends at its tail and does not come back to itself.
ListInv ==
    /\ eventQueue = Null <=> eventQueueTail = Null
    /\ eventQueueTail # Null => eventQueueTail \in Queued /\ next[eventQueueTail] = Null
    /\ Acyclic(Queued)

\* enqueue puts the event on the list, and leaves every other chain alone
\* (event_loop.go, lines 103-116).
LEMMA Enqueued == ASSUME TypeOK, TypeOK', ListInv, NEW e \in Events, e \notin Queued, Enqueue(e)
    PROVE  /\ Queued' = Queued \cup {e}
           /\ ListInv'
           /\ \A x \in Events : next'[x] = next[x] \/ x = e \/ x \in Queued
<1> USE DEF Queued, ListInv, Acyclic
<1>1. /\ eventQueueTail' = e /\ next'[e] = Null /\ e # Null /\ Chain(Null) = {} /\ Chain(Null)' = {}
      /\ \A x \in Events : x # e /\ x # eventQueueTail => next'[x] = next[x]
  BY EventLoopAssumption DEF Enqueue, TypeOK, Pointers, Chain
<1>2. ChainFacts /\ ChainFacts'
  BY ChainFactsHold, ChainFactsAfter
<1>3. \A x \in Events :
        /\ x \in Chain(x)' /\ Chain(x)' \subseteq Events
        /\ \A y \in Chain(x)' : next'[y] \in Chain(x)' \cup {Null}
        /\ \A S \in SUBSET Events :
              x \in S /\ (\A y \in S : next'[y] \in S \cup {Null}) => Chain(x)' \subseteq S
  BY <1>2 DEF ChainFacts, Closed
<1>4. Chain(e)' = {e}
  <2> DEFINE S == {e}
  <2>1. S \in SUBSET Events /\ e \in S /\ \A y \in S : next'[y] \in S \cup {Null}
    BY <1>1
  <2> HIDE DEF S
  <2>2. Chain(e)' \subseteq S
    BY <1>3, <2>1
  <2>3. QED
    BY <1>3, <2>2 DEF S
<1>5. CASE eventQueue = Null
  <2>1. eventQueue' = e /\ Queued = {}
    BY <1>1, <1>5 DEF Enqueue
  <2>2. Queued' = {e}
    BY <1>4, <2>1 DEF Chain, Closed
  <2>3. ASSUME NEW x \in Queued' PROVE x \notin Chain(next[x])'
    <3>1. x = e /\ next'[x] = Null
      BY <1>1, <2>2, <2>3
    <3>2. QED
      BY <3>1 DEF Chain
  <2>4. \A x \in Events : next'[x] = next[x] \/ x = e
    BY <1>1, <1>5, EventLoopAssumption
  <2>5. QED
    BY <1>1, <1>5, <2>1, <2>2, <2>3, <2>4
<1>6. CASE eventQueue # Null
  <2> DEFINE t == eventQueueTail
             h == eventQueue
             Q == Queued
  <2>1. /\ eventQueue' = h /\ t \in Q /\ t # e /\ next[t] = Null /\ next'[t] = e
        /\ h \in Events /\ t \in Events
    BY <1>6, EventLoopAssumption DEF Enqueue, TypeOK, Pointers
  <2>2. /\ h \in Q /\ Q \subseteq Events
        /\ \A x \in Q : next[x] \in Q \cup {Null}
        /\ \A S \in SUBSET Events :
              h \in S /\ (\A y \in S : next[y] \in S \cup {Null}) => Q \subseteq S
    BY <1>2, <2>1 DEF ChainFacts, Closed
  <2> DEFINE C(x) == Chain(x)
  \* A chain of the list may gain e, and nothing else.
  <2>3. ASSUME NEW y \in Q PROVE Chain(y)' \subseteq Chain(y) \cup {e}
    <3>1. y \in Chain(y) /\ Chain(y) \subseteq Q /\ \A x \in Chain(y) : next[x] \in Chain(y) \cup {Null}
      BY <1>2, <2>2, <2>3 DEF ChainFacts, Closed
    <3>2. \A x \in Chain(y) \cup {e} : next'[x] \in Chain(y) \cup {e} \cup {Null}
      BY <1>1, <2>1, <2>2, <3>1
    <3> DEFINE S == Chain(y) \cup {e}
    <3>3. S \in SUBSET Events /\ y \in S /\ \A x \in S : next'[x] \in S \cup {Null}
      BY <2>2, <3>1, <3>2
    <3> HIDE DEF S
    <3>4. Chain(y)' \subseteq S
      BY <1>3, <2>2, <2>3, <3>3
    <3>5. QED
      BY <3>4 DEF S
  <2> DEFINE D == Chain(h)'
  <2>4. h \in D /\ D \subseteq Q \cup {e} /\ \A x \in D : next'[x] \in D \cup {Null}
    <3>1. D \subseteq Q \cup {e}
      BY <2>2, <2>3, <2>1 DEF Chain, Closed
    <3>2. QED
      BY <1>3, <2>1, <3>1 DEF Chain, Closed
  <2> HIDE DEF Q, D, t, h
  <2>5. \A x \in D \ {e} : next[x] \in (D \ {e}) \cup {Null}
    BY <1>1, <2>1, <2>2, <2>4 DEF Q, t
  <2>6. Q \subseteq D \ {e}
    <3>1. h \in D \ {e}
      BY <2>2, <2>4 DEF Q
    <3>2. D \ {e} \in SUBSET Events
      BY <2>2, <2>4
    <3>3. QED
      BY <2>2, <2>5, <3>1, <3>2
  <2>7. e \in D
    BY <1>1, <2>1, <2>4, <2>6
  <2>8. D = Q \cup {e}
    BY <2>4, <2>6, <2>7
  <2>9. Queued' = D
    BY <2>1 DEF D, h, Chain, Closed
  <2>10. ASSUME NEW x \in Q \cup {e} PROVE x \notin Chain(next[x])'
    <3>1. CASE next'[x] = Null
      BY <3>1 DEF Chain
    <3>2. CASE x = t
      <4>1. x # e /\ next'[x] = e
        BY <2>1, <3>2
      <4>2. QED
        BY <1>4, <4>1 DEF Chain, Closed
    <3>3. CASE x \in Q /\ x # t /\ next'[x] # Null
      <4>1. next'[x] = next[x] /\ next[x] \in Q /\ x # e /\ x \notin Chain(next[x])
        BY <1>1, <2>1, <2>2, <3>3 DEF Q, t
      <4>2. PICK n \in Q : n = next[x] /\ n = next'[x] /\ x \notin Chain(n)
        BY <4>1
      <4>3. Chain(n)' \subseteq Chain(n) \cup {e}
        BY <2>3, <4>2
      <4>4. x \notin Chain(n)'
        BY <4>1, <4>2, <4>3
      <4>5. QED
        BY <4>2, <4>4 DEF Chain, Closed
    <3>4. QED
      BY <1>1, <2>10, <3>1, <3>2, <3>3
  <2>11. QED
    BY <1>1, <1>6, <2>1, <2>8, <2>9, <2>10 DEF Q, h, t
<1>7. QED
  BY <1>5, <1>6

-------------------------------------------------------------------------------
(* The list and the pass *)

\* List and pass are two chains that share no event, and hold what was posted and
\* has not run; the event in hand is put back before its link is used.
PassInv ==
    /\ ListInv
    /\ Acyclic(InPass)
    /\ Queued \cap InPass = {}
    /\ pc = "postpone" => nextEvent = next[event]
    /\ Queued \cup InPass \subseteq posted \ ran
    /\ ran \subseteq posted

\* A step that changes no link leaves the chains.
LEMMA NothingLinked == ASSUME TypeOK, TypeOK', PassInv, UNCHANGED <<queueVars, posted>>
    PROVE  /\ Queued' = Queued /\ ListInv'
           /\ \A p \in Pointers : Chain(p)' = Chain(p)
           /\ \A S : Acyclic(S) => (\A x \in S : x \notin Chain(next[x])')
  BY DEF queueVars, Queued, Chain, Closed, ListInv, PassInv, Acyclic

\* The current event leaves the pass.
LEMMA PassAdvances == ASSUME TypeOK, PassInv, pc \in {"check", "postpone"}, event # Null
    PROVE  /\ event \in Events /\ event \in InPass
           /\ Chain(next[event]) = InPass \ {event}
           /\ Acyclic(Chain(next[event]))
<1>1. event \in Events
  BY DEF TypeOK, Pointers
<1>2. InPass = {event} \cup Chain(next[event])
  BY <1>1, ChainUnfolds DEF InPass, PassInv
<1>3. event \notin Chain(next[event])
  BY <1>2 DEF PassInv, Acyclic
<1>4. QED
  BY <1>1, <1>2, <1>3 DEF PassInv, Acyclic

\* The event is put back behind the others (event_loop.go, lines 72-88, 103-116).
LEMMA PutBack == ASSUME TypeOK, TypeOK', PassInv, Postpone
                 PROVE  /\ PassInv' /\ event \in InPass /\ event \in Events
                        /\ Queued' = Queued \cup {event} /\ InPass' = InPass \ {event}
<1>1. /\ event \in Events /\ event \in InPass
      /\ Chain(next[event]) = InPass \ {event} /\ Acyclic(Chain(next[event]))
  BY PassAdvances, EventLoopAssumption DEF Postpone, TypeOK
<1>2. nextEvent = next[event] /\ nextEvent \in Pointers /\ event \notin Queued
  BY <1>1 DEF PassInv, Postpone, TypeOK
<1>3. PICK e \in Events : e = event
  BY <1>1
<1>4. Enqueue(e)
  BY <1>3 DEF Postpone
<1>5. /\ Queued' = Queued \cup {e} /\ ListInv'
      /\ \A x \in Events : next'[x] = next[x] \/ x = e \/ x \in Queued
  BY <1>2, <1>3, <1>4, Enqueued DEF PassInv
<1>6. PICK p \in Pointers : p = nextEvent
  BY <1>2
<1>7. Chain(p) = InPass \ {e} /\ Chain(p) \subseteq Events
  BY <1>1, <1>2, <1>3, <1>6 DEF Chain
<1>8. \A x \in Chain(p) : next'[x] = next[x]
  BY <1>5, <1>7 DEF PassInv
<1>9. Chain(p)' = Chain(p) /\ Acyclic(Chain(p))'
  BY <1>1, <1>2, <1>6, <1>8, AcyclicKept
<1>10. InPass' = Chain(p)' /\ pc' = "check"
  BY <1>6 DEF InPass, Postpone, Chain, Closed
<1>11. QED
  BY <1>1, <1>3, <1>5, <1>7, <1>9, <1>10 DEF PassInv, Postpone, Acyclic

\* An event is posted.
LEMMA Posted == ASSUME TypeOK, TypeOK', PassInv, NEW e \in Events, Post(e)
                PROVE  /\ PassInv'
                       /\ Queued' = Queued \cup {e} /\ InPass' = InPass
                       /\ e \notin Queued \cup InPass \cup ran
<1>1. /\ Enqueue(e) /\ e \notin posted /\ posted' = posted \cup {e}
      /\ UNCHANGED <<ran, pc, event, nextEvent>>
  BY DEF Post, loopVars
<1>2. e \notin Queued \cup InPass \cup ran
  BY <1>1 DEF PassInv
<1>3. /\ Queued' = Queued \cup {e} /\ ListInv'
      /\ \A x \in Events : next'[x] = next[x] \/ x = e \/ x \in Queued
  BY <1>1, <1>2, Enqueued DEF PassInv
<1>4. PICK p \in Pointers : InPass = Chain(p) /\ p = (IF pc \in {"check", "postpone"} THEN event
                                                ELSE IF pc = "run" THEN nextEvent ELSE Null)
  <2>1. pc = "postpone" => InPass = Chain(event)
    BY ChainUnfolds DEF PassInv, InPass, TypeOK
  <2>2. QED
    BY <2>1 DEF InPass, TypeOK, Pointers, Chain
<1>5. \A x \in Chain(p) : next'[x] = next[x]
  <2>1. Chain(p) \subseteq Events
    BY DEF Chain
  <2>2. QED
    BY <1>2, <1>3, <1>4, <2>1 DEF PassInv
<1>6. Chain(p)' = Chain(p) /\ Acyclic(Chain(p))'
  BY <1>4, <1>5, AcyclicKept DEF PassInv
<1>7. InPass' = Chain(p)' /\ (pc' = "postpone" => nextEvent' = next'[event'])
  <2>1. CASE pc = "postpone"
    <3>1. event \in Events /\ event \in InPass
      BY <2>1 DEF TypeOK, InPass
    <3>2. next'[event] = next[event] /\ nextEvent' = next'[event']
      BY <1>1, <1>4, <1>5, <2>1, <3>1 DEF PassInv
    <3>3. ChainFacts'
      BY ChainFactsAfter
    <3>4. Chain(p)' = {p} \cup Chain(next[p])'
      BY <1>4, <2>1, <3>1, <3>3 DEF ChainFacts
    <3>5. InPass' = {event'} \cup Chain(nextEvent)'
      BY <1>1, <2>1 DEF InPass
    <3>6. p = event' /\ next'[p] = nextEvent'
      BY <1>1, <1>4, <2>1, <3>2
    <3>7. QED
      BY <3>2, <3>4, <3>5, <3>6 DEF Chain, Closed
  <2>2. CASE pc # "postpone"
    BY <1>1, <1>4, <2>2 DEF InPass, Chain, Closed
  <2>3. QED
    BY <2>1, <2>2
<1>8. QED
  BY <1>1, <1>2, <1>3, <1>4, <1>6, <1>7 DEF PassInv, Acyclic

\* The steps that move no event: to wake the loop or quit it, the clock's, the
\* select, and what the pass does between two events (event_loop.go, lines
\* 50-56, 76-80, 95-100, 118-130).
Quiet ==
    \/ \E e \in Events : WakeUp(e)
    \/ Quit \/ Select \/ CallbackReturns \/ Sleep \/ Tick
    \/ UNCHANGED vars

\* They leave the list and the pass as they are.
LEMMA QuietSteps == ASSUME TypeOK, TypeOK', PassInv, Quiet
                    PROVE  PassInv' /\ Queued' = Queued /\ InPass' = InPass
<1> USE DEF ghostVars, loopVars
\* The steps that leave the pass where it is.
<1>1. ASSUME UNCHANGED <<queueVars, posted, ran, pc, event, nextEvent>>
      PROVE  PassInv' /\ Queued' = Queued /\ InPass' = InPass
  BY <1>1 DEF PassInv, ListInv, Acyclic, Queued, InPass, Chain, Closed, queueVars
<1>2. CASE (\E e \in Events : WakeUp(e)) \/ Quit \/ Tick \/ UNCHANGED vars
  BY <1>1, <1>2 DEF WakeUp, Quit, Tick, vars
\* Those that start or end one.
<1>3. ASSUME UNCHANGED <<queueVars, posted, ran>>, InPass = {}, InPass' = {}, pc' # "postpone"
      PROVE  PassInv' /\ Queued' = Queued /\ InPass' = InPass
  <2>1. Queued' = Queued /\ ListInv'
    BY <1>3, NothingLinked
  <2>2. QED
    BY <1>3, <2>1 DEF PassInv, Acyclic
<1>4. CASE Select
  <2>1. /\ UNCHANGED <<queueVars, posted, ran>>
        /\ pc = "select" /\ pc' \in {"drain", "done"}
    BY <1>4 DEF Select, SelectDone, SelectWake, SelectTimer
  <2>2. InPass = {} /\ InPass' = {} /\ pc' # "postpone"
    BY <2>1 DEF InPass
  <2>3. QED
    BY <1>3, <2>1, <2>2
<1>5. CASE Sleep
  <2>1. pc = "check" /\ event = Null /\ pc' = "select" /\ UNCHANGED <<queueVars, posted, ran>>
    BY <1>5 DEF Sleep
  <2>2. InPass = {} /\ InPass' = {}
    BY <2>1 DEF InPass, Chain
  <2>3. QED
    BY <1>3, <2>1, <2>2
<1>6. CASE CallbackReturns
  <2>1. /\ pc = "run" /\ pc' = "check" /\ event' = nextEvent /\ UNCHANGED <<queueVars, posted, ran>>
    BY <1>6 DEF CallbackReturns
  <2>2. InPass' = InPass
    BY <2>1 DEF InPass, Chain, Closed, queueVars
  <2>3. Queued' = Queued /\ ListInv'
    BY <2>1, NothingLinked
  <2>4. Acyclic(InPass)'
    BY <2>1, <2>2 DEF PassInv, Acyclic, Chain, Closed, queueVars
  <2>5. QED
    BY <2>1, <2>2, <2>3, <2>4 DEF PassInv
<1>7. QED
  BY <1>2, <1>4, <1>5, <1>6 DEF Quiet

\* The loop takes the whole list as its pass (event_loop.go, lines 62-66).
LEMMA Taken == ASSUME TypeOK, TypeOK', PassInv, Drain
               PROVE  PassInv' /\ Queued' = {} /\ InPass' = Queued /\ InPass = {}
<1>1. /\ event' = eventQueue /\ eventQueue' = Null /\ eventQueueTail' = Null
      /\ pc = "drain" /\ pc' = "check" /\ UNCHANGED <<next, posted, ran>>
  BY DEF Drain
<1>2. InPass = {} /\ Queued' = {} /\ InPass' = Queued
  BY <1>1 DEF InPass, Queued, Chain, Closed
<1>3. Acyclic(InPass)'
  BY <1>1, <1>2 DEF PassInv, ListInv, Acyclic, Chain, Closed
<1>4. QED
  BY <1>1, <1>2, <1>3 DEF PassInv, ListInv, Acyclic

\* The event that is run leaves the pass; the others stay until they are put back
\* (event_loop.go, lines 72-76).
LEMMA LookedAt == ASSUME TypeOK, TypeOK', PassInv, Check
    PROVE  /\ PassInv' /\ Queued' = Queued /\ event \in InPass
           /\ InPass' = IF pc' = "run" THEN InPass \ {event} ELSE InPass
<1>1. /\ pc = "check" /\ event # Null /\ nextEvent' = next[event] /\ event' = event
      /\ UNCHANGED <<queueVars, posted>>
  BY DEF Check
<1>2. /\ event \in Events /\ event \in InPass /\ InPass \subseteq posted \ ran
      /\ Chain(next[event]) = InPass \ {event}
      /\ Acyclic(Chain(next[event]))
  BY <1>1, PassAdvances DEF PassInv
<1>3. Queued' = Queued /\ ListInv' /\ next' = next /\ \A p \in Pointers : Chain(p)' = Chain(p)
  BY <1>1, NothingLinked DEF queueVars
<1>4. CASE pc' = "run"
  <2>1. InPass' = InPass \ {event}
    BY <1>1, <1>2, <1>3, <1>4 DEF InPass, TypeOK, Chain, Closed
  <2>2. ran' = ran \cup {event}
    BY <1>4 DEF Check
  <2>3. Acyclic(InPass)'
    BY <1>2, <1>3, <2>1 DEF Acyclic, Chain, Closed
  <2>4. QED
    BY <1>1, <1>2, <1>3, <1>4, <2>1, <2>2, <2>3 DEF PassInv
<1>5. CASE pc' # "run"
  <2>1. pc' = "postpone" /\ ran' = ran
    BY <1>5 DEF Check
  <2>2. InPass' = {event} \cup Chain(next[event])
    BY <1>1, <1>3, <2>1 DEF InPass, Chain, Closed
  <2>3. InPass' = InPass
    BY <1>2, <2>2
  <2>4. Acyclic(InPass)'
    BY <1>3, <2>3 DEF PassInv, Acyclic, Chain, Closed
  <2>5. QED
    BY <1>1, <1>2, <1>3, <2>1, <2>3, <2>4 DEF PassInv
<1>6. QED
  BY <1>4, <1>5

\* These are all the steps.
LEMMA StepKinds == [Next]_vars <=> \/ \E e \in Events : Post(e)
                                   \/ Drain \/ Check \/ Postpone \/ Quiet
BY DEF Next, ProcessEvents, Quiet

\* Each keeps the list and the pass apart.
LEMMA PassSteps == ASSUME TypeOK, TypeOK', PassInv, [Next]_vars PROVE PassInv'
BY StepKinds, QuietSteps, Taken, LookedAt, PutBack, Posted

\* The list is empty before anything is posted.
LEMMA PassInit == Init => PassInv
BY DEF Init, PassInv, ListInv, Acyclic, Queued, InPass, Chain

\* List and pass stay apart in every reachable state.
LEMMA PassHolds == Spec => [](TypeOK /\ PassInv)
<1>1. TypeOK /\ TypeOK' /\ PassInv /\ [Next]_vars => PassInv'
  BY PassSteps
<1>2. QED
  BY <1>1, PassInit, TypeCorrect, PTL DEF Spec

\* The list that posters and postponed events go to and the pass under way share
\* no event, so that following next never leads the loop into events it has just
\* put back (event_loop.go, lines 72, 88, 103-116).
THEOREM PassStaysOffTheList == Spec => []NoCrossLinks
<1>1. PassInv => NoCrossLinks
  BY DEF PassInv, ListInv, NoCrossLinks
<1>2. QED
  BY <1>1, PassHolds, PTL

\* A step of the loop posts, runs or delays one task, or none.
LEMMA TaskSteps == ASSUME TypeOK, TypeOK', PassInv, [Next]_vars PROVE [Tasks!Next]_(Tasks!vars)
<1> USE DEF Tasks!Next, Tasks!vars, ghostVars, loopVars
<1>1. ASSUME NEW e \in Events, Post(e) PROVE Tasks!Next
  <2>1. /\ Queued' = Queued \cup {e} /\ InPass' = InPass /\ e \notin Queued \cup InPass \cup ran
    BY <1>1, Posted
  <2>2. PICK t \in DueTimes[e] : scheduledBy' = [scheduledBy EXCEPT ![e] = t]
    BY <1>1 DEF Post
  <2>3. t \in Nat
    BY EventLoopAssumption
  <2>4. scheduledBy'[e] = t
    BY <2>2 DEF TypeOK
  <2>5. Tasks!Post(e)
    BY <1>1, <2>1, <2>2, <2>3, <2>4 DEF Post, Tasks!Post
  <2>6. QED
    BY <2>5
<1>2. CASE Postpone
  <2>1. Queued' \cup InPass' = Queued \cup InPass
    BY <1>2, PutBack
  <2>2. QED
    BY <1>2, <2>1 DEF Postpone
<1>3. CASE Drain
  <2>1. Queued' \cup InPass' = Queued \cup InPass
    BY <1>3, Taken
  <2>2. QED
    BY <1>3, <2>1 DEF Drain
<1>4. CASE Check
  <2>1. /\ Queued' = Queued /\ event \in InPass /\ event \notin Queued
        /\ InPass' = IF pc' = "run" THEN InPass \ {event} ELSE InPass
    BY <1>4, LookedAt DEF PassInv
  <2>2. CASE pc' = "run"
    <3>1. now > scheduledBy[event] /\ ran' = ran \cup {event} /\ UNCHANGED <<now, scheduledBy>>
      BY <1>4, <2>2 DEF Check
    <3>2. event \in Events /\ scheduledBy[event] < now
      BY <1>4, <3>1 DEF Check, TypeOK, Pointers, Times
    <3>3. Tasks!Run(event)
      BY <2>1, <2>2, <3>1, <3>2 DEF Tasks!Run
    <3>4. QED
      BY <3>2, <3>3
  <2>3. CASE pc' # "run"
    BY <1>4, <2>1, <2>3 DEF Check
  <2>4. QED
    BY <2>2, <2>3
<1>5. CASE Quiet
  <2>1. Queued' = Queued /\ InPass' = InPass
    BY <1>5, QuietSteps
  <2>2. CASE Tick
    <3>1. now' > now
      BY <2>2 DEF Tick, TypeOK, Times
    <3>2. QED
      BY <2>1, <2>2, <3>1 DEF Tick, Tasks!Advance
  <2>3. CASE ~Tick
    BY <1>5, <2>1, <2>3 DEF Quiet, WakeUp, Quit, Select, SelectDone, SelectWake, SelectTimer,
       CallbackReturns, Sleep, vars
  <2>4. QED
    BY <2>2, <2>3
<1>6. QED
  BY <1>1, <1>2, <1>3, <1>4, <1>5, StepKinds

\* The loop implements DelayedTasks: an event runs once, not before it is due, and
\* until then it is on the list or in the pass (event_loop.go, lines 61-101).
THEOREM LoopRunsDelayedTasks == Spec => ImplementsDelayedTasks
<1>1. Init => Tasks!Init
  BY DEF Init, Tasks!Init, Queued, InPass, Chain
<1>2. TypeOK /\ TypeOK' /\ PassInv /\ [Next]_vars => [Tasks!Next]_(Tasks!vars)
  BY TaskSteps
<1>3. QED
  BY <1>1, <1>2, PassHolds, PTL DEF Spec, ImplementsDelayedTasks, Tasks!Spec

-------------------------------------------------------------------------------
(* The sleep *)

\* In a pass in which no event has come due between the two clock reads, the
\* sleep found so far is no longer than any event put back asks for.
SleepInv ==
    /\ passStart <= now
    /\ fresh \subseteq Queued
    /\ pc \in {"check", "run", "postpone", "select"} /\ crossed = {} =>
          \A e \in Queued \ fresh :
              0 <= sleepDuration /\ sleepDuration <= scheduledBy[e] - passStart

\* processEvents keeps the least of the delays (event_loop.go, lines 83-86).
LEMMA SleepSteps == ASSUME TypeOK, TypeOK', PassInv, SleepInv, [Next]_vars PROVE SleepInv'
<1> USE DEF SleepInv, ghostVars, loopVars
<1>0. /\ passStart \in Nat /\ now \in Nat /\ scheduledBy \in [Events -> Nat] /\ sleepDuration \in Int
      /\ Queued \subseteq Events
      /\ DefaultSleep \in Nat \ {0}
  BY EventLoopAssumption DEF TypeOK, Times, PassInv
<1>1. ASSUME NEW e \in Events, Post(e) PROVE SleepInv'
  <2>1. Queued' = Queued \cup {e} /\ e \notin Queued
    BY <1>1, Posted
  <2>2. \A x \in Queued : scheduledBy'[x] = scheduledBy[x]
    BY <1>0, <1>1, <2>1 DEF Post
  <2>3. QED
    BY <1>1, <2>1, <2>2 DEF Post
<1>2. CASE Postpone
  <2>1. Queued' = Queued \cup {event} /\ event \in Events
    BY <1>2, PutBack
  <2> DEFINE d == scheduledBy[event] - now
  <2>2. /\ sleepDuration' = IF sleepDuration < 0 \/ d < sleepDuration THEN d ELSE sleepDuration
        /\ crossed' = IF d < 0 THEN crossed \cup {event} ELSE crossed
        /\ pc = "postpone" /\ UNCHANGED <<fresh, scheduledBy, passStart, now>>
    BY <1>2 DEF Postpone
  <2>3. d \in Int /\ d <= scheduledBy[event] - passStart
    BY <1>0, <2>1
  <2> HIDE DEF d
  <2>4. ASSUME crossed' = {}, NEW e \in Queued' \ fresh'
        PROVE  0 <= sleepDuration' /\ sleepDuration' <= scheduledBy'[e] - passStart'
    <3>1. crossed = {} /\ d >= 0
      BY <2>2, <2>3, <2>4
    <3>2. CASE e = event
      <4>1. 0 <= sleepDuration' /\ sleepDuration' <= d /\ sleepDuration' \in Int
        BY <1>0, <2>2, <2>3, <3>1
      <4>2. scheduledBy'[e] - passStart' = scheduledBy[event] - passStart
        BY <2>2, <3>2
      <4>3. scheduledBy[event] - passStart \in Int
        BY <1>0, <2>1
      <4>4. QED
        BY <2>3, <4>1, <4>2, <4>3
    <3>3. CASE e \in Queued
      <4>1. 0 <= sleepDuration /\ sleepDuration <= scheduledBy[e] - passStart
        BY <2>2, <2>4, <3>1, <3>3
      <4>2. scheduledBy[e] \in Nat
        BY <1>0, <3>3
      <4>3. QED
        BY <1>0, <2>2, <2>3, <3>1, <4>1, <4>2
    <3>4. QED
      BY <2>1, <2>4, <3>2, <3>3
  <2>5. QED
    BY <2>1, <2>2, <2>4
<1>3. CASE Drain
  BY <1>0, <1>3, Taken DEF Drain
<1>4. CASE Check
  <2>1. Queued' = Queued
    BY <1>4, LookedAt
  <2>2. QED
    BY <1>4, <2>1 DEF Check
<1>5. CASE Quiet
  <2>1. Queued' = Queued
    BY <1>5, QuietSteps
  <2>2. CASE Tick
    BY <1>0, <2>1, <2>2 DEF Tick
  <2>3. CASE CallbackReturns
    <3>1. \A e \in Queued : scheduledBy[e] \in Nat
      BY <1>0
    <3>2. QED
      BY <1>0, <2>1, <2>3, <3>1 DEF CallbackReturns
  <2>4. CASE Sleep
    <3>1. \A e \in Queued : scheduledBy[e] \in Nat
      BY <1>0
    <3>2. QED
      BY <1>0, <2>1, <2>4, <3>1 DEF Sleep
  <2>5. CASE Select \/ Quit \/ (\E e \in Events : WakeUp(e)) \/ UNCHANGED vars
    BY <2>1, <2>5 DEF WakeUp, Quit, Select, SelectDone, SelectWake, SelectTimer, vars
  <2>6. QED
    BY <1>5, <2>2, <2>3, <2>4, <2>5 DEF Quiet
<1>6. QED
  BY <1>1, <1>2, <1>3, <1>4, <1>5, StepKinds

\* The loop does not plan to sleep past the due time of an event it has put back,
\* unless one came due between the two clock reads (event_loop.go, lines 83-86).
THEOREM SleepIsShortEnough == Spec => []SleepsUntilDue
<1>1. Init => SleepInv
  BY DEF Init, SleepInv, Queued, Chain
<1>2. TypeOK /\ TypeOK' /\ PassInv /\ SleepInv /\ [Next]_vars => SleepInv'
  BY SleepSteps
<1>3. SleepInv => SleepsUntilDue
  BY DEF SleepInv, SleepsUntilDue
<1>4. QED
  BY <1>1, <1>2, <1>3, PassHolds, PTL DEF Spec
===============================================================================
