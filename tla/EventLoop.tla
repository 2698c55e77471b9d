------------------------------- MODULE EventLoop -------------------------------
(***************************************************************************)
(* pkg/event_loop/event_loop.go: callbacks run at their due time by one    *)
(* goroutine, posted by any number of others.                              *)
(*                                                                         *)
(* The queue is the linked list of the code, with its head and tail, under *)
(* a mutex that is held for one action at most.  Post is two steps: the    *)
(* event is put on the list, then the loop is woken.  A pass of the loop   *)
(* takes the whole list and puts back what is not due.                     *)
(*                                                                         *)
(* The clock is read twice for an event that is not due (lines 74 and 83), *)
(* and it may advance between the two, so these are two actions.           *)
(*                                                                         *)
(* A callback may post events and quit the loop.  While one runs (pc is    *)
(* "run") Post and Quit by the callback are the actions of any poster.     *)
(***************************************************************************)
EXTENDS Integers, Sequences, FiniteSets

CONSTANTS
    Events,         \* the eventPoint objects ever posted
    Null,           \* the nil pointer
    Horizon,        \* bound: the clock stops here
    DueTimes,       \* bound: the times each of them may be posted for
    DefaultSleep    \* ticks slept when there is no event (100 ms)

ASSUME EventLoopAssumption ==
    /\ Null \notin Events
    /\ IsFiniteSet(Events)
    /\ Horizon \in Nat \ {0}
    /\ DueTimes \in [Events -> SUBSET (0 .. Horizon - 1)]
    /\ DefaultSleep \in Nat \ {0}

VARIABLES
    eventQueue,         \* head of the list
    eventQueueTail,     \* its tail
    next,               \* next of each event
    scheduledBy,        \* due time of each event
    wake,               \* the channel wake holds a token
    cancelled,          \* Quit has been called
    pc,                 \* where the loop is
    event, nextEvent,   \* locals of processEvents
    sleepDuration,      \* likewise; a negative one stands for "none yet"
    deadline,           \* when the timer of the select fires
    now,                \* the clock
    waking,             \* posters between enqueue and wakeUp, by their event
    posted,             \* ghost: events posted
    ran,                \* ghost: events whose callback has been called
    fresh,              \* ghost: events posted since the list was last taken
    passStart,          \* ghost: when it was
    crossed             \* ghost: events that came due between the two clock
                        \* reads of this pass

queueVars == <<eventQueue, eventQueueTail, next>>
loopVars == <<pc, event, nextEvent, sleepDuration, deadline>>
ghostVars == <<posted, ran, fresh, passStart, crossed>>
vars == <<queueVars, scheduledBy, wake, cancelled, loopVars, now, waking, ghostVars>>

Pointers == Events \cup {Null}
Times == 0 .. Horizon

\* Types of the linked list, the clock, the loop and the ghosts; an event is in
\* hand while it is run or put back (processEvents)
TypeOK ==
    /\ eventQueue \in Pointers
    /\ eventQueueTail \in Pointers
    /\ next \in [Events -> Pointers]
    /\ scheduledBy \in [Events -> Nat]
    /\ wake \in BOOLEAN
    /\ cancelled \in BOOLEAN
    /\ pc \in {"select", "drain", "check", "run", "postpone", "done"}
    /\ event \in Pointers
    /\ pc \in {"run", "postpone"} => event \in Events
    /\ nextEvent \in Pointers
    /\ sleepDuration \in Int
    /\ deadline \in Int
    /\ now \in Times
    /\ waking \subseteq Events
    /\ posted \subseteq Events
    /\ ran \subseteq Events
    /\ fresh \subseteq Events
    /\ passStart \in Times
    /\ crossed \subseteq Events

Init ==
    /\ eventQueue = Null
    /\ eventQueueTail = Null
    /\ next = [e \in Events |-> Null]
    /\ scheduledBy = [e \in Events |-> 0]
    /\ wake = FALSE
    /\ cancelled = FALSE
    /\ pc = "select"
    /\ event = Null
    /\ nextEvent = Null
    /\ sleepDuration = 0
    /\ deadline = 0
    /\ now = 0
    /\ waking = {}
    /\ posted = {}
    /\ ran = {}
    /\ fresh = {}
    /\ passStart = 0
    /\ crossed = {}

-------------------------------------------------------------------------------
(* The list *)

\* Slip: the event keeps its link to what came after it.
EnqueueSlip(e) ==
    /\ eventQueueTail' = e
    /\ IF eventQueue = Null
       THEN /\ eventQueue' = e
            /\ next' = next
       ELSE /\ eventQueue' = eventQueue
            /\ next' = [next EXCEPT ![eventQueueTail] = e]

\* enqueue: e becomes the last of the list, whatever it was linked to.
Enqueue(e) ==
    /\ eventQueueTail' = e
    /\ IF eventQueue = Null
       THEN /\ eventQueue' = e
            /\ next' = [next EXCEPT ![e] = Null]
       ELSE /\ eventQueue' = eventQueue
            /\ next' = [next EXCEPT ![e] = Null, ![eventQueueTail] = e]

-------------------------------------------------------------------------------
(* Posters *)

\* Put posts with the current time, other callers with one they computed.
Post(e) ==
    /\ e \notin posted
    /\ \E t \in DueTimes[e] : scheduledBy' = [scheduledBy EXCEPT ![e] = t]
    /\ Enqueue(e)
    /\ waking' = waking \cup {e}
    /\ posted' = posted \cup {e}
    /\ fresh' = fresh \cup {e}
    /\ UNCHANGED <<wake, cancelled, loopVars, now, ran, passStart, crossed>>

\* wakeUp: the token is there already, or it is put there.
WakeUp(e) ==
    /\ e \in waking
    /\ waking' = waking \ {e}
    /\ wake' = TRUE
    /\ UNCHANGED <<queueVars, scheduledBy, cancelled, loopVars, now, ghostVars>>

Quit ==
    /\ ~cancelled
    /\ cancelled' = TRUE
    /\ UNCHANGED <<queueVars, scheduledBy, wake, loopVars, now, waking, ghostVars>>

-------------------------------------------------------------------------------
(* Run: the select.  Of several ready cases any may be chosen. *)

\* Slip: the break leaves the select and not the loop.
SelectDoneSlip ==
    /\ pc = "select" /\ cancelled
    /\ pc' = "drain"
    /\ UNCHANGED <<queueVars, scheduledBy, wake, cancelled, event, nextEvent,
                   sleepDuration, deadline, now, waking, ghostVars>>

SelectDone ==
    /\ pc = "select" /\ cancelled
    /\ pc' = "done"
    /\ UNCHANGED <<queueVars, scheduledBy, wake, cancelled, event, nextEvent,
                   sleepDuration, deadline, now, waking, ghostVars>>

SelectWake ==
    /\ pc = "select" /\ wake
    /\ wake' = FALSE
    /\ pc' = "drain"
    /\ UNCHANGED <<queueVars, scheduledBy, cancelled, event, nextEvent,
                   sleepDuration, deadline, now, waking, ghostVars>>

\* At the horizon every timer that is still set fires.
SelectTimer ==
    /\ pc = "select"
    /\ now >= deadline \/ now = Horizon
    /\ pc' = "drain"
    /\ UNCHANGED <<queueVars, scheduledBy, wake, cancelled, event, nextEvent,
                   sleepDuration, deadline, now, waking, ghostVars>>

-------------------------------------------------------------------------------
(* processEvents *)

Drain ==
    /\ pc = "drain"
    /\ event' = eventQueue
    /\ eventQueue' = Null
    /\ eventQueueTail' = Null
    /\ sleepDuration' = -1
    /\ fresh' = {}
    /\ passStart' = now
    /\ crossed' = {}
    /\ pc' = "check"
    /\ UNCHANGED <<next, scheduledBy, wake, cancelled, nextEvent, deadline, now,
                   waking, posted, ran>>

\* The first clock read.
Check ==
    /\ pc = "check" /\ event # Null
    /\ nextEvent' = next[event]
    /\ pc' = IF now > scheduledBy[event] THEN "run" ELSE "postpone"
    /\ ran' = IF now > scheduledBy[event] THEN ran \cup {event} ELSE ran
    /\ UNCHANGED <<queueVars, scheduledBy, wake, cancelled, event, sleepDuration,
                   deadline, now, waking, posted, fresh, passStart, crossed>>

CallbackReturns ==
    /\ pc = "run"
    /\ sleepDuration' = 0
    /\ event' = nextEvent
    /\ pc' = "check"
    /\ UNCHANGED <<queueVars, scheduledBy, wake, cancelled, nextEvent, deadline,
                   now, waking, ghostVars>>

\* Slip: the sleep is as long as the last event asks for.
PostponeSlip ==
    /\ pc = "postpone"
    /\ LET postponeBy == scheduledBy[event] - now IN
        /\ sleepDuration' = postponeBy
        /\ crossed' = IF postponeBy < 0 THEN crossed \cup {event} ELSE crossed
    /\ Enqueue(event)
    /\ event' = nextEvent
    /\ pc' = "check"
    /\ UNCHANGED <<scheduledBy, wake, cancelled, nextEvent, deadline, now, waking,
                   posted, ran, fresh, passStart>>

\* Slip: the link is followed after enqueue has cut it.
PostponeCut ==
    /\ pc = "postpone"
    /\ sleepDuration' = scheduledBy[event] - now
    /\ Enqueue(event)
    /\ event' = next'[event]
    /\ pc' = "check"
    /\ UNCHANGED <<scheduledBy, wake, cancelled, nextEvent, deadline, now, waking,
                   posted, ran, fresh, passStart, crossed>>

\* The second clock read.
Postpone ==
    /\ pc = "postpone"
    /\ LET postponeBy == scheduledBy[event] - now IN
        /\ sleepDuration' = IF sleepDuration < 0 \/ postponeBy < sleepDuration
                            THEN postponeBy ELSE sleepDuration
        /\ crossed' = IF postponeBy < 0 THEN crossed \cup {event} ELSE crossed
    /\ Enqueue(event)
    /\ event' = nextEvent
    /\ pc' = "check"
    /\ UNCHANGED <<scheduledBy, wake, cancelled, nextEvent, deadline, now, waking,
                   posted, ran, fresh, passStart>>

\* Slip: the token is taken away before the loop goes to sleep.
SleepSlip ==
    /\ pc = "check" /\ event = Null
    /\ wake' = FALSE
    /\ sleepDuration' = IF sleepDuration < 0 THEN DefaultSleep ELSE sleepDuration
    /\ deadline' = now + sleepDuration'
    /\ pc' = "select"
    /\ UNCHANGED <<queueVars, scheduledBy, cancelled, event, nextEvent, now,
                   waking, ghostVars>>

\* processEvents returns and Run enters its select with a new timer.
Sleep ==
    /\ pc = "check" /\ event = Null
    /\ sleepDuration' = IF sleepDuration < 0 THEN DefaultSleep ELSE sleepDuration
    /\ deadline' = now + sleepDuration'
    /\ pc' = "select"
    /\ UNCHANGED <<queueVars, scheduledBy, wake, cancelled, event, nextEvent, now,
                   waking, ghostVars>>

-------------------------------------------------------------------------------

Tick ==
    /\ now < Horizon
    /\ now' = now + 1
    /\ UNCHANGED <<queueVars, scheduledBy, wake, cancelled, loopVars, waking, ghostVars>>

Select == SelectDone \/ SelectWake \/ SelectTimer
ProcessEvents == Drain \/ Check \/ CallbackReturns \/ Postpone \/ Sleep

Next ==
    \/ \E e \in Events : Post(e) \/ WakeUp(e)
    \/ Quit
    \/ Select
    \/ ProcessEvents
    \/ Tick

Spec == Init /\ [][Next]_vars

\* The loop and the posters run, a callback returns, and of the cases of the
\* select none that is ready again and again is passed over forever.
Fairness ==
    /\ WF_vars(Select) /\ SF_vars(SelectDone) /\ WF_vars(ProcessEvents)
    /\ WF_vars(\E e \in Events : WakeUp(e))
    /\ WF_vars(Tick)

FairSpec == Spec /\ Fairness

-------------------------------------------------------------------------------
(* Properties *)

\* The events from e on, following next: those in every set that has e and is
\* closed under next.
Closed(S) == \A x \in S : next[x] \in S \cup {Null}
Chain(e) ==
    IF e = Null THEN {}
    ELSE {x \in Events : \A S \in SUBSET Events : e \in S /\ Closed(S) => x \in S}

Queued == Chain(eventQueue)

\* What the pass under way has still to look at: the saved pointer is ahead
\* of the list when the current event is already run or put back.
InPass ==
    CASE pc = "check" -> Chain(event)
      [] pc = "postpone" -> {event} \cup Chain(nextEvent)
      [] pc = "run" -> Chain(nextEvent)
      [] OTHER -> {}

\* The list and the pass share no event: following pointers that enqueue has
\* rewritten never leads the loop into the new list (lines 72, 107-114).
NoCrossLinks ==
    /\ Queued \cap InPass = {}
    /\ eventQueue = Null <=> eventQueueTail = Null
    /\ eventQueueTail # Null =>
           eventQueueTail \in Queued /\ next[eventQueueTail] = Null

\* A posted event is never left to the timer: until the loop takes the list,
\* its poster has still to wake the loop, or the token is there (lines 52-56,
\* 118-124, 143-144).
NoLostWakeup == \A e \in fresh : e \in waking \/ wake \/ pc = "drain"

\* The loop does not plan to sleep past the due time of an event it has put
\* back, unless one came due between the two clock reads (lines 84-86).
SleepsUntilDue ==
    pc = "select" /\ crossed = {} =>
        \A e \in Queued \ fresh : sleepDuration <= scheduledBy[e] - passStart

\* Events are run once, not before they are due, and none is lost on the way
\* through the list: the loop implements DelayedTasks.
Tasks == INSTANCE DelayedTasks
    WITH Tasks <- Events, time <- now, due <- scheduledBy,
         waiting <- Queued \cup InPass, ran <- ran

ImplementsDelayedTasks == Tasks!Spec

\* Every event posted is run, unless the loop is told to quit.
EventsRun == \A e \in Events : e \in posted ~> e \in ran \/ cancelled

\* Quit ends the loop.
QuitStops == cancelled ~> pc = "done"
===============================================================================
