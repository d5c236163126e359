------------------------------- MODULE Timers -------------------------------
(***************************************************************************)
(* Timer_Controller (timer.cpp). One thread calls run, and run calls the   *)
(* callbacks outside the mutex; other threads, and the callbacks, add,     *)
(* delete and reset timers meanwhile. A step is what one thread does under *)
(* m_mutex, or the call of a callback.                                     *)
(*                                                                         *)
(* Time is counted in ticks of 100 ms, and relative to now, so that a      *)
(* behaviour may go on for ever: a timer is kept with the ticks that are   *)
(* left, zero for all that are due. run calls due timers in the order of   *)
(* their ticks; here in any order.                                         *)
(***************************************************************************)
EXTENDS Integers

CONSTANTS
    Timer,          \* ids of timers; one that is forgotten stands for a new one
    Oneshot,        \* timers that are called once
    Interval,       \* m_interval_tick
    Resettable,     \* timers some thread resets
    MaxElapsed,     \* a pass of run takes no longer
    NotATimer

ASSUME TimersAssumption ==
    /\ Oneshot \subseteq Timer /\ Resettable \subseteq Timer
    /\ Interval \in [Timer -> Nat \ {0}]
    /\ MaxElapsed \in Nat
    /\ NotATimer \notin Timer

VARIABLES
    m_timers,       \* timers in the ordered set
    m_timer_map,    \* timers that exist
    left,           \* m_tick - now of the timers in m_timers
    batch,          \* the local list of run, without the timer being called
    calling,        \* the timer whose callback runs, or NotATimer
    elapsed,        \* now - now_tick of run
    deleted,        \* history: deleted in this pass
    called          \* history: called since it was added

vars == <<m_timers, m_timer_map, left, batch, calling, elapsed, deleted, called>>

\* The pass of run that is under way.
InHand == batch \cup {calling}
Running == InHand # {NotATimer}

Init ==
    /\ m_timers = {} /\ m_timer_map = {}
    /\ left = [t \in Timer |-> 0]
    /\ batch = {} /\ calling = NotATimer /\ elapsed = 0
    /\ deleted = {} /\ called = {}

add_timer(t) ==
    /\ t \notin m_timer_map \cup m_timers \cup InHand
    /\ m_timers' = m_timers \cup {t}
    /\ m_timer_map' = m_timer_map \cup {t}
    /\ left' = [left EXCEPT ![t] = Interval[t]]
    /\ called' = called \ {t}
    /\ UNCHANGED <<batch, calling, elapsed, deleted>>

\* Mutant: the timer stays in the ordered set.
del_timerMap(t) ==
    /\ t \in m_timer_map
    /\ m_timer_map' = m_timer_map \ {t}
    /\ deleted' = deleted \cup ({t} \cap InHand)
    /\ UNCHANGED <<m_timers, left, batch, calling, elapsed, called>>

\* A timer that run has taken in hand is not found in m_timers.
del_timer(t) ==
    /\ t \in m_timer_map
    /\ m_timer_map' = m_timer_map \ {t}
    /\ m_timers' = m_timers \ {t}
    /\ deleted' = deleted \cup ({t} \cap InHand)
    /\ UNCHANGED <<left, batch, calling, elapsed, called>>

\* Mutant: a timer in hand is armed as well.
reset_timerAny(t) ==
    /\ t \in m_timer_map
    /\ m_timers' = m_timers \cup {t}
    /\ left' = [left EXCEPT ![t] = Interval[t]]
    /\ UNCHANGED <<m_timer_map, batch, calling, elapsed, deleted, called>>

\* A timer that run has taken in hand is not reset.
reset_timer(t) ==
    /\ t \in m_timer_map \cap m_timers
    /\ left' = [left EXCEPT ![t] = Interval[t]]
    /\ UNCHANGED <<m_timers, m_timer_map, batch, calling, elapsed, deleted, called>>

clear ==
    /\ m_timer_map # {}
    /\ m_timers' = {} /\ m_timer_map' = {}
    /\ deleted' = deleted \cup (m_timer_map \cap InHand)
    /\ UNCHANGED <<left, batch, calling, elapsed, called>>

-----------------------------------------------------------------------------
(* run.                                                                    *)

Collect ==
    /\ ~Running
    /\ LET due == {t \in m_timers : left[t] = 0}
       IN  /\ due # {}
           /\ batch' = due
           /\ m_timers' = m_timers \ due
    /\ elapsed' = 0
    /\ deleted' = {}
    /\ UNCHANGED <<m_timer_map, left, calling, called>>

Call(t) ==
    /\ calling = NotATimer /\ t \in batch
    /\ batch' = batch \ {t}
    /\ calling' = t
    /\ called' = called \cup {t}
    /\ UNCHANGED <<m_timers, m_timer_map, left, elapsed, deleted>>

\* Mutant: a timer goes on although it was deleted.
ReturnAlways ==
    /\ calling # NotATimer
    /\ calling' = NotATimer
    /\ IF calling \in Oneshot
       THEN /\ m_timer_map' = m_timer_map \ {calling}
            /\ UNCHANGED <<m_timers, left>>
       ELSE /\ left' = [left EXCEPT ![calling] =
                    IF elapsed < Interval[calling] THEN Interval[calling] - elapsed ELSE 0]
            /\ m_timers' = m_timers \cup {calling}
            /\ UNCHANGED m_timer_map
    /\ UNCHANGED <<batch, elapsed, deleted, called>>

\* Mutant: the test is inverted.
ReturnGone ==
    /\ calling # NotATimer
    /\ calling' = NotATimer
    /\ IF calling \in Oneshot
       THEN /\ m_timer_map' = m_timer_map \ {calling}
            /\ UNCHANGED <<m_timers, left>>
       ELSE UNCHANGED <<m_timers, m_timer_map, left>>
    /\ UNCHANGED <<batch, elapsed, deleted, called>>

\* The interval counts from the begin of the pass.
Return ==
    /\ calling # NotATimer
    /\ calling' = NotATimer
    /\ IF calling \in Oneshot
       THEN /\ m_timer_map' = m_timer_map \ {calling}
            /\ UNCHANGED <<m_timers, left>>
       ELSE /\ left' = [left EXCEPT ![calling] =
                    IF elapsed < Interval[calling] THEN Interval[calling] - elapsed ELSE 0]
            /\ m_timers' = IF calling \in m_timer_map
                           THEN m_timers \cup {calling} ELSE m_timers
            /\ UNCHANGED m_timer_map
    /\ UNCHANGED <<batch, elapsed, deleted, called>>

Tick ==
    /\ Running => elapsed < MaxElapsed
    /\ left' = [t \in Timer |-> IF t \in m_timers /\ left[t] > 0 THEN left[t] - 1 ELSE left[t]]
    /\ elapsed' = IF Running THEN elapsed + 1 ELSE elapsed
    /\ UNCHANGED <<m_timers, m_timer_map, batch, calling, deleted, called>>

Next ==
    \/ \E t \in Timer : add_timer(t) \/ del_timer(t) \/ Call(t)
    \/ \E t \in Resettable : reset_timer(t)
    \/ clear \/ Collect \/ Return \/ Tick

Spec == Init /\ [][Next]_vars

\* The thread that calls run is scheduled, and callbacks return.
Fairness ==
    /\ WF_vars(Collect) /\ WF_vars(\E t \in Timer : Call(t)) /\ WF_vars(Return)
    /\ WF_vars(Tick)

FairSpec == Spec /\ Fairness

-----------------------------------------------------------------------------
(* Properties.                                                             *)

\* Types of the controller.
TypeOK ==
    /\ m_timers \subseteq Timer /\ m_timer_map \subseteq Timer
    /\ left \in [Timer -> Nat]
    /\ batch \subseteq Timer /\ calling \in Timer \cup {NotATimer}
    /\ elapsed \in Nat
    /\ deleted \subseteq Timer /\ called \subseteq Timer

\* A timer that exists is either armed or in the hand of run: not both, or it
\* would be called twice; not neither, or it would never be called again.
ArmedOrInHand ==
    /\ m_timers \subseteq m_timer_map /\ m_timer_map \subseteq m_timers \cup InHand
    /\ m_timers \cap InHand = {}

\* A callback runs after its timer was deleted only in the pass that had taken
\* it in hand before. The code does not prevent that: run does not look into
\* m_timer_map before it calls.
LateOnlyInPass == InHand \subseteq m_timer_map \cup deleted \cup {NotATimer}

\* A timer for one shot is called once.
OneshotOnce == \A t \in Oneshot \cap (m_timers \cup batch) : t \notin called

\* However the calls of other threads, and of the callbacks, cross the pass of
\* run, which works on its list outside the mutex: no timer is lost or called
\* twice, none is called long after its deletion.
NeverLost == ArmedOrInHand /\ LateOnlyInPass /\ OneshotOnce

\* A timer that nobody deletes or resets is called, again and again.
Punctual ==
    \A t \in Timer \ Resettable :
        t \in m_timer_map ~> calling = t \/ t \notin m_timer_map
=============================================================================
