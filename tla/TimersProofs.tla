---------------------------- MODULE TimersProofs ----------------------------
(***************************************************************************)
(* That Timers loses no timer, for any timers and intervals. The invariant *)
(* adds to NeverLost that the timer being called is not in the list of run *)
(* any more: so it may be armed again while the rest of the list waits.    *)
(***************************************************************************)
EXTENDS Timers, TLAPS

IInv == TypeOK /\ NeverLost /\ calling \notin batch

LEMMA InitInv == Init => IInv
BY TimersAssumption
   DEF Init, IInv, TypeOK, NeverLost, ArmedOrInHand, LateOnlyInPass, OneshotOnce, InHand

\* Types are kept by every step.
LEMMA TypeStep == TypeOK /\ [Next]_vars => TypeOK'
<1> SUFFICES ASSUME TypeOK, [Next]_vars PROVE TypeOK'
    OBVIOUS
<1> USE TimersAssumption DEF TypeOK
<1>1. ASSUME NEW t \in Timer, add_timer(t) PROVE TypeOK'
    BY <1>1 DEF add_timer
<1>2. ASSUME NEW t \in Timer, del_timer(t) PROVE TypeOK'
    BY <1>2 DEF del_timer
<1>3. ASSUME NEW t \in Timer, Call(t) PROVE TypeOK'
    BY <1>3 DEF Call
<1>4. ASSUME NEW t \in Timer, reset_timer(t) PROVE TypeOK'
    BY <1>4 DEF reset_timer
<1>5. CASE clear
    BY <1>5 DEF clear
<1>6. CASE Collect
    BY <1>6 DEF Collect
<1>7. CASE Return
    <2>1. calling \in Timer
        BY <1>7 DEF Return
    <2>2. CASE calling \in Oneshot
        BY <1>7, <2>1, <2>2 DEF Return
    <2>3. CASE calling \notin Oneshot
        <3>1. left' \in [Timer -> Nat]
            BY <1>7, <2>1, <2>3 DEF Return
        <3>2. m_timers' \subseteq Timer
            BY <1>7, <2>1, <2>3 DEF Return
        <3> QED
            BY <1>7, <2>3, <3>1, <3>2 DEF Return
    <2> QED
        BY <2>2, <2>3
<1>8. CASE Tick
    <2>1. left' \in [Timer -> Nat]
        BY <1>8 DEF Tick
    <2>2. elapsed' \in Nat
        BY <1>8 DEF Tick
    <2> QED
        BY <1>8, <2>1, <2>2 DEF Tick
<1>9. CASE UNCHANGED vars
    BY <1>9 DEF vars
<1> QED
    BY <1>1, <1>2, <1>3, <1>4, <1>5, <1>6, <1>7, <1>8, <1>9 DEF Next

\* Every step keeps timers armed or in hand, late calls in the pass, and the
\* timers for one shot uncalled.
LEMMA LostStep == IInv /\ [Next]_vars => NeverLost' /\ (calling \notin batch)'
<1> SUFFICES ASSUME IInv, [Next]_vars PROVE NeverLost' /\ (calling \notin batch)'
    OBVIOUS
<1> USE TimersAssumption
        DEF IInv, TypeOK, NeverLost, ArmedOrInHand, LateOnlyInPass, OneshotOnce, InHand
<1> DEFINE Goal == NeverLost /\ calling \notin batch
<1>1. ASSUME NEW t \in Timer, add_timer(t) PROVE Goal'
    BY <1>1 DEF add_timer
<1>2. ASSUME NEW t \in Timer, del_timer(t) PROVE Goal'
    BY <1>2 DEF del_timer
<1>3. ASSUME NEW t \in Timer, Call(t) PROVE Goal'
    BY <1>3 DEF Call
<1>4. ASSUME NEW t \in Timer, reset_timer(t) PROVE Goal'
    BY <1>4 DEF reset_timer
<1>5. CASE clear
    BY <1>5 DEF clear
<1>6. CASE Collect
    <2>1. batch = {} /\ calling = NotATimer
        BY <1>6 DEF Collect, Running
    <2> QED
        BY <1>6, <2>1 DEF Collect
<1>7. CASE Return
    <2>1. CASE calling \in Oneshot
        BY <1>7, <2>1 DEF Return
    <2>2. CASE calling \notin Oneshot
        BY <1>7, <2>2 DEF Return
    <2> QED
        BY <2>1, <2>2
<1>8. CASE Tick
    BY <1>8 DEF Tick
<1>9. CASE UNCHANGED vars
    BY <1>9 DEF vars
<1> QED
    BY <1>1, <1>2, <1>3, <1>4, <1>5, <1>6, <1>7, <1>8, <1>9 DEF Next

LEMMA SpecInv == Spec => []IInv
<1>1. IInv /\ [Next]_vars => IInv'
    BY TypeStep, LostStep DEF IInv
<1> QED
    BY InitInv, <1>1, PTL DEF Spec

\* Types of the controller hold in every state.
THEOREM TypeCorrect == Spec => []TypeOK
<1>1. IInv => TypeOK
    BY DEF IInv
<1> QED
    BY SpecInv, <1>1, PTL

\* Timer_Controller loses no timer, calls none twice, and none in a later pass
\* than the one that had it in hand when it was deleted.
THEOREM NoTimerLost == Spec => []NeverLost
<1>1. IInv => NeverLost
    BY DEF IInv
<1> QED
    BY SpecInv, <1>1, PTL

\* A callback that has begun is of a timer that exists, or that was deleted since
\* run took it: what follows from NeverLost for callers that delete a timer and
\* then rely on it not being called.
THEOREM LateCallsAreOfThePass ==
    Spec => [](calling # NotATimer => calling \in m_timer_map \cup deleted)
<1>1. NeverLost => (calling # NotATimer => calling \in m_timer_map \cup deleted)
    BY DEF NeverLost, LateOnlyInPass, InHand
<1> QED
    BY NoTimerLost, <1>1, PTL
=============================================================================
