------------------------- MODULE RateLimiterProofs -------------------------
(***************************************************************************)
(* For any callers, any limit and any window: no window of time holds more *)
(* slots than the limit.                                                   *)
(***************************************************************************)
EXTENDS RateLimiter, FiniteSetTheorems, WellFoundedInduction, TLAPS

\* The log is in the order of time, and what is not remembered of it is out
\* of every window to come.
LimiterInv ==
  /\ LimiterTypeOK
  /\ \A i, j \in 1..Len(log) : i <= j => log[i] <= log[j]
  /\ \A i \in 1..Len(log) : log[i] <= now
  /\ \A i \in 1..Len(log) : i \notin requests => log[i] + Window <= now

USE LimiterAssumption

-----------------------------------------------------------------------------
\* The requests inside the window are the slots of the log inside it.
LEMMA RecentIsWindow ==
  ASSUME LimiterInv
  PROVE  Recent = {i \in 1..Len(log) : log[i] > now - Window}
<1>1. now \in Nat /\ \A i \in 1..Len(log) : log[i] \in Nat
  BY DEF LimiterInv, LimiterTypeOK
<1>2. \A i \in 1..Len(log) : i \notin requests => ~(log[i] > now - Window)
  BY <1>1 DEF LimiterInv
<1> QED BY <1>2 DEF Recent, LimiterInv, LimiterTypeOK

LEMMA LeastPosition ==
  ASSUME NEW S \in SUBSET Nat, S # {}
  PROVE  \E i \in S : \A j \in S : i <= j
<1> DEFINE R == OpToRel(<, Nat)
<1>1. IsWellFoundedOn(R, Nat)
  BY NatLessThanWellFounded
<1> HIDE DEF R
<1>2. PICK i \in S : \A j \in S : ~(<<j, i>> \in R)
  BY <1>1, WFMin
<1>3. \A j \in S : ~(j < i)
  BY <1>2 DEF R, OpToRel
<1> QED BY <1>3

\* There is a time to wait while the window holds a request: the test of
\* waitForSlot never lets a caller through that is one too many.
LEMMA WaitIsPositive ==
  ASSUME LimiterInv, Recent # {}
  PROVE  WaitTime \in Nat /\ WaitTime > 0
<1>1. Recent \subseteq Nat
  <2>1. Recent \subseteq 1..Len(log) /\ Len(log) \in Nat
    BY RecentIsWindow DEF LimiterInv, LimiterTypeOK
  <2> QED BY <2>1
<1>2. \E i \in Recent : \A j \in Recent : i <= j
  BY <1>1, LeastPosition
<1>3. Oldest \in Recent
  BY <1>2 DEF Oldest
<1>4. log[Oldest] > now - Window /\ log[Oldest] \in Nat /\ now \in Nat
  BY <1>3 DEF Recent, LimiterInv, LimiterTypeOK
<1> QED BY <1>4 DEF WaitTime

\* A slot is given only if fewer than MaxRequests are in the window.
LEMMA SlotIsFree ==
  ASSUME LimiterInv, ~Full
  PROVE  \A i \in 1..Len(log) : Len(log) + 1 - i >= MaxRequests =>
           log[i] + Window <= now
<1> SUFFICES ASSUME NEW i \in 1..Len(log), Len(log) + 1 - i >= MaxRequests,
                    ~(log[i] + Window <= now)
             PROVE  FALSE
  OBVIOUS
<1>1. now \in Nat /\ Len(log) \in Nat /\ \A j \in 1..Len(log) : log[j] \in Nat
  BY DEF LimiterInv, LimiterTypeOK
<1>2. i..Len(log) \subseteq Recent
  <2> SUFFICES ASSUME NEW j \in i..Len(log) PROVE j \in Recent
    OBVIOUS
  <2>1. j \in 1..Len(log) /\ i <= j
    BY <1>1
  <2>2. log[i] <= log[j]
    BY <2>1 DEF LimiterInv
  <2>3. log[j] > now - Window
    BY <1>1, <2>1, <2>2
  <2> QED BY <2>1, <2>3, RecentIsWindow
<1>3. IsFiniteSet(Recent)
  <2>1. IsFiniteSet(1..Len(log))
    BY <1>1, FS_Interval
  <2> QED BY <2>1, RecentIsWindow, FS_Subset
<1>4. Cardinality(i..Len(log)) = Len(log) - i + 1
  BY <1>1, FS_Interval
<1>5. Cardinality(i..Len(log)) <= Cardinality(Recent)
  BY <1>2, <1>3, FS_Subset
<1>6. Cardinality(Recent) \in Nat
  BY <1>3, FS_CardinalityType
<1>7. Cardinality(Recent) >= MaxRequests
  BY <1>1, <1>4, <1>5, <1>6
<1>8. Recent # {}
  BY <1>1, <1>2
<1> QED BY <1>7, <1>8, WaitIsPositive DEF Full

-----------------------------------------------------------------------------
LEMMA LimiterInvInit == LimiterInit => LimiterInv
BY DEF LimiterInit, LimiterInv, LimiterTypeOK

\* Every step of the limiter keeps the log in order and forgets only what is
\* out of the window.
LEMMA LimiterInvStep == LimiterInv /\ [LimiterNext]_limiterVars => LimiterInv'
<1> SUFFICES ASSUME LimiterInv, [LimiterNext]_limiterVars PROVE LimiterInv'
  OBVIOUS
<1>a. /\ now \in Nat /\ Len(log) \in Nat /\ log \in Seq(Nat)
      /\ \A j \in 1..Len(log) : log[j] \in Nat
  BY DEF LimiterInv, LimiterTypeOK
<1>b. \A i \in 1..Len(log) : i \notin Recent => log[i] + Window <= now
  <2> SUFFICES ASSUME NEW i \in 1..Len(log), i \notin Recent
               PROVE  log[i] + Window <= now
    OBVIOUS
  <2>1. ~(log[i] > now - Window)
    BY RecentIsWindow
  <2> QED BY <1>a, <2>1
<1>c. Recent \subseteq 1..Len(log)
  BY RecentIsWindow
<1>1. CASE Tick
  BY <1>1, <1>a DEF Tick, LimiterInv, LimiterTypeOK
<1>2. ASSUME NEW c \in Callers, GiveSlot(c) PROVE LimiterInv'
  <2>1. log' = Append(log, now) /\ requests' = Recent \cup {Len(log) + 1}
        /\ now' = now
    BY <1>2 DEF GiveSlot
  <2>2. /\ log' \in Seq(Nat) /\ Len(log') = Len(log) + 1
        /\ \A i \in 1..Len(log) : log'[i] = log[i]
        /\ log'[Len(log) + 1] = now
    BY <1>a, <2>1
  <2>3. LimiterTypeOK'
    <3>1. requests' \subseteq 1..Len(log')
      <4>1. 1..Len(log) \subseteq 1..(Len(log) + 1) /\ Len(log) + 1 \in 1..(Len(log) + 1)
        BY <1>a
      <4> QED BY <1>c, <2>1, <2>2, <4>1
    <3> QED BY <1>2, <2>2, <3>1 DEF GiveSlot, LimiterInv, LimiterTypeOK
  <2>4. \A i \in 1..Len(log') : i \in 1..Len(log) \/ i = Len(log) + 1
    BY <1>a, <2>2
  <2>5. \A i \in 1..Len(log') : log'[i] <= now'
    BY <1>a, <2>1, <2>2, <2>4 DEF LimiterInv
  <2>6. \A i, j \in 1..Len(log') : i <= j => log'[i] <= log'[j]
    <3> SUFFICES ASSUME NEW i \in 1..Len(log'), NEW j \in 1..Len(log'), i <= j
                 PROVE  log'[i] <= log'[j]
      OBVIOUS
    <3>1. CASE j \in 1..Len(log)
      <4>1. i \in 1..Len(log)
        BY <1>a, <2>4, <3>1
      <4> QED BY <2>2, <3>1, <4>1 DEF LimiterInv
    <3>2. CASE j = Len(log) + 1
      BY <2>1, <2>2, <2>5, <3>2
    <3> QED BY <2>4, <3>1, <3>2
  <2>7. \A i \in 1..Len(log') : i \notin requests' => log'[i] + Window <= now'
    BY <1>b, <2>1, <2>2, <2>4
  <2> QED BY <2>3, <2>5, <2>6, <2>7 DEF LimiterInv
<1>3. ASSUME NEW c \in Callers, Sleep(c) PROVE LimiterInv'
  <2>1. log' = log /\ now' = now /\ requests' = Recent
    BY <1>3 DEF Sleep
  <2>2. LimiterTypeOK'
    <3>1. Recent # {}
      <4>1. Cardinality(Recent) >= MaxRequests
        BY <1>3 DEF Sleep, Full
      <4> QED BY <4>1, FS_EmptySet
    <3>2. now + WaitTime \in Nat
      BY <1>a, <3>1, WaitIsPositive
    <3> QED BY <1>3, <1>c, <2>1, <3>2 DEF Sleep, LimiterInv, LimiterTypeOK
  <2> QED BY <1>b, <2>1, <2>2 DEF LimiterInv
<1>4. CASE UNCHANGED limiterVars
  BY <1>4 DEF limiterVars, LimiterInv, LimiterTypeOK
<1> QED BY <1>1, <1>2, <1>3, <1>4 DEF LimiterNext

\* A slot comes a window after the one MaxRequests before it.
LEMMA WindowKeptStep ==
  LimiterInv /\ WindowKept /\ [LimiterNext]_limiterVars => WindowKept'
<1> SUFFICES ASSUME LimiterInv, WindowKept, [LimiterNext]_limiterVars
             PROVE  WindowKept'
  OBVIOUS
<1>1. CASE UNCHANGED log
  BY <1>1 DEF WindowKept
<1>2. ASSUME NEW c \in Callers, GiveSlot(c) PROVE WindowKept'
  <2>1. log' = Append(log, now) /\ ~Full
    BY <1>2 DEF GiveSlot
  <2>2. /\ Len(log') = Len(log) + 1 /\ Len(log) \in Nat /\ now \in Nat
        /\ \A i \in 1..Len(log) : log'[i] = log[i] /\ log[i] \in Nat
        /\ log'[Len(log) + 1] = now
    BY <2>1 DEF LimiterInv, LimiterTypeOK
  <2> SUFFICES ASSUME NEW i \in 1..(Len(log') - MaxRequests)
               PROVE  log'[i + MaxRequests] >= log'[i] + Window
    BY DEF WindowKept
  <2>3. i \in 1..Len(log) /\ log'[i] = log[i]
    BY <2>2
  <2>4. CASE i + MaxRequests <= Len(log)
    <3>1. /\ i \in 1..(Len(log) - MaxRequests)
          /\ i + MaxRequests \in 1..Len(log)
      BY <2>2, <2>4
    <3> QED BY <2>2, <2>3, <3>1 DEF WindowKept
  <2>5. CASE i + MaxRequests = Len(log) + 1
    <3>1. log[i] + Window <= now
      <4>1. Len(log) + 1 - i >= MaxRequests
        BY <2>2, <2>5
      <4> QED BY <2>1, <2>3, <4>1, SlotIsFree
    <3>2. log'[i + MaxRequests] = now
      BY <2>2, <2>5
    <3>3. log[i] \in Nat
      BY <2>2, <2>3
    <3>4. now \in Nat
      BY <2>2
    <3>5. log'[i] = log[i]
      BY <2>3
    <3>6. now >= log[i] + Window
      BY <3>1, <3>3, <3>4
    <3> QED BY <3>2, <3>5, <3>6
  <2>6. i + MaxRequests <= Len(log) \/ i + MaxRequests = Len(log) + 1
    BY <2>2
  <2> QED BY <2>4, <2>5, <2>6
<1> QED BY <1>1, <1>2 DEF LimiterNext, Tick, Sleep, limiterVars

\* No window of time holds more than MaxRequests slots (waitForSlot).
THEOREM LimitKept == LimiterSpec => []WindowKept
<1>1. LimiterInit => WindowKept
  BY DEF LimiterInit, WindowKept
<1> QED BY LimiterInvInit, LimiterInvStep, WindowKeptStep, <1>1, PTL
        DEF LimiterSpec

-----------------------------------------------------------------------------
(* The limit in numbers.                                                    *)

\* The slots given in the window that begins at s.
SlotsFrom(s) == {i \in 1..Len(log) : s <= log[i] /\ log[i] < s + Window}

\* The slots of a window are next to each other in the log, from the first of
\* them on.
LEMMA WindowHoldsLimit ==
  ASSUME LimiterInv, WindowKept, NEW s \in Nat
  PROVE  Cardinality(SlotsFrom(s)) <= MaxRequests
<1>1. /\ Len(log) \in Nat
      /\ \A i \in 1..Len(log) : log[i] \in Nat
      /\ \A i, j \in 1..Len(log) : i <= j => log[i] <= log[j]
  BY DEF LimiterInv, LimiterTypeOK
<1>2. CASE SlotsFrom(s) = {}
  BY <1>2, FS_EmptySet
<1>3. CASE SlotsFrom(s) # {}
  <2>1. SlotsFrom(s) \subseteq 1..Len(log) /\ 1..Len(log) \subseteq Nat
    BY <1>1 DEF SlotsFrom
  <2>2. PICK m \in SlotsFrom(s) : \A i \in SlotsFrom(s) : m <= i
    BY <1>3, <2>1, LeastPosition
  <2>3. ASSUME NEW i \in SlotsFrom(s) PROVE i \in m..(m + MaxRequests - 1)
    <3>1. /\ i \in 1..Len(log) /\ m \in 1..Len(log) /\ m <= i
          /\ log[i] < s + Window /\ s <= log[m]
      BY <2>1, <2>2 DEF SlotsFrom
    <3>2. ASSUME i >= m + MaxRequests PROVE FALSE
      <4>1. /\ m \in 1..(Len(log) - MaxRequests)
            /\ m + MaxRequests \in 1..Len(log)
        BY <1>1, <3>1, <3>2
      <4>2. log[m + MaxRequests] >= log[m] + Window
        BY <4>1 DEF WindowKept
      <4>3. log[m + MaxRequests] <= log[i]
        BY <1>1, <3>1, <3>2, <4>1
      <4>4. log[i] \in Nat /\ log[m] \in Nat /\ log[m + MaxRequests] \in Nat
        BY <1>1, <3>1, <4>1
      <4> QED BY <3>1, <4>2, <4>3, <4>4
    <3> QED BY <1>1, <3>1, <3>2
  <2>4. m \in Nat
    BY <2>1
  <2>5. /\ IsFiniteSet(m..(m + MaxRequests - 1))
        /\ Cardinality(m..(m + MaxRequests - 1)) = MaxRequests
    BY <2>4, FS_Interval
  <2>6. SlotsFrom(s) \in SUBSET (m..(m + MaxRequests - 1))
    BY <2>3
  <2> QED BY <2>5, <2>6, FS_Subset
<1> QED BY <1>2, <1>3

\* Whatever moment it is laid at, a window of time holds no more slots than
\* the limit (waitForSlot, MaxRequests calls in perSeconds).
THEOREM LimitInNumbers ==
  LimiterSpec => [](\A s \in Nat : Cardinality(SlotsFrom(s)) <= MaxRequests)
<1>1. LimiterInv /\ WindowKept =>
        \A s \in Nat : Cardinality(SlotsFrom(s)) <= MaxRequests
  BY WindowHoldsLimit
<1>2. LimiterSpec => []LimiterInv
  BY LimiterInvInit, LimiterInvStep, PTL DEF LimiterSpec
<1> QED BY <1>1, <1>2, LimitKept, PTL
=============================================================================
