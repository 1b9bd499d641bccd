---------------------------- MODULE RateLimiter ----------------------------
(***************************************************************************)
(* RateLimiter, through which the parts of MonadTransferDetector ask the   *)
(* node: of the calls of waitForSlot, MaxRequests get a slot in a window   *)
(* of time, the others sleep and try again.  `requests' of the code is the *)
(* set of those slots of the log that are remembered, and the oldest of    *)
(* them comes first.                                                       *)
(***************************************************************************)
EXTENDS Integers, FiniteSets, Sequences

CONSTANTS
  Callers,
  MaxRequests,
  Window,      \* perSeconds
  Buffer,      \* the 100 ms added to a wait
  MaxTime      \* bound: the clock

ASSUME LimiterAssumption ==
  /\ MaxRequests \in Nat \ {0}
  /\ Window \in Nat \ {0}
  /\ Buffer \in Nat
  /\ MaxTime \in Nat

VARIABLES
  now,
  log,       \* history: the times of the slots given
  requests,  \* the slots remembered, as positions in log
  asleep,    \* the callers in setTimeout
  wake       \* wake[c]: when the timer of c is due

limiterVars == <<now, log, requests, asleep, wake>>

LimiterTypeOK ==
  /\ now \in 0..MaxTime
  /\ log \in Seq(Nat)
  /\ requests \subseteq 1..Len(log)
  /\ asleep \in SUBSET Callers
  /\ wake \in [Callers -> Nat]

LimiterInit ==
  /\ now = 0
  /\ log = <<>>
  /\ requests = {}
  /\ asleep = {}
  /\ wake = [c \in Callers |-> 0]

-----------------------------------------------------------------------------
\* Mutant of Recent: half a window is looked back.
RecentHalf == {i \in requests : log[i] > now - (Window \div 2)}

\* The requests inside the window.
Recent == {i \in requests : log[i] > now - Window}

Oldest == CHOOSE i \in Recent : \A j \in Recent : i <= j

WaitTime == log[Oldest] + Window - now + Buffer

\* At the limit, with a time to wait.
Full == Cardinality(Recent) >= MaxRequests /\ WaitTime > 0

\* c calls waitForSlot, or its timer has come.
Awake(c) == c \in asleep => now >= wake[c]

GiveSlot(c) ==
  /\ Awake(c)
  /\ ~Full
  /\ log' = Append(log, now)
  /\ requests' = Recent \cup {Len(log) + 1}
  /\ asleep' = asleep \ {c}
  /\ UNCHANGED <<now, wake>>

Sleep(c) ==
  /\ Awake(c)
  /\ Full
  /\ requests' = Recent
  /\ asleep' = asleep \cup {c}
  /\ wake' = [wake EXCEPT ![c] = now + WaitTime]
  /\ UNCHANGED <<now, log>>

Tick ==
  /\ now < MaxTime
  /\ now' = now + 1
  /\ UNCHANGED <<log, requests, asleep, wake>>

LimiterNext == Tick \/ \E c \in Callers : GiveSlot(c) \/ Sleep(c)

LimiterSpec == LimiterInit /\ [][LimiterNext]_limiterVars

-----------------------------------------------------------------------------
\* However the callers come, sleep and wake together, no window of time holds
\* more than MaxRequests slots: the slot that comes MaxRequests after another
\* comes at least a window later (waitForSlot).
WindowKept ==
  \A i \in 1..(Len(log) - MaxRequests) :
    log[i + MaxRequests] >= log[i] + Window
=============================================================================
