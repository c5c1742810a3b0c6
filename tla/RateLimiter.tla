---------------------------- MODULE RateLimiter ----------------------------
(***************************************************************************)
(* The sliding-window limiter of a provider (RateLimiter.wait) and the      *)
(* calls it lets through, each tried again on failure (retry), by the       *)
(* threads of one process.                                                  *)
(*                                                                         *)
(* Time is counted in ticks of the shortest nap (0.1 s), and time.time()    *)
(* does not go back.                                                        *)
(***************************************************************************)
EXTENDS Integers, Sequences

CONSTANTS
    Threads,       \* threads of the provider
    MaxCalls,      \* max_calls
    Window,        \* window_seconds
    LongestNap,    \* the 5 seconds after which a waiting thread looks again
    MaxAttempts,   \* retry's max_attempts
    LimiterEnd     \* bound: the last tick

ASSUME LimiterAssumption ==
    /\ MaxCalls \in Nat \ {0} /\ Window \in Nat \ {0} /\ LongestNap \in Nat \ {0}
    /\ MaxAttempts \in Nat \ {0} /\ LimiterEnd \in Nat

VARIABLES
    rlNow,       \* time.time()
    rlCalls,     \* _calls
    rlThread,    \* what each thread is at
    rlGranted    \* history: when calls were let through, in order

limiterVars == <<rlNow, rlCalls, rlThread, rlGranted>>

-----------------------------------------------------------------------------
\* until: a sleeping thread's alarm; attempt: failures of the call so far.
Thread == [pc : {"ready", "waiting", "calling"}, until : Nat,
           attempt : 0 .. MaxAttempts]

Least(m, n) == IF m < n THEN m ELSE n
Most(m, n) == IF m < n THEN n ELSE m

SetThread(t, pc, until, attempt) ==
    rlThread' = [rlThread EXCEPT ![t] = [pc |-> pc, until |-> until, attempt |-> attempt]]

\* A plausible slip: a call at the very edge of the window no longer counts.
SlipLive(calls) == {i \in DOMAIN calls : rlNow - calls[i] < Window}

\* The calls of the deque that still count.
Live(calls) == {i \in DOMAIN calls : rlNow - calls[i] <= Window}

\* The deque without the calls before the first that counts.
Recent(calls) ==
    IF Live(calls) = {} THEN <<>>
    ELSE SubSeq(calls, CHOOSE i \in Live(calls) : \A j \in Live(calls) : i <= j, Len(calls))

Nap(calls) == Least(Most(1, Window - (rlNow - calls[1])), LongestNap)

-----------------------------------------------------------------------------
LimiterInit ==
    /\ rlNow = 0
    /\ rlCalls = <<>>
    /\ rlThread = [t \in Threads |-> [pc |-> "ready", until |-> 0, attempt |-> 0]]
    /\ rlGranted = <<>>

\* A thread asks for a call.
Ask(t) ==
    /\ rlThread[t].pc = "ready"
    /\ SetThread(t, "waiting", rlNow, 0)
    /\ UNCHANGED <<rlNow, rlCalls, rlGranted>>

\* One round of wait(), under its lock, when the thread is not asleep.
Look(t) ==
    LET calls == Recent(rlCalls)
    IN  /\ rlThread[t].pc = "waiting" /\ rlThread[t].until <= rlNow
        /\ IF Len(calls) < MaxCalls
           THEN /\ rlCalls' = Append(calls, rlNow)
                /\ rlGranted' = Append(rlGranted, rlNow)
                /\ SetThread(t, "calling", 0, 0)
           ELSE /\ rlCalls' = calls
                /\ SetThread(t, "waiting", rlNow + Nap(calls), 0)
                /\ UNCHANGED rlGranted
        /\ UNCHANGED rlNow

\* retry: the call returns, or fails and is tried again without asking the limiter.
Call(t) ==
    /\ rlThread[t].pc = "calling" /\ rlThread[t].until <= rlNow
    /\ LET failures == rlThread[t].attempt + 1
       IN  \/ SetThread(t, "ready", 0, 0)
           \/ failures < MaxAttempts /\ SetThread(t, "calling", rlNow + 2 ^ (failures - 1), failures)
    /\ UNCHANGED <<rlNow, rlCalls, rlGranted>>

Clock ==
    /\ rlNow < LimiterEnd
    /\ rlNow' = rlNow + 1
    /\ UNCHANGED <<rlCalls, rlThread, rlGranted>>

LimiterNext == Clock \/ \E t \in Threads : Ask(t) \/ Look(t) \/ Call(t)

LimiterSpec == LimiterInit /\ [][LimiterNext]_limiterVars

-----------------------------------------------------------------------------
(* Properties.                                                              *)

LimiterTypeOK ==
    /\ rlNow \in 0 .. LimiterEnd
    /\ rlCalls \in Seq(0 .. LimiterEnd) /\ Len(rlCalls) <= MaxCalls
    /\ rlThread \in [Threads -> Thread]
    /\ rlGranted \in Seq(0 .. LimiterEnd)

\* However the threads nap and wake, no window of window_seconds, its two ends included,
\* sees more than max_calls calls let through (RateLimiter.wait).
WindowBounded ==
    \A i \in DOMAIN rlGranted :
        i + MaxCalls \in DOMAIN rlGranted => rlGranted[i + MaxCalls] - rlGranted[i] > Window

=============================================================================
