---------------------------- MODULE SalaryStream ----------------------------
(***************************************************************************)
(* What a salary promises: a stream starts once, and a payment pays one token *)
(* for each second since the last one.  Only a caller, a receiver that acts   *)
(* while it is being paid, may be paid again, and within the same second.     *)
(***************************************************************************)
EXTENDS Naturals

CONSTANT Streams

VARIABLES
    now,      \* the current second
    start,    \* the second a stream started, 0 for one that has not
    until,    \* the second it has been paid up to
    minted,   \* tokens paid so far
    callers   \* the streams of receivers that act while they are being paid

streamVars == <<now, start, until, minted, callers>>

Init ==
    /\ now = 1
    /\ start = [n \in Streams |-> 0]
    /\ until = [n \in Streams |-> 0]
    /\ minted = [n \in Streams |-> 0]
    /\ callers = {}

Second ==
    /\ now' = now + 1
    /\ UNCHANGED <<start, until, minted, callers>>

Begin(n) ==
    /\ start[n] = 0
    /\ start' = [start EXCEPT ![n] = now]
    /\ until' = [until EXCEPT ![n] = now]
    /\ callers' \in {callers, callers \cup {n}}
    /\ UNCHANGED <<now, minted>>

Pay(n) ==
    /\ start[n] # 0
    /\ minted' = [minted EXCEPT ![n] = @ + (now - until[n])]
    /\ until' = [until EXCEPT ![n] = now]
    /\ UNCHANGED <<now, start, callers>>

\* A second payment within the second of the last, of no more than a first one
\* could have been.
PayAgain(n) ==
    /\ n \in callers
    /\ until[n] = now
    /\ \E amount \in 0..(now - start[n]) : minted' = [minted EXCEPT ![n] = @ + amount]
    /\ UNCHANGED <<now, start, until, callers>>

Next == Second \/ \E n \in Streams : Begin(n) \/ Pay(n) \/ PayAgain(n)

Spec == Init /\ [][Next]_streamVars
=============================================================================
