---------------------------- MODULE ReportChannel ----------------------------
(***************************************************************************)
(* What the bridge promises of the input reports it accepts from USB: each *)
(* is delivered to the BLE host at most once and in the order of arrival.  *)
(* One is given up only while there is no connection, in the course of an  *)
(* overflow, which begins with Capacity reports or more waiting, or when   *)
(* the host was never told of its report id.                               *)
(***************************************************************************)
EXTENDS Naturals, FiniteSets

CONSTANTS
    Capacity,   \* reports that may wait before one is given up
    MaxSeq      \* bound: reports

VARIABLES
    chan,       \* the reports waiting
    last,       \* number of the last report delivered
    up,         \* there is a connection
    overflow    \* an overflow is being dealt with

vars == <<chan, last, up, overflow>>

Report == [seq : 1..MaxSeq, mapped : BOOLEAN]

Init == chan = {} /\ last = 0 /\ up = FALSE /\ overflow = FALSE

Oldest(r) == r \in chan /\ \A s \in chan : r.seq <= s.seq

Accept(r) ==
    /\ r.seq > last /\ \A s \in chan : s.seq < r.seq
    /\ chan' = chan \cup {r}
    /\ UNCHANGED <<last, up, overflow>>

Deliver(r) ==
    /\ up /\ Oldest(r) /\ r.mapped
    /\ chan' = chan \ {r} /\ last' = r.seq
    /\ UNCHANGED <<up, overflow>>

Reject(r) ==
    /\ Oldest(r) /\ ~r.mapped
    /\ chan' = chan \ {r}
    /\ UNCHANGED <<last, up, overflow>>

BeginOverflow ==
    /\ Cardinality(chan) >= Capacity
    /\ overflow' = TRUE
    /\ UNCHANGED <<chan, last, up>>

\* An overflow gives up a report; the last one may end it.
GiveUp(r) ==
    /\ overflow /\ r \in chan
    /\ chan' = chan \ {r}
    /\ overflow' \in BOOLEAN
    /\ UNCHANGED <<last, up>>

EndOverflow ==
    /\ overflow' = FALSE
    /\ UNCHANGED <<chan, last, up>>

Abandon(r) ==
    /\ ~up /\ r \in chan
    /\ chan' = chan \ {r}
    /\ UNCHANGED <<last, up, overflow>>

ConnectionChange == up' = ~up /\ UNCHANGED <<chan, last, overflow>>

Next ==
    \/ \E r \in Report : Accept(r) \/ Deliver(r) \/ Reject(r) \/ GiveUp(r) \/ Abandon(r)
    \/ BeginOverflow \/ EndOverflow \/ ConnectionChange

Spec == Init /\ [][Next]_vars
=============================================================================
