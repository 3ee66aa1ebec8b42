---------------------------- MODULE RateLimiter ----------------------------
(***************************************************************************)
(* The in-memory rate limiter in front of every route                      *)
(* (middleware/ratelimit.go).  allow and cleanup hold the mutex for their  *)
(* whole body and read the clock inside it, so each is one step.           *)
(*                                                                         *)
(* Time is counted in ticks.  admitted is a history variable: when the     *)
(* requests of a client were let through, oldest first.                    *)
(***************************************************************************)
EXTENDS Integers, Sequences, FiniteSets

CONSTANTS Clients,   \* addresses
          Requests,  \* what requests say of their sender
          Limit,     \* requests per window
          Window,    \* its length
          MaxTime,   \* bound on the clock
          None       \* an address without a bucket; no X-Real-IP

\* realIP: the first address of X-Forwarded-For, else X-Real-IP, else the
\* peer's address.
realIP(r) ==
    CASE r.forwarded # <<>>                    -> r.forwarded[1]
      [] r.forwarded = <<>> /\ r.real # None   -> r.real
      [] OTHER                                 -> r.remote

Time   == 0..MaxTime
Bucket == [count: 1..Limit, end: Window..(MaxTime + Window)]

ASSUME LimiterAssumption ==
    /\ Limit \in Nat \ {0}
    /\ Window \in Nat \ {0}
    /\ MaxTime \in Nat
    /\ None \notin Bucket
    /\ \A r \in Requests : realIP(r) \in Clients

VARIABLES now, buckets, admitted

vars == <<now, buckets, admitted>>

Init ==
    /\ now = 0
    /\ buckets = [c \in Clients |-> None]
    /\ admitted = [c \in Clients |-> <<>>]

----------------------------------------------------------------------------
\* now.After(b.windowEnd)
Expired(c) == now > buckets[c].end

\* Mutant: off by one at the limit.
FullLate(c) == buckets[c].count > Limit

\* b.count >= rl.limit
Full(c) == buckets[c].count >= Limit

Admit(c, b) ==
    /\ buckets' = [buckets EXCEPT ![c] = b]
    /\ admitted' = [admitted EXCEPT ![c] = Append(@, now)]

\* Mutant: a request that is let through pushes the end of its window on.
AllowSliding(c) ==
    /\ IF buckets[c] = None \/ Expired(c)
       THEN Admit(c, [count |-> 1, end |-> now + Window])
       ELSE /\ ~Full(c)
            /\ Admit(c, [count |-> buckets[c].count + 1, end |-> now + Window])
    /\ UNCHANGED now

\* allow returns true: a new window is opened, or there is room in the
\* current one.
Allow(c) ==
    /\ IF buckets[c] = None \/ Expired(c)
       THEN Admit(c, [count |-> 1, end |-> now + Window])
       ELSE /\ ~Full(c)
            /\ Admit(c, [buckets[c] EXCEPT !.count = @ + 1])
    /\ UNCHANGED now

\* Whether allow would return false; it changes nothing then.
Refuses(c) == buckets[c] # None /\ ~Expired(c) /\ Full(c)

\* Mutant: buckets are dropped at the end of their window, not after it.
CleanupEarly ==
    /\ buckets' = [c \in Clients |->
                     IF buckets[c] # None /\ now >= buckets[c].end
                     THEN None ELSE buckets[c]]
    /\ UNCHANGED <<now, admitted>>

\* The background cleanup drops every expired bucket.
Cleanup ==
    /\ buckets' = [c \in Clients |->
                     IF buckets[c] # None /\ Expired(c) THEN None ELSE buckets[c]]
    /\ UNCHANGED <<now, admitted>>

\* Go's clock readings are monotonic.
Tick ==
    /\ now < MaxTime
    /\ now' = now + 1
    /\ UNCHANGED <<buckets, admitted>>

Next == (\E r \in Requests : Allow(realIP(r))) \/ Cleanup \/ Tick

Spec == Init /\ [][Next]_vars

----------------------------------------------------------------------------
TypeOK ==
    /\ now \in Time
    /\ buckets \in [Clients -> Bucket \cup {None}]
    /\ admitted \in [Clients -> Seq(Time)]

\* Requests of c let through between t and t + Window, both included.
InWindow(c, t) ==
    Cardinality({i \in 1..Len(admitted[c]) :
                    t <= admitted[c][i] /\ admitted[c][i] <= t + Window})

\* However the requests fall relative to the windows, and whenever cleanup
\* runs, a client gets at most twice the limit through in any span as long
\* as a window (allow starts a new window only after the old one).
AtMostTwice == \A c \in Clients, t \in Time : InWindow(c, t) <= 2 * Limit

\* A client is refused only while it has really used up its limit within the
\* last window: no cleanup, no other client and no earlier window costs it
\* anything.
RefusalsEarned ==
    \A c \in Clients : Refuses(c) => InWindow(c, now - Window) >= Limit

----------------------------------------------------------------------------
\* The inductive invariant.

\* The clock readings of admitted requests are in order and in the past.
Sorted(c) ==
    \A i \in 1..Len(admitted[c]) :
        /\ admitted[c][i] <= now
        /\ \A j \in i..Len(admitted[c]) : admitted[c][i] <= admitted[c][j]

\* The requests opened are the ones that have opened a window: none of the
\* windows overlap, and none holds more than Limit requests.  The bucket of a
\* client is the last of them; without a bucket the last one is over.
Windows(c, opened) ==
    LET times == admitted[c]
        b     == buckets[c]
        first == Len(times) - b.count + 1
    IN /\ \A i \in 1..Len(times) : \E j \in opened : i - Limit < j /\ j <= i
       /\ \A j, k \in opened : j < k => times[j] + Window < times[k]
       /\ b # None =>
            /\ first \in opened /\ times[first] = b.end - Window
            /\ \A j \in opened : j <= first
       /\ b = None => \A j \in opened : times[j] + Window < now

IndInv ==
    /\ TypeOK
    /\ \A c \in Clients :
        /\ Sorted(c)
        /\ \E opened \in SUBSET (1..Len(admitted[c])) : Windows(c, opened)

=============================================================================
