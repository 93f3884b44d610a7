--------------------------- MODULE TenantLimiter ---------------------------
(***************************************************************************)
(* The API's token buckets, one per tenant: made full when a tenant first  *)
(* calls, refilled when it calls again, dropped by a sweep that some       *)
(* tenant's call runs.  Every call holds the lock, so a call is one step.  *)
(*                                                                         *)
(* Tokens are counted in units: a request costs Cost of them, a second     *)
(* brings Rate, so that a bucket may hold part of a token.                 *)
(*                                                                         *)
(* Bounds: MaxTime on the clock.                                           *)
(***************************************************************************)
EXTENDS Integers

CONSTANTS Tenants, Rate, Burst, Cost, IdleTtl, MaxTime

VARIABLES
  clock,
  buckets,    \* tenant -> tokens, last refill, last use
  lastSweep,
  admitted    \* history: tenant, time -> requests let through until then

vars == <<clock, buckets, lastSweep, admitted>>

\* Natural numbers, and a burst of one request at least.
TenantAssumption ==
  Rate \in Nat /\ Burst \in Nat /\ Cost \in Nat /\ IdleTtl \in Nat /\ Cost <= Burst

TypeOK ==
  /\ clock \in 0..MaxTime /\ lastSweep \in 0..clock
  /\ DOMAIN buckets \subseteq Tenants
  /\ \A t \in DOMAIN buckets : buckets[t].tokens \in 0..Burst /\ buckets[t].used \in 0..clock

Init == clock = 0 /\ buckets = <<>> /\ lastSweep = 0 /\ admitted = [t \in Tenants |-> [i \in -1..0 |-> 0]]
-----------------------------------------------------------------------------
Least(a, b) == IF a < b THEN a ELSE b

\* Buckets that were not used, not even in vain, for longer than IdleTtl go.
SweepLocked == [t \in {u \in DOMAIN buckets : clock - buckets[u].used <= IdleTtl} |-> buckets[t]]
Swept == IF clock - lastSweep >= IdleTtl THEN SweepLocked ELSE buckets

\* Mutant: no cap.
RefillUncapped(b) == [b EXCEPT !.tokens = @ + (clock - b.refill) * Rate, !.refill = clock, !.used = clock]
Refill(b) == [b EXCEPT !.tokens = Least(Burst, @ + (clock - b.refill) * Rate), !.refill = clock, !.used = clock]

NewBucket == [tokens |-> Burst, refill |-> clock, used |-> clock]

\* A tenant without a bucket is let through and gets one; another is if its
\* bucket holds a token.
Allow(t) ==
  LET b == IF t \in DOMAIN Swept THEN Refill(Swept[t]) ELSE NewBucket
      ok == t \notin DOMAIN Swept \/ b.tokens >= Cost
  IN /\ buckets' = [u \in DOMAIN Swept \cup {t} |->
                      IF u # t THEN Swept[u] ELSE IF ok THEN [b EXCEPT !.tokens = @ - Cost] ELSE b]
     /\ lastSweep' = IF clock - lastSweep >= IdleTtl THEN clock ELSE lastSweep
     /\ admitted' = IF ok THEN [admitted EXCEPT ![t][clock] = @ + 1] ELSE admitted
     /\ UNCHANGED clock

Tick ==
  /\ clock < MaxTime /\ clock' = clock + 1
  /\ admitted' = [t \in Tenants |-> [i \in -1..clock' |-> admitted[t][IF i > clock THEN clock ELSE i]]]
  /\ UNCHANGED <<buckets, lastSweep>>

Next == Tick \/ \E t \in Tenants : Allow(t)
Spec == Init /\ [][Next]_vars
-----------------------------------------------------------------------------
\* In every stretch of time, up to now, a tenant gets no more than a full bucket
\* and what came in, though sweeps take buckets away, as long as a bucket that
\* idles for IdleTtl is full by then.
TenantBounded == IdleTtl * Rate >= Burst =>
  \A t \in Tenants, i \in 0..clock :
     Cost * (admitted[t][clock] - admitted[t][i - 1]) <= Burst + (clock - i) * Rate
=============================================================================
