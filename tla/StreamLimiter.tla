--------------------------- MODULE StreamLimiter ---------------------------
(***************************************************************************)
(* The gateway's token buckets: one of the endpoint, which every stream of *)
(* it shares and any stream's end removes, and one of the tenant, which    *)
(* stays.  A batch looks both up and then asks first the one, then the     *)
(* other; the lock is let go in between.                                   *)
(*                                                                         *)
(* One endpoint, which reconnects before its old stream has ended.         *)
(*                                                                         *)
(* Bounds: MaxTime on the clock, MaxLimiters buckets of the endpoint.      *)
(***************************************************************************)
EXTENDS Integers, Sequences

CONSTANTS Streams, Sizes, EndpointRate, EndpointBurst, TenantRate, TenantBurst, MaxTime, MaxLimiters

VARIABLES
  clock,
  limiters,   \* every bucket the endpoint ever had
  endpoint,   \* the one in the map; 0: none
  tenant,     \* the tenant's bucket
  batch,      \* what each stream's handler is doing
  spent,      \* history: time -> events let through until then, by the endpoint's
              \* buckets and by the tenant's
  closes      \* history: ends of streams

vars == <<clock, limiters, endpoint, tenant, batch, spent, closes>>

\* Natural numbers: a batch of any size, the empty one too, and any bursts.
StreamAssumption ==
  /\ EndpointRate \in Nat /\ EndpointBurst \in Nat /\ TenantRate \in Nat /\ TenantBurst \in Nat
  /\ Sizes \subseteq Nat

NoBatch == [pc |-> "recv", limiter |-> 0, n |-> 0]

TypeOK ==
  /\ clock \in 0..MaxTime /\ Len(limiters) <= MaxLimiters /\ endpoint \in 0..Len(limiters)
  /\ tenant.tokens \in 0..TenantBurst
  /\ \A i \in DOMAIN limiters : limiters[i].tokens \in 0..EndpointBurst
  /\ \A s \in Streams : batch[s].pc \in {"closed", "recv", "endpoint", "tenant"}

Init ==
  /\ clock = 0 /\ limiters = <<>> /\ endpoint = 0
  /\ tenant = [tokens |-> TenantBurst, last |-> 0]
  /\ batch = [s \in Streams |-> NoBatch]
  /\ spent = [i \in -1..0 |-> [endpoint |-> 0, tenant |-> 0]]
  /\ closes = 0
-----------------------------------------------------------------------------
Least(a, b) == IF a < b THEN a ELSE b
Refill(l, rate, burst) == Least(burst, l.tokens + (clock - l.last) * rate)

\* The bucket of the map, or a new one, full.
GetOrCreateEndpoint(s) == \E n \in Sizes :
  /\ batch[s].pc = "recv"
  /\ IF endpoint # 0 THEN UNCHANGED <<limiters, endpoint>>
     ELSE /\ Len(limiters) < MaxLimiters
          /\ limiters' = Append(limiters, [tokens |-> EndpointBurst, last |-> clock])
          /\ endpoint' = Len(limiters')
  /\ batch' = [batch EXCEPT ![s] = [pc |-> "endpoint", limiter |-> endpoint', n |-> n]]
  /\ UNCHANGED <<clock, tenant, spent, closes>>

\* More events than the burst are never let through.
AllowN(l, rate, burst, n) == n <= Refill(l, rate, burst)
Take(l, rate, burst, n) == [tokens |-> Refill(l, rate, burst) - n, last |-> clock]

AllowEndpoint(s) ==
  LET i == batch[s].limiter  n == batch[s].n
  IN /\ batch[s].pc = "endpoint"
     /\ IF AllowN(limiters[i], EndpointRate, EndpointBurst, n)
        THEN /\ limiters' = [limiters EXCEPT ![i] = Take(@, EndpointRate, EndpointBurst, n)]
             /\ spent' = [spent EXCEPT ![clock].endpoint = @ + n]
             /\ batch' = [batch EXCEPT ![s].pc = "tenant"]
        ELSE batch' = [batch EXCEPT ![s] = NoBatch] /\ UNCHANGED <<limiters, spent>>
     /\ UNCHANGED <<clock, endpoint, tenant, closes>>

\* What the endpoint's bucket gave is not put back when the tenant's refuses.
AllowTenant(s) ==
  /\ batch[s].pc = "tenant" /\ batch' = [batch EXCEPT ![s] = NoBatch]
  /\ IF AllowN(tenant, TenantRate, TenantBurst, batch[s].n)
     THEN /\ tenant' = Take(tenant, TenantRate, TenantBurst, batch[s].n)
          /\ spent' = [spent EXCEPT ![clock].tenant = @ + batch[s].n]
     ELSE UNCHANGED <<tenant, spent>>
  /\ UNCHANGED <<clock, limiters, endpoint, closes>>

\* A stream that ends takes the bucket out of the map, whoever uses it.
RemoveEndpoint(s) ==
  /\ batch[s].pc = "recv"
  /\ batch' = [batch EXCEPT ![s].pc = "closed"]
  /\ endpoint' = 0 /\ closes' = closes + 1
  /\ UNCHANGED <<clock, limiters, tenant, spent>>

Tick ==
  /\ clock < MaxTime /\ clock' = clock + 1
  /\ spent' = [i \in -1..clock' |-> spent[IF i > clock THEN clock ELSE i]]
  /\ UNCHANGED <<limiters, endpoint, tenant, batch, closes>>

Next == Tick \/ \E s \in Streams : GetOrCreateEndpoint(s) \/ AllowEndpoint(s) \/ AllowTenant(s) \/ RemoveEndpoint(s)
Spec == Init /\ [][Next]_vars
-----------------------------------------------------------------------------
\* In every stretch of time, up to now, the tenant gets no more than its burst and
\* what came in, however its streams end and overlap; the endpoint may start over
\* with each stream that ended, and no more often.
StreamBounded == \A i \in 0..clock :
  /\ spent[clock].tenant - spent[i - 1].tenant <= TenantBurst + (clock - i) * TenantRate
  /\ spent[clock].endpoint - spent[i - 1].endpoint <= (1 + closes) * (EndpointBurst + (clock - i) * EndpointRate)
=============================================================================
