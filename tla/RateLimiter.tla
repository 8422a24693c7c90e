------------------------------ MODULE RateLimiter ------------------------------
(***************************************************************************)
(* What keeps a client from flooding the site: RateLimitMiddleware in      *)
(* core/middleware.py, which every request passes, one SimpleRateLimiter   *)
(* of utils/rate_limiter.py behind it, and the address both ask about.     *)
(*                                                                         *)
(* The middleware runs on the event loop, without an await between its     *)
(* clock and its table: one step.  The limiter is called from a thread and *)
(* reads the clock before it takes the lock, so calls may enter in another *)
(* order than they read.  Every client goes through the same TrustedHops   *)
(* proxies, each of which appends the address it was called from; what     *)
(* stands before is the client's own invention.  The list of a key's times *)
(* is the set of its hits: each has its number, so that two of one instant *)
(* are two and the last of them is known.                                  *)
(***************************************************************************)
EXTENDS Integers, Sequences, FiniteSets

CONSTANTS Requests, Clients,
          Prefixes,       \* what clients put into X-Forwarded-For, sequences of addresses
          Proxies,        \* the proxies on the way, a sequence of addresses
          TrustedHops,    \* TRUSTED_PROXY_HOPS
          MaxRequests, WindowSeconds, SweepEvery,
          Calls, Period,  \* RATE_LIMIT_PER_MINUTE, and its 60 seconds
          LastTime,       \* bound: ticks of the clock
          LastCall        \* bound: calls

IsList(s) == s \in Seq({s[i] : i \in DOMAIN s})

RateLimiterAssumption ==
    /\ IsList(Proxies) /\ \A p \in Prefixes : IsList(p)
    /\ TrustedHops = Len(Proxies) /\ \A c \in Clients : \A i \in DOMAIN Proxies : Proxies[i] # c
    /\ MaxRequests \in Nat \ {0} /\ WindowSeconds \in Nat \ {0} /\ SweepEvery \in Nat \ {0}
    /\ Calls \in Nat \ {0} /\ Period \in Nat \ {0} /\ LastTime \in Nat /\ LastCall \in Nat

VARIABLES
    now,       \* the clock
    clients,   \* the table of the middleware
    passed,    \* history: the requests it let through, [client, time]
    requests,  \* the table of the limiter: the recent hits of each key
    calls,     \* how often it was called
    inside,    \* where each request is
    admitted,  \* history: the calls that were admitted, [client, time]
    latest,    \* history: the latest reading a call entered with
    late       \* history: clients of whom a call entered after one that had read later

limiterVars == <<now, clients, passed, requests, calls, inside, admitted, latest, late>>

Idle == [step |-> "idle"]
Waiting == [step : {"passed", "read"}, client : Clients, prefix : Prefixes, at : 0..LastTime]
Call == [client : Clients, at : 0..LastTime]
Hit == [number : Nat, at : 0..LastTime]

Init == /\ now = 0 /\ clients = <<>> /\ passed = <<>> /\ requests = <<>> /\ calls = 0
        /\ inside = [r \in Requests |-> Idle]
        /\ admitted = <<>> /\ latest = 0 /\ late = {}
-----------------------------------------------------------------------------
\* The header and the socket's peer when the client's call has gone through the proxies.
Header(client, prefix) ==
    IF Proxies = <<>> THEN prefix ELSE prefix \o <<client>> \o SubSeq(Proxies, 1, Len(Proxies) - 1)
Peer(client) == IF Proxies = <<>> THEN client ELSE Proxies[Len(Proxies)]

\* Mutant: the leftmost entry.
FirstAddress(client, prefix) ==
    IF TrustedHops <= 0 \/ Len(Header(client, prefix)) < TrustedHops THEN Peer(client)
    ELSE Header(client, prefix)[1]

\* get_client_ip
ClientAddress(client, prefix) ==
    LET parts == Header(client, prefix)
    IN IF TrustedHops <= 0 \/ Len(parts) < TrustedHops THEN Peer(client)
       ELSE parts[Len(parts) - TrustedHops + 1]

Tick == /\ now < LastTime /\ now' = now + 1
        /\ UNCHANGED <<clients, passed, requests, calls, inside, admitted, latest, late>>

\* The hits younger than a period.
Recent(hits, period, t) == {h \in hits : h.at + period > t}
IsLast(h, hits) == \A other \in hits : other.number <= h.number

\* Clients without a hit in the period are dropped, before every request.
Cleaned(t) == [k \in {a \in DOMAIN clients : Recent(clients[a], Period, t) # {}} |-> clients[k]]

\* RateLimitMiddleware.dispatch, up to the handler.  Bound: LastCall requests.
Dispatch(r) == \E c \in Clients, p \in Prefixes :
    LET key == ClientAddress(c, p)
        table == Cleaned(now)
        recent == IF key \in DOMAIN table THEN Recent(table[key], Period, now) ELSE {}
        ok == Cardinality(recent) < Calls
        hit == [number |-> Len(passed) + 1, at |-> now]
    IN /\ inside[r] = Idle /\ Len(passed) < LastCall
       /\ clients' = [k \in DOMAIN table \union {key} |->
                         IF k # key THEN table[k] ELSE IF ok THEN recent \union {hit} ELSE table[key]]
       /\ passed' = IF ok THEN Append(passed, [client |-> c, at |-> now]) ELSE passed
       /\ inside' = IF ok THEN [inside EXCEPT ![r] = [step |-> "passed", client |-> c, prefix |-> p, at |-> now]]
                    ELSE inside
       /\ UNCHANGED <<now, requests, calls, admitted, latest, late>>

\* is_allowed up to the lock.
ReadClock(r) ==
    /\ inside[r].step = "passed"
    /\ inside' = [inside EXCEPT ![r].step = "read", ![r].at = now]
    /\ UNCHANGED <<now, clients, passed, requests, calls, admitted, latest, late>>

\* _sweep: a key is judged by its last entry.
Swept(t) ==
    LET stale == {k \in DOMAIN requests : \A h \in requests[k] : IsLast(h, requests[k]) => h.at + WindowSeconds <= t}
    IN [k \in DOMAIN requests \ stale |-> requests[k]]

\* is_allowed under the lock.
Enter(r) ==
    LET q == inside[r]
        key == ClientAddress(q.client, q.prefix)
        table == IF (calls + 1) % SweepEvery = 0 THEN Swept(q.at) ELSE requests
        recent == IF key \in DOMAIN table THEN Recent(table[key], WindowSeconds, q.at) ELSE {}
        allowed == Cardinality(recent) < MaxRequests
        hit == [number |-> Len(admitted) + 1, at |-> q.at]
    IN /\ q.step = "read"
       /\ calls' = calls + 1
       /\ requests' = [k \in DOMAIN table \union {key} |->
                          IF k # key THEN table[k] ELSE IF allowed THEN recent \union {hit} ELSE recent]
       /\ inside' = [inside EXCEPT ![r] = Idle]
       /\ admitted' = IF allowed THEN Append(admitted, [client |-> q.client, at |-> q.at]) ELSE admitted
       /\ latest' = IF q.at > latest THEN q.at ELSE latest
       /\ late' = IF q.at < latest THEN late \union {q.client} ELSE late
       /\ UNCHANGED <<now, clients, passed>>

Next == Tick \/ \E r \in Requests : Dispatch(r) \/ ReadClock(r) \/ Enter(r)
Spec == Init /\ [][Next]_limiterVars
-----------------------------------------------------------------------------
(* Properties *)

\* Every variable has the values the limiter can hold.
TypeOK ==
    /\ now \in 0..LastTime /\ calls \in Nat /\ latest \in 0..LastTime
    /\ \A k \in DOMAIN requests : requests[k] \subseteq Hit /\ Cardinality(requests[k]) <= MaxRequests
    /\ \A k \in DOMAIN clients : clients[k] \subseteq Hit
    /\ inside \in [Requests -> {Idle} \union Waiting]
    /\ passed \in Seq(Call) /\ admitted \in Seq(Call)
    /\ late \subseteq Clients

Within(log, c, from, length) ==
    Cardinality({i \in DOMAIN log : log[i].client = c /\ log[i].at \in from..(from + length - 1)})

\* No client gets past the middleware more than Calls times in any period, nor past the
\* limiter more than MaxRequests times in any window, whatever it writes into the header
\* and whatever is swept; for the limiter where none of the client's calls entered behind
\* a call that had read the clock later.
WindowHolds == \A c \in Clients, t \in 0..LastTime :
    /\ Within(passed, c, t, Period) <= Calls
    /\ c \in late \/ Within(admitted, c, t, WindowSeconds) <= MaxRequests
=============================================================================
