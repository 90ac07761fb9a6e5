----------------------------- MODULE RateLimiter -----------------------------
(***************************************************************************)
(* The gateway's fixed-window rate limiter (struct RateLimiter in          *)
(* gateway/src/proxy.rs): a global window and one window per client IP,    *)
(* each under a mutex of its own, and the task in main.rs that drops idle  *)
(* entries.                                                                *)
(*                                                                         *)
(* A window is its count and the time since it started, saturating where   *)
(* nothing depends on more of it.  The unit is a tick of 1/Window second.  *)
(***************************************************************************)
EXTENDS Naturals, FiniteSets

CONSTANTS
  IPs,           \* client addresses
  Callers,      \* concurrent requests
  GlobalLimit,   \* requests_per_second
  PerIpLimit,    \* per_ip_rps
  Window,        \* ticks in the window of one second
  GcTtl          \* age in ticks at which an entry is dropped (code: 60 s)

ASSUME LimiterAssumption ==
  /\ GlobalLimit \in Nat \ {0} /\ PerIpLimit \in Nat \ {0}
  /\ Window \in Nat \ {0}
  /\ GcTtl \in Nat /\ GcTtl >= Window

(* Ages beyond the drop age are never told apart. *)
MaxAge == GcTtl
(* Counts beyond the limit are never told apart. *)
Saturate(n, limit) == IF n > limit THEN limit + 1 ELSE n

NoWindow == [count |-> 0, age |-> MaxAge, there |-> FALSE]
Fresh(n) == [count |-> n, age |-> 0, there |-> TRUE]

VARIABLES
  global,    \* the global window
  perIp,     \* the map of per-IP windows
  rpc,        \* where each request is in allow()
  ip,        \* the client of each request
  passed,    \* history: ages of the requests the global check let through
  admitted   \* history: ages of the requests admitted, per IP

rateVars == <<global, perIp, rpc, ip, passed, admitted>>

(* A history is a set of events, each the age of a request, up to the      *)
(* window, and a number that tells it from the others of that age.         *)
Ages == 0 .. Window - 1
History == SUBSET (Ages \X Nat)
NextNumber(h) == CHOOSE n \in 0 .. Cardinality(h) : <<0, n>> \notin h
Add(h) == h \cup {<<0, NextNumber(h)>>}
Shift(h) == {<<e[1] + 1, e[2]>> : e \in {x \in h : x[1] + 1 \in Ages}}

Windows(limit) == [count : 0 .. limit + 1, age : 0 .. MaxAge, there : BOOLEAN]

(* Every variable has the shape the code's types give it. *)
RateTypeOK ==
  /\ global \in Windows(GlobalLimit)
  /\ perIp \in [IPs -> Windows(PerIpLimit)]
  /\ rpc \in [Callers -> {"idle", "global", "allowed", "denied"}]
  /\ ip \in [Callers -> IPs]
  /\ passed \in History
  /\ admitted \in [IPs -> History]

RateInit ==
  /\ global = Fresh(0)
  /\ perIp = [i \in IPs |-> NoWindow]
  /\ rpc = [r \in Callers |-> "idle"]
  /\ ip \in [Callers -> IPs]
  /\ passed = {}
  /\ admitted = [i \in IPs |-> {}]

(* Mutant: a denied request starts the window anew. *)
CheckExtends(w, limit) ==
  IF w.age >= Window THEN Fresh(1)
  ELSE IF w.count >= limit THEN Fresh(Saturate(w.count + 1, limit))
  ELSE [w EXCEPT !.count = Saturate(@ + 1, limit)]

(* Mutant: the window restarts and the count goes on. *)
CheckKeepsCount(w, limit) ==
  IF w.age >= Window THEN Fresh(w.count + 1)
  ELSE [w EXCEPT !.count = Saturate(@ + 1, limit)]

(* Mutant: the request that restarts the window is not counted. *)
CheckLate(w, limit) ==
  IF w.age >= Window THEN Fresh(0)
  ELSE [w EXCEPT !.count = Saturate(@ + 1, limit)]

(* One check of a window: a window that is over restarts with this request, *)
(* otherwise the request is counted.                                        *)
CheckWindow(w, limit) ==
  IF w.age >= Window THEN Fresh(1)
  ELSE [w EXCEPT !.count = Saturate(@ + 1, limit)]

(* The request is refused when its own count is over the limit; the request *)
(* that restarts a window never is.                                         *)
Within(w, limit) == w.age >= Window \/ w.count + 1 <= limit

(* The global check, under the global mutex. *)
CheckGlobal(r) ==
  /\ rpc[r] = "idle"
  /\ global' = CheckWindow(global, GlobalLimit)
  /\ IF Within(global, GlobalLimit)
     THEN rpc' = [rpc EXCEPT ![r] = "global"] /\ passed' = Add(passed)
     ELSE rpc' = [rpc EXCEPT ![r] = "denied"] /\ UNCHANGED passed
  /\ UNCHANGED <<perIp, ip, admitted>>

(* entry(ip).or_insert((0, now)) *)
Entry(i) == IF perIp[i].there THEN perIp[i] ELSE Fresh(0)

(* The per-IP check, under the map's mutex. *)
CheckIp(r) ==
  LET i == ip[r] IN
  /\ rpc[r] = "global"
  /\ perIp' = [perIp EXCEPT ![i] = CheckWindow(Entry(i), PerIpLimit)]
  /\ IF Within(Entry(i), PerIpLimit)
     THEN /\ rpc' = [rpc EXCEPT ![r] = "allowed"]
          /\ admitted' = [admitted EXCEPT ![i] = Add(@)]
     ELSE rpc' = [rpc EXCEPT ![r] = "denied"] /\ UNCHANGED admitted
  /\ UNCHANGED <<global, ip, passed>>

(* The handler is done with this request; the next one may be of any IP. *)
NextRequest(r, i) ==
  /\ rpc[r] \in {"allowed", "denied"}
  /\ rpc' = [rpc EXCEPT ![r] = "idle"]
  /\ ip' = [ip EXCEPT ![r] = i]
  /\ UNCHANGED <<global, perIp, passed, admitted>>

(* Mutant: gc drops every entry, whatever its age. *)
GcAll ==
  /\ perIp' = [i \in IPs |-> NoWindow]
  /\ UNCHANGED <<global, rpc, ip, passed, admitted>>

(* gc: keep the entries younger than the ttl. *)
RateGc ==
  /\ perIp' = [i \in IPs |-> IF perIp[i].age < GcTtl THEN perIp[i] ELSE NoWindow]
  /\ UNCHANGED <<global, rpc, ip, passed, admitted>>

(* Time passes; ages saturate at the drop age. *)
OlderWindow(w) == [w EXCEPT !.age = IF @ < MaxAge THEN @ + 1 ELSE @]

RateTick ==
  /\ global' = OlderWindow(global)
  /\ perIp' = [i \in IPs |-> OlderWindow(perIp[i])]
  /\ passed' = Shift(passed)
  /\ admitted' = [i \in IPs |-> Shift(admitted[i])]
  /\ UNCHANGED <<rpc, ip>>

RateNext ==
  \/ \E r \in Callers : CheckGlobal(r) \/ CheckIp(r) \/ \E i \in IPs : NextRequest(r, i)
  \/ RateGc
  \/ RateTick

-------------------------------------------------------------------------------
(***************************************************************************)
(* In any period as long as the window, however it lies across the fixed   *)
(* windows, an IP gets at most twice its limit; dropping idle entries in   *)
(* the middle gives it no more.                                            *)
(***************************************************************************)
PerIpBound == \A i \in IPs : Cardinality(admitted[i]) <= 2 * PerIpLimit

(* The same for the requests of all IPs at the global check. *)
GlobalBound == Cardinality(passed) <= 2 * GlobalLimit

(***************************************************************************)
(* An IP that has used up its window gets a new one, although it keeps     *)
(* sending (and being counted) while it is refused.                        *)
(***************************************************************************)
WindowEnds ==
  \A i \in IPs : []<>(perIp[i].count <= PerIpLimit \/ perIp[i].age >= Window)

(***************************************************************************)
(* What the limiter admits in a window, per address and altogether, stays  *)
(* within its limits although requests and the collector race.             *)
(***************************************************************************)
RateBounds == RateTypeOK /\ PerIpBound /\ GlobalBound
===============================================================================
