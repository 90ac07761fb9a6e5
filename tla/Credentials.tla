---------------------------- MODULE Credentials ----------------------------
(***************************************************************************)
(* Which credential answers /auth/verify (auth-server/src/handlers/        *)
(* auth.rs verify): a bearer token or the temporary-access cookie first,   *)
(* then the session cookie, then the local-network bypass                  *)
(* (local_bypass.rs), then the login page. Temporary access is a row an    *)
(* administrator creates and revokes (handlers/extra.rs), handed to a      *)
(* browser as a cookie through a link or an exchange. Sessions themselves  *)
(* are the subject of module Sessions; here one is live, dead or absent.   *)
(***************************************************************************)
EXTENDS Naturals, Sequences, SequencesExt

CONSTANTS
    AskedHosts,      \* hosts as sequences of labels
    HostPatterns,    \* [wild, labels]: "host", "*.host" or "*" (wild, no labels)
    Requested,       \* the requests that are verified
    Second,          \* ticks of the clock in a second
    Horizon          \* last value of the clock

(* What a request may bring. Tokens: a temporary credential, a Volta JWT    *)
(* (fit, for another audience, or of too low a role), or another service's  *)
(* token. peer is the transport address, claims what the forwarding headers *)
(* say; only peers that are trusted proxies are believed.                   *)
Tokens == {"none", "temporary", "jwt", "jwt for another", "jwt too low", "foreign"}
ASSUME CredentialsAssumption ==
    /\ Horizon \in Nat /\ Second \in Nat \ {0}
    /\ Requested \subseteq
         [host : AskedHosts, token : Tokens, session : {"none", "live", "dead"},
          peer : {"lan", "wan", "trusted proxy"}, claims : {"none", "lan"}]

NoAccess == [domains |-> {}, blocked |-> {}, starts |-> 0, expires |-> 0, revoked |-> TRUE]

VARIABLES
    clock,
    access,        \* the row of temporary_access_grants, NoAccess before
    activating,    \* an activation found the row active and builds its answer
    tempCookie,    \* when the browser's temporary-access cookie ends, 0 without
    verifying,     \* the verify in progress: its row read and the request
    verified,      \* its answer, "none" before
    revokedFirst   \* history: the row was revoked before that verify began

credentialVars == <<clock, access, activating, tempCookie, verifying, verified, revokedFirst>>

NoVerify == [reading |-> FALSE]

CredentialInit ==
    /\ clock = 1 /\ access = NoAccess /\ activating = FALSE /\ tempCookie = 0
    /\ verifying = NoVerify /\ verified = "none" /\ revokedFirst = FALSE

----------------------------------------------------------------------------
(* domain_matches: "*.example.com" covers subdomains only. *)
DomainMatches(pattern, host) ==
    IF pattern.wild
    THEN pattern.labels = <<>> \/ (pattern.labels # host /\ IsSuffix(pattern.labels, host))
    ELSE pattern.labels = host

(* Mutant: the window and the domains are checked, revocation is not. *)
IsActiveUnrevoked(row, host, now) ==
    /\ row.starts <= now /\ now < row.expires
    /\ \E d \in row.domains : DomainMatches(d, host)
    /\ ~\E d \in row.blocked : DomainMatches(d, host)

IsActiveFor(row, host, now) == ~row.revoked /\ IsActiveUnrevoked(row, host, now)

CreateTemporaryAccess(domains, blocked, starts, expires) ==
    /\ access = NoAccess
    /\ domains # {} /\ starts < expires
    /\ access' = [domains |-> domains, blocked |-> blocked, starts |-> starts,
                  expires |-> expires, revoked |-> FALSE]
    /\ UNCHANGED <<clock, activating, tempCookie, verifying, verified, revokedFirst>>

RevokeTemporaryAccess ==
    /\ access # NoAccess /\ ~access.revoked
    /\ access' = [access EXCEPT !.revoked = TRUE]
    /\ UNCHANGED <<clock, activating, tempCookie, verifying, verified, revokedFirst>>

(* Mutant: the cookie is given a fixed life. *)
CookieLifeFixed(row, now) == 2 * Second

(* Max-Age: the whole seconds that are left of the window, at least one.    *)
CookieLife(row, now) ==
    IF row.expires >= now + Second
    THEN (row.expires - now) - ((row.expires - now) % Second)
    ELSE Second

(* The link form and the exchange of a bearer read the row and judge it,    *)
ActivateTemporaryAccess(host) ==
    /\ ~activating /\ IsActiveFor(access, host, clock)
    /\ activating' = TRUE
    /\ UNCHANGED <<clock, access, tempCookie, verifying, verified, revokedFirst>>

(* and read the clock again for the Max-Age of the cookie they set.         *)
SetTemporaryCookie ==
    /\ activating
    /\ activating' = FALSE
    /\ tempCookie' = clock + CookieLife(access, clock)
    /\ UNCHANGED <<clock, access, verifying, verified, revokedFirst>>

ClockAdvances ==
    /\ clock < Horizon
    /\ clock' = clock + 1
    /\ tempCookie' = IF tempCookie > clock + 1 THEN tempCookie ELSE 0
    /\ UNCHANGED <<access, activating, verifying, verified, revokedFirst>>

----------------------------------------------------------------------------
(* Mutant: the forwarding headers are believed from anyone. *)
ClientIpBelieving(peer, claims) == IF claims # "none" THEN claims ELSE peer

(* client_ip: forwarding headers count only behind a trusted proxy. *)
ClientIp(peer, claims) ==
    IF peer = "trusted proxy" /\ claims # "none" THEN claims ELSE peer

(* The Authorization header, or else the temporary-access cookie. *)
PresentedToken(q, cookie) ==
    IF q.token # "none" THEN q.token ELSE IF cookie > 0 THEN "temporary" ELSE "none"

LocalBypass(q) == IF ClientIp(q.peer, q.claims) = "lan" THEN "local" ELSE "login"

SessionAnswer(q) ==
    CASE q.session = "live" -> "session"
      [] q.session = "dead" -> "login"
      [] OTHER -> LocalBypass(q)

(* Mutant: a token that is not Volta's ends the request. *)
BearerStrict(q, token) == IF token = "none" THEN SessionAnswer(q) ELSE "denied"

(* A token that is not a valid Volta JWT falls through. *)
BearerFallsThrough(q, token) == SessionAnswer(q)

VerifyAnswer(q, cookie, row, now) ==
    LET token == PresentedToken(q, cookie)
    IN  CASE token = "temporary" -> IF IsActiveFor(row, q.host, now) THEN "temporary" ELSE "denied"
          [] token = "jwt" -> "bearer"
          [] token \in {"jwt for another", "jwt too low"} -> "denied"
          [] OTHER -> BearerFallsThrough(q, token)

(* verify reads the row of a temporary credential, *)
VerifyReads(q) ==
    /\ verifying = NoVerify
    /\ verifying' = [reading |-> TRUE, q |-> q, cookie |-> tempCookie, row |-> access]
    /\ verified' = "none"
    /\ revokedFirst' = access.revoked
    /\ UNCHANGED <<clock, access, activating, tempCookie>>

(* and answers from what it read, at the time it answers. *)
VerifyAnswers ==
    /\ verifying # NoVerify
    /\ verified = "none"
    /\ verified' = VerifyAnswer(verifying.q, verifying.cookie, verifying.row, clock)
    /\ UNCHANGED <<clock, access, activating, tempCookie, verifying, revokedFirst>>

VerifyDone ==
    /\ verified # "none"
    /\ verifying' = NoVerify /\ verified' = "none" /\ revokedFirst' = FALSE
    /\ UNCHANGED <<clock, access, activating, tempCookie>>

CredentialNext ==
    \/ \E d, b \in SUBSET HostPatterns, from, to \in 1..Horizon :
           CreateTemporaryAccess(d, b, from, to)
    \/ RevokeTemporaryAccess
    \/ \E h \in AskedHosts : ActivateTemporaryAccess(h)
    \/ SetTemporaryCookie \/ ClockAdvances
    \/ \E q \in Requested : VerifyReads(q)
    \/ VerifyAnswers \/ VerifyDone

----------------------------------------------------------------------------
(* "Individual revocation [is] effective immediately": a verify that began  *)
(* after the row was revoked never admits its bearer, whatever cookie the   *)
(* browser still holds, and the credential admits no blocked host.          *)
RevocationImmediate ==
    verified = "temporary" =>
        /\ ~revokedFirst
        /\ ~\E d \in access.blocked : DomainMatches(d, verifying.q.host)

(* The cookie ends with the window of its row, but for the second that      *)
(* .max(1) gives it: past the window no cookie has longer than that to      *)
(* live, however late the activation read the clock for the second time.    *)
CookieWithinWindow ==
    tempCookie > 0 => tempCookie <= access.expires \/ tempCookie <= clock + Second

(* "Invalid Authorization does not drop the request": services behind the   *)
(* gateway read that header themselves, so a token that is not Volta's      *)
(* leaves the answer as it is without the header (for a browser without the *)
(* temporary-access cookie, which the header would displace).               *)
ForeignTokenHarmless ==
    verified # "none" /\ verifying.q.token = "foreign" /\ verifying.cookie = 0 =>
        verified = VerifyAnswer([verifying.q EXCEPT !.token = "none"], 0, verifying.row, clock)

(* What a caller writes into the forwarding headers changes nothing unless  *)
(* the caller is a trusted proxy.                                           *)
ClaimsIgnored ==
    verified = "local" /\ verifying.q.peer # "trusted proxy" => verifying.q.peer = "lan"

(***************************************************************************)
(* The right credential decides: revocation at once, a cookie at most a    *)
(* second longer than its grant, foreign tokens and forged headers without *)
(* effect.                                                                 *)
(***************************************************************************)
CredentialsSound ==
    RevocationImmediate /\ CookieWithinWindow /\ ForeignTokenHarmless /\ ClaimsIgnored
=============================================================================
