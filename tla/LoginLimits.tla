----------------------------- MODULE LoginLimits -----------------------------
(***************************************************************************)
(* The limits on wrong passwords and codes: two RateLimiters in the memory *)
(* of the process, one per address (ipLimiter), one per address and user   *)
(* (loginLimiter). An attempt is counted before it waits for anything, and *)
(* gives its place back when it turns out not to be a failure: maybe once  *)
(* the window it was counted in is over.                                   *)
(***************************************************************************)
EXTENDS Integers, FiniteSets

CONSTANTS
    Attempts,   \* POST /session, and the routes of the second factor that take a proof
    Addresses,
    Users,
    NoWindow,
    UserMax,    \* attempts per address and user in a window
    IpMax,      \* failures per address in a window (IP_LIMIT_FACTOR times UserMax)
    Window,     \* ticks a window lasts
    MaxNow      \* bound of the time

ASSUME LimitAssumption ==
    /\ UserMax \in Nat \ {0} /\ IpMax \in Nat \ {0} /\ Window \in Nat \ {0} /\ MaxNow \in Nat
    /\ IsFiniteSet(Attempts)
    /\ NoWindow \notin [count : Int, resetAt : Int]

Nows == 0..MaxNow
WindowEnds == Window..(MaxNow + Window)
Keys == Addresses \X Users

VARIABLES
    byIp,       \* the windows of ipLimiter, or NoWindow
    byUser,     \* the windows of loginLimiter, or NoWindow
    attempt,    \* where each attempt is, and the window its place is in
    now

limitVars == <<byIp, byUser, attempt, now>>

\* Out of the limiters: an attempt that failed keeps its place, any other has given it back.
Waits == {"host", "connecting", "proof"}
NoAttempt == [at |-> "idle", ip |-> NoWindow, user |-> NoWindow, windowEnd |-> NoWindow]
Attempt == {NoAttempt} \cup
           [at : {"failed", "over", "limited"} \cup Waits, ip : Addresses, user : Users, windowEnd : WindowEnds]
WindowOf == [count : Nat, resetAt : WindowEnds]

LimitsTypeOK ==
    /\ byIp \in [Addresses -> WindowOf \cup {NoWindow}]
    /\ byUser \in [Keys -> WindowOf \cup {NoWindow}]
    /\ attempt \in [Attempts -> Attempt]
    /\ now \in Nows

-----------------------------------------------------------------------------
(***************************************************************************)
(* RateLimiter.                                                            *)
(***************************************************************************)
\* The window an attempt of now is counted in: the current one, or a new one once that is over.
Current(w) == w # NoWindow /\ w.resetAt > now
OpenedWindow(w) == IF Current(w) THEN w ELSE [count |-> 0, resetAt |-> now + Window]
Hit(w) == [OpenedWindow(w) EXCEPT !.count = @ + 1]

\* Mutant: one more than the limit.
AllowedOneMore(w, max) == w.count <= max + 1

Allowed(w, max) == w.count <= max

\* Mutant: a place is given back of nothing.
RefundBlindly(w, windowEnd) == IF w # NoWindow THEN [w EXCEPT !.count = @ - 1] ELSE w

\* Mutant: a place is given back to whatever window there is.
RefundAny(w, windowEnd) == IF w # NoWindow /\ w.count > 0 THEN [w EXCEPT !.count = @ - 1] ELSE w

\* refund: nothing once the window it was counted in is over, for the new one never saw it.
Refund(w, windowEnd) == IF w # NoWindow /\ w.resetAt = windowEnd /\ w.count > 0 THEN [w EXCEPT !.count = @ - 1] ELSE w

Swept(w) == IF Current(w) THEN w ELSE NoWindow

-----------------------------------------------------------------------------
(***************************************************************************)
(* The routes.                                                             *)
(***************************************************************************)
\* POST /session or a route that takes a code: counted on its address at once, or refused. What refuses is given back.
Asks(r, ip, user, at) ==
    LET hit == Hit(byIp[ip])
        Is(place) == [at |-> place, ip |-> ip, user |-> user, windowEnd |-> hit.resetAt]
    IN
    /\ attempt[r].at = "idle"
    /\ IF Allowed(hit, IpMax)
       THEN /\ byIp' = [byIp EXCEPT ![ip] = hit]
            /\ attempt' = [attempt EXCEPT ![r] = Is(at)]
       ELSE /\ byIp' = [byIp EXCEPT ![ip] = Refund(hit, hit.resetAt)]
            /\ attempt' = [attempt EXCEPT ![r] = Is("limited")]
    /\ UNCHANGED <<byUser, now>>

Ask(r) == \E ip \in Addresses, user \in Users, at \in {"host", "proof"} : Asks(r, ip, user, at)

KeyOf(r) == <<attempt[r].ip, attempt[r].user>>

\* The finally of the route: a failure keeps its place, any other way out gives it back.
Leaves(r) ==
    /\ byIp' = [byIp EXCEPT ![attempt[r].ip] = Refund(@, attempt[r].windowEnd)]
    /\ attempt' = [attempt EXCEPT ![r].at = "over"]

Fails(r) == attempt' = [attempt EXCEPT ![r].at = "failed"] /\ UNCHANGED byIp

\* The host is not allowed.
WrongHost(r) ==
    /\ attempt[r].at = "host"
    /\ Fails(r)
    /\ UNCHANGED <<byUser, now>>

\* It is, and the attempt is counted for its user: too many, or on to the database.
CountedForUser(r) ==
    LET hit == Hit(byUser[KeyOf(r)]) IN
    /\ attempt[r].at = "host"
    /\ byUser' = [byUser EXCEPT ![KeyOf(r)] = hit]
    /\ IF Allowed(hit, UserMax) THEN attempt' = [attempt EXCEPT ![r].at = "connecting"] /\ UNCHANGED byIp
       ELSE Leaves(r)
    /\ UNCHANGED now

\* The wrong password, a server that cannot be reached, or a wrong code of the second factor.
Refused(r) ==
    /\ attempt[r].at \in {"connecting", "proof"}
    /\ Fails(r)
    /\ UNCHANGED <<byUser, now>>

\* The store is down; the proof is right, or none was needed.
NotAFailure(r) ==
    /\ attempt[r].at \in {"connecting", "proof"}
    /\ Leaves(r)
    /\ UNCHANGED <<byUser, now>>

\* Signed in: the attempts of that user from that address are forgotten.
SignedIn(r) ==
    /\ attempt[r].at = "connecting"
    /\ byUser' = [byUser EXCEPT ![KeyOf(r)] = NoWindow]
    /\ Leaves(r)
    /\ UNCHANGED now

\* The timer of either limiter, and time.
SweepIp == byIp' = [ip \in Addresses |-> Swept(byIp[ip])] /\ UNCHANGED <<byUser, attempt, now>>
SweepUser == byUser' = [key \in Keys |-> Swept(byUser[key])] /\ UNCHANGED <<byIp, attempt, now>>
LimitsTick == now < MaxNow /\ now' = now + 1 /\ UNCHANGED <<byIp, byUser, attempt>>

LimitsInit ==
    /\ byIp = [ip \in Addresses |-> NoWindow]
    /\ byUser = [key \in Keys |-> NoWindow]
    /\ attempt = [r \in Attempts |-> NoAttempt]
    /\ now = 0

LimitsNext ==
    \/ \E r \in Attempts :
           Ask(r) \/ WrongHost(r) \/ CountedForUser(r) \/ Refused(r) \/ NotAFailure(r) \/ SignedIn(r)
    \/ SweepIp \/ SweepUser \/ LimitsTick

LimitsSpec == LimitsInit /\ [][LimitsNext]_limitVars

-----------------------------------------------------------------------------
(***************************************************************************)
(* Properties.                                                             *)
(***************************************************************************)
Holding == {"failed"} \cup Waits
Holders(ip, end) == {r \in Attempts : attempt[r].at \in Holding /\ attempt[r].ip = ip /\ attempt[r].windowEnd = end}

\* A window counts its failures and the attempts still under way, and nothing else: whatever was given back late, or
\* counted in a window that is over, is not on it.
WindowExact == \A ip \in Addresses : byIp[ip] # NoWindow => byIp[ip].count = Cardinality(Holders(ip, byIp[ip].resetAt))

\* No burst gets more failures through in one window than the limit of its address.
FailuresBounded ==
    \A ip \in Addresses : \A end \in WindowEnds :
        Cardinality({r \in Holders(ip, end) : attempt[r].at = "failed"}) <= IpMax
=============================================================================
