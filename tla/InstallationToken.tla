-------------------------- MODULE InstallationToken --------------------------
(***************************************************************************)
(* The requests of a process that is a GitHub App: each attempt at one     *)
(* takes an installation token out of the process's cache or exchanges a   *)
(* JWT for a new one (integrations/github_app_auth.py), and the request is *)
(* repeated with backoff (GitHubClient._request()).  Two clocks matter,    *)
(* the process's own and GitHub's.  Processes do not share their tokens.   *)
(***************************************************************************)
EXTENDS Integers

CONSTANTS
    TokenLifetime,   \* how long GitHub lets a token live
    RefreshMargin,   \* _TOKEN_REFRESH_MARGIN_SECONDS
    JwtTtl,          \* _JWT_TTL_SECONDS
    JwtBackdate,     \* _CLOCK_SKEW_MARGIN_SECONDS
    JwtCap,          \* how far in the future GitHub lets a JWT end
    MaxSkew,         \* how far apart the clocks are at most
    Delay,           \* how long a request is under way at most
    MaxTries,        \* attempts of call_with_backoff()
    MaxTime,         \* a bound
    NoToken

ASSUME DurationsAssumption ==
    /\ TokenLifetime \in Nat /\ RefreshMargin \in Nat /\ JwtTtl \in Nat /\ JwtBackdate \in Nat
    /\ JwtCap \in Nat /\ MaxSkew \in Nat /\ Delay \in Nat /\ MaxTime \in Nat
    /\ MaxTries \in Nat \ {0}
ASSUME TokenAssumption == RefreshMargin >= MaxSkew + Delay /\ TokenLifetime > Delay + Delay
ASSUME JwtAssumption ==
    /\ JwtBackdate >= MaxSkew
    /\ JwtTtl - JwtBackdate > MaxSkew + Delay
    /\ JwtTtl - JwtBackdate + MaxSkew <= JwtCap
ASSUME NoTokenAssumption == NoToken \notin Int

VARIABLES
    now,       \* GitHub's time
    clock,     \* the process's
    cache,     \* when the cached token expires
    stage,     \* where the request is
    tries,     \* the attempt at it
    jwt,       \* the JWT on its way
    token,     \* when the token on its way expires
    since,     \* when it set out
    last       \* history: when the last token that was received was issued
tokenVars == <<now, clock, cache, stage, tries, jwt, token, since, last>>

NoJwt == [iat |-> 0, exp |-> 0]

TokenInit ==
    /\ now = 0 /\ clock \in -MaxSkew .. MaxSkew
    /\ cache = NoToken /\ last = NoToken
    /\ stage = "idle" /\ tries = 1
    /\ jwt = NoJwt /\ token = 0 /\ since = 0

UnderWay == stage \in {"exchange", "send"}

\* Time goes on, and the process's clock is put right, or wrong, as it does.
Tick ==
    /\ now < MaxTime
    /\ UnderWay => now < since + Delay
    /\ now' = now + 1
    /\ clock' \in now' - MaxSkew .. now' + MaxSkew
    /\ UNCHANGED <<cache, stage, tries, jwt, token, since, last>>

Begin ==
    /\ stage = "idle"
    /\ stage' = "headers"
    /\ UNCHANGED <<now, clock, cache, tries, jwt, token, since, last>>

\* Mutant of Usable: the margin is on the wrong side.
UsableBeyond == cache # NoToken /\ clock < cache + RefreshMargin

Usable == cache # NoToken /\ clock < cache - RefreshMargin

\* get_installation_token() with a token in the cache ...
UseCached ==
    /\ stage = "headers"
    /\ Usable
    /\ stage' = "send" /\ token' = cache /\ since' = now
    /\ UNCHANGED <<now, clock, cache, tries, jwt, last>>

\* Mutant of GenerateJwt: it is issued at the time it is made.
GenerateJwtUndated(time) == [iat |-> time, exp |-> time + JwtTtl]

GenerateJwt(time) == [iat |-> time - JwtBackdate, exp |-> time - JwtBackdate + JwtTtl]

\* ... and without one that is good enough.
AskForToken ==
    /\ stage = "headers"
    /\ ~Usable
    /\ stage' = "exchange" /\ jwt' = GenerateJwt(clock) /\ since' = now
    /\ UNCHANGED <<now, clock, cache, tries, token, last>>

\* What GitHub makes of a JWT, and of a token.
JwtValid == jwt.iat <= now /\ now < jwt.exp /\ jwt.exp <= now + JwtCap
TokenValid == now < token

\* Mutant of Receive: the token is used and not remembered.
ReceiveOnce ==
    /\ stage = "exchange" /\ JwtValid
    /\ last' \in since .. now /\ token' = last' + TokenLifetime
    /\ stage' = "send" /\ since' = now
    /\ jwt' = NoJwt
    /\ UNCHANGED <<now, clock, cache, tries>>

\* GitHub issues a token and the answer arrives.
Receive ==
    /\ stage = "exchange" /\ JwtValid
    /\ last' \in since .. now /\ token' = last' + TokenLifetime /\ cache' = token'
    /\ stage' = "send" /\ since' = now
    /\ jwt' = NoJwt
    /\ UNCHANGED <<now, clock, tries>>

\* No answer, or one that says to come again, to either of the two requests:
\* the next attempt makes its headers anew.
Repeat ==
    /\ UnderWay /\ tries < MaxTries
    /\ stage' = "headers" /\ tries' = tries + 1 /\ jwt' = NoJwt /\ token' = 0 /\ since' = 0
    /\ UNCHANGED <<now, clock, cache, last>>

\* GitHub answers the request, or refuses one of the two for good, or the
\* attempts are used up.
Finish ==
    /\ UnderWay
    /\ stage' = "idle" /\ tries' = 1 /\ jwt' = NoJwt /\ token' = 0 /\ since' = 0
    /\ UNCHANGED <<now, clock, cache, last>>

TokenNext == Tick \/ Begin \/ UseCached \/ AskForToken \/ Receive \/ Repeat \/ Finish

TokenSpec == TokenInit /\ [][TokenNext]_tokenVars

-----------------------------------------------------------------------------

TokenTypeOK ==
    /\ now \in Nat /\ clock \in Int /\ since \in Nat
    /\ cache \in Int \cup {NoToken} /\ token \in Int /\ last \in Int \cup {NoToken}
    /\ stage \in {"idle", "headers", "exchange", "send"}
    /\ tries \in 1 .. MaxTries
    /\ jwt \in [iat : Int, exp : Int]

\* No request arrives with a token that has expired, however late it is sent
\* out of a token's life, however long it waited for its next attempt, and
\* whichever way the clocks are apart.
TokenAlive == stage = "send" => TokenValid

\* GitHub takes the JWT whichever way the clocks are apart: it is not from the
\* future, not over, and not good for longer than GitHub likes ("under GitHub's
\* 10-minute cap, with margin"; "tolerates drift").
JwtAccepted == stage = "exchange" => JwtValid

\* "Reused until close to expiry, rather than minting a fresh one on every API
\* call": when a token is issued, the one before it was nearly used up.
TokensReused ==
    [][last' # last /\ last # NoToken =>
          last' - last >= TokenLifetime - RefreshMargin - MaxSkew]_tokenVars

-----------------------------------------------------------------------------
(* Why the invariants are inductive.                                       *)

InStep ==
    /\ clock - now <= MaxSkew /\ now - clock <= MaxSkew
    /\ UnderWay => since <= now /\ now <= since + Delay

\* The valid stay valid for as long as they are under way.
LongEnough ==
    /\ stage = "send" => since + Delay < token
    /\ stage = "exchange" => /\ jwt.iat <= since /\ since + Delay < jwt.exp
                          /\ jwt.exp <= since + JwtCap

\* A cached token is the last one received, and another is asked for when it is
\* nearly used up.
NearlyUsedUp ==
    /\ cache # NoToken <=> last # NoToken
    /\ cache # NoToken => cache = last + TokenLifetime
    /\ stage = "exchange" /\ cache # NoToken => since >= cache - RefreshMargin - MaxSkew

TokenInv == TokenTypeOK /\ InStep /\ LongEnough /\ NearlyUsedUp

=============================================================================
