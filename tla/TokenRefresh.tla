---------------------------- MODULE TokenRefresh ----------------------------
(***************************************************************************)
(* The Schwab tokens and their refresh: src/lib/schwab-auth.ts and the     *)
(* callers of ensureTokenFreshness in src/lib/schwab-provider.ts.          *)
(*                                                                         *)
(* A call reads the active row and the module's refresh state, and awaits  *)
(* the refresh; other calls, the user's connecting and disconnecting, and  *)
(* the passing of time happen meanwhile.  The token manager of the Schwab  *)
(* library and the provider behind it are external: a refresh saves a new  *)
(* token through saveTokensToDb and returns, or it throws.                 *)
(*                                                                         *)
(* Time is counted in the unit of REFRESH_COOLDOWN_BASE_MS, five minutes.  *)
(***************************************************************************)
EXTENDS Integers, FiniteSets, FiniteSetsExt

CONSTANTS
  Callers,     \* requests that may be under way at once
  Life,        \* the life of a new access token
  MaxWait,     \* bounds the time a refresh may be awaited (external: the
               \* library's requests time out)
  MaxCrashes   \* bounds the restarts of the server

\* TOKEN_REFRESH_THRESHOLD_MS and REFRESH_COOLDOWN_MAX_MS
Threshold == 1
CooldownMax == 6

ASSUME CallersAssumption == IsFiniteSet(Callers)
ASSUME LifeAssumption == Life \in Nat /\ Life > Threshold
ASSUME CrashesAssumption == MaxCrashes \in Nat

\* A refresh answers, or is given up, well within the life of a token.
ASSUME WaitAssumption == MaxWait \in Nat /\ MaxWait + Threshold + 2 <= Life

VARIABLES
  rows,     \* the remaining lives of the rows with status 'active'
  refresh,  \* refreshState: the age of the last attempt, its failures; or None
  calls,    \* caller -> for how long it has awaited a refresh, or Idle
  up,       \* the provider answers and accepts the refresh token
  quiet,    \* history: the time since a refresh of this server last failed
  crashes

tokenVars == <<rows, refresh, calls, up, quiet, crashes>>

Idle == -1
Waiting == {c \in Callers : calls[c] # Idle}

None == [age |-> CooldownMax, failures |-> -1]

Least(x, y) == Min({x, y})

\* min(base * 2^failures, max)
Cooldown(failures) == Least(2 ^ failures, CooldownMax)

\* Mutation of CoolingDown: the state is kept but never looked at.
CoolingDownNever == FALSE

\* Mutation of CoolingDown: one failure is for ever.
CoolingDownForEver == refresh # None

CoolingDown == refresh # None /\ refresh.age < Cooldown(refresh.failures)

\* The row a call reads, when there is one
IsFresh(row) == row.ttl > Threshold

-----------------------------------------------------------------------------
\* ensureTokenFreshness up to its await.  A fresh token clears the failures.
FindFresh(c) ==
  /\ c \notin Waiting
  /\ \E row \in rows : IsFresh(row)
  /\ refresh # None
  /\ refresh' = None
  /\ UNCHANGED <<rows, calls, up, quiet, crashes>>

BeginRefresh(c) ==
  /\ c \notin Waiting
  /\ \E row \in rows : ~IsFresh(row)
  /\ ~CoolingDown
  /\ calls' = [calls EXCEPT ![c] = 0]
  /\ UNCHANGED <<rows, refresh, up, quiet, crashes>>

\* saveTokensToDb: the active rows become inactive, the new one is active.
Saved == {[ttl |-> Life]}

RefreshSucceeds(c) ==
  /\ c \in Waiting
  /\ up
  /\ rows' = Saved
  /\ refresh' = None
  /\ calls' = [calls EXCEPT ![c] = Idle]
  /\ UNCHANGED <<up, quiet, crashes>>

\* Failures are counted as far as they matter: from the third the cooldown is
\* the longest there is.
RefreshFails(c) ==
  /\ c \in Waiting
  /\ ~up
  /\ refresh' = [age |-> 0, failures |->
       IF refresh = None THEN 1 ELSE Least(refresh.failures + 1, 3)]
  /\ calls' = [calls EXCEPT ![c] = Idle]
  /\ quiet' = 0
  /\ UNCHANGED <<rows, up, crashes>>

\* exchangeCode: the user connects, and leaves the refresh state alone.
Connect ==
  /\ up
  /\ rows' = Saved
  /\ UNCHANGED <<refresh, calls, up, quiet, crashes>>

\* clearTokens; a refresh under way may save its token after it.
Disconnect ==
  /\ rows' = {}
  /\ UNCHANGED <<refresh, calls, up, quiet, crashes>>

\* The server restarts: the state of the module is gone.  A crash between the
\* two statements of saveTokensToDb leaves no row active.
ServerRestart ==
  /\ crashes < MaxCrashes
  /\ crashes' = crashes + 1
  /\ \/ UNCHANGED rows
     \/ Waiting # {} /\ rows' = {}
  /\ refresh' = None
  /\ calls' = [c \in Callers |-> Idle]
  /\ quiet' = CooldownMax
  /\ UNCHANGED up

\* Five minutes pass.
Tick ==
  /\ \A c \in Waiting : calls[c] < MaxWait
  /\ calls' = [c \in Callers |-> IF c \in Waiting THEN calls[c] + 1 ELSE Idle]
  /\ rows' = {[ttl |-> Max({row.ttl - 1, 0})] : row \in rows}
  /\ refresh' = [refresh EXCEPT !.age = Least(@ + 1, CooldownMax)]
  /\ quiet' = Least(quiet + 1, CooldownMax)
  /\ UNCHANGED <<up, crashes>>

ProviderChanges ==
  /\ up' = ~up
  /\ UNCHANGED <<rows, refresh, calls, quiet, crashes>>

-----------------------------------------------------------------------------
TokenInit ==
  /\ rows = {}
  /\ refresh = None
  /\ calls = [c \in Callers |-> Idle]
  /\ up = TRUE
  /\ quiet = CooldownMax
  /\ crashes = 0

CallerNext(c) ==
  FindFresh(c) \/ BeginRefresh(c) \/ RefreshSucceeds(c) \/ RefreshFails(c)

TokenNext ==
  \/ \E c \in Callers : CallerNext(c)
  \/ Connect \/ Disconnect \/ ServerRestart \/ Tick \/ ProviderChanges

TokenSpec == TokenInit /\ [][TokenNext]_tokenVars

\* Time passes, an awaited refresh ends, and the pages that poll for quotes keep
\* asking; nobody promises that the provider is up.
TokenFairSpec ==
  /\ TokenSpec
  /\ WF_tokenVars(Tick)
  /\ WF_tokenVars(\E c \in Callers : BeginRefresh(c))
  /\ \A c \in Callers : WF_tokenVars(RefreshSucceeds(c) \/ RefreshFails(c))

-----------------------------------------------------------------------------
(* Properties *)

\* The shape of the state.
TokenTypeOK ==
  /\ rows \subseteq [ttl : 0 .. Life]
  /\ refresh \in [age : 0 .. CooldownMax, failures : 1 .. 3] \cup {None}
  /\ calls \in [Callers -> 0 .. MaxWait \cup {Idle}]
  /\ up \in BOOLEAN
  /\ quiet \in 0 .. CooldownMax
  /\ crashes \in 0 .. MaxCrashes

\* However many requests find the token stale at once and in whatever order
\* their refreshes end, no new attempt starts sooner than ten minutes after one
\* failed: a success or a new connection in between clears the failures only
\* together with the need for an attempt.
QuietAfterFailure ==
  [][\A c \in Callers : c \notin Waiting /\ c \in Waiting' => quiet >= 2]_tokenVars

\* Failures never lock the tokens out: once the provider stays up and the user
\* stays connected, a token that can be used is found again and again.
TokenRecovers ==
  <>[](up /\ rows # {}) => []<>(\E row \in rows : IsFresh(row))
=============================================================================
