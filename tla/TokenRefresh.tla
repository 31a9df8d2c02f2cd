---------------------------- MODULE TokenRefresh ----------------------------
(***************************************************************************)
(* The renewal of the access token: AuthInterceptor, TokenAuthenticator,   *)
(* the tokens in SharedPrefCommon, and the logins and logouts that write   *)
(* the same tokens on the main thread.  Requests run on the threads of     *)
(* OkHttp's dispatcher, of which a host gets MaxPerHost at a time; the     *)
(* refresh itself is a request to the same host (NetworkModule gives both  *)
(* the same client).  A thread in authenticate keeps its place.            *)
(*                                                                         *)
(* The n-th tokens the backend issued are the number n, "" is 0.           *)
(***************************************************************************)
EXTENDS Naturals, FiniteSets

CONSTANTS Requests,    \* requests of the application, each of which may be made again
          NULL,
          MaxPerHost,  \* maxRequestsPerHost of OkHttp's Dispatcher (5)
          MaxToken     \* bound of the model: how many tokens the backend issues

ASSUME TokenAssumption ==
  NULL \notin Requests /\ MaxPerHost \in Nat \ {0} /\ MaxToken \in Nat \ {0}

VARIABLES accessToken, refreshToken,   \* SharedPrefCommon
          pc, sent, retried, current,  \* of each request: where it is, the token in its header,
                                       \* whether it was repeated, currentRefreshToken
          lock,                        \* the monitor of TokenAuthenticator
          refreshCall, result,         \* the call of /auth/refresh, and what it returned
          sessionExpired,              \* the event is in the buffer
          ui, loginToken,              \* what the main thread shows or does, the last login's tokens
          accepted, usable, issued,    \* the backend: access and refresh tokens it takes
          renewed, refused, loggedOut  \* history, see the properties

prefs == <<accessToken, refreshToken>>
requests == <<pc, sent, retried, current>>
call == <<refreshCall, result>>
backend == <<accepted, usable, issued>>
main == <<ui, loginToken>>
history == <<renewed, refused, loggedOut>>
vars == <<prefs, requests, lock, call, sessionExpired, main, backend, history>>

None == 0                  \* the empty string
Tokens == 1 .. MaxToken
Stored == Tokens \union {None}
Failure == <<None, None>>  \* a result without tokens
Ended == {"done", "failed"}
Locked == {"refreshing", "storing", "finishing"}

TypeOK ==
  /\ accessToken \in Stored /\ refreshToken \in Stored
  /\ pc \in [Requests -> {"idle", "queued", "sent", "unauthorized", "expired", "waiting"}
                         \union Ended \union Locked]
  /\ sent \in [Requests -> Stored] /\ current \in [Requests -> Stored]
  /\ retried \in [Requests -> BOOLEAN]
  /\ \A r \in Requests : pc[r] \in Locked <=> lock = r
  /\ refreshCall \in {"none", "queued", "sent"} /\ result \in Stored \X Stored
  /\ sessionExpired \in BOOLEAN
  /\ ui \in {"home", "clearing", "login", "saving"} /\ loginToken \in Tokens
  /\ accepted \subseteq Tokens /\ usable \subseteq Tokens /\ issued \in Tokens
  /\ renewed \subseteq Stored /\ refused \in BOOLEAN /\ loggedOut \in BOOLEAN

Init ==
  /\ accessToken = 1 /\ refreshToken = 1
  /\ pc = [r \in Requests |-> "idle"] /\ retried = [r \in Requests |-> FALSE]
  /\ sent = [r \in Requests |-> None] /\ current = [r \in Requests |-> None]
  /\ lock = NULL /\ refreshCall = "none" /\ result = Failure
  /\ sessionExpired = FALSE /\ ui = "home" /\ loginToken = 1
  /\ accepted = {1} /\ usable = {1} /\ issued = 1
  /\ renewed = {} /\ refused = FALSE /\ loggedOut = FALSE

-----------------------------------------------------------------------------
\* OkHttp's dispatcher (external).
Running == {r \in Requests : pc[r] \notin Ended \union {"idle", "queued"}}
FreeSlot == Cardinality(Running) + (IF refreshCall = "sent" THEN 1 ELSE 0) < MaxPerHost

Enqueue(r) ==
  /\ ui = "home" /\ pc[r] \in Ended \union {"idle"}
  /\ pc' = [pc EXCEPT ![r] = "queued"]
  /\ UNCHANGED <<prefs, sent, retried, current, lock, call, sessionExpired, main, backend, history>>

\* AuthInterceptor: without a token the header is left out.
intercept(r) ==
  /\ pc[r] = "queued" /\ FreeSlot
  /\ pc' = [pc EXCEPT ![r] = "sent"]
  /\ sent' = [sent EXCEPT ![r] = accessToken] /\ retried' = [retried EXCEPT ![r] = FALSE]
  /\ UNCHANGED <<prefs, current, lock, call, sessionExpired, main, backend, history>>

\* The backend answers; to a 401 OkHttp calls authenticate, whose first test
\* ends a request that was repeated already.
Answer(r) ==
  /\ pc[r] = "sent"
  /\ pc' = [pc EXCEPT ![r] = IF sent[r] \in accepted THEN "done"
                             ELSE IF retried[r] THEN "failed" ELSE "unauthorized"]
  /\ UNCHANGED <<prefs, sent, retried, current, lock, call, sessionExpired, main, backend, history>>

-----------------------------------------------------------------------------
\* Plausible slips, each the `as' of a mutant.
NotSynchronized == TRUE
NeverRenewed(r) == FALSE /\ accessToken # sent[r]
NotSkipped == FALSE

-----------------------------------------------------------------------------
\* authenticate: the refresh token is read before the lock is taken.
ReadRefreshToken(r) ==
  /\ pc[r] = "unauthorized"
  /\ current' = [current EXCEPT ![r] = refreshToken]
  /\ pc' = [pc EXCEPT ![r] = IF refreshToken = None THEN "expired" ELSE "waiting"]
  /\ UNCHANGED <<prefs, sent, retried, lock, call, sessionExpired, main, backend, history>>

NotifyExpired(r) ==
  /\ pc[r] = "expired"
  /\ accessToken' = None /\ sessionExpired' = TRUE
  /\ pc' = [pc EXCEPT ![r] = "failed"]
  /\ UNCHANGED <<refreshToken, sent, retried, current, lock, call, main, backend, history>>

Repeat(r, t) ==
  /\ pc' = [pc EXCEPT ![r] = "sent"]
  /\ sent' = [sent EXCEPT ![r] = t] /\ retried' = [retried EXCEPT ![r] = TRUE]

LockFree == lock = NULL

\* Another thread has refreshed meanwhile.
RenewedByOther(r) == accessToken # None /\ accessToken # sent[r]

\* The lock is taken: the request is repeated with the latest token, or the
\* refresh is enqueued with the refresh token read before.
EnterLock(r) ==
  /\ pc[r] = "waiting" /\ LockFree
  /\ \/ /\ RenewedByOther(r)
        /\ Repeat(r, accessToken)
        /\ UNCHANGED <<lock, refreshCall, renewed>>
     \/ /\ ~RenewedByOther(r)
        /\ lock' = r /\ refreshCall' = "queued"
        /\ pc' = [pc EXCEPT ![r] = "refreshing"] /\ renewed' = renewed \union {sent[r]}
        /\ UNCHANGED <<sent, retried>>
  /\ UNCHANGED <<prefs, current, result, sessionExpired, main, backend, refused, loggedOut>>

DispatchRefresh ==
  /\ refreshCall = "queued" /\ FreeSlot /\ refreshCall' = "sent"
  /\ UNCHANGED <<prefs, requests, lock, result, sessionExpired, main, backend, history>>

\* A 401 to /auth/refresh itself is skipped by authenticate, which would wait
\* for the lock that the caller of the refresh holds.
SkipsRefresh == TRUE

\* The backend renews a token it can use, with a new refresh token in place of
\* the old one or without; the answer may be lost.  Otherwise it refuses: that
\* is noted in refused unless the token was used up by a refresh that succeeded.
RefreshAnswered(r) ==
  /\ pc[r] = "refreshing" /\ refreshCall = "sent"
  /\ refreshCall' = "none" /\ pc' = [pc EXCEPT ![r] = "storing"]
  /\ \/ /\ current[r] \in usable /\ issued < MaxToken /\ issued' = issued + 1
        /\ accepted' = accepted \union {issued'}
        /\ \E new \in {issued', None} :
             /\ usable' = IF new = None THEN usable ELSE (usable \ {current[r]}) \union {new}
             /\ \/ result' = <<issued', new>> /\ UNCHANGED refused
                \/ result' = Failure /\ refused' = TRUE
     \/ /\ current[r] \in usable
        /\ result' = Failure /\ refused' = TRUE /\ UNCHANGED backend
     \/ /\ current[r] \notin usable /\ SkipsRefresh
        /\ result' = Failure /\ UNCHANGED <<refused, backend>>
  /\ UNCHANGED <<prefs, sent, retried, current, lock, sessionExpired, main, renewed, loggedOut>>

\* The access token is stored, or cleared, and after it the refresh token,
\* which stays if the backend sent none.  Then the lock is left.
StoreAccessToken(r) ==
  /\ pc[r] = "storing"
  /\ accessToken' = result[1]
  /\ pc' = [pc EXCEPT ![r] = "finishing"]
  /\ UNCHANGED <<refreshToken, sent, retried, current, lock, call, sessionExpired, main, backend, history>>

StoreRefreshToken(r) ==
  /\ pc[r] = "finishing"
  /\ lock' = NULL /\ result' = Failure
  /\ \/ /\ result = Failure
        /\ refreshToken' = None /\ sessionExpired' = TRUE
        /\ pc' = [pc EXCEPT ![r] = "failed"] /\ UNCHANGED <<sent, retried>>
     \/ /\ result # Failure
        /\ refreshToken' = IF result[2] = None THEN refreshToken ELSE result[2]
        /\ Repeat(r, result[1]) /\ UNCHANGED sessionExpired
  /\ UNCHANGED <<accessToken, current, refreshCall, main, backend, history>>

-----------------------------------------------------------------------------
\* clearSession, two writes, on logout (UserProfileActivity) and when the event
\* of an expired session reaches the main thread (GlobalApp).
Logout ==
  /\ ui = "home" /\ ui' = "clearing"
  /\ accessToken' = None /\ loggedOut' = TRUE
  /\ UNCHANGED <<loginToken, refreshToken, requests, lock, call, sessionExpired, backend, renewed, refused>>

navigateToLogin ==
  /\ sessionExpired /\ ui \in {"home", "login"}
  /\ sessionExpired' = FALSE /\ accessToken' = None /\ ui' = "clearing"
  /\ UNCHANGED <<loginToken, refreshToken, requests, lock, call, backend, history>>

clearSession ==
  /\ ui = "clearing" /\ ui' = "login"
  /\ refreshToken' = None
  /\ UNCHANGED <<loginToken, accessToken, requests, lock, call, sessionExpired, backend, history>>

\* The answer to a login arrives; saveSession of LoginFragment stores its tokens.
Login ==
  /\ ui = "login" /\ issued < MaxToken /\ ui' = "saving"
  /\ issued' = issued + 1
  /\ accepted' = accepted \union {issued'} /\ usable' = usable \union {issued'}
  /\ accessToken' = issued' /\ loginToken' = issued'
  /\ UNCHANGED <<refreshToken, requests, lock, call, sessionExpired, history>>

saveSession ==
  /\ ui = "saving" /\ ui' = "home"
  /\ refreshToken' = loginToken
  /\ UNCHANGED <<loginToken, accessToken, requests, lock, call, sessionExpired, backend, history>>

\* Time passes at the backend (external).  An access token lives longer than it
\* takes to store the two tokens it came with.
Expire ==
  /\ \A r \in Requests : pc[r] \notin {"storing", "finishing"}
  /\ \E t \in accepted : accepted' = accepted \ {t}
  /\ UNCHANGED <<prefs, requests, lock, call, sessionExpired, main, usable, issued, history>>

Thread(r) == \/ intercept(r) \/ Answer(r) \/ ReadRefreshToken(r) \/ NotifyExpired(r)
             \/ RefreshAnswered(r) \/ StoreAccessToken(r) \/ StoreRefreshToken(r)

Next == \/ \E r \in Requests : Enqueue(r) \/ Thread(r) \/ EnterLock(r)
        \/ DispatchRefresh
        \/ Logout \/ navigateToLogin \/ clearSession \/ Login \/ saveSession
        \/ Expire

Spec == Init /\ [][Next]_vars

\* Threads run and every request is answered (or times out); a thread that wants
\* the monitor gets it if it becomes free again and again.
Fairness == /\ \A r \in Requests : WF_vars(Thread(r)) /\ SF_vars(EnterLock(r))
            /\ WF_vars(DispatchRefresh) /\ WF_vars(clearSession) /\ WF_vars(saveSession)

FairSpec == Spec /\ Fairness

-----------------------------------------------------------------------------
(***************************************************************************)
(* Requests that fail at the same time never log the user out: until he    *)
(* logs out himself, or a refresh is refused or lost that was not doomed   *)
(* by an earlier one, there are tokens.  A refresh token sent twice would  *)
(* be refused the second time and clear them.                              *)
(***************************************************************************)
SessionKept == ~loggedOut /\ ~refused => accessToken # None /\ refreshToken # None

(***************************************************************************)
(* "Many requests with 401 at the same time refresh only once", the KDoc   *)
(* of TokenAuthenticator, while no refresh fails and nobody logs out: an   *)
(* access token is renewed at most once.                                   *)
(***************************************************************************)
RefreshOnce ==
  [][refreshCall = "none" /\ refreshCall' = "queued"
       => sent[lock'] \notin renewed \/ refused \/ loggedOut]_vars

(***************************************************************************)
(* Every request ends, those that wait for the refresh of another included:*)
(* "the ones after it see the new token and retry at once".                *)
(***************************************************************************)
EveryRequestEnds == \A r \in Requests : pc[r] = "queued" ~> pc[r] \in Ended
=============================================================================
