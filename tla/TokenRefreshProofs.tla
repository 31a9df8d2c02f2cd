------------------------- MODULE TokenRefreshProofs -------------------------
(***************************************************************************)
(* Theorems about TokenRefresh, for any number of requests, of places in   *)
(* the dispatcher and of tokens: its type invariant, that requests which   *)
(* fail together do not end the session, and that they refresh once.       *)
(*                                                                         *)
(* The refresh token is read before the lock is taken and may be used up   *)
(* by then.  It is safe because the access token is compared under the     *)
(* lock: a thread whose access token is still the stored one has read the  *)
(* refresh token that is still stored.  This needs that the access token   *)
(* is written first, and that it is accepted until the other is written.   *)
(***************************************************************************)
EXTENDS TokenRefresh, TLAPS

\* So far the tokens were only renewed: no logout, and no refresh that was lost or refused
\* for a reason of its own.
Undisturbed == ~loggedOut /\ ~refused

Places == {"idle", "queued", "sent", "unauthorized", "expired", "waiting"}
            \union Ended \union Locked

Storing(r) == pc[r] \in {"storing", "finishing"}

\* Nobody has been, or is about to be, sent to the login.
StillIn ==
  /\ ui = "home" /\ ~sessionExpired
  /\ accessToken # None /\ refreshToken # None
  /\ \A r \in Requests : pc[r] # "expired"

\* Access tokens are renewed in the order they are issued.
AccessInOrder ==
  /\ accessToken <= issued
  /\ \A r \in Requests :
       /\ sent[r] <= accessToken
       /\ pc[r] = "refreshing" => sent[r] = accessToken
       /\ pc[r] = "storing" => result[1] = issued /\ accessToken < issued
       /\ pc[r] = "finishing" => result[1] = accessToken
       /\ Storing(r) => result[1] \in accepted

\* Between the two writes no request waits that was refused with the new token.
NotRefusedYet ==
  \A r, q \in Requests :
    pc[r] = "finishing" /\ pc[q] \in {"unauthorized", "waiting"} => sent[q] # accessToken

\* The refresh token read by a thread whose access token is not outdated is not outdated.
RefreshNotStale ==
  /\ (\A r \in Requests : ~Storing(r)) => refreshToken \in usable
  /\ \A r \in Requests :
       Storing(r) => IF result[2] = None THEN refreshToken \in usable ELSE result[2] \in usable
  /\ \A q \in Requests : pc[q] \in {"waiting", "refreshing"} /\ sent[q] = accessToken =>
       current[q] = refreshToken

\* The access token that is stored is in renewed only while its refresh goes on.
RenewedBefore ==
  /\ \A t \in renewed : t <= accessToken
  /\ accessToken \in renewed => \E r \in Requests : pc[r] \in {"refreshing", "storing"}

TokensInOrder ==
  Undisturbed => StillIn /\ AccessInOrder /\ NotRefusedYet /\ RefreshNotStale /\ RenewedBefore

\* The refresh is a call of the thread that has the lock.
CallInLock == refreshCall # "none" => \E r \in Requests : pc[r] = "refreshing"

TInv == TypeOK /\ CallInLock /\ TokensInOrder

-----------------------------------------------------------------------------
\* The tokens of a session that has just been read from the preferences.
LEMMA InitTInv == Init => TInv
<1> SUFFICES ASSUME Init PROVE TInv
    OBVIOUS
<1> USE TokenAssumption DEF Init, Places, Tokens, Stored, None, Failure, Locked, Ended
<1>1. TypeOK
  <2>1. pc \in [Requests -> Places]
    OBVIOUS
  <2>2. /\ sent \in [Requests -> Stored] /\ current \in [Requests -> Stored]
        /\ retried \in [Requests -> BOOLEAN]
    OBVIOUS
  <2>3. \A r \in Requests : pc[r] \in Locked <=> lock = r OBVIOUS
  <2>4. 1 \in Tokens OBVIOUS
  <2>5. /\ accessToken \in Stored /\ refreshToken \in Stored /\ loginToken \in Tokens
        /\ accepted \subseteq Tokens /\ usable \subseteq Tokens /\ issued \in Tokens
    BY <2>4
  <2>6. /\ refreshCall \in {"none", "queued", "sent"} /\ result \in Stored \X Stored
        /\ sessionExpired \in BOOLEAN /\ ui \in {"home", "clearing", "login", "saving"}
        /\ renewed \subseteq Stored /\ refused \in BOOLEAN /\ loggedOut \in BOOLEAN
    OBVIOUS
  <2> QED BY <2>1, <2>2, <2>3, <2>5, <2>6 DEF TypeOK
<1>2. CallInLock BY DEF CallInLock
<1>3. TokensInOrder
  BY DEF TokensInOrder, StillIn, AccessInOrder, NotRefusedYet, RefreshNotStale, RenewedBefore,
     Storing
<1> QED BY <1>1, <1>2, <1>3 DEF TInv

\* The steps by who makes them: a request, the backend for the one that has the lock, the
\* main thread.
LEMMA NextType ==
  ASSUME TInv, [Next]_vars
  PROVE  TypeOK'
<1> USE TokenAssumption DEF Places, Tokens, Stored, None, Failure, Locked, Ended, prefs,
      requests, call,
        backend, main, history
<1>1. TypeOK BY DEF TInv
<1>2. ASSUME NEW r \in Requests, Enqueue(r) PROVE TypeOK' BY <1>1, <1>2 DEF Enqueue, TypeOK
<1>3. ASSUME NEW r \in Requests, intercept(r) PROVE TypeOK' BY <1>1, <1>3 DEF intercept, TypeOK
<1>4. ASSUME NEW r \in Requests, Answer(r) PROVE TypeOK' BY <1>1, <1>4 DEF Answer, TypeOK
<1>5. ASSUME NEW r \in Requests, ReadRefreshToken(r) PROVE TypeOK'
  BY <1>1, <1>5 DEF ReadRefreshToken, TypeOK
<1>6. ASSUME NEW r \in Requests, NotifyExpired(r) PROVE TypeOK'
  BY <1>1, <1>6 DEF NotifyExpired, TypeOK
<1>7. ASSUME NEW r \in Requests, EnterLock(r) PROVE TypeOK'
  <2>1. lock = NULL /\ pc[r] = "waiting" BY <1>7 DEF EnterLock, LockFree
  <2>2. CASE Repeat(r, accessToken) /\ UNCHANGED <<lock, refreshCall, renewed>>
    BY <1>1, <1>7, <2>1, <2>2 DEF EnterLock, Repeat, TypeOK
  <2>3. CASE /\ lock' = r /\ refreshCall' = "queued" /\ pc' = [pc EXCEPT ![r] = "refreshing"]
             /\ renewed' = renewed \union {sent[r]} /\ UNCHANGED <<sent, retried>>
    <3>1. \A q \in Requests : pc'[q] \in Locked <=> lock' = q BY <1>1, <2>1, <2>3 DEF TypeOK
    <3>2. /\ pc' \in [Requests -> Places]
          /\ renewed' \subseteq Stored
      BY <1>1, <2>3 DEF TypeOK
    <3> QED BY <1>1, <1>7, <2>3, <3>1, <3>2 DEF EnterLock, TypeOK
  <2> QED BY <1>7, <2>2, <2>3 DEF EnterLock
<1>8. ASSUME NEW r \in Requests, RefreshAnswered(r) PROVE TypeOK'
  <2>1. /\ pc' \in [Requests -> Places]
        /\ \A q \in Requests : pc'[q] \in Locked <=> lock' = q
    BY <1>1, <1>8 DEF RefreshAnswered, TypeOK
  <2>2. refused' \in BOOLEAN /\ refreshCall' \in {"none", "queued", "sent"}
    BY <1>1, <1>8 DEF RefreshAnswered, TypeOK
  <2>3. UNCHANGED <<prefs, sent, retried, current, lock, sessionExpired, main, renewed, loggedOut>>
    BY <1>8 DEF RefreshAnswered
  <2>4. CASE UNCHANGED backend /\ result' = Failure
    BY <1>1, <2>1, <2>2, <2>3, <2>4 DEF TypeOK
  <2>5. CASE /\ issued < MaxToken /\ issued' = issued + 1 /\ accepted' = accepted \union {issued'}
             /\ \E new \in {issued', None} :
                  /\ usable' = IF new = None THEN usable ELSE (usable \ {current[r]}) \union {new}
                  /\ result' \in {<<issued', new>>, Failure}
    <3>1. issued' \in Tokens BY <1>1, <2>5 DEF TypeOK
    <3>2. PICK new \in {issued', None} :
            /\ usable' = IF new = None THEN usable ELSE (usable \ {current[r]}) \union {new}
            /\ result' \in {<<issued', new>>, Failure}
      BY <2>5
    <3>3. accepted' \subseteq Tokens /\ usable' \subseteq Tokens
      BY <1>1, <2>5, <3>1, <3>2, ZenonT(60) DEF TypeOK
    <3>4. result' \in Stored \X Stored BY <3>1, <3>2
    <3> QED BY <1>1, <2>1, <2>2, <2>3, <3>1, <3>3, <3>4 DEF TypeOK
  <2> QED BY <1>8, <2>4, <2>5 DEF RefreshAnswered
<1>9. ASSUME NEW r \in Requests, StoreAccessToken(r) PROVE TypeOK'
  BY <1>1, <1>9 DEF StoreAccessToken, TypeOK
<1>10. ASSUME NEW r \in Requests, StoreRefreshToken(r) PROVE TypeOK'
  <2>1. /\ pc' \in [Requests -> Places]
        /\ \A q \in Requests : pc'[q] \in Locked <=> lock' = q
    BY <1>1, <1>10 DEF StoreRefreshToken, Repeat, TypeOK
  <2>2. /\ sent' \in [Requests -> Stored] /\ retried' \in [Requests -> BOOLEAN]
        /\ refreshToken' \in Stored /\ result' \in Stored \X Stored /\ sessionExpired' \in BOOLEAN
    BY <1>1, <1>10 DEF StoreRefreshToken, Repeat, TypeOK
  <2> QED BY <1>1, <1>10, <2>1, <2>2 DEF StoreRefreshToken, TypeOK
<1>11. CASE DispatchRefresh BY <1>1, <1>11 DEF DispatchRefresh, TypeOK
<1>12. CASE Logout \/ navigateToLogin \/ clearSession \/ saveSession
  BY <1>1, <1>12, ZenonT(60) DEF Logout, navigateToLogin, clearSession, saveSession, TypeOK
<1>15. CASE Login
  <2>1. issued' \in Tokens BY <1>1, <1>15 DEF Login, TypeOK
  <2> QED BY <1>1, <1>15, <2>1 DEF Login, TypeOK
<1>13. CASE Expire BY <1>1, <1>13 DEF Expire, TypeOK
<1>14. CASE UNCHANGED vars BY <1>1, <1>14 DEF vars, TypeOK
<1> QED BY <1>2, <1>3, <1>4, <1>5, <1>6, <1>7, <1>8, <1>9, <1>10, <1>11, <1>12, <1>13, <1>14, <1>15
   DEF Next, Thread

\* Only the thread in the lock starts a refresh, and it waits for the answer.
LEMMA NextCallInLock ==
  ASSUME TInv, [Next]_vars
  PROVE  CallInLock'
<1> USE DEF CallInLock, prefs, requests, call, backend, main, history
<1>1. TypeOK /\ CallInLock /\ pc \in [Requests -> Places] BY DEF TInv, TypeOK, Places
<1>2. ASSUME NEW r \in Requests, NEW s, pc' = [pc EXCEPT ![r] = s], pc[r] # "refreshing",
             refreshCall' = refreshCall
      PROVE  CallInLock'
  BY <1>1, <1>2
<1>3. ASSUME NEW r \in Requests, Enqueue(r) \/ Thread(r) \/ EnterLock(r) PROVE CallInLock'
  <2>1. CASE Enqueue(r) \/ intercept(r) \/ Answer(r) \/ ReadRefreshToken(r) \/ NotifyExpired(r)
             \/ StoreAccessToken(r)
    BY <1>2, <2>1 DEF Enqueue, intercept, Answer, ReadRefreshToken, NotifyExpired,
       StoreAccessToken, Ended
  <2>2. CASE StoreRefreshToken(r) BY <1>2, <2>2 DEF StoreRefreshToken, Repeat
  <2>3. CASE RefreshAnswered(r) BY <2>3 DEF RefreshAnswered
  <2>4. CASE EnterLock(r) BY <1>1, <1>2, <2>4 DEF EnterLock, Repeat
  <2> QED BY <1>3, <2>1, <2>2, <2>3, <2>4 DEF Thread
<1>4. CASE DispatchRefresh BY <1>1, <1>4 DEF DispatchRefresh
<1>5. CASE Logout \/ navigateToLogin \/ clearSession \/ Login \/ saveSession \/ Expire
  BY <1>1, <1>5 DEF Logout, navigateToLogin, clearSession, Login, saveSession, Expire
<1>6. CASE UNCHANGED vars BY <1>1, <1>6 DEF vars
<1> QED BY <1>3, <1>4, <1>5, <1>6 DEF Next

-----------------------------------------------------------------------------
(* TokensInOrder, while nothing disturbs the session. *)

\* What a thread does outside of the lock: it must not end up unauthorized with a token that
\* is being stored, and must have read the refresh token that is stored.
LEMMA RequestMoves ==
  ASSUME TInv, Undisturbed, NEW r \in Requests,
         pc[r] \notin Locked, pc'[r] \in Places \ (Locked \union {"expired"}),
         sent'[r] \in {sent[r], accessToken},
         \A q \in Requests \ {r} : pc'[q] = pc[q] /\ sent'[q] = sent[q] /\ current'[q] = current[q],
         UNCHANGED <<prefs, result, sessionExpired, main, backend, renewed>>,
         pc'[r] = "unauthorized" /\ sent'[r] \in accepted => sent'[r] # accessToken,
         pc'[r] = "waiting" =>
           pc[r] = "unauthorized" /\ sent'[r] = sent[r] /\ current'[r] = refreshToken
  PROVE  /\ StillIn' /\ AccessInOrder' /\ NotRefusedYet'
                     /\ RefreshNotStale' /\ RenewedBefore'
<1> USE DEF Locked, Places, prefs, main, backend
<1>1. StillIn /\ AccessInOrder /\ NotRefusedYet /\ RefreshNotStale /\ RenewedBefore
  BY DEF TInv, TokensInOrder
<1>2. /\ pc \in [Requests -> Places] /\ accessToken \in Nat /\ issued \in Nat
      /\ sent \in [Requests -> Stored] /\ current \in [Requests -> Stored]
  BY TokenAssumption DEF TInv, TypeOK, Stored, Tokens, None
<1>3. \A q \in Requests : /\ pc'[q] \in Locked <=> pc[q] \in Locked
                          /\ pc[q] \in Locked =>
                                pc'[q] = pc[q] /\ sent'[q] = sent[q] /\ current'[q] = current[q]
                          /\ Storing(q)' <=> Storing(q)
  BY <1>2 DEF Storing
<1>4. StillIn' BY <1>1, <1>2 DEF StillIn
<1>5. AccessInOrder'
  BY <1>1, <1>2, <1>3 DEF AccessInOrder, Storing
<1>6. NotRefusedYet'
  BY <1>1, <1>2, <1>3 DEF NotRefusedYet, AccessInOrder, Storing
<1>7. RefreshNotStale'
  BY <1>1, <1>2, <1>3 DEF RefreshNotStale
<1>8. RenewedBefore' BY <1>1, <1>2, <1>3 DEF RenewedBefore
<1> QED BY <1>4, <1>5, <1>6, <1>7, <1>8

\* The steps of a request outside the lock change no token.
LEMMA RequestTokens ==
  ASSUME TInv, Undisturbed, NEW r \in Requests,
         Enqueue(r) \/ intercept(r) \/ Answer(r) \/ ReadRefreshToken(r)
  PROVE  /\ StillIn' /\ AccessInOrder' /\ NotRefusedYet'
                     /\ RefreshNotStale' /\ RenewedBefore'
<1> USE DEF Places, Locked, Ended, call, history
<1>1. /\ sent \in [Requests -> Stored] /\ current \in [Requests -> Stored]
      /\ accessToken # None /\ refreshToken # None
  BY DEF TInv, TypeOK, TokensInOrder, StillIn
<1>2. pc \in [Requests -> Places] BY DEF TInv, TypeOK
<1>3. CASE Enqueue(r) BY <1>1, <1>2, <1>3, RequestMoves DEF Enqueue
<1>4. CASE intercept(r) BY <1>1, <1>2, <1>4, RequestMoves DEF intercept
<1>5. CASE Answer(r)
  BY <1>1, <1>2, <1>5, RequestMoves DEF Answer
<1>6. CASE ReadRefreshToken(r)
  BY <1>1, <1>2, <1>6, RequestMoves DEF ReadRefreshToken
<1> QED BY <1>3, <1>4, <1>5, <1>6

\* Whoever gets the lock with the stored access token has read the stored refresh token.
LEMMA EnterLockTokens ==
  ASSUME TInv, Undisturbed, NEW r \in Requests, EnterLock(r)
  PROVE  /\ StillIn' /\ AccessInOrder' /\ NotRefusedYet'
                     /\ RefreshNotStale' /\ RenewedBefore'
<1> USE DEF Places, Locked, LockFree
<1>1. /\ sent \in [Requests -> Stored] /\ pc \in [Requests -> Places]
      /\ pc[r] = "waiting" /\ lock = NULL
      /\ StillIn /\ AccessInOrder /\ NotRefusedYet /\ RefreshNotStale /\ RenewedBefore
  BY DEF TInv, TypeOK, TokensInOrder, EnterLock
<1>2. CASE RenewedByOther(r) /\ Repeat(r, accessToken) /\ UNCHANGED renewed
  BY <1>1, <1>2, RequestMoves DEF EnterLock, Repeat
<1>3. CASE /\ ~RenewedByOther(r) /\ lock' = r /\ pc' = [pc EXCEPT ![r] = "refreshing"]
           /\ renewed' = renewed \union {sent[r]} /\ UNCHANGED sent
  <2> USE DEF prefs, main, backend
  <2>1. UNCHANGED <<prefs, sent, current, result, sessionExpired, main, backend>>
    BY <1>3 DEF EnterLock
  <2>2. sent[r] = accessToken BY <1>1, <1>3 DEF RenewedByOther, StillIn
  <2>3. \A q \in Requests : ~Storing(q) /\ ~Storing(q)'
    <3>1. \A q \in Requests : pc[q] \notin Locked
      BY <1>1, TokenAssumption DEF TInv, TypeOK
    <3> QED BY <1>1, <1>3, <3>1 DEF Storing
  <2>4. StillIn' BY <1>1, <1>3, <2>1 DEF StillIn
  <2>5. AccessInOrder' BY <1>1, <1>3, <2>1, <2>2, <2>3 DEF AccessInOrder, Storing
  <2>6. NotRefusedYet' BY <1>1, <1>3, <2>1, <2>3 DEF NotRefusedYet, Storing
  <2>7. RefreshNotStale' BY <1>1, <1>3, <2>1, <2>2, <2>3 DEF RefreshNotStale
  <2>8. RenewedBefore' BY <1>1, <1>3, <2>1, <2>2 DEF RenewedBefore, AccessInOrder
  <2> QED BY <2>4, <2>5, <2>6, <2>7, <2>8
<1> QED BY <1>2, <1>3 DEF EnterLock

\* The refresh token sent is the stored one, which can be used: only the network can lose
\* the answer, or the backend refuse, and then the session is no longer undisturbed.
LEMMA AnsweredTokens ==
  ASSUME TInv, Undisturbed, Undisturbed', NEW r \in Requests, RefreshAnswered(r)
  PROVE  /\ StillIn' /\ AccessInOrder' /\ NotRefusedYet'
                     /\ RefreshNotStale' /\ RenewedBefore'
<1> USE DEF Places, Locked, prefs, main
<1>1. /\ pc \in [Requests -> Places] /\ pc[r] = "refreshing" /\ pc' = [pc EXCEPT ![r] = "storing"]
      /\ StillIn /\ AccessInOrder /\ NotRefusedYet /\ RefreshNotStale /\ RenewedBefore
      /\ \A q \in Requests \ {r} : pc[q] \notin Locked
      /\ issued \in Nat /\ accessToken \in Nat
  BY TokenAssumption DEF TInv, TypeOK, TokensInOrder, RefreshAnswered, Tokens, Stored, None
<1>2. UNCHANGED <<prefs, sent, current, sessionExpired, main, renewed>> BY DEF RefreshAnswered
<1>3. current[r] \in usable BY <1>1 DEF AccessInOrder, RefreshNotStale, Storing
<1>4. PICK new \in {issued', None} :
        /\ issued' = issued + 1 /\ accepted' = accepted \union {issued'}
        /\ usable' = IF new = None THEN usable ELSE (usable \ {current[r]}) \union {new}
        /\ result' = <<issued', new>>
  BY <1>3 DEF RefreshAnswered, Undisturbed
<1>5. result'[1] = issued' /\ result'[2] = new BY <1>4
<1>6. \A q \in Requests : Storing(q)' <=> q = r BY <1>1 DEF Storing
<1>7. \A q \in Requests : ~Storing(q) BY <1>1 DEF Storing
<1>8. StillIn' BY <1>1, <1>2 DEF StillIn
<1>9. AccessInOrder' BY <1>1, <1>2, <1>4, <1>5, <1>6 DEF AccessInOrder, Storing
<1>10. NotRefusedYet' BY <1>1 DEF NotRefusedYet
<1>11. RefreshNotStale'
  BY <1>1, <1>2, <1>4, <1>5, <1>6, <1>7 DEF RefreshNotStale
<1>12. RenewedBefore' BY <1>1, <1>2 DEF RenewedBefore
<1> QED BY <1>8, <1>9, <1>10, <1>11, <1>12

\* The access token that is written has not been sent yet.
LEMMA AccessStoredTokens ==
  ASSUME TInv, Undisturbed, NEW r \in Requests, StoreAccessToken(r)
  PROVE  /\ StillIn' /\ AccessInOrder' /\ NotRefusedYet'
                     /\ RefreshNotStale' /\ RenewedBefore'
<1> USE DEF Places, Locked, main, call, backend, history
<1>1. /\ pc \in [Requests -> Places] /\ pc[r] = "storing" /\ pc' = [pc EXCEPT ![r] = "finishing"]
      /\ StillIn /\ AccessInOrder /\ NotRefusedYet /\ RefreshNotStale /\ RenewedBefore
      /\ \A q \in Requests \ {r} : pc[q] \notin Locked
      /\ issued \in Nat \ {0} /\ accessToken \in Nat /\ \A q \in Requests : sent[q] \in Nat
      /\ \A t \in renewed : t \in Nat
  BY TokenAssumption DEF TInv, TypeOK, TokensInOrder, StoreAccessToken, Tokens, Stored, None
<1>2. UNCHANGED <<refreshToken, sent, current, call, sessionExpired, main, backend, renewed>>
  BY DEF StoreAccessToken
<1>3. accessToken' = issued /\ accessToken < issued /\ result[1] = issued /\ issued \in accepted
  BY <1>1 DEF StoreAccessToken, AccessInOrder, Storing
<1>4. \A q \in Requests : sent[q] # issued BY <1>1, <1>3 DEF AccessInOrder
<1>5. \A q \in Requests : Storing(q)' <=> Storing(q) BY <1>1 DEF Storing
<1>6. StillIn' BY <1>1, <1>2, <1>3 DEF StillIn, None
<1>7. AccessInOrder' BY <1>1, <1>2, <1>3, <1>5 DEF AccessInOrder, Storing
<1>8. NotRefusedYet' BY <1>2, <1>3, <1>4 DEF NotRefusedYet
<1>9. RefreshNotStale' BY <1>1, <1>2, <1>3, <1>4, <1>5 DEF RefreshNotStale, Storing
<1>10. RenewedBefore' BY <1>1, <1>2, <1>3 DEF RenewedBefore
<1> QED BY <1>6, <1>7, <1>8, <1>9, <1>10

\* The refresh token is written when nobody waits who would not see the new access token.
LEMMA RefreshStoredTokens ==
  ASSUME TInv, Undisturbed, NEW r \in Requests, StoreRefreshToken(r)
  PROVE  /\ StillIn' /\ AccessInOrder' /\ NotRefusedYet'
                     /\ RefreshNotStale' /\ RenewedBefore'
<1> USE DEF Places, Locked, main, backend, history
<1>1. /\ pc \in [Requests -> Places] /\ pc[r] = "finishing" /\ sent \in [Requests -> Stored]
      /\ StillIn /\ AccessInOrder /\ NotRefusedYet /\ RefreshNotStale /\ RenewedBefore
      /\ \A q \in Requests \ {r} : pc[q] \notin Locked
      /\ accessToken \in Nat /\ 0 \notin usable
  BY TokenAssumption DEF TInv, TypeOK, TokensInOrder, StoreRefreshToken, Tokens, Stored, None
<1>2. result # Failure
  BY <1>1 DEF AccessInOrder, StillIn, Failure
<1>3. /\ pc' = [pc EXCEPT ![r] = "sent"] /\ sent' = [sent EXCEPT ![r] = accessToken]
      /\ refreshToken' = IF result[2] = None THEN refreshToken ELSE result[2]
      /\ UNCHANGED <<accessToken, current, main, backend, sessionExpired, renewed>>
  BY <1>1, <1>2 DEF StoreRefreshToken, Repeat, AccessInOrder
<1>4. refreshToken' \in usable /\ refreshToken' # None
  BY <1>1, <1>3 DEF RefreshNotStale, Storing, None
<1>5. \A q \in Requests : ~Storing(q)' /\ pc'[q] \notin {"refreshing", "storing"}
  BY <1>1, <1>3 DEF Storing
<1>6. StillIn' BY <1>1, <1>3, <1>4 DEF StillIn
<1>7. AccessInOrder' BY <1>1, <1>3, <1>5 DEF AccessInOrder, Storing
<1>8. NotRefusedYet' BY <1>5 DEF NotRefusedYet, Storing
<1>9. RefreshNotStale'
  <2>1. \A q \in Requests : pc'[q] \in {"waiting", "refreshing"} => sent'[q] # accessToken'
    BY <1>1, <1>3, <1>5 DEF NotRefusedYet
  <2> QED BY <1>3, <1>4, <1>5, <2>1 DEF RefreshNotStale
<1>10. RenewedBefore'
  <2>1. accessToken \notin renewed BY <1>1 DEF RenewedBefore
  <2> QED BY <1>1, <1>3, <2>1 DEF RenewedBefore
<1> QED BY <1>6, <1>7, <1>8, <1>9, <1>10

\* Every step of an undisturbed session keeps its tokens in order.
LEMMA NextTokens ==
  ASSUME TInv, [Next]_vars
  PROVE  TokensInOrder'
<1> SUFFICES ASSUME Undisturbed'
             PROVE  /\ StillIn' /\ AccessInOrder' /\ NotRefusedYet'
                     /\ RefreshNotStale' /\ RenewedBefore'
  BY DEF TokensInOrder
<1> USE DEF history
<1>1. Undisturbed
  <2>1. TypeOK BY DEF TInv
  <2>2. refused => refused'
    BY DEF Next, Enqueue, Thread, intercept, Answer, ReadRefreshToken, NotifyExpired,
       EnterLock, RefreshAnswered, StoreAccessToken, StoreRefreshToken, DispatchRefresh, Logout,
       navigateToLogin, clearSession, Login, saveSession, Expire, vars
  <2>3. loggedOut => loggedOut'
    BY DEF Next, Enqueue, Thread, intercept, Answer, ReadRefreshToken, NotifyExpired,
       EnterLock, RefreshAnswered, StoreAccessToken, StoreRefreshToken, DispatchRefresh, Logout,
       navigateToLogin, clearSession, Login, saveSession, Expire, vars
  <2> QED BY <2>2, <2>3 DEF Undisturbed
<1>2. StillIn /\ AccessInOrder /\ NotRefusedYet /\ RefreshNotStale /\ RenewedBefore
  BY <1>1 DEF TInv, TokensInOrder
<1>3. ASSUME UNCHANGED <<prefs, pc, sent, current, result, sessionExpired, main, usable,
                       issued, renewed>>,
             accepted' = accepted \/ \A r \in Requests : ~Storing(r)
      PROVE  /\ StillIn' /\ AccessInOrder' /\ NotRefusedYet'
                     /\ RefreshNotStale' /\ RenewedBefore'
  BY <1>2, <1>3 DEF StillIn, AccessInOrder, NotRefusedYet, RefreshNotStale, RenewedBefore,
     Storing,
     prefs, main
<1>4. ASSUME NEW r \in Requests, NotifyExpired(r) PROVE FALSE
  BY <1>2, <1>4 DEF NotifyExpired, StillIn
<1>5. CASE Logout BY <1>5 DEF Logout, Undisturbed
<1>6. CASE navigateToLogin \/ clearSession \/ Login \/ saveSession
  BY <1>2, <1>6 DEF navigateToLogin, clearSession, Login, saveSession, StillIn
<1>7. CASE DispatchRefresh BY <1>3, <1>7 DEF DispatchRefresh, requests, backend
<1>8. CASE Expire BY <1>3, <1>8 DEF Expire, requests, call, Storing
<1>9. CASE UNCHANGED vars BY <1>3, <1>9 DEF vars, requests, call, backend
<1> QED BY <1>1, <1>4, <1>5, <1>6, <1>7, <1>8, <1>9, RequestTokens, EnterLockTokens,
     AnsweredTokens, AccessStoredTokens, RefreshStoredTokens DEF Next, Thread

-----------------------------------------------------------------------------
\* The invariant holds in every state the program reaches.
LEMMA Inductive == Spec => []TInv
<1>1. TInv /\ [Next]_vars => TInv' BY NextType, NextCallInLock, NextTokens DEF TInv
<1> QED BY <1>1, InitTInv, PTL DEF Spec

\* Every variable has its type, and who is in the lock is who holds it.
THEOREM TypeCorrect == Spec => []TypeOK
BY Inductive, PTL DEF TInv

\* Requests that fail together, however their refreshes interleave, do not end the session.
THEOREM SessionIsKept == Spec => []SessionKept
<1>1. TInv => SessionKept BY DEF TInv, TokensInOrder, Undisturbed, StillIn, SessionKept
<1> QED BY <1>1, Inductive, PTL

\* An access token is renewed at most once, as long as no refresh fails and nobody logs out.
THEOREM RefreshedOnce == Spec => RefreshOnce
<1>1. TInv /\ [Next]_vars =>
        [refreshCall = "none" /\ refreshCall' = "queued"
           => sent[lock'] \notin renewed \/ refused \/ loggedOut]_vars
  <2> SUFFICES ASSUME TInv, Next, refreshCall = "none", refreshCall' = "queued", Undisturbed
               PROVE  sent[lock'] \notin renewed
    BY DEF Undisturbed
  <2>1. PICK r \in Requests : EnterLock(r) /\ lock' = r
    BY DEF Next, Enqueue, Thread, intercept, Answer, ReadRefreshToken, NotifyExpired, EnterLock,
       RefreshAnswered, StoreAccessToken, StoreRefreshToken, DispatchRefresh, Logout,
       navigateToLogin, clearSession, Login, saveSession, Expire, call
  <2>2. StillIn /\ AccessInOrder /\ RenewedBefore BY DEF TInv, TokensInOrder
  <2>3. sent[r] = accessToken BY <2>1, <2>2 DEF EnterLock, RenewedByOther, StillIn
  <2>4. \A q \in Requests : pc[q] \notin {"refreshing", "storing"}
    BY <2>1, TokenAssumption DEF EnterLock, LockFree, TInv, TypeOK, Locked
  <2> QED BY <2>1, <2>2, <2>3, <2>4 DEF RenewedBefore
<1> QED BY <1>1, Inductive, PTL DEF Spec, RefreshOnce
=============================================================================
