------------------------------- MODULE Reauth --------------------------------
(***************************************************************************)
(* The frontend's baseQueryWithReauth: the requests of one page, which     *)
(* share the stored credentials and a mutex around their renewal, and      *)
(* AuthService.refreshToken on the server.                                 *)
(*                                                                         *)
(* A session stands for the pair of tokens that was issued with it.  The   *)
(* page runs one task at a time: what follows a response, up to the        *)
(* sending of the next request, is one step, and so is the release of the  *)
(* mutex with the sends of all that wait for it.  Network and time are     *)
(* external.  A request is made once; its endpoint may be a public one.    *)
(***************************************************************************)
EXTENDS Integers

CONSTANTS
    Req,    \* the requests of the page
    Me,     \* those of getMe, which clears the credentials when it fails
    Login,  \* those of login, which stores the credentials it is given
    NoReq

ASSUME ReqAssumption == Me \subseteq Req /\ Login \subseteq Req /\ Me \intersect Login = {}
ASSUME NoReqAssumption == NoReq \notin Req

VARIABLES
    phase,      \* where a request is in baseQueryWithReauth
    token,      \* the session whose access token it was last sent with
    mutex,      \* the request that holds the mutex
    stored,     \* the session whose tokens are stored
    asked,      \* the session whose refresh token a request has presented
    reply,      \* what the server has made of that so far
    granted,    \* the session it has issued in return
    issued,     \* sessions issued so far
    valid,      \* sessions of which isValid holds
    expired,    \* sessions whose access token has expired
    presented,  \* ghost: refresh tokens presented by this page, since it was loaded
    excused     \* ghost: there was a reason to be signed out

client == <<phase, token, mutex, stored, presented>>
server == <<asked, reply, granted, issued, valid, expired>>
vars == <<phase, token, mutex, stored, presented, excused,
          asked, reply, granted, issued, valid, expired>>

NoSession == 0

\* Requests that wait for the network; those that wait for the mutex.
InFlight == {"sent", "retrying", "again"}
Waiting == {"queued", "waiting"}
Phase == {"idle", "refreshing", "done"} \union InFlight \union Waiting

TypeOK ==
    /\ phase \in [Req -> Phase]
    /\ token \in [Req -> 0..issued]
    /\ mutex \in Req \union {NoReq}
    /\ stored \in 0..issued
    /\ asked \in [Req -> 0..issued]
    /\ reply \in [Req -> {"none", "found", "refused", "granted"}]
    /\ granted \in [Req -> 0..issued]
    /\ issued \in Nat \ {0}
    /\ valid \in SUBSET (1..issued)
    /\ expired \in SUBSET (1..issued)
    /\ presented \in SUBSET (1..issued)
    /\ excused \in BOOLEAN

\* The page is loaded, with the tokens of one session or with none.
Init ==
    /\ phase = [c \in Req |-> "idle"]
    /\ token = [c \in Req |-> NoSession]
    /\ mutex = NoReq
    /\ stored \in {NoSession, 1}
    /\ asked = [c \in Req |-> NoSession]
    /\ reply = [c \in Req |-> "none"]
    /\ granted = [c \in Req |-> NoSession]
    /\ issued = 1
    /\ valid = {1}
    /\ expired = {}
    /\ presented = {}
    /\ excused = (stored = NoSession)

-----------------------------------------------------------------------------
(* Sending. *)

\* The first lines of baseQueryWithReauth.
Start(c) ==
    /\ phase[c] = "idle"
    /\ IF mutex = NoReq
       THEN /\ phase' = [phase EXCEPT ![c] = "sent"]
            /\ token' = [token EXCEPT ![c] = stored]
       ELSE /\ phase' = [phase EXCEPT ![c] = "queued"]
            /\ UNCHANGED token
    /\ UNCHANGED <<mutex, stored, presented, excused, server>>

\* c is done with the mutex, and all that wait for it send, with the tokens
\* of session s.
Release(c, s) ==
    /\ mutex' = NoReq
    /\ phase' = [r \in Req |-> CASE r = c -> "done"
                                 [] phase[r] = "queued" -> "sent"
                                 [] phase[r] = "waiting" -> "again"
                                 [] OTHER -> phase[r]]
    /\ token' = [r \in Req |-> IF phase[r] \in Waiting THEN s ELSE token[r]]

\* The result of c's last fetch goes to its caller, whose own handling of it
\* comes after the release.
Return(c) ==
    IF phase[c] = "retrying"
    THEN Release(c, stored)
    ELSE /\ phase' = [phase EXCEPT ![c] = "done"]
         /\ UNCHANGED <<mutex, token>>

-----------------------------------------------------------------------------
(* Answers other than 401. *)

Succeed(c) ==
    /\ phase[c] \in InFlight
    /\ c \notin Login
    /\ Return(c)
    /\ UNCHANGED <<stored, presented, excused, server>>

\* login has issued a session, and onQueryStarted stores its tokens.
LoginSucceeds(c) ==
    /\ phase[c] \in InFlight
    /\ c \in Login
    /\ Return(c)
    /\ issued' = issued + 1
    /\ valid' = valid \union {issued + 1}
    /\ stored' = issued + 1
    /\ UNCHANGED <<presented, excused, asked, reply, granted, expired>>

\* What the caller of c does about an error: getMe clears the credentials.
Stored(c) == IF c \in Me THEN NoSession ELSE stored

\* The network or the server fails.
Fail(c) ==
    /\ phase[c] \in InFlight
    /\ Return(c)
    /\ stored' = Stored(c)
    /\ excused' = (excused \/ c \in Me)
    /\ UNCHANGED <<presented, server>>

-----------------------------------------------------------------------------
(* 401: the access token is missing or has expired, or a login was refused. *)

Rejected(c) == token[c] \in expired \union {NoSession} \/ c \in Login

\* The mutex is free: c takes it and presents the refresh token.
BeginRefresh(c) ==
    /\ phase[c] = "sent"
    /\ Rejected(c)
    /\ mutex = NoReq
    /\ stored # NoSession
    /\ mutex' = c
    /\ phase' = [phase EXCEPT ![c] = "refreshing"]
    /\ asked' = [asked EXCEPT ![c] = stored]
    /\ presented' = presented \union {stored}
    /\ UNCHANGED <<token, stored, excused, reply, granted, issued, valid, expired>>

\* There is no refresh token: the mutex is taken and released in one step, and
\* the credentials, which are none, are cleared.
GiveUp(c) ==
    /\ phase[c] = "sent"
    /\ Rejected(c)
    /\ mutex = NoReq
    /\ stored = NoSession
    /\ phase' = [phase EXCEPT ![c] = "done"]
    /\ UNCHANGED <<token, mutex, stored, presented, excused, server>>

\* Another request holds the mutex.
AwaitRefresh(c) ==
    /\ phase[c] = "sent"
    /\ Rejected(c)
    /\ mutex # NoReq
    /\ phase' = [phase EXCEPT ![c] = "waiting"]
    /\ UNCHANGED <<token, mutex, stored, presented, excused, server>>

\* The second 401 of a request goes to its caller.
RejectedAgain(c) ==
    /\ phase[c] \in {"retrying", "again"}
    /\ Rejected(c)
    /\ Return(c)
    /\ stored' = Stored(c)
    /\ UNCHANGED <<presented, excused, server>>

Unauthorized(c) == BeginRefresh(c) \/ GiveUp(c) \/ AwaitRefresh(c) \/ RejectedAgain(c)

-----------------------------------------------------------------------------
(* AuthService.refreshToken. *)

\* The session that the refresh token names is looked up.
FindSession(c) ==
    /\ asked[c] # NoSession
    /\ reply[c] = "none"
    /\ reply' = [reply EXCEPT ![c] = IF asked[c] \in valid THEN "found" ELSE "refused"]
    /\ UNCHANGED <<client, excused, asked, granted, issued, valid, expired>>

\* Mutant: the session is replaced by the new one.
GenerateAuthResponseRotates(c) ==
    /\ reply[c] = "found"
    /\ reply' = [reply EXCEPT ![c] = "granted"]
    /\ granted' = [granted EXCEPT ![c] = issued + 1]
    /\ issued' = issued + 1
    /\ valid' = (valid \ {asked[c]}) \union {issued + 1}
    /\ UNCHANGED <<client, excused, asked, expired>>

\* A new session, beside the one it was asked with; its row is inserted and
\* given its token, of which nobody knows before.
GenerateAuthResponse(c) ==
    /\ reply[c] = "found"
    /\ reply' = [reply EXCEPT ![c] = "granted"]
    /\ granted' = [granted EXCEPT ![c] = issued + 1]
    /\ issued' = issued + 1
    /\ valid' = valid \union {issued + 1}
    /\ UNCHANGED <<client, excused, asked, expired>>

-----------------------------------------------------------------------------
(* The answer to a refresh, at the request that holds the mutex. *)

\* Mutant: the answer is unwrapped once too often, so there is nothing to store.
RefreshedUnstored(c) ==
    /\ phase[c] = "refreshing"
    /\ reply[c] = "granted"
    /\ phase' = [phase EXCEPT ![c] = "retrying"]
    /\ token' = [token EXCEPT ![c] = stored]
    /\ UNCHANGED <<stored, mutex, presented, excused, server>>

Refreshed(c) ==
    /\ phase[c] = "refreshing"
    /\ reply[c] = "granted"
    /\ stored' = granted[c]
    /\ phase' = [phase EXCEPT ![c] = "retrying"]
    /\ token' = [token EXCEPT ![c] = granted[c]]
    /\ UNCHANGED <<mutex, presented, excused, server>>

\* Mutant: the mutex is released only after a retry.
RefreshRefusedKeepsMutex(c) ==
    /\ phase[c] = "refreshing"
    /\ reply[c] = "refused"
    /\ stored' = NoSession
    /\ phase' = [phase EXCEPT ![c] = "done"]
    /\ UNCHANGED <<token, mutex, presented, excused, server>>

RefreshRefused(c) ==
    /\ phase[c] = "refreshing"
    /\ reply[c] = "refused"
    /\ stored' = NoSession
    /\ Release(c, NoSession)
    /\ UNCHANGED <<presented, excused, server>>

\* The network or the server fails, whatever has become of the refresh.
RefreshFails(c) ==
    /\ phase[c] = "refreshing"
    /\ stored' = NoSession
    /\ Release(c, NoSession)
    /\ excused' = TRUE
    /\ UNCHANGED <<presented, server>>

-----------------------------------------------------------------------------
(* The user, and time. *)

SignOut ==
    /\ stored # NoSession
    /\ stored' = NoSession
    /\ excused' = TRUE
    /\ UNCHANGED <<phase, token, mutex, presented, server>>

\* The page is loaded again, with the tokens of the local storage.  What it
\* had asked for is forgotten, but not at the server.
Reload ==
    /\ phase' = [c \in Req |-> IF phase[c] = "idle" THEN "idle" ELSE "done"]
    /\ mutex' = NoReq
    /\ presented' = {}
    /\ UNCHANGED <<token, stored, excused, server>>

\* An access token expires, which takes longer than what is done with a fresh
\* one: not while a request is being repeated.
Expire(s) ==
    /\ mutex = NoReq
    /\ \A c \in Req : phase[c] # "again"
    /\ s \notin expired
    /\ expired' = expired \union {s}
    /\ UNCHANGED <<client, excused, asked, reply, granted, issued, valid>>

\* A session is over: after seven days, by a logout or by a password reset.
EndSession(s) ==
    /\ s \in valid
    /\ valid' = valid \ {s}
    /\ excused' = TRUE
    /\ UNCHANGED <<client, asked, reply, granted, issued, expired>>

-----------------------------------------------------------------------------
Answered(c) == Succeed(c) \/ LoginSucceeds(c) \/ Fail(c) \/ Unauthorized(c)

RefreshAnswered(c) == Refreshed(c) \/ RefreshRefused(c) \/ RefreshFails(c)

Serve(c) == FindSession(c) \/ GenerateAuthResponse(c)

Next ==
    \/ \E c \in Req : Start(c) \/ Answered(c) \/ RefreshAnswered(c) \/ Serve(c)
    \/ \E s \in 1..issued : Expire(s) \/ EndSession(s)
    \/ SignOut
    \/ Reload

\* A fetch settles, by an answer or by an error.
Fairness == \A c \in Req : WF_vars(Answered(c)) /\ WF_vars(RefreshAnswered(c))

Spec == Init /\ [][Next]_vars /\ Fairness

-----------------------------------------------------------------------------
(* Properties. *)

\* A page presents no refresh token twice, however late its 401s arrive: by
\* then the token has been replaced or cleared.
PresentedOnce ==
    [][\A c \in Req :
         phase[c] # "refreshing" /\ phase'[c] = "refreshing" =>
             asked'[c] \notin presented]_vars

\* While a refresh is under way, no other request is sent with the token that
\* is being replaced, and no second refresh is started.
QuietDuringRefresh ==
    [][\A c, d \in Req :
         c # d /\ phase'[c] = "refreshing" /\ phase'[d] # phase[d] =>
             phase'[d] \notin {"refreshing"} \union InFlight]_vars

\* The user is signed out only for a reason: the user's own wish, a failure, or
\* the end of a session.  Late answers, repeated refreshes and a page that is
\* loaded again while the server replaces its tokens are none.
StaysSignedIn == stored = NoSession => excused

\* Every request ends, the ones that wait for another's refresh included: a
\* request is made once, so in the end each has either not been made or is done.
EveryRequestEnds == <>[](\A c \in Req : phase[c] \in {"idle", "done"})

\* Sessions, with those issued so far.
Server == INSTANCE Sessions WITH out <- 1..issued, good <- valid

\* The server of this page hands out and ends sessions as AuthService does.
ServerIsSessions == Server!Spec
=============================================================================
