---------------------------- MODULE ReauthProofs -----------------------------
(***************************************************************************)
(* Reauth for any set of requests.  The invariant follows a pair of tokens *)
(* from the server to the store: who holds the mutex, what it presented,   *)
(* and which tokens are fresh or, if they are not, excuse a sign-out.      *)
(***************************************************************************)
EXTENDS Reauth, TLAPS

\* The holder of the mutex refreshes or repeats its own request.
HolderRenews ==
    \A c \in Req : mutex = c <=> phase[c] \in {"refreshing", "retrying"}

\* A request that has not taken the mutex yet has presented nothing.
AskedByHolder ==
    \A c \in Req :
        /\ phase[c] \in {"idle", "queued", "sent"} => asked[c] = NoSession /\ reply[c] = "none"
        /\ asked[c] = NoSession => reply[c] = "none"

\* The stored tokens have not been presented, but by a refresh under way, nor
\* have those that answer it.
StoredIsNew ==
    /\ stored \in presented => \E c \in Req : phase[c] = "refreshing"
    /\ \A c \in Req :
          phase[c] = "refreshing" /\ reply[c] = "granted" => granted[c] \notin presented

\* What is stored or was presented names a valid session, or there is an excuse.
ValidOrExcused ==
    /\ stored \in valid \/ excused = TRUE
    /\ \A c \in Req :
          /\ asked[c] \in valid \/ asked[c] = NoSession \/ excused = TRUE
          /\ reply[c] = "refused" => excused = TRUE
          /\ reply[c] = "granted" => granted[c] \in valid \/ excused = TRUE

\* A request is repeated with a fresh access token, or with none for a reason.
RepeatsAreFresh ==
    /\ \A c \in Req :
          /\ phase[c] = "refreshing" /\ reply[c] = "granted" => granted[c] \notin expired
          /\ phase[c] \in {"retrying", "again"} =>
                token[c] \notin expired /\ (token[c] = NoSession => excused = TRUE)
          /\ phase[c] = "retrying" => stored \notin expired

IInv ==
    /\ TypeOK /\ HolderRenews /\ AskedByHolder /\ StoredIsNew
    /\ ValidOrExcused /\ RepeatsAreFresh

USE DEF NoSession, InFlight, Waiting, Phase

LEMMA InitIInv == Init => IInv
  <1> SUFFICES ASSUME Init PROVE IInv
    OBVIOUS
  <1>1. TypeOK
    BY DEF Init, TypeOK
  <1> QED
    BY <1>1, NoReqAssumption
       DEF Init, IInv, HolderRenews, AskedByHolder, StoredIsNew, ValidOrExcused, RepeatsAreFresh

-----------------------------------------------------------------------------
(* Steps of a request. *)

LEMMA StartIInv ==
    ASSUME IInv, NEW c \in Req, Start(c)
    PROVE  IInv'
  <1>1. /\ \E p \in {"sent", "queued"} : phase' = [phase EXCEPT ![c] = p]
        /\ token' = token \/ token' = [token EXCEPT ![c] = stored]
        /\ phase[c] = "idle"
        /\ UNCHANGED <<mutex, stored, presented, excused, asked, reply, granted,
                       issued, valid, expired>>
    BY DEF Start, server
  <1>2. TypeOK'
    BY <1>1 DEF IInv, TypeOK
  <1> QED
    BY <1>1, <1>2
       DEF IInv, TypeOK, HolderRenews, AskedByHolder, StoredIsNew, ValidOrExcused, RepeatsAreFresh

\* What a release does to the requests: c ends, and those that wait go on.
LEMMA ReleaseMoves ==
    ASSUME IInv, NEW c \in Req, mutex = c, NEW s \in 0..issued, Release(c, s)
    PROVE  /\ mutex' = NoReq
           /\ phase' \in [Req -> Phase]
           /\ token' \in [Req -> 0..issued]
           /\ \A d \in Req :
                 /\ phase'[d] \notin {"refreshing", "retrying"}
                 /\ phase'[d] \in {"idle", "queued", "sent"} => phase[d] \in {"idle", "queued", "sent"}
                 /\ phase'[d] = "again" =>
                       \/ phase[d] = "again" /\ token'[d] = token[d]
                       \/ token'[d] = s
  <1>1. \A d \in Req : d # c => phase[d] \notin {"refreshing", "retrying"}
    BY DEF IInv, HolderRenews
  <1> QED
    BY <1>1 DEF Release, IInv, TypeOK

\* What the end of c does, when it is not refreshing.
LEMMA ReturnMoves ==
    ASSUME IInv, NEW c \in Req, phase[c] \in InFlight, Return(c)
    PROVE  /\ mutex' = IF mutex = c THEN NoReq ELSE mutex
           /\ phase' \in [Req -> Phase]
           /\ token' \in [Req -> 0..issued]
           /\ HolderRenews'
           /\ \A d \in Req :
                 /\ phase'[d] \in {"refreshing", "retrying"} => phase'[d] = phase[d] /\ token'[d] = token[d]
                 /\ phase[d] = "refreshing" => phase'[d] = "refreshing"
                 /\ phase'[d] \in {"idle", "queued", "sent"} => phase[d] \in {"idle", "queued", "sent"}
                 /\ phase'[d] = "again" =>
                       \/ phase[d] = "again" /\ token'[d] = token[d]
                       \/ phase[c] = "retrying" /\ token'[d] = stored
  <1>1. CASE phase[c] = "retrying"
    <2>1. mutex = c /\ Release(c, stored) /\ stored \in 0..issued
      BY <1>1 DEF Return, IInv, HolderRenews, TypeOK
    <2>2. \A d \in Req : d # c => phase[d] \notin {"refreshing", "retrying"}
      BY <2>1 DEF IInv, HolderRenews
    <2> QED
      BY <1>1, <2>1, <2>2, ReleaseMoves, NoReqAssumption DEF HolderRenews
  <1>2. CASE phase[c] # "retrying"
    <2>1. /\ phase' = [phase EXCEPT ![c] = "done"] /\ UNCHANGED <<mutex, token>>
          /\ mutex # c
      BY <1>2 DEF Return, IInv, HolderRenews
    <2> QED
      BY <1>2, <2>1 DEF IInv, TypeOK, HolderRenews
  <1> QED
    BY <1>1, <1>2

LEMMA AnswerIInv ==
    ASSUME IInv, NEW c \in Req, Succeed(c) \/ Fail(c) \/ RejectedAgain(c)
    PROVE  IInv'
  <1>1. /\ phase[c] \in InFlight
        /\ Return(c)
        /\ UNCHANGED <<presented, asked, reply, granted, issued, valid, expired>>
    BY DEF Succeed, Fail, RejectedAgain, server
  <1>2. /\ excused = TRUE => excused' = TRUE
        /\ excused' \in BOOLEAN
        /\ \/ stored' = stored
           \/ stored' = NoSession /\ excused' = TRUE
    <2>1. CASE Succeed(c) \/ Fail(c)
      BY <2>1 DEF Succeed, Fail, Stored, IInv, TypeOK
    <2>2. CASE RejectedAgain(c) /\ c \notin Me
      BY <2>2 DEF RejectedAgain, Stored, IInv, TypeOK
    <2>3. CASE RejectedAgain(c) /\ c \in Me
      BY <2>3, ReqAssumption DEF RejectedAgain, Rejected, Stored, IInv, TypeOK, RepeatsAreFresh
    <2> QED
      BY <2>1, <2>2, <2>3
  <1>3. TypeOK'
    BY <1>1, <1>2, ReturnMoves DEF IInv, TypeOK
  <1>4. AskedByHolder' /\ HolderRenews'
    BY <1>1, ReturnMoves DEF IInv, AskedByHolder
  <1>5. StoredIsNew'
    BY <1>1, <1>2, ReturnMoves DEF IInv, TypeOK, StoredIsNew
  <1>6. ValidOrExcused'
    BY <1>1, <1>2 DEF IInv, ValidOrExcused
  <1>7. RepeatsAreFresh'
    <2>1. stored = NoSession => excused = TRUE
      BY DEF IInv, TypeOK, ValidOrExcused
    <2>2. NoSession \notin expired
      BY DEF IInv, TypeOK
    <2>3. \A d \in Req :
             phase'[d] \in {"retrying", "again"} =>
                token'[d] \notin expired /\ (token'[d] = NoSession => excused' = TRUE)
      <3> SUFFICES ASSUME NEW d \in Req, phase'[d] \in {"retrying", "again"}
                   PROVE  token'[d] \notin expired /\ (token'[d] = NoSession => excused' = TRUE)
        OBVIOUS
      <3>1. CASE phase[d] \in {"retrying", "again"} /\ token'[d] = token[d]
        BY <1>1, <1>2, <3>1 DEF IInv, RepeatsAreFresh
      <3>2. CASE phase[c] = "retrying" /\ token'[d] = stored
        BY <1>1, <1>2, <2>1, <3>2 DEF IInv, RepeatsAreFresh
      <3> QED
        BY <1>1, <3>1, <3>2, ReturnMoves
    <2>4. \A d \in Req :
             /\ phase'[d] = "refreshing" /\ reply'[d] = "granted" => granted'[d] \notin expired
             /\ phase'[d] = "retrying" => stored' \notin expired
      <3>1. \A d \in Req : phase'[d] \in {"refreshing", "retrying"} => phase'[d] = phase[d]
        BY <1>1, ReturnMoves
      <3> QED
        BY <1>1, <1>2, <1>3, <2>2, <3>1 DEF IInv, RepeatsAreFresh
    <2> QED
      BY <1>1, <2>3, <2>4 DEF RepeatsAreFresh
  <1> QED
    BY <1>3, <1>4, <1>5, <1>6, <1>7 DEF IInv

LEMMA LoginIInv ==
    ASSUME IInv, NEW c \in Req, LoginSucceeds(c)
    PROVE  IInv'
  <1>1. /\ phase[c] \in InFlight
        /\ Return(c)
        /\ issued' = issued + 1 /\ stored' = issued + 1
        /\ valid' = valid \union {issued + 1}
        /\ UNCHANGED <<presented, excused, asked, reply, granted, expired>>
    BY DEF LoginSucceeds
  <1>2. TypeOK'
    BY <1>1, ReturnMoves DEF IInv, TypeOK
  <1>3. stored' \notin presented /\ stored' \notin expired
    BY <1>1 DEF IInv, TypeOK
  <1>4. AskedByHolder' /\ HolderRenews'
    BY <1>1, ReturnMoves DEF IInv, AskedByHolder
  <1>5. StoredIsNew'
    BY <1>1, <1>3, ReturnMoves DEF IInv, TypeOK, StoredIsNew
  <1>6. ValidOrExcused'
    BY <1>1 DEF IInv, ValidOrExcused
  <1>7. RepeatsAreFresh'
    <2>1. stored = NoSession => excused = TRUE
      BY DEF IInv, TypeOK, ValidOrExcused
    <2>2. NoSession \notin expired
      BY DEF IInv, TypeOK
    <2>3. \A d \in Req :
             phase'[d] \in {"retrying", "again"} =>
                token'[d] \notin expired /\ (token'[d] = NoSession => excused' = TRUE)
      <3> SUFFICES ASSUME NEW d \in Req, phase'[d] \in {"retrying", "again"}
                   PROVE  token'[d] \notin expired /\ (token'[d] = NoSession => excused' = TRUE)
        OBVIOUS
      <3>1. CASE phase[d] \in {"retrying", "again"} /\ token'[d] = token[d]
        BY <1>1, <1>2, <3>1 DEF IInv, RepeatsAreFresh
      <3>2. CASE phase[c] = "retrying" /\ token'[d] = stored
        BY <1>1, <1>2, <2>1, <3>2 DEF IInv, RepeatsAreFresh
      <3> QED
        BY <1>1, <3>1, <3>2, ReturnMoves
    <2>4. \A d \in Req :
             /\ phase'[d] = "refreshing" /\ reply'[d] = "granted" => granted'[d] \notin expired
             /\ phase'[d] = "retrying" => stored' \notin expired
      <3>1. \A d \in Req : phase'[d] \in {"refreshing", "retrying"} => phase'[d] = phase[d]
        BY <1>1, ReturnMoves
      <3> QED
        BY <1>1, <1>2, <1>3, <2>2, <3>1 DEF IInv, RepeatsAreFresh
    <2> QED
      BY <1>1, <2>3, <2>4 DEF RepeatsAreFresh
  <1> QED
    BY <1>2, <1>4, <1>5, <1>6, <1>7 DEF IInv

LEMMA RejectedIInv ==
    ASSUME IInv, NEW c \in Req, BeginRefresh(c) \/ GiveUp(c) \/ AwaitRefresh(c)
    PROVE  IInv'
  <1>1. CASE BeginRefresh(c)
    <2>1. /\ phase[c] = "sent" /\ mutex = NoReq /\ stored # NoSession
          /\ mutex' = c
          /\ phase' = [phase EXCEPT ![c] = "refreshing"]
          /\ asked' = [asked EXCEPT ![c] = stored]
          /\ presented' = presented \union {stored}
          /\ UNCHANGED <<token, stored, excused, reply, granted, issued, valid, expired>>
      BY <1>1 DEF BeginRefresh
    <2>2. \A d \in Req : phase[d] \notin {"refreshing", "retrying"}
      BY <2>1, NoReqAssumption DEF IInv, HolderRenews
    <2>3. TypeOK'
      BY <2>1 DEF IInv, TypeOK
    <2>4. HolderRenews' /\ AskedByHolder' /\ StoredIsNew'
      BY <2>1, <2>2 DEF IInv, TypeOK, HolderRenews, AskedByHolder, StoredIsNew
    <2>5. ValidOrExcused' /\ RepeatsAreFresh'
      BY <2>1, <2>2 DEF IInv, TypeOK, ValidOrExcused, RepeatsAreFresh, AskedByHolder
    <2> QED
      BY <2>3, <2>4, <2>5 DEF IInv
  <1>2. CASE GiveUp(c) \/ AwaitRefresh(c)
    <2>1. /\ \E p \in {"done", "waiting"} : phase' = [phase EXCEPT ![c] = p]
          /\ phase[c] = "sent"
          /\ UNCHANGED <<token, mutex, stored, presented, excused, asked, reply, granted,
                         issued, valid, expired>>
      BY <1>2 DEF GiveUp, AwaitRefresh, server
    <2>2. TypeOK'
      BY <2>1 DEF IInv, TypeOK
    <2> QED
      BY <2>1, <2>2 DEF IInv, TypeOK, HolderRenews, AskedByHolder, StoredIsNew,
                        ValidOrExcused, RepeatsAreFresh
  <1> QED
    BY <1>1, <1>2

-----------------------------------------------------------------------------
(* Refreshes. *)

LEMMA ServeIInv ==
    ASSUME IInv, NEW c \in Req, Serve(c)
    PROVE  IInv'
  <1>1. CASE FindSession(c)
    <2>1. /\ asked[c] # NoSession
          /\ reply' = [reply EXCEPT ![c] = IF asked[c] \in valid THEN "found" ELSE "refused"]
          /\ UNCHANGED <<phase, token, mutex, stored, presented, excused, asked, granted,
                         issued, valid, expired>>
      BY <1>1 DEF FindSession, client
    <2>2. TypeOK'
      BY <2>1 DEF IInv, TypeOK
    <2> QED
      BY <2>1, <2>2 DEF IInv, TypeOK, HolderRenews, AskedByHolder, StoredIsNew,
                        ValidOrExcused, RepeatsAreFresh
  <1>2. CASE GenerateAuthResponse(c)
    <2>1. /\ reply[c] = "found"
          /\ reply' = [reply EXCEPT ![c] = "granted"]
          /\ granted' = [granted EXCEPT ![c] = issued + 1]
          /\ issued' = issued + 1
          /\ valid' = valid \union {issued + 1}
          /\ UNCHANGED <<phase, token, mutex, stored, presented, excused, asked, expired>>
      BY <1>2 DEF GenerateAuthResponse, client
    <2>2. TypeOK'
      BY <2>1 DEF IInv, TypeOK
    <2>3. issued + 1 \notin presented /\ issued + 1 \notin expired
      BY DEF IInv, TypeOK
    <2>4. HolderRenews' /\ AskedByHolder'
      BY <2>1 DEF IInv, TypeOK, HolderRenews, AskedByHolder
    <2>5. StoredIsNew' /\ ValidOrExcused'
      BY <2>1, <2>3 DEF IInv, TypeOK, StoredIsNew, ValidOrExcused
    <2>6. RepeatsAreFresh'
      BY <2>1, <2>3 DEF IInv, TypeOK, RepeatsAreFresh
    <2> QED
      BY <2>2, <2>4, <2>5, <2>6 DEF IInv
  <1> QED
    BY <1>1, <1>2 DEF Serve

LEMMA RefreshAnsweredIInv ==
    ASSUME IInv, NEW c \in Req, RefreshAnswered(c)
    PROVE  IInv'
  <1>1. phase[c] = "refreshing" /\ mutex = c
    BY DEF RefreshAnswered, Refreshed, RefreshRefused, RefreshFails, IInv, HolderRenews
  <1>2. \A d \in Req : d # c => phase[d] \notin {"refreshing", "retrying"}
    BY <1>1 DEF IInv, HolderRenews
  <1>3. CASE Refreshed(c)
    <2>1. /\ reply[c] = "granted"
          /\ stored' = granted[c]
          /\ phase' = [phase EXCEPT ![c] = "retrying"]
          /\ token' = [token EXCEPT ![c] = granted[c]]
          /\ UNCHANGED <<mutex, presented, excused, asked, reply, granted, issued, valid, expired>>
      BY <1>3 DEF Refreshed, server
    <2>2. TypeOK'
      BY <2>1 DEF IInv, TypeOK
    <2>3. granted[c] = NoSession => excused = TRUE
      BY <2>1 DEF IInv, TypeOK, ValidOrExcused
    <2>4. HolderRenews' /\ AskedByHolder'
      BY <1>1, <2>1 DEF IInv, TypeOK, HolderRenews, AskedByHolder
    <2>5. StoredIsNew' /\ ValidOrExcused'
      BY <1>1, <1>2, <2>1 DEF IInv, TypeOK, StoredIsNew, ValidOrExcused
    <2>6. RepeatsAreFresh'
      BY <1>1, <1>2, <2>1, <2>3 DEF IInv, TypeOK, RepeatsAreFresh
    <2> QED
      BY <2>2, <2>4, <2>5, <2>6 DEF IInv
  <1>4. CASE RefreshRefused(c) \/ RefreshFails(c)
    <2>1. /\ stored' = NoSession
          /\ excused' = TRUE \/ (excused' = excused /\ reply[c] = "refused")
          /\ Release(c, NoSession)
          /\ UNCHANGED <<presented, asked, reply, granted, issued, valid, expired>>
      <3>1. CASE RefreshRefused(c)
        BY <3>1 DEF RefreshRefused, server
      <3>2. CASE RefreshFails(c)
        BY <3>2 DEF RefreshFails, server
      <3> QED
        BY <1>4, <3>1, <3>2
    <2>2. excused' = TRUE
      BY <2>1 DEF IInv, ValidOrExcused
    <2>3. NoSession \in 0..issued /\ NoSession \notin presented /\ NoSession \notin expired
      BY DEF IInv, TypeOK
    <2>4. TypeOK'
      BY <1>1, <2>1, <2>2, <2>3, ReleaseMoves DEF IInv, TypeOK
    <2>5. HolderRenews' /\ AskedByHolder'
      BY <1>1, <2>1, <2>3, ReleaseMoves, NoReqAssumption DEF IInv, HolderRenews, AskedByHolder
    <2>6. StoredIsNew' /\ ValidOrExcused'
      BY <1>1, <2>1, <2>2, <2>3, ReleaseMoves DEF IInv, TypeOK, StoredIsNew, ValidOrExcused
    <2>7. RepeatsAreFresh'
      <3>1. \A d \in Req :
               /\ phase'[d] \notin {"refreshing", "retrying"}
               /\ phase'[d] = "again" =>
                     \/ phase[d] = "again" /\ token'[d] = token[d]
                     \/ token'[d] = NoSession
        BY <1>1, <2>1, <2>3, ReleaseMoves
      <3> QED
        BY <2>1, <2>2, <2>3, <3>1 DEF IInv, RepeatsAreFresh
    <2> QED
      BY <2>4, <2>5, <2>6, <2>7 DEF IInv
  <1> QED
    BY <1>3, <1>4 DEF RefreshAnswered

-----------------------------------------------------------------------------
(* The user, and time. *)

LEMMA RestIInv ==
    ASSUME IInv,
           \/ SignOut \/ Reload
           \/ \E s \in 1..issued : Expire(s) \/ EndSession(s)
    PROVE  IInv'
  <1>1. CASE SignOut
    <2>1. /\ stored' = NoSession /\ excused' = TRUE
          /\ UNCHANGED <<phase, token, mutex, presented, asked, reply, granted, issued, valid, expired>>
      BY <1>1 DEF SignOut, server
    <2> QED
      BY <2>1 DEF IInv, TypeOK, HolderRenews, AskedByHolder, StoredIsNew,
                  ValidOrExcused, RepeatsAreFresh
  <1>2. CASE Reload
    <2>1. /\ phase' = [c \in Req |-> IF phase[c] = "idle" THEN "idle" ELSE "done"]
          /\ mutex' = NoReq /\ presented' = {}
          /\ UNCHANGED <<token, stored, excused, asked, reply, granted, issued, valid, expired>>
      BY <1>2 DEF Reload, server
    <2>2. \A c \in Req : phase'[c] = "done" \/ (phase'[c] = "idle" /\ phase[c] = "idle")
      BY <2>1
    <2>3. TypeOK'
      BY <2>1 DEF IInv, TypeOK
    <2> QED
      BY <2>1, <2>2, <2>3, NoReqAssumption
         DEF IInv, HolderRenews, AskedByHolder, StoredIsNew, ValidOrExcused, RepeatsAreFresh
  <1>3. ASSUME NEW s \in 1..issued, Expire(s)
        PROVE  IInv'
    <2>1. /\ mutex = NoReq
          /\ \A c \in Req : phase[c] # "again"
          /\ expired' = expired \union {s}
          /\ UNCHANGED <<phase, token, mutex, stored, presented, excused, asked, reply, granted,
                         issued, valid>>
      BY <1>3 DEF Expire, client
    <2>2. \A c \in Req : phase[c] \notin {"refreshing", "retrying"}
      BY <2>1, NoReqAssumption DEF IInv, HolderRenews
    <2> QED
      BY <2>1, <2>2 DEF IInv, TypeOK, HolderRenews, AskedByHolder, StoredIsNew,
                  ValidOrExcused, RepeatsAreFresh
  <1>4. ASSUME NEW s \in 1..issued, EndSession(s)
        PROVE  IInv'
    <2>1. /\ valid' = valid \ {s} /\ excused' = TRUE
          /\ UNCHANGED <<phase, token, mutex, stored, presented, asked, reply, granted,
                         issued, expired>>
      BY <1>4 DEF EndSession, client
    <2> QED
      BY <2>1 DEF IInv, TypeOK, HolderRenews, AskedByHolder, StoredIsNew,
                  ValidOrExcused, RepeatsAreFresh
  <1> QED
    BY <1>1, <1>2, <1>3, <1>4

LEMMA NextIInv == IInv /\ [Next]_vars => IInv'
  <1> SUFFICES ASSUME IInv, [Next]_vars PROVE IInv'
    OBVIOUS
  <1>1. CASE UNCHANGED vars
    BY <1>1 DEF vars, IInv, TypeOK, HolderRenews, AskedByHolder, StoredIsNew,
                ValidOrExcused, RepeatsAreFresh
  <1>2. CASE Next
    BY <1>2, StartIInv, AnswerIInv, LoginIInv, RejectedIInv, ServeIInv, RefreshAnsweredIInv, RestIInv
       DEF Next, Answered, Unauthorized
  <1> QED
    BY <1>1, <1>2

-----------------------------------------------------------------------------

\* The inductive invariant holds in every reachable state.
THEOREM Invariance == Spec => []IInv
  BY InitIInv, NextIInv, PTL DEF Spec

\* Every variable keeps its type.
THEOREM TypeCorrect == Spec => []TypeOK
  <1>1. IInv => TypeOK
    BY DEF IInv
  <1> QED
    BY <1>1, Invariance, PTL

\* A user is signed out only for a reason.
THEOREM NoSignOutWithoutReason == Spec => []StaysSignedIn
  <1>1. IInv => StaysSignedIn
    BY DEF IInv, TypeOK, ValidOrExcused, StaysSignedIn
  <1> QED
    BY <1>1, Invariance, PTL

\* A refresh is begun by BeginRefresh alone.
LEMMA RefreshBegins ==
    ASSUME IInv, Next, NEW c \in Req, phase[c] # "refreshing", phase'[c] = "refreshing"
    PROVE  BeginRefresh(c)
  BY DEF Next, Start, Answered, RefreshAnswered, Serve, Succeed, LoginSucceeds, Fail,
         Unauthorized, BeginRefresh, GiveUp, AwaitRefresh, RejectedAgain, Return, Release,
         Refreshed, RefreshRefused, RefreshFails, FindSession, GenerateAuthResponse,
         SignOut, Reload, Expire, EndSession, client, IInv, TypeOK

\* No refresh token is presented twice.
THEOREM PresentsOnce == Spec => PresentedOnce
  <1>1. IInv /\ [Next]_vars =>
          [\A c \in Req :
             phase[c] # "refreshing" /\ phase'[c] = "refreshing" =>
                 asked'[c] \notin presented]_vars
    <2> SUFFICES ASSUME IInv, Next, NEW c \in Req,
                        phase[c] # "refreshing", phase'[c] = "refreshing"
                 PROVE  asked'[c] \notin presented
      OBVIOUS
    <2>1. BeginRefresh(c)
      BY RefreshBegins
    <2>2. stored \notin presented
      BY <2>1, NoReqAssumption DEF BeginRefresh, IInv, HolderRenews, StoredIsNew
    <2> QED
      BY <2>1, <2>2 DEF BeginRefresh, IInv, TypeOK
  <1> QED
    BY <1>1, Invariance, PTL DEF Spec, PresentedOnce

\* While one request refreshes, no other one is sent.
THEOREM QuietWhileRefreshing == Spec => QuietDuringRefresh
  <1>1. IInv /\ [Next]_vars =>
          [\A c, d \in Req :
             c # d /\ phase'[c] = "refreshing" /\ phase'[d] # phase[d] =>
                 phase'[d] \notin {"refreshing"} \union InFlight]_vars
    <2> SUFFICES ASSUME IInv, Next, NEW c \in Req, NEW d \in Req, c # d,
                        phase'[c] = "refreshing", phase'[d] # phase[d]
                 PROVE  phase'[d] \notin {"refreshing"} \union InFlight
      OBVIOUS
    <2>1. phase[c] = "refreshing"
      <3>1. ASSUME phase[c] # "refreshing"
            PROVE  FALSE
        <4>1. BeginRefresh(c)
          BY <3>1, RefreshBegins
        <4> QED
          BY <4>1 DEF BeginRefresh, IInv, TypeOK
      <3> QED
        BY <3>1
    <2>2. mutex = c /\ mutex # NoReq /\ \A r \in Req : r # c => phase[r] # "retrying"
      BY <2>1, NoReqAssumption DEF IInv, HolderRenews
    <2>3. ASSUME NEW r \in Req, Start(r) \/ Answered(r)
          PROVE  phase'[d] \notin {"refreshing"} \union InFlight
      BY <2>1, <2>2, <2>3
         DEF Start, Answered, Succeed, LoginSucceeds, Fail, Unauthorized, BeginRefresh, GiveUp,
             AwaitRefresh, RejectedAgain, Return, IInv, TypeOK
    <2>4. ASSUME NEW r \in Req, RefreshAnswered(r)
          PROVE  FALSE
      <3>1. r = c
        BY <2>2, <2>4 DEF RefreshAnswered, Refreshed, RefreshRefused, RefreshFails, IInv, HolderRenews
      <3> QED
        BY <2>4, <3>1 DEF RefreshAnswered, Refreshed, RefreshRefused, RefreshFails, Release, IInv, TypeOK
    <2>5. ASSUME \/ \E r \in Req : Serve(r)
                 \/ \E s \in 1..issued : Expire(s) \/ EndSession(s)
                 \/ SignOut
          PROVE  FALSE
      BY <2>5 DEF Serve, FindSession, GenerateAuthResponse, Expire, EndSession, SignOut, client
    <2>6. CASE Reload
      BY <2>6 DEF Reload
    <2> QED
      BY <2>3, <2>4, <2>5, <2>6 DEF Next
  <1> QED
    BY <1>1, Invariance, PTL DEF Spec, QuietDuringRefresh

\* The server this page talks to keeps the promise of Sessions, as AuthService
\* does (AccountsProofs): it hands out one session at a time, and none that has
\* ended is good again.
THEOREM ServerKeepsSessions == Spec => ServerIsSessions
  <1>1. Init => Server!Init
    BY DEF Init, Server!Init
  <1>2. ASSUME IInv, [Next]_vars PROVE [Server!Next]_(Server!vars)
    <2>1. issued \in Nat \ {0} /\ valid \subseteq 1..issued
      BY <1>2 DEF IInv, TypeOK
    <2>2. ASSUME issued' = issued + 1, valid' = valid \union {issued + 1}
          PROVE  Server!HandOut
      <3>1. 1..issued' = (1..issued) \union {issued + 1}
        BY <2>1, <2>2
      <3>2. issued + 1 \in (1..issued') \ (1..issued)
        BY <2>1, <2>2
      <3> QED
        BY <2>2, <3>1, <3>2 DEF Server!HandOut
    <2>3. ASSUME NEW s \in 1..issued, EndSession(s) PROVE Server!Logout
      BY <2>3 DEF EndSession, Server!Logout
    <2>4. ASSUME NEW c \in Req, LoginSucceeds(c) \/ GenerateAuthResponse(c)
          PROVE  Server!HandOut
      BY <2>2, <2>4 DEF LoginSucceeds, GenerateAuthResponse
    <2>5. ASSUME NEW c \in Req, Start(c) \/ RefreshAnswered(c) \/ FindSession(c)
          PROVE  UNCHANGED <<issued, valid>>
      BY <2>5 DEF Start, RefreshAnswered, Refreshed, RefreshRefused, RefreshFails,
                  FindSession, server
    <2>6. ASSUME NEW c \in Req, Answered(c), ~LoginSucceeds(c)
          PROVE  UNCHANGED <<issued, valid>>
      BY <2>6 DEF Answered, Succeed, Fail, Unauthorized, BeginRefresh, GiveUp, AwaitRefresh,
                  RejectedAgain, server
    <2>7. ASSUME \/ SignOut \/ Reload \/ UNCHANGED vars
                 \/ \E s \in 1..issued : Expire(s)
          PROVE  UNCHANGED <<issued, valid>>
      BY <2>7 DEF SignOut, Reload, Expire, server, vars
    <2>8. CASE UNCHANGED <<issued, valid>>
      BY <2>8 DEF Server!vars
    <2>9. \/ UNCHANGED <<issued, valid>>
          \/ \E c \in Req : LoginSucceeds(c) \/ GenerateAuthResponse(c)
          \/ \E s \in 1..issued : EndSession(s)
      BY <1>2, <2>5, <2>6, <2>7 DEF Next, Serve
    <2> QED
      BY <2>3, <2>4, <2>8, <2>9 DEF Server!Next
  <1> QED
    BY <1>1, <1>2, Invariance, PTL DEF Spec, ServerIsSessions, Server!Spec
=============================================================================
