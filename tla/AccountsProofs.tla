---------------------------- MODULE AccountsProofs ----------------------------
(***************************************************************************)
(* Accounts for any set of requests and providers.  The invariant follows  *)
(* a secret from the request that makes it to the row and out of it, and a *)
(* session from the password it rests on to its end.                       *)
(***************************************************************************)
EXTENDS Accounts, TLAPS

\* A secret that r makes is with r alone, when r is at t.
Carries(t) ==
    \/ t.pc = "idle"
    \/ t.op = "register" /\ t.pc = "inserting"
    \/ t.op \in {"forgot", "reset"} /\ t.pc \in Held

Unborn(r) == Carries(task[r])

UnbornIsNew ==
    \A r \in Request : Unborn(r) =>
        /\ r \notin replaced /\ r \notin used
        /\ user.password # r /\ user.resetToken # r
        /\ \A q \in Request : q # r =>
              task[q].copy.password # r /\ task[q].copy.resetToken # r

NullIsNoSecret == NoOne \notin replaced /\ NoOne \notin used

\* A new user has no secret but the password of its registration.
NewUser(r, t) ==
    t.pc \in {"finding", "inserting"} =>
        /\ t.op \in {"register", "oauth"}
        /\ t.copy.resetToken = NoOne
        /\ t.op = "register" => t.copy.password = r
        /\ t.op = "oauth" => t.copy.password = NoOne
        /\ t.pc = "finding" => t.op = "oauth"

\* What the request r sets in the object it holds.
SetsItsOwn(r, t) ==
    t.pc \in Held =>
        /\ known
        /\ t.op \in {"login", "verify", "forgot", "reset", "oauth"}
        /\ t.op \in {"forgot", "reset"} => t.saves = 1
        /\ t.op = "forgot" => t.copy.resetToken = r
        /\ t.op = "reset" => t.copy.password = r /\ t.copy.resetToken = NoOne
        /\ t.op = "reset" /\ t.pc = "saving" => "password" \in t.cols

\* What it does not set is as in the row, unless its object is stale.
KeepsTheRest(t) ==
    t.pc \in Held /\ ~t.stale =>
        /\ user.verified => t.copy.verified
        /\ t.op # "reset" => t.copy.password = user.password
        /\ t.op \notin {"forgot", "reset"} => t.copy.resetToken = user.resetToken
        /\ t.pc = "saving" => t.cols = {c \in Columns : t.copy[c] # user[c]}

ObjectsAreLoaded ==
    /\ ~known => ~user.verified
    /\ \A r \in Request :
          NewUser(r, task[r]) /\ SetsItsOwn(r, task[r]) /\ KeepsTheRest(task[r])

\* A request makes one session, after its other steps.
MakesOne(r, t) ==
    /\ t.pc \in {"inserted", "tokening"} => session[r].made = "bare"
    /\ t.pc \notin {"inserted", "tokening"} \union Ended => session[r].made = "none"

SessionsAreMade ==
    /\ \A r \in Request : MakesOne(r, task[r])
    /\ \A s \in Session :
          /\ session[s].valid => session[s].made # "none"
          /\ session[s].made # "none" /\ ~session[s].ended => session[s].valid

\* What rests on a replaced password has been crossed by the reset, or is over.
CrossedOrNew(t) ==
    t.pc \notin {"idle"} \union Ended /\ t.by \in replaced => t.crossed

OldPasswordIsCrossed ==
    ~HalfReset /\ ~revived =>
        /\ \A r \in Request : CrossedOrNew(task[r])
        /\ \A s \in Session :
              /\ session[s].made = "bare" \/ session[s].valid
              /\ session[s].by \in replaced
              => session[s].crossed

IInv ==
    /\ TypeOK /\ UnbornIsNew /\ NullIsNoSecret /\ ObjectsAreLoaded
    /\ OldSecretsAreDead /\ SessionsAreMade /\ OldPasswordIsCrossed

USE DEF Held, Ended, Secret, Session, Columns

LEMMA NoTaskIsTask == NoTask \in Task /\ NoUser \in User /\ NoSession \in SessionRow
  <1>1. NoUser \in User /\ NoSession \in SessionRow
    BY DEF User, SessionRow, NoUser, NoSession
  <1> QED
    BY <1>1 DEF Task, NoTask

LEMMA InitIInv == Init => IInv
  <1> SUFFICES ASSUME Init PROVE IInv
    OBVIOUS
  <1>1. TypeOK
    <2>1. user \in User
      BY NoTaskIsTask DEF Init, User, NoUser
    <2>2. session \in [Session -> SessionRow]
      BY NoTaskIsTask DEF Init, SessionRow, NoSession
    <2> QED
      BY <2>1, <2>2, NoTaskIsTask DEF Init, TypeOK
  <1>2. UnbornIsNew
    <2>1. user.password \in {NoOne, Earlier} /\ user.resetToken \in {NoOne, Earlier}
      <3>1. user = NoUser \/ user = [NoUser EXCEPT !.password = Earlier,
                                    !.verifyToken = TRUE, !.resetToken = Earlier]
        BY DEF Init
      <3>2. CASE user = NoUser
        BY <3>2 DEF NoUser
      <3>3. CASE user = [NoUser EXCEPT !.password = Earlier,
                                       !.verifyToken = TRUE, !.resetToken = Earlier]
        BY <3>3, NoTaskIsTask DEF User
      <3> QED
        BY <3>1, <3>2, <3>3
    <2>2. \A q \in Request : task[q].copy.password = NoOne /\ task[q].copy.resetToken = NoOne
      BY DEF Init, NoTask, NoUser
    <2>3. replaced = {} /\ used = {}
      BY DEF Init
    <2> QED
      BY <2>1, <2>2, <2>3, NameAssumption DEF UnbornIsNew
  <1>3. NullIsNoSecret /\ OldSecretsAreDead
    BY DEF Init, NullIsNoSecret, OldSecretsAreDead
  <1>4. ObjectsAreLoaded
    BY DEF Init, ObjectsAreLoaded, NewUser, SetsItsOwn, KeepsTheRest, NoTask, NoUser
  <1>5. SessionsAreMade
    <2>1. \A r \in Request : session[r] = NoSession /\ task[r] = NoTask
      BY NameAssumption DEF Init
    <2>2. \A s \in Session : session[s].made # "none" =>
              session[s].valid /\ known /\ s = Earlier
      BY DEF Init, NoSession
    <2>3. \A s \in Session : session[s].valid => session[s].made # "none"
      BY DEF Init, NoSession
    <2>4. \A r \in Request : session[r].made = "none" /\ task[r].pc = "idle"
      <3>1. NoSession.made = "none" /\ NoTask.pc = "idle"
        BY DEF NoTask, NoSession
      <3> QED
        BY <2>1, <3>1
    <2>5. \A r \in Request : MakesOne(r, task[r])
      BY <2>4 DEF MakesOne
    <2> QED
      BY <2>2, <2>3, <2>5 DEF SessionsAreMade
  <1>6. OldPasswordIsCrossed
    BY DEF Init, OldPasswordIsCrossed, CrossedOrNew
  <1> QED
    BY <1>1, <1>2, <1>3, <1>4, <1>5, <1>6 DEF IInv

-----------------------------------------------------------------------------
(* Steps that move one request and nothing else. *)

\* r may move to t.
Sound(r, t) ==
    /\ t \in Task
    /\ Carries(t) => Unborn(r)
    /\ \A q \in Request : q # r /\ Unborn(q) =>
          t.copy.password # q /\ t.copy.resetToken # q
    /\ NewUser(r, t) /\ SetsItsOwn(r, t) /\ KeepsTheRest(t)
    /\ MakesOne(r, t)
    /\ task[r].pc \in {"ending", "half"} => t.pc \in {"ending", "half"}
    /\ ~HalfReset /\ ~revived => CrossedOrNew(t)

LEMMA OneMoves ==
  ASSUME IInv, NEW r \in Request, NEW t, Sound(r, t),
         task' = [task EXCEPT ![r] = t],
         UNCHANGED <<known, user, session, ghosts>>
  PROVE  IInv'
  <1>1. task \in [Request -> Task] /\ t \in Task /\ UNCHANGED <<replaced, used, revived>>
    BY DEF IInv, TypeOK, Sound, ghosts
  <1>2. task' \in [Request -> Task] /\ task'[r] = t
    BY <1>1
  <1>3. \A q \in Request : q # r => task'[q] = task[q]
    BY <1>1
  <1>4. TypeOK'
    BY <1>1, <1>2 DEF IInv, TypeOK
  <1>5. UnbornIsNew'
    BY <1>1, <1>2, <1>3 DEF IInv, UnbornIsNew, Unborn, Sound
  <1>6. NullIsNoSecret' /\ OldSecretsAreDead'
    BY <1>1 DEF IInv, NullIsNoSecret, OldSecretsAreDead
  <1>7. ObjectsAreLoaded'
    BY <1>1, <1>2, <1>3
       DEF IInv, ObjectsAreLoaded, Sound, NewUser, SetsItsOwn, KeepsTheRest
  <1>8. SessionsAreMade'
    BY <1>1, <1>2, <1>3 DEF IInv, SessionsAreMade, Sound, MakesOne
  <1>9. ~HalfReset' => ~HalfReset
    BY <1>1, <1>2, <1>3 DEF HalfReset, Sound
  <1>10. OldPasswordIsCrossed'
    BY <1>1, <1>2, <1>3, <1>9 DEF IInv, OldPasswordIsCrossed, CrossedOrNew, Sound
  <1> QED
    BY <1>4, <1>5, <1>6, <1>7, <1>8, <1>10 DEF IInv

LEMMA OverIsSound ==
  ASSUME IInv, NEW r \in Request, NEW pc \in Ended,
         task[r].pc \in {"ending", "half"} => pc = "half"
  PROVE  Sound(r, [NoTask EXCEPT !.pc = pc])
  <1> DEFINE t == [NoTask EXCEPT !.pc = pc]
  <1>1. t \in Task /\ t.pc = pc /\ t.op = "none" /\ t.by = NoOne /\ t.copy = NoUser
    BY NoTaskIsTask DEF Task, NoTask
  <1> HIDE DEF t
  <1>2. ~Carries(t) /\ NewUser(r, t) /\ SetsItsOwn(r, t) /\ KeepsTheRest(t) /\ MakesOne(r, t)
    BY <1>1 DEF Carries, NewUser, SetsItsOwn, KeepsTheRest, MakesOne
  <1>3. CrossedOrNew(t)
    BY <1>1 DEF CrossedOrNew
  <1>4. \A q \in Request : t.copy.password # q /\ t.copy.resetToken # q
    BY <1>1, NameAssumption DEF NoUser
  <1>5. task[r].pc \in {"ending", "half"} => t.pc \in {"ending", "half"}
    BY <1>1
  <1> QED
    BY <1>1, <1>2, <1>3, <1>4, <1>5 DEF Sound, t

LEMMA BeginIInv ==
  ASSUME IInv, NEW r \in Request, NEW copy \in User, NEW saves \in 0..2, NEW by \in Secret,
         NEW op \in {"register", "login", "verify", "forgot", "reset", "oauth"},
         NEW pc \in {"finding", "inserting", "loaded"},
         \A q \in Request : q # r /\ Unborn(q) =>
             copy.password # q /\ copy.resetToken # q,
         \A t \in Task :
             /\ t.op = op /\ t.pc = pc /\ t.copy = copy /\ t.saves = saves /\ ~t.stale
             => NewUser(r, t) /\ SetsItsOwn(r, t) /\ KeepsTheRest(t),
         ~HalfReset /\ ~revived => by \notin replaced,
         Begin(r, op, pc, copy, saves, by),
         UNCHANGED <<known, user, session, ghosts>>
  PROVE  IInv'
  <1> DEFINE t == [NoTask EXCEPT !.op = op, !.pc = pc, !.copy = copy,
                                 !.saves = saves, !.by = by]
  <1>1. task[r].pc = "idle" /\ task' = [task EXCEPT ![r] = t]
    BY DEF Begin
  <1>2. t \in Task
    BY NoTaskIsTask DEF Task, NoTask
  <1>3. /\ t.op = op /\ t.pc = pc /\ t.copy = copy
        /\ t.saves = saves /\ t.by = by /\ ~t.stale
    BY DEF NoTask
  <1> HIDE DEF t
  <1>4. MakesOne(r, t)
    BY <1>1, <1>3 DEF IInv, SessionsAreMade, MakesOne
  <1>5. Carries(t) => Unborn(r)
    BY <1>1 DEF Carries, Unborn
  <1>6. ~HalfReset /\ ~revived => CrossedOrNew(t)
    BY <1>3 DEF CrossedOrNew
  <1>7. Sound(r, t)
    BY <1>1, <1>2, <1>3, <1>4, <1>5, <1>6 DEF Sound
  <1> QED
    BY <1>1, <1>7, OneMoves

LEMMA RowIsNew ==
  ASSUME IInv
  PROVE  /\ user \in User /\ NoOne \notin Request
         /\ \A q \in Request : Unborn(q) => user.password # q /\ user.resetToken # q
         /\ ~revived => user.password \notin replaced /\ user.resetToken \notin used
  BY NameAssumption DEF IInv, TypeOK, UnbornIsNew, OldSecretsAreDead

LEMMA RegisterReadIInv ==
  ASSUME IInv, NEW r \in Request, RegisterRead(r)
  PROVE  IInv'
  <1> DEFINE copy == [NoUser EXCEPT !.password = r, !.verifyToken = TRUE]
  <1>1. copy \in User /\ copy.password = r /\ copy.resetToken = NoOne
    BY NoTaskIsTask DEF User, NoUser
  <1> HIDE DEF copy
  <1>2. Begin(r, "register", "inserting", copy, 0, r) /\ UNCHANGED <<known, user, session, ghosts>>
    BY DEF RegisterRead, copy
  <1>3. r \notin replaced
    BY <1>2 DEF Begin, IInv, UnbornIsNew, Unborn, Carries
  <1>4. \A t \in Task : t.op = "register" /\ t.pc = "inserting" /\ t.copy = copy
            => NewUser(r, t) /\ SetsItsOwn(r, t) /\ KeepsTheRest(t)
    BY <1>1 DEF NewUser, SetsItsOwn, KeepsTheRest
  <1> QED
    BY <1>1, <1>2, <1>3, <1>4, RowIsNew, BeginIInv

LEMMA LoginReadIInv ==
  ASSUME IInv, NEW r \in Request, LoginRead(r)
  PROVE  IInv'
  <1>1. \A t \in Task : t.op = "login" /\ t.pc = "loaded" /\ t.copy = user
            => NewUser(r, t) /\ SetsItsOwn(r, t) /\ KeepsTheRest(t)
    BY DEF NewUser, SetsItsOwn, KeepsTheRest, LoginRead
  <1>2. user.password \in Secret
    BY RowIsNew DEF User
  <1> QED
    BY <1>1, <1>2, RowIsNew, BeginIInv DEF LoginRead

LEMMA VerifyReadIInv ==
  ASSUME IInv, NEW r \in Request, VerifyRead(r)
  PROVE  IInv'
  <1> DEFINE copy == [user EXCEPT !.verified = TRUE, !.verifyToken = FALSE]
  <1>1. /\ copy \in User /\ copy.password = user.password
        /\ copy.resetToken = user.resetToken /\ copy.verified
    BY RowIsNew DEF User
  <1> HIDE DEF copy
  <1>2. Begin(r, "verify", "loaded", copy, 1, NoOne) /\ UNCHANGED <<known, user, session, ghosts>>
        /\ known
    BY DEF VerifyRead, copy
  <1>3. \A t \in Task : t.op = "verify" /\ t.pc = "loaded" /\ t.copy = copy
            => NewUser(r, t) /\ SetsItsOwn(r, t) /\ KeepsTheRest(t)
    BY <1>1, <1>2 DEF NewUser, SetsItsOwn, KeepsTheRest
  <1> QED
    BY <1>1, <1>2, <1>3, RowIsNew, BeginIInv DEF IInv, NullIsNoSecret

LEMMA ForgotReadIInv ==
  ASSUME IInv, NEW r \in Request, ForgotRead(r)
  PROVE  IInv'
  <1> DEFINE copy == [user EXCEPT !.resetToken = r]
  <1>1. /\ copy \in User /\ copy.password = user.password
        /\ copy.resetToken = r /\ copy.verified = user.verified
    BY RowIsNew DEF User
  <1> HIDE DEF copy
  <1>2. Begin(r, "forgot", "loaded", copy, 1, NoOne) /\ UNCHANGED <<known, user, session, ghosts>>
        /\ known
    BY DEF ForgotRead, copy
  <1>3. \A t \in Task : t.op = "forgot" /\ t.pc = "loaded" /\ t.copy = copy /\ t.saves = 1
            => NewUser(r, t) /\ SetsItsOwn(r, t) /\ KeepsTheRest(t)
    BY <1>1, <1>2 DEF NewUser, SetsItsOwn, KeepsTheRest
  <1> QED
    BY <1>1, <1>2, <1>3, RowIsNew, BeginIInv DEF IInv, NullIsNoSecret

LEMMA ResetReadIInv ==
  ASSUME IInv, NEW r \in Request, ResetRead(r)
  PROVE  IInv'
  <1> DEFINE copy == [user EXCEPT !.password = r, !.resetToken = NoOne]
  <1>1. /\ copy \in User /\ copy.password = r
        /\ copy.resetToken = NoOne /\ copy.verified = user.verified
    BY RowIsNew DEF User
  <1> HIDE DEF copy
  <1>2. Begin(r, "reset", "loaded", copy, 1, NoOne) /\ UNCHANGED <<known, user, session, ghosts>>
        /\ known
    BY DEF ResetRead, copy
  <1>3. \A t \in Task : t.op = "reset" /\ t.pc = "loaded" /\ t.copy = copy /\ t.saves = 1
            => NewUser(r, t) /\ SetsItsOwn(r, t) /\ KeepsTheRest(t)
    BY <1>1, <1>2 DEF NewUser, SetsItsOwn, KeepsTheRest
  <1> QED
    BY <1>1, <1>2, <1>3, RowIsNew, BeginIInv DEF IInv, NullIsNoSecret

LEMMA OAuthFindIInv ==
  ASSUME IInv, NEW r \in Request, NEW p \in Provider, OAuthFind(r, p)
  PROVE  IInv'
  <1>1. CASE known /\ user.provider = p
    <2>1. \A t \in Task : t.op = "oauth" /\ t.pc = "loaded" /\ t.copy = user
              => NewUser(r, t) /\ SetsItsOwn(r, t) /\ KeepsTheRest(t)
      BY <1>1 DEF NewUser, SetsItsOwn, KeepsTheRest
    <2> QED
      BY <1>1, <2>1, RowIsNew, BeginIInv DEF OAuthFind, IInv, NullIsNoSecret
  <1>2. CASE ~(known /\ user.provider = p)
    <2> DEFINE copy == [NoUser EXCEPT !.provider = p, !.providerId = p, !.verified = TRUE]
    <2>1. copy \in User /\ copy.password = NoOne /\ copy.resetToken = NoOne
      BY NoTaskIsTask DEF User, NoUser
    <2> HIDE DEF copy
    <2>2. Begin(r, "oauth", "finding", copy, 1, NoOne) /\ UNCHANGED <<known, user, session, ghosts>>
      BY <1>2 DEF OAuthFind, copy
    <2>3. \A t \in Task : t.op = "oauth" /\ t.pc = "finding" /\ t.copy = copy
              => NewUser(r, t) /\ SetsItsOwn(r, t) /\ KeepsTheRest(t)
      BY <2>1 DEF NewUser, SetsItsOwn, KeepsTheRest
    <2> QED
      BY <2>1, <2>2, <2>3, RowIsNew, BeginIInv DEF IInv, NullIsNoSecret
  <1> QED
    BY <1>1, <1>2

LEMMA OverIInv ==
  ASSUME IInv, NEW r \in Request, NEW pc \in Ended,
         task[r].pc \in {"ending", "half"} => pc = "half",
         task' = Over(r, pc), UNCHANGED <<known, user, session, ghosts>>
  PROVE  IInv'
  BY OverIsSound, OneMoves DEF Over

LEMMA RequestFailsIInv ==
  ASSUME IInv, NEW r \in Request, RequestFails(r)
  PROVE  IInv'
  BY OverIInv DEF RequestFails, UnderWay

\* What is left of a request that has dropped its User object.
Dropped(r, pc) == [NoTask EXCEPT !.op = task[r].op, !.pc = pc, !.by = task[r].by,
                                 !.crossed = task[r].crossed]

LEMMA DroppedTask ==
  ASSUME IInv, NEW r \in Request, NEW pc \in {"mailing", "ending", "issuing"}
  PROVE  LET t == Dropped(r, pc)
         IN  /\ t \in Task /\ t.pc = pc /\ t.op = task[r].op /\ t.by = task[r].by
             /\ t.crossed = task[r].crossed /\ t.copy = NoUser
             /\ ~Carries(t) /\ NewUser(r, t) /\ SetsItsOwn(r, t) /\ KeepsTheRest(t)
             /\ \A q \in Request : t.copy.password # q /\ t.copy.resetToken # q
  <1> DEFINE t == Dropped(r, pc)
  <1>1. task[r] \in Task
    BY DEF IInv, TypeOK
  <1>2. t \in Task
    BY <1>1, NoTaskIsTask DEF Task, NoTask, Dropped
  <1>3. /\ t.pc = pc /\ t.op = task[r].op /\ t.by = task[r].by
        /\ t.crossed = task[r].crossed /\ t.copy = NoUser
    BY DEF NoTask, Dropped
  <1> HIDE DEF t
  <1>4. ~Carries(t) /\ NewUser(r, t) /\ SetsItsOwn(r, t) /\ KeepsTheRest(t)
    BY <1>3 DEF Carries, NewUser, SetsItsOwn, KeepsTheRest
  <1>5. \A q \in Request : t.copy.password # q /\ t.copy.resetToken # q
    BY <1>3, NameAssumption DEF NoUser
  <1> QED
    BY <1>2, <1>3, <1>4, <1>5 DEF t

LEMMA QueueMailIInv ==
  ASSUME IInv, NEW r \in Request, QueueMail(r)
  PROVE  IInv'
  <1>1. CASE task[r].op = "register"
    <2> DEFINE t == Dropped(r, "issuing")
    <2>1. /\ task[r].pc = "mailing" /\ task' = [task EXCEPT ![r] = t]
          /\ UNCHANGED <<known, user, session, ghosts>>
      BY <1>1 DEF QueueMail, Drop, Dropped
    <2>2. /\ t \in Task /\ t.pc = "issuing" /\ t.by = task[r].by
          /\ t.crossed = task[r].crossed
          /\ ~Carries(t) /\ NewUser(r, t) /\ SetsItsOwn(r, t) /\ KeepsTheRest(t)
          /\ \A q \in Request : t.copy.password # q /\ t.copy.resetToken # q
      BY DroppedTask
    <2> HIDE DEF t
    <2>3. MakesOne(r, t)
      BY <2>1, <2>2 DEF IInv, SessionsAreMade, MakesOne
    <2>4. ~HalfReset /\ ~revived => CrossedOrNew(t)
      BY <2>1, <2>2 DEF IInv, OldPasswordIsCrossed, CrossedOrNew
    <2>5. Sound(r, t)
      BY <2>1, <2>2, <2>3, <2>4 DEF Sound
    <2> QED
      BY <2>1, <2>5, OneMoves
  <1>2. CASE task[r].op # "register"
    BY <1>2, OverIInv DEF QueueMail
  <1> QED
    BY <1>1, <1>2

LEMMA RefreshReadIInv ==
  ASSUME IInv, NEW r \in Request, NEW s \in Session, RefreshRead(r, s)
  PROVE  IInv'
  <1> DEFINE t == [NoTask EXCEPT !.pc = "issuing", !.by = session[s].by,
                                 !.crossed = session[s].crossed]
  <1>1. /\ task[r].pc = "idle" /\ session[s].valid /\ task' = [task EXCEPT ![r] = t]
        /\ UNCHANGED <<known, user, session, ghosts>>
    BY DEF RefreshRead
  <1>2. session[s] \in SessionRow
    BY DEF IInv, TypeOK
  <1>3. t \in Task
    BY <1>2, NoTaskIsTask DEF Task, NoTask, SessionRow
  <1>4. /\ t.op = "none" /\ t.pc = "issuing" /\ t.by = session[s].by
        /\ t.crossed = session[s].crossed /\ t.copy = NoUser
    BY DEF NoTask
  <1> HIDE DEF t
  <1>5. ~Carries(t) /\ NewUser(r, t) /\ SetsItsOwn(r, t) /\ KeepsTheRest(t)
    BY <1>4 DEF Carries, NewUser, SetsItsOwn, KeepsTheRest
  <1>6. MakesOne(r, t)
    BY <1>1, <1>4 DEF IInv, SessionsAreMade, MakesOne
  <1>7. ~HalfReset /\ ~revived => CrossedOrNew(t)
    BY <1>1, <1>4 DEF IInv, OldPasswordIsCrossed, CrossedOrNew
  <1>8. \A q \in Request : t.copy.password # q /\ t.copy.resetToken # q
    BY <1>4, NameAssumption DEF NoUser
  <1>9. Sound(r, t)
    BY <1>1, <1>3, <1>5, <1>6, <1>7, <1>8 DEF Sound
  <1> QED
    BY <1>1, <1>9, OneMoves

LEMMA DiffSessionIInv ==
  ASSUME IInv, NEW r \in Request, DiffSession(r)
  PROVE  IInv'
  <1> DEFINE t == [task[r] EXCEPT !.pc = "tokening", !.revive = ~session[r].valid]
  <1>1. task[r].pc = "inserted" /\ UNCHANGED <<known, user, session, ghosts>>
    BY DEF DiffSession
  <1>2. task \in [Request -> Task] /\ task[r] \in Task /\ session[r] \in SessionRow
    BY DEF IInv, TypeOK
  <1>3. task' = [task EXCEPT ![r] = t]
    BY <1>2 DEF DiffSession
  <1>4. t \in Task
    BY <1>2 DEF Task, SessionRow
  <1>5. /\ t.op = task[r].op /\ t.pc = "tokening" /\ t.by = task[r].by
        /\ t.crossed = task[r].crossed /\ t.copy = task[r].copy
    BY <1>2 DEF Task
  <1> HIDE DEF t
  <1>6. ~Carries(t) /\ NewUser(r, t) /\ SetsItsOwn(r, t) /\ KeepsTheRest(t)
    BY <1>5 DEF Carries, NewUser, SetsItsOwn, KeepsTheRest
  <1>7. MakesOne(r, t)
    BY <1>1, <1>5 DEF IInv, SessionsAreMade, MakesOne
  <1>8. ~HalfReset /\ ~revived => CrossedOrNew(t)
    BY <1>1, <1>5 DEF IInv, OldPasswordIsCrossed, CrossedOrNew
  <1>9. \A q \in Request : q # r /\ Unborn(q) =>
            t.copy.password # q /\ t.copy.resetToken # q
    BY <1>5 DEF IInv, UnbornIsNew
  <1>10. Sound(r, t)
    BY <1>1, <1>4, <1>6, <1>7, <1>8, <1>9 DEF Sound
  <1> QED
    BY <1>1, <1>3, <1>10, OneMoves

LEMMA DiffIInv ==
  ASSUME IInv, NEW r \in Request, Diff(r)
  PROVE  IInv'
  <1> DEFINE cols == {c \in Columns : task[r].copy[c] # user[c]}
             t == [task[r] EXCEPT !.pc = "saving", !.cols = cols]
  <1>1. task[r].pc = "loaded" /\ UNCHANGED <<known, user, session, ghosts>>
    BY DEF Diff
  <1>2. task \in [Request -> Task] /\ task[r] \in Task
    BY DEF IInv, TypeOK
  <1>3. task' = [task EXCEPT ![r] = t]
    BY <1>2 DEF Diff
  <1>4. t \in Task
    BY <1>2 DEF Task
  <1>5. /\ t.op = task[r].op /\ t.pc = "saving" /\ t.by = task[r].by /\ t.cols = cols
        /\ t.crossed = task[r].crossed /\ t.copy = task[r].copy
        /\ t.stale = task[r].stale /\ t.saves = task[r].saves
    BY <1>2 DEF Task
  <1> HIDE DEF t
  <1>6. Carries(t) => Unborn(r)
    BY <1>1, <1>5 DEF Carries, Unborn
  <1>7. task[r].op = "reset" => "password" \in cols
    BY <1>1 DEF IInv, ObjectsAreLoaded, SetsItsOwn, UnbornIsNew, Unborn, Carries
  <1>8. NewUser(r, t) /\ SetsItsOwn(r, t)
    BY <1>1, <1>5, <1>7 DEF IInv, ObjectsAreLoaded, NewUser, SetsItsOwn
  <1>9. KeepsTheRest(t)
    BY <1>1, <1>5 DEF IInv, ObjectsAreLoaded, KeepsTheRest
  <1>10. MakesOne(r, t)
    BY <1>1, <1>5 DEF IInv, SessionsAreMade, MakesOne
  <1>11. ~HalfReset /\ ~revived => CrossedOrNew(t)
    BY <1>1, <1>5 DEF IInv, OldPasswordIsCrossed, CrossedOrNew
  <1>12. \A q \in Request : q # r /\ Unborn(q) =>
            t.copy.password # q /\ t.copy.resetToken # q
    BY <1>5 DEF IInv, UnbornIsNew
  <1>13. Sound(r, t)
    BY <1>1, <1>4, <1>6, <1>8, <1>9, <1>10, <1>11, <1>12 DEF Sound
  <1> QED
    BY <1>1, <1>3, <1>13, OneMoves

LEMMA OAuthFindByEmailIInv ==
  ASSUME IInv, NEW r \in Request, OAuthFindByEmail(r)
  PROVE  IInv'
  <1>1. /\ task[r].pc = "finding" /\ task[r].op = "oauth"
        /\ UNCHANGED <<known, user, session, ghosts>>
    BY DEF OAuthFindByEmail, IInv, ObjectsAreLoaded, NewUser
  <1>2. task \in [Request -> Task] /\ task[r] \in Task
    BY DEF IInv, TypeOK
  <1>3. ASSUME NEW t \in Task, task' = [task EXCEPT ![r] = t],
               t.pc \in {"loaded", "inserting"}, t.op = "oauth", t.by = task[r].by,
               t.crossed = task[r].crossed,
               NewUser(r, t) /\ SetsItsOwn(r, t) /\ KeepsTheRest(t),
               \A q \in Request : q # r /\ Unborn(q) =>
                   t.copy.password # q /\ t.copy.resetToken # q
        PROVE  IInv'
    <2>1. ~Carries(t) /\ MakesOne(r, t)
      BY <1>1, <1>3 DEF Carries, IInv, SessionsAreMade, MakesOne
    <2>2. ~HalfReset /\ ~revived => CrossedOrNew(t)
      BY <1>1, <1>3 DEF IInv, OldPasswordIsCrossed, CrossedOrNew
    <2>3. Sound(r, t)
      BY <1>1, <1>3, <2>1, <2>2 DEF Sound
    <2> QED
      BY <1>1, <1>3, <2>3, OneMoves
  <1>4. CASE known
    <2> DEFINE copy == [user EXCEPT !.providerId = task[r].copy.provider, !.verified = TRUE]
               t == [task[r] EXCEPT !.pc = "loaded", !.saves = 2, !.copy = copy]
    <2>1. task[r].copy.provider \in Provider \union {NoOne}
      BY <1>2 DEF Task, User
    <2>2. /\ copy \in User /\ copy.password = user.password
          /\ copy.resetToken = user.resetToken /\ copy.verified
      BY <2>1, RowIsNew DEF User
    <2> HIDE DEF copy
    <2>3. task' = [task EXCEPT ![r] = t]
      BY <1>2, <1>4 DEF OAuthFindByEmail, copy
    <2>4. t \in Task
      <3>1. \A n \in 0..2 : [task[r] EXCEPT !.pc = "loaded", !.saves = n, !.copy = copy] \in Task
        BY <1>2, <2>2 DEF Task
      <3>2. 2 \in 0..2
        OBVIOUS
      <3> HIDE DEF copy
      <3> QED
        BY <3>1, <3>2
    <2>5. /\ t.op = "oauth" /\ t.pc = "loaded" /\ t.by = task[r].by
          /\ t.crossed = task[r].crossed /\ t.copy = copy
      BY <1>1, <1>2 DEF Task
    <2> HIDE DEF t
    <2>6. NewUser(r, t) /\ SetsItsOwn(r, t) /\ KeepsTheRest(t)
      BY <1>4, <2>2, <2>5 DEF NewUser, SetsItsOwn, KeepsTheRest
    <2> QED
      BY <1>3, <2>2, <2>3, <2>4, <2>5, <2>6, RowIsNew
  <1>5. CASE ~known
    <2> DEFINE t == [task[r] EXCEPT !.pc = "inserting"]
    <2>1. task' = [task EXCEPT ![r] = t]
      BY <1>2, <1>5 DEF OAuthFindByEmail
    <2>2. t \in Task
      BY <1>2 DEF Task
    <2>3. /\ t.op = "oauth" /\ t.pc = "inserting" /\ t.by = task[r].by
          /\ t.crossed = task[r].crossed /\ t.copy = task[r].copy
      BY <1>1, <1>2 DEF Task
    <2> HIDE DEF t
    <2>4. NewUser(r, t) /\ SetsItsOwn(r, t) /\ KeepsTheRest(t)
      BY <1>1, <2>3 DEF IInv, ObjectsAreLoaded, NewUser, SetsItsOwn, KeepsTheRest
    <2>5. \A q \in Request : q # r /\ Unborn(q) =>
              t.copy.password # q /\ t.copy.resetToken # q
      BY <2>3 DEF IInv, UnbornIsNew
    <2> QED
      BY <1>3, <2>1, <2>2, <2>3, <2>4, <2>5
  <1> QED
    BY <1>4, <1>5

-----------------------------------------------------------------------------
(* Steps that move sessions. *)

LEMMA RowStays ==
  ASSUME IInv, UNCHANGED <<known, user, ghosts>>,
         task' \in [Request -> Task], session' \in [Session -> SessionRow],
         \A q \in Request :
             \/ /\ task'[q].pc = task[q].pc /\ task'[q].op = task[q].op
                /\ task'[q].copy = task[q].copy /\ task'[q].cols = task[q].cols
                /\ task'[q].saves = task[q].saves /\ task'[q].stale = task[q].stale
             \/ task'[q].pc \in {"over", "inserted"} /\ task'[q].copy = NoUser
  PROVE  TypeOK' /\ UnbornIsNew' /\ NullIsNoSecret' /\ ObjectsAreLoaded' /\ OldSecretsAreDead'
  <1>1. UNCHANGED <<known, user, replaced, used, revived>>
    BY DEF ghosts
  <1>2. TypeOK'
    BY <1>1 DEF IInv, TypeOK
  <1>3. NoUser.password = NoOne /\ NoUser.resetToken = NoOne
    BY DEF NoUser
  <1>4. UnbornIsNew'
    BY <1>1, <1>3, NameAssumption DEF IInv, UnbornIsNew, Unborn, Carries
  <1>5. ObjectsAreLoaded'
    <2> SUFFICES ASSUME NEW q \in Request
                 PROVE  (NewUser(q, task[q]) /\ SetsItsOwn(q, task[q]) /\ KeepsTheRest(task[q]))'
      BY <1>1 DEF IInv, ObjectsAreLoaded
    <2>1. NewUser(q, task[q]) /\ SetsItsOwn(q, task[q]) /\ KeepsTheRest(task[q])
      BY DEF IInv, ObjectsAreLoaded
    <2> QED
      BY <1>1, <2>1 DEF NewUser, SetsItsOwn, KeepsTheRest
  <1> QED
    BY <1>1, <1>2, <1>4, <1>5 DEF IInv, NullIsNoSecret, OldSecretsAreDead

LEMMA OverTask ==
  ASSUME NEW pc \in Ended \union {"inserted"}
  PROVE  LET t == [NoTask EXCEPT !.pc = pc]
         IN  t \in Task /\ t.pc = pc /\ t.copy = NoUser /\ t.by = NoOne
  BY NoTaskIsTask DEF Task, NoTask

LEMMA LogoutIInv ==
  ASSUME IInv, NEW r \in Request, NEW s \in Session, Logout(r, s)
  PROVE  IInv'
  <1>1. /\ task \in [Request -> Task] /\ session \in [Session -> SessionRow]
        /\ UNCHANGED <<known, user, ghosts>> /\ UNCHANGED <<replaced, used, revived>>
        /\ task[r].pc = "idle" /\ session[s].made = "tokened"
    BY DEF Logout, IInv, TypeOK, ghosts
  <1>2. /\ task' \in [Request -> Task] /\ task'[r].pc = "over" /\ task'[r].copy = NoUser
        /\ task'[r].by = NoOne /\ \A q \in Request : q # r => task'[q] = task[q]
    BY <1>1, OverTask DEF Logout
  <1>3. /\ session' \in [Session -> SessionRow]
        /\ \A q \in Session : q # s => session'[q] = session[q]
        /\ session'[s].made = "tokened" /\ ~session'[s].valid /\ session'[s].ended
    BY <1>1 DEF Logout, SessionRow
  <1>4. TypeOK' /\ UnbornIsNew' /\ NullIsNoSecret' /\ ObjectsAreLoaded' /\ OldSecretsAreDead'
    BY <1>1, <1>2, <1>3, RowStays
  <1>5. SessionsAreMade'
    BY <1>1, <1>2, <1>3 DEF IInv, SessionsAreMade, MakesOne
  <1>6. ~HalfReset' => ~HalfReset
    BY <1>1, <1>2 DEF HalfReset
  <1>7. OldPasswordIsCrossed'
    BY <1>1, <1>2, <1>3, <1>6 DEF IInv, OldPasswordIsCrossed, CrossedOrNew
  <1> QED
    BY <1>4, <1>5, <1>7 DEF IInv

LEMMA InsertSessionIInv ==
  ASSUME IInv, NEW r \in Request, InsertSession(r)
  PROVE  IInv'
  <1>1. /\ task \in [Request -> Task] /\ session \in [Session -> SessionRow]
        /\ UNCHANGED <<known, user, ghosts>> /\ UNCHANGED <<replaced, used, revived>>
        /\ task[r].pc = "issuing" /\ task[r] \in Task
    BY DEF InsertSession, IInv, TypeOK, ghosts
  <1>2. /\ task' \in [Request -> Task] /\ task'[r].pc = "inserted" /\ task'[r].copy = NoUser
        /\ task'[r].by = NoOne /\ \A q \in Request : q # r => task'[q] = task[q]
    BY <1>1, OverTask DEF InsertSession, Over
  <1> DEFINE new == [NoSession EXCEPT !.made = "bare", !.valid = TRUE,
                                      !.by = task[r].by, !.crossed = task[r].crossed]
  <1>3. /\ new \in SessionRow /\ new.made = "bare" /\ new.valid
        /\ new.by = task[r].by /\ new.crossed = task[r].crossed
    BY <1>1 DEF NoSession, SessionRow, Task
  <1>4. session' = [session EXCEPT ![r] = new]
    BY DEF InsertSession
  <1> HIDE DEF new
  <1>5. /\ session' \in [Session -> SessionRow] /\ session'[r] = new
        /\ \A q \in Session : q # r => session'[q] = session[q]
    BY <1>1, <1>3, <1>4
  <1>6. TypeOK' /\ UnbornIsNew' /\ NullIsNoSecret' /\ ObjectsAreLoaded' /\ OldSecretsAreDead'
    BY <1>1, <1>2, <1>5, RowStays
  <1>7. SessionsAreMade'
    BY <1>1, <1>2, <1>3, <1>5 DEF IInv, SessionsAreMade, MakesOne
  <1>8. ~HalfReset' => ~HalfReset
    BY <1>1, <1>2 DEF HalfReset
  <1>9. OldPasswordIsCrossed'
    BY <1>1, <1>2, <1>3, <1>5, <1>8 DEF IInv, OldPasswordIsCrossed, CrossedOrNew, NullIsNoSecret
  <1> QED
    BY <1>6, <1>7, <1>9 DEF IInv

LEMMA StoreSessionIInv ==
  ASSUME IInv, NEW r \in Request, StoreSession(r)
  PROVE  IInv'
  <1>1. /\ task \in [Request -> Task] /\ session \in [Session -> SessionRow]
        /\ UNCHANGED <<known, user, ghosts>> /\ UNCHANGED <<replaced, used, revived>>
        /\ task[r].pc = "tokening" /\ task[r] \in Task /\ session[r].made = "bare"
    BY DEF StoreSession, IInv, TypeOK, ghosts, SessionsAreMade, MakesOne
  <1>2. /\ task' \in [Request -> Task] /\ task'[r].pc = "over" /\ task'[r].copy = NoUser
        /\ task'[r].by = NoOne /\ \A q \in Request : q # r => task'[q] = task[q]
    BY <1>1, OverTask DEF StoreSession, Over
  <1>3. task[r].revive \in BOOLEAN
    BY <1>1 DEF Task
  <1>4. /\ session' \in [Session -> SessionRow]
        /\ \A q \in Session : q # r => session'[q] = session[q]
        /\ session'[r].made = "tokened" /\ session'[r].by = session[r].by
        /\ session'[r].crossed = session[r].crossed /\ session'[r].ended = session[r].ended
        /\ session[r].valid => session'[r].valid
    BY <1>1, <1>3 DEF StoreSession, SessionRow
  <1>5. TypeOK' /\ UnbornIsNew' /\ NullIsNoSecret' /\ ObjectsAreLoaded' /\ OldSecretsAreDead'
    BY <1>1, <1>2, <1>4, RowStays
  <1>6. SessionsAreMade'
    BY <1>1, <1>2, <1>4 DEF IInv, SessionsAreMade, MakesOne
  <1>7. ~HalfReset' => ~HalfReset
    BY <1>1, <1>2 DEF HalfReset
  <1>8. OldPasswordIsCrossed'
    BY <1>1, <1>2, <1>4, <1>7 DEF IInv, OldPasswordIsCrossed, CrossedOrNew
  <1> QED
    BY <1>5, <1>6, <1>8 DEF IInv

LEMMA EndSessionsIInv ==
  ASSUME IInv, NEW r \in Request, EndSessions(r)
  PROVE  IInv'
  <1>1. /\ task \in [Request -> Task] /\ session \in [Session -> SessionRow]
        /\ UNCHANGED <<known, user, ghosts>> /\ UNCHANGED <<replaced, used, revived>>
        /\ task[r].pc = "ending"
    BY DEF EndSessions, IInv, TypeOK, ghosts
  <1>2. task'[r] = [NoTask EXCEPT !.pc = "over"]
    <2>1. Over(r, "over")[r] = [NoTask EXCEPT !.pc = "over"]
      BY <1>1 DEF Over
    <2> QED
      BY <2>1 DEF EndSessions
  <1>3. task'[r] \in Task /\ task'[r].pc = "over" /\ task'[r].copy = NoUser
    BY <1>2, OverTask
  <1>4. \A q \in Request : q # r =>
            task'[q] = IF UnderWay(q) THEN [task[q] EXCEPT !.crossed = TRUE] ELSE task[q]
    BY <1>1 DEF EndSessions, Over
  <1>5. ASSUME NEW q \in Request, q # r
        PROVE  /\ task'[q] \in Task
               /\ task'[q].pc = task[q].pc /\ task'[q].op = task[q].op
               /\ task'[q].copy = task[q].copy /\ task'[q].cols = task[q].cols
               /\ task'[q].saves = task[q].saves /\ task'[q].stale = task[q].stale
               /\ UnderWay(q) => task'[q].crossed
    <2>1. task[q] \in Task
      BY <1>1
    <2>2. LET t == [task[q] EXCEPT !.crossed = TRUE]
          IN  /\ t \in Task /\ t.pc = task[q].pc /\ t.op = task[q].op
              /\ t.copy = task[q].copy /\ t.cols = task[q].cols
              /\ t.saves = task[q].saves /\ t.stale = task[q].stale /\ t.crossed
      BY <2>1 DEF Task
    <2>3. CASE UnderWay(q)
      BY <1>4, <1>5, <2>2, <2>3
    <2>4. CASE ~UnderWay(q)
      BY <1>4, <1>5, <2>1, <2>4
    <2> QED
      BY <2>3, <2>4
  <1>6. task' \in [Request -> Task]
    <2>1. \E f : task' = [q \in Request |-> f[q]]
      <3>1. task' = [q \in Request |-> task'[q]]
        BY DEF EndSessions
      <3> QED
        BY <3>1
    <2> QED
      BY <1>3, <1>5, <2>1
  <1>7. \A s \in Session :
          /\ session'[s] \in SessionRow
          /\ session'[s].made = session[s].made /\ session'[s].by = session[s].by
          /\ session[s].made = "none" => session'[s] = session[s]
          /\ session[s].made # "none" =>
                /\ ~session'[s].valid /\ session'[s].ended
                /\ session[s].made = "bare" => session'[s].crossed
    BY <1>1 DEF EndSessions, SessionRow
  <1>8. session' \in [Session -> SessionRow]
    BY <1>1 DEF EndSessions, SessionRow
  <1>9. TypeOK' /\ UnbornIsNew' /\ NullIsNoSecret' /\ ObjectsAreLoaded' /\ OldSecretsAreDead'
    BY <1>1, <1>3, <1>5, <1>6, <1>8, RowStays
  <1>10. SessionsAreMade'
    BY <1>1, <1>3, <1>5, <1>7 DEF IInv, SessionsAreMade, MakesOne
  <1>11. OldPasswordIsCrossed'
    BY <1>1, <1>3, <1>5, <1>7
       DEF IInv, OldPasswordIsCrossed, CrossedOrNew, SessionsAreMade, UnderWay
  <1> QED
    BY <1>9, <1>10, <1>11 DEF IInv

-----------------------------------------------------------------------------
(* Steps that write the row. *)

LEMMA InsertIInv ==
  ASSUME IInv, NEW r \in Request, Insert(r)
  PROVE  IInv'
  <1>1. /\ task \in [Request -> Task] /\ task[r] \in Task
        /\ UNCHANGED session /\ UNCHANGED <<replaced, used, revived>>
        /\ task[r].pc = "inserting" /\ NewUser(r, task[r])
    BY DEF Insert, IInv, TypeOK, ghosts, ObjectsAreLoaded
  <1>2. CASE known
    <2>1. task' = Over(r, "over") /\ UNCHANGED <<known, user, session, ghosts>>
      BY <1>2 DEF Insert, IInv, TypeOK
    <2> QED
      BY <1>1, <2>1, OverIInv
  <1>3. CASE ~known
    <2>1. known' /\ known' \in BOOLEAN /\ user' = task[r].copy /\ task[r].copy \in User
      BY <1>1, <1>3 DEF Insert, Task
    <2>2. \A q \in Request : task[q].pc \notin Held
      BY <1>3 DEF IInv, ObjectsAreLoaded, SetsItsOwn
    <2>3. /\ task' \in [Request -> Task]
          /\ \A q \in Request : q # r => task'[q] = task[q]
          /\ task'[r].by = task[r].by /\ task'[r].crossed = task[r].crossed
          /\ \/ /\ task'[r].pc = "mailing" /\ task'[r].copy = NoUser /\ task[r].op = "register"
             \/ /\ task'[r].pc = "loaded" /\ task'[r].op = "oauth"
                /\ task'[r].copy = task[r].copy
      <3>1. CASE task[r].op = "register"
        <4>1. task' = [task EXCEPT ![r] = Dropped(r, "mailing")]
          BY <1>3, <3>1 DEF Insert, Drop, Dropped
        <4> QED
          BY <1>1, <3>1, <4>1, DroppedTask
      <3>2. CASE task[r].op = "oauth"
        <4>1. task' = [task EXCEPT ![r].pc = "loaded"]
          BY <1>3, <3>2 DEF Insert
        <4>2. LET t == [task[r] EXCEPT !.pc = "loaded"]
              IN  /\ t \in Task /\ t.pc = "loaded" /\ t.op = task[r].op /\ t.by = task[r].by
                  /\ t.crossed = task[r].crossed /\ t.copy = task[r].copy
          BY <1>1 DEF Task
        <4> QED
          BY <1>1, <3>2, <4>1, <4>2
      <3> QED
        BY <1>1, <3>1, <3>2 DEF NewUser
    <2>4. TypeOK'
      BY <1>1, <2>1, <2>3 DEF IInv, TypeOK
    <2>5. UnbornIsNew'
      <3>1. NoUser.password = NoOne /\ NoUser.resetToken = NoOne
        BY DEF NoUser
      <3>2. ~Unborn(r)'
        BY <2>3 DEF Unborn, Carries
      <3> QED
        BY <1>1, <2>1, <2>3, <3>1, <3>2, NameAssumption DEF IInv, UnbornIsNew, Unborn, Carries
    <2>6. NullIsNoSecret'
      BY <1>1 DEF IInv, NullIsNoSecret
    <2>7. OldSecretsAreDead'
      <3>1. task[r].op = "register" => r \notin replaced
        BY <1>1 DEF IInv, UnbornIsNew, Unborn, Carries
      <3> QED
        BY <1>1, <2>1, <3>1 DEF IInv, OldSecretsAreDead, NullIsNoSecret, NewUser
    <2>8. ObjectsAreLoaded'
      <3> SUFFICES ASSUME NEW q \in Request
                   PROVE  (NewUser(q, task[q]) /\ SetsItsOwn(q, task[q]) /\ KeepsTheRest(task[q]))'
        BY <2>1 DEF ObjectsAreLoaded
      <3>1. CASE q # r
        BY <2>2, <2>3, <3>1 DEF IInv, ObjectsAreLoaded, NewUser, SetsItsOwn, KeepsTheRest
      <3>2. CASE q = r
        BY <2>1, <2>3, <3>2 DEF NewUser, SetsItsOwn, KeepsTheRest
      <3> QED
        BY <3>1, <3>2
    <2>9. SessionsAreMade'
      BY <1>1, <2>3 DEF IInv, SessionsAreMade, MakesOne
    <2>10. ~HalfReset' => ~HalfReset
      BY <1>1, <2>3 DEF HalfReset
    <2>11. OldPasswordIsCrossed'
      BY <1>1, <2>3, <2>10 DEF IInv, OldPasswordIsCrossed, CrossedOrNew
    <2> QED
      BY <2>4, <2>5, <2>6, <2>7, <2>8, <2>9, <2>11 DEF IInv
  <1> QED
    BY <1>2, <1>3

\* What an UPDATE of the columns cols makes of the row.
LEMMA Merging ==
  ASSUME NEW row \in User, NEW copy \in User, NEW cols \in SUBSET Columns
  PROVE  LET m == Merge(row, copy, cols)
         IN  /\ m \in User
             /\ \A c \in Columns : m[c] = IF c \in cols THEN copy[c] ELSE row[c]
  <1>1. DOMAIN row = {"password", "resetToken", "verifyToken", "verified",
                      "provider", "providerId"}
    BY DEF User
  <1> DEFINE m == Merge(row, copy, cols)
  <1>2. \A c \in DOMAIN row : m[c] = IF c \in cols THEN copy[c] ELSE row[c]
    BY DEF Merge
  <1>3. m \in User
    BY DEF Merge, User
  <1> QED
    BY <1>1, <1>2, <1>3

\* The task of r after its save, and those of the others.
LEMMA StoreTasks ==
  ASSUME IInv, NEW r \in Request, Store(r)
  PROVE  /\ task' \in [Request -> Task]
         /\ \A q \in Request : q # r =>
               /\ task'[q].pc = task[q].pc /\ task'[q].op = task[q].op
               /\ task'[q].copy = task[q].copy /\ task'[q].cols = task[q].cols
               /\ task'[q].saves = task[q].saves /\ task'[q].by = task[q].by
               /\ task'[q].crossed = task[q].crossed
               /\ ~task'[q].stale => ~task[q].stale
               /\ ~task'[q].stale /\ task[q].pc \in Held => task[r].cols = {}
         /\ \/ /\ task[r].saves = 2 /\ task'[r].pc = "loaded" /\ task'[r].op = task[r].op
               /\ task'[r].copy = task[r].copy /\ task'[r].by = task[r].by
               /\ task'[r].crossed = task[r].crossed /\ task'[r].stale = task[r].stale
            \/ /\ task[r].saves # 2 /\ task'[r].copy = NoUser
               /\ \/ /\ task[r].op \in {"login", "oauth", "forgot", "reset"}
                     /\ task'[r].pc \in {"issuing", "mailing", "ending"}
                     /\ task'[r].by = task[r].by /\ task'[r].crossed = task[r].crossed
                     /\ task[r].op = "reset" => task'[r].pc = "ending"
                  \/ task[r].op = "verify" /\ task'[r].pc = "over"
  <1>1. /\ task \in [Request -> Task] /\ task[r] \in Task /\ task[r].pc = "saving"
        /\ task[r].op \in {"login", "verify", "forgot", "reset", "oauth"}
    BY DEF Store, IInv, TypeOK, ObjectsAreLoaded, SetsItsOwn
  <1> DEFINE next == IF task[r].saves = 2
                     THEN [task EXCEPT ![r].pc = "loaded", ![r].cols = {}, ![r].saves = 1]
                     ELSE AfterSave(r)
  <1>2. task' = [q \in Request |->
                   IF q # r /\ task[q].pc \in Held /\ task[r].cols # {}
                   THEN [task[q] EXCEPT !.stale = TRUE] ELSE next[q]]
    BY DEF Store
  <1>3. task'[r] = next[r]
    BY <1>2
  <1>4. \A q \in Request : q # r => next[q] = task[q]
    BY <1>1 DEF AfterSave, Drop, Over
  <1>5. ASSUME NEW q \in Request, q # r
        PROVE  /\ task'[q] \in Task
               /\ task'[q].pc = task[q].pc /\ task'[q].op = task[q].op
               /\ task'[q].copy = task[q].copy /\ task'[q].cols = task[q].cols
               /\ task'[q].saves = task[q].saves /\ task'[q].by = task[q].by
               /\ task'[q].crossed = task[q].crossed
               /\ ~task'[q].stale => ~task[q].stale
               /\ ~task'[q].stale /\ task[q].pc \in Held => task[r].cols = {}
    <2>1. task[q] \in Task
      BY <1>1
    <2>2. LET t == [task[q] EXCEPT !.stale = TRUE]
          IN  /\ t \in Task /\ t.pc = task[q].pc /\ t.op = task[q].op
              /\ t.copy = task[q].copy /\ t.cols = task[q].cols
              /\ t.saves = task[q].saves /\ t.by = task[q].by
              /\ t.crossed = task[q].crossed /\ t.stale
      BY <2>1 DEF Task
    <2>3. CASE task[q].pc \in Held /\ task[r].cols # {}
      <3>1. task'[q] = [task[q] EXCEPT !.stale = TRUE]
        BY <1>2, <1>5, <2>3
      <3> QED
        BY <2>2, <3>1
    <2>4. CASE ~(task[q].pc \in Held /\ task[r].cols # {})
      <3>1. task'[q] = task[q]
        BY <1>2, <1>4, <1>5, <2>4
      <3> QED
        BY <2>1, <2>4, <3>1
    <2> QED
      BY <2>3, <2>4
  <1>6. CASE task[r].saves = 2
    <2>1. LET t == [task[r] EXCEPT !.pc = "loaded", !.cols = {}, !.saves = 1]
          IN  /\ next[r] = t /\ t.pc = "loaded" /\ t.op = task[r].op /\ t.copy = task[r].copy
              /\ t.by = task[r].by /\ t.crossed = task[r].crossed /\ t.stale = task[r].stale
      BY <1>1, <1>6 DEF Task
    <2>2. \A n \in 0..2 : [task[r] EXCEPT !.pc = "loaded", !.cols = {}, !.saves = n] \in Task
      BY <1>1 DEF Task
    <2>3. 1 \in 0..2
      OBVIOUS
    <2> HIDE DEF next
    <2>4. task'[r] \in Task
      BY <1>3, <2>1, <2>2, <2>3
    <2>5. task' \in [Request -> Task]
      BY <1>2, <1>5, <2>4
    <2> QED
      BY <1>3, <1>5, <1>6, <2>1, <2>5
  <1>7. CASE task[r].saves # 2
    <2>1. next = AfterSave(r)
      BY <1>7
    <2> HIDE DEF next
    <2>2. /\ task'[r] \in Task /\ task'[r].copy = NoUser
          /\ \/ /\ task[r].op \in {"login", "oauth", "forgot", "reset"}
                /\ task'[r].pc \in {"issuing", "mailing", "ending"}
                /\ task'[r].by = task[r].by /\ task'[r].crossed = task[r].crossed
                /\ task[r].op = "reset" => task'[r].pc = "ending"
             \/ task[r].op = "verify" /\ task'[r].pc = "over"
      <3>1. CASE task[r].op \in {"login", "oauth"}
        <4>1. task'[r] = Dropped(r, "issuing")
          BY <1>1, <1>3, <2>1, <3>1 DEF AfterSave, Drop, Dropped
        <4> QED
          BY <3>1, <4>1, DroppedTask
      <3>2. CASE task[r].op = "forgot"
        <4>1. task'[r] = Dropped(r, "mailing")
          BY <1>1, <1>3, <2>1, <3>2 DEF AfterSave, Drop, Dropped
        <4> QED
          BY <3>2, <4>1, DroppedTask
      <3>3. CASE task[r].op = "reset"
        <4>1. task'[r] = Dropped(r, "ending")
          BY <1>1, <1>3, <2>1, <3>3 DEF AfterSave, Drop, Dropped
        <4> QED
          BY <3>3, <4>1, DroppedTask
      <3>4. CASE task[r].op = "verify"
        <4>1. task'[r] = [NoTask EXCEPT !.pc = "over"]
          BY <1>1, <1>3, <2>1, <3>4 DEF AfterSave, Over
        <4> QED
          BY <3>4, <4>1, OverTask
      <3> QED
        BY <1>1, <3>1, <3>2, <3>3, <3>4
    <2>3. task' \in [Request -> Task]
      BY <1>2, <1>5, <2>2
    <2> QED
      BY <1>5, <1>7, <2>2, <2>3
  <1> QED
    BY <1>6, <1>7
\* The row and the history after the save of r.
LEMMA StoreRow ==
  ASSUME IInv, NEW r \in Request, Store(r)
  PROVE  /\ user' \in User /\ UNCHANGED <<known, session>> /\ known
         /\ user'.password \in {user.password, task[r].copy.password}
         /\ user'.resetToken \in {user.resetToken, task[r].copy.resetToken}
         /\ replaced' \in {replaced, replaced \union {user.password}}
         /\ used' \in {used, used \union {user.resetToken}}
         /\ NoOne \notin replaced' /\ NoOne \notin used'
         /\ user'.password = user.password => replaced' = replaced
         /\ user'.password # user.password =>
               user'.password = task[r].copy.password /\ replaced' \subseteq replaced \union {user.password}
         /\ task[r].op # "reset" => used' = used
         /\ revived' \in BOOLEAN
         /\ ~revived' => ~revived /\ (~task[r].stale \/ task[r].cols = {})
         /\ task[r].cols = {} => task[r].op # "reset" /\ user'.password = user.password
                                 /\ user'.resetToken = user.resetToken
                                 /\ user'.verified = user.verified
                                 /\ \A c \in Columns : user'[c] = user[c]
         /\ ~task[r].stale => user'.password = task[r].copy.password
                              /\ user'.resetToken = task[r].copy.resetToken
                              /\ user'.verified = task[r].copy.verified
  <1>1. /\ task[r] \in Task /\ task[r].pc = "saving" /\ user \in User /\ revived \in BOOLEAN
        /\ SetsItsOwn(r, task[r]) /\ KeepsTheRest(task[r])
        /\ NoOne \notin replaced /\ NoOne \notin used
    BY DEF Store, IInv, TypeOK, ObjectsAreLoaded, NullIsNoSecret
  <1>2. task[r].copy \in User /\ task[r].cols \in SUBSET Columns /\ task[r].stale \in BOOLEAN
    BY <1>1 DEF Task
  <1>3. /\ user' = Merge(user, task[r].copy, task[r].cols) /\ UNCHANGED <<known, session>>
        /\ replaced' = replaced \union ({user.password} \ {user'.password, NoOne})
        /\ used' = IF task[r].op = "reset"
                   THEN used \union ({user.resetToken} \ {NoOne}) ELSE used
        /\ revived' = (revived \/ (task[r].stale /\ task[r].cols # {}))
    BY DEF Store
  <1>4. /\ user' \in User
        /\ \A c \in Columns : user'[c] = IF c \in task[r].cols THEN task[r].copy[c] ELSE user[c]
    BY <1>1, <1>2, <1>3, Merging
  <1>5. known
    BY <1>1 DEF SetsItsOwn
  <1>6. /\ user'.password \in {user.password, task[r].copy.password}
        /\ user'.resetToken \in {user.resetToken, task[r].copy.resetToken}
        /\ user'.password # user.password => user'.password = task[r].copy.password
    BY <1>4
  <1>7. /\ replaced' \in {replaced, replaced \union {user.password}}
        /\ used' \in {used, used \union {user.resetToken}}
        /\ NoOne \notin replaced' /\ NoOne \notin used'
        /\ user'.password = user.password => replaced' = replaced
        /\ task[r].op # "reset" => used' = used
        /\ replaced' \subseteq replaced \union {user.password}
    <2>1. CASE user.password \in {user'.password, NoOne}
      <3>1. replaced' = replaced
        BY <1>3, <2>1
      <3> QED
        BY <1>1, <1>3, <3>1
    <2>2. CASE user.password \notin {user'.password, NoOne}
      <3>1. replaced' = replaced \union {user.password}
        BY <1>3, <2>2
      <3> QED
        BY <1>1, <1>3, <2>2, <3>1
    <2> QED
      BY <2>1, <2>2
  <1>8. revived' \in BOOLEAN /\ (~revived' => ~revived /\ (~task[r].stale \/ task[r].cols = {}))
    BY <1>1, <1>2, <1>3
  <1>9. task[r].cols = {} => task[r].op # "reset" /\ \A c \in Columns : user'[c] = user[c]
    BY <1>1, <1>4 DEF SetsItsOwn
  <1>10. ~task[r].stale => \A c \in Columns : user'[c] = task[r].copy[c]
    BY <1>1, <1>4 DEF KeepsTheRest
  <1> QED
    BY <1>3, <1>4, <1>5, <1>6, <1>7, <1>8, <1>9, <1>10

LEMMA StoreIInv ==
  ASSUME IInv, NEW r \in Request, Store(r)
  PROVE  IInv'
  <1>1. /\ task \in [Request -> Task] /\ task[r] \in Task /\ task[r].pc = "saving"
        /\ SetsItsOwn(r, task[r]) /\ KeepsTheRest(task[r]) /\ user \in User
        /\ task[r].copy \in User
    BY DEF Store, IInv, TypeOK, ObjectsAreLoaded, Task
  <1>2. task[r].op \in {"login", "verify", "forgot", "reset", "oauth"}
    BY <1>1 DEF SetsItsOwn
  <1>3. task[r].saves = 2 => task[r].op \notin {"forgot", "reset"}
    BY <1>1 DEF SetsItsOwn
  <1>4. TypeOK'
    BY StoreTasks, StoreRow DEF IInv, TypeOK, User
  <1>5. UnbornIsNew'
    <2>1. NoUser.password = NoOne /\ NoUser.resetToken = NoOne
      BY DEF NoUser
    <2>2. ~Unborn(r)'
      BY <1>2, <1>3, StoreTasks DEF Unborn, Carries
    <2>3. task'[r].copy \in {NoUser, task[r].copy}
      BY StoreTasks
    <2> SUFFICES ASSUME NEW q \in Request, Unborn(q)'
                 PROVE  /\ q \notin replaced' /\ q \notin used'
                        /\ user'.password # q /\ user'.resetToken # q
                        /\ \A o \in Request : o # q =>
                              task'[o].copy.password # q /\ task'[o].copy.resetToken # q
      BY DEF UnbornIsNew
    <2>4. q # r /\ Unborn(q)
      BY <2>2, StoreTasks DEF Unborn, Carries
    <2>5. /\ q \notin replaced /\ q \notin used /\ user.password # q /\ user.resetToken # q
          /\ \A o \in Request : o # q =>
                task[o].copy.password # q /\ task[o].copy.resetToken # q
      BY <2>4 DEF IInv, UnbornIsNew
    <2>6. \A o \in Request : o # q =>
             task'[o].copy.password # q /\ task'[o].copy.resetToken # q
      BY <2>1, <2>3, <2>4, <2>5, NameAssumption, StoreTasks
    <2> QED
      BY <2>4, <2>5, <2>6, StoreRow
  <1>6. NullIsNoSecret'
    BY StoreRow DEF NullIsNoSecret
  <1>7. OldSecretsAreDead'
    <2> SUFFICES ASSUME ~revived'
                 PROVE  user'.password \notin replaced' /\ user'.resetToken \notin used'
      BY DEF OldSecretsAreDead
    <2>1. ~revived /\ user.password \notin replaced /\ user.resetToken \notin used
      BY StoreRow DEF IInv, OldSecretsAreDead
    <2>2. CASE task[r].cols = {}
      BY <2>1, <2>2, StoreRow
    <2>3. CASE ~task[r].stale
      <3>1. task[r].op = "reset" => r \notin replaced /\ r # user.password
        BY <1>1 DEF IInv, UnbornIsNew, Unborn, Carries
      <3>2. task[r].op = "forgot" => r \notin used /\ task[r].copy.resetToken = r
        BY <1>1 DEF IInv, UnbornIsNew, Unborn, Carries, SetsItsOwn
      <3>3. user'.password \notin replaced'
        <4>1. CASE task[r].op = "reset"
          BY <1>1, <2>3, <3>1, <4>1, StoreRow DEF SetsItsOwn
        <4>2. CASE task[r].op # "reset"
          BY <1>1, <2>1, <2>3, <4>2, StoreRow DEF KeepsTheRest
        <4> QED
          BY <4>1, <4>2
      <3>4. user'.resetToken \notin used'
        <4>1. CASE task[r].op = "reset"
          BY <1>1, <2>3, <4>1, StoreRow DEF SetsItsOwn
        <4>2. CASE task[r].op = "forgot"
          BY <2>3, <3>2, <4>2, StoreRow
        <4>3. CASE task[r].op \notin {"forgot", "reset"}
          BY <1>1, <2>1, <2>3, <4>3, StoreRow DEF KeepsTheRest
        <4> QED
          BY <4>1, <4>2, <4>3
      <3> QED
        BY <3>3, <3>4
    <2> QED
      BY <2>2, <2>3, StoreRow
  <1>8. ObjectsAreLoaded'
    <2> SUFFICES ASSUME NEW q \in Request
                 PROVE  (NewUser(q, task[q]) /\ SetsItsOwn(q, task[q]) /\ KeepsTheRest(task[q]))'
      BY StoreRow DEF ObjectsAreLoaded
    <2>1. NewUser(q, task[q]) /\ SetsItsOwn(q, task[q]) /\ KeepsTheRest(task[q])
      BY DEF IInv, ObjectsAreLoaded
    <2>2. CASE q # r
      <3>1. NewUser(q, task[q])' /\ SetsItsOwn(q, task[q])'
        BY <2>1, <2>2, StoreTasks, StoreRow DEF NewUser, SetsItsOwn
      <3>2. KeepsTheRest(task[q])'
        <4> SUFFICES ASSUME task'[q].pc \in Held, ~task'[q].stale
                     PROVE  KeepsTheRest(task[q])'
          BY DEF KeepsTheRest
        <4>1. task[q].pc \in Held /\ ~task[q].stale /\ task[r].cols = {}
          BY <2>2, StoreTasks
        <4>2. \A c \in Columns : user'[c] = user[c]
          BY <4>1, StoreRow
        <4>3. user'.password = user.password /\ user'.resetToken = user.resetToken
              /\ user'.verified = user.verified
          BY <4>2
        <4>4. {c \in Columns : task[q].copy[c] # user[c]} = {c \in Columns : task[q].copy[c] # user'[c]}
          BY <4>2
        <4>5. task'[q].copy = task[q].copy /\ task'[q].op = task[q].op
              /\ task'[q].cols = task[q].cols /\ task'[q].pc = task[q].pc
          BY <2>2, StoreTasks
        <4> QED
          BY <2>1, <4>1, <4>3, <4>4, <4>5 DEF KeepsTheRest
      <3> QED
        BY <3>1, <3>2
    <2>3. CASE q = r
      <3>1. CASE task[r].saves = 2
        <4>1. /\ task'[r].pc = "loaded" /\ task'[r].op = task[r].op
              /\ task'[r].copy = task[r].copy /\ task'[r].stale = task[r].stale
          BY <3>1, StoreTasks
        <4>2. NewUser(r, task[r])' /\ SetsItsOwn(r, task[r])'
          BY <1>2, <1>3, <3>1, <4>1, StoreRow DEF NewUser, SetsItsOwn
        <4>3. KeepsTheRest(task[r])'
          BY <4>1, StoreRow DEF KeepsTheRest
        <4> QED
          BY <2>3, <4>2, <4>3
      <3>2. CASE task[r].saves # 2
        <4>1. task'[r].pc \notin Held \union {"finding", "inserting"}
          BY <3>2, StoreTasks
        <4> QED
          BY <2>3, <4>1 DEF NewUser, SetsItsOwn, KeepsTheRest
      <3> QED
        BY <3>1, <3>2
    <2> QED
      BY <2>2, <2>3
  <1>9. SessionsAreMade'
    <2>1. \A s \in Session : /\ session'[s].valid = session[s].valid
                             /\ session'[s].made = session[s].made
                             /\ session'[s].ended = session[s].ended
      BY StoreRow
    <2>2. \A q \in Request : MakesOne(q, task[q])'
      <3> SUFFICES ASSUME NEW q \in Request PROVE MakesOne(q, task[q])'
        OBVIOUS
      <3>1. MakesOne(q, task[q])
        BY DEF IInv, SessionsAreMade
      <3>2. CASE q # r
        BY <2>1, <3>1, <3>2, StoreTasks DEF MakesOne
      <3>3. CASE q = r
        <4>1. task'[r].pc \notin {"inserted", "tokening"} /\ session[r].made = "none"
          BY <1>1, <3>1, <3>3, StoreTasks DEF MakesOne
        <4> QED
          BY <2>1, <3>3, <4>1 DEF MakesOne
      <3> QED
        BY <3>2, <3>3
    <2> QED
      BY <2>1, <2>2 DEF IInv, SessionsAreMade
  <1>10. OldPasswordIsCrossed'
    <2> SUFFICES ASSUME ~HalfReset', ~revived'
                 PROVE  OldPasswordIsCrossed'
      BY DEF OldPasswordIsCrossed
    <2>1. task[r].op # "reset"
      <3>1. task[r].op = "reset" => task'[r].pc = "ending"
        BY <1>3, StoreTasks
      <3> QED
        BY <3>1 DEF HalfReset
    <2>2. ~HalfReset
      BY <1>1, StoreTasks DEF HalfReset
    <2>3. replaced' = replaced
      BY <1>1, <2>1, StoreRow DEF KeepsTheRest
    <2>4. ~revived /\ UNCHANGED session
      BY StoreRow
    <2>5. \A q \in Request : CrossedOrNew(task[q])'
      <3> SUFFICES ASSUME NEW q \in Request PROVE CrossedOrNew(task[q])'
        OBVIOUS
      <3>1. CrossedOrNew(task[q])
        BY <2>2, <2>4 DEF IInv, OldPasswordIsCrossed
      <3>2. CASE q # r
        BY <2>3, <3>1, <3>2, StoreTasks DEF CrossedOrNew
      <3>3. CASE q = r
        BY <1>1, <2>3, <3>1, <3>3, StoreTasks DEF CrossedOrNew
      <3> QED
        BY <3>2, <3>3
    <2> QED
      BY <2>2, <2>3, <2>4, <2>5 DEF IInv, OldPasswordIsCrossed
  <1> QED
    BY <1>4, <1>5, <1>6, <1>7, <1>8, <1>9, <1>10 DEF IInv

LEMMA NextIInv == IInv /\ [Next]_vars => IInv'
  <1> SUFFICES ASSUME IInv, [Next]_vars PROVE IInv'
    OBVIOUS
  <1>1. ASSUME NEW r \in Request, Arrive(r) PROVE IInv'
    BY <1>1, RegisterReadIInv, LoginReadIInv, VerifyReadIInv, ForgotReadIInv, ResetReadIInv,
       RefreshReadIInv, LogoutIInv DEF Arrive
  <1>2. ASSUME NEW r \in Request, CallBack(r) PROVE IInv'
    BY <1>2, OAuthFindIInv DEF CallBack
  <1>3. ASSUME NEW r \in Request, Advance(r) PROVE IInv'
    BY <1>3, OAuthFindByEmailIInv, InsertIInv, QueueMailIInv, DiffIInv, StoreIInv,
       EndSessionsIInv, InsertSessionIInv, DiffSessionIInv, StoreSessionIInv DEF Advance
  <1>4. ASSUME NEW r \in Request, RequestFails(r) PROVE IInv'
    BY <1>4, RequestFailsIInv
  <1>5. CASE UNCHANGED vars
    BY <1>5 DEF vars, ghosts, IInv, TypeOK, UnbornIsNew, Unborn, NullIsNoSecret,
                ObjectsAreLoaded, NewUser, SetsItsOwn, KeepsTheRest, OldSecretsAreDead,
                SessionsAreMade, MakesOne, OldPasswordIsCrossed, CrossedOrNew, HalfReset
  <1> QED
    BY <1>1, <1>2, <1>3, <1>4, <1>5 DEF Next

LEMMA IInvHolds == Spec => []IInv
  BY InitIInv, NextIInv, PTL DEF Spec

-----------------------------------------------------------------------------
(* The theorems. *)

\* The row, the sessions and the requests have their types: save never writes
\* a column of another request's object that is not a User.
THEOREM TypeCorrect == Spec => []TypeOK
  <1>1. IInv => TypeOK
    BY DEF IInv
  <1> QED
    BY <1>1, IInvHolds, PTL

\* "Invalidate all sessions" of resetPassword: no session that rests on a
\* replaced password is good for a refresh, but for one that a request under
\* way at the time was making.
THEOREM ResetLocksOutHolds == Spec => []ResetLocksOut
  <1>1. IInv => ResetLocksOut
    BY DEF IInv, OldPasswordIsCrossed, ResetLocksOut
  <1> QED
    BY <1>1, IInvHolds, PTL

\* As long as no stale object is stored, a replaced password opens no session
\* and a used reset token resets no password.
THEOREM OldSecretsStayDead == Spec => []OldSecretsAreDead
  <1>1. IInv => OldSecretsAreDead
    BY DEF IInv
  <1> QED
    BY <1>1, IInvHolds, PTL

\* Only a logout from a session and a reset end it: login, OAuth, refresh and
\* the second save of generateAuthResponse leave the others alone.
THEOREM HandedOutWorksHolds == Spec => []HandedOutWorks
  <1>1. IInv => HandedOutWorks
    BY DEF IInv, SessionsAreMade, HandedOutWorks
  <1> QED
    BY <1>1, IInvHolds, PTL

\* verifyEmail is not undone by a save of another handler, unless its object
\* was loaded before.
THEOREM VerifiedStaysHolds == Spec => VerifiedStays
  <1>1. ASSUME IInv, [Next]_vars
        PROVE  [user.verified /\ ~revived' => user'.verified]_vars
    <2> SUFFICES ASSUME user.verified, ~revived' PROVE user'.verified
      OBVIOUS
    <2>1. known
      BY <1>1 DEF IInv, ObjectsAreLoaded
    <2>2. ASSUME NEW r \in Request, Store(r) PROVE user'.verified
      <3>1. task[r].pc = "saving" /\ KeepsTheRest(task[r])
        BY <1>1, <2>2 DEF Store, IInv, ObjectsAreLoaded
      <3>2. CASE task[r].cols = {}
        BY <1>1, <2>2, <3>2, StoreRow
      <3>3. CASE ~task[r].stale
        BY <1>1, <2>2, <3>1, <3>3, StoreRow DEF KeepsTheRest
      <3> QED
        BY <1>1, <2>2, <3>2, <3>3, StoreRow
    <2>3. ASSUME NEW r \in Request, Insert(r) PROVE user'.verified
      BY <2>1, <2>3 DEF Insert
    <2>4. ASSUME UNCHANGED user PROVE user'.verified
      BY <2>4
    <2>5. ASSUME NEW r \in Request, Arrive(r) \/ CallBack(r) \/ RequestFails(r)
          PROVE  UNCHANGED user
      BY <2>5 DEF Arrive, CallBack, RequestFails, RegisterRead, LoginRead, VerifyRead,
                  ForgotRead, ResetRead, RefreshRead, Logout, OAuthFind
    <2>6. ASSUME NEW r \in Request, Advance(r), ~Store(r), ~Insert(r)
          PROVE  UNCHANGED user
      BY <2>6 DEF Advance, OAuthFindByEmail, QueueMail, Diff, EndSessions, InsertSession,
                  DiffSession, StoreSession
    <2> QED
      BY <1>1, <2>2, <2>3, <2>4, <2>5, <2>6 DEF Next, vars
  <1> QED
    BY <1>1, IInvHolds, PTL DEF Spec, VerifiedStays

\* The second save of a session cannot bring an ended one back: a session that
\* was handed out is saved no more.
THEOREM EndedStaysEndedHolds == Spec => EndedStaysEnded
  <1> DEFINE Stays == \A s \in Session :
                 session[s].made = "tokened" /\ ~session[s].valid => ~session'[s].valid
  <1>1. ASSUME IInv, [Next]_vars PROVE [Stays]_vars
    <2>1. session \in [Session -> SessionRow]
      BY <1>1 DEF IInv, TypeOK
    <2>2. ASSUME NEW r \in Request, InsertSession(r) PROVE Stays
      <3>1. session[r].made = "none"
        BY <1>1, <2>2 DEF InsertSession, IInv, SessionsAreMade, MakesOne
      <3>2. \A s \in Session : s # r => session'[s] = session[s]
        BY <2>1, <2>2 DEF InsertSession
      <3> QED
        BY <3>1, <3>2
    <2>3. ASSUME NEW r \in Request, StoreSession(r) PROVE Stays
      <3>1. session[r].made = "bare"
        BY <1>1, <2>3 DEF StoreSession, IInv, SessionsAreMade, MakesOne
      <3>2. \A s \in Session : s # r => session'[s] = session[s]
        BY <2>1, <2>3 DEF StoreSession
      <3> QED
        BY <3>1, <3>2
    <2>4. ASSUME NEW r \in Request, NEW s \in Session, Logout(r, s) PROVE Stays
      <3>1. \A q \in Session : q # s => session'[q] = session[q]
        BY <2>1, <2>4 DEF Logout
      <3>2. ~session'[s].valid
        BY <2>1, <2>4 DEF Logout, SessionRow
      <3> QED
        BY <3>1, <3>2
    <2>5. ASSUME NEW r \in Request, EndSessions(r) PROVE Stays
      <3>1. \A s \in Session : session[s].made # "none" => ~session'[s].valid
        BY <2>1, <2>5 DEF EndSessions, SessionRow
      <3> QED
        BY <3>1
    <2>6. ASSUME UNCHANGED session PROVE Stays
      BY <2>6
    <2>7. ASSUME NEW r \in Request, CallBack(r) \/ RequestFails(r) PROVE UNCHANGED session
      BY <2>7 DEF CallBack, RequestFails, OAuthFind
    <2>8. ASSUME NEW r \in Request, Arrive(r), ~(\E s \in Session : Logout(r, s))
          PROVE  UNCHANGED session
      BY <2>8 DEF Arrive, RegisterRead, LoginRead, VerifyRead, ForgotRead, ResetRead, RefreshRead
    <2>9. ASSUME NEW r \in Request, Advance(r), ~InsertSession(r), ~StoreSession(r), ~EndSessions(r)
          PROVE  UNCHANGED session
      BY <2>9 DEF Advance, OAuthFindByEmail, Insert, QueueMail, Diff, Store, DiffSession
    <2> HIDE DEF Stays
    <2> QED
      BY <1>1, <2>2, <2>3, <2>4, <2>5, <2>6, <2>7, <2>8, <2>9 DEF Next, vars
  <1> QED
    BY <1>1, IInvHolds, PTL DEF Spec, EndedStaysEnded

\* A step that leaves the rows of the sessions alone cannot be seen.
LEMMA UnseenStep ==
  ASSUME UNCHANGED session
  PROVE  UNCHANGED Promise!vars
  BY DEF Promise!vars, HandedOut

\* The handlers hand out and end sessions as Sessions promises: the first save
\* of generateAuthResponse and whatever ends a session before its second one
\* cannot be seen, and no handler but logout and resetPassword ends a session
\* that was handed out.
THEOREM AccountsKeepSessions == Spec => ImplementsSessions
  <1> DEFINE Good == {s \in HandedOut : session[s].valid}
  <1>1. Init => Promise!Init
    <2>1. Init => \A s \in Session : session[s].made = "tokened" => session[s].valid
      BY DEF Init, NoSession
    <2> QED
      BY <2>1 DEF Promise!Init, HandedOut
  <1>2. ASSUME IInv, [Next]_vars PROVE [Promise!Next]_(Promise!vars)
    <2>1. session \in [Session -> SessionRow]
      BY <1>2 DEF IInv, TypeOK
    <2>2. ASSUME NEW r \in Request, InsertSession(r) PROVE UNCHANGED Promise!vars
      <3>1. session[r].made = "none"
        BY <1>2, <2>2 DEF InsertSession, IInv, SessionsAreMade, MakesOne
      <3>2. \A s \in Session : s # r => session'[s] = session[s]
        BY <2>1, <2>2 DEF InsertSession
      <3>3. session'[r].made = "bare"
        BY <2>1, <2>2 DEF InsertSession, NoSession
      <3>4. HandedOut' = HandedOut /\ r \notin HandedOut
        BY <3>1, <3>2, <3>3 DEF HandedOut
      <3>5. Good' = Good
        BY <3>2, <3>4 DEF HandedOut
      <3> QED
        BY <3>4, <3>5 DEF Promise!vars
    <2>3. ASSUME NEW r \in Request, StoreSession(r) PROVE Promise!HandOut
      <3>1. session[r].made = "bare"
        BY <1>2, <2>3 DEF StoreSession, IInv, SessionsAreMade, MakesOne
      <3>2. \A s \in Session : s # r => session'[s] = session[s]
        BY <2>1, <2>3 DEF StoreSession
      <3>3. session'[r].made = "tokened"
        BY <2>1, <2>3 DEF StoreSession, SessionRow
      <3>4. HandedOut' = HandedOut \union {r} /\ r \in HandedOut' \ HandedOut
        BY <3>1, <3>2, <3>3 DEF HandedOut
      <3>5. Good' \in {Good, Good \union {r}}
        <4>1. \A s \in Session : s # r => (s \in Good' <=> s \in Good)
          BY <3>2, <3>4
        <4>2. r \notin Good
          BY <3>4
        <4>3. Good \subseteq Session /\ Good' \subseteq Session
          BY DEF HandedOut
        <4> HIDE DEF Good
        <4>4. CASE r \in Good'
          <5>1. Good' = Good \union {r}
            BY <4>1, <4>3, <4>4
          <5> QED
            BY <5>1
        <4>5. CASE r \notin Good'
          <5>1. Good' = Good
            BY <4>1, <4>2, <4>3, <4>5
          <5> QED
            BY <5>1
        <4> QED
          BY <4>4, <4>5
      <3> QED
        BY <3>4, <3>5 DEF Promise!HandOut
    <2>4. ASSUME NEW r \in Request, NEW s \in Session, Logout(r, s)
          PROVE  Promise!Logout \/ UNCHANGED Promise!vars
      <3>1. \A q \in Session : q # s => session'[q] = session[q]
        BY <2>1, <2>4 DEF Logout
      <3>2. session'[s].made = session[s].made /\ ~session'[s].valid
        BY <2>1, <2>4 DEF Logout, SessionRow
      <3>3. HandedOut' = HandedOut
        BY <3>1, <3>2 DEF HandedOut
      <3>4. Good' = Good \ {s}
        BY <3>1, <3>2, <3>3 DEF HandedOut
      <3>5. CASE s \in Good
        BY <3>3, <3>4, <3>5 DEF Promise!Logout
      <3>6. CASE s \notin Good
        <4>1. Good' = Good
          BY <3>4, <3>6
        <4> QED
          BY <3>3, <4>1 DEF Promise!vars
      <3> QED
        BY <3>5, <3>6
    <2>5. ASSUME NEW r \in Request, EndSessions(r) PROVE Promise!EndAll
      <3>1. \A s \in Session :
               /\ session'[s].made = session[s].made
               /\ session[s].made # "none" => ~session'[s].valid
        BY <2>1, <2>5 DEF EndSessions, SessionRow
      <3>2. HandedOut' = HandedOut
        BY <3>1 DEF HandedOut
      <3>3. Good' = {}
        BY <3>1, <3>2 DEF HandedOut
      <3> QED
        BY <3>2, <3>3 DEF Promise!EndAll
    <2>6. ASSUME UNCHANGED vars PROVE UNCHANGED session
      BY <2>6 DEF vars
    <2>7. ASSUME NEW r \in Request, CallBack(r) \/ RequestFails(r) PROVE UNCHANGED session
      BY <2>7 DEF CallBack, RequestFails, OAuthFind
    <2>8. ASSUME NEW r \in Request, Arrive(r), ~(\E s \in Session : Logout(r, s))
          PROVE  UNCHANGED session
      BY <2>8 DEF Arrive, RegisterRead, LoginRead, VerifyRead, ForgotRead, ResetRead, RefreshRead
    <2>9. ASSUME NEW r \in Request, Advance(r), ~InsertSession(r), ~StoreSession(r), ~EndSessions(r)
          PROVE  UNCHANGED session
      BY <2>9 DEF Advance, OAuthFindByEmail, Insert, QueueMail, Diff, Store, DiffSession
    <2>10. CASE UNCHANGED session
      BY <2>10, UnseenStep
    <2>11. ASSUME NEW r \in Request,
                  Arrive(r) \/ CallBack(r) \/ Advance(r) \/ RequestFails(r),
                  ~UNCHANGED session
           PROVE  [Promise!Next]_(Promise!vars)
      <3>1. InsertSession(r) \/ StoreSession(r) \/ EndSessions(r)
               \/ \E s \in Session : Logout(r, s)
        BY <2>7, <2>8, <2>9, <2>11
      <3> QED
        BY <2>2, <2>3, <2>4, <2>5, <3>1 DEF Promise!Next
    <2> QED
      BY <1>2, <2>6, <2>10, <2>11 DEF Next
  <1> QED
    BY <1>1, <1>2, IInvHolds, PTL DEF Spec, ImplementsSessions, Promise!Spec
=============================================================================
