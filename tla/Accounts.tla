------------------------------- MODULE Accounts -------------------------------
(***************************************************************************)
(* AuthService and OAuthService: every request that reads or writes the    *)
(* user row of one email address and the sessions of that user.            *)
(*                                                                         *)
(* A handler loads the User, changes some of its fields and hands the      *)
(* object to repository.save.  TypeORM (external) reads the row again and  *)
(* updates the columns in which the object differs from it, those another  *)
(* request has changed in between included.  Columns no property is about  *)
(* are left out (names, avatar, lastLoginAt, the expiry dates); an expired *)
(* token, a wrong password, a deactivated account, a provider that answers *)
(* with an error and a query that throws all make the request fail.        *)
(***************************************************************************)
EXTENDS Naturals

CONSTANTS
    Request,    \* requests; also the sessions, passwords and tokens they make
    Earlier,    \* a request that ended before the first state
    NoOne,      \* null in a column
    Provider    \* OAuth providers

ASSUME NameAssumption ==
    /\ Earlier \notin Request /\ NoOne \notin Request /\ Earlier # NoOne
    /\ NoOne \notin Provider

VARIABLES
    known,      \* a user row for the address exists
    user,       \* that row
    session,    \* the session each request makes, and its history
    task,       \* each request: progress, User object, what save will write
    replaced,   \* passwords that a later one has replaced
    used,       \* reset tokens a reset has used up
    revived     \* a request has stored an object older than another's change

vars == <<known, user, session, task, replaced, used, revived>>
ghosts == <<replaced, used, revived>>

Secret == Request \union {Earlier, NoOne}
Session == Request \union {Earlier}

User == [password : Secret, resetToken : Secret, verifyToken : BOOLEAN,
         verified : BOOLEAN, provider : Provider \union {NoOne},
         providerId : Provider \union {NoOne}]
Columns == {"password", "resetToken", "verifyToken", "verified", "providerId"}

NoUser == [password |-> NoOne, resetToken |-> NoOne, verifyToken |-> FALSE,
           verified |-> FALSE, provider |-> NoOne, providerId |-> NoOne]

Held == {"loaded", "saving"}      \* the request holds a User object to save
Ended == {"over", "half"}         \* "half": password replaced, sessions alive

\* saves: calls of save to come; revive: saving the session will set isValid;
\* by: the password the session will rest on; stale: another request has
\* stored a change since this one loaded its object; crossed: a reset has
\* ended the sessions meanwhile, or those this one was refreshed from.
Task == [op : {"none", "register", "login", "verify", "forgot", "reset", "oauth"},
         pc : {"idle", "finding", "inserting", "mailing", "ending", "issuing",
               "inserted", "tokening"} \union Held \union Ended,
         copy : User, cols : SUBSET Columns, saves : 0..2, by : Secret,
         revive : BOOLEAN, stale : BOOLEAN, crossed : BOOLEAN]

\* "bare": not handed out yet; ended: by a logout or a reset.
SessionRow == [made : {"none", "bare", "tokened"}, valid : BOOLEAN, by : Secret,
               crossed : BOOLEAN, ended : BOOLEAN]

NoTask == [op |-> "none", pc |-> "idle", copy |-> NoUser, cols |-> {}, saves |-> 0,
           by |-> NoOne, revive |-> FALSE, stale |-> FALSE, crossed |-> FALSE]
NoSession == [made |-> "none", valid |-> FALSE, by |-> NoOne, crossed |-> FALSE,
              ended |-> FALSE]

TypeOK ==
    /\ known \in BOOLEAN
    /\ user \in User
    /\ session \in [Session -> SessionRow]
    /\ task \in [Request -> Task]
    /\ replaced \subseteq Secret /\ used \subseteq Secret
    /\ revived \in BOOLEAN

\* Nobody has registered the address, or Earlier has, is still signed in, and
\* has asked for a password reset.
Init ==
    /\ \/ known = FALSE /\ user = NoUser
       \/ known = TRUE /\ user = [NoUser EXCEPT !.password = Earlier,
                                   !.verifyToken = TRUE, !.resetToken = Earlier]
    /\ session = [s \in Session |->
                    IF s = Earlier /\ known
                    THEN [NoSession EXCEPT !.made = "tokened", !.valid = TRUE,
                                           !.by = Earlier]
                    ELSE NoSession]
    /\ task = [r \in Request |-> NoTask]
    /\ replaced = {} /\ used = {} /\ revived = FALSE

-----------------------------------------------------------------------------
(* The first read of each handler.  A request that is refused there changes  *)
(* nothing and is no step.                                                   *)

Begin(r, op, pc, copy, saves, by) ==
    /\ task[r].pc = "idle"
    /\ task' = [task EXCEPT ![r] =
                  [NoTask EXCEPT !.op = op, !.pc = pc, !.copy = copy,
                                 !.saves = saves, !.by = by]]

RegisterRead(r) ==
    /\ ~known
    /\ Begin(r, "register", "inserting",
             [NoUser EXCEPT !.password = r, !.verifyToken = TRUE], 0, r)
    /\ UNCHANGED <<known, user, session, ghosts>>

\* The right password was given: the one in the object that was loaded.
LoginRead(r) ==
    /\ known
    /\ user.password # NoOne
    /\ Begin(r, "login", "loaded", user, 1, user.password)
    /\ UNCHANGED <<known, user, session, ghosts>>

\* The user comes with the session and is not saved.
RefreshRead(r, s) ==
    /\ task[r].pc = "idle"
    /\ session[s].made = "tokened" /\ session[s].valid
    /\ task' = [task EXCEPT ![r] =
                  [NoTask EXCEPT !.pc = "issuing", !.by = session[s].by,
                                 !.crossed = session[s].crossed]]
    /\ UNCHANGED <<known, user, session, ghosts>>

\* Mutant: every session of the user is updated, not the one that logs out.
LogoutEverywhere(r, s) ==
    /\ task[r].pc = "idle"
    /\ session[s].made = "tokened"
    /\ session' = [q \in Session |-> [session[q] EXCEPT !.valid = FALSE,
                                       !.ended = @ \/ q = s]]
    /\ task' = [task EXCEPT ![r] = [NoTask EXCEPT !.pc = "over"]]
    /\ UNCHANGED <<known, user, ghosts>>

\* One UPDATE.  The guard knows the session from the access token alone.
Logout(r, s) ==
    /\ task[r].pc = "idle"
    /\ session[s].made = "tokened"
    /\ session' = [session EXCEPT ![s].valid = FALSE, ![s].ended = TRUE]
    /\ task' = [task EXCEPT ![r] = [NoTask EXCEPT !.pc = "over"]]
    /\ UNCHANGED <<known, user, ghosts>>

\* A caller may have any token that is in its column, mailed already or not.
VerifyRead(r) ==
    /\ known
    /\ user.verifyToken
    /\ Begin(r, "verify", "loaded",
             [user EXCEPT !.verified = TRUE, !.verifyToken = FALSE], 1, NoOne)
    /\ UNCHANGED <<known, user, session, ghosts>>

ForgotRead(r) ==
    /\ known
    /\ Begin(r, "forgot", "loaded", [user EXCEPT !.resetToken = r], 1, NoOne)
    /\ UNCHANGED <<known, user, session, ghosts>>

\* Mutant: the token stays in its column until it expires.
ResetReadKeepsToken(r) ==
    /\ known
    /\ user.resetToken # NoOne
    /\ Begin(r, "reset", "loaded", [user EXCEPT !.password = r], 1, NoOne)
    /\ UNCHANGED <<known, user, session, ghosts>>

ResetRead(r) ==
    /\ known
    /\ user.resetToken # NoOne
    /\ Begin(r, "reset", "loaded",
             [user EXCEPT !.password = r, !.resetToken = NoOne], 1, NoOne)
    /\ UNCHANGED <<known, user, session, ghosts>>

\* The provider has answered with a profile: the first findOne looks for its
\* address, or its id, with this provider.  (The callback routes are not public:
\* the global JwtAuthGuard wants an access token, which changes no state here.)
OAuthFind(r, p) ==
    /\ IF known /\ user.provider = p
       THEN Begin(r, "oauth", "loaded", user, 1, NoOne)
       ELSE Begin(r, "oauth", "finding",
                  [NoUser EXCEPT !.provider = p, !.providerId = p, !.verified = TRUE],
                  1, NoOne)
    /\ UNCHANGED <<known, user, session, ghosts>>

\* The second findOne: an account with this address is linked (its provider
\* stays as it is) and saved twice; otherwise the user is created.
OAuthFindByEmail(r) ==
    /\ task[r].pc = "finding"
    /\ task' = IF known
               THEN [task EXCEPT ![r].pc = "loaded", ![r].saves = 2,
                        ![r].copy = [user EXCEPT !.providerId = task[r].copy.provider,
                                                 !.verified = TRUE]]
               ELSE [task EXCEPT ![r].pc = "inserting"]
    /\ UNCHANGED <<known, user, session, ghosts>>

-----------------------------------------------------------------------------
(* Saving the User. *)

\* The handler needs its User object no more and goes on.
Drop(r, pc) ==
    [task EXCEPT ![r] = [NoTask EXCEPT !.op = task[r].op, !.pc = pc, !.by = task[r].by,
                                       !.crossed = task[r].crossed]]

Over(r, pc) == [task EXCEPT ![r] = [NoTask EXCEPT !.pc = pc]]

\* Mutant: an address that is taken is updated.
InsertOrUpdate(r) ==
    /\ task[r].pc = "inserting"
    /\ known' = TRUE
    /\ user' = task[r].copy
    /\ task' = IF task[r].op = "register" THEN Drop(r, "mailing")
               ELSE [task EXCEPT ![r].pc = "loaded"]
    /\ UNCHANGED <<session, ghosts>>

\* Insert of a new user.  The address is unique: a second insert throws.
Insert(r) ==
    /\ task[r].pc = "inserting"
    /\ known' = TRUE
    /\ user' = IF known THEN user ELSE task[r].copy
    /\ task' = IF known THEN Over(r, "over")
               ELSE IF task[r].op = "register" THEN Drop(r, "mailing")
               ELSE [task EXCEPT ![r].pc = "loaded"]
    /\ UNCHANGED <<session, ghosts>>

\* queueEmailVerification of register, queuePasswordReset of forgotPassword.
QueueMail(r) ==
    /\ task[r].pc = "mailing"
    /\ task' = IF task[r].op = "register" THEN Drop(r, "issuing") ELSE Over(r, "over")
    /\ UNCHANGED <<known, user, session, ghosts>>

\* save, first half: TypeORM compares the object with the row.
Diff(r) ==
    /\ task[r].pc = "loaded"
    /\ task' = [task EXCEPT ![r].pc = "saving",
                   ![r].cols = {c \in Columns : task[r].copy[c] # user[c]}]
    /\ UNCHANGED <<known, user, session, ghosts>>

\* What follows the last save of each handler.
AfterSave(r) ==
    CASE task[r].op \in {"login", "oauth"} -> Drop(r, "issuing")
      [] task[r].op = "forgot"             -> Drop(r, "mailing")
      [] task[r].op = "reset"              -> Drop(r, "ending")
      [] OTHER                             -> Over(r, "over")

Merge(row, copy, cols) == [c \in DOMAIN row |-> IF c \in cols THEN copy[c] ELSE row[c]]

\* save, second half: one UPDATE of the columns that differ.
Store(r) ==
    LET cols == task[r].cols
        next == IF task[r].saves = 2
                THEN [task EXCEPT ![r].pc = "loaded", ![r].cols = {}, ![r].saves = 1]
                ELSE AfterSave(r)
    IN  /\ task[r].pc = "saving"
        /\ user' = Merge(user, task[r].copy, cols)
        /\ task' = [q \in Request |->
                      IF q # r /\ task[q].pc \in Held /\ cols # {}
                      THEN [task[q] EXCEPT !.stale = TRUE] ELSE next[q]]
        /\ replaced' = replaced \union ({user.password} \ {user'.password, NoOne})
        /\ used' = IF task[r].op = "reset"
                   THEN used \union ({user.resetToken} \ {NoOne}) ELSE used
        /\ revived' = (revived \/ (task[r].stale /\ cols # {}))
        /\ UNCHANGED <<known, session>>

-----------------------------------------------------------------------------
(* Sessions. *)

UnderWay(r) == task[r].pc \notin {"idle"} \union Ended

\* Mutant: the update of the sessions is lost.
EndNoSession(r) ==
    /\ task[r].pc = "ending"
    /\ task' = Over(r, "over")
    /\ UNCHANGED <<known, user, session, ghosts>>

\* resetPassword ends the sessions of the user, whoever made them.
EndSessions(r) ==
    /\ task[r].pc = "ending"
    /\ session' = [s \in Session |->
                     IF session[s].made = "none" THEN session[s]
                     ELSE [session[s] EXCEPT !.valid = FALSE, !.ended = TRUE,
                                             !.crossed = @ \/ session[s].made = "bare"]]
    /\ task' = [q \in Request |->
                  IF q # r /\ UnderWay(q) THEN [task[q] EXCEPT !.crossed = TRUE]
                  ELSE Over(r, "over")[q]]
    /\ UNCHANGED <<known, user, ghosts>>

\* generateAuthResponse: the session is inserted without its refresh token.
InsertSession(r) ==
    /\ task[r].pc = "issuing"
    /\ session' = [session EXCEPT ![r] =
                     [NoSession EXCEPT !.made = "bare", !.valid = TRUE,
                                       !.by = task[r].by, !.crossed = task[r].crossed]]
    /\ task' = Over(r, "inserted")
    /\ UNCHANGED <<known, user, ghosts>>

\* The session object, whose isValid is true, is saved a second time with the
\* token: the same two halves.
DiffSession(r) ==
    /\ task[r].pc = "inserted"
    /\ task' = [task EXCEPT ![r].pc = "tokening", ![r].revive = ~session[r].valid]
    /\ UNCHANGED <<known, user, session, ghosts>>

\* Mutant: every session of the user is saved as valid.
StoreEverySession(r) ==
    /\ task[r].pc = "tokening"
    /\ session' = [s \in Session |->
                     [session[s] EXCEPT !.made = IF s = r THEN "tokened" ELSE @,
                                        !.valid = (session[s].made # "none")]]
    /\ task' = Over(r, "over")
    /\ UNCHANGED <<known, user, ghosts>>

\* The tokens are handed out.
StoreSession(r) ==
    /\ task[r].pc = "tokening"
    /\ session' = [session EXCEPT ![r].made = "tokened",
                                  ![r].valid = @ \/ task[r].revive]
    /\ task' = Over(r, "over")
    /\ UNCHANGED <<known, user, ghosts>>

\* A check of the loaded object fails, an await throws or the process dies.
RequestFails(r) ==
    /\ UnderWay(r)
    /\ task' = Over(r, IF task[r].pc = "ending" THEN "half" ELSE "over")
    /\ UNCHANGED <<known, user, session, ghosts>>

-----------------------------------------------------------------------------
Advance(r) ==
    \/ OAuthFindByEmail(r) \/ Insert(r) \/ QueueMail(r) \/ Diff(r) \/ Store(r)
    \/ EndSessions(r) \/ InsertSession(r) \/ DiffSession(r) \/ StoreSession(r)

\* The routes of AuthController.
Arrive(r) ==
    \/ RegisterRead(r) \/ LoginRead(r) \/ VerifyRead(r) \/ ForgotRead(r) \/ ResetRead(r)
    \/ \E s \in Session : RefreshRead(r, s) \/ Logout(r, s)

CallBack(r) == \E p \in Provider : OAuthFind(r, p)

Next == \E r \in Request : Arrive(r) \/ CallBack(r) \/ Advance(r) \/ RequestFails(r)

\* No handler waits for another here, so no fairness is needed.
Spec == Init /\ [][Next]_vars

-----------------------------------------------------------------------------
(* Properties. *)

\* A reset has replaced the password and not (or not yet) ended the sessions.
HalfReset == \E r \in Request : task[r].pc \in {"ending", "half"}

\* "Invalidate all sessions": once a password has been replaced, no session
\* that was opened with it, or refreshed from one that was, is good for
\* another refresh.  Left out: requests that were under way while the
\* sessions were ended, a reset that stopped half-way, and an old password that
\* a stale object has brought back.
ResetLocksOut ==
    ~HalfReset /\ ~revived =>
        \A s \in Session :
            session[s].valid /\ session[s].by \in replaced => session[s].crossed

\* A replaced password and a used reset token never come back into the row,
\* until a request stores an object that is older than another one's change.
OldSecretsAreDead ==
    ~revived => user.password \notin replaced /\ user.resetToken \notin used

\* A verified address stays verified, under the same condition.
VerifiedStays == [][user.verified /\ ~revived' => user'.verified]_vars

\* A session whose tokens were handed out is good until a logout from that
\* session or a reset ends it: no other handler ends it.
HandedOutWorks ==
    \A s \in Session :
        session[s].made = "tokened" /\ ~session[s].ended => session[s].valid

\* A session that was handed out and has ended never comes back, although
\* generateAuthResponse saves its object with isValid = true a second time.
EndedStaysEnded ==
    [][\A s \in Session :
          session[s].made = "tokened" /\ ~session[s].valid => ~session'[s].valid]_vars

\* Sessions, with the rows that have their tokens.
HandedOut == {s \in Session : session[s].made = "tokened"}

Promise == INSTANCE Sessions
               WITH out <- HandedOut, good <- {s \in HandedOut : session[s].valid}

\* Seen by those who hold tokens, handlers that overlap, save twice and fail
\* half-way hand out one session at a time, and end one by its own logout or all
\* by a reset.
ImplementsSessions == Promise!Spec
=============================================================================
