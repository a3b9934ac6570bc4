------------------------------ MODULE Storefront ------------------------------
(***************************************************************************)
(* The frontend in one tab of a browser: the router and ProtectedRoute,    *)
(* the auth slice and its copy in localStorage, getMe and the renewal of   *)
(* tokens, the forms of the pages, and the cached coupon list of an event. *)
(*                                                                         *)
(* Tokens are known by their account.  What follows a dispatch at once --  *)
(* the render, the effects of what it mounts and unmounts, the redirects,  *)
(* the invalidation of cached queries -- belongs to the step (Renders).    *)
(* React Router and RTK Query are external; answers may come late and in   *)
(* any order, or not at all.  The backend is what it does to this page.    *)
(***************************************************************************)
EXTENDS Naturals, FiniteSets

CONSTANTS
    User, NoOne,
    Role,           \* the role of each account
    MaxSubmits,     \* bound: how many forms are sent from this tab
    Opened,         \* the pages that are visited
    MaxLoads        \* bound: how often the tab is loaded

ASSUME NoOneAssumption == NoOne \notin User
ASSUME RoleAssumption == Role \in [User -> {"CUSTOMER", "ORGANIZER", "ADMIN"}]
ASSUME BoundsAssumption == MaxSubmits \in Nat /\ MaxLoads \in Nat \ {0}
\* Redirects lead to the pages of the second line, whoever visits them.
ASSUME OpenedAssumption ==
    /\ Opened \subseteq {"home", "login", "register", "forgot", "reset", "callback", "event",
                         "account", "create", "coupons", "newcoupon", "metrics"}
    /\ {"home", "login", "account"} \subseteq Opened

VARIABLES
    page,       \* the location of the router
    stored,     \* whose tokens localStorage holds
    token,      \* whose tokens the store holds
    user,       \* whose data the store holds
    me,         \* the cache entry of getMe
    calls,      \* each submission
    renewal,    \* whose refresh token is with the server; the mutex is held
    coupon,     \* a new coupon: made on the server, told to this tab
    list,       \* the cache entry of getEventCoupons: whether it shows that coupon
    owed,       \* its tag is invalidated, once no request is pending
    loads,      \* how often the tab was loaded
    overtaken   \* ghost: getMe was under way while the tokens changed

Submission == 1..MaxSubmits

credentials == <<stored, token, user>>
vars == <<page, stored, token, user, me, calls, renewal, coupon, list, owed, loads, overtaken>>

-----------------------------------------------------------------------------
(* Requests, in baseQueryWithReauth. *)

Account == User \union {NoOne}

OrganizerForms == {"create", "coupons", "newcoupon"}

Queued == {"queued", "waiting", "renewing"}
Sent == {"sent", "again"}
Pending(r) == r.pc \in Queued \union Sent \union {"served"}

\* An organizer's form that may still be sent with other tokens.
Early(r) == r.op \in OrganizerForms /\ r.pc \in Queued \union {"sent"}

\* as: whose tokens it carries; here: its page is still mounted; crossed, a
\* ghost: for a booking, it was not the only one of its page; for an organizer's
\* form, the tokens were not those of the user, or changed under way.
Request == [op : Opened \union {"me"}, as : Account, here : BOOLEAN, crossed : BOOLEAN,
            pc : {"idle", "over", "failed", "lost", "served"} \union Queued \union Sent]

Made(op, as, pc) == [op |-> op, as |-> as, here |-> TRUE, crossed |-> FALSE, pc |-> pc]

TypeOK ==
    /\ page \in Opened
    /\ {stored, token, user, renewal} \subseteq Account
    /\ me \in Request
    /\ calls \in [Submission -> Request]
    /\ coupon \in {"none", "made", "told"}
    /\ list \in [pc : {"none", "sent", "read", "ok", "failed"}, made : BOOLEAN]
    /\ {owed, overtaken} \subseteq BOOLEAN
    /\ loads \in 1..MaxLoads

\* A request starts: it waits for the mutex first.
Begin(op, as) == Made(op, as, IF renewal = NoOne THEN "sent" ELSE "queued")

\* getMe of a tab that starts with the tokens of t.
FirstMe(t) == Made("me", t, IF t = NoOne THEN "idle" ELSE "sent")

\* Who is signed in by prepareHeaders; login sends its account in the body.
SentAs(r, t) == IF r.op = "login" THEN r.as ELSE t

\* A request has ended.
Ended(r, pc) == [r EXCEPT !.pc = pc, !.as = NoOne]

Gone == [Made("home", NoOne, "over") EXCEPT !.here = FALSE]

\* Its page is unmounted; a request that has ended is forgotten.
Unmounted(r) == IF Pending(r) THEN [r EXCEPT !.here = FALSE] ELSE IF r.pc = "idle" THEN r ELSE Gone

\* What waits for the renewal goes on when it ends, with the tokens of t.
Released(r, t, renewed) ==
    CASE r.pc = "queued" -> [r EXCEPT !.pc = "sent", !.as = SentAs(r, t)]
      [] r.pc = "waiting" \/ (r.pc = "renewing" /\ renewed) ->
            [r EXCEPT !.pc = "again", !.as = SentAs(r, t)]
      [] r.pc = "renewing" /\ ~renewed -> Ended(r, "failed")
      [] OTHER -> r

\* A first answer of 401: renew the tokens, or wait for who does.
Renewing(r) == [r EXCEPT !.pc = IF renewal = NoOne THEN "renewing" ELSE "waiting"]

-----------------------------------------------------------------------------
(* What is on the screen. *)

\* AuthProvider hides all pages until getMe has settled.
Loading == token # NoOne /\ Pending(me)

\* selectIsAuthenticated and selectUserRole.
Authenticated == token # NoOne /\ user # NoOne
UserRole == IF user = NoOne THEN "CUSTOMER" ELSE Role[user]

OrganizerRoles == {"ADMIN", "ORGANIZER"}
Guarded == {"account", "metrics"} \union OrganizerForms

\* Mutant: a page is denied only to who has no role.
MeetsAnyRole(p) == TRUE

\* The requireRole of the routes.  With none given, unmetRequiredRole compares
\* the role with undefined: nobody meets it.
MeetsRole(p) ==
    \/ p \in {"create", "coupons"} /\ UserRole \in OrganizerRoles
    \/ p = "newcoupon" /\ UserRole = "ORGANIZER"
    \/ p = "metrics" /\ UserRole = "ADMIN"

Screen ==
    IF Loading THEN "loader"
    ELSE IF page \in Guarded /\ ~MeetsRole(page) THEN "denied" ELSE page

\* Where the redirects lead from p: Navigate in ProtectedRoute, the effects of
\* the pages Login and Register.
Lands(p, loading, authenticated) ==
    CASE ~loading /\ ~authenticated /\ p \in Guarded -> "login"
      [] ~loading /\ authenticated /\ p \in {"login", "register"} -> "home"
      [] OTHER -> p

\* The hooks of getMe subscribe when there is a token: an entry that was
\* fulfilled, or is pending, is not fetched again.
Subscribed(m, t) ==
    IF t # NoOne /\ m.pc \in {"idle", "failed"} THEN Begin("me", t) ELSE m

\* The invalidation of a tag waits until nothing is pending.
Quiet(m, cs, l) ==
    ~Pending(m) /\ (\A c \in Submission : ~Pending(cs[c])) /\ l.pc \notin {"sent", "read"}

UnusedList == [pc |-> "none", made |-> FALSE]

\* The end of a step that goes to p and leaves the submissions cs, the list l
\* and the invalidation o: the pages are rendered.
Renders(p, cs, l, o) ==
    /\ page' = Lands(p, Loading', Authenticated')
    /\ calls' = [c \in Submission |->
                   LET r == [cs[c] EXCEPT !.crossed = @ \/ (token' # token /\ Early(calls[c]))]
                   IN  IF Screen' = Screen /\ page' = page THEN r ELSE Unmounted(r)]
    /\ LET mounted == Screen' = "coupons" /\ Screen # "coupons"
           shown == IF mounted /\ l.pc \in {"none", "failed"} THEN [l EXCEPT !.pc = "sent"] ELSE l
           flush == o /\ Quiet(me', cs, shown)
       IN  /\ owed' = (o /\ ~flush)
           /\ list' = IF flush /\ shown.pc # "none"
                      THEN IF Screen' = "coupons" THEN [shown EXCEPT !.pc = "sent"] ELSE UnusedList
                      ELSE shown
    /\ overtaken' = IF token' # token THEN me.pc \in Sent /\ me'.pc \in Sent ELSE overtaken

Stays(cs) == Renders(page, cs, list, owed)

-----------------------------------------------------------------------------
(* The tab is loaded; the slice and getMe. *)

\* A browser that was never signed in; Load leads to the others.
Init ==
    /\ page \in Opened \intersect {"home", "callback"}
    /\ stored = NoOne
    /\ token = NoOne
    /\ user = NoOne
    /\ renewal = NoOne
    /\ me = FirstMe(NoOne)
    /\ calls = [c \in Submission |-> Made("home", NoOne, "idle")]
    /\ coupon = "none"
    /\ list = UnusedList
    /\ owed = FALSE
    /\ loads = 1
    /\ overtaken = FALSE

\* getInitialState: an address is entered, or the tab reloaded.  What was under
\* way is given up by the tab.
Load(p) ==
    /\ loads < MaxLoads
    /\ loads' = loads + 1
    /\ token' = stored
    /\ user' = NoOne
    /\ renewal' = NoOne
    /\ me' = FirstMe(stored)
    /\ page' = Lands(p, Loading', Authenticated')
    /\ calls' = [c \in Submission |-> IF calls[c].pc = "idle" THEN calls[c] ELSE Gone]
    /\ list' = IF Screen' = "coupons" THEN [UnusedList EXCEPT !.pc = "sent"] ELSE UnusedList
    /\ owed' = FALSE
    /\ overtaken' = FALSE
    /\ UNCHANGED <<stored, coupon>>

\* Mutant: the data of the user is left as it was.
SetTokensOnly(u) == token' = u /\ stored' = u /\ UNCHANGED user

SetCredentials(u) == token' = u /\ stored' = u /\ user' = u

ClearCredentials == token' = NoOne /\ stored' = NoOne /\ user' = NoOne

\* getMe, answered with the account of the tokens it was sent with: setUserData.
MeSucceeds ==
    /\ me.pc \in Sent /\ me.as # NoOne
    /\ user' = me.as
    /\ me' = Ended(me, "over")
    /\ UNCHANGED <<stored, token, renewal, coupon, loads>>
    /\ Stays(calls)

\* Any error ends the session.
MeFails ==
    /\ me.pc \in Sent
    /\ ClearCredentials
    /\ me' = Ended(me, "failed")
    /\ UNCHANGED <<renewal, coupon, loads>>
    /\ Stays(calls)

\* 401, with a refresh token to try.
MeRefused ==
    /\ me.pc = "sent"
    /\ token # NoOne \/ renewal # NoOne
    /\ me' = Renewing(me)
    /\ renewal' = IF renewal = NoOne THEN token ELSE renewal
    /\ UNCHANGED <<credentials, coupon, loads>>
    /\ Stays(calls)

\* A minute without a subscriber.
MeDropped ==
    /\ token = NoOne
    /\ me.pc \in {"over", "failed"}
    /\ me' = FirstMe(NoOne)
    /\ UNCHANGED <<credentials, renewal, coupon, loads>>
    /\ Stays(calls)

Resumed(t, renewed) == [c \in Submission |-> Released(calls[c], t, renewed)]

\* The new tokens are stored, whoever is signed in by now.
RenewalSucceeds ==
    /\ renewal # NoOne
    /\ SetCredentials(renewal)
    /\ renewal' = NoOne
    /\ LET m == Released(me, renewal, TRUE)
       IN  me' = IF token = NoOne /\ m.pc \in {"idle", "failed"}
                 THEN FirstMe(renewal) ELSE m
    /\ UNCHANGED <<coupon, loads>>
    /\ Stays(Resumed(renewal, TRUE))

\* Mutant: who waited for the mutex is forgotten when a renewal has failed.
RenewalFailsAlone ==
    /\ renewal # NoOne
    /\ ClearCredentials
    /\ renewal' = NoOne
    /\ me' = me
    /\ UNCHANGED <<coupon, loads>>
    /\ Stays(calls)

RenewalFails ==
    /\ renewal # NoOne
    /\ ClearCredentials
    /\ renewal' = NoOne
    /\ me' = Released(me, NoOne, FALSE)
    /\ UNCHANGED <<coupon, loads>>
    /\ Stays(Resumed(NoOne, FALSE))

-----------------------------------------------------------------------------
(* The user. *)

\* A link, or the history of the tab.  Only a load leads to OAuthCallback.
Visit(p) ==
    /\ p \notin {page, "callback"}
    /\ UNCHANGED <<credentials, me, renewal, coupon, loads>>
    /\ Renders(p, calls, list, owed)

\* handleLogout: the server is not told.
Logout ==
    /\ Authenticated
    /\ ClearCredentials
    /\ UNCHANGED <<me, renewal, coupon, loads>>
    /\ Renders("login", calls, list, owed)

\* OAuthCallback, with the tokens of u in its address or with none.  The store
\* learns of them when the tab is loaded again.
Callback(u) ==
    /\ Screen = "callback"
    /\ stored' = IF u = NoOne THEN stored ELSE u
    /\ UNCHANGED <<token, user, me, renewal, coupon, loads>>
    /\ Renders(IF u = NoOne THEN "login" ELSE "home", calls, list, owed)

UnderWayHere(p) == \E c \in Submission : Pending(calls[c]) /\ calls[c].here /\ calls[c].op = p

\* The forms.  Most disable their button while the last one sent is pending.
FormFree(p) == Screen = p /\ ~UnderWayHere(p)

LoginForm == FormFree("login")
RegisterForm == FormFree("register")
ResetForm == FormFree("reset")
CreateForm == FormFree("create")
NewCouponForm == FormFree("newcoupon")

\* It is gone when the mail was ordered.
ForgotForm ==
    /\ FormFree("forgot")
    /\ \A c \in Submission : calls[c].op = "forgot" /\ calls[c].here => calls[c].pc # "over"

\* Only the loading of the event disables the button of a booking.
BookingForm == Screen = "event" /\ token # NoOne

\* The switch of a coupon in the list is always on.
CouponSwitch == Screen = "coupons" /\ list.pc \notin {"none", "failed"}

MaySubmit ==
    \/ LoginForm \/ RegisterForm \/ ForgotForm \/ ResetForm
    \/ BookingForm
    \/ CreateForm \/ NewCouponForm \/ CouponSwitch

Submit(c) ==
    /\ calls[c].pc = "idle" /\ (\A d \in 1..(c - 1) : calls[d].pc # "idle")
    /\ MaySubmit
    /\ UNCHANGED <<credentials, me, renewal, coupon, loads>>
    /\ \E u \in User :
          Stays([calls EXCEPT ![c] =
                   [Begin(Screen, IF Screen = "login" THEN u ELSE token)
                        EXCEPT !.crossed = (Screen = "event" /\ UnderWayHere("event"))
                                       \/ (Screen \in OrganizerForms /\ overtaken)]])

-----------------------------------------------------------------------------
(* The submissions. *)

Public == {"login", "register", "forgot", "reset"}

\* The guards of the routes.
JwtAuthGuard(r) == r.op \in Public \/ r.as # NoOne
RolesGuard(r) == r.op \in OrganizerForms => Role[r.as] \in OrganizerRoles

\* The backend does what it was asked.  ResetPassword sends no token, and is
\* always refused.
Serve(c) ==
    /\ calls[c].pc \in Sent
    /\ calls[c].op # "reset"
    /\ JwtAuthGuard(calls[c]) /\ RolesGuard(calls[c])
    /\ coupon' = IF calls[c].op = "newcoupon" /\ coupon = "none" THEN "made" ELSE coupon
    /\ UNCHANGED <<credentials, me, renewal, loads>>
    /\ Stays([calls EXCEPT ![c].pc = "served",
                            ![c].as = IF calls[c].op = "login" THEN @ ELSE NoOne,
                            ![c].crossed = @ /\ calls[c].op = "event"])

\* Mutant: the page of the event stays when the booking is made.
BookedStays(c) ==
    /\ calls[c].pc = "served" /\ calls[c].op = "event"
    /\ UNCHANGED <<credentials, me, renewal, coupon, loads>>
    /\ Renders(page, [calls EXCEPT ![c] = Ended(@, "over")], list, owed)

\* EventDetails.onSubmit: on to the checkout, from wherever the tab is by now.
Booked(c) ==
    /\ calls[c].pc = "served" /\ calls[c].op = "event"
    /\ UNCHANGED <<credentials, me, renewal, coupon, loads>>
    /\ Renders("account", [calls EXCEPT ![c] = Ended(@, "over")], list, owed)

\* login: setCredentials, then handleSubmit goes home.
LoggedIn(c) ==
    /\ calls[c].pc = "served" /\ calls[c].op = "login"
    /\ SetCredentials(calls[c].as)
    /\ me' = Subscribed(me, calls[c].as)
    /\ UNCHANGED <<renewal, coupon, loads>>
    /\ Renders("home", [calls EXCEPT ![c] = Ended(@, "over")], list, owed)

\* Mutant: a new coupon invalidates another tag than the list's.
CouponMadeUnseen(c) ==
    /\ calls[c].pc = "served" /\ calls[c].op = "newcoupon"
    /\ coupon' = "told"
    /\ UNCHANGED <<credentials, me, renewal, loads>>
    /\ Renders(page, [calls EXCEPT ![c] = Ended(@, "over")], list, owed)

\* createCoupon invalidates the list of the event.
CouponMade(c) ==
    /\ calls[c].pc = "served" /\ calls[c].op = "newcoupon"
    /\ coupon' = "told"
    /\ UNCHANGED <<credentials, me, renewal, loads>>
    /\ Renders(page, [calls EXCEPT ![c] = Ended(@, "over")], list, TRUE)

\* The other pages only tell; updateCoupon patches, and invalidates, the list
\* of no event.
Told(c) ==
    /\ calls[c].pc = "served" /\ calls[c].op \notin {"event", "login", "newcoupon"}
    /\ UNCHANGED <<credentials, me, renewal, coupon, loads>>
    /\ Stays([calls EXCEPT ![c] = Ended(@, "over")])

\* Refused, or the answer is lost.
Fails(c) ==
    /\ calls[c].pc \in Sent \union {"served"}
    /\ UNCHANGED <<credentials, me, renewal, coupon, loads>>
    /\ Stays([calls EXCEPT ![c] = Ended(@, IF @.pc = "served" THEN "lost" ELSE "failed")])

\* 401: an expired token, or a wrong password.
Refused(c) ==
    /\ calls[c].pc = "sent"
    /\ calls[c].op \notin {"register", "forgot", "reset"}
    /\ UNCHANGED <<me, coupon, loads>>
    /\ IF token = NoOne /\ renewal = NoOne
       THEN /\ ClearCredentials
            /\ UNCHANGED renewal
            /\ Stays([calls EXCEPT ![c] = Ended(@, "failed")])
       ELSE /\ renewal' = IF renewal = NoOne THEN token ELSE renewal
            /\ UNCHANGED credentials
            /\ Stays([calls EXCEPT ![c] = Renewing(@)])

-----------------------------------------------------------------------------
(* getEventCoupons.  Its own renewals are left to Reauth. *)

ListStep(l) ==
    /\ UNCHANGED <<credentials, me, renewal, coupon, loads>>
    /\ Renders(page, calls, l, owed)

ListReads ==
    list.pc = "sent" /\ ListStep([pc |-> "read", made |-> coupon # "none"])

ListArrives == list.pc = "read" /\ ListStep([list EXCEPT !.pc = "ok"])

ListFails == list.pc \in {"sent", "read"} /\ ListStep([list EXCEPT !.pc = "failed"])

\* A minute without a subscriber.
ListDropped == Screen # "coupons" /\ list.pc \in {"ok", "failed"} /\ ListStep(UnusedList)

-----------------------------------------------------------------------------

MeStep == MeSucceeds \/ MeFails \/ MeRefused

Renewed == RenewalSucceeds \/ RenewalFails

Answered(c) ==
    Serve(c) \/ Booked(c) \/ LoggedIn(c) \/ CouponMade(c) \/ Told(c) \/ Fails(c) \/ Refused(c)

Next ==
    \/ MeStep \/ MeDropped \/ Renewed
    \/ Logout
    \/ \E p \in Opened : Load(p) \/ Visit(p)
    \/ \E u \in Account : Callback(u)
    \/ \E c \in Submission : Submit(c) \/ Answered(c)
    \/ ListReads \/ ListArrives \/ ListFails \/ ListDropped

\* The requests of getMe and of the renewal are answered, or fail.
Spec == Init /\ [][Next]_vars /\ WF_vars(MeStep) /\ WF_vars(Renewed)

-----------------------------------------------------------------------------
(* Properties. *)

\* The user whose data is shown, and whose role opens pages, is the one whose
\* tokens the requests carry: through sign-in, sign-out, reloads, renewals that
\* end late and a getMe that is not repeated.  Left out: getMe was answered for
\* tokens that had changed under way.
UserIsTokens == Authenticated /\ ~overtaken => user = token

\* A tab that has tokens comes to show their user or is signed out: the loader
\* of AuthProvider ends, and no page waits at the login form with tokens.
RestoreEnds == (token # NoOne) ~> (token = NoOne \/ (Authenticated /\ ~Loading))

\* What an organizer's page sends is sent with the tokens of an organizer,
\* although the page was opened by the role in the store.  Left out: the tokens
\* changed while getMe was under way, or while the request waited.
FormsAreAccepted ==
    \A c \in Submission :
        /\ calls[c].op \in OrganizerForms
        /\ calls[c].pc \in Sent
        /\ calls[c].as # NoOne
        /\ ~calls[c].crossed
        => Role[calls[c].as] \in OrganizerRoles

\* One visit of an event's page makes one booking, unless its button was
\* pressed again before the answer or an answer was lost.
BooksOnce ==
    \A c, d \in Submission :
        /\ c # d
        /\ \A x \in {c, d} : calls[x].op = "event" /\ calls[x].here /\ calls[x].pc \in {"served", "over"}
        => calls[c].crossed \/ calls[d].crossed

\* When all has settled, a list that is shown has the coupon this tab has made,
\* whichever of the list's own answers came late.
ListIsTrue ==
    Screen = "coupons" /\ list.pc = "ok" /\ Quiet(me, calls, list) =>
        (coupon = "told" => list.made)
=============================================================================
