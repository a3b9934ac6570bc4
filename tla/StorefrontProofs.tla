--------------------------- MODULE StorefrontProofs ---------------------------
(***************************************************************************)
(* The tab of a browser, for any accounts and roles, any number of forms   *)
(* and of loads, and whatever pages are visited.                           *)
(*                                                                         *)
(* Every step but a load ends in Renders.  What comes before it is one of  *)
(* a few changes of one submission, or the end of a renewal (Moves); what  *)
(* it does to a submission is one of two things (Shown).  The invariants   *)
(* of the submissions follow from these and not from the actions.          *)
(***************************************************************************)
EXTENDS Storefront, TLAPS

\* A getMe on its way carries the tokens of the store, unless they have
\* changed since.
MeIsCurrent == ~overtaken /\ me.pc \in Sent => me.as = token

\* A form not yet sent was filled in nowhere.
UnsentIsBlank == \A c \in Submission : calls[c].pc = "idle" => calls[c].op = "home"

\* A booking that still has its page is on the screen, and leaves with it.
BookingsOnScreen ==
    \A c \in Submission :
        calls[c].op = "event" /\ calls[c].here => Screen = "event" /\ calls[c].pc # "over"

\* Of two bookings under way from one page, one was sent after the other.
CrossedBookings ==
    \A c, d \in Submission :
        /\ c # d
        /\ \A x \in {c, d} : calls[x].op = "event" /\ calls[x].here /\ Pending(calls[x])
        => calls[c].crossed \/ calls[d].crossed

\* While its tokens may still change, a form that no change has met is one of
\* an organizer; once it is sent again, its tokens are.
Accepted(u) == u # NoOne => Role[u] \in OrganizerRoles

FormsAreOrganizers ==
    \A c \in Submission :
        LET r == calls[c]
        IN  r.op \in OrganizerForms /\ ~r.crossed =>
              /\ r.pc \in Queued \union {"sent"} => Accepted(token)
              /\ r.pc = "sent" => r.as = token
              /\ r.pc = "again" => Accepted(r.as)

\* A list that was read before the coupon it lacks was told is asked for again,
\* as soon as nothing is pending.
ListIsOwed ==
    /\ list.pc \in {"read", "ok"} /\ ~list.made /\ coupon = "told" => owed
    /\ owed => ~Quiet(me, calls, list)

IInv ==
    /\ TypeOK /\ me.op = "me"
    /\ MeIsCurrent /\ UserIsTokens
    /\ UnsentIsBlank /\ BookingsOnScreen /\ CrossedBookings
    /\ FormsAreOrganizers
    /\ ListIsOwed

-----------------------------------------------------------------------------
(* Requests. *)

ListType == [pc : {"none", "sent", "read", "ok", "failed"}, made : BOOLEAN]

\* The operators on requests return requests.
LEMMA RequestOps ==
    ASSUME TypeOK, NEW r \in Request
    PROVE  /\ \A pc \in {"over", "failed", "lost"} : Ended(r, pc) \in Request
           /\ \A t \in Account, b \in BOOLEAN : Released(r, t, b) \in Request
           /\ Renewing(r) \in Request
           /\ Unmounted(r) \in Request
  <1>1. NoOne \in Account /\ "home" \in Opened
    BY OpenedAssumption DEF Account
  <1>2. \A pc \in {"over", "failed", "lost"} : Ended(r, pc) \in Request
    BY <1>1 DEF Ended, Request
  <1>3. ASSUME NEW t \in Account, NEW b \in BOOLEAN PROVE Released(r, t, b) \in Request
    <2>1. SentAs(r, t) \in Account
      BY DEF SentAs, Request
    <2>2. /\ [r EXCEPT !.pc = "sent", !.as = SentAs(r, t)] \in Request
          /\ [r EXCEPT !.pc = "again", !.as = SentAs(r, t)] \in Request
      BY <2>1 DEF Request, Sent
    <2> QED
      BY <1>2, <2>2 DEF Released
  <1>4. Renewing(r) \in Request
    BY DEF Renewing, Request, Queued
  <1>5. Unmounted(r) \in Request
    BY <1>1 DEF Unmounted, Gone, Made, Request
  <1> QED
    BY <1>2, <1>3, <1>4, <1>5

\* A new request is a request, sent or waiting for the mutex.
LEMMA NewRequest ==
    ASSUME TypeOK, NEW op \in Opened \union {"me"}, NEW t \in Account
    PROVE  /\ Begin(op, t) \in Request
           /\ Begin(op, t).op = op /\ Begin(op, t).as = t
           /\ Begin(op, t).pc \in {"sent", "queued"}
           /\ ~Begin(op, t).crossed
           /\ FirstMe(t) \in Request
           /\ FirstMe(t).op = "me"
           /\ FirstMe(t).as = t
  BY DEF Begin, FirstMe, Made, Request, Queued, Sent

-----------------------------------------------------------------------------
(* The tokens, the user and getMe. *)

\* getMe is left alone, is not on its way, or has just been sent with the
\* tokens of the store.
MeMoves == me' = me \/ me'.pc \notin Sent \/ me'.as = token'

\* The user is left alone with the tokens, comes with them, is gone, or is who
\* getMe was answered for.
UserMoves ==
    \/ user' = user /\ token' = token
    \/ user' = token'
    \/ user' = NoOne
    \/ me.pc \in Sent /\ user' = me.as /\ token' = token

LEMMA SessionMoves ==
    ASSUME IInv, Next
    PROVE  /\ {stored', token', user', renewal'} \subseteq Account
           /\ me' \in Request /\ me'.op = "me"
           /\ coupon' \in {"none", "made", "told"}
           /\ loads' \in 1..MaxLoads
           /\ MeMoves /\ UserMoves
  <1>0. /\ {stored, token, user, renewal} \subseteq Account /\ NoOne \in Account
        /\ me \in Request /\ me.op = "me" /\ me.as \in Account
        /\ coupon \in {"none", "made", "told"} /\ loads \in 1..MaxLoads
        /\ calls \in [Submission -> Request]
    BY DEF IInv, TypeOK, Account, Request
  <1> DEFINE SameMe == me' = me
             Same == UNCHANGED <<stored, token, user, renewal, loads>>
  <1>1. CASE SameMe /\ Same /\ coupon' \in {"none", "made", "told"}
    BY <1>0, <1>1 DEF MeMoves, UserMoves
  <1>2. CASE MeStep \/ MeDropped
    <2>0. ASSUME NEW pc \in {"over", "failed"}
          PROVE  /\ Ended(me, pc) \in Request /\ Ended(me, pc).op = "me"
                 /\ Ended(me, pc).pc \notin Sent
      <3>1. Ended(me, pc).op = me.op /\ Ended(me, pc).pc = pc
        BY <1>0 DEF Ended, Request
      <3> QED
        BY <1>0, <3>1, RequestOps DEF IInv, Sent
    <2>1. CASE MeSucceeds
      BY <1>0, <2>0, <2>1 DEF MeSucceeds, MeMoves, UserMoves
    <2>2. CASE MeFails
      BY <1>0, <2>0, <2>2 DEF MeFails, ClearCredentials, MeMoves, UserMoves
    <2>3. CASE MeRefused
      BY <1>0, <2>3, RequestOps
         DEF MeRefused, credentials, Renewing, MeMoves, UserMoves, IInv, Sent
    <2>4. CASE MeDropped
      BY <1>0, <2>4, NewRequest DEF MeDropped, credentials, MeMoves, UserMoves, IInv
    <2> QED
      BY <1>2, <2>1, <2>2, <2>3, <2>4 DEF MeStep
  <1>3. CASE Renewed
    <2>1. ASSUME NEW t \in Account, NEW b \in BOOLEAN, NEW m, m = Released(me, t, b)
          PROVE  m \in Request /\ m.op = "me" /\ (m = me \/ m.pc \notin Sent \/ m.as = t)
      <3>1. m \in Request
        BY <1>0, <2>1, RequestOps DEF IInv
      <3>2. SentAs(me, t) = t
        BY <1>0 DEF SentAs
      <3>3. CASE m = [me EXCEPT !.pc = "sent", !.as = t] \/ m = [me EXCEPT !.pc = "again", !.as = t]
        BY <1>0, <3>1, <3>3 DEF Request
      <3>4. CASE m = Ended(me, "failed")
        BY <1>0, <3>1, <3>4 DEF Ended, Request, Sent
      <3> QED
        BY <1>0, <2>1, <3>1, <3>2, <3>3, <3>4 DEF Released
    <2>2. CASE RenewalSucceeds
      <3>1. PICK m : m = Released(me, renewal, TRUE)
        OBVIOUS
      <3>2. m \in Request /\ m.op = "me" /\ (m = me \/ m.pc \notin Sent \/ m.as = renewal)
        BY <1>0, <2>1, <3>1
      <3>3. /\ token' = renewal /\ user' = renewal /\ stored' = renewal /\ renewal' = NoOne
            /\ UNCHANGED <<coupon, loads>>
            /\ me' = m \/ me' = FirstMe(renewal)
        BY <2>2, <3>1 DEF RenewalSucceeds, SetCredentials
      <3> QED
        BY <1>0, <3>2, <3>3, NewRequest DEF MeMoves, UserMoves, IInv
    <2>3. CASE RenewalFails
      <3>1. PICK m : m = Released(me, NoOne, FALSE)
        OBVIOUS
      <3>2. m \in Request /\ m.op = "me" /\ (m = me \/ m.pc \notin Sent \/ m.as = NoOne)
        BY <1>0, <2>1, <3>1
      <3> QED
        BY <1>0, <2>3, <3>1, <3>2 DEF RenewalFails, ClearCredentials, MeMoves, UserMoves
    <2> QED
      BY <1>3, <2>2, <2>3 DEF Renewed
  <1>4. CASE Logout
    BY <1>0, <1>4 DEF Logout, ClearCredentials, MeMoves, UserMoves
  <1>5. ASSUME NEW p \in Opened, Load(p) PROVE
           /\ token' = stored /\ user' = NoOne /\ renewal' = NoOne /\ stored' = stored
           /\ me' = FirstMe(stored) /\ coupon' = coupon /\ loads' = loads + 1
           /\ loads < MaxLoads
    BY <1>5 DEF Load
  <1>6. CASE \E p \in Opened : Load(p)
    <2>1. loads' \in 1..MaxLoads
      BY <1>0, <1>5, <1>6, BoundsAssumption
    <2> QED
      BY <1>0, <1>5, <1>6, <2>1, NewRequest DEF MeMoves, UserMoves, IInv
  <1>7. CASE \E p \in Opened : Visit(p)
    BY <1>1, <1>7, <1>0 DEF Visit, credentials
  <1>8. CASE \E u \in Account : Callback(u)
    BY <1>8, <1>0 DEF Callback, MeMoves, UserMoves
  <1>9. ASSUME NEW c \in Submission, Submit(c) \/ Answered(c)
        PROVE  /\ {stored', token', user', renewal'} \subseteq Account
               /\ me' \in Request /\ me'.op = "me"
               /\ coupon' \in {"none", "made", "told"}
               /\ loads' \in 1..MaxLoads
               /\ MeMoves /\ UserMoves
    <2>1. CASE Submit(c) \/ Serve(c) \/ Booked(c) \/ CouponMade(c) \/ Told(c) \/ Fails(c)
      BY <1>0, <1>1, <2>1
         DEF Submit, Serve, Booked, CouponMade, Told, Fails, credentials
    <2>2. CASE LoggedIn(c)
      <3>1. PICK u : u = calls[c].as
        OBVIOUS
      <3>2. u \in Account
        BY <1>0, <3>1 DEF Request
      <3>3. /\ token' = u /\ user' = u /\ stored' = u /\ UNCHANGED <<renewal, coupon, loads>>
            /\ me' = me \/ me' = Begin("me", u)
        BY <2>2, <3>1 DEF LoggedIn, SetCredentials, Subscribed
      <3> QED
        BY <1>0, <3>2, <3>3, NewRequest DEF MeMoves, UserMoves, IInv
    <2>3. CASE Refused(c)
      BY <1>0, <2>3 DEF Refused, ClearCredentials, credentials, MeMoves, UserMoves
    <2> QED
      BY <1>9, <2>1, <2>2, <2>3 DEF Answered
  <1>10. CASE ListReads \/ ListArrives \/ ListFails \/ ListDropped
    BY <1>0, <1>1, <1>10
       DEF ListReads, ListArrives, ListFails, ListDropped, ListStep, credentials
  <1> QED
    BY <1>2, <1>3, <1>4, <1>6, <1>7, <1>8, <1>9, <1>10 DEF Next

-----------------------------------------------------------------------------
(* What a step makes of the submissions and of the list. *)

\* How a step that goes to p changes submission c, before the pages are
\* rendered; a form is sent when nothing else happens.
Submits(cs, c, p) ==
    /\ calls[c].pc = "idle"
    /\ p = page /\ token' = token
    /\ \A d \in Submission \ {c} : cs[d] = calls[d]
    /\ Screen \in Opened
    /\ cs[c].op = Screen
    /\ cs[c].pc \in {"sent", "queued"}
    /\ Screen # "login" => cs[c].as = token
    /\ Screen = "event" /\ UnderWayHere("event") => cs[c].crossed
    /\ Screen \in OrganizerForms /\ overtaken => cs[c].crossed

Served(c, r) ==
    /\ Pending(calls[c])
    /\ r.op = calls[c].op /\ r.here = calls[c].here /\ r.pc = "served"
    /\ calls[c].op = "event" => r.crossed = calls[c].crossed

Ends(c, r, p) ==
    /\ Pending(calls[c])
    /\ \E pc \in {"over", "failed", "lost"} :
          r = Ended(calls[c], pc) /\ (pc = "over" /\ calls[c].op = "event" => p = "account")

Moves(cs, c, p) ==
    \/ cs[c] = calls[c]
    \/ Ends(c, cs[c], p)
    \/ \E renewed \in BOOLEAN : cs[c] = Released(calls[c], token', renewed)
    \/ calls[c].pc = "sent" /\ cs[c] = Renewing(calls[c])
    \/ Served(c, cs[c])
    \/ Submits(cs, c, p)

\* A list that has been read after the coupon was told has it, and one that is
\* told of now is asked for again.
Asks(l, o) == l.pc \in {"read", "ok"} /\ ~l.made /\ coupon' = "told" => o

Step(p, cs, l, o) ==
    /\ Renders(p, cs, l, o)
    /\ p \in Opened /\ cs \in [Submission -> Request] /\ l \in ListType /\ o \in BOOLEAN
    /\ \A c \in Submission : Moves(cs, c, p)
    /\ Asks(l, o)

LEMMA PagesVisited ==
    ASSUME TypeOK
    PROVE  /\ {"home", "login", "account"} \subseteq Opened
           /\ page \in Opened
           /\ Screen = page \/ Screen \in {"loader", "denied"}
           /\ {"loader", "denied"} \intersect Opened = {}
  BY OpenedAssumption DEF TypeOK, Screen

\* Most steps leave the submissions and the list alone.
LEMMA AloneStep ==
    ASSUME IInv, NEW p \in Opened, Renders(p, calls, list, owed), coupon' = coupon
    PROVE  Step(p, calls, list, owed)
  BY DEF Step, Moves, Asks, IInv, TypeOK, ListType, ListIsOwed

\* One submission changes.
LEMMA OneStep ==
    ASSUME IInv, NEW p \in Opened, NEW c \in Submission, NEW cs \in [Submission -> Request],
           NEW o \in BOOLEAN,
           Renders(p, cs, list, o),
           \A d \in Submission \ {c} : cs[d] = calls[d],
           Moves(cs, c, p),
           owed => o, coupon' \in {coupon, "made"} \/ o
    PROVE  Step(p, cs, list, o)
  BY DEF Step, Moves, Asks, IInv, TypeOK, ListType, ListIsOwed

\* A submission ends.
LEMMA EndStep ==
    ASSUME IInv, NEW p \in Opened, NEW c \in Submission,
           NEW pc \in {"over", "failed", "lost"}, NEW o \in BOOLEAN,
           Pending(calls[c]),
           pc = "over" /\ calls[c].op = "event" => p = "account",
           Renders(p, [calls EXCEPT ![c] = Ended(calls[c], pc)], list, o),
           owed => o, coupon' = coupon \/ o
    PROVE  \E q, cs, l, i : Step(q, cs, l, i)
  <1>1. PICK cs : cs = [calls EXCEPT ![c] = Ended(calls[c], pc)]
    OBVIOUS
  <1>2. calls \in [Submission -> Request]
    BY DEF IInv, TypeOK
  <1>3. /\ cs \in [Submission -> Request] /\ cs[c] = Ended(calls[c], pc)
        /\ \A d \in Submission \ {c} : cs[d] = calls[d]
    BY <1>1, <1>2, RequestOps DEF IInv
  <1>4. Moves(cs, c, p)
    BY <1>3 DEF Moves, Ends
  <1>5. Renders(p, cs, list, o)
    BY <1>1
  <1>6. coupon' \in {coupon, "made"} \/ o
    OBVIOUS
  <1>7. Step(p, cs, list, o)
    BY <1>3, <1>4, <1>5, <1>6, OneStep
  <1> QED
    BY <1>7

\* All that wait for a renewal go on.
LEMMA ReleaseStep ==
    ASSUME IInv, NEW renewed \in BOOLEAN, token' \in Account, coupon' = coupon,
           Stays(Resumed(token', renewed))
    PROVE  \E q, cs, l, i : Step(q, cs, l, i)
  <1>1. PICK cs : cs = Resumed(token', renewed)
    OBVIOUS
  <1>2. \A c \in Submission : cs[c] = Released(calls[c], token', renewed)
    BY <1>1 DEF Resumed
  <1>3. cs \in [Submission -> Request]
    BY <1>1, RequestOps DEF Resumed, IInv, TypeOK
  <1>4. Renders(page, cs, list, owed)
    BY <1>1 DEF Stays
  <1>5. Step(page, cs, list, owed)
    BY <1>2, <1>3, <1>4 DEF Step, Moves, Asks, IInv, TypeOK, ListType, ListIsOwed
  <1> QED
    BY <1>5

\* A form is sent.
LEMMA SubmitStep ==
    ASSUME IInv, NEW c \in Submission, Submit(c)
    PROVE  \E q, cs, l, i : Step(q, cs, l, i)
  <1>1. /\ calls \in [Submission -> Request] /\ token \in Account /\ page \in Opened
        /\ User \subseteq Account /\ owed \in BOOLEAN
    BY DEF IInv, TypeOK, Account
  <1>2. Screen = page /\ Screen \in Opened
    BY <1>1, PagesVisited DEF Submit, MaySubmit, LoginForm, RegisterForm, ForgotForm, ResetForm,
          BookingForm, CreateForm, NewCouponForm, CouponSwitch, FormFree, IInv
  <1>3. PICK u \in User :
           Stays([calls EXCEPT ![c] =
                   [Begin(Screen, IF Screen = "login" THEN u ELSE token)
                        EXCEPT !.crossed = (Screen = "event" /\ UnderWayHere("event"))
                                       \/ (Screen \in OrganizerForms /\ overtaken)]])
    BY DEF Submit
  <1>4. PICK r : r = Begin(Screen, IF Screen = "login" THEN u ELSE token)
    OBVIOUS
  <1>5. /\ r \in Request /\ r.op = Screen /\ r.pc \in {"sent", "queued"}
        /\ Screen # "login" => r.as = token
    BY <1>1, <1>2, <1>4, NewRequest DEF IInv
  <1>6. PICK x \in BOOLEAN : x = ((Screen = "event" /\ UnderWayHere("event"))
                                       \/ (Screen \in OrganizerForms /\ overtaken))
    OBVIOUS
  <1>7. PICK s : s = [r EXCEPT !.crossed = x]
    OBVIOUS
  <1>8. /\ s \in Request /\ s.op = Screen /\ s.pc \in {"sent", "queued"}
        /\ Screen # "login" => s.as = token
        /\ s.crossed = x
    BY <1>5, <1>7 DEF Request
  <1>9. PICK cs : cs = [calls EXCEPT ![c] = s]
    OBVIOUS
  <1>10. /\ cs \in [Submission -> Request] /\ cs[c] = s
         /\ \A d \in Submission \ {c} : cs[d] = calls[d]
    BY <1>1, <1>8, <1>9
  <1>11. Renders(page, cs, list, owed)
    BY <1>3, <1>4, <1>6, <1>7, <1>9 DEF Stays
  <1>12. Moves(cs, c, page)
    BY <1>2, <1>6, <1>8, <1>10 DEF Moves, Submits, Submit, credentials
  <1>13. coupon' = coupon
    BY DEF Submit
  <1>14. Step(page, cs, list, owed)
    BY <1>1, <1>10, <1>11, <1>12, <1>13, OneStep
  <1> QED
    BY <1>14

\* A submission is answered.
LEMMA AnswerStep ==
    ASSUME IInv, NEW c \in Submission, Answered(c)
    PROVE  \E q, cs, l, i : Step(q, cs, l, i)
  <1>1. /\ calls \in [Submission -> Request] /\ page \in Opened /\ owed \in BOOLEAN
        /\ {"home", "account"} \subseteq Opened
    BY OpenedAssumption DEF IInv, TypeOK
  <1>2. CASE Serve(c)
    <2>1. PICK r : r = [calls[c] EXCEPT !.pc = "served",
                          !.as = IF calls[c].op = "login" THEN @ ELSE NoOne,
                          !.crossed = @ /\ calls[c].op = "event"]
      OBVIOUS
    <2>2. r \in Request
      BY <1>1, <2>1 DEF Request, Account
    <2>3. r.op = calls[c].op /\ r.here = calls[c].here /\ r.pc = "served"
      BY <1>1, <2>1 DEF Request
    <2>4. calls[c].op = "event" => r.crossed = calls[c].crossed
      BY <1>1, <2>1 DEF Request
    <2>5. PICK cs : cs = [calls EXCEPT ![c] = r]
      OBVIOUS
    <2>6. /\ cs \in [Submission -> Request] /\ cs[c] = r
          /\ \A d \in Submission \ {c} : cs[d] = calls[d]
      BY <1>1, <2>2, <2>5
    <2>7. Renders(page, cs, list, owed)
      BY <1>2, <2>1, <2>5 DEF Serve, Stays
    <2>8. Moves(cs, c, page)
      BY <1>2, <2>3, <2>4, <2>6 DEF Moves, Served, Serve, Pending
    <2>9. coupon' \in {coupon, "made"}
      BY <1>2 DEF Serve
    <2>10. Step(page, cs, list, owed)
      BY <1>1, <2>6, <2>7, <2>8, <2>9, OneStep
    <2> QED
      BY <2>10
  <1>3. CASE Booked(c)
    BY <1>1, <1>3, EndStep DEF Booked, Pending
  <1>4. CASE LoggedIn(c)
    BY <1>1, <1>4, EndStep DEF LoggedIn, Pending
  <1>5. CASE CouponMade(c)
    BY <1>1, <1>5, EndStep DEF CouponMade, Pending
  <1>6. CASE Told(c)
    BY <1>1, <1>6, EndStep DEF Told, Pending, Stays
  <1>7. CASE Fails(c)
    BY <1>1, <1>7, EndStep DEF Fails, Pending, Stays
  <1>8. CASE Refused(c)
    <2>1. CASE token = NoOne /\ renewal = NoOne
      BY <1>1, <1>8, <2>1, EndStep DEF Refused, Pending, Sent, Stays
    <2>2. CASE ~(token = NoOne /\ renewal = NoOne)
      <3>1. PICK cs : cs = [calls EXCEPT ![c] = Renewing(calls[c])]
        OBVIOUS
      <3>2. /\ cs \in [Submission -> Request] /\ cs[c] = Renewing(calls[c])
            /\ \A d \in Submission \ {c} : cs[d] = calls[d]
        BY <1>1, <3>1, RequestOps DEF IInv
      <3>3. Renders(page, cs, list, owed) /\ calls[c].pc = "sent" /\ coupon' = coupon
        BY <1>8, <2>2, <3>1 DEF Refused, Stays
      <3>4. Moves(cs, c, page)
        BY <3>2, <3>3 DEF Moves
      <3>5. Step(page, cs, list, owed)
        BY <1>1, <3>2, <3>3, <3>4, OneStep
      <3> QED
        BY <3>5
    <2> QED
      BY <2>1, <2>2
  <1> QED
    BY <1>2, <1>3, <1>4, <1>5, <1>6, <1>7, <1>8 DEF Answered

\* The list is read, arrives, fails or is dropped.
LEMMA ListStepMoves ==
    ASSUME IInv, ListReads \/ ListArrives \/ ListFails \/ ListDropped
    PROVE  \E q, cs, l, i : Step(q, cs, l, i)
  <1>1. /\ calls \in [Submission -> Request] /\ page \in Opened /\ owed \in BOOLEAN
        /\ list \in ListType
    BY DEF IInv, TypeOK, ListType
  <1>2. PICK l : /\ Renders(page, calls, l, owed)
                 /\ \/ l = [pc |-> "read", made |-> coupon # "none"]
                    \/ list.pc = "read" /\ l = [list EXCEPT !.pc = "ok"]
                    \/ l = [list EXCEPT !.pc = "failed"]
                    \/ l = UnusedList
    BY DEF ListReads, ListArrives, ListFails, ListDropped, ListStep
  <1>3. coupon' = coupon
    BY DEF ListReads, ListArrives, ListFails, ListDropped, ListStep
  <1>4. l \in ListType /\ Asks(l, owed)
    <2>1. CASE l = [pc |-> "read", made |-> coupon # "none"]
      BY <1>3, <2>1 DEF ListType, Asks
    <2>2. CASE list.pc = "read" /\ l = [list EXCEPT !.pc = "ok"]
      BY <1>1, <1>3, <2>2 DEF ListType, Asks, IInv, ListIsOwed
    <2>3. CASE l = [list EXCEPT !.pc = "failed"]
      BY <1>1, <2>3 DEF ListType, Asks
    <2>4. CASE l = UnusedList
      BY <2>4 DEF ListType, Asks, UnusedList
    <2> QED
      BY <1>2, <2>1, <2>2, <2>3, <2>4
  <1>5. Step(page, calls, l, owed)
    BY <1>1, <1>2, <1>4 DEF Step, Moves
  <1> QED
    BY <1>5

\* A step is a load, or ends in Renders.
LEMMA NextSteps ==
    ASSUME IInv, Next
    PROVE  (\E p \in Opened : Load(p)) \/ (\E q, cs, l, i : Step(q, cs, l, i))
  <1>1. /\ page \in Opened /\ {"home", "login"} \subseteq Opened
        /\ NoOne \in Account /\ renewal \in Account
    BY OpenedAssumption DEF IInv, TypeOK, Account
  <1>2. CASE MeStep \/ MeDropped
    BY <1>1, <1>2, AloneStep
       DEF MeStep, MeSucceeds, MeFails, MeRefused, MeDropped, Stays
  <1>3. CASE Renewed
    <2>1. CASE RenewalSucceeds
      BY <1>1, <2>1, ReleaseStep DEF RenewalSucceeds, SetCredentials
    <2>2. CASE RenewalFails
      BY <1>1, <2>2, ReleaseStep DEF RenewalFails, ClearCredentials
    <2> QED
      BY <1>3, <2>1, <2>2 DEF Renewed
  <1>4. CASE Logout
    BY <1>1, <1>4, AloneStep DEF Logout
  <1>5. CASE \E p \in Opened : Visit(p)
    BY <1>5, AloneStep DEF Visit
  <1>6. CASE \E u \in Account : Callback(u)
    BY <1>1, <1>6, AloneStep DEF Callback
  <1> QED
    BY <1>2, <1>3, <1>4, <1>5, <1>6, SubmitStep, AnswerStep, ListStepMoves DEF Next

-----------------------------------------------------------------------------
(* What rendering the pages does to a submission. *)

PageStays == Screen' = Screen /\ page' = page

\* Submission c is as the step left it, but may be crossed or lose its page;
\* or it had ended and is forgotten.
Shown(c, r) ==
    \/ /\ calls'[c].op = r.op /\ calls'[c].as = r.as /\ calls'[c].pc = r.pc
       /\ calls'[c].crossed = (r.crossed \/ (token' # token /\ Early(calls[c])))
       /\ calls'[c].here => r.here
       /\ ~PageStays => ~calls'[c].here \/ r.pc = "idle"
    \/ calls'[c] = Gone /\ ~Pending(r)

LEMMA StepShows ==
    ASSUME IInv, NEW p, NEW cs, NEW l, NEW o, Step(p, cs, l, o)
    PROVE  /\ calls' \in [Submission -> Request]
           /\ \A c \in Submission : Shown(c, cs[c])
  <1> DEFINE Crossed(c) ==
                [cs[c] EXCEPT !.crossed = @ \/ (token' # token /\ Early(calls[c]))]
  <1>1. cs \in [Submission -> Request]
    BY DEF Step
  <1>2. calls' = [c \in Submission |-> IF PageStays THEN Crossed(c) ELSE Unmounted(Crossed(c))]
    BY DEF Step, Renders, PageStays
  <1>3. ASSUME NEW c \in Submission
        PROVE  calls'[c] \in Request /\ Shown(c, cs[c])
    <2>1. PICK x \in BOOLEAN : x = (cs[c].crossed \/ (token' # token /\ Early(calls[c])))
      OBVIOUS
    <2>2. PICK r : r = [cs[c] EXCEPT !.crossed = x]
      OBVIOUS
    <2>3. cs[c] \in Request
      BY <1>1
    <2>4. /\ r \in Request /\ r.op = cs[c].op /\ r.as = cs[c].as /\ r.pc = cs[c].pc
          /\ r.here = cs[c].here /\ r.crossed = x
      BY <2>2, <2>3 DEF Request
    <2>5. Crossed(c) = r
      BY <2>1, <2>2
    <2>6. CASE PageStays
      <3>1. calls'[c] = r
        BY <1>2, <2>5, <2>6
      <3> QED
        BY <2>1, <2>4, <2>6, <3>1 DEF Shown
    <2>7. CASE ~PageStays
      <3>1. calls'[c] = Unmounted(r)
        BY <1>2, <2>5, <2>7
      <3>2. Unmounted(r) \in Request
        BY <2>4, RequestOps DEF IInv
      <3>3. CASE Pending(r)
        <4>1. Unmounted(r) = [r EXCEPT !.here = FALSE]
          BY <3>3 DEF Unmounted
        <4>2. /\ calls'[c].op = r.op /\ calls'[c].as = r.as /\ calls'[c].pc = r.pc
              /\ calls'[c].crossed = r.crossed /\ ~calls'[c].here
          BY <2>4, <3>1, <4>1 DEF Request
        <4> QED
          BY <2>1, <2>4, <3>1, <3>2, <4>2 DEF Shown
      <3>4. CASE ~Pending(r) /\ r.pc = "idle"
        <4>1. calls'[c] = r
          BY <3>1, <3>4 DEF Unmounted
        <4> QED
          BY <2>1, <2>4, <3>4, <4>1 DEF Shown
      <3>5. CASE ~Pending(r) /\ r.pc # "idle"
        <4>1. calls'[c] = Gone
          BY <3>1, <3>5 DEF Unmounted
        <4>2. ~Pending(cs[c])
          BY <2>4, <3>5 DEF Pending
        <4> QED
          BY <3>1, <3>2, <4>1, <4>2 DEF Shown
      <3> QED
        BY <3>3, <3>4, <3>5
    <2> QED
      BY <2>6, <2>7
  <1>4. calls' \in [Submission -> Request]
    BY <1>2, <1>3
  <1> QED
    BY <1>3, <1>4

\* A forgotten submission is no form, and has ended.
LEMMA GoneIsOver ==
    Gone.op = "home" /\ Gone.pc = "over" /\ ~Gone.here
  BY DEF Gone, Made

-----------------------------------------------------------------------------
(* What a change makes of the fields of a submission. *)

\* One more way to say Moves, in fields.
LEMMA FieldMoves ==
    ASSUME IInv, NEW p, NEW cs \in [Submission -> Request], NEW c \in Submission, Moves(cs, c, p)
    PROVE  \/ cs[c] = calls[c]
           \/ Submits(cs, c, p)
           \/ /\ cs[c].op = calls[c].op /\ cs[c].here = calls[c].here
              /\ Pending(calls[c]) /\ cs[c].pc # "idle"
              /\ cs[c].crossed = calls[c].crossed
                    \/ (cs[c].pc = "served" /\ calls[c].op # "event")
              /\ cs[c].pc = "over" /\ calls[c].op = "event" => p = "account"
              /\ cs[c].pc \in Queued => calls[c].pc = "sent"
              /\ cs[c].pc = "sent" =>
                    calls[c].pc \in Queued /\ (cs[c].op # "login" => cs[c].as = token')
              /\ cs[c].pc = "again" =>
                    calls[c].pc \in Queued /\ (cs[c].op # "login" => cs[c].as = token')
  <1>1. calls[c] \in Request /\ cs[c] \in Request
    BY DEF IInv, TypeOK
  <1>2. CASE Ends(c, cs[c], p)
    <2>1. PICK pc \in {"over", "failed", "lost"} :
             cs[c] = Ended(calls[c], pc) /\ (pc = "over" /\ calls[c].op = "event" => p = "account")
      BY <1>2 DEF Ends
    <2>2. /\ cs[c].op = calls[c].op /\ cs[c].here = calls[c].here /\ cs[c].pc = pc
          /\ cs[c].crossed = calls[c].crossed
      BY <1>1, <2>1 DEF Ended, Request
    <2> QED
      BY <1>2, <2>1, <2>2 DEF Ends, Queued
  <1>3. ASSUME NEW b \in BOOLEAN, cs[c] = Released(calls[c], token', b), cs[c] # calls[c]
        PROVE  /\ cs[c].op = calls[c].op /\ cs[c].here = calls[c].here
               /\ calls[c].pc \in Queued
               /\ cs[c].crossed = calls[c].crossed
               /\ \/ cs[c].pc = "failed"
                  \/ cs[c].pc \in {"sent", "again"} /\ cs[c].as = SentAs(calls[c], token')
    <2>1. CASE calls[c].pc = "queued"
      <3>1. cs[c] = [calls[c] EXCEPT !.pc = "sent", !.as = SentAs(calls[c], token')]
        BY <1>3, <2>1 DEF Released
      <3> QED
        BY <1>1, <2>1, <3>1 DEF Request, Queued
    <2>2. CASE calls[c].pc = "waiting" \/ (calls[c].pc = "renewing" /\ b)
      <3>1. cs[c] = [calls[c] EXCEPT !.pc = "again", !.as = SentAs(calls[c], token')]
        BY <1>3, <2>2 DEF Released
      <3> QED
        BY <1>1, <2>2, <3>1 DEF Request, Queued
    <2>3. CASE calls[c].pc = "renewing" /\ ~b
      <3>1. cs[c] = Ended(calls[c], "failed")
        BY <1>3, <2>3 DEF Released
      <3> QED
        BY <1>1, <2>3, <3>1 DEF Request, Queued, Ended
    <2> QED
      BY <1>3, <2>1, <2>2, <2>3 DEF Released
  <1>4. CASE \E renewed \in BOOLEAN : cs[c] = Released(calls[c], token', renewed)
    BY <1>3, <1>4 DEF SentAs, Queued, Pending
  <1>5. CASE calls[c].pc = "sent" /\ cs[c] = Renewing(calls[c])
    <2>1. /\ cs[c].op = calls[c].op /\ cs[c].here = calls[c].here
          /\ cs[c].crossed = calls[c].crossed /\ cs[c].pc \in {"renewing", "waiting"}
      BY <1>1, <1>5 DEF Renewing, Request
    <2> QED
      BY <1>5, <2>1 DEF Pending, Sent
  <1>6. CASE Served(c, cs[c])
    BY <1>6 DEF Served, Queued
  <1> QED
    BY <1>2, <1>4, <1>5, <1>6 DEF Moves

-----------------------------------------------------------------------------
(* The invariant is kept by a step that ends in Renders. *)

LEMMA StepKeepsType ==
    ASSUME IInv, Next, NEW p, NEW cs, NEW l, NEW o, Step(p, cs, l, o)
    PROVE  TypeOK'
  <1>1. /\ page' \in Opened
    BY PagesVisited DEF Step, Renders, Lands, IInv
  <1>2. calls' \in [Submission -> Request]
    BY StepShows
  <1>3. list' \in ListType
    <2>1. PICK shown : shown = IF /\ Screen' = "coupons" /\ Screen # "coupons"
                                  /\ l.pc \in {"none", "failed"}
                               THEN [l EXCEPT !.pc = "sent"] ELSE l
      OBVIOUS
    <2>2. shown \in ListType /\ UnusedList \in ListType /\ [shown EXCEPT !.pc = "sent"] \in ListType
      BY <2>1 DEF Step, ListType, UnusedList
    <2>3. list' \in {shown, UnusedList, [shown EXCEPT !.pc = "sent"]}
      BY <2>1 DEF Step, Renders
    <2> QED
      BY <2>2, <2>3
  <1>4. owed' \in BOOLEAN
    BY DEF Step, Renders
  <1>5. overtaken' \in BOOLEAN
    BY DEF Step, Renders, IInv, TypeOK
  <1> QED
    BY <1>1, <1>2, <1>3, <1>4, <1>5, SessionMoves DEF TypeOK, ListType

\* getMe is sent with the tokens of the store; what it finds when the tokens
\* have changed is told by the ghost.
LEMMA KeepsSession ==
    ASSUME IInv, Next
    PROVE  MeIsCurrent' /\ UserIsTokens'
  <1>1. MeMoves /\ UserMoves
    BY SessionMoves
  <1>2. MeIsCurrent /\ UserIsTokens
    BY DEF IInv
  <1>3. CASE \E p \in Opened : Load(p)
    <2>1. user' = NoOne /\ me' = FirstMe(token')
      BY <1>3 DEF Load
    <2> QED
      BY <2>1 DEF MeIsCurrent, UserIsTokens, Authenticated, FirstMe, Made
  <1>4. CASE \E q, cs, l, i : Step(q, cs, l, i)
    <2>1. overtaken' = IF token' # token THEN me.pc \in Sent /\ me'.pc \in Sent ELSE overtaken
      BY <1>4 DEF Step, Renders
    <2>2. MeIsCurrent'
      BY <1>1, <1>2, <2>1 DEF MeIsCurrent, MeMoves
    <2>3. UserIsTokens'
      BY <1>1, <1>2, <2>1 DEF MeIsCurrent, UserIsTokens, UserMoves, Authenticated
    <2> QED
      BY <2>2, <2>3
  <1> QED
    BY <1>3, <1>4, NextSteps

LEMMA StepKeepsUnsent ==
    ASSUME IInv, NEW p, NEW cs, NEW l, NEW o, Step(p, cs, l, o)
    PROVE  UnsentIsBlank'
  <1> SUFFICES ASSUME NEW c \in Submission, calls'[c].pc = "idle"
               PROVE  calls'[c].op = "home"
    BY DEF UnsentIsBlank
  <1>1. cs \in [Submission -> Request] /\ Moves(cs, c, p) /\ Shown(c, cs[c])
    BY StepShows DEF Step
  <1>2. cs[c].pc = "idle" /\ calls'[c].op = cs[c].op
    BY <1>1, GoneIsOver DEF Shown
  <1>3. cs[c] = calls[c]
    BY <1>1, <1>2, FieldMoves DEF Submits
  <1> QED
    BY <1>2, <1>3 DEF IInv, UnsentIsBlank

LEMMA StepKeepsBookings ==
    ASSUME IInv, NEW p, NEW cs, NEW l, NEW o, Step(p, cs, l, o)
    PROVE  BookingsOnScreen'
  <1> SUFFICES ASSUME NEW c \in Submission, calls'[c].op = "event", calls'[c].here
               PROVE  Screen' = "event" /\ calls'[c].pc # "over"
    BY DEF BookingsOnScreen
  <1>1. cs \in [Submission -> Request] /\ Moves(cs, c, p) /\ Shown(c, cs[c])
    BY StepShows DEF Step
  <1>2. /\ cs[c].op = "event" /\ cs[c].here /\ calls'[c].pc = cs[c].pc
        /\ ~PageStays => cs[c].pc = "idle"
    BY <1>1, GoneIsOver DEF Shown
  <1>3. cs[c].pc # "idle"
    BY <1>1, <1>2, FieldMoves DEF Submits, IInv, UnsentIsBlank
  <1>4. Screen' = Screen /\ page' = page
    BY <1>2, <1>3 DEF PageStays
  <1>5. CASE cs[c] = calls[c]
    BY <1>2, <1>4, <1>5 DEF IInv, BookingsOnScreen
  <1>6. CASE Submits(cs, c, p)
    BY <1>2, <1>4, <1>6 DEF Submits
  <1>7. CASE /\ cs[c].op = calls[c].op /\ cs[c].here = calls[c].here
             /\ cs[c].pc = "over" /\ calls[c].op = "event" => p = "account"
    <2>1. calls[c].op = "event" /\ Screen = "event"
      BY <1>2, <1>7 DEF IInv, BookingsOnScreen
    <2>2. ASSUME cs[c].pc = "over" PROVE FALSE
      <3>1. page' \in {"account", "login"}
        BY <1>7, <2>1, <2>2 DEF Step, Renders, Lands
      <3>2. page = "event"
        BY <2>1 DEF Screen
      <3> QED
        BY <1>4, <3>1, <3>2
    <2> QED
      BY <1>2, <1>4, <2>1, <2>2
  <1> QED
    BY <1>1, <1>5, <1>6, <1>7, FieldMoves

\* Sending a booking crosses it with one that is under way; a booking stays
\* crossed while it is under way.
LEMMA StepKeepsCrossed ==
    ASSUME IInv, NEW p, NEW cs, NEW l, NEW o, Step(p, cs, l, o)
    PROVE  CrossedBookings'
  <1> DEFINE Under(r) == r.op = "event" /\ r.here /\ Pending(r)
  <1>1. cs \in [Submission -> Request]
    BY DEF Step
  <1>2. ASSUME NEW c \in Submission, Under(calls'[c])
        PROVE  /\ Under(cs[c])
               /\ cs[c].crossed => calls'[c].crossed
    <2>1. Shown(c, cs[c])
      BY StepShows
    <2>2. calls'[c] # Gone
      BY <1>2, GoneIsOver
    <2> QED
      BY <1>2, <2>1, <2>2 DEF Shown, Pending
  <1>3. ASSUME NEW c \in Submission, Under(cs[c]), ~Submits(cs, c, p)
        PROVE  Under(calls[c]) /\ cs[c].crossed = calls[c].crossed
    BY <1>1, <1>3, FieldMoves DEF Step
  <1>4. ASSUME NEW c \in Submission, NEW d \in Submission, c # d,
               Under(cs[c]), Under(cs[d]), Submits(cs, c, p)
        PROVE  cs[c].crossed
    <2>1. cs[d] = calls[d] /\ Screen = "event"
      BY <1>4 DEF Submits
    <2>2. UnderWayHere("event")
      BY <1>4, <2>1 DEF UnderWayHere
    <2> QED
      BY <1>4, <2>1, <2>2 DEF Submits
  <1>5. ASSUME NEW c \in Submission, NEW d \in Submission, c # d,
               Under(calls'[c]), Under(calls'[d])
        PROVE  calls'[c].crossed \/ calls'[d].crossed
    <2>1. Under(cs[c]) /\ Under(cs[d])
      BY <1>2, <1>5
    <2>2. CASE Submits(cs, c, p) \/ Submits(cs, d, p)
      BY <1>2, <1>4, <1>5, <2>1, <2>2
    <2>3. CASE ~Submits(cs, c, p) /\ ~Submits(cs, d, p)
      <3>1. calls[c].crossed \/ calls[d].crossed
        BY <1>3, <1>5, <2>1, <2>3 DEF IInv, CrossedBookings
      <3> QED
        BY <1>2, <1>3, <1>5, <2>1, <2>3, <3>1
    <2> QED
      BY <2>2, <2>3
  <1> QED
    BY <1>5 DEF CrossedBookings, Pending

\* An organizer's page is open to the user of the store, whose tokens the form
\* is sent with.
LEMMA OrganizerForm ==
    ASSUME IInv, Screen \in OrganizerForms, ~overtaken
    PROVE  Accepted(token)
  <1>1. page = Screen /\ MeetsRole(page) /\ page \notin {"account", "metrics"}
    BY DEF Screen, OrganizerForms, Guarded
  <1>2. UserRole \in OrganizerRoles
    BY <1>1 DEF MeetsRole, OrganizerForms, OrganizerRoles
  <1>3. user # NoOne /\ Role[user] \in OrganizerRoles
    BY <1>2 DEF UserRole, OrganizerRoles
  <1> QED
    BY <1>3 DEF Accepted, IInv, UserIsTokens, Authenticated

LEMMA StepKeepsForms ==
    ASSUME IInv, NEW p, NEW cs, NEW l, NEW o, Step(p, cs, l, o)
    PROVE  FormsAreOrganizers'
  <1> SUFFICES ASSUME NEW c \in Submission, calls'[c].op \in OrganizerForms, ~calls'[c].crossed
               PROVE  /\ calls'[c].pc \in Queued \union {"sent"} => Accepted(token')
                      /\ calls'[c].pc = "sent" => calls'[c].as = token'
                      /\ calls'[c].pc = "again" => Accepted(calls'[c].as)
    BY DEF FormsAreOrganizers, Accepted
  <1>1. cs \in [Submission -> Request] /\ Moves(cs, c, p) /\ Shown(c, cs[c])
    BY StepShows DEF Step
  <1>2. /\ cs[c].op = calls'[c].op /\ cs[c].pc = calls'[c].pc /\ cs[c].as = calls'[c].as
        /\ ~cs[c].crossed
        /\ Early(calls[c]) => token' = token
    BY <1>1, GoneIsOver DEF Shown, OrganizerForms
  <1>3. CASE cs[c] = calls[c]
    BY <1>2, <1>3 DEF IInv, FormsAreOrganizers, Early
  <1>4. CASE Submits(cs, c, p)
    BY <1>2, <1>4, OrganizerForm DEF Submits, OrganizerForms
  <1>5. CASE /\ cs[c].op = calls[c].op
             /\ cs[c].crossed = calls[c].crossed \/ (cs[c].pc = "served" /\ calls[c].op # "event")
             /\ cs[c].pc \in Queued => calls[c].pc = "sent"
             /\ cs[c].pc = "sent" =>
                   calls[c].pc \in Queued /\ (cs[c].op # "login" => cs[c].as = token')
             /\ cs[c].pc = "again" =>
                   calls[c].pc \in Queued /\ (cs[c].op # "login" => cs[c].as = token')
    <2>1. CASE cs[c].pc \in Queued \union {"sent", "again"}
      <3>1. ~calls[c].crossed /\ calls[c].pc \in Queued \union {"sent"}
        BY <1>2, <1>5, <2>1 DEF Queued
      <3>2. token' = token /\ Accepted(token)
        BY <1>2, <1>5, <3>1 DEF Early, IInv, FormsAreOrganizers
      <3> QED
        BY <1>2, <1>5, <3>2 DEF Accepted, OrganizerForms
    <2>2. CASE cs[c].pc \notin Queued \union {"sent", "again"}
      BY <1>2, <2>2
    <2> QED
      BY <2>1, <2>2
  <1> QED
    BY <1>1, <1>3, <1>4, <1>5, FieldMoves

\* A list that is to be asked for again is, when nothing is pending.
LEMMA StepKeepsList ==
    ASSUME IInv, NEW p, NEW cs, NEW l, NEW o, Step(p, cs, l, o)
    PROVE  ListIsOwed'
  <1>1. PICK shown : shown = IF /\ Screen' = "coupons" /\ Screen # "coupons"
                                /\ l.pc \in {"none", "failed"}
                             THEN [l EXCEPT !.pc = "sent"] ELSE l
    OBVIOUS
  <1>2. PICK flush \in BOOLEAN : flush = (o /\ Quiet(me', cs, shown))
    OBVIOUS
  <1>3. /\ owed' = (o /\ ~flush)
        /\ list' = IF flush /\ shown.pc # "none"
                   THEN IF Screen' = "coupons" THEN [shown EXCEPT !.pc = "sent"] ELSE UnusedList
                   ELSE shown
    BY <1>1, <1>2 DEF Step, Renders
  <1>4. shown \in ListType /\ l \in ListType /\ Asks(l, o)
    BY <1>1 DEF Step, ListType
  <1>5. ASSUME list'.pc \in {"read", "ok"}, ~list'.made, coupon' = "told"
        PROVE  owed'
    <2>1. ~flush /\ list' = shown
      BY <1>3, <1>4, <1>5 DEF ListType, UnusedList
    <2>2. list' = l
      BY <1>1, <1>4, <1>5, <2>1 DEF ListType
    <2> QED
      BY <1>3, <1>4, <1>5, <2>1, <2>2 DEF Asks
  <1>6. ASSUME owed' PROVE ~Quiet(me', calls', list')
    <2>1. list' = shown /\ ~Quiet(me', cs, shown)
      BY <1>2, <1>3, <1>6
    <2>2. \A c \in Submission : Pending(cs[c]) => Pending(calls'[c])
      BY StepShows DEF Shown, Pending
    <2> QED
      BY <2>1, <2>2 DEF Quiet
  <1> QED
    BY <1>5, <1>6 DEF ListIsOwed, Quiet

-----------------------------------------------------------------------------
(* A load, the initial states, and the theorems. *)

LEMMA LoadKeeps ==
    ASSUME IInv, Next, NEW p \in Opened, Load(p)
    PROVE  IInv'
  <1>1. \A c \in Submission :
           (calls'[c] = calls[c] /\ calls[c].pc = "idle") \/ calls'[c] = Gone
    BY DEF Load
  <1>2. Gone \in Request
    BY OpenedAssumption DEF Gone, Made, Request, Account
  <1>3. calls' \in [Submission -> Request]
    BY <1>1, <1>2 DEF Load, IInv, TypeOK
  <1>4. /\ list' \in ListType /\ list'.pc \notin {"read", "ok"}
        /\ owed' = FALSE /\ overtaken' = FALSE
    BY DEF Load, UnusedList, ListType
  <1>5. page' \in Opened
    BY PagesVisited DEF Load, Lands, IInv
  <1>6. TypeOK' /\ me'.op = "me"
    BY <1>3, <1>4, <1>5, SessionMoves DEF TypeOK, ListType
  <1>7. MeIsCurrent' /\ UserIsTokens'
    BY KeepsSession
  <1>8. \A c \in Submission :
           /\ calls'[c].op = "home" /\ calls'[c].pc \in {"idle", "over"}
    BY <1>1, GoneIsOver DEF IInv, UnsentIsBlank
  <1>9. UnsentIsBlank' /\ BookingsOnScreen' /\ CrossedBookings'
    BY <1>8 DEF UnsentIsBlank, BookingsOnScreen, CrossedBookings
  <1>10. FormsAreOrganizers'
    BY <1>8 DEF FormsAreOrganizers, OrganizerForms
  <1>11. ListIsOwed'
    BY <1>4 DEF ListIsOwed
  <1> QED
    BY <1>6, <1>7, <1>9, <1>10, <1>11 DEF IInv

LEMMA InitIInv == Init => IInv
  <1> SUFFICES ASSUME Init PROVE IInv
    OBVIOUS
  <1>1. NoOne \in Account /\ "home" \in Opened
    BY OpenedAssumption DEF Account
  <1>2. calls \in [Submission -> Request]
    BY <1>1 DEF Init, Made, Request
  <1>3. me \in Request /\ me.op = "me" /\ me.pc = "idle"
    BY <1>1 DEF Init, FirstMe, Made, Request
  <1>4. TypeOK
    <2>1. loads \in 1..MaxLoads
      BY BoundsAssumption DEF Init
    <2>2. list \in [pc : {"none", "sent", "read", "ok", "failed"}, made : BOOLEAN]
      BY DEF Init, UnusedList
    <2>3. page \in Opened /\ {stored, token, user, renewal} \subseteq Account
      BY <1>1 DEF Init
    <2>4. coupon \in {"none", "made", "told"} /\ owed \in BOOLEAN /\ overtaken \in BOOLEAN
      BY DEF Init
    <2> QED
      BY <1>2, <1>3, <2>1, <2>2, <2>3, <2>4 DEF TypeOK
  <1>5. MeIsCurrent /\ UserIsTokens
    BY <1>3 DEF Init, MeIsCurrent, UserIsTokens, Sent, Authenticated
  <1>6. \A c \in Submission : calls[c].op = "home"
    BY DEF Init, Made
  <1>7. UnsentIsBlank /\ BookingsOnScreen /\ CrossedBookings /\ FormsAreOrganizers
    BY <1>6 DEF UnsentIsBlank, BookingsOnScreen, CrossedBookings, FormsAreOrganizers, OrganizerForms
  <1>8. ListIsOwed
    BY DEF Init, ListIsOwed, UnusedList
  <1> QED
    BY <1>3, <1>4, <1>5, <1>7, <1>8 DEF IInv

LEMMA NextIInv == IInv /\ [Next]_vars => IInv'
  <1> SUFFICES ASSUME IInv, [Next]_vars PROVE IInv'
    OBVIOUS
  <1>1. CASE Next
    <2>1. CASE \E p \in Opened : Load(p)
      BY <1>1, <2>1, LoadKeeps
    <2>2. CASE \E q, cs, l, i : Step(q, cs, l, i)
      BY <1>1, <2>2, StepKeepsType, SessionMoves, KeepsSession, StepKeepsUnsent,
         StepKeepsBookings, StepKeepsCrossed, StepKeepsForms, StepKeepsList
         DEF IInv
    <2> QED
      BY <1>1, <2>1, <2>2, NextSteps
  <1>2. CASE UNCHANGED vars
    BY <1>2
       DEF vars, IInv, TypeOK, MeIsCurrent, UserIsTokens, Authenticated, UnsentIsBlank,
           BookingsOnScreen, CrossedBookings, FormsAreOrganizers, Accepted, ListIsOwed, Quiet,
           Screen, Loading, MeetsRole, UserRole
  <1> QED
    BY <1>1, <1>2

LEMMA InvariantHolds == Spec => []IInv
  BY InitIInv, NextIInv, PTL DEF Spec

\* Every variable of the tab keeps its type.
THEOREM StorefrontTypeCorrect == Spec => []TypeOK
  <1>1. IInv => TypeOK
    BY DEF IInv
  <1> QED
    BY <1>1, InvariantHolds, PTL

\* The user on the screen is the one of the tokens, for any accounts and any
\* number of loads, unless the tokens changed while getMe was under way.
THEOREM UserIsTokensHolds == Spec => []UserIsTokens
  <1>1. IInv => UserIsTokens
    BY DEF IInv
  <1> QED
    BY <1>1, InvariantHolds, PTL

\* An organizer's form carries the tokens of an organizer, for any roles and
\* any number of forms, unless the tokens changed under way.
THEOREM FormsAreAcceptedHolds == Spec => []FormsAreAccepted
  <1>1. IInv => FormsAreAccepted
    BY DEF IInv, FormsAreOrganizers, FormsAreAccepted, Accepted, Sent
  <1> QED
    BY <1>1, InvariantHolds, PTL

\* Two bookings are made from one visit of an event's page only if one was sent
\* while the other was under way, for any number of forms.
THEOREM BooksOnceHolds == Spec => []BooksOnce
  <1>1. IInv => BooksOnce
    BY DEF IInv, BookingsOnScreen, CrossedBookings, BooksOnce, Pending
  <1> QED
    BY <1>1, InvariantHolds, PTL

\* A list of coupons on the screen, with nothing pending, has the coupon this
\* tab has made, for any number of forms and whatever pages are visited.
THEOREM ListIsTrueHolds == Spec => []ListIsTrue
  <1>1. IInv => ListIsTrue
    BY DEF IInv, ListIsOwed, ListIsTrue
  <1> QED
    BY <1>1, InvariantHolds, PTL
=============================================================================
