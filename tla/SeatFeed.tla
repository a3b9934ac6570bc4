------------------------------- MODULE SeatFeed -------------------------------
(***************************************************************************)
(* EventEditing with the pages that show the event: getEventById fills the *)
(* cache entry of a page once, and the entry's socket then follows the     *)
(* seat updates that updateAvailableSeats has the gateway emit, from       *)
(* inside its transaction.                                                 *)
(*                                                                         *)
(* A page here is the cache entry: it lives from the first mount to a      *)
(* minute after the last unmount, and is fetched once.  socket.io          *)
(* (external) keeps the order of the messages to a connected client, keeps *)
(* what is emitted before a connection for it, loses what a broken         *)
(* connection carried, and connects again by itself.                       *)
(*                                                                         *)
(* The backend is deployed as several processes over one database, and the *)
(* gateway has no adapter that joins them: a room is local to its process, *)
(* so an update reaches the pages connected to the process that ran the    *)
(* transaction, and no others.                                             *)
(***************************************************************************)
EXTENDS EventEditing, Sequences, SequencesExt

CONSTANTS
    Viewer,     \* pages, with a socket each
    Replica     \* processes of the backend

VARIABLES
    servedBy,   \* the replica that runs each transaction
    page,       \* each page: its progress, the seats it shows, its connection
    told,       \* the last update that each replica has broadcast
    missed      \* ghost: by how much the row has moved since, without an update

feedVars == <<editVars, servedBy, page, told, missed>>

\* "answered": the response is on its way; "subscribing": subscribe:event is;
\* "deaf": connected again, in no room.
PagePC == {"closed", "fetching", "answered", "subscribing", "listening", "deaf", "failed"}

Page == [pc : PagePC, at : Replica \union {"nowhere"}, shown : Nat, wire : Seq(Nat),
         heard : BOOLEAN]

ClosedPage ==
    [pc |-> "closed", at |-> "nowhere", shown |-> 0, wire |-> <<>>, heard |-> FALSE]

FeedInit ==
    /\ EditInit
    /\ servedBy \in [Txn -> Replica]
    /\ page = [v \in Viewer |-> ClosedPage]
    /\ told = [r \in Replica |-> Capacity]
    /\ missed = [r \in Replica |-> 0]

-----------------------------------------------------------------------------
(* A page, and the gateway for its socket. *)

Moves(v, from, to) == page[v].pc = from /\ page' = [page EXCEPT ![v].pc = to]

\* The cache entry is added: the request leaves, the socket connects to a
\* replica of the load balancer's choice.
OpenPage(v, r) ==
    /\ page[v].pc = "closed"
    /\ page' = [page EXCEPT ![v].pc = "fetching", ![v].at = r]

\* EventsService.findOne: the committed row.
ServeEvent(v) ==
    /\ page[v].pc = "fetching"
    /\ page' = [page EXCEPT ![v].pc = IF deleted THEN "failed" ELSE "answered",
                            ![v].shown = IF deleted THEN 0 ELSE event.availableSeats]

FetchFails(v) == Moves(v, "fetching", "failed") \/ Moves(v, "answered", "failed")

\* cacheDataLoaded: subscribe:event is emitted, and the listener is added.
Loaded(v) == Moves(v, "answered", "subscribing")

\* handleSubscribeToEvent: the client joins the room of the event.
Join(v) == Moves(v, "subscribing", "listening")

\* Mutant: updates are put in front of the ones that wait.
DeliverNewest(v) ==
    /\ page[v].wire # <<>>
    /\ page' = [page EXCEPT ![v].shown = Last(page[v].wire), ![v].wire = Front(@)]

\* Mutant: the listener is added to the wrong message.
DeliverToNobody(v) ==
    /\ page[v].wire # <<>>
    /\ page' = [page EXCEPT ![v].wire = Tail(@)]

\* seat:update: the cached event is patched.
Deliver(v) ==
    /\ page[v].wire # <<>>
    /\ page' = [page EXCEPT ![v].shown = Head(page[v].wire), ![v].wire = Tail(@)]

\* The entry is removed: unsubscribe:event, and the socket is closed.
LeavePage(v) ==
    /\ page[v].pc # "closed"
    /\ page' = [page EXCEPT ![v] = ClosedPage]

\* The connection breaks; handleDisconnect forgets the client, and the new
\* connection does not subscribe again.
Disconnect(v) ==
    /\ page[v].pc \in {"subscribing", "listening"}
    /\ page' = [page EXCEPT ![v].pc = "deaf", ![v].wire = <<>>, ![v].heard = FALSE]

PageStep(v) ==
    \/ \E r \in Replica : OpenPage(v, r)
    \/ ServeEvent(v) \/ FetchFails(v) \/ Loaded(v) \/ Join(v)
    \/ Deliver(v) \/ LeavePage(v) \/ Disconnect(v)

-----------------------------------------------------------------------------
(* The broadcasts of a step of the backend. *)

\* updateAvailableSeats has saved the row in its transaction, to take seats or
\* to give them back in create's catch block.
Emits(t) ==
    /\ phase'[t] \in {"written", "undone"}
    /\ entity'[t] # entity[t]

\* What it broadcasts of the event: the seats it has saved.
Announced(t) == entity'[t].availableSeats

Joined(v, r) == page[v].pc = "listening" /\ page[v].at = r

\* emitSeatUpdate: the update goes out to every client in the room that this
\* replica has for the event.
EmitSeatUpdate(t) ==
    /\ page' = [v \in Viewer |->
                   IF Joined(v, servedBy[t])
                   THEN [page[v] EXCEPT !.wire = Append(@, Announced(t)), !.heard = TRUE]
                   ELSE page[v]]
    /\ told' = [told EXCEPT ![servedBy[t]] = Announced(t)]
    /\ missed' = [missed EXCEPT ![servedBy[t]] = 0]

\* A step that emits nothing.  The commit of a transaction is news to all
\* replicas but the one that has broadcast it; a transaction that ends without
\* its commit takes back what that one has broadcast.
KeepSilent(t) ==
    /\ missed' = [r \in Replica |->
                     IF r # servedBy[t]
                     THEN missed[r] + event'.availableSeats - event.availableSeats
                     ELSE IF phase[t] = "written" /\ phase'[t] # "committed"
                          THEN missed[r] - change[t] ELSE missed[r]]
    /\ UNCHANGED <<page, told>>

\* Editors broadcast nothing.
EditSilently ==
    /\ missed' = [r \in Replica |->
                     missed[r] + event'.availableSeats - event.availableSeats]
    /\ UNCHANGED <<page, told>>

FeedNext ==
    \/ \E t \in Txn : /\ SeatStep(t)
                      /\ IF Emits(t) THEN EmitSeatUpdate(t) ELSE KeepSilent(t)
                      /\ UNCHANGED servedBy
    \/ EditorNext /\ EditSilently /\ UNCHANGED servedBy
    \/ \E v \in Viewer : PageStep(v) /\ UNCHANGED <<editVars, servedBy, told, missed>>

\* As in EventEditing; and a message to a connected client arrives.
FeedFairness == EditFairness /\ \A v \in Viewer : WF_page(Deliver(v))

FeedSpec == FeedInit /\ [][FeedNext]_feedVars /\ FeedFairness

-----------------------------------------------------------------------------
(* Properties. *)

\* A page that has heard an update and has no other to come shows the seats of
\* the committed row, but for what its replica never broadcast: the commits
\* served by other replicas, the seats moved by an edit and a transaction lost
\* after its update, each by exactly its amount.  That holds although every
\* update is sent before its commit and may be taken back by a second one, and
\* pages join and leave in between; while a transaction of the replica is about
\* to commit, the page is ahead of the row.
CommittedFeedIsTrue ==
    \A v \in Viewer :
        /\ page[v].heard
        /\ page[v].wire = <<>>
        /\ \A t \in Txn : phase[t] = "written" => servedBy[t] # page[v].at
        => event.availableSeats = page[v].shown + missed[page[v].at]

\* A page that has heard of an update gets to the last one that its replica has
\* broadcast, unless it is closed or its connection breaks.
FeedCatchesUp ==
    \A v \in Viewer :
        page[v].heard ~> ~page[v].heard \/ page[v].shown = told[page[v].at]
=============================================================================
