----------------------------- MODULE WsSession -----------------------------
(***************************************************************************)
(* The market-data session of KiwoomWSManager (kiwoom_websocket.py) for    *)
(* one code.  _run_ws, on an event loop of its own, connects, logs in,     *)
(* sends the bootstrap and receives until the link closes, then starts     *)
(* over.  Other threads ask for the code through COMMAND_WS_REG: each      *)
(* request is a _send_reg coroutine that waits up to ten seconds for the   *)
(* session.  The main loop drops the codes no target needs every five      *)
(* seconds (_prune_ws_subscriptions_for_inactive_targets).  A tick of the  *)
(* code is handed to the tick dispatcher's thread through a dictionary     *)
(* and an event.                                                           *)
(*                                                                         *)
(* stop() ends the process and is left out.                                *)
(***************************************************************************)
EXTENDS Naturals

CONSTANTS
    MaxBreaks,      \* bound: how often the link breaks or the server goes
    MaxExpiries,    \* bound: how often the server forgets the token
    MaxWaiting      \* bound: _send_reg coroutines waiting at a time

ASSUME WsAssumption == {MaxBreaks, MaxExpiries, MaxWaiting} \subseteq Nat

VARIABLES
    \* the server and the connection
    up,         \* the server takes connections
    link,       \* the current connection is open
    served,     \* the server sends the code's ticks on it
    tokenOk,    \* the server accepts self.token
    breaks, expiries,
    \* _run_ws
    phase,      \* the await it is at
    ready,      \* _session_ready is set
    again,      \* is_reconnected
    recent,     \* a token was requested less than five seconds ago
    \* subscriptions
    subscribed, \* the code is in subscribed_codes
    waiting,    \* _send_reg coroutines that wait for the session
    listed,     \* a target of the main loop has the code
    pruning,    \* the main loop found the code inactive, UNREG is next
    \* the state dispatcher: WS_RECONNECTED events in its queue
    events,
    unsynced,   \* an order feed broke and no account sync ran since
    \* the tick of the code
    tick,       \* in the receiver: "none", "checked" or "stored"
    pending,    \* _pending_tick_events holds one
    flag,       \* _tick_dispatch_event is set
    taken       \* the dispatcher holds one it has not published

connVars == <<up, link, served, tokenOk, breaks, expiries>>
runVars == <<phase, ready, again, recent>>
regVars == <<subscribed, waiting, listed, pruning>>
syncVars == <<events, unsynced>>
tickVars == <<tick, pending, flag, taken>>
vars == <<connVars, runVars, regVars, syncVars, tickVars>>

Init ==
    /\ up = TRUE /\ link = FALSE /\ served = FALSE /\ tokenOk \in BOOLEAN
    /\ breaks = 0 /\ expiries = 0
    /\ phase = "down" /\ ready = FALSE /\ again = FALSE /\ recent = FALSE
    /\ subscribed = FALSE /\ waiting = 0 /\ listed = FALSE /\ pruning = FALSE
    /\ events = 0 /\ unsynced = FALSE
    /\ tick = "none" /\ pending = FALSE /\ flag = FALSE /\ taken = FALSE

-----------------------------------------------------------------------------
(***************************************************************************)
(* The server.                                                             *)
(***************************************************************************)

\* The link closes; whatever was registered on it is gone.
Break ==
    /\ breaks < MaxBreaks /\ breaks' = breaks + 1
    /\ link' = FALSE /\ served' = FALSE
    /\ up' \in BOOLEAN
    /\ unsynced' = (unsynced \/ (link /\ phase \in {"resub", "live"}))
    /\ UNCHANGED <<tokenOk, expiries, runVars, regVars, events, tickVars>>

ComeUp ==
    /\ ~up /\ up' = TRUE
    /\ UNCHANGED <<link, served, tokenOk, breaks, expiries, runVars, regVars,
                   syncVars, tickVars>>

Expire ==
    /\ expiries < MaxExpiries /\ expiries' = expiries + 1
    /\ tokenOk' = FALSE
    /\ UNCHANGED <<up, link, served, breaks, runVars, regVars, syncVars, tickVars>>

-----------------------------------------------------------------------------
(***************************************************************************)
(* _run_ws.                                                                *)
(***************************************************************************)

Connect ==
    /\ phase = "down" /\ up
    /\ phase' = "login" /\ link' = TRUE /\ ready' = FALSE
    /\ UNCHANGED <<up, served, tokenOk, breaks, expiries, again, recent, regVars,
                   syncVars, tickVars>>

\* (mutant) The session still looks ready while _run_ws sleeps.
GoDownReady ==
    /\ phase' = "down" /\ ready' = ready
    /\ link' = FALSE /\ served' = FALSE

\* Back to the connect, after the sleep.
GoDown ==
    /\ phase' = "down" /\ ready' = FALSE
    /\ link' = FALSE /\ served' = FALSE

LoginAck ==
    /\ phase = "login" /\ link /\ tokenOk
    /\ phase' = "boot"
    /\ UNCHANGED <<connVars, ready, again, recent, regVars, syncVars, tickVars>>

\* (mutant) A request that comes too early moves the time of the last one.
LoginRefusedStamps ==
    /\ phase = "login" /\ link /\ ~tokenOk
    /\ GoDown
    /\ recent' = TRUE
    /\ IF recent THEN UNCHANGED tokenOk ELSE tokenOk' \in BOOLEAN
    /\ UNCHANGED <<up, breaks, expiries, again, regVars, syncVars, tickVars>>

\* The server refuses the token: a new one is requested, but not within five
\* seconds of the last request.
LoginRefused ==
    /\ phase = "login" /\ link /\ ~tokenOk
    /\ GoDown
    /\ IF recent
       THEN recent' = FALSE /\ UNCHANGED tokenOk
       ELSE recent' = TRUE /\ tokenOk' \in BOOLEAN
    /\ UNCHANGED <<up, breaks, expiries, again, regVars, syncVars, tickVars>>

\* No answer within five seconds, or a refusal for another reason than the
\* token: the session ends and a new one is tried.
LoginTimeout ==
    /\ phase = "login"
    /\ GoDown
    /\ UNCHANGED <<up, tokenOk, breaks, expiries, again, recent, regVars,
                   syncVars, tickVars>>

\* The condition searches are requested and a reconnection is announced.
Announce ==
    /\ phase = "boot" /\ link
    /\ phase' = "feed"
    /\ events' = IF again THEN events + 1 ELSE events
    /\ again' = TRUE
    /\ UNCHANGED <<connVars, ready, recent, regVars, unsynced, tickVars>>

\* The order feed (00) and the market clock (0s) are registered.
RegisterFeed ==
    /\ phase = "feed" /\ link
    /\ IF subscribed
       THEN phase' = "resub" /\ UNCHANGED ready
       ELSE phase' = "live" /\ ready' = TRUE
    /\ UNCHANGED <<connVars, again, recent, regVars, syncVars, tickVars>>

\* What _send_reg does once it stops waiting: without a ready session nothing.
\* A packet on a link that just broke raises, or is lost on its way.
SendReg ==
    IF ready
    THEN \/ link /\ subscribed' = TRUE /\ served' = TRUE
         \/ ~link /\ subscribed' \in {subscribed, TRUE} /\ UNCHANGED served
    ELSE UNCHANGED <<subscribed, served>>

\* The bootstrap's own _send_reg, for the codes of the last connection.
Resubscribe ==
    /\ phase = "resub"
    /\ SendReg
    /\ phase' = "live" /\ ready' = TRUE
    /\ UNCHANGED <<up, link, tokenOk, breaks, expiries, again, recent, waiting,
                   listed, pruning, syncVars, tickVars>>

\* (mutant) The next connection counts as the first one.
SeeClosedAfresh ==
    /\ phase \in {"login", "boot", "feed", "live"} /\ ~link
    /\ GoDown
    /\ again' = FALSE
    /\ UNCHANGED <<up, tokenOk, breaks, expiries, recent, regVars, syncVars, tickVars>>

\* A receive or a send meets the closed link.
SeeClosed ==
    /\ phase \in {"login", "boot", "feed", "live"} /\ ~link
    /\ GoDown
    /\ UNCHANGED <<up, tokenOk, breaks, expiries, again, recent, regVars,
                   syncVars, tickVars>>

-----------------------------------------------------------------------------
(***************************************************************************)
(* Requests for the code.                                                  *)
(***************************************************************************)

\* execute_subscribe: nothing is asked for a code that is subscribed.
Subscribe == waiting' = IF subscribed THEN waiting ELSE waiting + 1

\* A target with the code is appended and its registration requested.
List ==
    /\ ~listed /\ waiting < MaxWaiting
    /\ listed' = TRUE /\ Subscribe
    /\ UNCHANGED <<connVars, runVars, subscribed, pruning, syncVars, tickVars>>

\* A scanner, an analysis or a condition event requests it again.
Ask ==
    /\ waiting < MaxWaiting
    /\ Subscribe
    /\ UNCHANGED <<connVars, runVars, subscribed, listed, pruning, syncVars,
                   tickVars>>

\* A coroutine sees the session ready.
TaskSends ==
    /\ waiting > 0 /\ ready
    /\ waiting' = waiting - 1
    /\ SendReg
    /\ UNCHANGED <<up, link, tokenOk, breaks, expiries, runVars, listed, pruning,
                   syncVars, tickVars>>

\* (mutant) The ten seconds count from the moment there is a connection.
TaskGivesUpConnected ==
    /\ waiting > 0 /\ ~ready /\ phase # "down"
    /\ waiting' = waiting - 1
    /\ UNCHANGED <<connVars, runVars, subscribed, listed, pruning, syncVars,
                   tickVars>>

\* Its ten seconds are over: the request is dropped.
TaskGivesUp ==
    /\ waiting > 0 /\ ~ready
    /\ waiting' = waiting - 1
    /\ UNCHANGED <<connVars, runVars, subscribed, listed, pruning, syncVars,
                   tickVars>>

\* The target leaves the list.
Unlist ==
    /\ listed /\ listed' = FALSE
    /\ UNCHANGED <<connVars, runVars, subscribed, waiting, pruning, syncVars,
                   tickVars>>

\* The main loop compares subscribed_codes with its targets ...
PruneLooks ==
    /\ subscribed /\ ~listed /\ ~pruning
    /\ pruning' = TRUE
    /\ UNCHANGED <<connVars, runVars, subscribed, waiting, listed, syncVars,
                   tickVars>>

\* ... and execute_unsubscribe forgets the code; the server is told nothing.
PruneDrops ==
    /\ pruning /\ pruning' = FALSE
    /\ subscribed' = FALSE
    /\ UNCHANGED <<connVars, runVars, waiting, listed, syncVars, tickVars>>

-----------------------------------------------------------------------------
(***************************************************************************)
(* The dispatcher threads.                                                 *)
(***************************************************************************)

\* WS_RECONNECTED starts an account synchronisation.
Sync ==
    /\ events > 0
    /\ events' = events - 1
    /\ unsynced' = FALSE
    /\ UNCHANGED <<connVars, runVars, regVars, tickVars>>

\* A tick is received for a subscribed code ...
TickArrives ==
    /\ phase = "live" /\ served /\ subscribed /\ tick = "none"
    /\ tick' = "checked"
    /\ UNCHANGED <<connVars, runVars, regVars, syncVars, pending, flag, taken>>

\* ... stored as the code's pending one, under _tick_lock ...
StoreTick ==
    /\ tick = "checked"
    /\ tick' = "stored" /\ pending' = TRUE
    /\ UNCHANGED <<connVars, runVars, regVars, syncVars, flag, taken>>

\* ... and the dispatcher is woken.
SetFlag ==
    /\ tick = "stored"
    /\ tick' = "none" /\ flag' = TRUE
    /\ UNCHANGED <<connVars, runVars, regVars, syncVars, pending, taken>>

\* The dispatcher takes what is pending and clears the event, under _tick_lock.
TakeTicks ==
    /\ flag /\ ~taken
    /\ taken' = pending
    /\ pending' = FALSE /\ flag' = FALSE
    /\ UNCHANGED <<connVars, runVars, regVars, syncVars, tick>>

\* (mutant) The event is cleared when the tick is published, outside the lock.
PublishTickClears ==
    /\ taken /\ taken' = FALSE /\ flag' = FALSE
    /\ UNCHANGED <<connVars, runVars, regVars, syncVars, tick, pending>>

PublishTick ==
    /\ taken /\ taken' = FALSE
    /\ UNCHANGED <<connVars, runVars, regVars, syncVars, tick, pending, flag>>

-----------------------------------------------------------------------------
RunWs ==
    \/ Connect \/ LoginAck \/ LoginRefused \/ LoginTimeout
    \/ Announce \/ RegisterFeed \/ Resubscribe \/ SeeClosed

Requests ==
    \/ List \/ Ask \/ TaskSends \/ TaskGivesUp \/ Unlist
    \/ PruneLooks \/ PruneDrops

Dispatchers == Sync \/ TickArrives \/ StoreTick \/ SetFlag \/ TakeTicks \/ PublishTick

Next == Break \/ ComeUp \/ Expire \/ RunWs \/ Requests \/ Dispatchers

Spec == Init /\ [][Next]_vars

\* Every thread and coroutine goes on; a server that is there answers a login
\* some time, and a token that is requested again and again is issued some time.
Fairness ==
    /\ WF_vars(Connect) /\ SF_vars(LoginAck) /\ SF_vars(LoginRefused)
    /\ SF_vars(LoginRefused /\ tokenOk')
    /\ WF_vars(Announce) /\ WF_vars(RegisterFeed) /\ WF_vars(Resubscribe)
    /\ WF_vars(SeeClosed)
    /\ WF_vars(TaskSends) /\ WF_vars(TaskGivesUp)
    /\ WF_vars(PruneLooks) /\ WF_vars(PruneDrops)
    /\ WF_vars(Sync) /\ WF_vars(StoreTick) /\ WF_vars(SetFlag)
    /\ WF_vars(TakeTicks) /\ WF_vars(PublishTick)

FairSpec == Spec /\ Fairness

\* As FairSpec, and whoever still needs the code asks for it again.
AskingSpec == FairSpec /\ WF_vars(Ask)

-----------------------------------------------------------------------------
(***************************************************************************)
(* Properties.                                                             *)
(***************************************************************************)

\* Every variable has its type.  A session is ready only while _run_ws
\* receives, or has been told nothing of a link that broke.
TypeOK ==
    /\ {up, link, served, tokenOk, ready, again, recent, subscribed, listed,
        pruning, unsynced, pending, flag, taken} \subseteq BOOLEAN
    /\ breaks \in 0..MaxBreaks /\ expiries \in 0..MaxExpiries
    /\ events \in 0..MaxBreaks
    /\ waiting \in 0..MaxWaiting
    /\ phase \in {"down", "login", "boot", "feed", "resub", "live"}
    /\ ready <=> phase = "live"
    /\ served => link
    /\ tick \in {"none", "checked", "stored"}

\* However often the link broke, the token expired or a login went unanswered,
\* a server that stays up ends with a session that is ready (_run_ws's loop,
\* _refresh_ws_token's five seconds against the three of the retry).
SessionRecovers == <>[]up => <>[]ready

\* An outage of the order feed, in which fills may have been missed, is
\* followed by an account synchronisation once the server is back (is_reconnected,
\* WS_RECONNECTED).
OutageSynced == <>[]up => (unsynced ~> ~unsynced)

\* An outage of the order feed that no account synchronisation followed yet has
\* its WS_RECONNECTED event in the queue, or _run_ws has still to send it: the
\* link is closed or on its way up, and the session knows that it is not the
\* first, whichever logins were refused or timed out since.
OutageAnnounced ==
    unsynced => \/ events > 0
                \/ again /\ (phase \in {"down", "login", "boot"} \/ ~link)

\* A request for the code ends, sent or dropped, even when the server never
\* comes back: the bus's callers leave no coroutine behind (_send_reg).
RequestsEnd == <>[](waiting = 0) \/ []<><<Ask \/ List>>_vars

\* A tick that was stored is published, whatever the order of the receiver's
\* two steps and the dispatcher's clear (_queue_tick_event).
TickPublished == pending ~> taken

\* No wakeup of the tick dispatcher is lost: a tick that waits has its event set,
\* or the receiver is about to set it, although the event is set outside
\* _tick_lock (_queue_tick_event, _dispatch_pending_ticks).
TickWakes == pending => flag \/ tick = "stored"

\* scalping_scanner.py:464: a COMMAND_WS_REG makes the manager watch the code's
\* ticks at once.  A listed code that is requested again whenever it is not
\* subscribed is served in the end.
ListedIsServed == <>[](up /\ listed) => <>[]served
=============================================================================
