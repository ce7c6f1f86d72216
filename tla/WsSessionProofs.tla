-------------------------- MODULE WsSessionProofs --------------------------
(***************************************************************************)
(* Theorems about WsSession, for every value of its constants that         *)
(* satisfies WsAssumption.                                                 *)
(***************************************************************************)
EXTENDS WsSession, TLAPS

\* Reconnections that will still be announced: the session was announced
\* before, and _run_ws is on its way to the next one or will see that the
\* link is closed.
Due == IF \/ again /\ phase \in {"down", "login", "boot"}
          \/ phase \in {"feed", "resub", "live"} /\ ~link
       THEN 1 ELSE 0

\* The types of the flags.
Flags ==
    /\ up \in BOOLEAN /\ link \in BOOLEAN /\ served \in BOOLEAN /\ tokenOk \in BOOLEAN
    /\ ready \in BOOLEAN /\ again \in BOOLEAN /\ recent \in BOOLEAN
    /\ subscribed \in BOOLEAN /\ listed \in BOOLEAN /\ pruning \in BOOLEAN
    /\ unsynced \in BOOLEAN /\ pending \in BOOLEAN /\ flag \in BOOLEAN
    /\ taken \in BOOLEAN

\* What the flags say of each other and of the phase.
Session ==
    /\ phase \in {"down", "login", "boot", "feed", "resub", "live"}
    /\ tick \in {"none", "checked", "stored"}
    /\ ready <=> phase = "live"
    /\ served => link

\* Every announcement has a break of its own.
Counters ==
    /\ breaks \in 0..MaxBreaks /\ expiries \in 0..MaxExpiries /\ events \in Nat
    /\ waiting \in 0..MaxWaiting
    /\ events + Due <= breaks

WInv == Flags /\ Session /\ Counters

LEMMA Bounds == MaxBreaks \in Nat /\ MaxExpiries \in Nat /\ MaxWaiting \in Nat
  BY WsAssumption DEF WsAssumption

LEMMA InitInv ==
    ASSUME Init
    PROVE  WInv
  <1>1. Flags
    BY DEF Init, Flags
  <1>2. Session
    BY DEF Init, Session
  <1>3. Counters
    <2>1. Due = 0
      BY DEF Init, Due
    <2> QED
      BY <2>1, Bounds DEF Init, Counters
  <1> QED
    BY <1>1, <1>2, <1>3 DEF WInv

\* A break lets one more announcement happen, and may make one due.
LEMMA ServerInv ==
    ASSUME WInv, Break \/ ComeUp \/ Expire
    PROVE  WInv'
  <1>1. Flags /\ Session /\ Counters
    BY DEF WInv
  <1>2. Flags'
    <2>1. unsynced' \in BOOLEAN
      BY <1>1 DEF Break, ComeUp, Expire, Flags, syncVars
    <2>2. up' \in BOOLEAN /\ link' \in BOOLEAN /\ served' \in BOOLEAN
      BY <1>1 DEF Break, ComeUp, Expire, Flags
    <2>3. tokenOk' \in BOOLEAN
      BY <1>1 DEF Break, ComeUp, Expire, Flags
    <2>4. UNCHANGED <<ready, again, recent, subscribed, listed, pruning, pending,
                      flag, taken>>
      BY DEF Break, ComeUp, Expire, runVars, regVars, tickVars
    <2> QED
      BY <1>1, <2>1, <2>2, <2>3, <2>4 DEF Flags
  <1>3. Session'
    BY <1>1 DEF Break, ComeUp, Expire, Session, runVars, tickVars
  <1>4. Counters'
    <2>1. CASE Break
      <3>1. /\ breaks' = breaks + 1 /\ breaks < MaxBreaks
            /\ UNCHANGED <<expiries, events, waiting>>
        BY <2>1 DEF Break, regVars
      <3>2. breaks' \in 0..MaxBreaks
        BY <1>1, <3>1, Bounds DEF Counters
      <3>3. Due \in {0, 1} /\ Due' \in {0, 1}
        BY DEF Due
      <3>4. events + Due' <= breaks'
        <4>1. events \in Nat /\ breaks \in Nat /\ events + Due <= breaks
          BY <1>1, Bounds DEF Counters
        <4>2. events <= breaks
          BY <3>3, <4>1
        <4>3. \A d \in {0, 1} : events' + d <= breaks'
          BY <3>1, <4>1, <4>2
        <4> QED
          BY <3>1, <3>3, <4>3
      <3> QED
        BY <1>1, <3>1, <3>2, <3>4 DEF Counters
    <2>2. CASE ComeUp
      BY <1>1, <2>2 DEF ComeUp, Counters, Due, runVars, syncVars, regVars
    <2>3. CASE Expire
      <3>1. Due' = Due /\ UNCHANGED <<breaks, events, waiting>>
        BY <2>3 DEF Expire, Due, runVars, syncVars, regVars
      <3>2. expiries' \in 0..MaxExpiries
        BY <1>1, <2>3, Bounds DEF Expire, Counters
      <3> QED
        BY <1>1, <3>1, <3>2 DEF Counters
    <2> QED
      BY <2>1, <2>2, <2>3
  <1> QED
    BY <1>2, <1>3, <1>4 DEF WInv

\* No step of _run_ws makes an announcement due that was not, but the one that
\* sees the closed link, for which the break made it due before.
LEMMA RunWsInv ==
    ASSUME WInv, RunWs
    PROVE  WInv'
  <1>1. Flags /\ Session /\ Counters
    BY DEF WInv
  <1>2. Flags'
    <2>1. UNCHANGED <<up, listed, pruning, pending, flag, taken, unsynced>>
      BY DEF RunWs, Connect, LoginAck, LoginRefused, LoginTimeout, Announce,
             RegisterFeed, Resubscribe, SeeClosed, connVars, regVars, syncVars, tickVars
    <2>2. link' \in BOOLEAN /\ served' \in BOOLEAN
      BY <1>1 DEF RunWs, Connect, LoginAck, LoginRefused, LoginTimeout, Announce,
             RegisterFeed, Resubscribe, SeeClosed, GoDown, SendReg, connVars, Flags
    <2>3. subscribed' \in BOOLEAN
      BY <1>1 DEF RunWs, Connect, LoginAck, LoginRefused, LoginTimeout, Announce,
             RegisterFeed, Resubscribe, SeeClosed, SendReg, regVars, Flags
    <2>4. ready' \in BOOLEAN /\ again' \in BOOLEAN
      BY <1>1 DEF RunWs, Connect, LoginAck, LoginRefused, LoginTimeout, Announce,
             RegisterFeed, Resubscribe, SeeClosed, GoDown, Flags
    <2>5. recent' \in BOOLEAN /\ tokenOk' \in BOOLEAN
      BY <1>1 DEF RunWs, Connect, LoginAck, LoginRefused, LoginTimeout, Announce,
             RegisterFeed, Resubscribe, SeeClosed, connVars, Flags
    <2> QED
      BY <1>1, <2>1, <2>2, <2>3, <2>4, <2>5 DEF Flags
  <1>3. Session'
    <2>1. CASE Connect
      BY <1>1, <2>1 DEF Connect, Session, tickVars
    <2>2. CASE LoginAck
      BY <1>1, <2>2 DEF LoginAck, Session, connVars, tickVars
    <2>3. CASE LoginRefused \/ LoginTimeout \/ SeeClosed
      BY <1>1, <2>3 DEF LoginRefused, LoginTimeout, SeeClosed, GoDown, Session, tickVars
    <2>4. CASE Announce
      BY <1>1, <2>4 DEF Announce, Session, connVars, tickVars
    <2>5. CASE RegisterFeed
      BY <1>1, <2>5 DEF RegisterFeed, Session, connVars, tickVars
    <2>6. CASE Resubscribe
      BY <1>1, <2>6 DEF Resubscribe, SendReg, Session, tickVars
    <2> QED
      BY <2>1, <2>2, <2>3, <2>4, <2>5, <2>6 DEF RunWs
  <1>4. UNCHANGED <<breaks, expiries, waiting>>
    BY DEF RunWs, Connect, LoginAck, LoginRefused, LoginTimeout, Announce,
           RegisterFeed, Resubscribe, SeeClosed, connVars, regVars
  <1>5. \/ events' = events /\ (Due' = Due \/ Due' = 0)
        \/ events' = events + 1 /\ Due = 1 /\ Due' = 0
    <2>1. CASE Connect \/ LoginAck \/ RegisterFeed
      BY <1>1, <2>1 DEF Connect, LoginAck, RegisterFeed, Due, connVars, syncVars
    <2>2. CASE LoginRefused \/ LoginTimeout
      BY <2>2 DEF LoginRefused, LoginTimeout, GoDown, Due, syncVars
    <2>3. CASE Announce
      BY <1>1, <2>3 DEF Announce, Due, connVars, Flags
    <2>4. CASE Resubscribe
      BY <2>4 DEF Resubscribe, Due, syncVars
    <2>5. CASE SeeClosed
      BY <2>5 DEF SeeClosed, GoDown, Due, syncVars
    <2> QED
      BY <2>1, <2>2, <2>3, <2>4, <2>5 DEF RunWs
  <1>6. Counters'
    <2>1. events \in Nat /\ breaks \in Nat /\ events + Due <= breaks /\ Due \in {0, 1}
      BY <1>1, Bounds DEF Counters, Due
    <2>2. events' \in Nat /\ events' + Due' <= breaks
      BY <1>5, <2>1
    <2> QED
      BY <1>1, <1>4, <2>2 DEF Counters
  <1> QED
    BY <1>2, <1>3, <1>6 DEF WInv

LEMMA RequestsInv ==
    ASSUME WInv, Requests
    PROVE  WInv'
  <1>1. Flags /\ Session /\ Counters
    BY DEF WInv
  <1>2. /\ UNCHANGED <<up, link, tokenOk, breaks, expiries, phase, ready, again,
                       recent, events, unsynced, tick, pending, flag, taken>>
        /\ served' = served \/ (link /\ served' = TRUE)
    BY DEF Requests, List, Ask, TaskSends, TaskGivesUp, Unlist, PruneLooks, PruneDrops,
           Subscribe, SendReg, connVars, runVars, syncVars, tickVars
  <1>3. waiting' \in 0..MaxWaiting
    <2>1. waiting \in 0..MaxWaiting
      BY <1>1 DEF Counters
    <2>2. \/ waiting < MaxWaiting /\ waiting' \in {waiting, waiting + 1}
          \/ waiting > 0 /\ waiting' = waiting - 1
          \/ waiting' = waiting
      BY DEF Requests, List, Ask, TaskSends, TaskGivesUp, Unlist, PruneLooks,
             PruneDrops, Subscribe
    <2> QED
      BY <2>1, <2>2, Bounds
  <1>4. Flags'
    <2>1. subscribed' \in BOOLEAN /\ served' \in BOOLEAN
      BY <1>1 DEF Requests, List, Ask, TaskSends, TaskGivesUp, Unlist, PruneLooks,
             PruneDrops, SendReg, connVars, Flags
    <2>2. listed' \in BOOLEAN /\ pruning' \in BOOLEAN
      BY <1>1 DEF Requests, List, Ask, TaskSends, TaskGivesUp, Unlist, PruneLooks,
             PruneDrops, Flags
    <2> QED
      BY <1>1, <1>2, <2>1, <2>2 DEF Flags
  <1>5. Session'
    BY <1>1, <1>2 DEF Session
  <1>6. Counters'
    BY <1>1, <1>2, <1>3 DEF Counters, Due
  <1> QED
    BY <1>4, <1>5, <1>6 DEF WInv

LEMMA DispatchersInv ==
    ASSUME WInv, Dispatchers
    PROVE  WInv'
  <1>1. Flags /\ Session /\ Counters
    BY DEF WInv
  <1>2. CASE Sync
    <2>0. unsynced' = FALSE /\ UNCHANGED <<connVars, runVars, regVars, tickVars>>
      BY <1>2 DEF Sync
    <2>1. /\ up' = up /\ link' = link /\ served' = served /\ tokenOk' = tokenOk
          /\ breaks' = breaks /\ expiries' = expiries
      BY <2>0 DEF connVars
    <2>2. phase' = phase /\ ready' = ready /\ again' = again /\ recent' = recent
      BY <2>0 DEF runVars
    <2>3. /\ subscribed' = subscribed /\ waiting' = waiting
          /\ listed' = listed /\ pruning' = pruning
      BY <2>0 DEF regVars
    <2>4. tick' = tick /\ pending' = pending /\ flag' = flag /\ taken' = taken
      BY <2>0 DEF tickVars
    <2>5. unsynced' \in BOOLEAN
      BY <2>0
    <2>6. Flags'
      <3>1. /\ up' \in BOOLEAN /\ link' \in BOOLEAN
            /\ served' \in BOOLEAN /\ tokenOk' \in BOOLEAN
        BY <1>1, <2>1 DEF Flags
      <3>2. ready' \in BOOLEAN /\ again' \in BOOLEAN /\ recent' \in BOOLEAN
        BY <1>1, <2>2 DEF Flags
      <3>3. subscribed' \in BOOLEAN /\ listed' \in BOOLEAN /\ pruning' \in BOOLEAN
        BY <1>1, <2>3 DEF Flags
      <3>4. pending' \in BOOLEAN /\ flag' \in BOOLEAN /\ taken' \in BOOLEAN
        BY <1>1, <2>4 DEF Flags
      <3> QED
        BY <2>5, <3>1, <3>2, <3>3, <3>4, Zenon DEF Flags
    <2>7. Session'
      BY <1>1, <2>1, <2>2, <2>4 DEF Session
    <2>8. Due' = Due /\ Due \in {0, 1}
      BY <2>1, <2>2 DEF Due
    <2>9. events \in Nat /\ events > 0 /\ events' = events - 1 /\ breaks \in Nat
      BY <1>1, <1>2, Bounds DEF Sync, Counters
    <2>10. events' \in Nat /\ events' + Due <= breaks
      BY <1>1, <2>8, <2>9 DEF Counters
    <2> QED
      BY <1>1, <2>1, <2>3, <2>6, <2>7, <2>8, <2>10 DEF WInv, Counters
  <1>3. CASE TickArrives \/ StoreTick \/ SetFlag \/ TakeTicks \/ PublishTick
    <2>1. UNCHANGED <<connVars, runVars, regVars, syncVars>>
      BY <1>3 DEF TickArrives, StoreTick, SetFlag, TakeTicks, PublishTick
    <2>2. /\ tick' \in {"none", "checked", "stored"} /\ pending' \in BOOLEAN
          /\ flag' \in BOOLEAN /\ taken' \in BOOLEAN
      BY <1>1, <1>3 DEF TickArrives, StoreTick, SetFlag, TakeTicks, PublishTick, Flags,
                        Session
    <2>3. Flags'
      BY <1>1, <2>1, <2>2 DEF Flags, connVars, runVars, regVars, syncVars
    <2>4. Session' /\ Counters'
      BY <1>1, <2>1, <2>2
         DEF Session, Counters, Due, connVars, runVars, regVars, syncVars
    <2> QED
      BY <2>3, <2>4 DEF WInv
  <1> QED
    BY <1>2, <1>3 DEF Dispatchers

LEMMA Invariance == Spec => []WInv
  <1>1. Init => WInv
    BY InitInv
  <1>2. ASSUME WInv, [Next]_vars
        PROVE  WInv'
    <2>1. CASE UNCHANGED vars
      BY <1>2, <2>1
         DEF WInv, Flags, Session, Counters, Due, vars, connVars, runVars, regVars, syncVars,
             tickVars
    <2> QED
      BY <1>2, <2>1, ServerInv, RunWsInv, RequestsInv, DispatchersInv DEF Next
  <1> QED
    BY <1>1, <1>2, PTL DEF Spec

\* Every variable has its type, a session is ready exactly while _run_ws is in
\* its receive loop, and of the WS_RECONNECTED events no more wait for the
\* dispatcher than the link broke, however many logins were refused or timed
\* out in between.
THEOREM WsTypeCorrect == Spec => []TypeOK
  <1>1. WInv => TypeOK
    <2>1. Counters => events \in 0..MaxBreaks
      BY Bounds DEF Counters, Due
    <2> QED
      BY <2>1 DEF WInv, Flags, Session, Counters, TypeOK
  <1> QED
    BY <1>1, Invariance, PTL

-----------------------------------------------------------------------------
(***************************************************************************)
(* Announcements and wakeups.                                              *)
(***************************************************************************)

\* The session that registers the order feed knows that the next one is a
\* reconnection, and an outage no synchronisation followed is announced or due
\* to be: only Announce sets again, before the feed is registered.
Owed ==
    /\ phase \in {"feed", "resub", "live"} => again
    /\ OutageAnnounced

LEMMA OwedInit ==
    ASSUME Init
    PROVE  Owed
  BY DEF Init, Owed, OutageAnnounced

\* A break that starts an outage happens after the announcement, and leaves the
\* link closed.
LEMMA ServerOwes ==
    ASSUME Owed, Break \/ ComeUp \/ Expire
    PROVE  Owed'
  <1>1. events' = events /\ phase' = phase /\ again' = again
    BY DEF Break, ComeUp, Expire, runVars, syncVars
  <1>2. CASE Break
    <2>1. link' = FALSE /\ (unsynced' => unsynced \/ phase \in {"resub", "live"})
      BY <1>2 DEF Break
    <2> QED
      BY <1>1, <2>1 DEF Owed, OutageAnnounced
  <1>3. CASE ComeUp \/ Expire
    <2>1. link' = link /\ unsynced' = unsynced
      BY <1>3 DEF ComeUp, Expire, syncVars
    <2> QED
      BY <1>1, <2>1 DEF Owed, OutageAnnounced
  <1> QED
    BY <1>2, <1>3

\* Only the announcement takes _run_ws past the bootstrap; every way back to the
\* connect keeps again.
LEMMA RunWsOwes ==
    ASSUME WInv, Owed, RunWs
    PROVE  Owed'
  <1>1. CASE Connect
    <2>1. /\ phase = "down" /\ phase' = "login"
          /\ again' = again /\ events' = events /\ unsynced' = unsynced
      BY <1>1 DEF Connect, syncVars
    <2> QED
      BY <2>1 DEF Owed, OutageAnnounced, WInv, Session
  <1>2. CASE LoginAck
    <2>1. /\ phase = "login" /\ phase' = "boot"
          /\ again' = again /\ events' = events /\ unsynced' = unsynced
      BY <1>2 DEF LoginAck, syncVars
    <2> QED
      BY <2>1 DEF Owed, OutageAnnounced
  <1>3. CASE LoginRefused \/ LoginTimeout \/ SeeClosed
    <2>1. /\ phase' = "down" /\ again' = again
          /\ events' = events /\ unsynced' = unsynced
      BY <1>3 DEF LoginRefused, LoginTimeout, SeeClosed, GoDown, syncVars
    <2> QED
      BY <2>1 DEF Owed, OutageAnnounced
  <1>4. CASE Announce
    <2>1. /\ phase = "boot" /\ phase' = "feed" /\ again' = TRUE
          /\ events' = IF again THEN events + 1 ELSE events
          /\ unsynced' = unsynced
      BY <1>4 DEF Announce
    <2>2. events \in Nat
      BY DEF WInv, Counters
    <2>3. unsynced => events' > 0
      BY <2>1, <2>2 DEF Owed, OutageAnnounced
    <2> QED
      BY <2>1, <2>3 DEF Owed, OutageAnnounced
  <1>5. CASE RegisterFeed \/ Resubscribe
    <2>1. /\ phase \in {"feed", "resub"} /\ phase' \in {"resub", "live"}
          /\ link' = link /\ again' = again
          /\ events' = events /\ unsynced' = unsynced
      BY <1>5 DEF RegisterFeed, Resubscribe, connVars, syncVars
    <2> QED
      BY <2>1 DEF Owed, OutageAnnounced
  <1> QED
    BY <1>1, <1>2, <1>3, <1>4, <1>5 DEF RunWs

LEMMA OthersOwe ==
    ASSUME Owed, Requests \/ Dispatchers
    PROVE  Owed'
  <1>1. link' = link /\ phase' = phase /\ again' = again
    BY DEF Requests, List, Ask, TaskSends, TaskGivesUp, Unlist, PruneLooks, PruneDrops,
           Dispatchers, Sync, TickArrives, StoreTick, SetFlag, TakeTicks, PublishTick,
           connVars, runVars
  <1>2. unsynced' = FALSE \/ (unsynced' = unsynced /\ events' = events)
    BY DEF Requests, List, Ask, TaskSends, TaskGivesUp, Unlist, PruneLooks, PruneDrops,
           Dispatchers, Sync, TickArrives, StoreTick, SetFlag, TakeTicks, PublishTick,
           syncVars
  <1> QED
    BY <1>1, <1>2 DEF Owed, OutageAnnounced

\* An outage of the order feed that no account synchronisation followed has its
\* announcement in the dispatcher's queue or still to come, whatever logins fail
\* and however often the link breaks on the way: is_reconnected and
\* WS_RECONNECTED lose none.
THEOREM OutagesAreAnnounced == Spec => []OutageAnnounced
  <1>1. Init => Owed
    BY OwedInit
  <1>2. ASSUME WInv, Owed, [Next]_vars
        PROVE  Owed'
    <2>1. CASE UNCHANGED vars
      <3>1. /\ link' = link /\ phase' = phase /\ again' = again
            /\ events' = events /\ unsynced' = unsynced
        BY <2>1 DEF vars, connVars, runVars, syncVars
      <3> QED
        BY <1>2, <3>1 DEF Owed, OutageAnnounced
    <2> QED
      BY <1>2, <2>1, ServerOwes, RunWsOwes, OthersOwe DEF Next
  <1>3. Owed => OutageAnnounced
    BY DEF Owed
  <1> QED
    BY <1>1, <1>2, <1>3, Invariance, PTL DEF Spec

\* No step but the dispatcher's take clears the event, and it takes the tick.
LEMMA WakesKept ==
    ASSUME TickWakes, [Next]_vars
    PROVE  TickWakes'
  <1>1. CASE TickArrives
    BY <1>1 DEF TickArrives, TickWakes
  <1>2. CASE StoreTick
    BY <1>2 DEF StoreTick, TickWakes
  <1>3. CASE SetFlag
    BY <1>3 DEF SetFlag, TickWakes
  <1>4. CASE TakeTicks
    BY <1>4 DEF TakeTicks, TickWakes
  <1>5. CASE PublishTick
    BY <1>5 DEF PublishTick, TickWakes
  <1>6. CASE UNCHANGED tickVars
    BY <1>6 DEF tickVars, TickWakes
  <1>7. Break \/ ComeUp \/ Expire \/ Sync => UNCHANGED tickVars
    BY DEF Break, ComeUp, Expire, Sync
  <1>8. RunWs => UNCHANGED tickVars
    BY DEF RunWs, Connect, LoginAck, LoginRefused, LoginTimeout, Announce,
           RegisterFeed, Resubscribe, SeeClosed
  <1>9. Requests => UNCHANGED tickVars
    BY DEF Requests, List, Ask, TaskSends, TaskGivesUp, Unlist, PruneLooks, PruneDrops
  <1>10. UNCHANGED vars => UNCHANGED tickVars
    BY DEF vars
  <1> QED
    BY <1>1, <1>2, <1>3, <1>4, <1>5, <1>6, <1>7, <1>8, <1>9, <1>10
       DEF Next, Dispatchers

\* The tick dispatcher misses no wakeup: a stored tick has the event set or about
\* to be set, although the receiver sets it after it released _tick_lock.
THEOREM TicksWakeTheDispatcher == Spec => []TickWakes
  <1>1. Init => TickWakes
    BY DEF Init, TickWakes
  <1> QED
    BY <1>1, WakesKept, PTL DEF Spec

-----------------------------------------------------------------------------
(***************************************************************************)
(* Codes that are lost.                                                    *)
(***************************************************************************)

\* The code counts as subscribed, the server does not send it, and no request
\* for it is under way.
Lost == subscribed /\ ~served /\ waiting = 0

\* The bootstrap's own registration has no effect, and a code that is lost stays
\* so until the pruning forgets it: execute_subscribe asks for no code that is
\* in subscribed_codes.
StaysLost ==
    /\ Resubscribe => ~served' /\ subscribed' = subscribed
    /\ Lost => Lost' \/ PruneDrops

\* Nothing is served before the session is ready.
ServedWhenReady == served => ready

LEMMA ServedKept ==
    ASSUME WInv, ServedWhenReady, [Next]_vars
    PROVE  ServedWhenReady'
  <1>0. ready <=> phase = "live"
    BY DEF WInv, Session
  <1>1. CASE Break \/ ComeUp \/ Expire \/ Dispatchers \/ UNCHANGED vars
    BY <1>1 DEF ServedWhenReady, Break, ComeUp, Expire, Dispatchers, Sync, TickArrives,
                StoreTick, SetFlag, TakeTicks, PublishTick, connVars, runVars, vars
  <1>2. CASE Connect \/ LoginAck \/ Announce \/ RegisterFeed
    BY <1>0, <1>2 DEF ServedWhenReady, Connect, LoginAck, Announce, RegisterFeed,
                      connVars
  <1>3. CASE LoginRefused \/ LoginTimeout \/ SeeClosed
    BY <1>3 DEF ServedWhenReady, LoginRefused, LoginTimeout, SeeClosed, GoDown
  <1>4. CASE Resubscribe
    BY <1>4 DEF ServedWhenReady, Resubscribe
  <1>5. CASE TaskSends
    BY <1>5 DEF ServedWhenReady, TaskSends, runVars
  <1>6. CASE List \/ Ask \/ TaskGivesUp \/ Unlist \/ PruneLooks \/ PruneDrops
    BY <1>6 DEF ServedWhenReady, List, Ask, TaskGivesUp, Unlist, PruneLooks,
                PruneDrops, connVars, runVars
  <1> QED
    BY <1>1, <1>2, <1>3, <1>4, <1>5, <1>6 DEF Next, RunWs, Requests

LEMMA LostKept ==
    ASSUME WInv, ServedWhenReady, Next
    PROVE  StaysLost
  <1>1. Resubscribe => ~served' /\ UNCHANGED <<subscribed, waiting>>
    <2>1. Resubscribe => phase = "resub" /\ SendReg /\ waiting' = waiting
      BY DEF Resubscribe
    <2>2. phase = "resub" => ~ready
      BY DEF WInv, Session
    <2> QED
      BY <2>1, <2>2 DEF SendReg, ServedWhenReady
  <1>2. ASSUME Lost, ~PruneDrops
        PROVE  Lost'
    <2>1. waiting = 0 /\ ~(waiting > 0)
      BY <1>2 DEF Lost
    <2>2. CASE Break
      BY <1>2, <2>2 DEF Lost, Break, regVars
    <2>3. CASE \/ ComeUp \/ Expire \/ Dispatchers \/ Connect \/ LoginAck \/ Announce
               \/ RegisterFeed
      <3>1. UNCHANGED <<served, subscribed, waiting>>
        BY <2>3 DEF ComeUp, Expire, Dispatchers, Sync, TickArrives, StoreTick, SetFlag,
                    TakeTicks, PublishTick, Connect, LoginAck, Announce, RegisterFeed,
                    connVars, regVars
      <3> QED
        BY <1>2, <3>1 DEF Lost
    <2>4. CASE LoginRefused \/ LoginTimeout \/ SeeClosed
      BY <1>2, <2>4 DEF Lost, LoginRefused, LoginTimeout, SeeClosed, GoDown, regVars
    <2>5. CASE Resubscribe
      BY <1>1, <1>2, <2>5 DEF Lost
    <2>6. CASE List \/ Ask \/ Unlist \/ PruneLooks
      <3>1. served' = served /\ subscribed' = subscribed
        BY <2>6 DEF List, Ask, Unlist, PruneLooks, connVars
      <3>2. waiting' = waiting
        BY <1>2, <2>6 DEF Lost, List, Ask, Subscribe, Unlist, PruneLooks
      <3> QED
        BY <1>2, <3>1, <3>2 DEF Lost
    <2>7. ~TaskSends /\ ~TaskGivesUp
      BY <2>1 DEF TaskSends, TaskGivesUp
    <2> QED
      BY <1>2, <2>2, <2>3, <2>4, <2>5, <2>6, <2>7 DEF Next, RunWs, Requests
  <1> QED
    BY <1>1, <1>2 DEF StaysLost

\* Why the run ws_lost finds what it finds, for every number of breaks, expired
\* tokens and requests: the registration that follows a reconnection never takes
\* effect, and no later request for the code is sent unless the pruning dropped it
\* from subscribed_codes (_send_post_login_bootstrap, _send_reg,
\* execute_subscribe).
THEOREM LostCodesStayLost == Spec => [][StaysLost]_vars
  <1>1. Init => ServedWhenReady
    BY DEF Init, ServedWhenReady
  <1>2. WInv /\ ServedWhenReady /\ [Next]_vars => ServedWhenReady'
    BY ServedKept
  <1>3. WInv /\ ServedWhenReady /\ [Next]_vars => [StaysLost]_vars
    BY LostKept
  <1> QED
    BY <1>1, <1>2, <1>3, Invariance, PTL DEF Spec
=============================================================================
