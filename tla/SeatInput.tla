----------------------------- MODULE SeatInput -----------------------------
(***************************************************************************)
(* One seat's input from the client's tick to the round's: the client's    *)
(* own clock and trigger (src/net/round.rs, src/net/client.rs), an ordered *)
(* link, the mailbox, the room's clock (src/net/authority.rs, TickClock)   *)
(* and the trigger the round acts on (src/simulation/mod.rs).              *)
(*                                                                         *)
(* The two clocks run on the same periods, each a step at a time and up to *)
(* a few late; the link delivers in order and each message when it likes,  *)
(* within Latency.                                                         *)
(***************************************************************************)
EXTENDS Mailbox, SequencesExt

CONSTANTS
    FireHoldTicks,    \* FIRE_HOLD_TICKS
    SendCatchUpTicks, \* SEND_CATCH_UP_TICKS
    CatchUpTicks,     \* CATCH_UP_TICKS
    PoseReachTicks,   \* POSE_REACH_TICKS
    Triggers,         \* what the player may do with the trigger, of BOOLEAN
    Owns,             \* whether a packet carries a pose, of BOOLEAN
    MaxPeriods,       \* bound: periods modelled
    MaxReclaims,      \* bound: reconnects
    Overtake,         \* link: messages one may pass, 0 for a WebSocket
    Latency,          \* timing: periods a message may take
    RoomStall,        \* timing: ticks the room may owe
    ClientHitch       \* timing: ticks the client may owe

ASSUME SeatInputAssumption ==
    /\ {FireHoldTicks, SendCatchUpTicks, CatchUpTicks, MaxPeriods, RoomStall, ClientHitch}
           \subseteq Nat \ {0}
    /\ {PoseReachTicks, MaxReclaims, Overtake, Latency} \subseteq Nat
    /\ Triggers \subseteq BOOLEAN /\ Owns \subseteq BOOLEAN

VARIABLES
    periods, \* of the tick gone by
    client,  \* intent_tick, the hold left on a tap, the trigger last sent, ticks owed
    link,    \* the intents on their way
    stray,   \* the same, of the connection that was replaced
    reclaims,
    owed,    \* the room's ticks due and not yet run
    round    \* player_fire_held_last_frame, and the shot this tick fired:
             \* the input tick it is stamped with, or None

envVars == <<periods, client, link, stray, reclaims, owed, round>>
inputVars == <<mailboxVars, envVars>>

NewClient == [tick |-> 0, held |-> 0, fire |-> FALSE, due |-> 0]

----------------------------------------------------------------------------

\* Time passes, while nothing is later than the timing allows.
Period ==
    /\ periods < MaxPeriods
    /\ owed < RoomStall /\ client.due < ClientHitch
    /\ Len(link) + client.due <= Latency
    /\ periods' = periods + 1
    /\ owed' = owed + 1
    /\ client' = [client EXCEPT !.due = Smaller(@ + 1, SendCatchUpTicks)]
    /\ Age
    /\ UNCHANGED <<link, stray, reclaims, round>>

\* RoomClient::prepare_intent: a press is sent for FireHoldTicks at least.
Prepared(pressed) ==
    CASE pressed -> [client EXCEPT !.held = FireHoldTicks - 1, !.fire = TRUE]
      [] ~pressed /\ client.held > 0 -> [client EXCEPT !.held = @ - 1, !.fire = TRUE]
      [] OTHER -> [client EXCEPT !.fire = FALSE]

\* OnlineRound::step: the client's tick, and its packet on the link.
Drive ==
    /\ client.due > 0
    /\ \E pressed \in Triggers, owned \in Owns :
        LET sent == Prepared(pressed)
        IN  /\ client' = [sent EXCEPT !.tick = @ + 1, !.due = @ - 1]
            /\ link' = Append(link, Intent(client.tick, sent.fire, owned))
    /\ UNCHANGED <<mailboxVars, periods, stray, reclaims, owed, round>>

\* The connection task takes a packet off the socket (conn.rs, handle).
Arrive ==
    /\ \E i \in 1..Smaller(Overtake + 1, Len(link)) :
        /\ Post(link[i])
        /\ link' = RemoveAt(link, i)
    /\ UNCHANGED <<periods, client, stray, reclaims, owed, round>>

\* The replaced connection's task posts one more, or sees it was closed.
StrayArrives ==
    /\ stray # <<>>
    /\ \/ Post(Head(stray)) /\ stray' = Tail(stray)
       \/ stray' = <<>> /\ UNCHANGED mailboxVars
    /\ UNCHANGED <<periods, client, link, reclaims, owed, round>>

\* Room::join on a seat the device has: the mailbox is cleared, the old
\* connection told to close, and the new client counts from 0.
Reclaim ==
    /\ reclaims < MaxReclaims
    /\ reclaims' = reclaims + 1
    /\ Clear
    /\ stray' = link
    /\ link' = <<>>
    /\ client' = [NewClient EXCEPT !.due = client.due]
    /\ UNCHANGED <<periods, owed, round>>

\* TickClock::fire: past CatchUpTicks more owed, they are dropped.
Fire == owed' = IF owed - 1 > CatchUpTicks THEN 0 ELSE owed - 1

\* Mailbox::press_tick
PressTick(b) ==
    IF b.press # None THEN b.press ELSE IF b.applied # None THEN b.applied ELSE 0

\* The round fires on the trigger going down, with the room's stamp.
Trigger ==
    LET fire == read' # None /\ read'.fire
    IN  round' = [held |-> fire,
                  fired |-> IF fire /\ ~round.held THEN PressTick(inner') ELSE None]

\* Room::tick_now, this seat's part of it.
RoomTick ==
    /\ owed > 0
    /\ Fire
    /\ Read
    /\ Trigger
    /\ UNCHANGED <<periods, client, link, stray, reclaims>>

InputInit ==
    /\ MailboxInit
    /\ periods = 0 /\ client = NewClient /\ link = <<>> /\ owed = 0
    /\ stray = <<>> /\ reclaims = 0
    /\ round = [held |-> FALSE, fired |-> None]

InputNext == Period \/ Drive \/ Arrive \/ StrayArrives \/ Reclaim \/ RoomTick

InputSpec == InputInit /\ [][InputNext]_inputVars

----------------------------------------------------------------------------
(***************************************************************************)
(* What a seat's input promises.                                           *)
(***************************************************************************)

Ticks == 0..MaxPeriods
Intents == [tick : Ticks, fire : BOOLEAN, owned : BOOLEAN]
Maybe(S) == S \cup {None}

InputTypeOK ==
    /\ inner.queue \subseteq Intents /\ Cardinality(inner.queue) <= BufferMax
    /\ inner.last \in Maybe(Intents) /\ read \in Maybe(Intents)
    /\ inner.applied \in Maybe(Ticks) /\ inner.newest_posted \in Maybe(Ticks)
    /\ inner.silent \in Maybe(0..(IntentCoast + 1)) /\ inner.wall \in Maybe(Ticks)
    /\ inner.play \in Maybe(Nat) /\ inner.next_step \in 0..2
    /\ inner.owed_press \in Maybe(Ticks) /\ inner.press \in Maybe(Ticks)
    /\ inner.reach \in 0..Larger(1, ReachTicksMax)
    /\ inner.starved_run \in Nat /\ inner.reads_since_apply \in Nat
    /\ client \in [tick : Ticks, held : 0..FireHoldTicks, fire : BOOLEAN, due : 0..SendCatchUpTicks]
    /\ link \in Seq(Intents) /\ stray \in Seq(Intents)
    /\ reclaims \in 0..MaxReclaims /\ owed \in 0..RoomStall
    /\ round \in [held : BOOLEAN, fired : Maybe(Ticks)]

\* The hull is walked along the client's own track and never back over it,
\* though a packet overtakes another: until a reconnect starts the count
\* again, the tick applied only grows (src/net/mailbox.rs, post).
NeverBack ==
    [][inner.applied # None /\ inner'.applied # None => inner'.applied >= inner.applied]_inputVars

----------------------------------------------------------------------------
(***************************************************************************)
(* What a comment says and the code does not do.                           *)
(***************************************************************************)

\* Mailbox::post: an intent for a tick already applied "is a duplicate or a
\* straggler" - so none of those still on an ordered link, each sent once,
\* can be one.
NothingOnTheWayIsStale == \A i \in DOMAIN link : ~Straggler(inner, link[i])
=============================================================================
