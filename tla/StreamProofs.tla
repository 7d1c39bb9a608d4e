---------------------------- MODULE StreamProofs ----------------------------
(***************************************************************************)
(* What SnapshotStream promises, for every depth of the outbox, every      *)
(* cadence and any number of rounds and frames: a client taken for in step *)
(* is in step, what a client with an open connection holds is a behaviour  *)
(* of SnapshotFeed and shows the world as it was, and what happened is     *)
(* heard whole, in order and once.                                         *)
(*                                                                         *)
(* None of it is inductive: all speak of a client that has read everything *)
(* or of the next message only.  The invariants follow the baseline, and   *)
(* what is heard on the way, through the outbox, message by message, to    *)
(* where they will be once all is read - and from there to what the room's *)
(* turn has still to say.                                                  *)
(*                                                                         *)
(* What the deltas carry comes first: the round trip of                    *)
(* src/net/delta.rs, for every pair of snapshots.                          *)
(***************************************************************************)
EXTENDS MCSnapshotStream, TLAPS

----------------------------------------------------------------------------
(***************************************************************************)
(* The round trip: what a room cuts between two snapshots takes a client   *)
(* that holds the first to the second, whatever came, went, changed or     *)
(* moved, over the whole range of the coordinates.  The families are taken *)
(* one by one, by extension: the same keys, and under each key the same    *)
(* entry.                                                                  *)
(***************************************************************************)

\* A family is a function, and its entries are entries.
LEMMA FamilyForm ==
    ASSUME NEW E, NEW f, IsFamily(f, E)
    PROVE  /\ f = [k \in DOMAIN f |-> f[k]]
           /\ \A k \in DOMAIN f : f[k] \in E
BY DEF IsFamily

\* Two families with the same entries under the same keys are the same.
LEMMA FamilyEquality ==
    ASSUME NEW E, NEW f, IsFamily(f, E), NEW g,
           g = [k \in DOMAIN g |-> g[k]],
           DOMAIN g = DOMAIN f,
           \A k \in DOMAIN f : g[k] = f[k]
    PROVE  g = f
BY FamilyForm

\* A short step added to a coordinate lands where it was measured to, and
\* the wrapping addition does not wrap.
LEMMA StepLands ==
    ASSUME NEW a \in Int16, NEW b \in Int16
    PROVE  Wrapped(a + (b - a)) = b
<1>1. a \in Int /\ b \in Int /\ b >= -32768 /\ b <= 32767
    BY DEF Int16
<1>2. b + 32768 \in Int /\ 0 <= b + 32768 /\ b + 32768 < 65536
    BY <1>1
<1>3. (b + 32768) % 65536 = b + 32768
    BY <1>2
<1>4. a + (b - a) = b
    BY <1>1
<1> QED
    BY <1>1, <1>3, <1>4 DEF Wrapped

\* An entry that only moved steps onto what it became.
LEMMA MoveLands ==
    ASSUME NEW p \in Entry, NEW n \in Entry, MovedOnly(p, n)
    PROVE  Stepped(p, [dx |-> n.x - p.x, dy |-> n.y - p.y]) = n
<1> DEFINE step == [dx |-> n.x - p.x, dy |-> n.y - p.y]
<1>1. step.dx = n.x - p.x /\ step.dy = n.y - p.y
    OBVIOUS
<1>2. p.x \in Int16 /\ p.y \in Int16 /\ n.x \in Int16 /\ n.y \in Int16
    BY DEF Entry
<1>3. Wrapped(p.x + step.dx) = n.x /\ Wrapped(p.y + step.dy) = n.y
    BY <1>1, <1>2, StepLands
<1>4. Stepped(p, step) = [p EXCEPT !.x = n.x, !.y = n.y]
    BY <1>3 DEF Stepped, Entry
<1> QED
    BY <1>4 DEF MovedOnly

\* A family without positions comes out as it was cut.
LEMMA KeyedRoundTrip ==
    ASSUME NEW E, NEW old, NEW next, IsFamily(old, E), IsFamily(next, E)
    PROVE  ApplyKeyed(old, DiffKeyed(old, next)) = next
<1> DEFINE d == DiffKeyed(old, next)
           out == ApplyKeyed(old, d)
<1>1. /\ d.changed = [k \in New(old, next) |-> next[k]]
      /\ d.gone = Gone(old, next)
    BY DEF DiffKeyed, Restrict
<1>2. DOMAIN d.changed = New(old, next)
    BY <1>1
<1>3. DOMAIN out = DOMAIN next
    <2>1. DOMAIN out = (DOMAIN old \ Gone(old, next)) \cup New(old, next)
        BY <1>1, <1>2 DEF ApplyKeyed, Kept
    <2> QED
        BY <2>1 DEF Gone, New
<1>4. \A k \in DOMAIN next : out[k] = next[k]
    <2> TAKE k \in DOMAIN next
    <2>1. out[k] = IF k \in DOMAIN d.changed THEN d.changed[k] ELSE old[k]
        BY <1>3 DEF ApplyKeyed
    <2>2. CASE k \in New(old, next)
        BY <2>1, <2>2, <1>1, <1>2
    <2>3. CASE k \notin New(old, next)
        BY <2>1, <2>3, <1>2 DEF New
    <2> QED
        BY <2>2, <2>3
<1>5. out = [k \in DOMAIN out |-> out[k]]
    BY DEF ApplyKeyed
<1>6. out = next
    <2> HIDE DEF out
    <2> QED
        BY <1>3, <1>4, <1>5, FamilyEquality
<1> QED
    BY <1>6

\* And so does a family with positions, moves and all.
LEMMA PositionedRoundTrip ==
    ASSUME NEW old, NEW next, IsFamily(old, Entry), IsFamily(next, Entry)
    PROVE  ApplyPositioned(old, DiffPositioned(old, next)) = next
<1> DEFINE moved == {k \in New(old, next) : k \in DOMAIN old /\ MovedOnly(old[k], next[k])}
           d == DiffPositioned(old, next)
           out == ApplyPositioned(old, d)
<1>1. /\ d.changed = [k \in New(old, next) \ moved |-> next[k]]
      /\ d.moved = [k \in moved |-> [dx |-> next[k].x - old[k].x, dy |-> next[k].y - old[k].y]]
      /\ d.gone = Gone(old, next)
    BY DEF DiffPositioned, Restrict
<1>2. DOMAIN d.changed = New(old, next) \ moved /\ DOMAIN d.moved = moved
    BY <1>1
<1>3. DOMAIN out = DOMAIN next
    <2>1. DOMAIN out = (DOMAIN old \ Gone(old, next)) \cup (New(old, next) \ moved)
        BY <1>1, <1>2 DEF ApplyPositioned, Kept
    <2>2. moved \subseteq DOMAIN old \cap DOMAIN next
        BY DEF New
    <2> QED
        BY <2>1, <2>2 DEF Gone, New
<1>4. \A k \in DOMAIN next : out[k] = next[k]
    <2> TAKE k \in DOMAIN next
    <2>1. out[k] = CASE k \in DOMAIN d.changed -> d.changed[k]
                     [] k \in DOMAIN d.moved \ DOMAIN d.changed -> Stepped(old[k], d.moved[k])
                     [] OTHER -> old[k]
        BY <1>3 DEF ApplyPositioned
    <2>2. CASE k \in New(old, next) \ moved
        BY <2>1, <2>2, <1>1, <1>2
    <2>3. CASE k \in moved
        <3>1. old[k] \in Entry /\ next[k] \in Entry /\ MovedOnly(old[k], next[k])
            BY <2>3, FamilyForm
        <3>2. d.moved[k] = [dx |-> next[k].x - old[k].x, dy |-> next[k].y - old[k].y]
            BY <2>3, <1>1
        <3>3. out[k] = Stepped(old[k], d.moved[k])
            BY <2>1, <2>3, <1>2
        <3> QED
            BY <3>1, <3>2, <3>3, MoveLands
    <2>4. CASE k \notin New(old, next)
        <3>1. k \in DOMAIN old /\ old[k] = next[k]
            BY <2>4 DEF New
        <3>2. k \notin DOMAIN d.changed /\ k \notin DOMAIN d.moved
            BY <2>4, <1>2
        <3> QED
            BY <3>1, <3>2, <2>1
    <2> QED
        BY <2>2, <2>3, <2>4
<1>5. out = [k \in DOMAIN out |-> out[k]]
    BY DEF ApplyPositioned
<1>6. out = next
    <2> HIDE DEF out
    <2> QED
        BY <1>3, <1>4, <1>5, FamilyEquality
<1> QED
    BY <1>6

\* A value that travels whole travels when it changed.
LEMMA WholeRoundTrip ==
    ASSUME NEW p \in Values, NEW n \in Values
    PROVE  LET sent == IF n # p THEN n ELSE Same
           IN  (IF sent # Same THEN sent ELSE p) = n
BY DeltaAssumption

\* The delta between two snapshots takes the first to the second: for every
\* set of keys, every mix of families, every position and every step.
\* src/net/delta.rs, delta and apply_delta.
THEOREM DeltaRoundTrip ==
    ASSUME NEW old, NEW next, IsState(old), IsState(next)
    PROVE  Applied(old, Cutting(old, next)) = next
<1> DEFINE d == Cutting(old, next)
<1>1. /\ d.moving = [f \in Moving |-> DiffPositioned(old.moving[f], next.moving[f])]
      /\ d.fixed = [f \in Fixed |-> DiffKeyed(old.fixed[f], next.fixed[f])]
      /\ d.wholes = [w \in Wholes |-> IF next.wholes[w] # old.wholes[w] THEN next.wholes[w] ELSE Same]
    BY DEF Cutting
<1>2. \A f \in Moving : ApplyPositioned(old.moving[f], d.moving[f]) = next.moving[f]
    <2> TAKE f \in Moving
    <2>1. IsFamily(old.moving[f], Entry) /\ IsFamily(next.moving[f], Entry)
        BY DEF IsState
    <2>2. d.moving[f] = DiffPositioned(old.moving[f], next.moving[f])
        BY <1>1
    <2> QED
        BY <2>1, <2>2, PositionedRoundTrip
<1>3. \A f \in Fixed : ApplyKeyed(old.fixed[f], d.fixed[f]) = next.fixed[f]
    <2> TAKE f \in Fixed
    <2>1. IsFamily(old.fixed[f], Looks) /\ IsFamily(next.fixed[f], Looks)
        BY DEF IsState
    <2>2. d.fixed[f] = DiffKeyed(old.fixed[f], next.fixed[f])
        BY <1>1
    <2> QED
        BY <2>1, <2>2, KeyedRoundTrip
<1>4. \A w \in Wholes : (IF d.wholes[w] # Same THEN d.wholes[w] ELSE old.wholes[w]) = next.wholes[w]
    <2> TAKE w \in Wholes
    <2>1. old.wholes[w] \in Values /\ next.wholes[w] \in Values
        BY DEF IsState
    <2>2. d.wholes[w] = IF next.wholes[w] # old.wholes[w] THEN next.wholes[w] ELSE Same
        BY <1>1
    <2> QED
        BY <2>1, <2>2, WholeRoundTrip
<1>5. /\ [f \in Moving |-> ApplyPositioned(old.moving[f], d.moving[f])] = next.moving
      /\ [f \in Fixed |-> ApplyKeyed(old.fixed[f], d.fixed[f])] = next.fixed
      /\ [w \in Wholes |-> IF d.wholes[w] # Same THEN d.wholes[w] ELSE old.wholes[w]] = next.wholes
    <2>1. /\ next.moving = [f \in Moving |-> next.moving[f]]
          /\ next.fixed = [f \in Fixed |-> next.fixed[f]]
          /\ next.wholes = [w \in Wholes |-> next.wholes[w]]
        BY DEF IsState
    <2> HIDE DEF d
    <2> QED
        BY <2>1, <1>2, <1>3, <1>4
<1>6. next = [moving |-> next.moving, fixed |-> next.fixed, wholes |-> next.wholes]
    BY DEF IsState
<1>7. Applied(old, d) = next
    <2> HIDE DEF d
    <2> QED
        BY <1>5, <1>6 DEF Applied
<1> QED
    BY <1>7

----------------------------------------------------------------------------
(***************************************************************************)
(* The invariant.                                                          *)
(***************************************************************************)

NotAfter(a, b) == a.round < b.round \/ (a.round = b.round /\ a.frame <= b.frame)

Carries(m) == m.kind \in {"Welcome", "Snapshot", "Delta"}

\* A client that holds b and reads m holds c; a delta is one cut from b, of
\* the same round.
Follows(b, m, c) ==
    /\ c = IF Carries(m) THEN m.to ELSE b
    /\ b # Nothing /\ Carries(m) => NotAfter(b, m.to)
    /\ m.kind = "Delta" => b # Nothing /\ b = m.from /\ b.round = m.to.round

\* What the client will hold after each message of the outbox.
Holds(h) ==
    /\ h \in [0..Len(outbox) -> Baseline]
    /\ h[0] = client.base
    /\ \A i \in 0..Len(outbox) - 1 : Follows(h[i], outbox[i + 1], h[i + 1])
    /\ \A i \in 0..Len(outbox) : h[i] # Nothing => NotAfter(h[i], newest)

\* The room's turn says one state at most, and that is the newest; one the
\* seat's next delta is cut against is `prev`, wherever it is by now.
Says(b) ==
    /\ \A i, j \in DOMAIN saying : Carries(saying[i]) /\ Carries(saying[j]) => i = j
    /\ \A i \in DOMAIN saying : Carries(saying[i]) =>
        /\ saying[i].to = newest
        /\ IsSnapshot(saying[i]) \/ ~needs_full => prev = newest
        /\ saying[i].kind = "Delta" => ~needs_full /\ Follows(b, saying[i], newest)
    /\ ~needs_full /\ (\A i \in DOMAIN saying : ~Carries(saying[i])) => b = prev

Chained == \E h : Holds(h) /\ Says(h[Len(outbox)])

\* The last snapshot cut is one of this round's.
PrevInRound ==
    playing = "Playing" => prev.round = newest.round /\ prev.frame <= newest.frame

\* A tick and a step, at whatever cadence snapshots go.
AnyTick ==
    /\ Frame
    /\ LET events == EventsOf(newest'.frame, eventful')
       IN  \/ Broadcast(newest', events, <<>>)
           \/ banked' = banked \o events /\ UNCHANGED <<saying, prev>>
    /\ UNCHANGED <<playing, needs_full, link, outbox, client>>

AnyNext ==
    \/ Receive
    \/ Say
    \/ Break
    \/ saying = <<>> /\ (Join \/ Start \/ AnyTick \/ EndRound \/ Chatter \/ Disconnected)

StreamInv ==
    /\ StreamTypeOK
    /\ PrevInRound
    /\ link = "open" => client.true /\ Chained

----------------------------------------------------------------------------
(***************************************************************************)
(* Sequences and moments.                                                  *)
(***************************************************************************)

LEMMA Bounds ==
    /\ OutboxDepth \in Nat /\ OutboxDepth > 0
    /\ SnapshotEvery \in Nat /\ SnapshotEvery > 0
    /\ MaxRound \in Nat /\ MaxFrame \in Nat
    /\ Nothing \notin Moment
BY StreamAssumption DEF Moment

LEMMA HeadAndTail ==
    ASSUME NEW S, NEW s \in Seq(S), s # <<>>
    PROVE  /\ Len(s) \in Nat /\ Len(s) > 0
           /\ Head(s) \in S /\ Head(s) = s[1]
           /\ Tail(s) \in Seq(S) /\ Len(Tail(s)) = Len(s) - 1
           /\ \A i \in 1..Len(s) - 1 : Tail(s)[i] = s[i + 1]
OBVIOUS

LEMMA Elements ==
    ASSUME NEW S, NEW s \in Seq(S), NEW i \in DOMAIN s
    PROVE  s[i] \in S
OBVIOUS

LEMMA Appended ==
    ASSUME NEW S, NEW s \in Seq(S), NEW e \in S
    PROVE  /\ Append(s, e) \in Seq(S) /\ Len(Append(s, e)) = Len(s) + 1
           /\ \A i \in 1..Len(s) : Append(s, e)[i] = s[i]
           /\ Append(s, e)[Len(s) + 1] = e
OBVIOUS

LEMMA Joined ==
    ASSUME NEW S, NEW s \in Seq(S), NEW e \in S
    PROVE  /\ <<e>> \o s \in Seq(S) /\ Len(<<e>> \o s) = Len(s) + 1
           /\ (<<e>> \o s)[1] = e
           /\ \A i \in 2..Len(s) + 1 : (<<e>> \o s)[i] = s[i - 1]
OBVIOUS

LEMMA MomentFields ==
    ASSUME NEW a \in Moment, NEW b \in Moment
    PROVE  /\ a.round \in Nat /\ a.frame \in Nat /\ a # Nothing
           /\ NotAfter(a, a)
           /\ a.round = b.round /\ a.frame = b.frame => a = b
           /\ NotAfter(a, b) /\ a.round = b.round => a.frame <= b.frame
BY Bounds DEF Moment, NotAfter

LEMMA NotAfterTransitive ==
    ASSUME NEW a \in Moment, NEW b \in Moment, NEW c \in Moment,
           NotAfter(a, b), NotAfter(b, c)
    PROVE  NotAfter(a, c)
BY Bounds DEF Moment, NotAfter

\* What the messages of the stream are made of.
LEMMA MessageForms ==
    ASSUME NEW m \in Message
    PROVE  /\ Carries(m) => m.to \in Moment
           /\ m.kind = "Delta" => m.from \in Moment
           /\ IsSnapshot(m) => Carries(m) /\ m.events \in Seq(1..MaxFrame)
           /\ m.kind \in {"Snapshot", "Delta"} <=> IsSnapshot(m)
           /\ Carries(m) /\ ~IsSnapshot(m) => m.kind = "Welcome"
BY DEF Message, Carries, IsSnapshot

\* What a turn may have to say is made of messages.
LEMMA Words ==
    /\ <<>> \in Seq(Message)
    /\ \A what \in {"Started", "Ended", "Roster"} : Lobby(what) \in Message /\ ~Carries(Lobby(what))
    /\ \A moment \in Moment : /\ Welcome(moment) \in Message
                              /\ Carries(Welcome(moment)) /\ ~IsSnapshot(Welcome(moment))
                              /\ Welcome(moment).to = moment
                              /\ Welcome(moment).kind = "Welcome"
    /\ EndWords \in Seq(Message)
    /\ \A i \in DOMAIN EndWords : ~Carries(EndWords[i])
<1>1. \A what \in {"Started", "Ended", "Roster"} : Lobby(what) \in Message /\ ~Carries(Lobby(what))
    BY DEF Lobby, Message, Carries
<1>2. \A moment \in Moment : /\ Welcome(moment) \in Message
                             /\ Carries(Welcome(moment)) /\ ~IsSnapshot(Welcome(moment))
                             /\ Welcome(moment).to = moment
                             /\ Welcome(moment).kind = "Welcome"
    BY DEF Welcome, Message, Carries, IsSnapshot
<1>3. EndWords = <<Lobby("Ended"), Lobby("Roster")>>
    BY DEF EndWords
<1>4. EndWords \in Seq(Message)
    BY <1>1, <1>3
<1>5. \A i \in DOMAIN EndWords : ~Carries(EndWords[i])
    BY <1>1, <1>3
<1> QED
    BY <1>1, <1>2, <1>4, <1>5

\* A snapshot that is cut, whole or as a delta.
LEMMA CutForm ==
    ASSUME NEW to \in Moment, NEW events \in Seq(1..MaxFrame), prev \in Moment
    PROVE  LET m == Cut(to, events)
           IN  /\ m \in Message /\ IsSnapshot(m) /\ Carries(m) /\ m.to = to
               /\ m.kind = "Delta" => ~needs_full /\ m.from = prev
               /\ needs_full => m.kind = "Snapshot"
               /\ ~needs_full => m.kind = "Delta"
<1> DEFINE m == Cut(to, events)
<1>1. CASE needs_full
    <2>1. m = [kind |-> "Snapshot", to |-> to, events |-> events]
        BY <1>1 DEF Cut
    <2> QED
        BY <1>1, <2>1 DEF Message, IsSnapshot, Carries
<1>2. CASE ~needs_full
    <2>1. m = [kind |-> "Delta", from |-> prev, to |-> to, events |-> events]
        BY <1>2 DEF Cut
    <2> QED
        BY <1>2, <2>1 DEF Message, IsSnapshot, Carries
<1> QED
    BY <1>1, <1>2

LEMMA EventTypes ==
    ASSUME NEW f \in 1..MaxFrame, NEW happened \in SUBSET (1..MaxFrame)
    PROVE  EventsOf(f, happened) \in Seq(1..MaxFrame)
<1>1. <<f>> \in Seq(1..MaxFrame) /\ <<>> \in Seq(1..MaxFrame)
    OBVIOUS
<1> QED
    BY <1>1 DEF EventsOf

LEMMA EventsJoined ==
    ASSUME NEW S, NEW a \in Seq(S), NEW b \in Seq(S)
    PROVE  a \o b \in Seq(S)
OBVIOUS

----------------------------------------------------------------------------
(***************************************************************************)
(* Type correctness.                                                       *)
(***************************************************************************)

Client == [base : Baseline, true : BOOLEAN, since : 0..MaxFrame, heard : Seq(1..MaxFrame)]

LEMMA NewClientType == NewClient \in Client
BY Bounds DEF NewClient, Client, Baseline

\* Whatever a client takes, it stays a client; one that holds what a delta
\* was cut from holds what it leads to.
LEMMA TakeForm ==
    ASSUME client \in Client, NEW m \in Message
    PROVE  /\ Take(m) \in Client
           /\ \A c : client.true /\ Follows(client.base, m, c) => Take(m).true /\ Take(m).base = c
<1> USE DEF Client
<1>1. CASE m.kind = "Welcome"
    <2>1. m.to \in Moment /\ Take(m) = [base |-> m.to, true |-> TRUE, since |-> m.to.frame, heard |-> <<>>]
        BY <1>1, MessageForms DEF Take, TakeWelcome, Carries
    <2>2. Take(m) \in Client
        BY <2>1 DEF Baseline, Moment
    <2> QED
        BY <1>1, <2>1, <2>2 DEF Follows, Carries
<1>2. CASE m.kind = "Snapshot"
    <2>1. m.to \in Moment /\ m.events \in Seq(1..MaxFrame) /\ Take(m) = TakeSnapshot(m)
        BY <1>2, MessageForms DEF Take, Carries, IsSnapshot
    <2>2. /\ Take(m).base = m.to /\ Take(m).true = TRUE /\ Take(m).since = client.since
          /\ Take(m).heard \in {client.heard, client.heard \o m.events}
          /\ Take(m) = [base |-> Take(m).base, true |-> Take(m).true, since |-> Take(m).since, heard |-> Take(m).heard]
        BY <2>1 DEF TakeSnapshot
    <2>3. Take(m).heard \in Seq(1..MaxFrame)
        BY <2>1, <2>2, EventsJoined
    <2> QED
        BY <1>2, <2>1, <2>2, <2>3 DEF Follows, Carries, Baseline
<1>3. CASE m.kind = "Delta"
    <2>1. /\ m.to \in Moment /\ m.from \in Moment /\ m.events \in Seq(1..MaxFrame)
          /\ Take(m) = TakeDelta(m)
        BY <1>3, MessageForms DEF Take, Carries, IsSnapshot
    <2>2. CASE client.base # Nothing /\ client.base.frame < m.to.frame
        <3>1. /\ Take(m).base = m.to /\ Take(m).true = (client.true /\ client.base = m.from)
              /\ Take(m).since = client.since /\ Take(m).heard = client.heard \o m.events
              /\ Take(m) = [base |-> Take(m).base, true |-> Take(m).true, since |-> Take(m).since, heard |-> Take(m).heard]
            BY <2>1, <2>2 DEF TakeDelta
        <3>2. Take(m).heard \in Seq(1..MaxFrame)
            BY <2>1, <3>1, EventsJoined
        <3>3. Take(m).true \in BOOLEAN
            BY <3>1
        <3>4. Take(m) \in Client
            BY <2>1, <3>1, <3>2, <3>3 DEF Baseline
        <3> QED
            BY <1>3, <3>1, <3>4 DEF Follows, Carries
    <2>3. CASE ~(client.base # Nothing /\ client.base.frame < m.to.frame)
        <3>1. Take(m) = client
            BY <2>1, <2>3 DEF TakeDelta
        <3>2. ASSUME NEW c, Follows(client.base, m, c) PROVE client.base = c
            <4>1. /\ client.base # Nothing /\ client.base = m.from /\ client.base.round = m.to.round
                  /\ NotAfter(client.base, m.to) /\ c = m.to
                BY <1>3, <3>2 DEF Follows, Carries
            <4> QED
                BY <2>1, <2>3, <4>1, MomentFields
        <3> QED
            BY <3>1, <3>2
    <2> QED
        BY <2>2, <2>3
<1>4. CASE m.kind \notin {"Welcome", "Snapshot", "Delta"}
    BY <1>4 DEF Take, Follows, Carries
<1> QED
    BY <1>1, <1>2, <1>3, <1>4

\* What a turn of the room leaves: it says something, and may have cut a
\* snapshot of the newest world.
LEMMA BroadcastForm ==
    ASSUME StreamTypeOK, NEW to \in Moment, NEW events \in Seq(1..MaxFrame),
           NEW more \in Seq(Message), Broadcast(to, events, more)
    PROVE  /\ saying' \in Seq(Message) /\ Len(saying') = Len(more) + 1
           /\ saying'[1] \in Message /\ IsSnapshot(saying'[1]) /\ Carries(saying'[1])
           /\ saying'[1].to = to
           /\ saying'[1].kind = "Delta" => ~needs_full /\ saying'[1].from = prev
           /\ ~needs_full => saying'[1].kind = "Delta"
           /\ \A i \in 2..Len(more) + 1 : saying'[i] = more[i - 1]
           /\ prev' = to /\ banked' = <<>>
<1> DEFINE m == Cut(to, banked \o events)
<1>1. banked \o events \in Seq(1..MaxFrame) /\ prev \in Moment
    BY EventsJoined DEF StreamTypeOK
<1>2. /\ m \in Message /\ IsSnapshot(m) /\ Carries(m) /\ m.to = to
      /\ m.kind = "Delta" => ~needs_full /\ m.from = prev
      /\ ~needs_full => m.kind = "Delta"
    BY <1>1, CutForm
<1>3. saying' = <<m>> \o more /\ prev' = to /\ banked' = <<>>
    BY DEF Broadcast
<1> HIDE DEF m
<1> QED
    BY <1>2, <1>3, Joined

\* A tick: the frame that ran and what was sent of it.
LEMMA FrameForm ==
    ASSUME StreamTypeOK, Frame
    PROVE  /\ newest' \in Moment /\ newest'.round = newest.round /\ newest'.frame = newest.frame + 1
           /\ newest'.frame \in 1..MaxFrame
           /\ eventful' \in SUBSET (1..MaxFrame) /\ decided' \in BOOLEAN
<1>1. newest.round \in 0..MaxRound /\ newest.frame \in 0..MaxFrame
    BY DEF StreamTypeOK, Moment
<1>2. newest' = [round |-> newest.round, frame |-> newest.frame + 1] /\ newest.frame < MaxFrame
    BY DEF Frame, StreamTypeOK, Moment
<1>3. newest.frame + 1 \in 1..MaxFrame
    BY <1>1, <1>2, Bounds
<1>4. newest' \in Moment
    BY <1>1, <1>2, <1>3 DEF Moment
<1>5. eventful' \in SUBSET (1..MaxFrame)
    BY <1>3 DEF Frame, StreamTypeOK
<1>6. decided' \in BOOLEAN
    BY DEF Frame, StreamTypeOK
<1> QED
    BY <1>2, <1>3, <1>4, <1>5, <1>6

\* The snapshot of a moment, or nothing, is said on a turn of a round.
LEMMA LastWordsForm ==
    ASSUME StreamTypeOK, playing = "Playing", (decided /\ EndDecided) \/ EndLimit
    PROVE  \/ \E events \in Seq(1..MaxFrame) : Broadcast(newest, events, EndWords)
           \/ saying' = EndWords /\ UNCHANGED <<prev, banked>>
<1>1. EventsOf(newest.frame, eventful) \in Seq(1..MaxFrame)
    <2>1. eventful \in SUBSET (1..MaxFrame) /\ <<>> \in Seq(1..MaxFrame)
        BY DEF StreamTypeOK
    <2>2. CASE newest.frame \in eventful
        BY <2>1, <2>2, EventTypes
    <2>3. CASE newest.frame \notin eventful
        BY <2>1, <2>3 DEF EventsOf
    <2> QED
        BY <2>2, <2>3
<1> QED
    BY <1>1 DEF EndDecided, EndLimit, LastWords

\* The code's cadence, and the other one that is run.
LEMMA NextIsAny == StreamNext => AnyNext
<1>1. Tick => AnyTick
    BY DEF Tick, AnyTick
<1> QED
    BY <1>1 DEF StreamNext, AnyNext

LEMMA SparseIsAny == Sparse!StreamNext => AnyNext
<1>1. Sparse!Receive => Receive
    BY DEF Sparse!Receive, Receive, Sparse!Take, Take, Sparse!TakeWelcome, TakeWelcome,
           Sparse!TakeSnapshot, TakeSnapshot, Sparse!TakeDelta, TakeDelta, Sparse!roomSide, roomSide
<1>2. Sparse!Say => Say
    BY DEF Sparse!Say, Say, Sparse!Queued, Queued, Sparse!Full, Full, Sparse!Fits, Fits, Sparse!Skip, Skip,
           Sparse!GiveUp, GiveUp, Sparse!IsSnapshot, IsSnapshot, Sparse!roomSide, roomSide
<1>3. (Sparse!Break => Break) /\ (Sparse!Disconnected => Disconnected)
    BY DEF Sparse!Break, Break, Sparse!Disconnected, Disconnected, Sparse!roomSide, roomSide
<1>4. (Sparse!Join => Join) /\ (Sparse!Chatter => Chatter)
    BY DEF Sparse!Join, Join, Sparse!NewClient, NewClient, Sparse!Welcome, Welcome, Sparse!Lobby, Lobby,
           Sparse!Chatter, Chatter, Sparse!roomSide, roomSide
<1>5. Sparse!Start => Start
    BY DEF Sparse!Start, Start, Sparse!StartBaseline, StartBaseline, Sparse!Welcome, Welcome, Sparse!Lobby, Lobby
<1>6. \A to, events, more : Sparse!Broadcast(to, events, more) => Broadcast(to, events, more)
    BY DEF Sparse!Broadcast, Broadcast, Sparse!Cut, Cut
<1>7. \A frame, happened : Sparse!EventsOf(frame, happened) = EventsOf(frame, happened)
    BY DEF Sparse!EventsOf, EventsOf
<1>8. Sparse!Tick => AnyTick
    BY <1>6, <1>7 DEF Sparse!Tick, AnyTick, Sparse!Frame, Frame
<1>9. Sparse!EndWords = EndWords
    BY DEF Sparse!EndWords, EndWords, Sparse!Lobby, Lobby
<1>10. Sparse!LastWords => LastWords
    BY <1>6, <1>7, <1>9 DEF Sparse!LastWords, LastWords
<1>11. Sparse!EndRound => EndRound
    BY <1>9, <1>10 DEF Sparse!EndRound, EndRound, Sparse!EndDecided, EndDecided, Sparse!EndLimit, EndLimit
<1> QED
    BY <1>1, <1>2, <1>3, <1>4, <1>5, <1>8, <1>11 DEF Sparse!StreamNext, AnyNext

LEMMA StreamTypeInit == StreamInit => StreamTypeOK
<1> SUFFICES ASSUME StreamInit PROVE StreamTypeOK
    OBVIOUS
<1>1. Origin \in Moment
    BY Bounds DEF Origin, Moment
<1>2. client \in Client
    BY NewClientType DEF StreamInit
<1>3. outbox = <<>> /\ saying = <<>> /\ banked = <<>>
    BY DEF StreamInit
<1>4. outbox \in Seq(Message) /\ saying \in Seq(Message) /\ Len(outbox) <= OutboxDepth
    BY <1>3, Bounds
<1>5. banked \in Seq(1..MaxFrame)
    BY <1>3
<1> QED
    BY <1>1, <1>2, <1>4, <1>5 DEF StreamInit, StreamTypeOK, Client

LEMMA StreamTypeStep == StreamTypeOK /\ [AnyNext]_streamVars => StreamTypeOK'
<1> SUFFICES ASSUME StreamTypeOK, [AnyNext]_streamVars PROVE StreamTypeOK'
    OBVIOUS
<1>0. /\ playing \in {"Waiting", "Playing", "Ended"} /\ decided \in BOOLEAN
      /\ newest \in Moment /\ prev \in Moment
      /\ eventful \in SUBSET (1..MaxFrame) /\ banked \in Seq(1..MaxFrame)
      /\ needs_full \in BOOLEAN /\ link \in {"away", "open", "closing", "broken"}
      /\ saying \in Seq(Message) /\ outbox \in Seq(Message) /\ Len(outbox) <= OutboxDepth
      /\ client \in Client
    BY DEF StreamTypeOK, Client
<1>1. CASE Receive
    <2>1. /\ outbox # <<>> /\ client' = Take(Head(outbox)) /\ outbox' = Tail(outbox)
          /\ UNCHANGED <<roomSide, needs_full, link, saying>>
        BY <1>1 DEF Receive
    <2>2. Head(outbox) \in Message /\ outbox' \in Seq(Message) /\ Len(outbox') <= OutboxDepth
        BY <1>0, <2>1, HeadAndTail, Bounds
    <2>3. client' \in Client
        BY <1>0, <2>1, <2>2, TakeForm
    <2> QED
        BY <1>0, <2>1, <2>2, <2>3 DEF StreamTypeOK, Client, roomSide
<1>2. CASE Say
    <2>1. /\ saying # <<>> /\ saying' = Tail(saying) /\ UNCHANGED <<roomSide, client>>
          /\ link' \in {"away", "open", "closing", "broken"} /\ needs_full' \in BOOLEAN
          /\ \/ outbox' = outbox
             \/ outbox' = Append(outbox, Head(saying)) /\ Len(outbox) < OutboxDepth
        BY <1>0, <1>2 DEF Say, Queued, Full, Fits, Skip, GiveUp
    <2>2. Head(saying) \in Message /\ saying' \in Seq(Message)
        BY <1>0, <2>1, HeadAndTail
    <2>3. outbox' \in Seq(Message) /\ Len(outbox') <= OutboxDepth
        <3>1. CASE outbox' = outbox
            BY <1>0, <3>1
        <3>2. CASE outbox' = Append(outbox, Head(saying)) /\ Len(outbox) < OutboxDepth
            <4>1. outbox' \in Seq(Message) /\ Len(outbox') = Len(outbox) + 1 /\ Len(outbox) \in Nat
                BY <1>0, <2>2, <3>2, Appended
            <4> QED
                BY <3>2, <4>1, Bounds
        <3> QED
            BY <2>1, <3>1, <3>2
    <2> QED
        BY <1>0, <2>1, <2>2, <2>3 DEF StreamTypeOK, Client, roomSide
<1>3. CASE Break
    <2>1. link' = "broken" /\ outbox' = <<>> /\ UNCHANGED <<roomSide, needs_full, saying, client>>
        BY <1>3 DEF Break
    <2>2. outbox' \in Seq(Message) /\ Len(outbox') <= OutboxDepth
        BY <2>1, Bounds
    <2> QED
        BY <1>0, <2>1, <2>2 DEF StreamTypeOK, Client, roomSide
<1>4. CASE Join
    <2>1. /\ link' = "open" /\ needs_full' = TRUE /\ outbox' = <<>> /\ client' = NewClient
          /\ saying' \in {<<Welcome(newest), Lobby("Ended"), Lobby("Roster")>>,
                          <<Welcome(newest), Lobby("Roster")>>}
          /\ UNCHANGED roomSide
        BY <1>4 DEF Join
    <2>2. outbox' \in Seq(Message) /\ Len(outbox') <= OutboxDepth
        BY <2>1, Bounds
    <2>3. saying' \in Seq(Message)
        <3>1. Welcome(newest) \in Message /\ Lobby("Ended") \in Message /\ Lobby("Roster") \in Message
            BY <1>0, Words
        <3>2. CASE saying' = <<Welcome(newest), Lobby("Ended"), Lobby("Roster")>>
            BY <3>1, <3>2
        <3>3. CASE saying' = <<Welcome(newest), Lobby("Roster")>>
            BY <3>1, <3>3
        <3> QED
            BY <2>1, <3>2, <3>3
    <2>4. client' \in Client
        BY <2>1, NewClientType
    <2> QED
        BY <1>0, <2>1, <2>2, <2>3, <2>4 DEF StreamTypeOK, Client, roomSide
<1>5. CASE Start
    <2>1. /\ newest.round < MaxRound /\ playing' = "Playing" /\ decided' = FALSE
          /\ newest' = [round |-> newest.round + 1, frame |-> 0]
          /\ eventful' = {} /\ banked' = <<>> /\ needs_full' = FALSE /\ prev' = newest'
          /\ saying' = <<Lobby("Started"), Welcome(newest')>>
          /\ UNCHANGED <<link, outbox, client>>
        BY <1>5 DEF Start, StartBaseline
    <2>2. newest' \in Moment
        BY <1>0, <2>1, Bounds DEF Moment
    <2>3. saying' \in Seq(Message)
        <3>1. Welcome(newest') \in Message /\ Lobby("Started") \in Message
            BY <2>2, Words
        <3> QED
            BY <2>1, <3>1
    <2>4. banked' \in Seq(1..MaxFrame)
        BY <2>1
    <2> QED
        BY <1>0, <2>1, <2>2, <2>3, <2>4 DEF StreamTypeOK, Client
<1>6. CASE AnyTick
    <2>1. /\ newest' \in Moment /\ newest'.frame \in 1..MaxFrame
          /\ eventful' \in SUBSET (1..MaxFrame) /\ decided' \in BOOLEAN
          /\ UNCHANGED <<playing, needs_full, link, outbox, client>>
        BY <1>6, FrameForm DEF AnyTick
    <2>2. EventsOf(newest'.frame, eventful') \in Seq(1..MaxFrame)
        BY <2>1, EventTypes
    <2>3. /\ saying' \in Seq(Message) /\ prev' \in Moment /\ banked' \in Seq(1..MaxFrame)
        <3>1. CASE Broadcast(newest', EventsOf(newest'.frame, eventful'), <<>>)
            <4>1. <<>> \in Seq(1..MaxFrame) /\ <<>> \in Seq(Message)
                OBVIOUS
            <4> QED
                BY <2>1, <2>2, <3>1, <4>1, BroadcastForm
        <3>2. CASE banked' = banked \o EventsOf(newest'.frame, eventful') /\ UNCHANGED <<saying, prev>>
            BY <1>0, <2>2, <3>2, EventsJoined
        <3> QED
            BY <1>6, <3>1, <3>2 DEF AnyTick
    <2> QED
        BY <1>0, <2>1, <2>3 DEF StreamTypeOK, Client
<1>7. CASE EndRound
    <2>1. /\ playing = "Playing" /\ playing' = "Ended"
          /\ (decided /\ EndDecided) \/ EndLimit
          /\ UNCHANGED <<decided, newest, eventful, needs_full, link, outbox, client>>
        BY <1>7 DEF EndRound
    <2>2. saying' \in Seq(Message) /\ prev' \in Moment /\ banked' \in Seq(1..MaxFrame)
        <3>1. CASE \E events \in Seq(1..MaxFrame) : Broadcast(newest, events, EndWords)
            <4>1. <<>> \in Seq(1..MaxFrame) /\ EndWords \in Seq(Message)
                BY Words
            <4> QED
                BY <1>0, <3>1, <4>1, BroadcastForm
        <3>2. CASE saying' = EndWords /\ UNCHANGED <<prev, banked>>
            BY <1>0, <3>2, Words
        <3> QED
            BY <2>1, <3>1, <3>2, LastWordsForm
    <2> QED
        BY <1>0, <2>1, <2>2 DEF StreamTypeOK, Client
<1>8. CASE Chatter
    <2>1. saying' = <<Lobby("Roster")>> /\ UNCHANGED <<roomSide, needs_full, link, outbox, client>>
        BY <1>8 DEF Chatter
    <2>2. saying' \in Seq(Message)
        BY <2>1, Words
    <2> QED
        BY <1>0, <2>1, <2>2 DEF StreamTypeOK, Client, roomSide
<1>9. CASE Disconnected \/ UNCHANGED streamVars
    BY <1>0, <1>9 DEF Disconnected, StreamTypeOK, Client, roomSide, streamVars
<1> QED
    BY <1>1, <1>2, <1>3, <1>4, <1>5, <1>6, <1>7, <1>8, <1>9 DEF AnyNext

----------------------------------------------------------------------------
(***************************************************************************)
(* The chain through the outbox.                                           *)
(***************************************************************************)

\* The world moving on leaves what the client will hold where it is.
LEMMA HoldsLater ==
    ASSUME StreamTypeOK, NEW h, Holds(h), UNCHANGED <<outbox, client>>,
           newest' \in Moment, NotAfter(newest, newest')
    PROVE  Holds(h)'
<1>1. \A i \in 0..Len(outbox) : h[i] # Nothing => NotAfter(h[i], newest')
    <2> TAKE i \in 0..Len(outbox)
    <2> HAVE h[i] # Nothing
    <2>1. h[i] \in Moment /\ NotAfter(h[i], newest) /\ newest \in Moment
        BY DEF Holds, Baseline, StreamTypeOK
    <2> QED
        BY <2>1, NotAfterTransitive
<1> QED
    BY <1>1 DEF Holds

\* The end of the chain is a state, and no later than the newest.
LEMMA HoldsEnd ==
    ASSUME StreamTypeOK, NEW h, Holds(h)
    PROVE  /\ Len(outbox) \in Nat
           /\ h[Len(outbox)] \in Baseline
           /\ h[Len(outbox)] # Nothing => NotAfter(h[Len(outbox)], newest)
<1>1. Len(outbox) \in Nat
    BY DEF StreamTypeOK
<1> QED
    BY <1>1 DEF Holds

\* A message the outbox takes continues the chain.
LEMMA ChainQueued ==
    ASSUME StreamTypeOK, NEW h, Holds(h), Says(h[Len(outbox)]),
           saying # <<>>, saying' = Tail(saying),
           outbox' = Append(outbox, Head(saying)),
           needs_full' = (needs_full /\ ~IsSnapshot(Head(saying))),
           UNCHANGED <<newest, prev, client>>
    PROVE  Chained'
<1> DEFINE L == Len(outbox)
           m == Head(saying)
           b == h[L]
<1>c. PICK c : c = IF Carries(m) THEN m.to ELSE b
    OBVIOUS
<1>g. PICK g : g = [i \in 0..L + 1 |-> IF i = L + 1 THEN c ELSE h[i]]
    OBVIOUS
<1>1. /\ L \in Nat /\ b \in Baseline /\ (b # Nothing => NotAfter(b, newest))
      /\ newest \in Moment /\ prev \in Moment
      /\ outbox \in Seq(Message) /\ saying \in Seq(Message)
    BY HoldsEnd DEF StreamTypeOK
<1>2. /\ m \in Message /\ m = saying[1] /\ Len(saying) \in Nat /\ Len(saying) > 0
      /\ saying' \in Seq(Message) /\ Len(saying') = Len(saying) - 1
      /\ \A i \in 1..Len(saying) - 1 : saying'[i] = saying[i + 1]
    BY <1>1, HeadAndTail
<1>3. /\ outbox' \in Seq(Message) /\ Len(outbox') = L + 1
      /\ \A i \in 1..L : outbox'[i] = outbox[i]
      /\ outbox'[L + 1] = m
    BY <1>1, <1>2, Appended
<1>4. Carries(m) => /\ m.to = newest
                    /\ IsSnapshot(m) \/ ~needs_full => prev = newest
                    /\ m.kind = "Delta" => Follows(b, m, newest)
    BY <1>2 DEF Says
<1>5. IsSnapshot(m) => Carries(m)
    BY <1>2, MessageForms
<1>6. Follows(b, m, c)
    <2>1. CASE Carries(m)
        BY <1>c, <1>1, <1>4, <2>1 DEF Follows
    <2>2. CASE ~Carries(m)
        BY <1>c, <2>2 DEF Follows, Carries
    <2> QED
        BY <2>1, <2>2
<1>7. c \in Baseline /\ (c # Nothing => NotAfter(c, newest))
    BY <1>c, <1>1, <1>4, MomentFields DEF Baseline
<1>8. Holds(g)'
    <2>1. g \in [0..L + 1 -> Baseline] /\ g[0] = client.base /\ g[L + 1] = c
        BY <1>g, <1>1, <1>7 DEF Holds
    <2>2. \A i \in 0..L : g[i] = h[i]
        BY <1>g, <1>1
    <2>3. \A i \in 0..L : Follows(g[i], outbox'[i + 1], g[i + 1])
        <3> TAKE i \in 0..L
        <3>1. CASE i = L
            BY <1>1, <1>3, <1>6, <2>1, <2>2, <3>1
        <3>2. CASE i # L
            <4>1. i \in 0..L - 1 /\ i + 1 \in 0..L /\ i + 1 \in 1..L
                BY <1>1, <3>2
            <4>2. Follows(h[i], outbox[i + 1], h[i + 1])
                BY <4>1 DEF Holds
            <4> QED
                BY <1>3, <2>2, <4>1, <4>2
        <3> QED
            BY <3>1, <3>2
    <2>4. \A i \in 0..L + 1 : g[i] # Nothing => NotAfter(g[i], newest)
        <3> TAKE i \in 0..L + 1
        <3>1. CASE i = L + 1
            BY <1>7, <2>1, <3>1
        <3>2. CASE i # L + 1
            <4>1. i \in 0..L
                BY <1>1, <3>2
            <4> QED
                BY <2>2, <4>1 DEF Holds
        <3> QED
            BY <3>1, <3>2
    <2>5. Len(outbox') - 1 = L /\ client' = client /\ newest' = newest
        BY <1>1, <1>3
    <2> QED
        BY <1>3, <2>1, <2>3, <2>4, <2>5 DEF Holds
<1>9. Says(c)'
    <2>1. DOMAIN saying' = 1..Len(saying) - 1 /\ DOMAIN saying = 1..Len(saying)
        BY <1>1, <1>2
    <2>2. \A i \in DOMAIN saying' : i + 1 \in DOMAIN saying /\ saying'[i] = saying[i + 1] /\ i \in Nat
        BY <1>2, <2>1
    <2>3. \A i, j \in DOMAIN saying' : Carries(saying'[i]) /\ Carries(saying'[j]) => i = j
        <3> TAKE i, j \in DOMAIN saying'
        <3> HAVE Carries(saying'[i]) /\ Carries(saying'[j])
        <3>1. i + 1 = j + 1
            BY <2>2 DEF Says
        <3> QED
            BY <2>2, <3>1
    <2>4. ASSUME NEW i \in DOMAIN saying', Carries(saying'[i])
          PROVE  /\ ~Carries(m) /\ c = b /\ needs_full' = needs_full
                 /\ saying'[i].to = newest
                 /\ IsSnapshot(saying'[i]) \/ ~needs_full => prev = newest
                 /\ saying'[i].kind = "Delta" => ~needs_full /\ Follows(b, saying'[i], newest)
        <3>1. i + 1 \in DOMAIN saying /\ Carries(saying[i + 1]) /\ 1 \in DOMAIN saying /\ i + 1 # 1
            BY <1>2, <2>1, <2>2, <2>4
        <3>2. ~Carries(m)
            BY <1>2, <3>1 DEF Says
        <3>3. c = b /\ needs_full' = needs_full
            BY <1>c, <1>5, <3>2 DEF StreamTypeOK
        <3> QED
            BY <2>2, <3>1, <3>2, <3>3 DEF Says
    <2>5. ASSUME ~needs_full', \A i \in DOMAIN saying' : ~Carries(saying'[i])
          PROVE  c = prev
        <3>1. CASE Carries(m)
            BY <1>c, <1>4, <2>5, <3>1
        <3>2. CASE ~Carries(m)
            <4>1. ~needs_full /\ c = b
                BY <1>c, <1>5, <2>5, <3>2
            <4>2. \A i \in DOMAIN saying : ~Carries(saying[i])
                <5> TAKE i \in DOMAIN saying
                <5>1. CASE i = 1
                    BY <1>2, <3>2, <5>1
                <5>2. CASE i # 1
                    <6>1. i - 1 \in DOMAIN saying' /\ saying'[i - 1] = saying[i]
                        BY <1>2, <2>1, <5>2
                    <6> QED
                        BY <2>5, <6>1
                <5> QED
                    BY <5>1, <5>2
            <4> QED
                BY <4>1, <4>2 DEF Says
        <3> QED
            BY <3>1, <3>2
    <2>6. newest' = newest /\ prev' = prev
        OBVIOUS
    <2> QED
        BY <2>3, <2>4, <2>5, <2>6 DEF Says
<1>10. g[Len(outbox')] = c
    BY <1>g, <1>1, <1>3
<1> QED
    BY <1>8, <1>9, <1>10 DEF Chained

\* The oldest message read takes the chain's first step.
LEMMA ChainRead ==
    ASSUME StreamTypeOK, client.true, Chained, outbox # <<>>,
           client' = Take(Head(outbox)), outbox' = Tail(outbox),
           UNCHANGED <<newest, prev, needs_full, saying>>
    PROVE  client'.true /\ Chained'
<1>1. PICK h : Holds(h) /\ Says(h[Len(outbox)])
    BY DEF Chained
<1>2. /\ outbox \in Seq(Message) /\ client \in Client
      /\ Len(outbox) \in Nat /\ Len(outbox) > 0
      /\ Head(outbox) \in Message /\ Head(outbox) = outbox[1]
      /\ Len(outbox') = Len(outbox) - 1
      /\ \A i \in 1..Len(outbox) - 1 : outbox'[i] = outbox[i + 1]
    BY HeadAndTail DEF StreamTypeOK, Client
<1>3. Follows(client.base, outbox[1], h[1])
    <2>1. 0 \in 0..Len(outbox) - 1
        BY <1>2
    <2> QED
        BY <1>1, <2>1 DEF Holds
<1>4. client'.true /\ client'.base = h[1]
    BY <1>2, <1>3, TakeForm
<1>5. PICK g : g = [i \in 0..Len(outbox) - 1 |-> h[i + 1]]
    OBVIOUS
<1>6. g \in [0..Len(outbox) - 1 -> Baseline] /\ g[0] = h[1]
    BY <1>1, <1>2, <1>5 DEF Holds
<1>7. \A i \in 0..Len(outbox') - 1 : Follows(g[i], outbox'[i + 1], g[i + 1])
    <2> TAKE i \in 0..Len(outbox') - 1
    <2>1. /\ i \in 0..Len(outbox) - 1 /\ i + 1 \in 0..Len(outbox) - 1
          /\ i + 1 \in 1..Len(outbox) - 1
        BY <1>2
    <2>2. Follows(h[i + 1], outbox[i + 1 + 1], h[i + 1 + 1])
        BY <1>1, <2>1 DEF Holds
    <2> QED
        BY <1>2, <1>5, <2>1, <2>2
<1>8. \A i \in 0..Len(outbox') : g[i] # Nothing => NotAfter(g[i], newest)
    <2> TAKE i \in 0..Len(outbox')
    <2>1. i \in 0..Len(outbox) - 1 /\ i + 1 \in 0..Len(outbox)
        BY <1>2
    <2> QED
        BY <1>1, <1>5, <2>1 DEF Holds
<1>9. Holds(g)'
    BY <1>2, <1>4, <1>6, <1>7, <1>8 DEF Holds
<1>10. g[Len(outbox')] = h[Len(outbox)]
    BY <1>2, <1>5
<1>11. Says(g[Len(outbox)])'
    BY <1>1, <1>10 DEF Says
<1> QED
    BY <1>4, <1>9, <1>11 DEF Chained

\* A snapshot that is skipped leaves the seat to be sent a whole one.
LEMMA ChainSkipped ==
    ASSUME StreamTypeOK, Chained, saying # <<>>, IsSnapshot(Head(saying)),
           saying' = Tail(saying), needs_full' = TRUE,
           UNCHANGED <<newest, prev, outbox, client>>
    PROVE  Chained'
<1>1. PICK h : Holds(h) /\ Says(h[Len(outbox)])
    BY DEF Chained
<1>2. /\ saying \in Seq(Message) /\ Head(saying) \in Message /\ Head(saying) = saying[1]
      /\ Len(saying) \in Nat /\ Len(saying) > 0
      /\ saying' \in Seq(Message) /\ Len(saying') = Len(saying) - 1
      /\ \A i \in 1..Len(saying) - 1 : saying'[i] = saying[i + 1]
    BY HeadAndTail DEF StreamTypeOK
<1>3. \A i \in DOMAIN saying' : ~Carries(saying'[i])
    <2> TAKE i \in DOMAIN saying'
    <2>1. i + 1 \in DOMAIN saying /\ 1 \in DOMAIN saying /\ i + 1 # 1 /\ saying'[i] = saying[i + 1]
        BY <1>2
    <2>2. Carries(saying[1])
        BY <1>2, MessageForms
    <2> QED
        BY <1>1, <2>1, <2>2 DEF Says
<1>4. Holds(h)'
    BY <1>1 DEF Holds
<1>5. Says(h[Len(outbox)])'
    BY <1>3 DEF Says
<1> QED
    BY <1>4, <1>5 DEF Chained

\* A turn that says nothing of the world, or nothing at all.
LEMMA ChainWords ==
    ASSUME StreamTypeOK, Chained, saying = <<>>,
           saying' \in Seq(Message), \A i \in DOMAIN saying' : ~Carries(saying'[i]),
           newest' \in Moment, NotAfter(newest, newest'),
           UNCHANGED <<prev, needs_full, outbox, client>>
    PROVE  Chained'
<1>1. PICK h : Holds(h) /\ Says(h[Len(outbox)])
    BY DEF Chained
<1>2. Holds(h)'
    BY <1>1, HoldsLater
<1>3. ~needs_full => h[Len(outbox)] = prev
    BY <1>1 DEF Says
<1>4. Says(h[Len(outbox)])'
    BY <1>3 DEF Says
<1> QED
    BY <1>2, <1>4 DEF Chained

\* A turn that says one state: the newest, and the baseline from here on.
LEMMA ChainSaid ==
    ASSUME StreamTypeOK, NEW h, Holds(h), UNCHANGED <<outbox, client>>,
           newest' \in Moment, NotAfter(newest, newest'), prev' = newest',
           NEW k \in DOMAIN saying',
           \A i \in DOMAIN saying' : Carries(saying'[i]) <=> i = k,
           saying'[k].to = newest',
           saying'[k].kind = "Delta" => ~needs_full' /\ Follows(h[Len(outbox)], saying'[k], newest')
    PROVE  Chained'
<1>1. Holds(h)'
    BY HoldsLater
<1>2. Says(h[Len(outbox)])'
    BY DEF Says
<1> QED
    BY <1>1, <1>2 DEF Chained

\* A snapshot of this round, cut against `prev` unless the seat needs it
\* whole, is one the client can take.
LEMMA ChainBroadcast ==
    ASSUME StreamTypeOK, Chained, saying = <<>>,
           newest' \in Moment, NotAfter(newest, newest'),
           NotAfter(prev, newest'), prev.round = newest'.round,
           NEW events \in Seq(1..MaxFrame), NEW more \in Seq(Message),
           \A i \in DOMAIN more : ~Carries(more[i]),
           Broadcast(newest', events, more),
           UNCHANGED <<needs_full, outbox, client>>
    PROVE  Chained'
<1>1. PICK h : Holds(h) /\ Says(h[Len(outbox)])
    BY DEF Chained
<1>2. /\ saying' \in Seq(Message) /\ Len(saying') = Len(more) + 1
      /\ saying'[1] \in Message /\ Carries(saying'[1]) /\ saying'[1].to = newest'
      /\ saying'[1].kind = "Delta" => ~needs_full /\ saying'[1].from = prev
      /\ \A i \in 2..Len(more) + 1 : saying'[i] = more[i - 1]
      /\ prev' = newest'
    BY BroadcastForm
<1>3. Len(more) \in Nat /\ DOMAIN saying' = 1..Len(more) + 1 /\ DOMAIN more = 1..Len(more)
    BY <1>2
<1>4. \A i \in DOMAIN saying' : Carries(saying'[i]) <=> i = 1
    <2> TAKE i \in DOMAIN saying'
    <2>1. CASE i = 1
        BY <1>2, <2>1
    <2>2. CASE i # 1
        <3>1. i \in 2..Len(more) + 1 /\ i - 1 \in DOMAIN more
            BY <1>3, <2>2
        <3> QED
            BY <1>2, <2>2, <3>1
    <2> QED
        BY <2>1, <2>2
<1>5. ~needs_full => h[Len(outbox)] = prev
    BY <1>1 DEF Says
<1>6. prev # Nothing
    BY Bounds DEF StreamTypeOK
<1>7. saying'[1].kind = "Delta" => ~needs_full' /\ Follows(h[Len(outbox)], saying'[1], newest')
    BY <1>2, <1>5, <1>6 DEF Follows
<1>8. 1 \in DOMAIN saying'
    BY <1>3
<1> QED
    BY <1>1, <1>2, <1>4, <1>7, <1>8, ChainSaid

\* A new connection has read nothing and is sent the world whole.
LEMMA ChainJoined ==
    ASSUME StreamTypeOK, Join
    PROVE  client'.true /\ Chained'
<1>1. /\ needs_full' = TRUE /\ outbox' = <<>> /\ client' = NewClient /\ newest' = newest
      /\ saying' \in {<<Welcome(newest), Lobby("Ended"), Lobby("Roster")>>,
                      <<Welcome(newest), Lobby("Roster")>>}
    BY DEF Join, roomSide
<1>2. client'.true /\ client'.base = Nothing
    BY <1>1 DEF NewClient
<1>3. PICK h : h = [i \in 0..0 |-> Nothing]
    OBVIOUS
<1>4. Holds(h)'
    <2>1. Len(outbox') = 0
        BY <1>1
    <2>2. h \in [0..0 -> Baseline] /\ h[0] = Nothing
        BY <1>3 DEF Baseline
    <2> QED
        BY <1>2, <2>1, <2>2 DEF Holds
<1>5. \A i \in DOMAIN saying' : /\ Carries(saying'[i]) <=> i = 1
                                /\ i = 1 => saying'[i] = Welcome(newest)
    <2>1. /\ newest \in Moment /\ Carries(Welcome(newest))
          /\ ~Carries(Lobby("Ended")) /\ ~Carries(Lobby("Roster"))
        BY Words DEF StreamTypeOK
    <2>2. CASE saying' = <<Welcome(newest), Lobby("Ended"), Lobby("Roster")>>
        <3>1. DOMAIN saying' = 1..3
            BY <2>2
        <3> QED
            BY <2>1, <2>2, <3>1
    <2>3. CASE saying' = <<Welcome(newest), Lobby("Roster")>>
        <3>1. DOMAIN saying' = 1..2
            BY <2>3
        <3> QED
            BY <2>1, <2>3, <3>1
    <2> QED
        BY <1>1, <2>2, <2>3
<1>6. Says(h[Len(outbox)])'
    <2>1. Welcome(newest).to = newest /\ Welcome(newest).kind = "Welcome" /\ ~IsSnapshot(Welcome(newest))
        BY Words DEF StreamTypeOK
    <2> QED
        BY <1>1, <1>5, <2>1 DEF Says
<1> QED
    BY <1>2, <1>4, <1>6 DEF Chained

\* The welcome of a round stands in for its first snapshot.
LEMMA ChainStarted ==
    ASSUME StreamTypeOK, Chained, saying = <<>>, Start
    PROVE  Chained'
<1>1. /\ newest' = [round |-> newest.round + 1, frame |-> 0]
      /\ newest.round < MaxRound
      /\ needs_full' = FALSE /\ prev' = newest'
      /\ saying' = <<Lobby("Started"), Welcome(newest')>>
      /\ UNCHANGED <<outbox, client>>
    BY DEF Start, StartBaseline
<1>2. newest' \in Moment /\ NotAfter(newest, newest')
    BY <1>1, Bounds DEF StreamTypeOK, Moment, NotAfter
<1>3. PICK h : Holds(h) /\ Says(h[Len(outbox)])
    BY DEF Chained
<1>4. DOMAIN saying' = 1..2 /\ saying'[1] = Lobby("Started") /\ saying'[2] = Welcome(newest')
    BY <1>1
<1>5. /\ ~Carries(saying'[1]) /\ Carries(saying'[2])
      /\ saying'[2].to = newest' /\ saying'[2].kind = "Welcome"
    BY <1>2, <1>4, Words
<1>6. \A i \in DOMAIN saying' : Carries(saying'[i]) <=> i = 2
    BY <1>4, <1>5
<1>7. 2 \in DOMAIN saying'
    BY <1>4
<1> QED
    BY <1>1, <1>2, <1>3, <1>5, <1>6, <1>7, ChainSaid

----------------------------------------------------------------------------
(***************************************************************************)
(* The invariant is kept.                                                  *)
(***************************************************************************)

LEMMA PrevInRoundStep ==
    ASSUME StreamTypeOK, PrevInRound, [AnyNext]_streamVars
    PROVE  PrevInRound'
<1> USE DEF PrevInRound
<1>1. CASE Receive \/ Say \/ Break \/ Join \/ Chatter \/ Disconnected \/ UNCHANGED streamVars
    BY <1>1 DEF Receive, Say, Break, Join, Chatter, Disconnected, streamVars, roomSide
<1>2. CASE Start
    <2>1. prev' = newest' /\ newest'.frame = 0
        BY <1>2 DEF Start, StartBaseline
    <2> QED
        BY <2>1
<1>3. CASE AnyTick
    <2>1. /\ newest'.round = newest.round /\ newest'.frame = newest.frame + 1
          /\ newest.frame \in Nat /\ prev.frame \in Nat
          /\ playing = "Playing" /\ newest'.frame \in Nat
        BY <1>3, FrameForm, MomentFields DEF AnyTick, Frame, StreamTypeOK
    <2>2. prev' = newest' \/ prev' = prev
        BY <1>3 DEF AnyTick, Broadcast
    <2> QED
        BY <2>1, <2>2
<1>4. CASE EndRound
    BY <1>4 DEF EndRound
<1> QED
    BY <1>1, <1>2, <1>3, <1>4 DEF AnyNext

LEMMA ChainStep ==
    ASSUME StreamInv, [AnyNext]_streamVars, link' = "open"
    PROVE  client'.true /\ Chained'
<1>0. /\ StreamTypeOK /\ PrevInRound /\ (link = "open" => client.true /\ Chained)
      /\ newest \in Moment /\ prev \in Moment /\ NotAfter(newest, newest)
    BY MomentFields DEF StreamInv, StreamTypeOK
<1>1. CASE Receive
    <2>1. /\ outbox # <<>> /\ client' = Take(Head(outbox)) /\ outbox' = Tail(outbox)
          /\ UNCHANGED <<newest, prev, needs_full, link, saying>>
        BY <1>1 DEF Receive, roomSide
    <2> QED
        BY <1>0, <2>1, ChainRead
<1>2. CASE Say
    <2>1. /\ saying # <<>> /\ saying' = Tail(saying) /\ UNCHANGED <<newest, prev, client>>
          /\ link = "open"
          /\ \/ /\ outbox' = Append(outbox, Head(saying))
                /\ needs_full' = (needs_full /\ ~IsSnapshot(Head(saying)))
             \/ /\ IsSnapshot(Head(saying)) /\ needs_full' = TRUE /\ UNCHANGED outbox
        BY <1>2 DEF Say, Queued, Full, Skip, GiveUp, roomSide
    <2>2. PICK h : Holds(h) /\ Says(h[Len(outbox)])
        BY <1>0, <2>1 DEF Chained
    <2>3. Chained'
        BY <1>0, <2>1, <2>2, ChainQueued, ChainSkipped
    <2> QED
        BY <1>0, <2>1, <2>3
<1>3. CASE Break \/ Disconnected
    BY <1>3 DEF Break, Disconnected
<1>4. CASE Join
    BY <1>0, <1>4, ChainJoined
<1>5. CASE saying = <<>> /\ Start
    <2>1. link = "open" /\ client' = client
        BY <1>5 DEF Start
    <2> QED
        BY <1>0, <1>5, <2>1, ChainStarted
<1>6. CASE saying = <<>> /\ AnyTick
    <2>1. link = "open" /\ UNCHANGED <<playing, needs_full, outbox, client>>
        BY <1>6 DEF AnyTick
    <2>2. /\ newest' \in Moment /\ newest'.round = newest.round
          /\ newest'.frame = newest.frame + 1 /\ newest'.frame \in 1..MaxFrame
          /\ eventful' \in SUBSET (1..MaxFrame) /\ playing = "Playing"
        BY <1>0, <1>6, FrameForm DEF AnyTick, Frame
    <2>3. NotAfter(newest, newest') /\ NotAfter(prev, newest') /\ prev.round = newest'.round
        BY <1>0, <2>2, MomentFields DEF PrevInRound, NotAfter
    <2>4. EventsOf(newest'.frame, eventful') \in Seq(1..MaxFrame)
        BY <2>2, EventTypes
    <2>5. <<>> \in Seq(Message) /\ \A i \in DOMAIN <<>> : ~Carries(<<>>[i])
        OBVIOUS
    <2>6. CASE Broadcast(newest', EventsOf(newest'.frame, eventful'), <<>>)
        BY <1>0, <1>6, <2>1, <2>2, <2>3, <2>4, <2>5, <2>6, ChainBroadcast
    <2>7. CASE UNCHANGED <<saying, prev>>
        BY <1>0, <1>6, <2>1, <2>2, <2>3, <2>5, <2>7, ChainWords
    <2> QED
        BY <1>6, <2>6, <2>7 DEF AnyTick
<1>7. CASE saying = <<>> /\ EndRound
    <2>1. /\ link = "open" /\ UNCHANGED <<newest, needs_full, outbox, client>>
          /\ playing = "Playing" /\ ((decided /\ EndDecided) \/ EndLimit)
        BY <1>7 DEF EndRound
    <2>2. NotAfter(prev, newest) /\ prev.round = newest.round
        BY <1>0, <2>1 DEF PrevInRound, NotAfter
    <2>3. CASE \E events \in Seq(1..MaxFrame) : Broadcast(newest, events, EndWords)
        <3>1. PICK events \in Seq(1..MaxFrame) : Broadcast(newest', events, EndWords)
            BY <2>1, <2>3
        <3> QED
            BY <1>0, <1>7, <2>1, <2>2, <3>1, Words, ChainBroadcast
    <2>4. CASE saying' = EndWords /\ UNCHANGED <<prev, banked>>
        BY <1>0, <1>7, <2>1, <2>4, Words, ChainWords
    <2> QED
        BY <1>0, <2>1, <2>3, <2>4, LastWordsForm
<1>8. CASE saying = <<>> /\ Chatter
    <2>1. saying' = <<Lobby("Roster")>> /\ UNCHANGED <<newest, prev, needs_full, link, outbox, client>>
        BY <1>8 DEF Chatter, roomSide
    <2>2. saying' \in Seq(Message) /\ \A i \in DOMAIN saying' : ~Carries(saying'[i])
        BY <2>1, Words
    <2> QED
        BY <1>0, <1>8, <2>1, <2>2, ChainWords
<1>9. CASE UNCHANGED streamVars
    BY <1>0, <1>9 DEF streamVars, roomSide, Chained, Holds, Says
<1> QED
    BY <1>1, <1>2, <1>3, <1>4, <1>5, <1>6, <1>7, <1>8, <1>9 DEF AnyNext

LEMMA StreamInvInit == StreamInit => StreamInv
<1> SUFFICES ASSUME StreamInit PROVE StreamInv
    OBVIOUS
<1>1. PrevInRound /\ link # "open"
    BY DEF StreamInit, PrevInRound
<1> QED
    BY <1>1, StreamTypeInit DEF StreamInv

LEMMA StreamInvStep == StreamInv /\ [AnyNext]_streamVars => StreamInv'
<1> SUFFICES ASSUME StreamInv, [AnyNext]_streamVars PROVE StreamInv'
    OBVIOUS
<1>1. StreamTypeOK /\ PrevInRound
    BY DEF StreamInv
<1> QED
    BY <1>1, StreamTypeStep, PrevInRoundStep, ChainStep DEF StreamInv

\* The invariant holds of every behaviour of the stream.
THEOREM StreamInvariant == StreamSpec => []StreamInv
<1>1. StreamInv /\ [StreamNext]_streamVars => StreamInv'
    BY NextIsAny, StreamInvStep
<1> QED
    BY <1>1, StreamInvInit, PTL DEF StreamSpec

\* The outbox never holds more than it has room for, and everything said is
\* a message of the protocol.
THEOREM StreamTypeCorrect == StreamSpec => []StreamTypeOK
<1>1. StreamInv => StreamTypeOK
    BY DEF StreamInv
<1> QED
    BY StreamInvariant, <1>1, PTL

\* A client the room takes for in step holds, once it has read everything,
\* the snapshot the next delta is cut against.
THEOREM ClientsInStep == StreamSpec => []InStep
<1>1. StreamInv => InStep
    <2> SUFFICES ASSUME StreamInv, link = "open", ~needs_full, saying = <<>>, outbox = <<>>
                 PROVE  client.base = prev
        BY DEF InStep
    <2>1. PICK h : Holds(h) /\ Says(h[Len(outbox)])
        BY DEF StreamInv, Chained
    <2>2. Len(outbox) = 0 /\ h[0] = client.base
        BY <2>1 DEF Holds
    <2> QED
        BY <2>1, <2>2 DEF Says
<1> QED
    BY StreamInvariant, <1>1, PTL

----------------------------------------------------------------------------
(***************************************************************************)
(* The stream implements the feed.                                         *)
(***************************************************************************)

LEMMA FeedInitial == StreamInit => Feed!FeedInit
BY DEF StreamInit, Origin, Feed!FeedInit, Shown

\* While the connection is open the picture is what the client holds; once
\* it is not there is none.
LEMMA ShownForm ==
    ASSUME StreamInv
    PROVE  Shown = IF link = "open" THEN client.base ELSE Nothing
BY DEF StreamInv, Shown

\* What is read next is no earlier than what is held, nor later than the
\* world.
LEMMA ReadInOrder ==
    ASSUME StreamInv, link = "open", Receive
    PROVE  \/ client'.base = client.base
           \/ /\ client'.base \in Moment
              /\ NotAfter(client'.base, newest)
              /\ client.base # Nothing => NotAfter(client.base, client'.base)
<1>1. PICK h : Holds(h) /\ Says(h[Len(outbox)])
    BY DEF StreamInv, Chained
<1>2. /\ outbox \in Seq(Message) /\ outbox # <<>> /\ client \in Client /\ client.true
      /\ client' = Take(Head(outbox))
      /\ Len(outbox) \in Nat /\ Len(outbox) > 0
      /\ Head(outbox) \in Message /\ Head(outbox) = outbox[1]
    BY HeadAndTail DEF Receive, StreamInv, StreamTypeOK, Client
<1>3. 0 \in 0..Len(outbox) - 1 /\ 1 \in 0..Len(outbox)
    BY <1>2
<1>4. /\ Follows(client.base, outbox[1], h[1])
      /\ h[1] # Nothing => NotAfter(h[1], newest)
    BY <1>1, <1>3 DEF Holds
<1>5. client'.base = h[1]
    BY <1>2, <1>4, TakeForm
<1>6. CASE Carries(outbox[1])
    <2>1. h[1] = outbox[1].to /\ outbox[1].to \in Moment /\ h[1] # Nothing
        BY <1>2, <1>4, <1>6, MessageForms, MomentFields DEF Follows
    <2> QED
        BY <1>4, <1>5, <1>6, <2>1 DEF Follows
<1>7. CASE ~Carries(outbox[1])
    BY <1>4, <1>5, <1>7 DEF Follows
<1> QED
    BY <1>6, <1>7

LEMMA FeedStep ==
    StreamInv /\ StreamInv' /\ [AnyNext]_streamVars => [Feed!FeedNext]_(Feed!feedVars)
<1> SUFFICES ASSUME StreamInv, StreamInv', [AnyNext]_streamVars
             PROVE  [Feed!FeedNext]_(Feed!feedVars)
    OBVIOUS
<1>1. /\ Shown = IF link = "open" THEN client.base ELSE Nothing
      /\ Shown' = IF link' = "open" THEN client'.base ELSE Nothing
    BY ShownForm DEF StreamInv, Shown
<1>2. StreamTypeOK /\ newest \in Moment
    BY DEF StreamInv, StreamTypeOK
<1> USE DEF Feed!FeedNext, Feed!feedVars, Feed!Advance, Feed!Show, Feed!Lose
<1>3. CASE newest' = newest /\ Shown' = Nothing
    BY <1>3
<1>4. CASE newest' = newest /\ Shown' = Shown
    BY <1>4
<1>5. CASE Receive
    <2>1. newest' = newest /\ link' = link
        BY <1>5 DEF Receive, roomSide
    <2>2. CASE link # "open"
        BY <1>1, <1>3, <2>1, <2>2
    <2>3. CASE link = "open"
        <3>1. CASE client'.base = client.base
            BY <1>1, <1>4, <2>1, <2>3, <3>1
        <3>2. CASE /\ client'.base \in Moment
                   /\ NotAfter(client'.base, newest)
                   /\ client.base # Nothing => NotAfter(client.base, client'.base)
            <4>1. client'.base \in Feed!Moments
                BY <3>2, Bounds DEF Moment, Feed!Moments
            <4> QED
                BY <1>1, <2>1, <2>3, <3>2, <4>1 DEF NotAfter, Feed!NotAfter
        <3> QED
            BY <1>5, <2>3, <3>1, <3>2, ReadInOrder
    <2> QED
        BY <2>2, <2>3
<1>6. CASE Say
    <2>1. newest' = newest /\ client' = client /\ (link' = link \/ link' = "closing")
        BY <1>6 DEF Say, Skip, GiveUp, roomSide
    <2> QED
        BY <1>1, <1>3, <1>4, <2>1
<1>7. CASE Break \/ Disconnected
    BY <1>1, <1>3, <1>7 DEF Break, Disconnected, roomSide
<1>8. CASE Join
    <2>1. newest' = newest /\ link' = "open" /\ client'.base = Nothing
        BY <1>8 DEF Join, roomSide, NewClient
    <2> QED
        BY <1>1, <1>3, <2>1
<1>9. CASE Start
    <2>1. newest' = [round |-> newest.round + 1, frame |-> 0] /\ UNCHANGED <<link, client>>
        BY <1>9 DEF Start
    <2> QED
        BY <1>1, <2>1
<1>10. CASE AnyTick
    BY <1>1, <1>10 DEF AnyTick, Frame
<1>11. CASE EndRound \/ Chatter \/ UNCHANGED streamVars
    <2>1. newest' = newest /\ UNCHANGED <<link, client>>
        BY <1>11 DEF EndRound, Chatter, roomSide, streamVars
    <2> QED
        BY <1>1, <1>4, <2>1
<1> QED
    BY <1>5, <1>6, <1>7, <1>8, <1>9, <1>10, <1>11 DEF AnyNext

\* While its connection has not been given up, the client only ever holds
\* states the world was in, in order: the stream implements the feed.
THEOREM StreamImplementsFeed == StreamSpec => Feeds
<1>1. StreamInv /\ StreamInv' /\ [StreamNext]_streamVars => [Feed!FeedNext]_(Feed!feedVars)
    BY NextIsAny, FeedStep
<1>2. StreamSpec => Feed!FeedSpec
    BY <1>1, FeedInitial, StreamInvariant, PTL DEF StreamSpec, Feed!FeedSpec
<1> QED
    BY <1>2 DEF Feeds
----------------------------------------------------------------------------
(***************************************************************************)
(* The picture a client makes of what it is sent.                          *)
(***************************************************************************)

LEMMA MCIsAny == [MCNext]_<<streamVars, every, missed, picture>> => [AnyNext]_streamVars
BY NextIsAny, SparseIsAny DEF MCNext

\* Who moves the client's baseline: it reads a message, or starts over.
LEMMA ClientMoves ==
    ASSUME AnyNext
    PROVE  Receive \/ client' = NewClient \/ client' = client
BY DEF AnyNext, Say, Break, Join, Start, AnyTick, EndRound, Chatter, Disconnected

\* What is read is made into the world it shows.
LEMMA PictureMade ==
    ASSUME StreamTypeOK, PictureTrue, NEW m \in Message, client' = Take(m), picture' = Pictured(m)
    PROVE  PictureTrue'
<1> SUFFICES ASSUME client'.base # Nothing, client'.true
             PROVE  picture' = World[client'.base]
    BY DEF PictureTrue
<1>0. client \in Client
    BY DEF StreamTypeOK, Client
<1>1. CASE m.kind = "Welcome"
    BY <1>1 DEF Take, TakeWelcome, Pictured
<1>2. CASE m.kind = "Snapshot"
    BY <1>0, <1>2 DEF Take, TakeSnapshot, Pictured, Client
<1>3. CASE m.kind = "Delta"
    <2>1. client' = TakeDelta(m) /\ m.from \in Moment /\ m.to \in Moment
        BY <1>3, MessageForms DEF Take, IsSnapshot, Carries
    <2>2. CASE client.base # Nothing /\ client.base.frame < m.to.frame
        <3>1. client'.base = m.to /\ client'.true = (client.true /\ client.base = m.from)
            BY <1>0, <2>1, <2>2 DEF TakeDelta, Client
        <3>2. picture = World[m.from]
            BY <2>2, <3>1 DEF PictureTrue
        <3>3. client'.base # client.base
            <4>1. client.base \in Moment
                BY <1>0, <2>2 DEF Client, Baseline
            <4> QED
                BY <2>1, <2>2, <3>1, <4>1, MomentFields
        <3>4. picture' = Applied(World[m.from], Cutting(World[m.from], World[m.to]))
            BY <1>3, <3>2, <3>3 DEF Pictured
        <3> QED
            BY <2>1, <3>1, <3>4, WorldAssumption, DeltaRoundTrip
    <2>3. CASE ~(client.base # Nothing /\ client.base.frame < m.to.frame)
        <3>1. client' = client
            BY <2>1, <2>3 DEF TakeDelta
        <3> QED
            BY <1>3, <3>1 DEF Pictured, PictureTrue
    <2> QED
        BY <2>2, <2>3
<1>4. CASE m.kind \notin {"Welcome", "Snapshot", "Delta"}
    <2>1. client' = client
        BY <1>4 DEF Take
    <2> QED
        BY <1>4, <2>1 DEF Pictured, PictureTrue
<1> QED
    BY <1>1, <1>2, <1>3, <1>4

\* Whatever the world is made of and however it goes on, a client whose
\* baseline is the one its deltas were cut from shows the world as it was
\* (src/net/delta.rs, apply_delta, and src/net/client.rs, take).
THEOREM PicturesAreTrue == MCSpec => []PictureTrue
<1>1. MCInit => StreamTypeOK /\ PictureTrue
    <2>1. NewClient.base = Nothing
        BY DEF NewClient
    <2> QED
        BY <2>1, StreamTypeInit DEF MCInit, StreamInit, PictureTrue
<1>2. StreamTypeOK /\ PictureTrue /\ [MCNext]_<<streamVars, every, missed, picture>>
          => StreamTypeOK' /\ PictureTrue'
    <2> SUFFICES ASSUME StreamTypeOK, PictureTrue, [MCNext]_<<streamVars, every, missed, picture>>
                 PROVE  StreamTypeOK' /\ PictureTrue'
        OBVIOUS
    <2>1. StreamTypeOK'
        BY MCIsAny, StreamTypeStep
    <2>2. CASE MCNext /\ Receive
        <3>1. outbox # <<>> /\ client' = Take(Head(outbox)) /\ outbox \in Seq(Message)
            BY <2>2 DEF Receive, StreamTypeOK
        <3>2. Head(outbox) \in Message
            BY <3>1, HeadAndTail
        <3>3. picture' = Pictured(Head(outbox)) \/ client' = NewClient
            BY <2>2 DEF MCNext, Picture
        <3>4. CASE client' = NewClient
            BY <2>1, <3>4 DEF PictureTrue, NewClient
        <3> QED
            BY <2>1, <3>1, <3>2, <3>3, <3>4, PictureMade
    <2>3. CASE MCNext /\ client' = NewClient
        BY <2>1, <2>3 DEF PictureTrue, NewClient
    <2>4. CASE MCNext /\ client' = client /\ client' # NewClient /\ ~Receive
        BY <2>1, <2>4 DEF MCNext, Picture, PictureTrue
    <2>5. CASE UNCHANGED <<streamVars, every, missed, picture>>
        BY <2>1, <2>5 DEF streamVars, PictureTrue
    <2>6. MCNext => AnyNext
        BY NextIsAny, SparseIsAny DEF MCNext
    <2> QED
        BY <2>2, <2>3, <2>4, <2>5, <2>6, ClientMoves
<1> QED
    BY <1>1, <1>2, PTL DEF MCSpec

----------------------------------------------------------------------------
(***************************************************************************)
(* What a client hears.  The invariant follows a client's view - its       *)
(* baseline, since when it listens, and what it has heard - through the    *)
(* outbox as the chain does the baseline, to where it will be once all is  *)
(* read: of this round, and short of nothing but what is banked or still   *)
(* to be said.                                                             *)
(***************************************************************************)

Views == [base : Baseline, since : 0..MaxFrame, heard : SUBSET (1..MaxFrame)]

View(c) == [base |-> c.base, since |-> c.since, heard |-> Range(c.heard)]

\* A snapshot is of the round of the baseline it meets, and no earlier.
InTurn(b, m) == IsSnapshot(m) => b # Nothing /\ b.round = m.to.round /\ b.frame <= m.to.frame

Hearing(v, m) ==
    CASE m.kind = "Welcome" -> [base |-> m.to, since |-> m.to.frame, heard |-> {}]
      [] IsSnapshot(m) ->
            [base |-> m.to, since |-> v.since,
             heard |-> IF v.base.frame = m.to.frame THEN v.heard ELSE v.heard \cup Range(m.events)]
      [] OTHER -> v

\* The client's view after each message of the outbox.
Hears(g) ==
    /\ g \in [0..Len(outbox) -> Views]
    /\ g[0] = View(client)
    /\ \A i \in 0..Len(outbox) - 1 : InTurn(g[i].base, outbox[i + 1]) /\ g[i + 1] = Hearing(g[i], outbox[i + 1])

InRound(v) == v.base # Nothing /\ v.base.round = newest.round /\ v.base.frame <= newest.frame

Missing(v) == {f \in eventful : f > v.since} \ v.heard

\* What a view is short of is banked, and comes with a later snapshot.
Complete(v) ==
    /\ Missing(v) \subseteq IF playing = "Playing" THEN Range(banked) ELSE {}
    /\ \A f \in Missing(v) : f > v.base.frame

\* Once the outbox is read, unless a welcome is on its way, the view is of
\* this round; and complete, or to be completed by the snapshot to be said.
Told(v) ==
    /\ (\A i \in DOMAIN saying : saying[i].kind # "Welcome") => InRound(v)
    /\ ~missed => /\ (\A i \in DOMAIN saying : ~Carries(saying[i])) => Complete(v)
                  /\ \A i \in DOMAIN saying : IsSnapshot(saying[i]) => Complete(Hearing(v, saying[i]))

Listening == \E g : Hears(g) /\ Told(g[Len(outbox)])

\* What happened this round happened by now.
Happened == \A f \in eventful : f <= newest.frame

HearingInv ==
    /\ StreamInv
    /\ Happened
    /\ link = "open" => Listening

\* What was heard, as a set.
LEMMA RangeForms ==
    ASSUME NEW S, NEW a \in Seq(S), NEW b \in Seq(S)
    PROVE  /\ Range(a) \subseteq S
           /\ Range(a \o b) = Range(a) \cup Range(b)
           /\ Range(<<>>) = {}
<1>1. Range(a) \subseteq S /\ Range(<<>>) = {}
    BY DEF Range
<1>2. Range(a \o b) \subseteq Range(a) \cup Range(b)
    BY DEF Range
<1>3. Range(a) \subseteq Range(a \o b)
    <2> SUFFICES ASSUME NEW i \in DOMAIN a PROVE a[i] \in Range(a \o b)
        BY DEF Range
    <2>1. i \in DOMAIN (a \o b) /\ (a \o b)[i] = a[i]
        OBVIOUS
    <2> QED
        BY <2>1 DEF Range
<1>4. Range(b) \subseteq Range(a \o b)
    <2> SUFFICES ASSUME NEW i \in DOMAIN b PROVE b[i] \in Range(a \o b)
        BY DEF Range
    <2>1. Len(a) + i \in DOMAIN (a \o b) /\ (a \o b)[Len(a) + i] = b[i]
        OBVIOUS
    <2> QED
        BY <2>1 DEF Range
<1> QED
    BY <1>1, <1>2, <1>3, <1>4

LEMMA RangeOfEvents ==
    ASSUME NEW f, NEW happened
    PROVE  Range(EventsOf(f, happened)) = IF f \in happened THEN {f} ELSE {}
<1>1. Range(<<f>>) = {f} /\ Range(<<>>) = {}
    BY DEF Range
<1> QED
    BY <1>1 DEF EventsOf

LEMMA ViewForm ==
    ASSUME NEW c \in Client
    PROVE  /\ View(c) \in Views
           /\ View(c).base = c.base /\ View(c).since = c.since /\ View(c).heard = Range(c.heard)
<1>1. Range(c.heard) \subseteq 1..MaxFrame
    BY RangeForms DEF Client
<1> QED
    BY <1>1 DEF View, Views, Client

\* What a view becomes of each kind of message.
LEMMA HearingForm ==
    ASSUME NEW v \in Views, NEW m \in Message
    PROVE  /\ Hearing(v, m) \in Views
           /\ ~Carries(m) => Hearing(v, m) = v
           /\ m.kind = "Welcome" =>
                /\ Hearing(v, m).base = m.to /\ Hearing(v, m).since = m.to.frame
                /\ Hearing(v, m).heard = {}
           /\ IsSnapshot(m) =>
                /\ Hearing(v, m).base = m.to /\ Hearing(v, m).since = v.since
                /\ Hearing(v, m).heard = IF v.base.frame = m.to.frame THEN v.heard
                                                                      ELSE v.heard \cup Range(m.events)
<1>1. CASE ~Carries(m)
    <2>1. Hearing(v, m) = v
        BY <1>1 DEF Hearing, Carries, IsSnapshot
    <2> QED
        BY <1>1, <2>1, MessageForms DEF Carries
<1>2. CASE m.kind = "Welcome"
    <2>1. Hearing(v, m) = [base |-> m.to, since |-> m.to.frame, heard |-> {}] /\ ~IsSnapshot(m)
        BY <1>2 DEF Hearing, IsSnapshot
    <2>2. m.to \in Moment /\ m.to.frame \in 0..MaxFrame
        BY <1>2, MessageForms DEF Carries, Moment
    <2> QED
        BY <1>2, <2>1, <2>2 DEF Views, Baseline, Carries
<1>3. CASE IsSnapshot(m)
    <2> DEFINE h == IF v.base.frame = m.to.frame THEN v.heard ELSE v.heard \cup Range(m.events)
    <2>1. Hearing(v, m) = [base |-> m.to, since |-> v.since, heard |-> h] /\ m.kind # "Welcome" /\ Carries(m)
        BY <1>3 DEF Hearing, IsSnapshot, Carries
    <2>2. m.to \in Moment /\ Range(m.events) \subseteq 1..MaxFrame
        BY <1>3, MessageForms, RangeForms
    <2>3. h \in SUBSET (1..MaxFrame)
        BY <2>2 DEF Views
    <2> HIDE DEF h
    <2>4. Hearing(v, m) \in Views
        BY <2>1, <2>2, <2>3 DEF Views, Baseline
    <2>5. /\ Hearing(v, m).base = m.to /\ Hearing(v, m).since = v.since
          /\ Hearing(v, m).heard = h
        BY <2>1
    <2> QED
        BY <2>1, <2>4, <2>5 DEF h
<1> QED
    BY <1>1, <1>2, <1>3, MessageForms

\* A client that is read to in turn hears what the view says it does.
LEMMA Heard ==
    ASSUME NEW m \in Message, client \in Client, InTurn(client.base, m)
    PROVE  View(Take(m)) = Hearing(View(client), m)
<1> DEFINE v == View(client)
<1>0. /\ v \in Views /\ v.base = client.base /\ v.since = client.since /\ v.heard = Range(client.heard)
      /\ v = [base |-> client.base, since |-> client.since, heard |-> Range(client.heard)]
    BY ViewForm DEF View
<1> HIDE DEF v
<1>1. CASE ~Carries(m)
    <2>1. Take(m) = client
        BY <1>1 DEF Take, Carries
    <2> QED
        BY <1>0, <1>1, <2>1, HearingForm DEF v
<1>2. CASE m.kind = "Welcome"
    <2>1. Take(m) = [base |-> m.to, true |-> TRUE, since |-> m.to.frame, heard |-> <<>>]
        BY <1>2 DEF Take, TakeWelcome
    <2>2. Range(<<>>) = {}
        BY DEF Range
    <2>3. Hearing(v, m) = [base |-> m.to, since |-> m.to.frame, heard |-> {}]
        BY <1>2 DEF Hearing, IsSnapshot
    <2> QED
        BY <2>1, <2>2, <2>3 DEF View, v
<1>3. CASE IsSnapshot(m)
    <2>1. /\ client.base \in Moment /\ m.to \in Moment /\ client.base.round = m.to.round
          /\ client.base.frame <= m.to.frame /\ m.events \in Seq(1..MaxFrame)
          /\ client.heard \in Seq(1..MaxFrame) /\ client.base # Nothing
        BY <1>3, MessageForms DEF InTurn, Client, Baseline
    <2>2. client.base.frame \in Nat /\ m.to.frame \in Nat /\ (client.base.frame = m.to.frame => client.base = m.to)
        BY <2>1, MomentFields
    <2>3. Range(client.heard \o m.events) = Range(client.heard) \cup Range(m.events)
        BY <2>1, RangeForms
    <2>4. Take(m).base = m.to /\ Take(m).since = client.since
          /\ Take(m).heard = IF client.base.frame = m.to.frame THEN client.heard ELSE client.heard \o m.events
        <3>1. CASE m.kind = "Snapshot"
            BY <2>1, <3>1 DEF Take, TakeSnapshot, Client
        <3>2. CASE m.kind = "Delta"
            <4>1. Take(m) = TakeDelta(m)
                BY <3>2 DEF Take
            <4>2. CASE client.base.frame = m.to.frame
                <5>1. TakeDelta(m) = client
                    BY <2>2, <4>2 DEF TakeDelta
                <5> QED
                    BY <2>2, <4>1, <4>2, <5>1
            <4>3. CASE client.base.frame # m.to.frame
                <5>1. client.base.frame < m.to.frame
                    BY <2>1, <2>2, <4>3
                <5> QED
                    BY <2>1, <4>1, <4>3, <5>1 DEF TakeDelta, Client
            <4> QED
                BY <4>2, <4>3
        <3> QED
            BY <1>3, <3>1, <3>2 DEF IsSnapshot
    <2>5. Hearing(v, m) = [base |-> m.to, since |-> v.since,
                           heard |-> IF v.base.frame = m.to.frame THEN v.heard ELSE v.heard \cup Range(m.events)]
        BY <1>3 DEF Hearing, IsSnapshot
    <2>6. Range(Take(m).heard) = IF v.base.frame = m.to.frame THEN v.heard ELSE v.heard \cup Range(m.events)
        BY <1>0, <2>3, <2>4
    <2> QED
        BY <1>0, <2>4, <2>5, <2>6 DEF View, v
<1> QED
    BY <1>1, <1>2, <1>3, MessageForms

\* The turn says one state of the world at most, and that is the newest.
LEMMA OneCarrier ==
    ASSUME StreamInv, link = "open"
    PROVE  /\ \A i, j \in DOMAIN saying : Carries(saying[i]) /\ Carries(saying[j]) => i = j
           /\ \A i \in DOMAIN saying : Carries(saying[i]) => saying[i].to = newest
BY DEF StreamInv, Chained, Says

\* A message the outbox takes carries the view on.
LEMMA HearsQueued ==
    ASSUME StreamTypeOK, NEW g, Hears(g), NEW m \in Message, InTurn(g[Len(outbox)].base, m),
           outbox' = Append(outbox, m), client' = client
    PROVE  \E k : Hears(k)' /\ k[Len(outbox')] = Hearing(g[Len(outbox)], m)
<1> DEFINE L == Len(outbox)
           w == Hearing(g[L], m)
<1>1. L \in Nat /\ outbox \in Seq(Message) /\ g[L] \in Views
    <2>1. L \in Nat /\ outbox \in Seq(Message)
        BY DEF StreamTypeOK
    <2> QED
        BY <2>1 DEF Hears
<1>2. w \in Views
    BY <1>1, HearingForm
<1>3. /\ Len(outbox') = L + 1
      /\ \A i \in 1..L : outbox'[i] = outbox[i]
      /\ outbox'[L + 1] = m
    BY <1>1, Appended
<1>4. PICK k : k = [i \in 0..L + 1 |-> IF i = L + 1 THEN w ELSE g[i]]
    OBVIOUS
<1>5. k[L + 1] = w /\ \A i \in 0..L : k[i] = g[i]
    BY <1>1, <1>4
<1>6. k \in [0..L + 1 -> Views] /\ k[0] = View(client)
    BY <1>1, <1>2, <1>4, <1>5 DEF Hears
<1>7. ASSUME NEW i \in 0..L
      PROVE  InTurn(k[i].base, outbox'[i + 1]) /\ k[i + 1] = Hearing(k[i], outbox'[i + 1])
    <2>1. CASE i = L
        BY <1>1, <1>3, <1>5, <2>1
    <2>2. CASE i # L
        <3>1. i \in 0..L - 1 /\ i + 1 \in 0..L /\ i + 1 \in 1..L /\ i \in 0..L
            BY <1>1, <2>2
        <3>2. InTurn(g[i].base, outbox[i + 1]) /\ g[i + 1] = Hearing(g[i], outbox[i + 1])
            BY <3>1 DEF Hears
        <3> QED
            BY <1>3, <1>5, <3>1, <3>2
    <2> QED
        BY <2>1, <2>2
<1>8. Len(outbox') - 1 = L
    BY <1>1, <1>3
<1> HIDE DEF w, L
<1>9. Hears(k)'
    BY <1>3, <1>6, <1>7, <1>8 DEF Hears
<1> QED
    BY <1>3, <1>5, <1>9 DEF w, L

\* The oldest message read is the view's first step.
LEMMA HearsRead ==
    ASSUME StreamTypeOK, NEW g, Hears(g), outbox # <<>>,
           client' = Take(Head(outbox)), outbox' = Tail(outbox)
    PROVE  \E k : Hears(k)' /\ k[Len(outbox')] = g[Len(outbox)]
<1>1. /\ client \in Client /\ outbox \in Seq(Message)
      /\ Len(outbox) \in Nat /\ Len(outbox) > 0
      /\ Head(outbox) \in Message /\ Head(outbox) = outbox[1]
      /\ Len(outbox') = Len(outbox) - 1
      /\ \A i \in 1..Len(outbox) - 1 : outbox'[i] = outbox[i + 1]
    BY HeadAndTail DEF StreamTypeOK, Client
<1>2. InTurn(client.base, outbox[1]) /\ g[1] = Hearing(View(client), outbox[1])
    <2>1. 0 \in 0..Len(outbox) - 1 /\ View(client).base = client.base
        BY <1>1, ViewForm
    <2> QED
        BY <2>1 DEF Hears
<1>3. View(client') = g[1]
    BY <1>1, <1>2, Heard
<1>4. PICK k : k = [i \in 0..Len(outbox) - 1 |-> g[i + 1]]
    OBVIOUS
<1>5. k \in [0..Len(outbox) - 1 -> Views] /\ k[0] = g[1]
    BY <1>1, <1>4 DEF Hears
<1>6. ASSUME NEW i \in 0..Len(outbox') - 1
      PROVE  InTurn(k[i].base, outbox'[i + 1]) /\ k[i + 1] = Hearing(k[i], outbox'[i + 1])
    <2>1. /\ i \in 0..Len(outbox) - 1 /\ i + 1 \in 0..Len(outbox) - 1
          /\ i + 1 \in 1..Len(outbox) - 1
        BY <1>1
    <2>2. InTurn(g[i + 1].base, outbox[i + 1 + 1]) /\ g[i + 1 + 1] = Hearing(g[i + 1], outbox[i + 1 + 1])
        BY <2>1 DEF Hears
    <2> QED
        BY <1>1, <1>4, <2>1, <2>2
<1>7. Hears(k)'
    BY <1>1, <1>3, <1>5, <1>6 DEF Hears
<1>8. k[Len(outbox')] = g[Len(outbox)]
    BY <1>1, <1>4
<1> QED
    BY <1>7, <1>8

\* What the view will be, its frames and its bounds.
LEMMA HearsEnd ==
    ASSUME StreamTypeOK, NEW g, Hears(g)
    PROVE  /\ Len(outbox) \in Nat /\ g[Len(outbox)] \in Views
           /\ InRound(g[Len(outbox)]) => g[Len(outbox)].base \in Moment
           /\ g[Len(outbox)].since \in Nat
<1>1. Len(outbox) \in Nat
    BY DEF StreamTypeOK
<1>2. g[Len(outbox)] \in Views
    BY <1>1 DEF Hears
<1> QED
    BY <1>1, <1>2 DEF Views, InRound, Baseline

\* What is said is in turn, and the view is told as much as before.
LEMMA ToldQueued ==
    ASSUME StreamInv, Happened, link = "open", NEW v \in Views, Told(v),
           saying # <<>>, saying' = Tail(saying), missed => missed',
           UNCHANGED <<playing, newest, eventful, banked>>,
           NEW w, w = Hearing(v, Head(saying))
    PROVE  InTurn(v.base, Head(saying)) /\ Told(w)'
<1> DEFINE m == Head(saying)
<1>0. saying \in Seq(Message) /\ newest \in Moment /\ eventful \in SUBSET (1..MaxFrame)
    BY DEF StreamInv, StreamTypeOK
<1>1. /\ m \in Message /\ m = saying[1] /\ Len(saying) \in Nat /\ Len(saying) > 0
      /\ saying' \in Seq(Message) /\ Len(saying') = Len(saying) - 1
      /\ \A i \in 1..Len(saying) - 1 : saying'[i] = saying[i + 1]
    BY <1>0, HeadAndTail
<1>2. /\ DOMAIN saying' = 1..Len(saying) - 1 /\ DOMAIN saying = 1..Len(saying)
      /\ 1 \in DOMAIN saying
    BY <1>0, <1>1
<1>3. /\ \A i \in DOMAIN saying' : i + 1 \in DOMAIN saying /\ saying'[i] = saying[i + 1] /\ i + 1 # 1
      /\ \A i \in DOMAIN saying : i = 1 \/ (i - 1 \in DOMAIN saying' /\ saying'[i - 1] = saying[i])
    BY <1>1, <1>2
<1>4. Carries(m) => /\ m.to = newest
                    /\ \A i \in DOMAIN saying' : ~Carries(saying'[i])
                    /\ \A i \in DOMAIN saying : Carries(saying[i]) => saying[i] = m
    BY <1>1, <1>2, <1>3, OneCarrier
<1>5. \A i \in DOMAIN saying' : /\ saying'[i].kind = "Welcome" => Carries(saying'[i])
                                /\ IsSnapshot(saying'[i]) => Carries(saying'[i])
    BY DEF Carries, IsSnapshot
<1>6. newest.frame \in Nat
    BY <1>0, MomentFields
<1>h. w = Hearing(v, m) /\ m \in Message
    BY <1>1
<1>7. CASE ~Carries(m)
    <2>1. w = v /\ ~IsSnapshot(m) /\ m.kind # "Welcome"
        BY <1>1, <1>7, HearingForm DEF Carries, IsSnapshot
    <2>2. (\A i \in DOMAIN saying' : saying'[i].kind # "Welcome")
            => \A i \in DOMAIN saying : saying[i].kind # "Welcome"
        BY <1>1, <1>3, <2>1
    <2>3. (\A i \in DOMAIN saying' : ~Carries(saying'[i])) => \A i \in DOMAIN saying : ~Carries(saying[i])
        BY <1>1, <1>3, <1>7
    <2>4. InTurn(v.base, m)
        BY <2>1 DEF InTurn
    <2>5. (\A i \in DOMAIN saying' : saying'[i].kind # "Welcome") => InRound(w)'
        BY <2>1, <2>2 DEF Told, InRound
    <2>6. ~missed' => ((\A i \in DOMAIN saying' : ~Carries(saying'[i])) => Complete(w)')
        BY <2>1, <2>3 DEF Told, Complete, Missing
    <2>7. ~missed' => \A i \in DOMAIN saying' : IsSnapshot(saying'[i]) => Complete(Hearing(w, saying'[i]))
        BY <1>3, <2>1 DEF Told
    <2> QED
        BY <2>4, <2>5, <2>6, <2>7 DEF Told, Complete, Missing
<1>8. CASE m.kind = "Welcome"
    <2>1. Carries(m) /\ ~IsSnapshot(m) /\ InTurn(v.base, m)
        BY <1>8 DEF Carries, IsSnapshot, InTurn
    <2>0. m.to = newest
        BY <1>4, <2>1
    <2>2. w.base = newest /\ w.since = newest.frame
        <3> HIDE DEF m
        <3> QED
            BY <1>h, <1>8, <2>0, HearingForm
    <2>3. InRound(w)' /\ Missing(w)' = {}
        <3>1. \A f \in eventful : ~(f > newest.frame)
            BY <1>0, <1>6 DEF Happened
        <3>2. newest # Nothing
            BY <1>0, MomentFields
        <3> QED
            BY <1>6, <2>2, <3>1, <3>2 DEF InRound, Missing
    <2>4. Complete(w)'
        BY <2>3 DEF Complete
    <2> QED
        BY <1>4, <1>5, <2>1, <2>3, <2>4 DEF Told
<1>9. CASE IsSnapshot(m)
    <2>1. Carries(m) /\ m.kind # "Welcome"
        BY <1>9 DEF Carries, IsSnapshot
    <2>2. \A i \in DOMAIN saying : saying[i].kind # "Welcome"
        BY <1>4, <2>1 DEF Carries
    <2>3. InRound(v)
        BY <2>2 DEF Told
    <2>4. InTurn(v.base, m)
        BY <1>4, <2>1, <2>3 DEF InRound, InTurn
    <2>a. m.to = newest
        BY <1>4, <2>1
    <2>5. w.base = newest
        <3> HIDE DEF m
        <3> QED
            BY <1>h, <1>9, <2>a, HearingForm
    <2>6. InRound(w)'
        BY <1>0, <1>6, <2>5, MomentFields DEF InRound
    <2>7. ~missed => Complete(w)
        BY <1>1, <1>2, <1>9 DEF Told
    <2>8. ~missed' => Complete(w)'
        BY <2>7 DEF Complete, Missing
    <2> QED
        BY <1>4, <1>5, <2>1, <2>4, <2>6, <2>8 DEF Told
<1> QED
    BY <1>1, <1>7, <1>8, <1>9, MessageForms

\* A snapshot that is skipped is missed, and the view stays of this round.
LEMMA ToldSkipped ==
    ASSUME StreamInv, link = "open", NEW v \in Views, Told(v),
           saying # <<>>, IsSnapshot(Head(saying)), saying' = Tail(saying), missed',
           UNCHANGED newest
    PROVE  Told(v)'
<1>1. saying \in Seq(Message)
    BY DEF StreamInv, StreamTypeOK
<1>2. /\ Head(saying) = saying[1] /\ 1 \in DOMAIN saying /\ Head(saying) \in Message
      /\ \A i \in DOMAIN saying : i = 1 \/ (i - 1 \in DOMAIN saying' /\ saying'[i - 1] = saying[i])
    BY <1>1, HeadAndTail
<1>3. \A i \in DOMAIN saying : saying[i].kind # "Welcome"
    <2>1. Carries(Head(saying)) /\ Head(saying).kind # "Welcome"
        BY <1>2, MessageForms DEF IsSnapshot
    <2> QED
        BY <1>2, <2>1, OneCarrier DEF Carries
<1> QED
    BY <1>3 DEF Told, InRound

\* A turn that says nothing of the world, while nothing is banked or the
\* round goes on.
LEMMA ToldWords ==
    ASSUME NEW v \in Views, Told(v), saying = <<>>, missed => missed',
           \A i \in DOMAIN saying' : ~Carries(saying'[i]),
           UNCHANGED <<newest, eventful, banked>>,
           playing' = playing \/ banked = <<>>
    PROVE  Told(v)'
<1>1. InRound(v) /\ (~missed => Complete(v))
    BY DEF Told
<1>2. InRound(v)'
    BY <1>1 DEF InRound
<1>3. ~missed' => Complete(v)'
    <2>1. Range(<<>>) = {}
        BY DEF Range
    <2> QED
        BY <1>1, <2>1 DEF Complete, Missing
<1>4. \A i \in DOMAIN saying' : ~IsSnapshot(saying'[i])
    BY DEF IsSnapshot, Carries
<1> QED
    BY <1>2, <1>3, <1>4 DEF Told

\* A tick that sends nothing banks what happened.
LEMMA ToldBanked ==
    ASSUME StreamTypeOK, Happened, NEW v \in Views, Told(v), saying = <<>>, missed => missed',
           Frame, banked' = banked \o EventsOf(newest'.frame, eventful'),
           UNCHANGED <<playing, saying>>
    PROVE  Told(v)'
<1>0. /\ newest \in Moment /\ newest' \in Moment /\ newest'.round = newest.round
      /\ newest'.frame = newest.frame + 1 /\ newest.frame \in Nat /\ newest'.frame \in 1..MaxFrame
      /\ eventful' \subseteq eventful \cup {newest'.frame} /\ playing = "Playing"
    BY FrameForm, MomentFields DEF StreamTypeOK, Frame
<1>1. InRound(v) /\ (~missed => Complete(v)) /\ v.base \in Moment
    BY DEF Told, InRound, Views, Baseline
<1>2. v.base.frame \in Nat
    BY <1>0, <1>1, MomentFields
<1>3. v.base.frame <= newest.frame
    BY <1>1 DEF InRound
<1>4. v.base.frame < newest'.frame
    BY <1>0, <1>2, <1>3
<1>5. InRound(v)'
    BY <1>0, <1>1, <1>2, <1>4 DEF InRound
<1>6. Range(banked') = Range(banked) \cup Range(EventsOf(newest'.frame, eventful'))
    <2>1. EventsOf(newest'.frame, eventful') \in Seq(1..MaxFrame) /\ banked \in Seq(1..MaxFrame)
        BY <1>0, FrameForm, EventTypes DEF StreamTypeOK
    <2> QED
        BY <2>1, RangeForms
<1>7. ASSUME ~missed', NEW f \in Missing(v)'
      PROVE  f \in Range(banked') /\ f > v.base.frame
    <2>1. f \in eventful' /\ f > v.since /\ f \notin v.heard
        BY <1>7 DEF Missing
    <2>2. CASE f \in eventful
        <3>1. f \in Missing(v)
            BY <2>1, <2>2 DEF Missing
        <3> QED
            BY <1>0, <1>1, <1>6, <1>7, <3>1 DEF Complete
    <2>3. CASE f = newest'.frame
        BY <1>4, <1>6, <2>1, <2>3, RangeOfEvents
    <2> QED
        BY <1>0, <2>1, <2>2, <2>3
<1>8. ~missed' => Complete(v)'
    BY <1>0, <1>7 DEF Complete
<1> QED
    BY <1>5, <1>8 DEF Told

\* A snapshot of this round brings what the view is short of: what was
\* banked, and what happened in the frame itself.
LEMMA ToldBroadcast ==
    ASSUME StreamTypeOK, Happened, NEW v \in Views, Told(v), saying = <<>>, missed => missed',
           playing = "Playing", newest' \in Moment, newest'.round = newest.round,
           newest.frame <= newest'.frame, newest'.frame = newest.frame => eventful' = eventful,
           eventful' \subseteq eventful \cup {newest'.frame}, Happened',
           EventsOf(newest'.frame, eventful') \in Seq(1..MaxFrame),
           NEW more \in Seq(Message), \A i \in DOMAIN more : ~Carries(more[i]),
           Broadcast(newest', EventsOf(newest'.frame, eventful'), more)
    PROVE  Told(v)'
<1> DEFINE events == EventsOf(newest'.frame, eventful')
<1>0. newest \in Moment /\ newest.frame \in Nat /\ newest'.frame \in Nat /\ newest' # Nothing
    BY MomentFields DEF StreamTypeOK
<1>1. InRound(v) /\ (~missed => Complete(v)) /\ v.base \in Moment
    BY DEF Told, InRound, Views, Baseline
<1>2. v.base.frame \in Nat /\ v.base.frame <= newest.frame
    BY <1>0, <1>1, MomentFields DEF InRound
<1>3. v.base.frame <= newest'.frame
    BY <1>0, <1>2
<1>4. InRound(v)'
    BY <1>1, <1>3 DEF InRound
<1>5. /\ saying' \in Seq(Message) /\ Len(saying') = Len(more) + 1
      /\ saying'[1] \in Message /\ IsSnapshot(saying'[1]) /\ Carries(saying'[1])
      /\ saying'[1].to = newest'
      /\ \A i \in 2..Len(more) + 1 : saying'[i] = more[i - 1]
    BY BroadcastForm
<1>6. saying'[1].events = banked \o events
    <2>1. saying' = <<Cut(newest', banked \o events)>> \o more
        BY DEF Broadcast
    <2>2. Cut(newest', banked \o events).events = banked \o events
        BY DEF Cut
    <2>3. (<<Cut(newest', banked \o events)>> \o more)[1] = Cut(newest', banked \o events)
        OBVIOUS
    <2> QED
        BY <2>1, <2>2, <2>3
<1>7. Range(saying'[1].events) = Range(banked) \cup Range(events)
    BY <1>6, RangeForms DEF StreamTypeOK
<1>8. \A i \in DOMAIN saying' : i = 1 \/ ~Carries(saying'[i])
    <2> TAKE i \in DOMAIN saying'
    <2>1. CASE i # 1
        <3>1. i \in 2..Len(more) + 1 /\ i - 1 \in DOMAIN more /\ saying'[i] = more[i - 1]
            BY <1>5, <2>1
        <3> QED
            BY <3>1
    <2> QED
        BY <2>1
<1> DEFINE m == saying'[1]
<1>9. PICK u : u = Hearing(v, m)
    OBVIOUS
<1>10. /\ u.base = newest' /\ u.since = v.since
       /\ u.heard = IF v.base.frame = newest'.frame THEN v.heard ELSE v.heard \cup Range(m.events)
    <2>1. m \in Message /\ IsSnapshot(m) /\ m.to = newest'
        BY <1>5
    <2> HIDE DEF m
    <2> QED
        BY <1>9, <2>1, HearingForm
<1>11. ASSUME ~missed', NEW f, f \in Missing(u)'
       PROVE  FALSE
    <2>1. f \in eventful' /\ f > v.since /\ f \notin u.heard
        BY <1>10, <1>11 DEF Missing
    <2>2. f <= newest'.frame
        BY <2>1 DEF Happened
    <2>3. CASE f \in eventful
        <3>1. f \in Missing(v)
            BY <1>10, <2>1, <2>3 DEF Missing
        <3>2. f \in Range(banked) /\ f > v.base.frame
            BY <1>1, <1>11, <3>1 DEF Complete
        <3>3. f \in Nat
            BY <2>3 DEF StreamTypeOK
        <3>4. v.base.frame # newest'.frame
            BY <1>0, <1>2, <2>2, <3>2, <3>3
        <3> QED
            BY <1>7, <1>10, <2>1, <3>2, <3>4
    <2>4. CASE f \notin eventful
        <3>1. f = newest'.frame /\ newest'.frame # newest.frame
            BY <2>1, <2>4
        <3>2. v.base.frame # newest'.frame
            BY <1>0, <1>2, <3>1
        <3>3. f \in Range(events)
            BY <2>1, <3>1, RangeOfEvents
        <3> QED
            BY <1>7, <1>10, <2>1, <3>2, <3>3
    <2> QED
        BY <2>3, <2>4
<1>12. ~missed' => Complete(u)'
    BY <1>11 DEF Complete
<1>13. ~missed' => \A i \in DOMAIN saying' : IsSnapshot(saying'[i]) => Complete(Hearing(v, saying[i]))'
    <2> SUFFICES ASSUME ~missed', NEW i \in DOMAIN saying', IsSnapshot(saying'[i])
                 PROVE  Complete(Hearing(v, saying[i]))'
        OBVIOUS
    <2>1. Carries(saying'[i])
        BY DEF IsSnapshot, Carries
    <2>2. i = 1
        BY <1>8, <2>1
    <2>3. Hearing(v, saying'[i]) = u
        BY <1>9, <2>2
    <2> QED
        BY <1>12, <2>3 DEF Complete, Missing
<1>14. ~(\A i \in DOMAIN saying' : ~Carries(saying'[i]))
    <2>1. 1 \in DOMAIN saying'
        BY <1>5
    <2> QED
        BY <1>5, <2>1
<1> QED
    BY <1>4, <1>13, <1>14 DEF Told, Complete, Missing

\* A welcome on its way starts the view over.
LEMMA ToldWelcome ==
    ASSUME NEW v, NEW j, saying' \in Seq(Message), j \in DOMAIN saying', saying'[j].kind = "Welcome",
           \A i \in DOMAIN saying' : ~IsSnapshot(saying'[i])
    PROVE  Told(v)'
<1>1. Carries(saying'[j])
    BY DEF Carries
<1> QED
    BY <1>1 DEF Told

LEMMA HearingJoined ==
    ASSUME StreamTypeOK, Join
    PROVE  Listening'
<1>1. /\ outbox' = <<>> /\ client' = NewClient /\ newest \in Moment
      /\ \/ saying' = <<Welcome(newest), Lobby("Ended"), Lobby("Roster")>>
         \/ saying' = <<Welcome(newest), Lobby("Roster")>>
    BY DEF Join, StreamTypeOK
<1>2. /\ saying' \in Seq(Message) /\ 1 \in DOMAIN saying' /\ saying'[1].kind = "Welcome"
      /\ \A i \in DOMAIN saying' : ~IsSnapshot(saying'[i])
    <2>1. /\ Welcome(newest) \in Message /\ Welcome(newest).kind = "Welcome" /\ ~IsSnapshot(Welcome(newest))
          /\ Lobby("Ended") \in Message /\ Lobby("Roster") \in Message
        BY <1>1, Words
    <2>2. ~IsSnapshot(Lobby("Ended")) /\ ~IsSnapshot(Lobby("Roster"))
        BY DEF Lobby, IsSnapshot
    <2>3. CASE saying' = <<Welcome(newest), Lobby("Ended"), Lobby("Roster")>>
        BY <2>1, <2>2, <2>3
    <2>4. CASE saying' = <<Welcome(newest), Lobby("Roster")>>
        BY <2>1, <2>2, <2>4
    <2> QED
        BY <1>1, <2>3, <2>4
<1>3. PICK k : k = [i \in 0..0 |-> View(NewClient)]
    OBVIOUS
<1>4. View(NewClient) \in Views
    BY NewClientType, ViewForm
<1>5. Len(outbox') = 0
    BY <1>1
<1>6. k \in [0..Len(outbox') -> Views] /\ k[0] = View(client')
    BY <1>1, <1>3, <1>4, <1>5
<1>7. \A i \in 0..Len(outbox') - 1 : FALSE
    BY <1>5
<1>8. Hears(k)'
    BY <1>6, <1>7 DEF Hears
<1>9. PICK w : k[Len(outbox')] = w
    OBVIOUS
<1>10. Told(w)'
    BY <1>2, ToldWelcome
<1> QED
    BY <1>8, <1>9, <1>10 DEF Listening

LEMMA HearingStarted ==
    ASSUME StreamTypeOK, Start, Listening
    PROVE  Listening'
<1>1. PICK g : Hears(g) /\ Told(g[Len(outbox)])
    BY DEF Listening
<1>2. UNCHANGED <<outbox, client>> /\ newest' \in Moment /\ saying' = <<Lobby("Started"), Welcome(newest')>>
    <2>1. newest.round \in 0..MaxRound /\ newest.round + 1 \in 0..MaxRound /\ 0 \in 0..MaxFrame
        BY Bounds DEF Start, StreamTypeOK, Moment
    <2> QED
        BY <2>1 DEF Start, Moment
<1>3. /\ saying' \in Seq(Message) /\ 2 \in DOMAIN saying' /\ saying'[2].kind = "Welcome"
      /\ \A i \in DOMAIN saying' : ~IsSnapshot(saying'[i])
    <2>1. /\ Welcome(newest') \in Message /\ Welcome(newest').kind = "Welcome" /\ ~IsSnapshot(Welcome(newest'))
          /\ Lobby("Started") \in Message
        BY <1>2, Words
    <2>2. ~IsSnapshot(Lobby("Started"))
        BY DEF Lobby, IsSnapshot
    <2> QED
        BY <1>2, <2>1, <2>2
<1>4. Hears(g)'
    BY <1>1, <1>2 DEF Hears
<1>5. PICK w : g[Len(outbox')] = w
    OBVIOUS
<1>6. Told(w)'
    BY <1>3, ToldWelcome
<1> QED
    BY <1>4, <1>5, <1>6 DEF Listening

\* Nothing read and nothing queued: the view is where it was.
LEMMA HearsKept ==
    ASSUME NEW g, Hears(g), UNCHANGED <<outbox, client>>, Told(g[Len(outbox)])'
    PROVE  Listening'
BY DEF Hears, Listening

LEMMA HearingStep ==
    ASSUME HearingInv, AnyNext, ~Join, ~Start, link' = "open",
           missed' = (missed \/ (Full /\ Say)), Happened'
    PROVE  Listening'
<1>0. /\ StreamInv /\ StreamTypeOK /\ Happened /\ newest \in Moment
      /\ missed => missed'
    BY DEF HearingInv, StreamInv, StreamTypeOK
<1>1. link = "open"
    BY DEF AnyNext, Receive, Say, Break, AnyTick, EndRound, Chatter, Disconnected, Skip, GiveUp
<1>2. PICK g : Hears(g) /\ Told(g[Len(outbox)])
    BY <1>1 DEF HearingInv, Listening
<1>3. PICK v : v = g[Len(outbox)]
    OBVIOUS
<1>4. v \in Views /\ Told(v)
    BY <1>0, <1>2, <1>3, HearsEnd
<1>5. CASE Receive
    <2>1. /\ outbox # <<>> /\ client' = Take(Head(outbox)) /\ outbox' = Tail(outbox)
          /\ UNCHANGED <<playing, newest, eventful, banked, saying>>
        BY <1>5 DEF Receive, roomSide
    <2>2. PICK k : Hears(k)' /\ k[Len(outbox')] = v
        BY <1>0, <1>2, <1>3, <2>1, HearsRead
    <2>3. Told(v)'
        BY <1>0, <1>4, <2>1 DEF Told, InRound, Complete, Missing
    <2> QED
        BY <2>2, <2>3 DEF Listening
<1>6. CASE Say
    <2>0. saying # <<>> /\ saying' = Tail(saying) /\ UNCHANGED <<roomSide, client>>
        BY <1>6 DEF Say, Queued, Full
    <2>1. /\ saying # <<>> /\ saying' = Tail(saying) /\ UNCHANGED <<playing, newest, eventful, banked, client>>
          /\ saying \in Seq(Message) /\ Head(saying) \in Message
        BY <1>0, <2>0, HeadAndTail DEF roomSide, StreamTypeOK
    <2>2. CASE outbox' = Append(outbox, Head(saying))
        <3>1. PICK w : w = Hearing(v, Head(saying))
            OBVIOUS
        <3>2. InTurn(v.base, Head(saying)) /\ Told(w)'
            BY <1>0, <1>1, <1>4, <2>1, <3>1, ToldQueued
        <3>3. PICK k : Hears(k)' /\ k[Len(outbox')] = w
            BY <1>0, <1>2, <1>3, <2>1, <2>2, <3>1, <3>2, HearsQueued
        <3> QED
            BY <3>2, <3>3 DEF Listening
    <2>3. CASE Full /\ IsSnapshot(Head(saying)) /\ UNCHANGED outbox
        <3>1. missed'
            BY <1>6, <2>3
        <3>2. Told(v)'
            BY <1>0, <1>1, <1>4, <2>1, <2>3, <3>1, ToldSkipped
        <3> QED
            BY <1>2, <1>3, <2>1, <2>3, <3>2, HearsKept
    <2> QED
        BY <1>1, <1>6, <2>2, <2>3 DEF Say, GiveUp
<1>7. CASE saying = <<>> /\ AnyTick
    <2>1. UNCHANGED <<playing, outbox, client>> /\ Frame /\ playing = "Playing"
        BY <1>7 DEF AnyTick, Frame
    <2>2. /\ newest' \in Moment /\ newest'.round = newest.round /\ newest'.frame = newest.frame + 1
          /\ newest'.frame \in 1..MaxFrame /\ eventful' \in SUBSET (1..MaxFrame)
        BY <1>0, <2>1, FrameForm
    <2>3. eventful' \subseteq eventful \cup {newest'.frame}
        BY <2>1, <2>2 DEF Frame
    <2>4. /\ EventsOf(newest'.frame, eventful') \in Seq(1..MaxFrame)
          /\ newest.frame <= newest'.frame /\ newest.frame # newest'.frame
        BY <1>0, <2>2, EventTypes, MomentFields
    <2>5. <<>> \in Seq(Message) /\ \A i \in DOMAIN <<>> : ~Carries(<<>>[i])
        OBVIOUS
    <2>6. CASE Broadcast(newest', EventsOf(newest'.frame, eventful'), <<>>)
        <3>1. Told(v)'
            BY <1>0, <1>4, <1>7, <2>1, <2>2, <2>3, <2>4, <2>5, <2>6, ToldBroadcast
        <3> QED
            BY <1>2, <1>3, <2>1, <3>1, HearsKept
    <2>7. CASE banked' = banked \o EventsOf(newest'.frame, eventful') /\ UNCHANGED <<saying, prev>>
        <3>1. Told(v)'
            BY <1>0, <1>4, <1>7, <2>1, <2>7, ToldBanked
        <3> QED
            BY <1>2, <1>3, <2>1, <3>1, HearsKept
    <2> QED
        BY <1>7, <2>6, <2>7 DEF AnyTick
<1>8. CASE saying = <<>> /\ EndRound
    <2>1. /\ UNCHANGED <<newest, eventful, outbox, client>>
          /\ playing = "Playing" /\ ((decided /\ EndDecided) \/ EndLimit)
        BY <1>8 DEF EndRound
    <2>2. CASE LastWords
        <3>1. Broadcast(newest', EventsOf(newest'.frame, eventful'), EndWords)
            BY <2>1, <2>2 DEF LastWords
        <3>2. EventsOf(newest'.frame, eventful') \in Seq(1..MaxFrame)
            <4>1. newest'.frame \in eventful => newest'.frame \in 1..MaxFrame
                BY <1>0 DEF StreamTypeOK
            <4>2. <<>> \in Seq(1..MaxFrame) /\ eventful \in SUBSET (1..MaxFrame)
                BY <1>0 DEF StreamTypeOK
            <4> QED
                BY <2>1, <4>1, <4>2, EventTypes DEF EventsOf
        <3>3. newest.frame <= newest'.frame
            BY <1>0, <2>1, MomentFields
        <3>4. Told(v)'
            BY <1>0, <1>4, <1>8, <2>1, <3>1, <3>2, <3>3, Words, ToldBroadcast
        <3> QED
            BY <1>2, <1>3, <2>1, <3>4, HearsKept
    <2>3. CASE banked = <<>> /\ saying' = EndWords /\ UNCHANGED <<prev, banked>>
        <3>1. Told(v)'
            BY <1>0, <1>4, <1>8, <2>1, <2>3, Words, ToldWords
        <3> QED
            BY <1>2, <1>3, <2>1, <3>1, HearsKept
    <2> QED
        BY <2>1, <2>2, <2>3 DEF EndDecided, EndLimit
<1>9. CASE saying = <<>> /\ Chatter
    <2>1. saying' = <<Lobby("Roster")>> /\ UNCHANGED <<playing, newest, eventful, banked, outbox, client>>
        BY <1>9 DEF Chatter, roomSide
    <2>2. \A i \in DOMAIN saying' : ~Carries(saying'[i])
        BY <2>1, Words
    <2>3. Told(v)'
        BY <1>0, <1>4, <1>9, <2>1, <2>2, ToldWords
    <2> QED
        BY <1>2, <1>3, <2>1, <2>3, HearsKept
<1>10. CASE Break \/ Disconnected
    BY <1>10 DEF Break, Disconnected
<1> QED
    BY <1>5, <1>6, <1>7, <1>8, <1>9, <1>10 DEF AnyNext

mcVars == <<streamVars, every, missed, picture>>

LEMMA HappenedStep ==
    ASSUME StreamTypeOK, Happened, [AnyNext]_streamVars
    PROVE  Happened'
<1>0. eventful \in SUBSET (1..MaxFrame) /\ newest \in Moment /\ newest.frame \in Nat
    BY MomentFields DEF StreamTypeOK
<1>1. CASE Frame
    <2>1. newest'.frame = newest.frame + 1 /\ eventful' \subseteq eventful \cup {newest.frame + 1}
        BY <1>1, FrameForm DEF Frame
    <2>2. \A f \in eventful' : f <= newest.frame + 1
        BY <1>0, <2>1 DEF Happened
    <2> QED
        BY <2>1, <2>2 DEF Happened
<1>2. CASE eventful' = {}
    BY <1>2 DEF Happened
<1>3. CASE UNCHANGED <<newest, eventful>>
    BY <1>3 DEF Happened
<1> QED
    BY <1>1, <1>2, <1>3 DEF AnyNext, Receive, Say, Break, Join, Start, AnyTick, EndRound, Chatter, Disconnected,
                            roomSide, streamVars

LEMMA HearingInvStep == HearingInv /\ [MCNext]_mcVars => HearingInv'
<1> SUFFICES ASSUME HearingInv, [MCNext]_mcVars PROVE HearingInv'
    OBVIOUS
<1>1. StreamInv /\ StreamTypeOK /\ Happened /\ [AnyNext]_streamVars
    BY MCIsAny DEF HearingInv, StreamInv, mcVars
<1>2. StreamInv' /\ Happened'
    BY <1>1, StreamInvStep, HappenedStep
<1>3. ASSUME link' = "open" PROVE Listening'
    <2>1. CASE UNCHANGED mcVars
        BY <1>3, <2>1 DEF HearingInv, mcVars, streamVars, roomSide, Listening, Hears, Told, InRound, Complete, Missing
    <2>2. CASE MCNext /\ Join
        BY <1>1, <2>2, HearingJoined
    <2>3. CASE MCNext /\ Start
        <3>1. link = "open"
            BY <1>3, <2>3 DEF Start
        <3> QED
            BY <1>1, <2>3, <3>1, HearingStarted DEF HearingInv
    <2>4. CASE MCNext /\ ~Join /\ ~Start
        <3>1. AnyNext
            BY <2>4, NextIsAny, SparseIsAny DEF MCNext
        <3>2. missed' = (missed \/ (Full /\ Say))
            BY <2>4 DEF MCNext
        <3> QED
            BY <1>2, <1>3, <2>4, <3>1, <3>2, HearingStep
    <2> QED
        BY <2>1, <2>2, <2>3, <2>4
<1> QED
    BY <1>2, <1>3 DEF HearingInv

LEMMA HearingInvInit == MCInit => HearingInv
<1> SUFFICES ASSUME MCInit PROVE HearingInv
    OBVIOUS
<1>1. StreamInit /\ Happened /\ link # "open"
    BY DEF MCInit, StreamInit, Happened
<1> QED
    BY <1>1, StreamInvInit DEF HearingInv

\* The invariant holds of every behaviour, at both cadences.
THEOREM HearingInvariant == MCSpec => []HearingInv
<1>1. HearingInv /\ [MCNext]_<<streamVars, every, missed, picture>> => HearingInv'
    BY HearingInvStep DEF mcVars
<1> QED
    BY <1>1, HearingInvInit, PTL DEF MCSpec

\* A client that missed nothing has heard all that happened since its
\* welcome but for what is banked, and when the round is over, all: at
\* either cadence, the first of them any, and whatever was said before.
\* server/src/room.rs, tick_now and on_deadline_now.
THEOREM EventsAreComplete == MCSpec => []EventsComplete
<1>1. HearingInv => EventsComplete
    <2> SUFFICES ASSUME HearingInv, link = "open", ~missed, saying = <<>>, outbox = <<>>
                 PROVE  {f \in eventful : f > client.since}
                            \subseteq Range(client.heard) \cup (IF playing = "Playing" THEN Range(banked) ELSE {})
        BY DEF EventsComplete
    <2>1. PICK g : Hears(g) /\ Told(g[Len(outbox)])
        BY DEF HearingInv, Listening
    <2>2. Len(outbox) = 0 /\ client \in Client
        BY DEF HearingInv, StreamInv, StreamTypeOK, Client
    <2>3. g[Len(outbox)] = View(client)
        BY <2>1, <2>2 DEF Hears
    <2>4. Complete(View(client))
        BY <2>1, <2>3 DEF Told
    <2> QED
        BY <2>2, <2>4, ViewForm DEF Complete, Missing
<1> QED
    BY <1>1, HearingInvariant, PTL

\* With a snapshot every tick nothing is ever banked, and a snapshot carries
\* what happened in its own frame or nothing.
Single(m) == IsSnapshot(m) => m.events \in {<<>>, <<m.to.frame>>}

Singles(s) == \A i \in DOMAIN s : Single(s[i])

\* What was heard is in order, and no later than the baseline.
Ascending(c) ==
    /\ \A i, j \in DOMAIN c.heard : i < j => c.heard[i] < c.heard[j]
    /\ \A i \in DOMAIN c.heard : c.base # Nothing /\ c.heard[i] <= c.base.frame

OnceInv ==
    /\ HearingInv
    /\ every = SnapshotEvery =>
        /\ banked = <<>> /\ Singles(saying) /\ Singles(outbox)
        /\ link = "open" => Ascending(client)

LEMMA SinglesForms ==
    ASSUME NEW s \in Seq(Message), s # <<>>, Singles(s)
    PROVE  /\ Single(Head(s)) /\ Singles(Tail(s))
           /\ \A t \in Seq(Message) : Singles(t) => Singles(Append(t, Head(s)))
<1>1. /\ Len(s) \in Nat /\ Len(s) > 0 /\ Head(s) \in Message /\ Head(s) = s[1]
      /\ Tail(s) \in Seq(Message) /\ Len(Tail(s)) = Len(s) - 1
      /\ \A i \in 1..Len(s) - 1 : Tail(s)[i] = s[i + 1]
    BY HeadAndTail
<1>2. 1 \in DOMAIN s /\ DOMAIN Tail(s) = 1..Len(s) - 1
    BY <1>1
<1>3. \A i \in 1..Len(s) - 1 : i + 1 \in DOMAIN s
    BY <1>1
<1>4. Single(Head(s)) /\ Singles(Tail(s))
    BY <1>1, <1>2, <1>3 DEF Singles
<1>5. ASSUME NEW t \in Seq(Message), Singles(t) PROVE Singles(Append(t, Head(s)))
    <2>1. /\ DOMAIN Append(t, Head(s)) = 1..Len(t) + 1 /\ DOMAIN t = 1..Len(t) /\ Len(t) \in Nat
          /\ \A i \in 1..Len(t) : Append(t, Head(s))[i] = t[i]
          /\ Append(t, Head(s))[Len(t) + 1] = Head(s)
        BY <1>1
    <2>2. \A i \in 1..Len(t) + 1 : i = Len(t) + 1 \/ i \in 1..Len(t)
        BY <2>1
    <2> QED
        BY <1>4, <1>5, <2>1, <2>2 DEF Singles
<1> QED
    BY <1>4, <1>5

\* Words carry nothing; a snapshot of a frame carries the frame's.
LEMMA SinglesSaid ==
    ASSUME NEW moment \in Moment
    PROVE  /\ Singles(<<Welcome(moment), Lobby("Ended"), Lobby("Roster")>>)
           /\ Singles(<<Welcome(moment), Lobby("Roster")>>)
           /\ Singles(<<Lobby("Started"), Welcome(moment)>>)
           /\ Singles(<<Lobby("Roster")>>) /\ Singles(EndWords) /\ Singles(<<>>)
<1>1. /\ ~IsSnapshot(Welcome(moment)) /\ ~IsSnapshot(Lobby("Started"))
      /\ ~IsSnapshot(Lobby("Ended")) /\ ~IsSnapshot(Lobby("Roster"))
    BY DEF Welcome, Lobby, IsSnapshot
<1>2. Singles(<<Lobby("Roster")>>) /\ Singles(EndWords) /\ Singles(<<>>)
    BY <1>1 DEF Singles, Single, EndWords
<1>3. Singles(<<Welcome(moment), Lobby("Ended"), Lobby("Roster")>>)
    BY <1>1 DEF Singles, Single
<1>4. Singles(<<Welcome(moment), Lobby("Roster")>>) /\ Singles(<<Lobby("Started"), Welcome(moment)>>)
    BY <1>1 DEF Singles, Single
<1> QED
    BY <1>2, <1>3, <1>4

LEMMA SinglesBroadcast ==
    ASSUME NEW moment \in Moment, NEW happened, NEW more \in Seq(Message), Singles(more), banked = <<>>,
           EventsOf(moment.frame, happened) \in Seq(1..MaxFrame),
           Broadcast(moment, EventsOf(moment.frame, happened), more)
    PROVE  Singles(saying') /\ banked' = <<>>
<1> DEFINE m == Cut(moment, banked \o EventsOf(moment.frame, happened))
<1>1. banked \o EventsOf(moment.frame, happened) = EventsOf(moment.frame, happened)
    OBVIOUS
<1>2. m.to = moment /\ m.events \in {<<>>, <<moment.frame>>}
    BY <1>1 DEF Cut, EventsOf
<1>3. Single(m)
    BY <1>2 DEF Single
<1>4. saying' = <<m>> \o more /\ banked' = <<>>
    BY DEF Broadcast
<1> HIDE DEF m
<1>5. /\ DOMAIN (<<m>> \o more) = 1..Len(more) + 1 /\ Len(more) \in Nat
      /\ (<<m>> \o more)[1] = m
      /\ \A i \in 2..Len(more) + 1 : (<<m>> \o more)[i] = more[i - 1]
    OBVIOUS
<1>6. \A i \in 1..Len(more) + 1 : i = 1 \/ (i \in 2..Len(more) + 1 /\ i - 1 \in DOMAIN more)
    BY <1>5
<1>7. Singles(<<m>> \o more)
    BY <1>3, <1>5, <1>6 DEF Singles
<1> QED
    BY <1>4, <1>7

LEMMA SinglesStep ==
    ASSUME SnapshotEvery = 1, StreamTypeOK, StreamNext, banked = <<>>, Singles(saying), Singles(outbox)
    PROVE  banked' = <<>> /\ Singles(saying') /\ Singles(outbox')
<1>0. /\ saying \in Seq(Message) /\ outbox \in Seq(Message) /\ newest \in Moment
      /\ eventful \in SUBSET (1..MaxFrame)
    BY DEF StreamTypeOK
<1>1. CASE Receive
    <2>1. outbox # <<>> /\ outbox' = Tail(outbox) /\ UNCHANGED <<banked, saying>>
        BY <1>1 DEF Receive, roomSide
    <2> QED
        BY <1>0, <2>1, SinglesForms
<1>2. CASE Say
    <2>1. saying # <<>> /\ saying' = Tail(saying) /\ UNCHANGED <<roomSide, client>>
        BY <1>2 DEF Say, Queued, Full
    <2>2. outbox' = Append(outbox, Head(saying)) \/ outbox' = outbox
        BY <1>2 DEF Say
    <2>3. banked' = banked
        BY <2>1 DEF roomSide
    <2> QED
        BY <1>0, <2>1, <2>2, <2>3, SinglesForms
<1>3. CASE Break
    <2>1. outbox' = <<>> /\ UNCHANGED <<banked, saying>>
        BY <1>3 DEF Break, roomSide
    <2> QED
        BY <1>0, <2>1, SinglesSaid
<1>4. CASE Join
    <2>1. /\ outbox' = <<>> /\ banked' = banked
          /\ \/ saying' = <<Welcome(newest), Lobby("Ended"), Lobby("Roster")>>
             \/ saying' = <<Welcome(newest), Lobby("Roster")>>
        BY <1>4 DEF Join, roomSide
    <2> QED
        BY <1>0, <2>1, SinglesSaid
<1>5. CASE Start
    <2>1. /\ outbox' = outbox /\ banked' = <<>> /\ saying' = <<Lobby("Started"), Welcome(newest')>>
        BY <1>5 DEF Start
    <2>2. newest' \in Moment
        <3>1. newest.round \in 0..MaxRound /\ newest.round + 1 \in 0..MaxRound /\ 0 \in 0..MaxFrame
            BY <1>0, <1>5, Bounds DEF Start, Moment
        <3> QED
            BY <1>5, <3>1 DEF Start, Moment
    <2> QED
        BY <2>1, <2>2, SinglesSaid
<1>6. CASE Tick
    <2>1. Frame /\ outbox' = outbox
        BY <1>6 DEF Tick
    <2>2. newest' \in Moment /\ newest'.frame \in 1..MaxFrame /\ eventful' \in SUBSET (1..MaxFrame)
        BY <2>1, FrameForm
    <2>3. newest'.frame % 1 = 0
        BY <2>2
    <2>4. Broadcast(newest', EventsOf(newest'.frame, eventful'), <<>>)
        BY <1>6, <2>3 DEF Tick, Cadence
    <2>5. EventsOf(newest'.frame, eventful') \in Seq(1..MaxFrame) /\ <<>> \in Seq(Message)
        BY <2>2, EventTypes
    <2>6. Singles(<<>>)
        BY <1>0, SinglesSaid
    <2> QED
        BY <2>1, <2>2, <2>4, <2>5, <2>6, SinglesBroadcast
<1>7. CASE EndRound
    <2>1. outbox' = outbox /\ EndWords \in Seq(Message) /\ Singles(EndWords)
        BY <1>0, <1>7, Words, SinglesSaid DEF EndRound
    <2>2. CASE LastWords
        <3>1. newest.frame \in eventful => newest.frame \in 1..MaxFrame
            BY <1>0
        <3>2. <<>> \in Seq(1..MaxFrame)
            OBVIOUS
        <3>3. EventsOf(newest.frame, eventful) \in Seq(1..MaxFrame)
            BY <1>0, <3>1, <3>2, EventTypes DEF EventsOf
        <3>4. Broadcast(newest, EventsOf(newest.frame, eventful), EndWords)
            BY <2>2 DEF LastWords
        <3> QED
            BY <1>0, <2>1, <3>3, <3>4, SinglesBroadcast
    <2>3. CASE saying' = EndWords /\ UNCHANGED <<prev, banked>>
        BY <2>1, <2>3
    <2> QED
        BY <1>7, <2>2, <2>3 DEF EndRound, EndDecided, EndLimit
<1>8. CASE Chatter
    <2>1. saying' = <<Lobby("Roster")>> /\ UNCHANGED <<banked, outbox>>
        BY <1>8 DEF Chatter, roomSide
    <2> QED
        BY <1>0, <2>1, SinglesSaid
<1>9. CASE Disconnected
    BY <1>9 DEF Disconnected, roomSide
<1> QED
    BY <1>1, <1>2, <1>3, <1>4, <1>5, <1>6, <1>7, <1>8, <1>9 DEF StreamNext

\* A message read in turn adds its frame's events behind what was heard.
LEMMA AscendingRead ==
    ASSUME client \in Client, NEW m \in Message, InTurn(client.base, m), Single(m), Ascending(client)
    PROVE  Ascending(Take(m))
<1>1. CASE m.kind = "Welcome"
    <2>1. Take(m).heard = <<>>
        BY <1>1 DEF Take, TakeWelcome
    <2> QED
        BY <2>1 DEF Ascending
<1>2. CASE ~Carries(m)
    BY <1>2 DEF Take, Carries
<1>3. CASE IsSnapshot(m)
    <2>1. /\ client.base \in Moment /\ m.to \in Moment /\ client.base.frame <= m.to.frame
          /\ client.heard \in Seq(1..MaxFrame) /\ client.base # Nothing /\ m.to # Nothing
          /\ client.base.frame \in Nat /\ m.to.frame \in Nat
        BY <1>3, MessageForms, MomentFields DEF InTurn, Client, Baseline
    <2>2. /\ Take(m) = client \/ Take(m).base = m.to
          /\ Take(m) # client =>
                \/ Take(m).heard = client.heard
                \/ client.base.frame # m.to.frame /\ Take(m).heard = client.heard \o m.events
        <3>1. CASE m.kind = "Snapshot"
            <4>1. Take(m) = TakeSnapshot(m)
                BY <3>1 DEF Take
            <4> QED
                BY <2>1, <4>1 DEF TakeSnapshot, Client
        <3>2. CASE m.kind = "Delta"
            <4>1. Take(m) = TakeDelta(m)
                BY <3>2 DEF Take
            <4>2. CASE client.base.frame < m.to.frame
                BY <2>1, <4>1, <4>2 DEF TakeDelta, Client
            <4>3. CASE ~(client.base.frame < m.to.frame)
                BY <4>1, <4>3 DEF TakeDelta
            <4> QED
                BY <4>2, <4>3
        <3> QED
            BY <1>3, <3>1, <3>2 DEF IsSnapshot
    <2>3. \A i \in DOMAIN client.heard : client.heard[i] \in Nat /\ client.heard[i] <= client.base.frame
        <3>1. \A i \in DOMAIN client.heard : client.heard[i] \in 1..MaxFrame
            BY <2>1, Elements
        <3> QED
            BY <2>1, <3>1 DEF Ascending
    <2>4. \A i \in DOMAIN client.heard : client.heard[i] <= m.to.frame
        BY <2>1, <2>3
    <2>5. CASE Take(m) = client
        BY <2>5
    <2>6. CASE Take(m).base = m.to /\ Take(m).heard = client.heard
        BY <2>1, <2>4, <2>6 DEF Ascending
    <2>7. CASE /\ Take(m).base = m.to /\ Take(m).heard = client.heard \o m.events
               /\ client.base.frame # m.to.frame
        <3>1. CASE m.events = <<>>
            <4>1. client.heard \o <<>> = client.heard
                BY <2>1
            <4> QED
                BY <2>1, <2>4, <2>7, <3>1, <4>1 DEF Ascending
        <3>2. CASE m.events = <<m.to.frame>>
            <4> DEFINE h == client.heard
                       n == Len(client.heard)
                       k == client.heard \o <<m.to.frame>>
            <4>1. /\ n \in Nat /\ DOMAIN h = 1..n /\ DOMAIN k = 1..n + 1
                  /\ \A i \in 1..n : k[i] = h[i]
                  /\ k[n + 1] = m.to.frame
                BY <2>1
            <4>2. \A i \in 1..n : h[i] < m.to.frame
                BY <2>1, <2>3, <2>7, <4>1
            <4>3. \A i \in 1..n + 1 : i \in 1..n \/ i = n + 1
                BY <4>1
            <4>4. \A i, j \in 1..n + 1 : i < j => i \in 1..n
                BY <4>1
            <4>5. \A i, j \in 1..n : i < j => h[i] < h[j]
                BY <4>1 DEF Ascending
            <4>6. Take(m).heard = k
                BY <2>7, <3>2
            <4> HIDE DEF h, n, k
            <4>7. \A i, j \in 1..n + 1 : i < j => k[i] < k[j]
                BY <4>1, <4>2, <4>3, <4>4, <4>5
            <4>8. \A i \in 1..n + 1 : k[i] <= m.to.frame
                BY <2>1, <2>4, <4>1, <4>3 DEF h
            <4> QED
                BY <2>1, <2>7, <4>1, <4>6, <4>7, <4>8 DEF Ascending
        <3> QED
            BY <1>3, <3>1, <3>2 DEF Single
    <2> QED
        BY <2>2, <2>5, <2>6, <2>7
<1> QED
    BY <1>1, <1>2, <1>3, MessageForms

\* What is read next is in turn.
LEMMA NextInTurn ==
    ASSUME HearingInv, link = "open", outbox # <<>>
    PROVE  InTurn(client.base, Head(outbox))
<1>1. PICK g : Hears(g)
    BY DEF HearingInv, Listening
<1>2. /\ outbox \in Seq(Message) /\ Len(outbox) \in Nat /\ Len(outbox) > 0 /\ Head(outbox) = outbox[1]
      /\ client \in Client
    BY HeadAndTail DEF HearingInv, StreamInv, StreamTypeOK, Client
<1>3. 0 \in 0..Len(outbox) - 1 /\ View(client).base = client.base
    BY <1>2, ViewForm
<1> QED
    BY <1>1, <1>2, <1>3 DEF Hears

\* Under the code's cadence (SNAPSHOT_EVERY) events are heard in the order
\* they happened and never twice, for every depth of the outbox and any
\* number of rounds and frames.  server/src/room.rs, on_deadline_now.
THEOREM EventsAreHeardOnce ==
    ASSUME SnapshotEvery = 1
    PROVE  MCSpec => []HeardOnce
<1>1. MCInit => OnceInv
    <2> SUFFICES ASSUME MCInit PROVE OnceInv
        OBVIOUS
    <2>1. banked = <<>> /\ saying = <<>> /\ outbox = <<>> /\ link # "open"
        BY DEF MCInit, StreamInit
    <2> QED
        BY <2>1, HearingInvInit DEF OnceInv, Singles
<1>2. OnceInv /\ [MCNext]_<<streamVars, every, missed, picture>> => OnceInv'
    <2> SUFFICES ASSUME OnceInv, [MCNext]_<<streamVars, every, missed, picture>> PROVE OnceInv'
        OBVIOUS
    <2>1. HearingInv'
        BY HearingInvStep DEF OnceInv, mcVars
    <2> SUFFICES ASSUME every' = SnapshotEvery
                 PROVE  /\ banked' = <<>> /\ Singles(saying') /\ Singles(outbox')
                        /\ link' = "open" => Ascending(client')
        BY <2>1 DEF OnceInv
    <2>2. CASE UNCHANGED <<streamVars, every, missed, picture>>
        BY <2>2 DEF OnceInv, streamVars, roomSide
    <2>3. CASE MCNext
        <3>1. /\ HearingInv /\ StreamTypeOK /\ client \in Client /\ StreamNext
              /\ banked = <<>> /\ Singles(saying) /\ Singles(outbox)
              /\ link = "open" => Ascending(client)
            BY <2>3 DEF OnceInv, MCNext, HearingInv, StreamInv, StreamTypeOK, Client
        <3>2. banked' = <<>> /\ Singles(saying') /\ Singles(outbox')
            BY <3>1, SinglesStep
        <3>3. ASSUME link' = "open" PROVE Ascending(client')
            <4>1. CASE client' = NewClient
                BY <4>1 DEF NewClient, Ascending
            <4>2. CASE client' = client /\ client' # NewClient
                <5>1. link = "open"
                    BY <3>1, <3>3, <4>2 DEF StreamNext, Receive, Say, Break, Join, Start, Tick, EndRound,
                                            Chatter, Disconnected, Skip, GiveUp
                <5> QED
                    BY <3>1, <4>2, <5>1
            <4>3. CASE Receive
                <5>1. /\ outbox # <<>> /\ client' = Take(Head(outbox)) /\ link = "open"
                      /\ outbox \in Seq(Message)
                    BY <3>1, <3>3, <4>3 DEF Receive, StreamTypeOK
                <5>2. Head(outbox) \in Message /\ Single(Head(outbox)) /\ InTurn(client.base, Head(outbox))
                    BY <3>1, <5>1, HeadAndTail, SinglesForms, NextInTurn
                <5> QED
                    BY <3>1, <5>1, <5>2, AscendingRead
            <4> QED
                BY <3>1, <4>1, <4>2, <4>3, NextIsAny, ClientMoves
        <3> QED
            BY <3>2, <3>3
    <2> QED
        BY <2>2, <2>3
<1>3. OnceInv => HeardOnce
    BY DEF OnceInv, HeardOnce, Ascending
<1> QED
    BY <1>1, <1>2, <1>3, PTL DEF MCSpec
=============================================================================
