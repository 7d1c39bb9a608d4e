-------------------------- MODULE LobbyViewsProofs --------------------------
(***************************************************************************)
(* What a client's picture comes to, for any devices, connections, seats   *)
(* and messages on the way.                                                *)
(*                                                                         *)
(* ViewSettles speaks of a client that has heard everything; the room says *)
(* something on nearly every step, so the invariant is about what the      *)
(* client will hold: `Comes` follows the picture message by message        *)
(* through the channel, and at the end of it the picture agrees with the   *)
(* room as it is now (`Agrees`).  A step of the room queues what makes up  *)
(* for what it changes; reading a message takes one off the way.           *)
(***************************************************************************)
EXTENDS LobbyViews, RoomProofs

----------------------------------------------------------------------------
(***************************************************************************)
(* The invariant.                                                          *)
(***************************************************************************)

Fields == {"phase", "seat", "host", "seats", "started", "asked"}
Kinds == {"Roster", "Started", "Ended", "Welcome", "Error"}

\* Two pictures of the room that show the same.
Same(u, v) ==
    /\ u.phase = v.phase /\ u.seat = v.seat /\ u.host = v.host
    /\ u.seats = v.seats /\ u.started = v.started /\ u.asked = v.asked

\* The same but for the START button.
SameRoom(u, v) ==
    /\ u.phase = v.phase /\ u.seat = v.seat /\ u.host = v.host
    /\ u.seats = v.seats /\ u.started = v.started

\* What message m makes of picture v, field by field.
Made(v, m) ==
    LET playing == v.started \/ m.running
    IN  CASE m.kind = "Roster" ->
               [phase |-> v.phase, seat |-> v.seat, host |-> m.host, seats |-> m.seats,
                started |-> v.started, asked |-> v.asked]
          [] m.kind = "Started" ->
               [phase |-> v.phase, seat |-> v.seat, host |-> v.host, seats |-> v.seats,
                started |-> TRUE, asked |-> v.asked]
          [] m.kind = "Ended" ->
               [phase |-> IF v.phase = "Playing" THEN "Lobby" ELSE v.phase, seat |-> v.seat,
                host |-> v.host, seats |-> v.seats, started |-> FALSE, asked |-> FALSE]
          [] m.kind = "Welcome" ->
               [phase |-> IF playing THEN "Playing" ELSE "Lobby", seat |-> m.seat, host |-> v.host,
                seats |-> Merged(v.seats, m.roster), started |-> v.started, asked |-> playing]
          [] m.kind = "Error" ->
               [phase |-> v.phase, seat |-> v.seat, host |-> v.host, seats |-> v.seats,
                started |-> v.started, asked |-> FALSE]

\* f shows what each message of q makes of the picture the one before leaves.
Unfolds(f, q) ==
    \A k \in 1..Len(q) : q[k].kind \in Kinds /\ Same(f[k + 1], Made(f[k], q[k]))

\* The messages q make u of v.
Comes(v, q, u) == \E f : Same(f[1], v) /\ Unfolds(f, q) /\ Same(f[Len(q) + 1], u)

\* Who sits where, and is connected, whatever the ready flags.
Rows(rows) == {[seat |-> x.seat, token |-> x.token, connected |-> x.connected] : x \in rows}

\* v is a true picture of a room with seats s, in phase p, for seat i.
Agrees(v, i, s, p) ==
    /\ v.phase \in {"Lobby", "Playing"}
    /\ v.host = RosterOf(s).host
    /\ Rows(v.seats) = Rows(RosterOf(s).seats)
    /\ p \in {"Waiting", "Ended"} => v.seats = RosterOf(s).seats /\ v.phase = "Lobby"
    /\ p # "Waiting" => v.seat = i
    /\ p = "Ended" => ~v.asked

IsQueue(q) == \E S : q \in Seq(S)

\* What is on its way to the client of seat i ends in a true picture.
Pictured(c, i) ==
    /\ view[c].phase # "Closed" /\ DOMAIN view[c] = Fields /\ IsQueue(chan[c])
    /\ \E u : Comes(view[c], chan[c], u) /\ Agrees(u, i, seats, phase)

\* A connection that has not joined has heard nothing, or a refusal.
Unheard(c) ==
    \/ view[c] = NewClient /\ chan[c] = <<>>
    \/ /\ view[c].phase = "Greeting" /\ DOMAIN view[c] = Fields
       /\ chan[c] = <<>> \/ \E why : chan[c] = <<Error(why)>>

\* Who has not joined has heard nothing of it, and who sits will see it.
Views ==
    /\ \A c \in Conns : link[c] = "new" => Unheard(c)
    /\ \A c \in Conns : \A i \in SeatOf(c) : Pictured(c, i)

ViewInv ==
    /\ RoomInv
    /\ phase = "Waiting" => world # "running"
    /\ DOMAIN view = Conns /\ DOMAIN chan = Conns
    /\ Views

----------------------------------------------------------------------------
(***************************************************************************)
(* Queues, and what comes of them.                                         *)
(***************************************************************************)

LEMMA QueueFacts ==
    ASSUME NEW q, IsQueue(q)
    PROVE  /\ Len(q) \in Nat /\ DOMAIN q = 1..Len(q)
           /\ q = <<>> <=> Len(q) = 0
<1>1. PICK S : q \in Seq(S)
    BY DEF IsQueue
<1> QED
    BY <1>1

LEMMA QueueJoined ==
    ASSUME NEW q, NEW r, IsQueue(q), IsQueue(r)
    PROVE  /\ IsQueue(q \o r) /\ Len(q \o r) = Len(q) + Len(r)
           /\ \A k \in 1..Len(q) : (q \o r)[k] = q[k]
           /\ \A k \in 1..Len(r) : (q \o r)[Len(q) + k] = r[k]
<1>1. PICK S : q \in Seq(S)
    BY DEF IsQueue
<1>2. PICK T : r \in Seq(T)
    BY DEF IsQueue
<1>3. q \in Seq(S \cup T) /\ r \in Seq(S \cup T)
    BY <1>1, <1>2
<1>4. q \o r \in Seq(S \cup T)
    BY <1>3
<1>5. /\ Len(q \o r) = Len(q) + Len(r)
      /\ \A k \in 1..Len(q) : (q \o r)[k] = q[k]
      /\ \A k \in 1..Len(r) : (q \o r)[Len(q) + k] = r[k]
    BY <1>3
<1> QED
    BY <1>4, <1>5 DEF IsQueue

LEMMA QueueTaken ==
    ASSUME NEW q, IsQueue(q), q # <<>>
    PROVE  /\ IsQueue(Tail(q)) /\ Len(Tail(q)) = Len(q) - 1 /\ Len(q) > 0
           /\ Head(q) = q[1] /\ \A k \in 1..Len(q) - 1 : Tail(q)[k] = q[k + 1]
<1>1. PICK S : q \in Seq(S)
    BY DEF IsQueue
<1>2. Tail(q) \in Seq(S) /\ Len(Tail(q)) = Len(q) - 1 /\ Len(q) > 0
    BY <1>1
<1>3. Head(q) = q[1] /\ \A k \in 1..Len(q) - 1 : Tail(q)[k] = q[k + 1]
    BY <1>1
<1> QED
    BY <1>2, <1>3 DEF IsQueue

LEMMA QueueExtended ==
    ASSUME NEW q, NEW m, IsQueue(q)
    PROVE  IsQueue(<<m>>) /\ Append(q, m) = q \o <<m>> /\ <<>> \o q = q /\ q \o <<>> = q
<1>1. PICK S : q \in Seq(S)
    BY DEF IsQueue
<1> DEFINE T == S \cup {m}
<1>2. q \in Seq(T) /\ <<m>> \in Seq(T)
    BY <1>1
<1> HIDE DEF T
<1>3. Append(q, m) = q \o <<m>>
    BY <1>2
<1>4. <<>> \o q = q /\ q \o <<>> = q
    BY <1>2
<1> QED
    BY <1>2, <1>3, <1>4 DEF IsQueue

LEMMA QueuedTwo ==
    ASSUME NEW a, NEW b
    PROVE  /\ IsQueue(<<>>) /\ IsQueue(<<a>>) /\ IsQueue(<<a, b>>) /\ Len(<<a, b>>) = 2
           /\ Append(<<>>, a) = <<a>>
<1> DEFINE S == {a, b}
<1>1. <<a>> \in Seq(S) /\ <<b>> \in Seq(S) /\ <<a, b>> \in Seq(S) /\ <<>> \in Seq(S)
    OBVIOUS
<1>2. Append(<<>>, a) = <<a>> /\ Len(<<a, b>>) = 2
    OBVIOUS
<1> QED
    BY <1>1, <1>2 DEF IsQueue

LEMMA NothingComes ==
    ASSUME NEW v, NEW u, Same(v, u)
    PROVE  Comes(v, <<>>, u)
<1>1. PICK f : f = [k \in {1} |-> v]
    OBVIOUS
<1>2. Same(f[1], v) /\ Same(f[1], u)
    BY <1>1 DEF Same
<1>3. Len(<<>>) = 0 /\ Unfolds(f, <<>>)
    BY DEF Unfolds
<1> QED
    BY <1>2, <1>3 DEF Comes

LEMMA OneComes ==
    ASSUME NEW v, NEW m, m.kind \in Kinds
    PROVE  Comes(v, <<m>>, Made(v, m))
<1>1. PICK w : w = Made(v, m)
    OBVIOUS
<1>2. PICK f : f = [k \in {1, 2} |-> IF k = 1 THEN v ELSE w]
    OBVIOUS
<1>3. f[1] = v /\ f[2] = w
    BY <1>2
<1>4. Len(<<m>>) = 1 /\ <<m>>[1] = m
    OBVIOUS
<1>5. Same(f[1], v) /\ Same(f[1 + 1], Made(f[1], m)) /\ Same(f[1 + 1], w)
    BY <1>1, <1>3 DEF Same
<1>6. Unfolds(f, <<m>>)
    BY <1>4, <1>5 DEF Unfolds
<1> QED
    BY <1>1, <1>4, <1>5, <1>6 DEF Comes

LEMMA TwoCome ==
    ASSUME NEW v, NEW a, NEW b, a.kind \in Kinds, b.kind \in Kinds
    PROVE  Comes(v, <<a, b>>, Made(Made(v, a), b))
<1>1. PICK u : u = Made(v, a)
    OBVIOUS
<1>2. PICK w : w = Made(u, b)
    OBVIOUS
<1>3. PICK f : f = [k \in {1, 2, 3} |-> IF k = 1 THEN v ELSE IF k = 2 THEN u ELSE w]
    OBVIOUS
<1>4. f[1] = v /\ f[2] = u /\ f[3] = w
    BY <1>3
<1>5. Len(<<a, b>>) = 2 /\ <<a, b>>[1] = a /\ <<a, b>>[2] = b
    OBVIOUS
<1>6. Same(f[1], v) /\ Same(f[2], Made(f[1], a)) /\ Same(f[3], Made(f[2], b)) /\ Same(f[3], w)
    BY <1>1, <1>2, <1>4 DEF Same
<1>7. \A k \in 1..2 : (k = 1 \/ k = 2) /\ 1 + 1 = 2 /\ 2 + 1 = 3
    OBVIOUS
<1>8. Unfolds(f, <<a, b>>)
    BY <1>5, <1>6, <1>7 DEF Unfolds
<1> QED
    BY <1>1, <1>2, <1>5, <1>6, <1>7, <1>8 DEF Comes

\* Of two pictures that show the same a message makes two that do.
LEMMA SameMade ==
    ASSUME NEW u, NEW v, NEW m, Same(u, v), m.kind \in Kinds
    PROVE  Same(Made(u, m), Made(v, m))
BY DEF Same, Made, Kinds

LEMMA BothCome ==
    ASSUME NEW v, NEW q, NEW u, NEW r, NEW w, IsQueue(q), IsQueue(r), Comes(v, q, u), Comes(u, r, w)
    PROVE  Comes(v, q \o r, w)
<1>1. PICK f : Same(f[1], v) /\ Unfolds(f, q) /\ Same(f[Len(q) + 1], u)
    BY DEF Comes
<1>2. PICK g : Same(g[1], u) /\ Unfolds(g, r) /\ Same(g[Len(r) + 1], w)
    BY DEF Comes
<1> DEFINE n == Len(q)
           l == Len(r)
<1>3. n \in Nat /\ l \in Nat
    BY QueueFacts
<1>4. PICK s : s = q \o r
    OBVIOUS
<1>5. /\ Len(s) = n + l /\ \A k \in 1..n : s[k] = q[k]
      /\ \A k \in 1..l : s[n + k] = r[k]
    BY <1>4, QueueJoined
<1> HIDE DEF n, l
<1>6. PICK h : h = [k \in 1..n + l + 1 |-> IF k <= n THEN f[k] ELSE g[k - n]]
    OBVIOUS
<1>7. \A k \in 1..n : h[k] = f[k]
    BY <1>3, <1>6
<1>8. \A k \in 1..l + 1 : h[n + k] = g[k]
    <2> TAKE k \in 1..l + 1
    <2>1. n + k \in 1..n + l + 1 /\ ~(n + k <= n) /\ n + k - n = k
        BY <1>3
    <2>2. \A j \in 1..n + l + 1 : ~(j <= n) => h[j] = g[j - n]
        BY <1>6
    <2> QED
        BY <1>3, <2>1, <2>2
<1>9. Same(h[n + 1], f[n + 1])
    <2>1. h[n + 1] = g[1]
        BY <1>3, <1>8
    <2> QED
        BY <1>1, <1>2, <2>1 DEF Same, n
<1>10. Same(h[1], v)
    <2>1. CASE n = 0
        BY <1>1, <1>9, <2>1 DEF Same
    <2>2. CASE n # 0
        BY <1>1, <1>3, <1>7, <2>2
    <2> QED
        BY <2>1, <2>2
<1>11. Same(h[Len(s) + 1], w)
    <2>1. l + 1 \in 1..l + 1 /\ Len(s) + 1 = n + (l + 1)
        BY <1>3, <1>5
    <2> QED
        BY <1>2, <1>8, <2>1 DEF l
<1>12. \A k \in 1..n : s[k].kind \in Kinds /\ Same(h[k + 1], Made(h[k], s[k]))
    <2> TAKE k \in 1..n
    <2>1. q[k].kind \in Kinds /\ Same(f[k + 1], Made(f[k], q[k]))
        BY <1>1 DEF Unfolds, n
    <2>2. Same(h[k + 1], f[k + 1])
        <3>1. CASE k = n
            BY <1>9, <3>1
        <3>2. CASE k # n
            BY <1>3, <1>7, <3>2 DEF Same
        <3> QED
            BY <3>1, <3>2
    <2>3. h[k] = f[k] /\ s[k] = q[k]
        BY <1>5, <1>7
    <2> QED
        BY <2>1, <2>2, <2>3 DEF Same
<1>13. \A k \in 1..l : s[n + k].kind \in Kinds /\ Same(h[n + k + 1], Made(h[n + k], s[n + k]))
    <2> TAKE k \in 1..l
    <2>1. r[k].kind \in Kinds /\ Same(g[k + 1], Made(g[k], r[k]))
        BY <1>2 DEF Unfolds, l
    <2>2. k \in 1..l + 1 /\ k + 1 \in 1..l + 1 /\ n + k + 1 = n + (k + 1)
        BY <1>3
    <2>3. h[n + k] = g[k] /\ h[n + k + 1] = g[k + 1] /\ s[n + k] = r[k]
        BY <1>5, <1>8, <2>2
    <2> QED
        BY <2>1, <2>3
<1>14. Unfolds(h, s)
    <2> SUFFICES ASSUME NEW k \in 1..n + l PROVE s[k].kind \in Kinds /\ Same(h[k + 1], Made(h[k], s[k]))
        BY <1>5 DEF Unfolds
    <2>1. CASE k <= n
        BY <1>3, <1>12, <2>1
    <2>2. CASE ~(k <= n)
        <3>1. k - n \in 1..l /\ n + (k - n) = k
            BY <1>3, <2>2
        <3> QED
            BY <1>13, <3>1
    <2> QED
        BY <2>1, <2>2
<1> QED
    BY <1>4, <1>10, <1>11, <1>14 DEF Comes

\* The client does with a message what `Made` says.
LEMMA TakeMade ==
    ASSUME NEW v, NEW m, DOMAIN v = Fields, m.kind \in Kinds
    PROVE  Same(Take(v, m), Made(v, m)) /\ DOMAIN Take(v, m) = Fields
<1>1. CASE m.kind = "Roster"
    BY <1>1 DEF Same, Take, Made, Fields
<1>2. CASE m.kind = "Started"
    BY <1>2 DEF Same, Take, Made, Fields
<1>3. CASE m.kind = "Ended"
    BY <1>3 DEF Same, Take, TakeEnded, Made, Fields
<1>4. CASE m.kind = "Welcome"
    BY <1>4 DEF Same, Take, TakeWelcome, Made, Fields
<1>5. CASE m.kind = "Error"
    BY <1>5 DEF Same, Take, Made, Fields
<1> QED
    BY <1>1, <1>2, <1>3, <1>4, <1>5 DEF Kinds

\* The message at the head is taken: the rest makes the same of what it made.
LEMMA HeadTaken ==
    ASSUME NEW v, NEW q, NEW u, IsQueue(q), q # <<>>, DOMAIN v = Fields, Comes(v, q, u)
    PROVE  /\ Head(q).kind \in Kinds /\ DOMAIN Take(v, Head(q)) = Fields
           /\ Take(v, Head(q)).phase \in {v.phase, "Lobby", "Playing"}
           /\ Comes(Take(v, Head(q)), Tail(q), u)
<1>1. PICK f : Same(f[1], v) /\ Unfolds(f, q) /\ Same(f[Len(q) + 1], u)
    BY DEF Comes
<1> DEFINE n == Len(q)
<1>2. n \in Nat /\ n > 0 /\ Head(q) = q[1]
    BY QueueFacts, QueueTaken
<1> PICK r : r = Tail(q)
    OBVIOUS
<1>3. Len(r) = n - 1 /\ \A k \in 1..n - 1 : r[k] = q[k + 1]
    BY QueueTaken
<1>4. q[1].kind \in Kinds /\ Same(f[1 + 1], Made(f[1], q[1]))
    BY <1>1, <1>2 DEF Unfolds
<1> PICK t : t = Take(v, q[1])
    OBVIOUS
<1>5. Same(t, Made(v, q[1])) /\ DOMAIN t = Fields
    BY <1>4, TakeMade
<1>6. Same(f[2], t)
    <2>1. Same(Made(f[1], q[1]), Made(v, q[1])) /\ 1 + 1 = 2
        BY <1>1, <1>4, SameMade
    <2> QED
        BY <1>4, <1>5, <2>1 DEF Same
<1>7. t.phase \in {v.phase, "Lobby", "Playing"}
    <2>1. t.phase = Made(v, q[1]).phase
        BY <1>5 DEF Same
    <2> QED
        BY <1>4, <2>1 DEF Made, Kinds
<1> HIDE DEF n
<1>8. PICK g : g = [k \in 1..n |-> f[k + 1]]
    OBVIOUS
<1>9. \A k \in 1..n : g[k] = f[k + 1]
    BY <1>8
<1>10. Same(g[1], t) /\ Same(g[Len(r) + 1], u)
    <2>1. 1 \in 1..n /\ 1 + 1 = 2 /\ Len(r) + 1 = n /\ n \in 1..n
        BY <1>2, <1>3
    <2> QED
        BY <1>1, <1>6, <1>9, <2>1 DEF n
<1>11. Unfolds(g, r)
    <2> SUFFICES ASSUME NEW k \in 1..n - 1 PROVE r[k].kind \in Kinds /\ Same(g[k + 1], Made(g[k], r[k]))
        BY <1>3 DEF Unfolds
    <2>1. k + 1 \in 1..n /\ k \in 1..n
        BY <1>2
    <2>2. q[k + 1].kind \in Kinds /\ Same(f[k + 1 + 1], Made(f[k + 1], q[k + 1]))
        BY <1>1, <2>1 DEF Unfolds, n
    <2>3. g[k] = f[k + 1] /\ g[k + 1] = f[k + 1 + 1] /\ r[k] = q[k + 1]
        BY <1>3, <1>9, <2>1
    <2> QED
        BY <2>2, <2>3
<1>12. Comes(t, r, u)
    BY <1>10, <1>11 DEF Comes
<1> QED
    BY <1>2, <1>4, <1>5, <1>7, <1>12

\* Of two pictures that differ in the button a message makes two that do.
LEMMA SameRoomMade ==
    ASSUME NEW u, NEW v, NEW m, SameRoom(u, v), m.kind \in Kinds
    PROVE  /\ SameRoom(Made(u, m), Made(v, m))
           /\ m.kind \in {"Ended", "Welcome", "Error"} => Made(u, m).asked = Made(v, m).asked
           /\ m.kind \in {"Roster", "Started"} => Made(u, m).asked = u.asked /\ Made(v, m).asked = v.asked
BY DEF SameRoom, Made, Kinds

\* START pressed: the messages on the way make the same of the rest.
LEMMA PressedComes ==
    ASSUME NEW v, NEW w, NEW q, NEW u, IsQueue(q), SameRoom(w, v), Comes(v, q, u)
    PROVE  \E x : Comes(w, q, x) /\ SameRoom(x, u)
<1>1. PICK f : Same(f[1], v) /\ Unfolds(f, q) /\ Same(f[Len(q) + 1], u)
    BY DEF Comes
<1> DEFINE n == Len(q)
           Kept(k) == \A l \in 1..k - 1 : q[l].kind \in {"Roster", "Started"}
           Pressed(k) == [phase |-> f[k].phase, seat |-> f[k].seat, host |-> f[k].host,
                          seats |-> f[k].seats, started |-> f[k].started,
                          asked |-> IF Kept(k) THEN w.asked ELSE f[k].asked]
<1>2. n \in Nat
    BY QueueFacts
<1>3. \A k : SameRoom(Pressed(k), f[k]) /\ Pressed(k).asked = IF Kept(k) THEN w.asked ELSE f[k].asked
    BY DEF SameRoom
<1> PICK g : g = [k \in 1..n + 1 |-> Pressed(k)]
    OBVIOUS
<1> HIDE DEF Pressed
<1>4. \A k \in 1..n + 1 : SameRoom(g[k], f[k]) /\ g[k].asked = IF Kept(k) THEN w.asked ELSE f[k].asked
    BY <1>3
<1>5. Same(g[1], w)
    <2>1. 1 \in 1..n + 1 /\ Kept(1)
        BY <1>2
    <2>2. SameRoom(g[1], f[1]) /\ g[1].asked = w.asked
        BY <1>4, <2>1
    <2> QED
        BY <1>1, <2>2 DEF Same, SameRoom
<1>6. Unfolds(g, q)
    <2> SUFFICES ASSUME NEW k \in 1..n PROVE q[k].kind \in Kinds /\ Same(g[k + 1], Made(g[k], q[k]))
        BY DEF Unfolds
    <2>1. q[k].kind \in Kinds /\ Same(f[k + 1], Made(f[k], q[k]))
        BY <1>1 DEF Unfolds
    <2>2. k \in 1..n + 1 /\ k + 1 \in 1..n + 1
        BY <1>2
    <2>3. /\ SameRoom(g[k], f[k]) /\ g[k].asked = (IF Kept(k) THEN w.asked ELSE f[k].asked)
          /\ SameRoom(g[k + 1], f[k + 1]) /\ g[k + 1].asked = (IF Kept(k + 1) THEN w.asked ELSE f[k + 1].asked)
        BY <1>4, <2>2
    <2>4. Kept(k + 1) <=> Kept(k) /\ q[k].kind \in {"Roster", "Started"}
        BY <1>2
    <2> HIDE DEF Kept
    <2>5. /\ SameRoom(Made(g[k], q[k]), Made(f[k], q[k]))
          /\ q[k].kind \in {"Ended", "Welcome", "Error"} => Made(g[k], q[k]).asked = Made(f[k], q[k]).asked
          /\ q[k].kind \in {"Roster", "Started"} => Made(g[k], q[k]).asked = g[k].asked
                                                   /\ Made(f[k], q[k]).asked = f[k].asked
        BY <2>1, <2>3, SameRoomMade
    <2>6. SameRoom(g[k + 1], Made(g[k], q[k]))
        BY <2>1, <2>3, <2>5 DEF Same, SameRoom
    <2>7. g[k + 1].asked = Made(g[k], q[k]).asked
        BY <2>1, <2>3, <2>4, <2>5 DEF Same, Kinds
    <2> QED
        BY <2>1, <2>6, <2>7 DEF Same, SameRoom
<1>7. SameRoom(g[n + 1], u)
    <2>1. n + 1 \in 1..n + 1
        BY <1>2
    <2>2. SameRoom(g[n + 1], f[n + 1])
        BY <1>4, <2>1
    <2> QED
        BY <1>1, <2>2 DEF Same, SameRoom
<1>8. Comes(w, q, g[n + 1])
    <2>1. Same(g[n + 1], g[n + 1])
        BY DEF Same
    <2> QED
        BY <1>5, <1>6, <2>1 DEF Comes
<1> QED
    BY <1>7, <1>8

----------------------------------------------------------------------------
(***************************************************************************)
(* What a picture agrees with once the room has spoken.                    *)
(***************************************************************************)

\* A roster is all a picture lacks, as long as the room stays where it is.
LEMMA RosterAgrees ==
    ASSUME NEW u, NEW i, NEW j, NEW s, NEW t, NEW p, NEW r, Agrees(u, j, s, p),
           r # "Waiting" => p # "Waiting" /\ i = j,
           r = "Waiting" => p = "Waiting",
           r = "Ended" => p = "Ended"
    PROVE  Agrees(Made(u, RosterOf(t)), i, t, r)
<1>1. PICK m : m = RosterOf(t)
    OBVIOUS
<1>2. m.kind = "Roster"
    BY <1>1 DEF RosterOf
<1>3. PICK w : w = Made(u, m)
    OBVIOUS
<1>4. /\ w.phase = u.phase /\ w.seat = u.seat /\ w.asked = u.asked
      /\ w.host = m.host /\ w.seats = m.seats
    BY <1>2, <1>3 DEF Made
<1>5. Agrees(w, i, t, r)
    BY <1>1, <1>4 DEF Agrees
<1> QED
    BY <1>1, <1>3, <1>5

\* The end of a round, and the roster after it.
LEMMA EndedAgrees ==
    ASSUME NEW u, NEW i, NEW s, u.phase \in {"Lobby", "Playing"}, u.seat = i
    PROVE  Agrees(Made(Made(u, Ended), RosterOf(s)), i, s, "Ended")
<1>1. PICK m : m = RosterOf(s)
    OBVIOUS
<1>2. m.kind = "Roster" /\ Ended.kind = "Ended"
    BY <1>1 DEF RosterOf, Ended
<1>3. PICK v : v = Made(u, Ended)
    OBVIOUS
<1>4. v.phase = "Lobby" /\ v.seat = i /\ ~v.asked
    BY <1>2, <1>3 DEF Made
<1>5. PICK w : w = Made(v, m)
    OBVIOUS
<1>6. /\ w.phase = v.phase /\ w.seat = v.seat /\ w.asked = v.asked
      /\ w.host = m.host /\ w.seats = m.seats
    BY <1>2, <1>5 DEF Made
<1>7. Agrees(w, i, s, "Ended")
    BY <1>1, <1>4, <1>6 DEF Agrees
<1> QED
    BY <1>1, <1>3, <1>5, <1>7

\* A press that is refused is a press that never was.
LEMMA ErrorAgrees ==
    ASSUME NEW u, NEW v, NEW i, NEW s, NEW p, NEW why, SameRoom(u, v), Agrees(v, i, s, p)
    PROVE  Agrees(Made(u, Error(why)), i, s, p)
<1>1. Error(why).kind = "Error"
    BY DEF Error
<1>2. PICK w : w = Made(u, Error(why))
    OBVIOUS
<1>3. w.phase = u.phase /\ w.seat = u.seat /\ w.host = u.host /\ w.seats = u.seats /\ ~w.asked
    BY <1>1, <1>2 DEF Made
<1>4. Agrees(w, i, s, p)
    BY <1>3 DEF Agrees, SameRoom
<1> QED
    BY <1>2, <1>4

\* The first picture: a welcome, and the roster.
LEMMA WelcomeAgrees ==
    ASSUME NEW u, NEW i, NEW s, NEW p, NEW w, ~u.started, p = "Waiting" => w # "running", p # "Ended"
    PROVE  Agrees(Made(Made(u, Welcome(i, s, w)), RosterOf(s)), i, s, p)
<1>1. PICK m : m = RosterOf(s)
    OBVIOUS
<1>2. PICK l : l = Welcome(i, s, w)
    OBVIOUS
<1>3. m.kind = "Roster" /\ l.kind = "Welcome" /\ l.seat = i /\ l.running = (w = "running")
    BY <1>1, <1>2 DEF RosterOf, Welcome
<1>4. PICK v : v = Made(u, l)
    OBVIOUS
<1>5. v.phase = (IF u.started \/ l.running THEN "Playing" ELSE "Lobby") /\ v.seat = i
    BY <1>3, <1>4 DEF Made
<1>6. PICK x : x = Made(v, m)
    OBVIOUS
<1>7. x.phase = v.phase /\ x.seat = v.seat /\ x.host = m.host /\ x.seats = m.seats
    BY <1>3, <1>6 DEF Made
<1>8. Agrees(x, i, s, p)
    BY <1>1, <1>3, <1>5, <1>7 DEF Agrees
<1> QED
    BY <1>1, <1>2, <1>4, <1>6, <1>8

\* The same seats are taken, each by the same device and as connected.
Alike(s, t) ==
    /\ Occupied(t) = Occupied(s)
    /\ \A j \in Occupied(s) : t[j].token = s[j].token /\ (t[j].conn = NoConn <=> s[j].conn = NoConn)

\* The rows of a roster, of the seats it is of.
LEMMA RosterRows ==
    ASSUME NEW s
    PROVE  Rows(RosterOf(s).seats) =
             {[seat |-> i, token |-> s[i].token, connected |-> s[i].conn # NoConn] : i \in Occupied(s)}
<1> DEFINE row(i) == [seat |-> i, token |-> s[i].token, ready |-> s[i].ready, connected |-> s[i].conn # NoConn]
           bare(x) == [seat |-> x.seat, token |-> x.token, connected |-> x.connected]
           seen(i) == [seat |-> i, token |-> s[i].token, connected |-> s[i].conn # NoConn]
<1>1. RosterOf(s).seats = {row(i) : i \in Occupied(s)}
    BY DEF RosterOf
<1>2. \A i : bare(row(i)) = seen(i)
    OBVIOUS
<1>3. Rows(RosterOf(s).seats) = {bare(x) : x \in RosterOf(s).seats}
    BY DEF Rows
<1> HIDE DEF row, bare, seen
<1>4. {bare(x) : x \in {row(i) : i \in Occupied(s)}} = {seen(i) : i \in Occupied(s)}
    BY <1>2
<1>5. Rows(RosterOf(s).seats) = {seen(i) : i \in Occupied(s)}
    BY <1>1, <1>3, <1>4
<1> QED
    BY <1>5 DEF seen

LEMMA AlikeRosters ==
    ASSUME NEW s, NEW t, Alike(s, t)
    PROVE  RosterOf(t).host = RosterOf(s).host /\ Rows(RosterOf(t).seats) = Rows(RosterOf(s).seats)
<1>1. RosterOf(t).host = RosterOf(s).host
    BY DEF Alike, RosterOf
<1> DEFINE seen(z, i) == [seat |-> i, token |-> z[i].token, connected |-> z[i].conn # NoConn]
<1>2. Rows(RosterOf(s).seats) = {seen(s, i) : i \in Occupied(s)} /\ Rows(RosterOf(t).seats) = {seen(t, i) : i \in Occupied(t)}
    BY RosterRows
<1>3. \A i \in Occupied(s) : seen(t, i) = seen(s, i)
    BY DEF Alike
<1> HIDE DEF seen
<1>4. {seen(t, i) : i \in Occupied(t)} = {seen(s, i) : i \in Occupied(s)}
    BY <1>3 DEF Alike
<1> QED
    BY <1>1, <1>2, <1>4

\* A welcome into a round merged into a roster that was right stays right.
LEMMA MergedRows ==
    ASSUME NEW s, NEW t, Alike(s, t), NEW i, NEW w
    PROVE  Rows(Merged(RosterOf(s).seats, Welcome(i, t, w).roster)) = Rows(RosterOf(t).seats)
<1> DEFINE row(j) == [seat |-> j, token |-> s[j].token, ready |-> s[j].ready, connected |-> s[j].conn # NoConn]
           name(j) == [seat |-> j, token |-> t[j].token]
           seen(j) == [seat |-> j, token |-> t[j].token, connected |-> t[j].conn # NoConn]
           bare(x) == [seat |-> x.seat, token |-> x.token, connected |-> x.connected]
           O == Occupied(s)
<1> PICK known : known = RosterOf(s).seats
    OBVIOUS
<1> PICK roster : roster = Welcome(i, t, w).roster
    OBVIOUS
<1> DEFINE told(x) == [seat |-> x.seat, token |-> x.token,
                       ready |-> \E y \in known : y.seat = x.seat /\ y.ready,
                       connected |-> \A y \in known : y.seat = x.seat => y.connected]
<1>1. known = {row(j) : j \in O} /\ roster = {name(j) : j \in O}
    BY DEF RosterOf, Welcome, Alike
<1>2. \A j : row(j).seat = j /\ name(j).seat = j /\ name(j).token = t[j].token
    OBVIOUS
<1>3. \A j \in O : row(j).connected <=> t[j].conn # NoConn
    BY DEF Alike
<1> PICK R : R = Merged(known, roster)
    OBVIOUS
<1> HIDE DEF row, name, O
<1>4. R = {told(x) : x \in roster}
    <2>1. \A x \in known : \E y \in roster : y.seat = x.seat
        BY <1>1, <1>2
    <2>2. {x \in known : \A y \in roster : y.seat # x.seat} = {}
        BY <2>1
    <2>3. R = {} \cup {told(x) : x \in roster}
        BY <2>2 DEF Merged
    <2> HIDE DEF told
    <2> QED
        BY <2>3
<1>5. \A j \in O : bare(told(name(j))) = seen(j)
    <2> TAKE j \in O
    <2>1. (\A y \in known : y.seat = j => y.connected) <=> t[j].conn # NoConn
        <3>1. \A y \in known : y.seat = j => y = row(j)
            BY <1>1, <1>2
        <3>2. row(j) \in known /\ row(j).seat = j
            BY <1>1, <1>2
        <3> QED
            BY <1>3, <3>1, <3>2
    <2>2. told(name(j)).seat = j /\ told(name(j)).token = t[j].token
        BY <1>2
    <2>3. told(name(j)).connected = (\A y \in known : y.seat = j => y.connected)
        BY <1>2
    <2> HIDE DEF told
    <2> QED
        BY <2>1, <2>2, <2>3
<1>6. Rows(R) = {bare(x) : x \in R}
    BY DEF Rows
<1> HIDE DEF told, bare, seen
<1>7. Rows(R) = {seen(j) : j \in O}
    <2>1. R = {told(name(j)) : j \in O}
        BY <1>1, <1>4
    <2>2. {bare(x) : x \in R} = {bare(told(name(j))) : j \in O}
        BY <2>1
    <2>3. {bare(told(name(j))) : j \in O} = {seen(j) : j \in O}
        BY <1>5
    <2> QED
        BY <1>6, <2>2, <2>3
<1>8. Rows(RosterOf(t).seats) = {seen(j) : j \in O}
    <2>1. Rows(RosterOf(t).seats) = {seen(j) : j \in Occupied(t)}
        BY RosterRows DEF seen
    <2> QED
        BY <2>1 DEF Alike, O
<1> QED
    BY <1>7, <1>8

\* The start of a round: the welcome into it, at the end of what came before.
LEMMA StartedAgrees ==
    ASSUME NEW u, NEW v, NEW i, NEW j, NEW s, NEW t, NEW p, NEW r,
           SameRoom(u, v), Agrees(v, j, s, p), p \in {"Waiting", "Ended"}, r \in {"Playing", "Paused"},
           Alike(s, t)
    PROVE  Agrees(Made(Made(u, Started), Welcome(i, t, "fresh")), i, t, r)
<1>1. PICK l : l = Welcome(i, t, "fresh")
    OBVIOUS
<1>2. l.kind = "Welcome" /\ l.seat = i /\ Started.kind = "Started"
    BY <1>1 DEF Welcome, Started
<1>3. PICK x : x = Made(u, Started)
    OBVIOUS
<1>4. x.phase = u.phase /\ x.host = u.host /\ x.seats = u.seats /\ x.started = TRUE
    BY <1>2, <1>3 DEF Made
<1>5. PICK y : y = Made(x, l)
    OBVIOUS
<1>6. y.phase = "Playing" /\ y.seat = i /\ y.host = x.host /\ y.seats = Merged(x.seats, l.roster)
    BY <1>2, <1>4, <1>5 DEF Made
<1>7. x.host = RosterOf(s).host /\ x.seats = RosterOf(s).seats
    BY <1>4 DEF Agrees, SameRoom
<1>8. y.host = RosterOf(t).host
    BY <1>6, <1>7, AlikeRosters
<1>9. Rows(y.seats) = Rows(RosterOf(t).seats)
    BY <1>1, <1>6, <1>7, MergedRows
<1>10. Agrees(y, i, t, r)
    BY <1>6, <1>8, <1>9 DEF Agrees
<1> QED
    BY <1>1, <1>3, <1>5, <1>10

----------------------------------------------------------------------------
(***************************************************************************)
(* One client, and one step of the room.                                   *)
(***************************************************************************)

\* What is said makes of a true picture of the room a true one of what the
\* room has become.
LEMMA Hears ==
    ASSUME NEW d, NEW i, NEW j, NEW r, IsQueue(r), Pictured(d, j),
           view'[d].phase = view[d].phase, DOMAIN view'[d] = Fields, SameRoom(view'[d], view[d]),
           chan'[d] = chan[d] \o r,
           \A u, v : SameRoom(u, v) /\ (view'[d] = view[d] => u = v) /\ Agrees(v, j, seats, phase) =>
                        \E w : Comes(u, r, w) /\ Agrees(w, i, seats', phase')
    PROVE  Pictured(d, i)'
<1>1. PICK v : Comes(view[d], chan[d], v) /\ Agrees(v, j, seats, phase)
    BY DEF Pictured
<1>2. IsQueue(chan[d]) /\ view[d].phase # "Closed"
    BY DEF Pictured
<1>3. PICK u : Comes(view'[d], chan[d], u) /\ SameRoom(u, v) /\ (view'[d] = view[d] => u = v)
    <2>1. CASE view'[d] = view[d]
        BY <1>1, <2>1 DEF SameRoom
    <2>2. CASE view'[d] # view[d]
        BY <1>1, <1>2, <2>2, PressedComes
    <2> QED
        BY <2>1, <2>2
<1>4. PICK w : Comes(u, r, w) /\ Agrees(w, i, seats', phase')
    BY <1>1, <1>3
<1>5. Comes(view'[d], chan'[d], w)
    BY <1>2, <1>3, <1>4, BothCome
<1>6. IsQueue(chan'[d])
    BY <1>2, QueueJoined
<1> QED
    BY <1>2, <1>4, <1>5, <1>6 DEF Pictured

\* The room says nothing, and neither its seats nor what a picture of it
\* depends on have changed.
LEMMA HearsNothing ==
    ASSUME NEW d, NEW i, Pictured(d, i), view'[d] = view[d], chan'[d] = chan[d] \o <<>>,
           seats' = seats, phase' = phase \/ (phase \in {"Playing", "Paused"} /\ phase' \in {"Playing", "Paused"})
    PROVE  Pictured(d, i)'
<1>1. \A u : Agrees(u, i, seats, phase) => Agrees(u, i, seats', phase')
    BY DEF Agrees
<1>2. \A u : Comes(u, <<>>, u)
    BY NothingComes DEF Same
<1>3. DOMAIN view'[d] = Fields /\ SameRoom(view'[d], view[d]) /\ view'[d].phase = view[d].phase
    BY DEF Pictured, SameRoom
<1>4. IsQueue(<<>>)
    BY QueuedTwo
<1> QED
    BY <1>1, <1>2, <1>3, <1>4, Hears

\* The room says who sits where now.
LEMMA HearsRoster ==
    ASSUME NEW d, NEW i, NEW j, Pictured(d, j), view'[d] = view[d],
           chan'[d] = chan[d] \o <<RosterOf(seats')>>,
           phase' # "Waiting" => phase # "Waiting" /\ i = j,
           phase' = "Waiting" => phase = "Waiting",
           phase' = "Ended" => phase = "Ended"
    PROVE  Pictured(d, i)'
<1>1. PICK t : t = seats'
    OBVIOUS
<1>2. PICK p : p = phase'
    OBVIOUS
<1>3. \A u : Agrees(u, j, seats, phase) => Agrees(Made(u, RosterOf(t)), i, t, p)
    BY <1>2, RosterAgrees
<1>4. RosterOf(t).kind \in Kinds
    BY DEF RosterOf, Kinds
<1>5. \A u : Comes(u, <<RosterOf(t)>>, Made(u, RosterOf(t)))
    BY <1>4, OneComes
<1>6. IsQueue(<<RosterOf(t)>>)
    BY QueuedTwo
<1>7. DOMAIN view'[d] = Fields /\ SameRoom(view'[d], view[d]) /\ view'[d].phase = view[d].phase
    BY DEF Pictured, SameRoom
<1>8. \A u, v : SameRoom(u, v) /\ (view'[d] = view[d] => u = v) /\ Agrees(v, j, seats, phase) =>
                        \E w : Comes(u, <<RosterOf(t)>>, w) /\ Agrees(w, i, seats', phase')
    BY <1>1, <1>2, <1>3, <1>5
<1> QED
    BY <1>1, <1>6, <1>7, <1>8, Hears

\* The room says that the round is over.
LEMMA HearsEnded ==
    ASSUME NEW d, NEW i, Pictured(d, i), view'[d] = view[d],
           chan'[d] = chan[d] \o (<<Ended>> \o <<RosterOf(seats)>>), seats' = seats,
           phase # "Waiting", phase' = "Ended"
    PROVE  Pictured(d, i)'
<1>1. PICK m : m = RosterOf(seats)
    OBVIOUS
<1>2. \A u : Agrees(u, i, seats, phase) => Agrees(Made(Made(u, Ended), m), i, seats, "Ended")
    BY <1>1, EndedAgrees DEF Agrees
<1>3. m.kind \in Kinds /\ Ended.kind \in Kinds
    BY <1>1 DEF RosterOf, Ended, Kinds
<1> PICK r : r = <<Ended>> \o <<m>>
    OBVIOUS
<1>4. \A u : Comes(u, r, Made(Made(u, Ended), m))
    <2> TAKE u
    <2>1. Comes(u, <<Ended>>, Made(u, Ended)) /\ Comes(Made(u, Ended), <<m>>, Made(Made(u, Ended), m))
        BY <1>3, OneComes
    <2>2. IsQueue(<<Ended>>) /\ IsQueue(<<m>>)
        BY QueuedTwo
    <2> QED
        BY <2>1, <2>2, BothCome
<1>5. IsQueue(r)
    <2>1. IsQueue(<<Ended>>) /\ IsQueue(<<m>>)
        BY QueuedTwo
    <2> QED
        BY <2>1, QueueJoined
<1>6. DOMAIN view'[d] = Fields /\ SameRoom(view'[d], view[d]) /\ view'[d].phase = view[d].phase
    BY DEF Pictured, SameRoom
<1>7. \A u, v : SameRoom(u, v) /\ (view'[d] = view[d] => u = v) /\ Agrees(v, i, seats, phase) =>
                        \E w : Comes(u, r, w) /\ Agrees(w, i, seats', phase')
    BY <1>2, <1>4
<1> QED
    BY <1>1, <1>5, <1>6, <1>7, Hears

\* A press is refused.
LEMMA HearsError ==
    ASSUME NEW d, NEW i, NEW why, Pictured(d, i), SameRoom(view'[d], view[d]), DOMAIN view'[d] = Fields,
           chan'[d] = chan[d] \o <<Error(why)>>, seats' = seats, phase' = phase
    PROVE  Pictured(d, i)'
<1>1. \A u, v : SameRoom(u, v) /\ Agrees(v, i, seats, phase) => Agrees(Made(u, Error(why)), i, seats, phase)
    BY ErrorAgrees
<1>2. Error(why).kind \in Kinds
    BY DEF Error, Kinds
<1>3. \A u : Comes(u, <<Error(why)>>, Made(u, Error(why)))
    BY <1>2, OneComes
<1>4. IsQueue(<<Error(why)>>)
    BY QueuedTwo
<1>5. \A u, v : SameRoom(u, v) /\ (view'[d] = view[d] => u = v) /\ Agrees(v, i, seats, phase) =>
                        \E w : Comes(u, <<Error(why)>>, w) /\ Agrees(w, i, seats', phase')
    BY <1>1, <1>3
<1>6. view'[d].phase = view[d].phase
    BY DEF SameRoom
<1> QED
    BY <1>4, <1>5, <1>6, Hears

\* The round starts.
LEMMA HearsStart ==
    ASSUME NEW d, NEW i, NEW j, Pictured(d, j), SameRoom(view'[d], view[d]), DOMAIN view'[d] = Fields,
           chan'[d] = chan[d] \o <<Started, Welcome(i, seats', "fresh")>>, Alike(seats, seats'),
           phase \in {"Waiting", "Ended"}, phase' \in {"Playing", "Paused"}
    PROVE  Pictured(d, i)'
<1>1. PICK t : t = seats'
    OBVIOUS
<1>2. PICK p : p = phase'
    OBVIOUS
<1>3. PICK m : m = Welcome(i, t, "fresh")
    OBVIOUS
<1>4. \A u, v : SameRoom(u, v) /\ Agrees(v, j, seats, phase) => Agrees(Made(Made(u, Started), m), i, t, p)
    <2>1. Alike(seats, t) /\ p \in {"Playing", "Paused"}
        BY <1>1, <1>2
    <2> QED
        BY <1>3, <2>1, StartedAgrees
<1>5. m.kind \in Kinds /\ Started.kind \in Kinds
    BY <1>3 DEF Welcome, Started, Kinds
<1>6. \A u : Comes(u, <<Started, m>>, Made(Made(u, Started), m))
    BY <1>5, TwoCome
<1>7. IsQueue(<<Started, m>>)
    BY QueuedTwo
<1>8. \A u, v : SameRoom(u, v) /\ (view'[d] = view[d] => u = v) /\ Agrees(v, j, seats, phase) =>
                        \E w : Comes(u, <<Started, m>>, w) /\ Agrees(w, i, seats', phase')
    BY <1>1, <1>2, <1>4, <1>6
<1>9. view'[d].phase = view[d].phase
    BY DEF SameRoom
<1>10. chan'[d] = chan[d] \o <<Started, m>>
    BY <1>1, <1>3
<1> QED
    BY <1>7, <1>8, <1>9, <1>10, Hears

\* The client greeted gets its first picture.
LEMMA HearsGreeting ==
    ASSUME NEW d, NEW i, view[d] = NewClient, view'[d] = [NewClient EXCEPT !.phase = "Greeting"],
           \/ /\ phase' # "Ended"
              /\ chan'[d] = <<Welcome(i, seats', world)>> \o <<RosterOf(seats')>>
           \/ /\ phase' = "Ended"
              /\ chan'[d] = <<Welcome(i, seats', world), Ended>> \o <<RosterOf(seats')>>,
           phase' = "Waiting" => world # "running"
    PROVE  Pictured(d, i)'
<1>1. PICK t : t = seats'
    OBVIOUS
<1>2. PICK p : p = phase'
    OBVIOUS
<1>3. PICK l : l = Welcome(i, t, world)
    OBVIOUS
<1>4. PICK m : m = RosterOf(t)
    OBVIOUS
<1>5. PICK v : v = view'[d]
    OBVIOUS
<1>6. l.kind = "Welcome" /\ l.seat = i /\ l.kind \in Kinds /\ m.kind \in Kinds /\ Ended.kind \in Kinds
    BY <1>3, <1>4 DEF RosterOf, Welcome, Ended, Kinds
<1>7. ~v.started /\ v.phase = "Greeting" /\ DOMAIN v = Fields
    BY <1>5 DEF NewClient, Fields
<1>8. \E u : Comes(v, chan'[d], u) /\ Agrees(u, i, t, p)
    <2>1. CASE p # "Ended"
        <3>1. Comes(v, <<l>> \o <<m>>, Made(Made(v, l), m))
            <4>1. Comes(v, <<l>>, Made(v, l)) /\ Comes(Made(v, l), <<m>>, Made(Made(v, l), m))
                BY <1>6, OneComes
            <4>2. IsQueue(<<l>>) /\ IsQueue(<<m>>)
                BY QueuedTwo
            <4> QED
                BY <4>1, <4>2, BothCome
        <3>2. Agrees(Made(Made(v, l), m), i, t, p)
            BY <1>2, <1>3, <1>4, <1>7, <2>1, WelcomeAgrees
        <3> QED
            BY <1>1, <1>2, <1>3, <1>4, <2>1, <3>1, <3>2
    <2>2. CASE p = "Ended"
        <3>1. PICK w : w = Made(v, l)
            OBVIOUS
        <3>2. w.phase \in {"Lobby", "Playing"} /\ w.seat = i
            BY <1>6, <3>1 DEF Made
        <3>3. Comes(v, <<l, Ended>>, Made(w, Ended))
            BY <1>6, <3>1, TwoCome
        <3>4. Comes(Made(w, Ended), <<m>>, Made(Made(w, Ended), m))
            BY <1>6, OneComes
        <3>5. IsQueue(<<l, Ended>>) /\ IsQueue(<<m>>)
            BY QueuedTwo
        <3>6. Comes(v, <<l, Ended>> \o <<m>>, Made(Made(w, Ended), m))
            BY <3>3, <3>4, <3>5, BothCome
        <3>7. Agrees(Made(Made(w, Ended), m), i, t, p)
            BY <1>4, <2>2, <3>2, EndedAgrees
        <3> QED
            BY <1>1, <1>2, <1>3, <1>4, <2>2, <3>6, <3>7
    <2> QED
        BY <2>1, <2>2
<1>9. IsQueue(chan'[d])
    <2>1. IsQueue(<<l>>) /\ IsQueue(<<l, Ended>>) /\ IsQueue(<<m>>)
        BY QueuedTwo
    <2>2. IsQueue(<<l>> \o <<m>>) /\ IsQueue(<<l, Ended>> \o <<m>>)
        BY <2>1, QueueJoined
    <2> QED
        BY <1>1, <1>3, <1>4, <2>2
<1> QED
    BY <1>1, <1>2, <1>5, <1>7, <1>8, <1>9 DEF Pictured

----------------------------------------------------------------------------
(***************************************************************************)
(* What a step queues for whom.                                            *)
(***************************************************************************)

\* A connection that sits is attached, and sits once.
LEMMA Sits ==
    ASSUME NEW s, NEW gone, NEW links, GoodSeats(s, gone, links),
           NEW d \in Conns, NEW i \in Occupied(s), s[i].conn = d
    PROVE  links[d] = "in" /\ d # NoConn /\ \A j \in Occupied(s) : j # i => s[j].conn # d
BY Limits DEF GoodSeats

LEMMA ToldAll ==
    ASSUME NEW q, NEW s, NEW m, NEW d \in Conns
    PROVE  /\ \A i \in Occupied(s) : s[i].conn = d => ToAll(q, s, m)[d] = Append(q[d], m)
           /\ (\A i \in Occupied(s) : s[i].conn # d) => ToAll(q, s, m)[d] = q[d]
<1>1. d # NoConn
    BY Limits
<1>2. ToAll(q, s, m)[d] = IF \E i \in Online(s) : s[i].conn = d THEN Append(q[d], m) ELSE q[d]
    BY DEF ToAll
<1> QED
    BY <1>1, <1>2 DEF Online

LEMMA ToldOne ==
    ASSUME NEW q, NEW c, NEW msgs, NEW d \in Conns
    PROVE  Tell(q, c, msgs)[d] = IF d = c THEN q[d] \o msgs ELSE q[d]
BY DEF Tell

LEMMA ToldNone ==
    ASSUME NEW I, NEW why, NEW d \in Conns, \A i \in I \cap Occupied(seats) : seats[i].conn # d
    PROVE  ToldToGo(I, why)[d] = <<>>
BY DEF ToldToGo, Online

LEMMA SilentAll ==
    ASSUME NEW d \in Conns
    PROVE  Silence[d] = <<>>
BY DEF Silence

\* What was queued follows what is on its way.
LEMMA DeliveredTo ==
    ASSUME Delivered, NEW d \in Conns, view'[d].phase # "Closed"
    PROVE  chan'[d] = chan[d] \o sent'[d]
BY DEF Delivered

LEMMA StaysUnheard ==
    ASSUME NEW d \in Conns, Unheard(d), Delivered, view'[d] = view[d], sent'[d] = <<>>
    PROVE  Unheard(d)'
<1>1. view[d].phase # "Closed"
    BY DEF Unheard, NewClient
<1>2. chan'[d] = chan[d] \o <<>>
    BY <1>1, DeliveredTo
<1>3. IsQueue(chan[d])
    <2>1. IsQueue(<<>>)
        BY QueuedTwo
    <2>2. \A why : IsQueue(<<Error(why)>>)
        BY QueuedTwo
    <2> QED
        BY <2>1, <2>2 DEF Unheard
<1>4. chan'[d] = chan[d]
    BY <1>2, <1>3, QueueExtended
<1> QED
    BY <1>4 DEF Unheard

\* Every seat is told the roster, after what q has for the connections that
\* come or go, and the others nothing; what c hears, which joins in this step,
\* is the step's to say.
RosterTold(c, q) ==
    /\ sent' = ToAll(q, seats', RosterOf(seats'))
    /\ \A d \in Conns : link'[d] = "new" => link[d] = "new" /\ view'[d] = view[d] /\ q[d] = <<>>
    /\ \A d \in Conns \ {c} : \A i \in Occupied(seats') : seats'[i].conn = d =>
          /\ view'[d] = view[d] /\ q[d] = <<>>
          /\ \E j \in SeatOf(d) : phase' # "Waiting" => i = j
    /\ c \in Conns => \A i \in Occupied(seats') : seats'[i].conn = c => Pictured(c, i)'
    /\ phase' = "Waiting" <=> phase = "Waiting"
    /\ phase' = "Ended" => phase = "Ended"

LEMMA RosterToAll ==
    ASSUME ViewInv, RoomInv', Delivered, NEW c, NEW q, RosterTold(c, q)
    PROVE  Views'
<1> USE DEF RosterTold
<1>1. GoodSeats(seats', kicked', link')
    BY DEF RoomInv, SeatInv
<1>2. PICK t : t = seats'
    OBVIOUS
<1>3. ASSUME NEW d \in Conns, link'[d] = "new" PROVE Unheard(d)'
    <2>1. \A i \in Occupied(t) : t[i].conn # d
        BY <1>1, <1>2, <1>3, Sits
    <2>2. sent'[d] = <<>>
        BY <1>2, <1>3, <2>1, ToldAll
    <2>3. Unheard(d)
        BY <1>3 DEF ViewInv, Views
    <2> QED
        BY <1>3, <2>2, <2>3, StaysUnheard
<1>4. ASSUME NEW d \in Conns, NEW i \in Occupied(t), t[i].conn = d PROVE Pictured(d, i)'
    <2>1. CASE d = c
        BY <1>2, <1>4, <2>1
    <2>2. CASE d # c
        <3>1. PICK j \in SeatOf(d) : phase' # "Waiting" => i = j
            BY <1>2, <1>4, <2>2
        <3>2. Pictured(d, j) /\ view'[d] = view[d] /\ q[d] = <<>>
            BY <1>2, <1>4, <2>2, <3>1 DEF ViewInv, Views
        <3>3. sent'[d] = Append(<<>>, RosterOf(t))
            BY <1>2, <1>4, <3>2, ToldAll
        <3>4. Append(<<>>, RosterOf(t)) = <<RosterOf(t)>>
            BY QueuedTwo
        <3>5. view'[d].phase # "Closed"
            BY <3>2 DEF Pictured
        <3>6. chan'[d] = chan[d] \o <<RosterOf(seats')>>
            BY <1>2, <3>3, <3>4, <3>5, DeliveredTo
        <3> QED
            BY <3>1, <3>2, <3>6, HearsRoster
    <2> QED
        BY <2>1, <2>2
<1> QED
    BY <1>2, <1>3, <1>4 DEF Views, SeatOf

\* Nobody is told anything, and nothing changes but a pause.
LEMMA NothingToAll ==
    ASSUME ViewInv, Delivered, sent' = Silence, seats' = seats,
           phase' = phase \/ (phase \in {"Playing", "Paused"} /\ phase' \in {"Playing", "Paused"}),
           \A d \in Conns : link'[d] = "new" => link[d] = "new" /\ view'[d] = view[d],
           \A d \in Conns : SeatOf(d) # {} => view'[d] = view[d]
    PROVE  Views'
<1>1. ASSUME NEW d \in Conns, link'[d] = "new" PROVE Unheard(d)'
    <2>1. sent'[d] = <<>> /\ Unheard(d)
        BY <1>1, SilentAll DEF ViewInv, Views
    <2> QED
        BY <1>1, <2>1, StaysUnheard
<1>2. ASSUME NEW d \in Conns, NEW i \in SeatOf(d) PROVE Pictured(d, i)'
    <2>1. Pictured(d, i) /\ view'[d] = view[d] /\ sent'[d] = <<>>
        BY <1>2, SilentAll DEF ViewInv, Views
    <2>2. chan'[d] = chan[d] \o <<>>
        BY <2>1, DeliveredTo DEF Pictured
    <2> QED
        BY <2>1, <2>2, HearsNothing
<1>3. \A d \in Conns : SeatOf(d)' = SeatOf(d)
    BY DEF SeatOf
<1> QED
    BY <1>1, <1>2, <1>3 DEF Views

----------------------------------------------------------------------------
(***************************************************************************)
(* The steps.                                                              *)
(***************************************************************************)

\* What the invariant says of the seats and of the views.
LEMMA SeatedFacts ==
    ASSUME ViewInv
    PROVE  /\ seats \in SeatVectors /\ GoodSeats(seats, kicked, link) /\ phase \in Phases
           /\ link \in [Conns -> {"new", "in", "over"}]
           /\ \A i \in Occupied(seats) : seats[i] \in Seat
           /\ \A d \in Conns : \A i \in SeatOf(d) :
                /\ i \in Occupied(seats) /\ seats[i].conn = d /\ link[d] = "in"
                /\ \A j \in Occupied(seats) : j # i => seats[j].conn # d
           /\ \A d \in Conns : link[d] # "in" => \A i \in Occupied(seats) : seats[i].conn # d
<1>1. /\ seats \in SeatVectors /\ GoodSeats(seats, kicked, link) /\ phase \in Phases
      /\ link \in [Conns -> {"new", "in", "over"}]
    BY DEF ViewInv, RoomInv, SeatInv, LifeInv, LifeTypeOK
<1>2. \A d \in Conns : \A i \in Occupied(seats) : seats[i].conn = d =>
         link[d] = "in" /\ \A j \in Occupied(seats) : j # i => seats[j].conn # d
    BY <1>1, Sits
<1>3. \A i \in Occupied(seats) : seats[i] \in Seat
    BY <1>1, OccupiedSeats
<1> QED
    BY <1>1, <1>2, <1>3 DEF SeatOf

LEMMA SeenBy ==
    ASSUME DOMAIN view = Conns, NEW c \in Conns, NEW v, Seen(c, v)
    PROVE  DOMAIN view' = Conns /\ view'[c] = v /\ \A d \in Conns : d # c => view'[d] = view[d]
BY DEF Seen

\* A client that may still join has heard nothing.
LEMMA Newcomer ==
    ASSUME ViewInv, NEW c \in Conns, link[c] = "new", view[c].phase = "Connecting"
    PROVE  view[c] = NewClient /\ chan[c] = <<>>
BY DEF ViewInv, Views, Unheard

LEMMA RefusedViews ==
    ASSUME ViewInv, NEW c \in Conns, NEW t \in Tokens, JoinRefused(c, t), view[c].phase = "Connecting",
           Seen(c, [view[c] EXCEPT !.phase = "Greeting"]), Delivered
    PROVE  Views'
<1>1. PICK why : sent' = Tell(Silence, c, <<Error(why)>>)
    BY DEF JoinRefused
<1>2. link[c] = "new" /\ UNCHANGED <<seats, phase, link>>
    BY DEF JoinRefused, lifeVars
<1>3. view[c] = NewClient /\ chan[c] = <<>>
    BY <1>2, Newcomer
<1>4. view'[c] = [NewClient EXCEPT !.phase = "Greeting"] /\ \A d \in Conns : d # c => view'[d] = view[d]
    BY <1>3, SeenBy DEF ViewInv
<1>5. view'[c].phase = "Greeting" /\ DOMAIN view'[c] = Fields
    BY <1>4 DEF NewClient, Fields
<1>6. sent'[c] = <<>> \o <<Error(why)>> /\ \A d \in Conns : d # c => sent'[d] = <<>>
    <2> PICK msgs : msgs = <<Error(why)>>
        OBVIOUS
    <2>1. sent' = Tell(Silence, c, msgs)
        BY <1>1
    <2>2. \A d \in Conns : sent'[d] = IF d = c THEN Silence[d] \o msgs ELSE Silence[d]
        BY <2>1 DEF Tell
    <2> QED
        BY <2>2, SilentAll
<1>7. chan'[c] = <<Error(why)>>
    <2>1. chan'[c] = <<>> \o (<<>> \o <<Error(why)>>)
        BY <1>3, <1>5, <1>6, DeliveredTo
    <2>2. IsQueue(<<Error(why)>>)
        BY QueuedTwo
    <2> QED
        BY <2>1, <2>2, QueueExtended
<1>8. Unheard(c)'
    BY <1>5, <1>7 DEF Unheard
<1>9. ASSUME NEW d \in Conns, d # c, link[d] = "new" PROVE Unheard(d)'
    <2>1. Unheard(d)
        BY <1>9 DEF ViewInv, Views
    <2> QED
        BY <1>4, <1>6, <1>9, <2>1, StaysUnheard
<1>10. ASSUME NEW d \in Conns, NEW i \in SeatOf(d) PROVE Pictured(d, i)'
    <2>1. d # c
        BY <1>2, <1>10, SeatedFacts
    <2>2. Pictured(d, i) /\ view'[d] = view[d] /\ sent'[d] = <<>>
        BY <1>4, <1>6, <1>10, <2>1 DEF ViewInv, Views
    <2>3. chan'[d] = chan[d] \o <<>>
        BY <2>2, DeliveredTo DEF Pictured
    <2> QED
        BY <1>2, <2>2, <2>3, HearsNothing
<1>11. \A d \in Conns : SeatOf(d)' = SeatOf(d)
    BY <1>2 DEF SeatOf
<1> QED
    BY <1>2, <1>8, <1>9, <1>10, <1>11 DEF Views

\* What a joiner is told, on the seat it has.
LEMMA GreetedView ==
    ASSUME ViewInv, NEW c \in Conns, link[c] = "new", view[c].phase = "Connecting",
           Seen(c, [view[c] EXCEPT !.phase = "Greeting"]), Delivered,
           NEW q, q[c] = <<>>, NEW i \in Occupied(seats'), seats'[i].conn = c,
           sent' = Greeting(q, seats', i, c),
           phase' = "Waiting" => phase = "Waiting",
           phase' = "Ended" <=> phase = "Ended"
    PROVE  Pictured(c, i)'
<1>1. view[c] = NewClient /\ chan[c] = <<>>
    BY Newcomer
<1>2. view'[c] = [NewClient EXCEPT !.phase = "Greeting"]
    BY <1>1, SeenBy DEF ViewInv
<1>3. view'[c].phase # "Closed"
    BY <1>2 DEF NewClient
<1>4. PICK t : t = seats'
    OBVIOUS
<1>5. PICK l : l = Welcome(i, t, world)
    OBVIOUS
<1>6. PICK r : r = IF phase = "Ended" THEN <<l, Ended>> ELSE <<l>>
    OBVIOUS
<1>7. sent' = ToAll(Tell(q, c, r), t, RosterOf(t))
    BY <1>4, <1>5, <1>6 DEF Greeting
<1>8. sent'[c] = Append(<<>> \o r, RosterOf(t))
    <2> PICK y : y = Tell(q, c, r)
        OBVIOUS
    <2>1. y[c] = <<>> \o r
        <3>1. y[c] = q[c] \o r
            BY DEF Tell
        <3> QED
            BY <3>1
    <2>2. sent' = ToAll(y, t, RosterOf(t))
        BY <1>7
    <2>3. ToAll(y, t, RosterOf(t))[c] = Append(y[c], RosterOf(t))
        BY <1>4, ToldAll
    <2> QED
        BY <2>1, <2>2, <2>3
<1>9. IsQueue(r)
    BY <1>6, QueuedTwo
<1>10. IsQueue(r \o <<RosterOf(t)>>) /\ Append(r, RosterOf(t)) = r \o <<RosterOf(t)>> /\ <<>> \o r = r
    BY <1>9, QueueExtended, QueueJoined
<1>11. chan'[c] = r \o <<RosterOf(t)>>
    <2>1. chan'[c] = <<>> \o (r \o <<RosterOf(t)>>)
        BY <1>1, <1>3, <1>8, <1>10, DeliveredTo
    <2> QED
        BY <1>10, <2>1, QueueExtended
<1>12. phase' = "Waiting" => world # "running"
    BY DEF ViewInv
<1>13. \/ phase' # "Ended" /\ chan'[c] = <<Welcome(i, seats', world)>> \o <<RosterOf(seats')>>
       \/ phase' = "Ended" /\ chan'[c] = <<Welcome(i, seats', world), Ended>> \o <<RosterOf(seats')>>
    BY <1>4, <1>5, <1>6, <1>11
<1> QED
    BY <1>1, <1>2, <1>12, <1>13, HearsGreeting

\* A new device sits at the end of a waiting room.
LEMMA JoinNewViews ==
    ASSUME ViewInv, RoomInv', NEW c \in Conns, NEW t \in Tokens, JoinNew(c, t), view[c].phase = "Connecting",
           Seen(c, [view[c] EXCEPT !.phase = "Greeting"]), Delivered
    PROVE  Views'
<1> DEFINE r == [token |-> t, ready |-> FALSE, conn |-> c, away |-> NoTime]
<1>1. r \in Seat /\ r.conn = c
    BY Limits DEF Seat
<1> HIDE DEF r
<1> PICK s : s = Seated(seats, r)
    OBVIOUS
<1>2. /\ seats' = s /\ link' = [link EXCEPT ![c] = "in"] /\ link[c] = "new" /\ Connect /\ phase = "Waiting"
      /\ sent' = Greeting(Silence, s, Len(s), c)
    BY DEF JoinNew, JoinRefusal, Seated, r
<1>3. phase' = phase
    BY <1>2 DEF Connect
<1>4. /\ Occupied(s) = Occupied(seats) \cup {Len(s)} /\ Len(s) \notin Occupied(seats)
      /\ s[Len(s)] = r /\ \A j \in Occupied(seats) : s[j] = seats[j]
    BY <1>1, SeatedFacts, SeatAdded
<1>5. \A i \in Occupied(s) : s[i].conn = c => i = Len(s)
    BY <1>2, <1>4, SeatedFacts
<1>6. Pictured(c, Len(s))'
    <2>1. Len(s) \in Occupied(seats') /\ seats'[Len(s)].conn = c /\ Silence[c] = <<>>
        BY <1>1, <1>2, <1>4, SilentAll
    <2> QED
        BY <1>2, <1>3, <2>1, GreetedView
<1> PICK q : q = Tell(Silence, c, <<Welcome(Len(s), s, world)>>)
    OBVIOUS
<1>7. sent' = ToAll(q, seats', RosterOf(seats'))
    BY <1>2 DEF Greeting
<1>8. \A d \in Conns \ {c} : view'[d] = view[d] /\ q[d] = <<>>
    <2>1. \A d \in Conns : d # c => view'[d] = view[d]
        BY SeenBy DEF ViewInv
    <2>2. \A d \in Conns \ {c} : q[d] = Silence[d]
        BY DEF Tell
    <2> QED
        BY <2>1, <2>2, SilentAll
<1>9. \A d \in Conns : link'[d] = "new" => link[d] = "new" /\ d # c
    BY <1>2, SeatedFacts
<1>10. ASSUME NEW d \in Conns \ {c}, NEW i \in Occupied(seats'), seats'[i].conn = d
       PROVE  i \in SeatOf(d)
    BY <1>1, <1>2, <1>4, <1>10 DEF SeatOf
<1>11. RosterTold(c, q)
    BY <1>2, <1>3, <1>5, <1>6, <1>7, <1>8, <1>9, <1>10 DEF RosterTold
<1> QED
    BY <1>11, RosterToAll

\* A device comes back to its seat, over whatever socket it had.
LEMMA ReclaimViews ==
    ASSUME ViewInv, RoomInv', NEW c \in Conns, NEW t \in Tokens, Reclaim(c, t), view[c].phase = "Connecting",
           Seen(c, [view[c] EXCEPT !.phase = "Greeting"]), Delivered
    PROVE  Views'
<1>1. PICK i \in Owned(t) : /\ seats' = Reclaimed(i, c) /\ ReclaimCount(i)
                            /\ sent' = Greeting(ToldToGo({i}, "Reconnected"), Reclaimed(i, c), i, c)
    BY DEF Reclaim
<1>2. i \in Occupied(seats) /\ link[c] = "new" /\ link' = [link EXCEPT ![c] = "in"]
    BY DEF Owned, Reclaim
<1>3. /\ phase' = phase \/ (phase = "Paused" /\ phase' = "Playing")
    BY <1>1 DEF ReclaimCount, Connect, lifeVars
<1> DEFINE r == [seats[i] EXCEPT !.conn = c, !.away = NoTime]
<1>4. r \in Seat /\ r.conn = c
    <2>1. seats[i] \in Seat
        BY <1>2, SeatedFacts
    <2> QED
        BY <2>1, Limits DEF Seat
<1>5. Reclaimed(i, c) = Put(seats, i, r)
    BY <1>2, SeatedFacts DEF Reclaimed, Put, Occupied, SeatVectors
<1> HIDE DEF r
<1> PICK s : s = Put(seats, i, r)
    OBVIOUS
<1>6. Occupied(s) = Occupied(seats) /\ s[i] = r /\ \A j \in Occupied(seats) : j # i => s[j] = seats[j]
    BY <1>2, <1>4, SeatedFacts, SeatChanges
<1>7. seats' = s /\ sent' = Greeting(ToldToGo({i}, "Reconnected"), s, i, c)
    BY <1>1, <1>5
<1>8. \A k \in Occupied(s) : s[k].conn = c => k = i
    BY <1>2, <1>6, SeatedFacts
<1> PICK gone : gone = ToldToGo({i}, "Reconnected")
    OBVIOUS
<1>9. \A d \in Conns : (link[d] # "in" \/ \E k \in SeatOf(d) : k # i) => gone[d] = <<>>
    <2> TAKE d \in Conns
    <2> HAVE link[d] # "in" \/ \E k \in SeatOf(d) : k # i
    <2>1. seats[i].conn # d
        BY <1>2, SeatedFacts
    <2> QED
        BY <2>1, ToldNone
<1>10. Pictured(c, i)'
    <2>1. i \in Occupied(seats') /\ seats'[i].conn = c /\ gone[c] = <<>>
        BY <1>2, <1>4, <1>6, <1>7, <1>9
    <2>2. sent' = Greeting(gone, seats', i, c)
        BY <1>7
    <2> QED
        BY <1>2, <1>3, <2>1, <2>2, GreetedView
<1> PICK msgs : msgs = IF phase = "Ended" THEN <<Welcome(i, s, world), Ended>> ELSE <<Welcome(i, s, world)>>
    OBVIOUS
<1> PICK q : q = Tell(gone, c, msgs)
    OBVIOUS
<1>11. sent' = ToAll(q, seats', RosterOf(seats'))
    BY <1>7 DEF Greeting
<1>12. \A d \in Conns \ {c} : view'[d] = view[d] /\ q[d] = gone[d]
    <2>1. \A d \in Conns : d # c => view'[d] = view[d]
        BY SeenBy DEF ViewInv
    <2>2. \A d \in Conns \ {c} : q[d] = gone[d]
        BY DEF Tell
    <2> QED
        BY <2>1, <2>2
<1>13. \A d \in Conns : link'[d] = "new" => link[d] = "new" /\ d # c
    BY <1>2, SeatedFacts
<1>14. ASSUME NEW d \in Conns \ {c}, NEW k \in Occupied(seats'), seats'[k].conn = d
       PROVE  k \in SeatOf(d) /\ k # i
    BY <1>4, <1>6, <1>7, <1>14 DEF SeatOf
<1>15. \A d \in Conns : link'[d] = "new" => link[d] = "new" /\ view'[d] = view[d] /\ q[d] = <<>>
    BY <1>9, <1>12, <1>13
<1>16. \A d \in Conns \ {c} : \A k \in Occupied(seats') : seats'[k].conn = d =>
           view'[d] = view[d] /\ q[d] = <<>> /\ \E j \in SeatOf(d) : phase' # "Waiting" => k = j
    BY <1>9, <1>12, <1>14
<1>17. \A k \in Occupied(seats') : seats'[k].conn = c => Pictured(c, k)'
    BY <1>7, <1>8, <1>10
<1>18. RosterTold(c, q)
    BY <1>3, <1>11, <1>15, <1>16, <1>17 DEF RosterTold
<1> QED
    BY <1>18, RosterToAll

LEMMA GreetViews ==
    ASSUME ViewInv, RoomInv', NEW c \in Conns, NEW t \in Tokens, Greet(c, t)
    PROVE  Views'
BY RefusedViews, JoinNewViews, ReclaimViews DEF Greet

\* A socket drops: its client is gone, and the others see the seat away.
LEMMA DropViews ==
    ASSUME ViewInv, RoomInv', NEW c \in Conns, Drop(c)
    PROVE  Views'
<1>1. link[c] = "in" /\ link' = [link EXCEPT ![c] = "over"] /\ Delivered
    BY DEF Drop, Disconnected
<1>2. \A d \in Conns : d # c => view'[d] = view[d]
    BY SeenBy DEF Drop, ViewInv
<1>3. \A d \in Conns : link'[d] = "new" => link[d] = "new" /\ view'[d] = view[d]
    BY <1>1, <1>2, SeatedFacts
<1>4. CASE SeatOf(c) = {} /\ sent' = Silence /\ UNCHANGED <<lifeVars, seats>>
    <2>1. phase' = phase /\ seats' = seats
        BY <1>4 DEF lifeVars
    <2>2. \A d \in Conns : SeatOf(d) # {} => view'[d] = view[d]
        BY <1>2, <1>4
    <2> QED
        BY <1>1, <1>3, <1>4, <2>1, <2>2, NothingToAll
<1>5. ASSUME NEW i \in SeatOf(c), seats' = Dropped(i), Disconnect,
             sent' = ToAll(Silence, Dropped(i), RosterOf(Dropped(i)))
      PROVE  Views'
    <2> DEFINE r == [seats[i] EXCEPT !.conn = NoConn, !.away = now]
    <2>1. i \in Occupied(seats) /\ seats[i].conn = c /\ \A j \in Occupied(seats) : j # i => seats[j].conn # c
        BY <1>5, SeatedFacts
    <2>2. r \in Seat /\ r.conn = NoConn
        <3>1. seats[i] \in Seat
            BY <2>1, SeatedFacts
        <3>2. now \in Instants
            BY DEF ViewInv, RoomInv, LifeInv, LifeTypeOK
        <3> QED
            BY <3>1, <3>2 DEF Seat
    <2>3. Dropped(i) = Put(seats, i, r)
        BY <2>1, SeatedFacts DEF Dropped, Put, Occupied, SeatVectors
    <2> HIDE DEF r
    <2> PICK s : s = Put(seats, i, r)
        OBVIOUS
    <2>4. Occupied(s) = Occupied(seats) /\ s[i] = r /\ \A j \in Occupied(seats) : j # i => s[j] = seats[j]
        BY <2>1, <2>2, SeatedFacts, SeatChanges
    <2>5. seats' = s /\ sent' = ToAll(Silence, seats', RosterOf(seats'))
        BY <1>5, <2>3
    <2>6. phase' = phase \/ (phase = "Playing" /\ phase' = "Paused")
        BY <1>5 DEF Disconnect
    <2>7. \A d \in Conns : \A k \in Occupied(seats') : seats'[k].conn = d => d # c /\ k \in SeatOf(d)
        BY <2>1, <2>2, <2>4, <2>5, Limits DEF SeatOf
    <2>8. \A d \in Conns \ {NoConn} : \A k \in Occupied(seats') : seats'[k].conn = d =>
             view'[d] = view[d] /\ Silence[d] = <<>> /\ \E j \in SeatOf(d) : phase' # "Waiting" => k = j
        BY <1>2, <2>7, SilentAll
    <2>9. \A d \in Conns : link'[d] = "new" => link[d] = "new" /\ view'[d] = view[d] /\ Silence[d] = <<>>
        BY <1>3, SilentAll
    <2>10. NoConn \notin Conns
        BY Limits
    <2>11. RosterTold(NoConn, Silence)
        BY <2>5, <2>6, <2>8, <2>9, <2>10 DEF RosterTold
    <2> QED
        BY <1>1, <2>11, RosterToAll
<1> QED
    BY <1>4, <1>5 DEF Drop, Disconnected

\* READY: a flag changes.
LEMMA ReadyViews ==
    ASSUME ViewInv, RoomInv', NEW i \in Occupied(seats), Ready(i), UNCHANGED view, Delivered
    PROVE  Views'
<1> DEFINE r == [seats[i] EXCEPT !.ready = TRUE]
<1>1. r \in Seat /\ r.conn = seats[i].conn
    <2>1. seats[i] \in Seat
        BY SeatedFacts
    <2> QED
        BY <2>1 DEF Seat
<1>2. [seats EXCEPT ![i].ready = TRUE] = Put(seats, i, r)
    BY SeatedFacts DEF Put, Occupied, SeatVectors
<1> HIDE DEF r
<1> PICK s : s = Put(seats, i, r)
    OBVIOUS
<1>3. Occupied(s) = Occupied(seats) /\ s[i] = r /\ \A j \in Occupied(seats) : j # i => s[j] = seats[j]
    BY <1>1, SeatedFacts, SeatChanges
<1>4. /\ seats' = s /\ sent' = ToAll(Silence, seats', RosterOf(seats'))
      /\ UNCHANGED <<phase, link>>
    BY <1>2 DEF Ready, lifeVars
<1>5. \A d \in Conns : \A k \in Occupied(seats') : seats'[k].conn = d => k \in SeatOf(d)
    BY <1>1, <1>3, <1>4 DEF SeatOf
<1>6. RosterTold(NoConn, Silence)
    BY <1>4, <1>5, SilentAll, Limits DEF RosterTold
<1> QED
    BY <1>6, RosterToAll

\* The seats that stay when others are freed, and where they were.
LEMMA WithoutKeeps ==
    ASSUME seats \in SeatVectors, NEW I, NEW k \in Occupied(Without(I))
    PROVE  \E j \in Occupied(seats) \ I : Without(I)[k] = seats[j] /\ (phase # "Waiting" => j = k)
<1>1. CASE phase = "Waiting"
    <2>1. Carries(Without(I), seats, Occupied(seats) \ I)
        BY SeatsLeave
    <2>2. PICK m \in Bijection(Occupied(Without(I)), Occupied(seats) \ I) :
              \A l \in Occupied(Without(I)) : Without(I)[l] = seats[m[l]]
        BY <2>1 DEF Carries
    <2>3. m[k] \in Occupied(seats) \ I
        BY DEF Bijection, Injection
    <2> QED
        BY <1>1, <2>2, <2>3
<1>2. CASE phase # "Waiting"
    <2>1. Without(I) = [i \in DOMAIN seats |-> IF i \in I THEN Vacant ELSE seats[i]]
        BY <1>2 DEF Without, Settled
    <2>2. k \in Occupied(seats) \ I /\ Without(I)[k] = seats[k]
        BY <2>1 DEF Occupied
    <2> QED
        BY <2>2
<1> QED
    BY <1>1, <1>2

\* Seats are freed: who stays is told, who goes is told why, and nobody else
\* anything.
LEMMA FreedViews ==
    ASSUME ViewInv, RoomInv', NEW I \in SUBSET Occupied(seats), NEW q,
           q = Silence \/ \E why : q = ToldToGo(I, why),
           seats' = Without(I), sent' = ToAll(q, Without(I), RosterOf(Without(I))),
           UNCHANGED <<link, view>>, Delivered,
           phase' = "Waiting" <=> phase = "Waiting", phase' = "Ended" => phase = "Ended"
    PROVE  Views'
<1>1. \A d \in Conns : (\A i \in I : seats[i].conn # d) => q[d] = <<>>
    BY SilentAll, ToldNone
<1>2. ASSUME NEW d \in Conns, NEW k \in Occupied(seats'), seats'[k].conn = d
      PROVE  q[d] = <<>> /\ \E j \in SeatOf(d) : phase' # "Waiting" => k = j
    <2>1. PICK j \in Occupied(seats) \ I : seats'[k] = seats[j] /\ (phase # "Waiting" => j = k)
        BY <1>2, SeatedFacts, WithoutKeeps
    <2>2. j \in SeatOf(d)
        BY <1>2, <2>1 DEF SeatOf
    <2>3. \A i \in I : seats[i].conn # d
        BY <2>1, <2>2, SeatedFacts
    <2> QED
        BY <1>1, <2>1, <2>2, <2>3
<1>3. \A d \in Conns : link'[d] = "new" => q[d] = <<>>
    <2> TAKE d \in Conns
    <2> HAVE link'[d] = "new"
    <2>1. \A i \in Occupied(seats) : seats[i].conn # d
        BY SeatedFacts
    <2> QED
        BY <1>1, <2>1
<1>4. RosterTold(NoConn, q)
    BY <1>2, <1>3, Limits DEF RosterTold
<1> QED
    BY <1>4, RosterToAll

LEMMA RemovedViews ==
    ASSUME ViewInv, RoomInv', NEW i \in Occupied(seats), NEW why, RemoveSeat(i, why), UNCHANGED view, Delivered
    PROVE  Views'
<1>1. (phase' = "Waiting" <=> phase = "Waiting") /\ (phase' = "Ended" => phase = "Ended")
    BY DEF RemoveSeat, Removed, Disconnect, lifeVars
<1> PICK q : q = ToldToGo({i}, why)
    OBVIOUS
<1>2. /\ seats' = Without({i}) /\ UNCHANGED <<link, view>>
      /\ sent' = ToAll(q, Without({i}), RosterOf(Without({i})))
    BY DEF RemoveSeat
<1>3. {i} \in SUBSET Occupied(seats)
    OBVIOUS
<1> QED
    BY <1>1, <1>2, <1>3, FreedViews

LEMMA GraceViews ==
    ASSUME ViewInv, RoomInv', ExpireGraces, UNCHANGED view, Delivered
    PROVE  Views'
<1>1. GraceOver \in SUBSET Occupied(seats)
    BY DEF GraceOver, PastGrace, Occupied
<1>2. /\ seats' = Without(GraceOver) /\ UNCHANGED <<link, view>> /\ phase' = phase
      /\ sent' = ToAll(Silence, Without(GraceOver), RosterOf(Without(GraceOver)))
    BY DEF ExpireGraces, lifeVars
<1> QED
    BY <1>1, <1>2, FreedViews

\* A press that the room refuses.
LEMMA RefuseViews ==
    ASSUME ViewInv, NEW c \in Conns, NEW i \in SeatOf(c), NEW why, Refuse(i, why), Delivered,
           SameRoom(view'[c], view[c]), DOMAIN view'[c] = Fields,
           \A d \in Conns : d # c => view'[d] = view[d]
    PROVE  Views'
<1>1. UNCHANGED <<seats, phase, link>> /\ sent' = Tell(Silence, c, <<Error(why)>>)
    BY DEF Refuse, lifeVars, SeatOf
<1> PICK msgs : msgs = <<Error(why)>>
    OBVIOUS
<1>2. \A d \in Conns : sent'[d] = IF d = c THEN Silence[d] \o msgs ELSE Silence[d]
    BY <1>1 DEF Tell
<1>3. \A d \in Conns : link'[d] = "new" => d # c
    BY <1>1, SeatedFacts
<1>4. ASSUME NEW d \in Conns, link'[d] = "new" PROVE Unheard(d)'
    <2>1. Unheard(d) /\ sent'[d] = <<>> /\ view'[d] = view[d]
        BY <1>1, <1>2, <1>3, <1>4, SilentAll DEF ViewInv, Views
    <2> QED
        BY <2>1, StaysUnheard
<1>5. ASSUME NEW d \in Conns, NEW j \in SeatOf(d) PROVE Pictured(d, j)'
    <2>1. Pictured(d, j)
        BY <1>5 DEF ViewInv, Views
    <2>2. CASE d = c
        <3>1. view'[c].phase # "Closed"
            BY <2>1, <2>2 DEF Pictured, SameRoom
        <3>2. sent'[c] = msgs
            <4>1. IsQueue(msgs)
                BY QueuedTwo
            <4>2. sent'[c] = <<>> \o msgs
                BY <1>2, SilentAll
            <4> QED
                BY <4>1, <4>2, QueueExtended
        <3>3. chan'[c] = chan[c] \o <<Error(why)>>
            BY <3>1, <3>2, DeliveredTo
        <3> QED
            BY <1>1, <2>1, <2>2, <3>3, HearsError
    <2>3. CASE d # c
        <3>1. view'[d] = view[d] /\ sent'[d] = <<>>
            BY <1>2, <2>3, SilentAll
        <3>2. chan'[d] = chan[d] \o <<>>
            BY <2>1, <3>1, DeliveredTo DEF Pictured
        <3> QED
            BY <1>1, <2>1, <3>1, <3>2, HearsNothing
    <2> QED
        BY <2>2, <2>3
<1>6. \A d \in Conns : SeatOf(d)' = SeatOf(d)
    BY <1>1 DEF SeatOf
<1> QED
    BY <1>4, <1>5, <1>6 DEF Views

\* A waiting room has nothing to close up.
LEMMA DenseClosesUp ==
    ASSUME NEW s \in SeatVectors, Occupied(s) = DOMAIN s
    PROVE  ClosedUp(s) = s
<1> DEFINE n == Len(s)
           Upto(i) == {j \in Occupied(s) : j <= i}
<1>1. n \in Nat /\ DOMAIN s = 1..n /\ Cardinality(Occupied(s)) = n
    BY OccupiedSeats
<1>2. \A i \in 1..n : Cardinality(Upto(i)) = i
    <2> TAKE i \in 1..n
    <2>1. Upto(i) = 1..i /\ i \in Nat
        BY <1>1
    <2> QED
        BY <2>1, CountTo
<1>3. \A k \in 1..n : Nth(s, k) = k
    <2> TAKE k \in 1..n
    <2>1. \A i \in Occupied(s) : Cardinality(Upto(i)) = k <=> i = k
        BY <1>1, <1>2
    <2>2. k \in Occupied(s)
        BY <1>1
    <2>3. Nth(s, k) = CHOOSE i \in Occupied(s) : Cardinality(Upto(i)) = k
        BY DEF Nth
    <2> HIDE DEF Upto
    <2> QED
        BY <2>1, <2>2, <2>3
<1> HIDE DEF n
<1>4. ClosedUp(s) = [k \in 1..n |-> s[Nth(s, k)]]
    BY <1>1 DEF ClosedUp
<1>5. [k \in 1..n |-> s[Nth(s, k)]] = [k \in 1..n |-> s[k]]
    BY <1>3
<1>6. s = [k \in 1..n |-> s[k]]
    BY <1>1 DEF SeatVectors
<1> QED
    BY <1>4, <1>5, <1>6

\* START: each seat is told of it and welcomed into the round.
LEMMA StartViews ==
    ASSUME ViewInv, RoomInv', NEW c \in Conns, NEW i \in SeatOf(c), StartRound(i), StartRefusal(i) = {},
           SameRoom(view'[c], view[c]), DOMAIN view'[c] = Fields,
           \A d \in Conns : d # c => view'[d] = view[d], Delivered
    PROVE  Views'
<1> DEFINE s == [j \in DOMAIN seats |-> IF seats[j] = Vacant THEN Vacant
                                        ELSE [seats[j] EXCEPT !.ready = FALSE]]
<1>1. Settled(seats) = seats
    BY SeatedFacts, DenseClosesUp DEF Settled, ViewInv, RoomInv, SeatInv, WaitingDense
<1>2. seats' = s /\ sent' = StartMessages(s) /\ Start /\ UNCHANGED link
    BY <1>1 DEF StartRound
<1>3. phase \in {"Waiting", "Ended"} /\ phase' \in {"Playing", "Paused"}
    BY <1>2, SeatedFacts DEF StartRefusal, InRound, Phases, Start
<1>4. \A j \in Occupied(seats) : /\ [seats[j] EXCEPT !.ready = FALSE] \in Seat
                                 /\ [seats[j] EXCEPT !.ready = FALSE].token = seats[j].token
                                 /\ [seats[j] EXCEPT !.ready = FALSE].conn = seats[j].conn
    <2>1. \A j \in Occupied(seats) : seats[j] \in Seat
        BY SeatedFacts
    <2> QED
        BY <2>1 DEF Seat
<1>5. DOMAIN s = DOMAIN seats /\ \A j \in DOMAIN seats : s[j] = IF seats[j] = Vacant THEN Vacant
                                                              ELSE [seats[j] EXCEPT !.ready = FALSE]
    OBVIOUS
<1> PICK t : t = s
    OBVIOUS
<1> HIDE DEF s
<1>6. /\ Occupied(t) = Occupied(seats)
      /\ \A j \in Occupied(seats) : t[j].token = seats[j].token /\ t[j].conn = seats[j].conn
    <2>1. DOMAIN t = DOMAIN seats /\ \A j \in DOMAIN seats : t[j] = IF seats[j] = Vacant THEN Vacant
                                                               ELSE [seats[j] EXCEPT !.ready = FALSE]
        BY <1>5
    <2>2. \A j \in Occupied(seats) : t[j] # Vacant /\ t[j].token = seats[j].token /\ t[j].conn = seats[j].conn
        <3> TAKE j \in Occupied(seats)
        <3>1. j \in DOMAIN seats /\ seats[j] # Vacant
            BY DEF Occupied
        <3>2. PICK r : r = [seats[j] EXCEPT !.ready = FALSE]
            OBVIOUS
        <3>3. r \in Seat /\ r.token = seats[j].token /\ r.conn = seats[j].conn
            BY <1>4, <3>2
        <3>4. t[j] = r
            BY <2>1, <3>1, <3>2
        <3> QED
            BY <3>3, <3>4, Limits
    <2>3. \A j \in DOMAIN seats : j \notin Occupied(seats) => t[j] = Vacant
        BY <2>1 DEF Occupied
    <2>4. Occupied(t) = Occupied(seats)
        BY <2>1, <2>2, <2>3 DEF Occupied
    <2> QED
        BY <2>2, <2>4
<1>7. Alike(seats, seats')
    BY <1>2, <1>6 DEF Alike
<1>8. \A d \in Conns : link'[d] = "new" => \A j \in Occupied(t) : t[j].conn # d
    BY <1>2, <1>6, SeatedFacts
<1>9. ASSUME NEW d \in Conns, link'[d] = "new" PROVE Unheard(d)'
    <2>1. sent'[d] = <<>>
        BY <1>2, <1>8, <1>9 DEF StartMessages, Online
    <2>2. d # c /\ Unheard(d)
        BY <1>2, <1>9, SeatedFacts DEF ViewInv, Views
    <2> QED
        BY <2>1, <2>2, StaysUnheard
<1>10. ASSUME NEW d \in Conns, NEW j \in Occupied(t), t[j].conn = d PROVE Pictured(d, j)'
    <2>1. j \in SeatOf(d)
        BY <1>6, <1>10 DEF SeatOf
    <2>2. Pictured(d, j)
        BY <2>1 DEF ViewInv, Views
    <2>3. \A k \in Online(t) : t[k].conn = d <=> k = j
        BY <1>6, <1>10, <2>1, SeatedFacts DEF Online
    <2>4. j \in Online(t)
        BY <1>10, Limits DEF Online
    <2>5. (CHOOSE k \in Online(t) : t[k].conn = d) = j
        BY <2>3, <2>4
    <2>6. sent'[d] = <<Started, Welcome(j, t, "fresh")>>
        BY <1>2, <2>3, <2>4, <2>5 DEF StartMessages
    <2>7. SameRoom(view'[d], view[d]) /\ DOMAIN view'[d] = Fields
        BY <2>2 DEF SameRoom, Pictured
    <2>8. view'[d].phase # "Closed"
        BY <2>2, <2>7 DEF Pictured, SameRoom
    <2>9. chan'[d] = chan[d] \o <<Started, Welcome(j, seats', "fresh")>>
        BY <1>2, <2>6, <2>8, DeliveredTo
    <2> QED
        BY <1>3, <1>7, <2>2, <2>7, <2>9, HearsStart
<1> QED
    BY <1>2, <1>9, <1>10 DEF Views, SeatOf

\* The end of a round is told to every seat.
LEMMA EndViews ==
    ASSUME ViewInv, phase \in {"Playing", "Paused"}, EndRound, UNCHANGED view, Delivered
    PROVE  Views'
<1> PICK q : q = ToAll(Silence, seats, Ended)
    OBVIOUS
<1>1. phase' = "Ended" /\ UNCHANGED <<seats, link>> /\ sent' = ToAll(q, seats, RosterOf(seats))
    BY DEF EndRound, End
<1>2. ASSUME NEW d \in Conns, link[d] = "new" PROVE Unheard(d)'
    <2>1. \A i \in Occupied(seats) : seats[i].conn # d
        BY <1>2, SeatedFacts
    <2>2. q[d] = <<>>
        BY <2>1, ToldAll, SilentAll
    <2>3. sent'[d] = <<>> /\ Unheard(d)
        BY <1>1, <1>2, <2>1, <2>2, ToldAll DEF ViewInv, Views
    <2> QED
        BY <2>3, StaysUnheard
<1>3. ASSUME NEW d \in Conns, NEW i \in SeatOf(d) PROVE Pictured(d, i)'
    <2>1. Pictured(d, i) /\ i \in Occupied(seats) /\ seats[i].conn = d
        BY <1>3 DEF ViewInv, Views, SeatOf
    <2>2. q[d] = Append(<<>>, Ended)
        BY <2>1, ToldAll, SilentAll
    <2>3. q[d] = <<Ended>>
        BY <2>2, QueuedTwo
    <2>4. sent'[d] = Append(<<Ended>>, RosterOf(seats))
        BY <1>1, <2>1, <2>3, ToldAll
    <2>5. IsQueue(<<Ended>>)
        BY QueuedTwo
    <2>6. sent'[d] = <<Ended>> \o <<RosterOf(seats)>>
        BY <2>4, <2>5, QueueExtended
    <2>7. view'[d] = view[d] /\ view'[d].phase # "Closed"
        BY <2>1 DEF Pictured
    <2>8. chan'[d] = chan[d] \o (<<Ended>> \o <<RosterOf(seats)>>)
        BY <2>6, <2>7, DeliveredTo
    <2> QED
        BY <1>1, <2>1, <2>7, <2>8, HearsEnded
<1>4. \A d \in Conns : SeatOf(d)' = SeatOf(d)
    BY <1>1 DEF SeatOf
<1> QED
    BY <1>1, <1>2, <1>3, <1>4 DEF Views

\* A room that is gone has nobody in it.
LEMMA ReapViews ==
    ASSUME ViewInv, ReapRoom, UNCHANGED view, Delivered
    PROVE  Views'
<1> DEFINE s == [i \in DOMAIN seats |-> IF seats[i] = Vacant THEN Vacant ELSE [seats[i] EXCEPT !.conn = NoConn]]
<1>1. seats' = s /\ UNCHANGED link /\ \E why : sent' = ToldToGo(DOMAIN seats, why)
    BY DEF ReapRoom
<1>2. DOMAIN s = DOMAIN seats /\ \A i \in DOMAIN seats : s[i] = IF seats[i] = Vacant THEN Vacant
                                                              ELSE [seats[i] EXCEPT !.conn = NoConn]
    OBVIOUS
<1>3. \A i \in Occupied(seats) : [seats[i] EXCEPT !.conn = NoConn].conn = NoConn
    BY SeatedFacts DEF Seat
<1> PICK t : t = s
    OBVIOUS
<1> HIDE DEF s
<1>4. \A i \in Occupied(t) : t[i].conn = NoConn
    BY <1>2, <1>3 DEF Occupied
<1>5. \A d \in Conns : SeatOf(d)' = {}
    BY <1>1, <1>4, Limits DEF SeatOf
<1>6. ASSUME NEW d \in Conns, link[d] = "new" PROVE Unheard(d)'
    <2>1. \A i \in DOMAIN seats \cap Occupied(seats) : seats[i].conn # d
        BY <1>6, SeatedFacts
    <2>2. sent'[d] = <<>> /\ Unheard(d)
        BY <1>1, <1>6, <2>1, ToldNone DEF ViewInv, Views
    <2> QED
        BY <2>2, StaysUnheard
<1> QED
    BY <1>1, <1>5, <1>6 DEF Views

\* A client takes the message at the head of its channel.
LEMMA ReceiveViews ==
    ASSUME ViewInv, NEW c \in Conns, Receive(c)
    PROVE  Views' /\ DOMAIN view' = Conns /\ DOMAIN chan' = Conns
<1> PICK v : v = Take(view[c], Head(chan[c]))
    OBVIOUS
<1>1. /\ DOMAIN view' = Conns /\ view'[c] = v /\ \A d \in Conns : d # c => view'[d] = view[d]
    BY SeenBy DEF Receive, ViewInv
<1>2. /\ DOMAIN chan' = Conns /\ chan'[c] = (IF v.phase = "Closed" THEN <<>> ELSE Tail(chan[c]))
      /\ \A d \in Conns : d # c => chan'[d] = chan[d]
    BY <1>1 DEF Receive, ViewInv
<1>3. UNCHANGED <<seats, phase, link>> /\ chan[c] # <<>>
    BY DEF Receive, roomVars, seatVars, lifeVars
<1>4. ASSUME NEW d \in Conns, d # c PROVE (Unheard(d) => Unheard(d)') /\ \A i : Pictured(d, i) => Pictured(d, i)'
    BY <1>1, <1>2, <1>3, <1>4 DEF Unheard, Pictured
<1>5. Unheard(c) => Unheard(c)'
    <2> HAVE Unheard(c)
    <2>1. PICK why : /\ chan[c] = <<Error(why)>>
                     /\ view[c].phase = "Greeting" /\ DOMAIN view[c] = Fields
        BY <1>3 DEF Unheard
    <2>2. Head(chan[c]) = Error(why) /\ Tail(chan[c]) = <<>>
        BY <2>1
    <2>3. v = [view[c] EXCEPT !.asked = FALSE]
        BY <2>2 DEF Take, Error
    <2>4. v.phase = "Greeting" /\ DOMAIN v = Fields
        BY <2>1, <2>3 DEF Fields
    <2> QED
        BY <1>1, <1>2, <2>2, <2>4 DEF Unheard
<1>6. ASSUME NEW i, Pictured(c, i) PROVE Pictured(c, i)'
    <2>1. PICK u : Comes(view[c], chan[c], u) /\ Agrees(u, i, seats, phase)
        BY <1>6 DEF Pictured
    <2>2. view[c].phase # "Closed" /\ DOMAIN view[c] = Fields /\ IsQueue(chan[c])
        BY <1>6 DEF Pictured
    <2>3. DOMAIN v = Fields /\ v.phase # "Closed" /\ Comes(v, Tail(chan[c]), u)
        BY <1>3, <2>1, <2>2, HeadTaken
    <2>4. IsQueue(Tail(chan[c]))
        BY <1>3, <2>2, QueueTaken
    <2> QED
        BY <1>1, <1>2, <1>3, <2>1, <2>3, <2>4 DEF Pictured
<1>7. \A d \in Conns : SeatOf(d)' = SeatOf(d)
    BY <1>3 DEF SeatOf
<1>8. Views'
    BY <1>3, <1>4, <1>5, <1>6, <1>7 DEF Views, ViewInv
<1> QED
    BY <1>1, <1>2, <1>8

----------------------------------------------------------------------------
(***************************************************************************)
(* Every step keeps it.                                                    *)
(***************************************************************************)

\* A turn of the open room or of a client keeps the room's own invariant.
LEMMA RoomKept ==
    ASSUME RoomInv, open, RoomStep
    PROVE  RoomInv'
<1>1. [LifeNext]_lifeVars /\ SeatInv'
    BY RoomStepKeeps DEF RoomNext
<1> QED
    BY <1>1, LifeInvStep DEF RoomInv

\* A refusal only talks.
LEMMA RefusedRoom ==
    ASSUME RoomInv, UNCHANGED <<lifeVars, seats, kicked, link, world, hub_draining>>
    PROVE  RoomInv'
<1>1. [LifeNext]_lifeVars
    OBVIOUS
<1>2. LifeInv'
    BY <1>1, LifeInvStep DEF RoomInv
<1>3. UNCHANGED <<now, open, phase, connected, seats, kicked, link, world, hub_draining>> /\ Draining' = Draining
    BY DEF lifeVars, Draining
<1>4. SeatInv'
    BY <1>3 DEF RoomInv, SeatInv, ConnectedCount, WaitingDense, Occupied, Online, GoodSeats, Stamped
<1> QED
    BY <1>2, <1>4 DEF RoomInv

\* What a step keeps beside the pictures.
Standing ==
    /\ RoomInv
    /\ phase = "Waiting" => world # "running"
    /\ DOMAIN view = Conns /\ DOMAIN chan = Conns

LEMMA StandsAfter ==
    ASSUME RoomInv',
           phase' = "Waiting" => phase = "Waiting" /\ world' = world,
           phase = "Waiting" => world # "running",
           DOMAIN view' = Conns, Delivered
    PROVE  Standing'
BY DEF Standing, Delivered

LEMMA ReceiveStep ==
    ASSUME ViewInv, NEW c \in Conns, Receive(c)
    PROVE  ViewInv'
<1>1. Views' /\ DOMAIN view' = Conns /\ DOMAIN chan' = Conns
    BY ReceiveViews
<1>2. UNCHANGED <<lifeVars, seats, kicked, link, world, hub_draining>>
    BY DEF Receive, roomVars, seatVars
<1>3. RoomInv'
    BY <1>2, RefusedRoom DEF ViewInv
<1>4. phase' = phase /\ world' = world
    BY <1>2 DEF lifeVars
<1> QED
    BY <1>1, <1>3, <1>4 DEF ViewInv

LEMMA GreetStep ==
    ASSUME ViewInv, open, NEW c \in Conns, NEW t \in Tokens, Greet(c, t)
    PROVE  ViewInv'
<1>1. RoomStep
    BY DEF Greet, RoomStep
<1>2. RoomInv'
    BY <1>1, RoomKept DEF ViewInv
<1>3. Views'
    BY <1>2, GreetViews
<1>4. DOMAIN view' = Conns /\ Delivered
    BY SeenBy DEF Greet, ViewInv
<1>5. world' = world /\ (phase' = "Waiting" => phase = "Waiting")
    <2>1. CASE JoinRefused(c, t)
        BY <2>1 DEF JoinRefused, lifeVars
    <2>2. CASE JoinNew(c, t)
        BY <2>2 DEF JoinNew, Connect
    <2>3. CASE Reclaim(c, t)
        <3>1. \E i : ReclaimCount(i)
            BY <2>3 DEF Reclaim
        <3> QED
            BY <2>3, <3>1 DEF Reclaim, ReclaimCount, Connect, lifeVars
    <2> QED
        BY <2>1, <2>2, <2>3 DEF Greet
<1>6. Standing'
    BY <1>2, <1>4, <1>5, StandsAfter DEF ViewInv
<1> QED
    BY <1>3, <1>6 DEF ViewInv, Standing

LEMMA DropStep ==
    ASSUME ViewInv, open, NEW c \in Conns, Drop(c)
    PROVE  ViewInv'
<1>1. RoomStep
    BY DEF Drop, RoomStep
<1>2. RoomInv'
    BY <1>1, RoomKept DEF ViewInv
<1>3. Views'
    BY <1>2, DropViews
<1>4. DOMAIN view' = Conns /\ Delivered
    BY SeenBy DEF Drop, ViewInv
<1>5. world' = world /\ (phase' = "Waiting" => phase = "Waiting")
    BY DEF Drop, Disconnected, Disconnect, lifeVars
<1>6. Standing'
    BY <1>2, <1>4, <1>5, StandsAfter DEF ViewInv
<1> QED
    BY <1>3, <1>6 DEF ViewInv, Standing

LEMMA PressReadyStep ==
    ASSUME ViewInv, open, NEW c \in Conns, link[c] = "in", PressReady(c)
    PROVE  ViewInv'
<1>1. PICK i \in SeatOf(c) : Ready(i)
    BY DEF PressReady
<1>2. i \in Occupied(seats) /\ RoomStep
    BY <1>1 DEF SeatOf, LobbyCommand, RoomStep
<1>3. RoomInv'
    BY <1>2, RoomKept DEF ViewInv
<1>4. UNCHANGED view /\ Delivered
    BY DEF PressReady
<1>5. Views'
    BY <1>1, <1>2, <1>3, <1>4, ReadyViews
<1>6. world' = world /\ phase' = phase
    BY <1>1 DEF Ready, lifeVars
<1>7. Standing'
    BY <1>3, <1>4, <1>6, StandsAfter DEF ViewInv
<1> QED
    BY <1>5, <1>7 DEF ViewInv, Standing

\* START pressed on a picture the room may refuse or grant.
LEMMA PressStartStep ==
    ASSUME ViewInv, open, NEW c \in Conns, link[c] = "in", PressStart(c)
    PROVE  ViewInv'
<1>1. PICK i \in SeatOf(c) : StartRound(i)
    BY DEF PressStart
<1>2. RoomStep
    BY <1>1 DEF LobbyCommand, RoomStep
<1>3. RoomInv'
    BY <1>2, RoomKept DEF ViewInv
<1>4. Delivered /\ Seen(c, [view[c] EXCEPT !.asked = TRUE])
    BY DEF PressStart
<1> PICK v : v = [view[c] EXCEPT !.asked = TRUE]
    OBVIOUS
<1>5. DOMAIN view' = Conns /\ view'[c] = v /\ \A d \in Conns : d # c => view'[d] = view[d]
    BY <1>4, SeenBy DEF ViewInv
<1>6. DOMAIN view[c] = Fields
    BY <1>1 DEF ViewInv, Views, Pictured
<1>7. SameRoom(v, view[c]) /\ DOMAIN v = Fields
    BY <1>6 DEF SameRoom, Fields
<1>8. SameRoom(view'[c], view[c]) /\ DOMAIN view'[c] = Fields
    BY <1>5, <1>7
<1>9. CASE \E why : Refuse(i, why)
    <2>1. Views'
        BY <1>4, <1>5, <1>8, <1>9, RefuseViews
    <2>2. world' = world /\ phase' = phase
        BY <1>9 DEF Refuse, lifeVars
    <2>3. Standing'
        BY <1>3, <1>4, <1>5, <2>2, StandsAfter DEF ViewInv
    <2> QED
        BY <2>1, <2>3 DEF ViewInv, Standing
<1>10. CASE StartRefusal(i) = {}
    <2>1. Views'
        BY <1>1, <1>3, <1>4, <1>5, <1>8, <1>10, StartViews
    <2>2. Start
        BY <1>1, <1>10 DEF StartRound
    <2>3. phase' # "Waiting"
        BY <2>2 DEF Start
    <2>4. Standing'
        BY <1>3, <1>4, <1>5, <2>2, <2>3, StandsAfter DEF ViewInv
    <2> QED
        BY <2>1, <2>4 DEF ViewInv, Standing
<1> QED
    BY <1>1, <1>9, <1>10 DEF StartRound

LEMMA FreedStep ==
    ASSUME ViewInv, open, NEW i \in Occupied(seats), NEW why, RemoveSeat(i, why),
           kicked' = kicked \/ kicked' = kicked \cup {seats[i].token}, UNCHANGED view, Delivered
    PROVE  ViewInv'
<1>1. [LifeNext]_lifeVars /\ SeatInv'
    BY RemovedStep DEF ViewInv
<1>2. RoomInv'
    BY <1>1, LifeInvStep DEF ViewInv, RoomInv
<1>3. Views'
    BY <1>2, RemovedViews
<1>4. world' = world /\ (phase' = "Waiting" => phase = "Waiting")
    BY DEF RemoveSeat, Removed, Disconnect, lifeVars
<1>5. Standing'
    BY <1>2, <1>4, StandsAfter DEF ViewInv
<1> QED
    BY <1>3, <1>5 DEF ViewInv, Standing

\* KICK aims at a seat number of the client's picture, which may be old.
LEMMA PressKickStep ==
    ASSUME ViewInv, open, NEW c \in Conns, PressKick(c)
    PROVE  ViewInv'
<1>1. PICK i \in SeatOf(c), target \in CanKick(view[c]) : Kick(i, target)
    BY DEF PressKick
<1>2. UNCHANGED view /\ Delivered
    BY DEF PressKick
<1>3. CASE \E why : Refuse(i, why)
    <2>1. RoomInv'
        BY <1>3, RefusedRoom DEF ViewInv, Refuse
    <2>2. SameRoom(view'[c], view[c]) /\ DOMAIN view'[c] = Fields
        BY <1>1, <1>2 DEF SameRoom, ViewInv, Views, Pictured
    <2>3. Views'
        BY <1>1, <1>2, <1>3, <2>2, RefuseViews
    <2>4. world' = world /\ phase' = phase
        BY <1>3 DEF Refuse, lifeVars
    <2>5. Standing'
        BY <1>2, <2>1, <2>4, StandsAfter DEF ViewInv
    <2> QED
        BY <2>3, <2>5 DEF ViewInv, Standing
<1>4. CASE KickRefusal(i, target) = {} /\ kicked' = kicked \cup {seats[target].token} /\ RemoveSeat(target, "Kicked")
    <2>1. target \in Occupied(seats)
        BY <1>4 DEF KickRefusal
    <2> QED
        BY <1>2, <1>4, <2>1, FreedStep
<1> QED
    BY <1>1, <1>3, <1>4 DEF Kick

LEMMA PressLeaveStep ==
    ASSUME ViewInv, open, NEW c \in Conns, PressLeave(c)
    PROVE  ViewInv'
<1>1. PICK i \in SeatOf(c) : Leave(i)
    BY DEF PressLeave
<1>2. i \in Occupied(seats) /\ RemoveSeat(i, "LeftRoom") /\ kicked' = kicked
    BY <1>1 DEF SeatOf, Leave
<1> QED
    BY <1>2, FreedStep DEF PressLeave

LEMMA RoomTurnStep ==
    ASSUME ViewInv, open, RoomTurn
    PROVE  ViewInv'
<1>1. RoomStep /\ UNCHANGED view /\ Delivered
    BY DEF RoomTurn, RoomStep
<1>2. RoomInv'
    BY <1>1, RoomKept DEF ViewInv
<1>3. CASE Tick \/ HubDrain \/ BeginDrain \/ RoomPass
    <2>1. /\ seats' = seats /\ phase' = phase /\ link' = link /\ sent' = Silence
          /\ phase = "Waiting" => world' = world
        BY <1>3 DEF Tick, HubDrain, BeginDrain, Drain, RoomPass, Pass, lifeVars
    <2>2. Views'
        BY <1>1, <2>1, NothingToAll
    <2>3. Standing'
        BY <1>1, <1>2, <2>1, StandsAfter DEF ViewInv
    <2> QED
        BY <2>2, <2>3 DEF ViewInv, Standing
<1>4. CASE (phase = "Playing" \/ ExpiredEndRound) /\ EndRound
    <2>1. phase \in {"Playing", "Paused"}
        BY <1>4 DEF ExpiredEndRound
    <2>2. Views'
        BY <1>1, <1>4, <2>1, EndViews
    <2>3. phase' = "Ended"
        BY <1>4 DEF EndRound, End
    <2>4. Standing'
        BY <1>1, <1>2, <2>3, StandsAfter DEF ViewInv
    <2> QED
        BY <2>2, <2>4 DEF ViewInv, Standing
<1>5. CASE ReapRoom
    <2>1. Views'
        BY <1>1, <1>5, ReapViews
    <2>2. phase' = phase /\ world' = world
        BY <1>5 DEF ReapRoom, Reap
    <2>3. Standing'
        BY <1>1, <1>2, <2>2, StandsAfter DEF ViewInv
    <2> QED
        BY <2>1, <2>3 DEF ViewInv, Standing
<1>6. CASE ExpireGraces
    <2>1. Views'
        BY <1>1, <1>2, <1>6, GraceViews
    <2>2. phase' = phase /\ world' = world
        BY <1>6 DEF ExpireGraces, lifeVars
    <2>3. Standing'
        BY <1>1, <1>2, <2>2, StandsAfter DEF ViewInv
    <2> QED
        BY <2>1, <2>3 DEF ViewInv, Standing
<1> QED
    BY <1>3, <1>4, <1>5, <1>6 DEF RoomTurn, RoundDecided, OnDeadline

LEMMA ViewStep == ViewInv /\ [ViewNext]_allVars => ViewInv'
<1> SUFFICES ASSUME ViewInv, [ViewNext]_allVars PROVE ViewInv'
    OBVIOUS
<1>1. CASE UNCHANGED allVars
    <2>1. UNCHANGED <<lifeVars, seats, kicked, link, world, hub_draining, chan, view>>
        BY <1>1 DEF allVars, roomVars, seatVars, viewVars
    <2>2. RoomInv'
        BY <2>1, RefusedRoom DEF ViewInv
    <2>3. phase' = phase
        BY <2>1 DEF lifeVars
    <2>4. Views'
        BY <2>1, <2>3 DEF ViewInv, Views, Unheard, Pictured, SeatOf
    <2> QED
        BY <2>1, <2>2, <2>3, <2>4 DEF ViewInv
<1>2. CASE \E c \in Conns : Receive(c)
    BY <1>2, ReceiveStep
<1>3. ASSUME open, NEW c \in Conns, NEW t \in Tokens, Greet(c, t) PROVE ViewInv'
    BY <1>3, GreetStep
<1>4. ASSUME open, NEW c \in Conns, link[c] = "in",
             Drop(c) \/ PressReady(c) \/ PressStart(c) \/ PressKick(c) \/ PressLeave(c)
      PROVE  ViewInv'
    BY <1>4, DropStep, PressReadyStep, PressStartStep, PressKickStep, PressLeaveStep
<1>5. CASE open /\ RoomTurn
    BY <1>5, RoomTurnStep
<1> QED
    BY <1>1, <1>2, <1>3, <1>4, <1>5 DEF ViewNext

LEMMA ViewBegins == ViewInit => ViewInv
<1> SUFFICES ASSUME ViewInit PROVE ViewInv
    OBVIOUS
<1>1. RoomInv
    BY RoomInvInit DEF ViewInit
<1>2. /\ seats = <<>> /\ link = [c \in Conns |-> "new"] /\ world = "none"
      /\ chan = [c \in Conns |-> <<>>] /\ view = [c \in Conns |-> NewClient]
    BY DEF ViewInit, RoomInit
<1>3. \A c \in Conns : Unheard(c) /\ SeatOf(c) = {}
    BY <1>2 DEF Unheard, SeatOf, Occupied
<1>4. Views
    BY <1>3 DEF Views
<1> QED
    BY <1>1, <1>2, <1>4 DEF ViewInv

----------------------------------------------------------------------------
(***************************************************************************)
(* The theorems.                                                           *)
(***************************************************************************)

\* Whatever is on its way to a client with a seat - it may have pressed
\* START, lost its host, been renumbered - ends in a true picture of the
\* room as it is now.
THEOREM ViewInvariant == ViewSpec => []ViewInv
BY ViewBegins, ViewStep, PTL DEF ViewSpec

\* A client that has heard everything has that picture already.
LEMMA HeardAll ==
    ASSUME ViewInv, NEW c \in Conns, NEW i, Settles(c, i)
    PROVE  i \in SeatOf(c) /\ Agrees(view[c], i, seats, phase)
<1>1. i \in SeatOf(c) /\ chan[c] = <<>>
    BY DEF Settles
<1>2. PICK u : Comes(view[c], <<>>, u) /\ Agrees(u, i, seats, phase)
    BY <1>1 DEF ViewInv, Views, Pictured
<1>3. Same(u, view[c])
    <2>1. PICK f : Same(f[1], view[c]) /\ Same(f[Len(<<>>) + 1], u)
        BY <1>2 DEF Comes
    <2>2. Len(<<>>) + 1 = 1
        OBVIOUS
    <2> QED
        BY <2>1, <2>2 DEF Same
<1>4. Agrees(view[c], i, seats, phase)
    BY <1>2, <1>3 DEF Agrees, Same
<1> QED
    BY <1>1, <1>4

LEMMA LeastSeat ==
    ASSUME NEW s \in SeatVectors, Occupied(s) # {}
    PROVE  \E h \in Occupied(s) : \A j \in Occupied(s) : h <= j
<1> DEFINE I == Occupied(s)
           h == Nth(s, 1)
           L == {j \in I : j <= h}
<1>1. IsFiniteSet(I) /\ Cardinality(I) \in Nat /\ I \subseteq Nat
    BY OccupiedSeats
<1>2. 1 \in 1..Cardinality(I)
    BY <1>1, FS_EmptySet
<1>3. h \in I /\ Cardinality(L) = 1
    BY <1>2, Numbered
<1> HIDE DEF h
<1>4. h \in L /\ IsFiniteSet(L)
    BY <1>1, <1>3, FS_Subset
<1>5. IsFiniteSet(L \ {h}) /\ Cardinality(L \ {h}) = 0
    BY <1>3, <1>4, FS_RemoveElement
<1>6. L \ {h} = {}
    BY <1>5, FS_EmptySet
<1> QED
    BY <1>1, <1>3, <1>6

\* The roster names the lowest seat as the host, and flags who is ready.
LEMMA HostSeen ==
    ASSUME NEW i \in Occupied(seats), seats \in SeatVectors
    PROVE  RosterOf(seats).host = i <=> IsHost(i)
<1>1. Occupied(seats) \subseteq Nat /\ Occupied(seats) # {}
    BY OccupiedSeats
<1>2. PICK h \in Occupied(seats) : \A j \in Occupied(seats) : h <= j
    BY LeastSeat
<1>3. RosterOf(seats).host = CHOOSE k \in Occupied(seats) : \A j \in Occupied(seats) : k <= j
    BY <1>1 DEF RosterOf
<1>4. \A k \in Occupied(seats) : (\A j \in Occupied(seats) : k <= j) <=> k = h
    BY <1>1, <1>2
<1>5. RosterOf(seats).host = h
    BY <1>2, <1>3, <1>4
<1> QED
    BY <1>4, <1>5 DEF IsHost

LEMMA ReadySeen ==
    ASSUME NEW i \in Occupied(seats), GoodSeats(seats, kicked, link)
    PROVE  (\A x \in RosterOf(seats).seats : x.ready \/ x.seat = i) <=> ~NotReady(i)
<1> DEFINE row(j) == [seat |-> j, token |-> seats[j].token, ready |-> seats[j].ready,
                      connected |-> seats[j].conn # NoConn]
<1>1. RosterOf(seats).seats = {row(j) : j \in Occupied(seats)}
    BY DEF RosterOf
<1>2. \A j : row(j).ready = seats[j].ready /\ row(j).seat = j
    OBVIOUS
<1> HIDE DEF row
<1>3. (\A x \in RosterOf(seats).seats : x.ready \/ x.seat = i)
      <=> \A j \in Occupied(seats) : seats[j].ready \/ j = i
    BY <1>1, <1>2
<1>4. \A j \in Occupied(seats) : seats[j].token # seats[i].token <=> j # i
    BY DEF GoodSeats
<1> QED
    BY <1>3, <1>4 DEF NotReady

\* Who has heard everything has the roster the room would send now, its
\* ready flags where they decide something, and its own seat's number.
THEOREM PicturesSettle == ViewSpec => []ViewSettles
<1>1. ViewInv => ViewSettles
    <2> SUFFICES ASSUME ViewInv, NEW c \in Conns, NEW i \in DOMAIN seats, Settles(c, i)
                 PROVE  /\ view[c].host = RosterOf(seats).host
                        /\ Rows(view[c].seats) = Rows(RosterOf(seats).seats)
                        /\ ~InRound => view[c].seats = RosterOf(seats).seats
                        /\ phase # "Waiting" => view[c].seat = i
        BY DEF ViewSettles, Rows
    <2>1. Agrees(view[c], i, seats, phase)
        BY HeardAll
    <2>2. phase \in Phases
        BY SeatedFacts
    <2> QED
        BY <2>1, <2>2 DEF Agrees, InRound, Phases
<1> QED
    BY ViewInvariant, <1>1, PTL

\* Between rounds a press on a live START button is granted unless the server
\* drains, and one on a dead button would always have been refused.
THEOREM RematchButtonAlwaysHonest == ViewSpec => []RematchButtonHonest
<1>1. ViewInv => RematchButtonHonest
    <2> SUFFICES ASSUME ViewInv, NEW c \in Conns, NEW i \in DOMAIN seats, Settles(c, i), phase = "Ended"
                 PROVE  IF CanStart(view[c]) THEN StartRefusal(i) \subseteq {"ServerDraining"} ELSE StartRefusal(i) # {}
        BY DEF RematchButtonHonest
    <2> PICK v : v = view[c]
        OBVIOUS
    <2>1. /\ v.seat = i /\ v.host = RosterOf(seats).host /\ v.seats = RosterOf(seats).seats
          /\ v.phase = "Lobby" /\ ~v.asked
        BY HeardAll DEF Agrees
    <2>2. i \in Occupied(seats)
        BY HeardAll DEF SeatOf
    <2>3. SeesHost(v) <=> IsHost(i)
        BY <2>1, <2>2, HostSeen, SeatedFacts DEF SeesHost
    <2>4. (\A x \in v.seats : x.ready \/ x.seat = v.seat) <=> ~NotReady(i)
        BY <2>1, <2>2, ReadySeen, SeatedFacts
    <2>5. CanStart(v) <=> IsHost(i) /\ ~NotReady(i)
        BY <2>1, <2>3, <2>4 DEF CanStart
    <2>6. ~InRound
        BY DEF InRound
    <2>7. CASE IsHost(i) /\ ~NotReady(i)
        <3>1. StartRefusal(i) \subseteq {"ServerDraining"}
            BY <2>6, <2>7 DEF StartRefusal
        <3> QED
            BY <2>5, <2>7, <3>1
    <2>8. CASE IsHost(i) /\ NotReady(i)
        <3>1. StartRefusal(i) # {}
            BY <2>6, <2>8 DEF StartRefusal
        <3> QED
            BY <2>5, <2>8, <3>1
    <2>9. CASE ~IsHost(i)
        <3>1. StartRefusal(i) # {}
            BY <2>9 DEF StartRefusal
        <3> QED
            BY <2>5, <2>9, <3>1
    <2> QED
        BY <2>7, <2>8, <2>9
<1> QED
    BY ViewInvariant, <1>1, PTL

\* Nobody who has heard everything takes itself to be in a round the room is
\* not playing.
THEOREM NoRoundIsPhantom == ViewSpec => []NoPhantomRound
<1>1. ViewInv => NoPhantomRound
    <2> SUFFICES ASSUME ViewInv, NEW c \in Conns, NEW i \in DOMAIN seats, Settles(c, i), view[c].phase = "Playing"
                 PROVE  InRound
        BY DEF NoPhantomRound
    <2>1. Agrees(view[c], i, seats, phase) /\ phase \in Phases
        BY HeardAll, SeatedFacts
    <2> QED
        BY <2>1 DEF Agrees, InRound, Phases
<1> QED
    BY ViewInvariant, <1>1, PTL
=============================================================================
