------------------------------- MODULE Delta -------------------------------
(***************************************************************************)
(* What a snapshot delta carries and what a client makes of it             *)
(* (src/net/delta.rs).  A snapshot is a handful of families of entries by  *)
(* key, some of whose entries have a position, and values that travel      *)
(* whole when they changed; a delta says what changed since the snapshot   *)
(* before it.  An entry that only moved a short way travels as two signed  *)
(* bytes.                                                                  *)
(*                                                                         *)
(* A family is a function from the keys it holds to their entries, as      *)
(* by_key has it.  What an entry says besides its position is its look.    *)
(***************************************************************************)
EXTENDS Integers, Functions

CONSTANTS
    Keys,   \* tank ids, cells, sides: what a family is keyed by
    Looks,  \* what an entry says besides where it is
    Moving, \* the families with positions: tanks, shots, drones, ...
    Fixed,  \* the families without: tiles, fires, lamps, ...
    Wholes, \* pickups, volcano shifts, smoke cells, the round
    Values, \* what those may say
    Same    \* None: unchanged

ASSUME DeltaAssumption == Same \notin Values

----------------------------------------------------------------------------
Int16 == {n \in Int : -32768 <= n /\ n <= 32767}
Int8 == -128..127

\* i16::wrapping_add
Wrapped(n) == ((n + 32768) % 65536) - 32768

Entry == [x : Int16, y : Int16, look : Looks]

\* A family of entries of a kind, whichever keys it has.
IsFamily(family, entries) == \E keys \in SUBSET Keys : family \in [keys -> entries]

\* Of a snapshot, what a delta compares; its tick and its events go whole.
IsState(s) ==
    /\ s = [moving |-> [f \in Moving |-> s.moving[f]],
            fixed |-> [f \in Fixed |-> s.fixed[f]],
            wholes |-> [w \in Wholes |-> s.wholes[w]]]
    /\ \A f \in Moving : IsFamily(s.moving[f], Entry)
    /\ \A f \in Fixed : IsFamily(s.fixed[f], Looks)
    /\ \A w \in Wholes : s.wholes[w] \in Values

----------------------------------------------------------------------------
(***************************************************************************)
(* Cutting.                                                                *)
(***************************************************************************)

Gone(prev, next) == DOMAIN prev \ DOMAIN next

New(prev, next) ==
    {k \in DOMAIN next : ~(k \in DOMAIN prev /\ prev[k] = next[k])}

\* diff_keyed
DiffKeyed(prev, next) ==
    [changed |-> Restrict(next, New(prev, next)), gone |-> Gone(prev, next)]

\* i8::try_from
Short(step) == step \in Int8

\* Mutant: what moved a short way and was hit besides travels as a move.
MovedShort(p, n) == Short(n.x - p.x) /\ Short(n.y - p.y)

\* An entry that only moved, and a short way.
MovedOnly(p, n) ==
    /\ Short(n.x - p.x) /\ Short(n.y - p.y)
    /\ [p EXCEPT !.x = n.x, !.y = n.y] = n

\* diff_positioned
DiffPositioned(prev, next) ==
    LET moved == {k \in New(prev, next) : k \in DOMAIN prev /\ MovedOnly(prev[k], next[k])}
    IN  [changed |-> Restrict(next, New(prev, next) \ moved),
         moved |-> [k \in moved |-> [dx |-> next[k].x - prev[k].x, dy |-> next[k].y - prev[k].y]],
         gone |-> Gone(prev, next)]

\* delta
Cutting(prev, next) ==
    [moving |-> [f \in Moving |-> DiffPositioned(prev.moving[f], next.moving[f])],
     fixed |-> [f \in Fixed |-> DiffKeyed(prev.fixed[f], next.fixed[f])],
     wholes |-> [w \in Wholes |-> IF next.wholes[w] # prev.wholes[w] THEN next.wholes[w] ELSE Same]]

----------------------------------------------------------------------------
(***************************************************************************)
(* Applying.                                                               *)
(***************************************************************************)

Kept(prev, d) == DOMAIN prev \ d.gone

\* apply_keyed: the entries that went away go, and those that changed are
\* put in.
ApplyKeyed(prev, d) ==
    [k \in Kept(prev, d) \cup DOMAIN d.changed |->
        IF k \in DOMAIN d.changed THEN d.changed[k] ELSE prev[k]]

Stepped(p, step) == [p EXCEPT !.x = Wrapped(@ + step.dx), !.y = Wrapped(@ + step.dy)]

\* apply_positioned: and those that moved step in between.
ApplyPositioned(prev, d) ==
    [k \in Kept(prev, d) \cup DOMAIN d.changed |->
        CASE k \in DOMAIN d.changed -> d.changed[k]
          [] k \in DOMAIN d.moved \ DOMAIN d.changed -> Stepped(prev[k], d.moved[k])
          [] OTHER -> prev[k]]

\* apply_delta
Applied(prev, d) ==
    [moving |-> [f \in Moving |-> ApplyPositioned(prev.moving[f], d.moving[f])],
     fixed |-> [f \in Fixed |-> ApplyKeyed(prev.fixed[f], d.fixed[f])],
     wholes |-> [w \in Wholes |-> IF d.wholes[w] # Same THEN d.wholes[w] ELSE prev.wholes[w]]]
=============================================================================
