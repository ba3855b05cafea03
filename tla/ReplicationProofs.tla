------------------------- MODULE ReplicationProofs -------------------------
(***************************************************************************)
(* Proofs about the rows and tombstones of a replicated key (Replication), *)
(* for any number of API nodes, writes, clocks and lost slots, and for     *)
(* last-writer-wins and delete-wins tables alike.                          *)
(*                                                                         *)
(* Two arguments.  A delete never travels without its tombstone ahead of   *)
(* it in the same transaction (Tx), so no trigger removes a row that no    *)
(* tombstone of the node covers.  And what a node has written is therefore *)
(* still below its row or below one of its tombstones (OwnCovered): the    *)
(* floor of scd_hlc makes the next version of the node a new one, and the  *)
(* node's number in the low bits keeps it apart from those of the others.  *)
(*                                                                         *)
(* Both hold as long as no insert is written on an overtaken reading       *)
(* (races = {}): an insert whose reading was overtaken by something newer  *)
(* says so in races, and any other leaves what an insert in one step would *)
(* leave (Inserted), so the invariant is kept until the first race.        *)
(***************************************************************************)
EXTENDS Replication, FiniteSetTheorems, TLAPS

Pos == Nat \ {0}

\* Changes a transaction may consist of, and what may follow a tombstone.
Image == [op : {"insert", "update", "repair"}, v : Pos, val : Nat]
Stone == [op : {"tomb", "repairTomb"}, v : Pos]
Gone == [op |-> "delete"]

Tx(tx) ==
    \/ Len(tx) = 1 /\ tx[1] \in Image \cup Stone
    \/ Len(tx) = 2 /\ tx[1] \in Stone /\ tx[2] = Gone

\* What is under way is a transaction of this form.
Travelling == \A l \in Links : \A i \in 1 .. Len(chan[l]) : Tx(chan[l][i])

\* A set of tombstones has a newest one.
HasMax(ts) == ts = {} \/ \E x \in ts : \A y \in ts : y <= x

\* A node's row and tombstones: versions are positive, the row is above the
\* tombstones, and under a delete-wins table it has none.
Sound(r, ts) ==
    /\ r \in Row /\ ts \subseteq Pos /\ HasMax(ts)
    /\ r # NoRow => r.v > 0 /\ \A tv \in ts : ~DeleteWins /\ r.v > tv

NodesSound == \A n \in Nodes : Sound(row[n], tombs[n])

\* A version is below the row, or below a tombstone (below any, in effect, in
\* a delete-wins table, where no row follows a tombstone).
Below(v, r, ts) ==
    \/ r # NoRow /\ v <= r.v
    \/ \E tv \in ts : DeleteWins \/ v <= tv

OwnCovered == \A w \in writes : Below(w.v, row[w.on], tombs[w.on])

\* A version holds the number of the node that minted it.
Minted == \A w \in writes : \E k \in Nat : w.v = k * 16 + Ord[w.on]

\* VersionsDiffer, whatever the races.
Unique == \A a, b \in writes : a.v = b.v => a = b

\* Before the first write there is nothing.
NothingYet ==
    writes = {} =>
        /\ \A n \in Nodes : row[n] = NoRow /\ tombs[n] = {} /\ image[n] = NoRow
        /\ \A l \in Links : chan[l] = <<>>

\* What a drain has read is an image.
ImagesSound == \A n \in Nodes : image[n] # NoRow => image[n].v > 0

\* A local insert under way: the key has no row, so the node writes nothing
\* else, and the version is a new one, above every tombstone.
DraftsSound ==
    \A n \in Nodes : draft[n] # 0 =>
        /\ row[n] = NoRow
        /\ \A tv \in tombs[n] : ~DeleteWins /\ tv < draft[n]
        /\ \A w \in writes : w.on = n => w.v < draft[n]
        /\ \E k \in Nat : draft[n] = k * 16 + Ord[n]
        /\ DeleteWins => writes = {} /\ \A m \in Nodes : draft[m] # 0 => m = n

\* A reading under way is of an insert at the head of the stream.
ReadingsSound ==
    \A l \in Links : seen[l].read => chan[l] # <<>> /\ Inserts(Head(chan[l]))

IInv == TypeOK /\ Travelling /\ NodesSound /\ OwnCovered /\ Minted /\ NothingYet
          /\ ImagesSound /\ DraftsSound /\ ReadingsSound /\ Unique

\* Until the first race.
Inv == races = {} => IInv

-----------------------------------------------------------------------------
(* Versions and newest tombstones.                                          *)

\* NewestTomb is one of the tombstones and the highest.
LEMMA Newest ==
    ASSUME NEW ts \in SUBSET Nat, HasMax(ts)
    PROVE  /\ NewestTomb(ts) \in Nat
           /\ ts # {} => NewestTomb(ts) \in ts
           /\ \A tv \in ts : tv <= NewestTomb(ts)
<1>1. CASE ts = {}
  BY <1>1 DEF NewestTomb
<1>2. CASE ts # {}
  <2>1. PICK x \in ts : \A y \in ts : x >= y
    BY <1>2 DEF HasMax
  <2>2. Max(ts) \in ts /\ \A y \in ts : Max(ts) >= y
    BY <2>1 DEF Max
  <2>3. NewestTomb(ts) = Max(ts)
    BY <1>2 DEF NewestTomb
  <2> QED BY <2>2, <2>3
<1> QED BY <1>1, <1>2

\* A set with a newest element has one when an element is added.
LEMMA AddedMax ==
    ASSUME NEW ts \in SUBSET Nat, HasMax(ts), NEW v \in Nat
    PROVE  HasMax(ts \cup {v})
<1>1. CASE ts = {}
  BY <1>1 DEF HasMax
<1>2. CASE ts # {}
  <2>1. PICK x \in ts : \A y \in ts : y <= x
    BY <1>2 DEF HasMax
  <2>2. CASE v <= x
    BY <2>1, <2>2 DEF HasMax
  <2>3. CASE x < v
    BY <2>1, <2>3 DEF HasMax
  <2> QED BY <2>1, <2>2, <2>3
<1> QED BY <1>1, <1>2

\* scd_hlc mints a version above the one it is given, with the node's number.
LEMMA HlcAbove ==
    ASSUME NEW n \in Nodes, NEW clock \in Clocks, NEW prev \in Nat
    PROVE  /\ Hlc(n, clock, prev) \in Pos
           /\ Hlc(n, clock, prev) > prev
           /\ \E k \in Nat : Hlc(n, clock, prev) = k * 16 + Ord[n]
<1> DEFINE tick == (prev \div 16) + 1
           k == MaxOf(clock, tick)
<1>1. clock \in Nat /\ Ord[n] \in 1 .. 15
  BY ReplicationAssumption
<1>2. tick \in Nat /\ tick * 16 > prev
  OBVIOUS
<1> HIDE DEF tick
<1>3. k \in Nat /\ k >= tick
  BY <1>1, <1>2 DEF MaxOf
<1>4. Hlc(n, clock, prev) = k * 16 + Ord[n]
  BY DEF Hlc, tick
<1> HIDE DEF k
<1> QED BY <1>1, <1>2, <1>3, <1>4 DEF Pos

-----------------------------------------------------------------------------
(* Applying a change.  s is the state of a node within the transaction.     *)

NodeState == [row : Row, tombs : SUBSET Nat, resend : SUBSET Nat, out : Seq(Change)]

Ok(s) ==
    /\ s \in NodeState
    /\ Sound(s.row, s.tombs)
    /\ s.resend \subseteq s.tombs \cup {RowEntry}

\* The node stays sound and keeps its tombstones, and what was below its row
\* or a tombstone still is.
Kept(s, r) ==
    /\ Ok(r) /\ s.tombs \subseteq r.tombs
    /\ \A v \in Nat : Below(v, s.row, s.tombs) => Below(v, r.row, r.tombs)

\* The row or the tombstones are replaced and the change is logged.
RowTo(s, x, c) == [s EXCEPT !.row = x, !.out = Append(@, c)]
TombsTo(s, x, c) == [s EXCEPT !.tombs = x, !.out = Append(@, c)]

LEMMA RowLogged ==
    ASSUME NEW s \in NodeState, NEW x \in Row, NEW c \in Change
    PROVE  /\ RowTo(s, x, c) \in NodeState
           /\ RowTo(s, x, c).row = x /\ RowTo(s, x, c).out = Append(s.out, c)
           /\ RowTo(s, x, c).tombs = s.tombs /\ RowTo(s, x, c).resend = s.resend
<1> DEFINE o == Append(s.out, c)
           r == RowTo(s, x, c)
<1>1. o \in Seq(Change)
  BY DEF NodeState
<1>2. r = [s EXCEPT !.row = x, !.out = o]
  BY DEF RowTo
<1> HIDE DEF o, r
<1>3. r \in NodeState /\ r.row = x /\ r.out = o /\ r.tombs = s.tombs /\ r.resend = s.resend
  BY <1>1, <1>2 DEF NodeState
<1> QED BY <1>3 DEF o, r

LEMMA TombsLogged ==
    ASSUME NEW s \in NodeState, NEW x \in SUBSET Nat, NEW c \in Change
    PROVE  /\ TombsTo(s, x, c) \in NodeState
           /\ TombsTo(s, x, c).tombs = x /\ TombsTo(s, x, c).out = Append(s.out, c)
           /\ TombsTo(s, x, c).row = s.row /\ TombsTo(s, x, c).resend = s.resend
<1> DEFINE o == Append(s.out, c)
           r == TombsTo(s, x, c)
<1>1. o \in Seq(Change)
  BY DEF NodeState
<1>2. r = [s EXCEPT !.tombs = x, !.out = o]
  BY DEF TombsTo
<1> HIDE DEF o, r
<1>3. r \in NodeState /\ r.tombs = x /\ r.out = o /\ r.row = s.row /\ r.resend = s.resend
  BY <1>1, <1>2 DEF NodeState
<1> QED BY <1>3 DEF o, r

\* zz_merge on an insert, and merge_into: unless the reading r was overtaken, or
\* is to be taken again, the node stays sound.
LEMMA Inserted ==
    ASSUME NEW s, Ok(s), NEW new \in [v : Pos, val : Nat],
           NEW r \in [read : BOOLEAN, row : Row, tomb : Nat],
           r.tomb \in s.tombs \cup {0},
           ~ReadsAgain(s, r, new), Race(s, r, new) = {}
    PROVE  /\ Kept(s, ApplyInsert(s, r, new))
           /\ \/ ApplyInsert(s, r, new).out = s.out
              \/ \E c \in Image : ApplyInsert(s, r, new).out = Append(s.out, c)
<1> DEFINE x == ApplyInsert(s, r, new)
           up == [op |-> "update", v |-> new.v, val |-> new.val]
           in == [op |-> "insert", v |-> new.v, val |-> new.val]
<1> SUFFICES Kept(s, x) /\ (x.out = s.out \/ \E c \in Image : x.out = Append(s.out, c))
  OBVIOUS
<1>1. /\ s \in NodeState /\ s.tombs \in SUBSET Nat /\ HasMax(s.tombs) /\ s.row \in Row
      /\ new \in Row /\ new.v > 0 /\ new # NoRow /\ new.v \in Nat
  BY DEF Ok, NodeState, Sound, Row, Pos, NoRow
<1>2. up \in Image /\ in \in Image /\ up \in Change /\ in \in Change
  BY DEF Image, Change, Pos
<1>3. CASE r.row # NoRow /\ new.v > r.row.v
  <2>1. x = RowTo(s, new, up)
    BY <1>3 DEF ApplyInsert, MergeInto, RowTo
  <2>2. s.row # NoRow /\ new.v >= s.row.v
    BY <1>1, <1>3 DEF ReadsAgain, Race, Row
  <2> HIDE DEF x, up
  <2>3. /\ x.row = new /\ x.tombs = s.tombs /\ x.resend = s.resend
        /\ x.out = Append(s.out, up) /\ x \in NodeState
    <3>1. s \in NodeState /\ new \in Row /\ up \in Change
      BY <1>1, <1>2
    <3> QED BY <2>1, <3>1, RowLogged
  <2>4. Sound(x.row, x.tombs)
    BY <1>1, <2>2, <2>3 DEF Ok, Sound, Row, Pos
  <2>5. \A v \in Nat : Below(v, s.row, s.tombs) => Below(v, x.row, x.tombs)
    BY <1>1, <2>2, <2>3 DEF Below, Ok, Sound, Row
  <2> QED BY <1>2, <2>3, <2>4, <2>5 DEF Kept, Ok
<1>4. CASE r.row # NoRow /\ ~(new.v > r.row.v)
  BY <1>4 DEF ApplyInsert, MergeInto, Kept
<1>5. CASE r.row = NoRow /\ Blocked(r, new)
  <2>1. x = s \/ x = [s EXCEPT !.resend = @ \cup {r.tomb}]
    BY <1>5 DEF ApplyInsert, BlockInsert
  <2>2. r.tomb \in s.tombs
    BY <1>5 DEF Blocked
  <2>3. /\ x.row = s.row /\ x.tombs = s.tombs /\ x.out = s.out /\ x \in NodeState
        /\ x.resend \subseteq s.resend \cup s.tombs
    BY <1>1, <2>1, <2>2 DEF NodeState
  <2> HIDE DEF x
  <2> QED BY <2>3 DEF Kept, Ok
<1>6. CASE r.row = NoRow /\ ~Blocked(r, new)
  <2>1. x = RowTo(s, new, in)
    BY <1>6 DEF ApplyInsert, RowTo
  <2>2. /\ s.row = NoRow
        /\ ~(s.tombs # {} /\ Covers(NewestTomb(s.tombs), new.v))
    <3>1. s.row = NoRow
      BY <1>6 DEF ReadsAgain
    <3>2. ~(NewestTomb(s.tombs) > r.tomb /\ Covers(NewestTomb(s.tombs), new.v))
      BY <1>6 DEF Race
    <3>3. s.tombs # {} => NewestTomb(s.tombs) \in Nat /\ NewestTomb(s.tombs) > 0
                            /\ r.tomb <= NewestTomb(s.tombs)
      BY <1>1, Newest DEF Ok, Sound, Pos
    <3>4. ~(r.tomb # 0 /\ Covers(r.tomb, new.v)) /\ r.tomb \in Nat
      BY <1>6 DEF Blocked
    <3> QED BY <3>1, <3>2, <3>3, <3>4
  <2> HIDE DEF x, in
  <2>3. /\ x.row = new /\ x.tombs = s.tombs /\ x.resend = s.resend
        /\ x.out = Append(s.out, in) /\ x \in NodeState
    <3>1. s \in NodeState /\ new \in Row /\ in \in Change
      BY <1>1, <1>2
    <3> QED BY <2>1, <3>1, RowLogged
  <2>4. \A tv \in s.tombs : ~DeleteWins /\ new.v > tv
    BY <1>1, <2>2, Newest DEF Covers, Row
  <2>5. Sound(x.row, x.tombs)
    BY <1>1, <2>3, <2>4 DEF Ok, Sound
  <2>6. \A v \in Nat : Below(v, s.row, s.tombs) => Below(v, x.row, x.tombs)
    BY <2>2, <2>3 DEF Below
  <2> QED BY <1>2, <2>3, <2>5, <2>6 DEF Kept, Ok
<1> QED BY <1>3, <1>4, <1>5, <1>6

\* zz_merge on an update.
LEMMA Updated ==
    ASSUME NEW n \in Nodes, NEW s, Ok(s), NEW new \in [v : Pos, val : Nat]
    PROVE  /\ Kept(s, ApplyUpdate(n, s, new))
           /\ s.row = NoRow => ApplyUpdate(n, s, new).row = NoRow
           /\ \/ ApplyUpdate(n, s, new).out = s.out
              \/ \E c \in Image : ApplyUpdate(n, s, new).out = Append(s.out, c)
<1> DEFINE r == ApplyUpdate(n, s, new)
           up == [op |-> "update", v |-> new.v, val |-> new.val]
<1>0. s.row = NoRow => r.row = NoRow
  BY DEF ApplyUpdate
<1> SUFFICES Kept(s, r) /\ (r.out = s.out \/ \E c \in Image : r.out = Append(s.out, c))
  BY <1>0
<1>1. s \in NodeState /\ s.row \in Row /\ new \in Row /\ new.v > 0 /\ new # NoRow
  BY DEF Ok, NodeState, Row, Pos, NoRow
<1>2. up \in Image /\ up \in Change
  BY DEF Image, Change, Pos
<1>3. CASE r = s
  BY <1>3 DEF Kept
<1>4. CASE r # s
  <2>1. s.row # NoRow /\ ~(new.v < s.row.v) /\ r = RowTo(s, new, up)
    BY <1>4 DEF ApplyUpdate, RowTo
  <2> HIDE DEF r, up
  <2>2. /\ r.row = new /\ r.tombs = s.tombs /\ r.resend = s.resend
        /\ r.out = Append(s.out, up) /\ r \in NodeState
    BY <1>1, <1>2, <2>1, RowLogged
  <2>3. new.v >= s.row.v
    BY <1>1, <2>1 DEF Row
  <2>4. Sound(r.row, r.tombs)
    BY <1>1, <2>1, <2>2, <2>3 DEF Ok, Sound, Row, Pos
  <2>5. \A v \in Nat : Below(v, s.row, s.tombs) => Below(v, r.row, r.tombs)
    BY <1>1, <2>1, <2>2, <2>3 DEF Below, Row
  <2> QED BY <1>2, <2>2, <2>4, <2>5 DEF Kept, Ok
<1> QED BY <1>3, <1>4

\* zz_erase and scd_erase_<t>: a delete leaves the node only behind its
\* tombstone, because no row is at or below a tombstone the node had.
LEMMA Stoned ==
    ASSUME NEW n \in Nodes, NEW s, Ok(s), NEW tv \in Pos
    PROVE  LET r == ApplyTomb(n, s, tv)
               stone == [op |-> "tomb", v |-> tv]
           IN  /\ Kept(s, r) /\ tv \in r.tombs /\ (s.row = NoRow => r.row = NoRow)
               /\ \/ r.out = s.out
                  \/ r.out = Append(s.out, stone)
                  \/ r.out = Append(Append(s.out, stone), Gone)
<1> DEFINE r == ApplyTomb(n, s, tv)
           stone == [op |-> "tomb", v |-> tv]
           w == [s EXCEPT !.tombs = @ \cup {tv}, !.out = Append(@, stone)]
<1>0. s.row = NoRow => r.row = NoRow
  BY DEF ApplyTomb, EraseRow
<1> SUFFICES /\ Kept(s, r) /\ tv \in r.tombs
             /\ \/ r.out = s.out \/ r.out = Append(s.out, stone)
                \/ r.out = Append(Append(s.out, stone), Gone)
  BY <1>0
<1>1. /\ s \in NodeState /\ s.tombs \in SUBSET Nat /\ HasMax(s.tombs) /\ tv \in Nat
      /\ s.row \in Row /\ NoRow \in Row
  BY DEF Ok, NodeState, Sound, Pos, Row, NoRow
<1>2. stone \in Change /\ Gone \in Change
  BY DEF Change, Gone, Pos
<1>3. CASE tv \in s.tombs
  <2>1. r = EraseRow(s, tv)
    BY <1>3 DEF ApplyTomb
  <2>2. s.row # NoRow => ~Covers(tv, s.row.v)
    BY <1>1, <1>3 DEF Ok, Sound, Covers, Row
  <2>3. r = s \/ r = [s EXCEPT !.resend = @ \cup {RowEntry}]
    BY <2>1, <2>2 DEF EraseRow
  <2>4. /\ r.row = s.row /\ r.tombs = s.tombs /\ r.out = s.out /\ r \in NodeState
        /\ r.resend \subseteq s.resend \cup {RowEntry}
    BY <1>1, <2>3 DEF NodeState, RowEntry
  <2> HIDE DEF r
  <2> QED BY <1>3, <2>4 DEF Kept, Ok
<1>4. CASE tv \notin s.tombs
  <2>1. r = EraseRow(w, tv)
    BY <1>4 DEF ApplyTomb
  <2>2. /\ w.row = s.row /\ w.tombs = s.tombs \cup {tv} /\ w.resend = s.resend
        /\ w.out = Append(s.out, stone) /\ w \in NodeState
    <3>1. s.tombs \cup {tv} \in SUBSET Nat
      BY <1>1
    <3>2. w = TombsTo(s, s.tombs \cup {tv}, stone)
      BY DEF TombsTo
    <3> HIDE DEF w, stone
    <3> QED BY <1>1, <1>2, <3>1, <3>2, TombsLogged
  <2>3. HasMax(w.tombs) /\ w.tombs \subseteq Pos
    BY <1>1, <2>2, AddedMax DEF Ok, Sound
  <2> HIDE DEF w
  <2>4. CASE w.row = NoRow \/ Covers(tv, w.row.v)
    <3>1. \/ r = w /\ w.row = NoRow
          \/ r = RowTo(w, NoRow, Gone)
      BY <2>1, <2>4 DEF EraseRow, Gone, RowTo
    <3> HIDE DEF r
    <3>2. /\ r.row = NoRow /\ r.tombs = w.tombs /\ r.resend = w.resend /\ r \in NodeState
          /\ (r.out = w.out \/ r.out = Append(w.out, Gone))
      <4>1. CASE r = w /\ w.row = NoRow
        BY <2>2, <4>1
      <4>2. CASE r = RowTo(w, NoRow, Gone)
        BY <1>1, <1>2, <2>2, <4>2, RowLogged
      <4> QED BY <3>1, <4>1, <4>2
    <3>3. Sound(r.row, r.tombs)
      BY <1>1, <2>3, <3>2 DEF Sound
    <3>4. \A v \in Nat : Below(v, s.row, s.tombs) => Below(v, r.row, r.tombs)
      <4> SUFFICES ASSUME NEW v \in Nat, Below(v, s.row, s.tombs)
                   PROVE  \E t \in r.tombs : DeleteWins \/ v <= t
        BY DEF Below
      <4>1. tv \in r.tombs /\ s.tombs \subseteq r.tombs
        BY <2>2, <3>2
      <4>2. CASE s.row # NoRow /\ v <= s.row.v
        <5>1. DeleteWins \/ s.row.v <= tv
          BY <2>2, <2>4, <4>2 DEF Covers
        <5>2. DeleteWins \/ v <= tv
          BY <1>1, <4>2, <5>1 DEF Row
        <5> QED BY <4>1, <5>2
      <4>3. CASE \E t \in s.tombs : DeleteWins \/ v <= t
        BY <4>1, <4>3
      <4> QED BY <4>2, <4>3 DEF Below
    <3> QED BY <2>2, <3>2, <3>3, <3>4 DEF Kept, Ok
  <2>5. CASE w.row # NoRow /\ ~Covers(tv, w.row.v)
    <3>1. r = [w EXCEPT !.resend = @ \cup {RowEntry}]
      BY <2>1, <2>5 DEF EraseRow
    <3>2. /\ r.row = w.row /\ r.tombs = w.tombs /\ r \in NodeState /\ r.out = w.out
          /\ r.resend = w.resend \cup {RowEntry}
      BY <2>2, <3>1 DEF NodeState, RowEntry
    <3> HIDE DEF r
    <3>3. Sound(r.row, r.tombs)
      BY <1>1, <2>2, <2>3, <2>5, <3>2 DEF Ok, Sound, Covers, Row
    <3>4. \A v \in Nat : Below(v, s.row, s.tombs) => Below(v, r.row, r.tombs)
      BY <2>2, <3>2 DEF Below
    <3> QED BY <2>2, <3>2, <3>3, <3>4 DEF Kept, Ok
  <2> QED BY <2>4, <2>5
<1> QED BY <1>3, <1>4

\* zz_tomb_guard: with a tombstone there is no row left that it would remove.
LEMMA Deleted ==
    ASSUME NEW n \in Nodes, NEW s, Ok(s), s.tombs # {}
    PROVE  /\ Kept(s, ApplyDelete(n, s)) /\ ApplyDelete(n, s).out = s.out
           /\ s.row = NoRow => ApplyDelete(n, s).row = NoRow
<1> DEFINE r == ApplyDelete(n, s)
<1>0. s.row = NoRow => r.row = NoRow
  BY DEF ApplyDelete
<1> SUFFICES Kept(s, r) /\ r.out = s.out
  BY <1>0
<1>1. s \in NodeState /\ s.tombs \in SUBSET Nat /\ HasMax(s.tombs) /\ s.row \in Row
  BY DEF Ok, NodeState, Sound
<1>2. NewestTomb(s.tombs) \in s.tombs
  BY <1>1, Newest
<1>3. s.row # NoRow => ~DeleteWins /\ ~(s.row.v <= NewestTomb(s.tombs))
  BY <1>1, <1>2 DEF Ok, Sound, Row
<1>4. r = s \/ r = [s EXCEPT !.resend = @ \cup {RowEntry}]
  BY <1>3 DEF ApplyDelete
<1>5. /\ r.row = s.row /\ r.tombs = s.tombs /\ r.out = s.out /\ r \in NodeState
      /\ r.resend \subseteq s.resend \cup {RowEntry}
  BY <1>1, <1>4 DEF NodeState, RowEntry
<1> HIDE DEF r
<1> QED BY <1>5 DEF Kept, Ok

\* What a node's own log gets of a change: nothing, an image, a tombstone, or
\* a tombstone and the delete.
LEMMA LoggedTx ==
    /\ \A c \in Image \cup Stone : Tx(Append(<<>>, c))
    /\ \A c \in Stone : Tx(Append(Append(<<>>, c), Gone))
<1>1. ASSUME NEW T, NEW q \in Seq(T), NEW c \in T
      PROVE  /\ Append(q, c) \in Seq(T) /\ Len(Append(q, c)) = Len(q) + 1
             /\ Append(q, c)[Len(q) + 1] = c
             /\ \A i \in 1 .. Len(q) : Append(q, c)[i] = q[i]
  OBVIOUS
<1>2. ASSUME NEW T, NEW c \in T
      PROVE  /\ Append(<<>>, c) \in Seq(T) /\ Len(Append(<<>>, c)) = 1
             /\ Append(<<>>, c)[1] = c
  <2>1. <<>> \in Seq(T) /\ Len(<<>>) = 0
    OBVIOUS
  <2> QED BY <1>1, <2>1
<1>3. ASSUME NEW T, NEW c \in T, NEW g \in T
      PROVE  LET q == Append(Append(<<>>, c), g)
             IN  Len(q) = 2 /\ q[1] = c /\ q[2] = g
  <2> DEFINE q == Append(<<>>, c)
  <2>1. q \in Seq(T) /\ Len(q) = 1 /\ q[1] = c
    BY <1>2
  <2> HIDE DEF q
  <2>2. /\ Len(Append(q, g)) = Len(q) + 1 /\ Append(q, g)[Len(q) + 1] = g
        /\ \A i \in 1 .. Len(q) : Append(q, g)[i] = q[i]
    <3>1. q \in Seq(T)
      BY <2>1
    <3> QED BY <3>1
  <2>3. Len(Append(q, g)) = 2 /\ Append(q, g)[1] = c /\ Append(q, g)[2] = g
    BY <2>1, <2>2
  <2> QED BY <2>3 DEF q
<1>4. \A c \in Image \cup Stone : Tx(Append(<<>>, c))
  BY <1>2 DEF Tx
<1>5. ASSUME NEW c \in Stone PROVE Tx(Append(Append(<<>>, c), Gone))
  <2>1. c \in {c, Gone} /\ Gone \in {c, Gone}
    OBVIOUS
  <2> DEFINE q == Append(Append(<<>>, c), Gone)
  <2>2. Len(q) = 2 /\ q[1] = c /\ q[2] = Gone
    BY <1>3, <2>1
  <2> QED BY <2>2 DEF Tx
<1> QED BY <1>4, <1>5

\* The first change of a transaction.
LEMMA FirstChange ==
    ASSUME NEW n \in Nodes, NEW s, Ok(s), s.out = <<>>, NEW c \in Image \cup Stone,
           c.op \notin {"insert", "repair"}
    PROVE  LET r == ApplyChange(n, s, c)
           IN  /\ Kept(s, r) /\ (r.out # <<>> => Tx(r.out))
               /\ c \in Stone => r.tombs # {}
               /\ s.row = NoRow => r.row = NoRow
<1> DEFINE r == ApplyChange(n, s, c)
           new == [v |-> c.v, val |-> c.val]
<1> SUFFICES /\ Kept(s, r) /\ (r.out # <<>> => Tx(r.out)) /\ (c \in Stone => r.tombs # {})
             /\ s.row = NoRow => r.row = NoRow
  OBVIOUS
<1>1. CASE c \in Image
  <2>1. new \in [v : Pos, val : Nat] /\ c.op = "update"
    BY <1>1 DEF Image
  <2>2. r = ApplyUpdate(n, s, new)
    BY <2>1 DEF ApplyChange
  <2> HIDE DEF r, new
  <2>3. /\ Kept(s, r) /\ (s.row = NoRow => r.row = NoRow)
        /\ (r.out = s.out \/ \E d \in Image : r.out = Append(s.out, d))
    BY <2>1, <2>2, Updated
  <2>4. c \notin Stone
    BY <2>1 DEF Stone
  <2> QED BY <2>3, <2>4, LoggedTx
<1>2. CASE c \in Stone
  <2>1. c.v \in Pos /\ c.op \in {"tomb", "repairTomb"}
    BY <1>2 DEF Stone
  <2>2. r = ApplyTomb(n, s, c.v)
    BY <2>1 DEF ApplyChange
  <2> DEFINE stone == [op |-> "tomb", v |-> c.v]
  <2>3. stone \in Stone
    BY <2>1 DEF Stone
  <2> HIDE DEF r
  <2>4. /\ Kept(s, r) /\ c.v \in r.tombs /\ (s.row = NoRow => r.row = NoRow)
        /\ \/ r.out = s.out \/ r.out = Append(s.out, stone)
           \/ r.out = Append(Append(s.out, stone), Gone)
    BY <2>1, <2>2, Stoned
  <2> HIDE DEF stone
  <2> QED BY <2>3, <2>4, LoggedTx
<1> QED BY <1>1, <1>2

\* Applying a transaction keeps the node sound and what it covers covered, and
\* what core forwards of it is a transaction again.
LEMMA Transaction ==
    ASSUME NEW n \in Nodes, NEW s, Ok(s), s.out = <<>>, NEW tx, Tx(tx), ~Inserts(tx)
    PROVE  LET r == ApplyTx(n, s, tx)
           IN  Kept(s, r) /\ (r.out # <<>> => Tx(r.out)) /\ (s.row = NoRow => r.row = NoRow)
<1> DEFINE r == ApplyTx(n, s, tx)
           first == ApplyChange(n, s, tx[1])
<1> SUFFICES Kept(s, r) /\ (r.out # <<>> => Tx(r.out)) /\ (s.row = NoRow => r.row = NoRow)
  OBVIOUS
<1>1. tx[1] \in Image \cup Stone /\ tx[1].op \notin {"insert", "repair"}
  BY DEF Tx, Inserts
<1>2. /\ Kept(s, first) /\ (first.out # <<>> => Tx(first.out))
      /\ (tx[1] \in Stone => first.tombs # {}) /\ (s.row = NoRow => first.row = NoRow)
  BY <1>1, FirstChange
<1>3. CASE Len(tx) = 1
  BY <1>2, <1>3 DEF ApplyTx
<1>4. CASE Len(tx) = 2 /\ tx[1] \in Stone /\ tx[2] = Gone
  <2>1. ApplyChange(n, first, Gone) = ApplyDelete(n, first)
    BY DEF ApplyChange, Gone
  <2>2. r = ApplyDelete(n, first)
    BY <1>4, <2>1 DEF ApplyTx
  <2> HIDE DEF r, first
  <2>3. Ok(first) /\ first.tombs # {}
    BY <1>2, <1>4 DEF Kept
  <2>4. Kept(first, r) /\ r.out = first.out /\ (first.row = NoRow => r.row = NoRow)
    BY <2>2, <2>3, Deleted
  <2> QED BY <1>2, <2>4 DEF Kept
<1> QED BY <1>3, <1>4 DEF Tx

-----------------------------------------------------------------------------
(* Streams.                                                                 *)

ChanOk(c) ==
    /\ c \in [Links -> Seq(Seq(Change))]
    /\ \A l \in Links : \A i \in 1 .. Len(c[l]) : Tx(c[l][i])

\* A committed transaction reaches the streams of its node.
LEMMA Sent ==
    ASSUME NEW n, NEW c, ChanOk(c), NEW tx \in Seq(Change), tx # <<>> => Tx(tx)
    PROVE  ChanOk(SendFrom(n, c, tx))
<1> DEFINE d == SendFrom(n, c, tx)
<1>1. ASSUME NEW l \in Links
      PROVE  d[l] \in Seq(Seq(Change)) /\ \A i \in 1 .. Len(d[l]) : Tx(d[l][i])
  <2>1. c[l] \in Seq(Seq(Change)) /\ \A i \in 1 .. Len(c[l]) : Tx(c[l][i])
    BY DEF ChanOk
  <2>2. d[l] = c[l] \/ (tx # <<>> /\ d[l] = Append(c[l], tx))
    BY DEF SendFrom
  <2> HIDE DEF d
  <2>3. CASE d[l] = c[l]
    BY <2>1, <2>3
  <2>4. CASE tx # <<>> /\ d[l] = Append(c[l], tx)
    <3> DEFINE q == c[l]
               T == Seq(Change)
    <3>1. q \in Seq(T) /\ tx \in T
      BY <2>1
    <3> HIDE DEF q, T
    <3>2. /\ Append(q, tx) \in Seq(T) /\ Len(Append(q, tx)) = Len(q) + 1
          /\ \A i \in 1 .. Len(q) : Append(q, tx)[i] = q[i]
          /\ Append(q, tx)[Len(q) + 1] = tx
      BY <3>1
    <3>3. \A i \in 1 .. Len(q) : Tx(q[i])
      BY <2>1 DEF q
    <3>4. Len(q) \in Nat
      BY <3>1
    <3>5. \A i \in 1 .. Len(q) + 1 : Tx(Append(q, tx)[i])
      BY <2>4, <3>2, <3>3, <3>4
    <3> QED BY <2>4, <3>2, <3>5 DEF q, T
  <2> QED BY <2>2, <2>3, <2>4
<1>2. d = [l \in Links |-> d[l]]
  BY DEF SendFrom
<1> HIDE DEF d
<1>3. d \in [Links -> Seq(Seq(Change))]
  BY <1>1, <1>2
<1>4. ChanOk(d)
  BY <1>1, <1>3 DEF ChanOk
<1> QED BY <1>4 DEF d

\* A subscriber takes the oldest transaction of a stream.
LEMMA Taken ==
    ASSUME NEW c, ChanOk(c), NEW l \in Links, c[l] # <<>>
    PROVE  ChanOk([c EXCEPT ![l] = Tail(@)]) /\ Tx(Head(c[l]))
<1> DEFINE d == [c EXCEPT ![l] = Tail(@)]
           q == c[l]
           T == Seq(Change)
<1>1. q \in Seq(T) /\ q # <<>> /\ (\A i \in 1 .. Len(q) : Tx(q[i]))
  BY DEF ChanOk
<1> HIDE DEF T
<1>2. \A k \in Links : d[k] = IF k = l THEN Tail(q) ELSE c[k]
  BY DEF ChanOk
<1>3. d = [k \in Links |-> d[k]]
  BY DEF ChanOk
<1> HIDE DEF d, q
<1>4. Len(q) \in Nat \ {0}
  BY <1>1
<1>5. /\ Head(q) = q[1] /\ Tail(q) \in Seq(T) /\ Len(Tail(q)) = Len(q) - 1
      /\ \A i \in 1 .. Len(q) - 1 : Tail(q)[i] = q[i + 1]
  BY <1>1, <1>4
<1>6. \A i \in 1 .. Len(Tail(q)) : Tx(Tail(q)[i])
  BY <1>1, <1>4, <1>5
<1>7. \A k \in Links : d[k] \in Seq(Seq(Change)) /\ \A i \in 1 .. Len(d[k]) : Tx(d[k][i])
  BY <1>2, <1>5, <1>6 DEF T, ChanOk
<1>8. d \in [Links -> Seq(Seq(Change))]
  BY <1>3, <1>7
<1>9. ChanOk(d)
  BY <1>7, <1>8 DEF ChanOk
<1>10. Tx(Head(q))
  BY <1>1, <1>4, <1>5
<1> QED BY <1>9, <1>10 DEF d, q

\* A reading stays one of the head of its stream.
LEMMA Heads ==
    ASSUME NEW n, NEW c, ChanOk(c), NEW tx \in Seq(Change), NEW l \in Links, c[l] # <<>>
    PROVE  SendFrom(n, c, tx)[l] # <<>> /\ Head(SendFrom(n, c, tx)[l]) = Head(c[l])
<1> DEFINE q == c[l]
           T == Seq(Change)
           d == SendFrom(n, c, tx)[l]
<1>1. q \in Seq(T) /\ q # <<>> /\ tx \in T
  BY DEF ChanOk
<1>2. d = q \/ d = Append(q, tx)
  BY DEF SendFrom
<1> HIDE DEF q, T, d
<1>3. Append(q, tx) # <<>> /\ Head(Append(q, tx)) = Head(q)
  BY <1>1
<1>4. d # <<>> /\ Head(d) = Head(q)
  BY <1>1, <1>2, <1>3
<1> QED BY <1>4 DEF d, q

-----------------------------------------------------------------------------
(* Steps.                                                                   *)

LEMMA InitInv == Init => IInv
<1> SUFFICES ASSUME Init PROVE IInv
  OBVIOUS
<1>1. NoRow \in Row /\ NotRead \in [read : BOOLEAN, row : Row, tomb : Nat]
  BY DEF NoRow, Row, NotRead
<1>2. TypeOK
  BY <1>1, FS_EmptySet DEF Init, TypeOK, RowEntry, NotRead
<1>3. /\ Travelling /\ NothingYet /\ OwnCovered /\ Minted /\ ImagesSound /\ Unique
      /\ DraftsSound /\ ReadingsSound
  BY DEF Init, Travelling, NothingYet, OwnCovered, Minted, ImagesSound, Unique,
         DraftsSound, ReadingsSound, NotRead
<1>4. NodesSound
  BY <1>1 DEF Init, NodesSound, Sound, HasMax
<1> QED BY <1>2, <1>3, <1>4 DEF IInv

\* The number of writes is the value of the next one.
LEMMA NextValue == TypeOK => Cardinality(writes) + 1 \in Nat
BY FS_CardinalityType DEF TypeOK

\* A version that a node mints above everything it has written is a new one:
\* those of the other nodes have other numbers.
LEMMA FreshVersion ==
    ASSUME IInv, NEW n \in Nodes, NEW v \in Nat, NEW val \in Nat,
           \E k \in Nat : v = k * 16 + Ord[n],
           \A w \in writes : w.on = n => w.v < v,
           writes' = writes \cup {[v |-> v, val |-> val, on |-> n]}
    PROVE  /\ Minted' /\ Unique' /\ IsFiniteSet(writes')
           /\ \A w \in writes' : w \in [v : Nat, val : Nat, on : Nodes]
<1> DEFINE new == [v |-> v, val |-> val, on |-> n]
<1>1. new \in [v : Nat, val : Nat, on : Nodes] /\ new.v = v /\ new.on = n
  OBVIOUS
<1>2. /\ \A w \in writes : w \in [v : Nat, val : Nat, on : Nodes]
      /\ IsFiniteSet(writes) /\ Minted /\ Unique
  BY DEF IInv, TypeOK
<1>3. writes' = writes \cup {new}
  OBVIOUS
<1> HIDE DEF new
<1>4. Minted'
  BY <1>1, <1>2, <1>3 DEF Minted
<1>5. ASSUME NEW w \in writes PROVE w.v # v
  <2>1. CASE w.on = n
    BY <1>2, <2>1
  <2>2. CASE w.on # n
    <3>1. w.on \in Nodes /\ Ord[w.on] \in 1 .. 15 /\ Ord[n] \in 1 .. 15 /\ Ord[w.on] # Ord[n]
      BY <1>2, <2>2, ReplicationAssumption
    <3>2. PICK j \in Nat : w.v = j * 16 + Ord[w.on]
      BY <1>2 DEF Minted
    <3>3. PICK k \in Nat : v = k * 16 + Ord[n]
      OBVIOUS
    <3> QED BY <3>1, <3>2, <3>3
  <2> QED BY <2>1, <2>2
<1>6. Unique'
  BY <1>1, <1>2, <1>3, <1>5 DEF Unique
<1>7. IsFiniteSet(writes')
  BY <1>2, <1>3, FS_AddElement
<1> QED BY <1>1, <1>2, <1>3, <1>4, <1>6, <1>7

\* The streams of a state that satisfies the invariant.
LEMMA Streams == IInv => ChanOk(chan)
BY DEF IInv, TypeOK, Travelling, ChanOk

\* A local write: its version is above what the node wrote before, and both are
\* covered by what the write leaves.
LEMMA Written ==
    ASSUME IInv, NEW n \in Nodes, NEW v \in Pos, NEW val \in Nat, NEW r, NEW ts,
           Sound(r, ts), tombs[n] \subseteq ts, Below(v, r, ts),
           \A w \in writes : w.on = n => w.v < v /\ Below(w.v, r, ts),
           \E k \in Nat : v = k * 16 + Ord[n],
           row' = [row EXCEPT ![n] = r], tombs' = [tombs EXCEPT ![n] = ts],
           writes' = writes \cup {[v |-> v, val |-> val, on |-> n]},
           ChanOk(chan'), resend' = resend, image' = image, behind' = behind,
           seen' = seen, draft' \in [Nodes -> Nat], races' = {},
           DraftsSound', ReadingsSound'
    PROVE  IInv'
<1>1. /\ Minted' /\ Unique' /\ IsFiniteSet(writes')
      /\ \A w \in writes' : w \in [v : Nat, val : Nat, on : Nodes]
  BY FreshVersion DEF Pos
<1>2. r \in Row /\ ts \in SUBSET Nat
  BY DEF Sound, Pos
<1>3. /\ row' \in [Nodes -> Row] /\ tombs' \in [Nodes -> SUBSET Nat]
      /\ \A m \in Nodes : row'[m] = IF m = n THEN r ELSE row[m]
      /\ \A m \in Nodes : tombs'[m] = IF m = n THEN ts ELSE tombs[m]
  BY <1>2 DEF IInv, TypeOK
<1>4. TypeOK'
  <2>1. \A m \in Nodes : resend'[m] \subseteq tombs'[m] \cup {RowEntry}
    BY <1>3 DEF IInv, TypeOK
  <2>2. \A l \in Links : seen'[l].tomb \in tombs'[l[2]] \cup {0}
    <3>1. \A l \in Links : l[2] \in Nodes
      BY DEF Links, Nodes
    <3> QED BY <1>3, <3>1 DEF IInv, TypeOK
  <2> QED BY <1>1, <1>3, <2>1, <2>2 DEF IInv, TypeOK, ChanOk
<1>5. Travelling' /\ ImagesSound'
  BY DEF ChanOk, Travelling, IInv, ImagesSound
<1>6. NodesSound'
  BY <1>3 DEF IInv, NodesSound
<1>7. OwnCovered'
  <2> DEFINE new == [v |-> v, val |-> val, on |-> n]
  <2>1. new.v = v /\ new.on = n /\ writes' = writes \cup {new}
    OBVIOUS
  <2> HIDE DEF new
  <2> SUFFICES ASSUME NEW w \in writes' PROVE Below(w.v, row'[w.on], tombs'[w.on])
    BY DEF OwnCovered, Below
  <2>2. CASE w = new
    BY <1>3, <2>1, <2>2
  <2>3. CASE w \in writes /\ w.on = n
    BY <1>3, <2>3
  <2>4. CASE w \in writes /\ w.on # n
    <3>1. w.on \in Nodes
      BY <1>1
    <3> QED BY <1>3, <2>4, <3>1 DEF IInv, OwnCovered
  <2> QED BY <2>1, <2>2, <2>3, <2>4
<1>8. NothingYet'
  BY DEF NothingYet
<1> QED BY <1>1, <1>4, <1>5, <1>6, <1>7, <1>8 DEF IInv

\* A local insert takes its version: above every tombstone the node has, and so
\* above all it has written.
LEMMA InsertStep ==
    ASSUME IInv, NEW n \in Nodes, NEW c \in Clocks, LocalInsert(n, c)
    PROVE  IInv'
<1> DEFINE ts == tombs[n]
           v == Hlc(n, c, InsertFloor(n))
<1>1. Sound(row[n], ts) /\ ts \in SUBSET Nat /\ HasMax(ts)
  BY DEF IInv, NodesSound, Sound, Pos
<1>2. InsertFloor(n) \in Nat /\ (~DeleteWins => \A tv \in ts : tv <= InsertFloor(n))
  BY <1>1, Newest DEF InsertFloor
<1>3. v \in Pos /\ v > InsertFloor(n) /\ \E k \in Nat : v = k * 16 + Ord[n]
  BY <1>2, HlcAbove
<1>4. /\ row[n] = NoRow /\ (DeleteWins => writes = {} /\ Drafts = {})
      /\ draft' = [draft EXCEPT ![n] = v]
      /\ UNCHANGED <<row, tombs, resend, chan, image, seen, behind, writes, losses, races>>
  BY DEF LocalInsert
<1> HIDE DEF v
<1>5. \A w \in writes : w.on = n => w.v < v
  <2> SUFFICES ASSUME NEW w \in writes, w.on = n PROVE w.v < v
    OBVIOUS
  <2>1. ~DeleteWins /\ w.v \in Nat
    BY <1>4 DEF IInv, TypeOK
  <2>2. PICK tv \in ts : w.v <= tv
    BY <1>4, <2>1 DEF IInv, OwnCovered, Below
  <2> QED BY <1>1, <1>2, <1>3, <2>1, <2>2 DEF Pos
<1>6. /\ draft' \in [Nodes -> Nat]
      /\ \A m \in Nodes : draft'[m] = IF m = n THEN v ELSE draft[m]
  BY <1>3, <1>4 DEF IInv, TypeOK, Pos
<1>7. DraftsSound'
  <2> SUFFICES ASSUME NEW m \in Nodes, draft'[m] # 0
               PROVE  /\ row'[m] = NoRow
                      /\ \A tv \in tombs'[m] : ~DeleteWins /\ tv < draft'[m]
                      /\ \A w \in writes' : w.on = m => w.v < draft'[m]
                      /\ \E k \in Nat : draft'[m] = k * 16 + Ord[m]
                      /\ DeleteWins => writes' = {} /\ \A x \in Nodes : draft'[x] # 0 => x = m
    BY DEF DraftsSound
  <2>1. CASE m = n
    <3>1. \A tv \in ts : ~DeleteWins /\ tv < v
      <4>1. DeleteWins => ts = {}
        BY <1>4 DEF IInv, NothingYet
      <4> QED BY <1>1, <1>2, <1>3, <4>1 DEF Pos
    <3> QED BY <1>3, <1>4, <1>5, <1>6, <2>1, <3>1 DEF Drafts
  <2>2. CASE m # n
    <3>1. draft[m] # 0 /\ ~DeleteWins
      BY <1>4, <1>6, <2>2 DEF Drafts
    <3> QED BY <1>4, <1>6, <2>2, <3>1 DEF IInv, DraftsSound
  <2> QED BY <2>1, <2>2
<1>8. TypeOK'
  BY <1>4, <1>6 DEF IInv, TypeOK
<1> QED BY <1>4, <1>7, <1>8 DEF IInv, Travelling, NodesSound, OwnCovered, Below, Minted,
            NothingYet, ImagesSound, ReadingsSound, Unique

\* It commits: no tombstone covers the row, or its arrival was a race.
LEMMA CommitStep ==
    ASSUME IInv, NEW n \in Nodes, InsertCommits(n), races' = {}
    PROVE  IInv'
<1> DEFINE ts == tombs[n]
           v == draft[n]
           val == Cardinality(writes) + 1
           r == [v |-> v, val |-> val]
           tx == << [op |-> "insert", v |-> v, val |-> val] >>
<1>1. Sound(row[n], ts) /\ ts \in SUBSET Nat /\ HasMax(ts)
  BY DEF IInv, NodesSound, Sound, Pos
<1>2. /\ v \in Pos /\ row[n] = NoRow /\ (\A w \in writes : w.on = n => w.v < v)
      /\ (\E k \in Nat : v = k * 16 + Ord[n])
      /\ (DeleteWins => writes = {} /\ \A m \in Nodes : draft[m] # 0 => m = n)
      /\ \A tv \in ts : ~DeleteWins /\ tv < v
  BY DEF InsertCommits, IInv, TypeOK, DraftsSound, Pos
<1>3. val \in Nat
  BY NextValue DEF IInv
<1>4. /\ row' = [row EXCEPT ![n] = r] /\ chan' = SendFrom(n, chan, tx)
      /\ writes' = writes \cup {[v |-> v, val |-> val, on |-> n]}
      /\ draft' = [draft EXCEPT ![n] = 0] /\ tombs' = tombs /\ seen' = seen
      /\ resend' = resend /\ image' = image /\ behind' = behind
  BY DEF InsertCommits
<1> HIDE DEF v, val
<1>5. tx \in Seq(Change) /\ Tx(tx)
  BY <1>2, <1>3 DEF Change, Tx, Image, Pos
<1> HIDE DEF tx
<1>6. ChanOk(chan')
  BY <1>4, <1>5, Streams, Sent
<1>7. r \in Row /\ r.v = v /\ r # NoRow
  BY <1>2, <1>3 DEF Row, NoRow, Pos
<1> HIDE DEF r
<1>8. \A tv \in ts : ~DeleteWins /\ v > tv
  BY <1>1, <1>2 DEF Pos
<1>9. Sound(r, ts)
  BY <1>1, <1>2, <1>7, <1>8 DEF Sound, Pos
<1>10. Below(v, r, ts)
  BY <1>2, <1>7 DEF Below, Pos
<1>11. \A w \in writes : w.on = n => w.v < v /\ Below(w.v, r, ts)
  BY <1>2, <1>7 DEF Below, IInv, TypeOK, Pos
<1>12. /\ tombs' = [tombs EXCEPT ![n] = ts] /\ draft' \in [Nodes -> Nat]
       /\ \A m \in Nodes : draft'[m] = IF m = n THEN 0 ELSE draft[m]
  BY <1>4 DEF IInv, TypeOK
<1>13. DraftsSound'
  <2> SUFFICES ASSUME NEW m \in Nodes, draft'[m] # 0
               PROVE  /\ row'[m] = NoRow
                      /\ \A tv \in tombs'[m] : ~DeleteWins /\ tv < draft'[m]
                      /\ \A w \in writes' : w.on = m => w.v < draft'[m]
                      /\ \E k \in Nat : draft'[m] = k * 16 + Ord[m]
                      /\ DeleteWins => writes' = {} /\ \A x \in Nodes : draft'[x] # 0 => x = m
    BY DEF DraftsSound
  <2>1. m # n /\ draft[m] # 0 /\ draft'[m] = draft[m] /\ ~DeleteWins
    BY <1>2, <1>12
  <2>2. /\ row[m] = NoRow /\ (\A w \in writes : w.on = m => w.v < draft[m])
        /\ \A tv \in tombs[m] : ~DeleteWins /\ tv < draft[m]
        /\ \E k \in Nat : draft[m] = k * 16 + Ord[m]
    BY <2>1 DEF IInv, DraftsSound
  <2>3. row'[m] = NoRow
    BY <1>4, <2>1, <2>2 DEF IInv, TypeOK
  <2>4. \A w \in writes' : w.on = m => w.v < draft'[m]
    BY <1>4, <2>1, <2>2
  <2> QED BY <1>4, <2>1, <2>2, <2>3, <2>4
<1>14. ReadingsSound'
  BY <1>4, <1>5, Streams, Heads DEF IInv, ReadingsSound
<1> QED BY <1>2, <1>3, <1>4, <1>6, <1>9, <1>10, <1>11, <1>12, <1>13, <1>14, Written

\* A write of a node that has a row leaves the inserts under way elsewhere.
LEMMA OtherDrafts ==
    ASSUME IInv, NEW n \in Nodes, NEW v, NEW val, NEW r, row[n] # NoRow, draft' = draft,
           row' = [row EXCEPT ![n] = r], \A m \in Nodes : m # n => tombs'[m] = tombs[m],
           writes' = writes \cup {[v |-> v, val |-> val, on |-> n]}
    PROVE  DraftsSound'
<1> SUFFICES ASSUME NEW m \in Nodes, draft[m] # 0
             PROVE  /\ row'[m] = NoRow
                    /\ \A tv \in tombs'[m] : ~DeleteWins /\ tv < draft[m]
                    /\ \A w \in writes' : w.on = m => w.v < draft[m]
                    /\ \E k \in Nat : draft[m] = k * 16 + Ord[m]
                    /\ DeleteWins => writes' = {} /\ \A x \in Nodes : draft[x] # 0 => x = m
  BY DEF DraftsSound
<1>1. /\ row[m] = NoRow /\ (\A w \in writes : w.on = m => w.v < draft[m])
      /\ (\E k \in Nat : draft[m] = k * 16 + Ord[m]) /\ (DeleteWins => writes = {})
      /\ \A tv \in tombs[m] : ~DeleteWins /\ tv < draft[m]
  BY DEF IInv, DraftsSound
<1>2. m # n /\ ~DeleteWins
  BY <1>1 DEF IInv, NothingYet
<1>3. row'[m] = NoRow
  BY <1>1, <1>2 DEF IInv, TypeOK
<1>4. \A w \in writes' : w.on = m => w.v < draft[m]
  BY <1>1, <1>2
<1> QED BY <1>1, <1>2, <1>3, <1>4

LEMMA UpdateStep ==
    ASSUME IInv, NEW n \in Nodes, NEW c \in Clocks, LocalUpdate(n, c), races = {}
    PROVE  IInv'
<1> DEFINE ts == tombs[n]
           v == Hlc(n, c, row[n].v)
           val == Cardinality(writes) + 1
           r == [v |-> v, val |-> val]
           tx == << [op |-> "update", v |-> v, val |-> val] >>
<1>1. Sound(row[n], ts) /\ ts \in SUBSET Nat /\ row[n] \in Row /\ row[n].v \in Nat
  BY DEF IInv, NodesSound, Sound, Pos, Row
<1>2. v \in Pos /\ v > row[n].v /\ \E k \in Nat : v = k * 16 + Ord[n]
  BY <1>1, HlcAbove
<1>3. val \in Nat
  BY NextValue DEF IInv
<1>4. /\ row' = [row EXCEPT ![n] = r] /\ chan' = SendFrom(n, chan, tx)
      /\ writes' = writes \cup {[v |-> v, val |-> val, on |-> n]}
      /\ tombs' = tombs /\ resend' = resend /\ image' = image /\ behind' = behind
      /\ seen' = seen /\ draft' = draft /\ races' = races /\ row[n] # NoRow
  BY DEF LocalUpdate
<1> HIDE DEF v, val
<1>5. tx \in Seq(Change) /\ Tx(tx)
  BY <1>2, <1>3 DEF Change, Tx, Image, Pos
<1> HIDE DEF tx
<1>6. ChanOk(chan')
  BY <1>4, <1>5, Streams, Sent
<1>7. r \in Row /\ r.v = v /\ r # NoRow
  BY <1>2, <1>3 DEF Row, NoRow, Pos
<1> HIDE DEF r
<1>8. Sound(r, ts)
  BY <1>1, <1>2, <1>4, <1>7 DEF Sound, Pos
<1>9. Below(v, r, ts)
  BY <1>2, <1>7 DEF Below, Pos
<1>10. \A w \in writes : w.on = n => w.v < v /\ Below(w.v, r, ts)
  <2> SUFFICES ASSUME NEW w \in writes, w.on = n PROVE w.v < v /\ Below(w.v, r, ts)
    OBVIOUS
  <2>1. w.v \in Nat /\ Below(w.v, row[n], ts)
    BY DEF IInv, TypeOK, OwnCovered
  <2>2. w.v <= row[n].v
    BY <1>1, <1>4, <2>1 DEF Below, Sound
  <2>3. w.v < v
    BY <1>1, <1>2, <2>1, <2>2 DEF Pos
  <2> QED BY <1>2, <1>7, <2>1, <2>3 DEF Below, Pos
<1>11. tombs' = [tombs EXCEPT ![n] = ts]
  BY <1>4 DEF IInv, TypeOK
<1>12. DraftsSound' /\ draft' \in [Nodes -> Nat]
  BY <1>2, <1>4, OtherDrafts DEF IInv, TypeOK
<1>13. ReadingsSound'
  BY <1>4, <1>5, Streams, Heads DEF IInv, ReadingsSound
<1> QED BY <1>2, <1>3, <1>4, <1>6, <1>8, <1>9, <1>10, <1>11, <1>12, <1>13, Written

LEMMA DeleteStep ==
    ASSUME IInv, NEW n \in Nodes, NEW c \in Clocks, LocalDelete(n, c), races = {}
    PROVE  IInv'
<1> DEFINE old == tombs[n]
           floor == MaxOf(row[n].v, NewestTomb(old))
           v == Hlc(n, c, floor)
           ts == old \cup {v}
           tx == DeleteChanges(v)
<1>1. /\ Sound(row[n], old) /\ old \in SUBSET Nat /\ HasMax(old)
      /\ row[n] \in Row /\ row[n].v \in Nat
  BY DEF IInv, NodesSound, Sound, Pos, Row
<1>2. floor \in Nat /\ floor >= row[n].v
  BY <1>1, Newest DEF MaxOf
<1> HIDE DEF floor
<1>3. v \in Pos /\ v > floor /\ \E k \in Nat : v = k * 16 + Ord[n]
  BY <1>2, HlcAbove
<1>4. /\ row' = [row EXCEPT ![n] = NoRow] /\ chan' = SendFrom(n, chan, tx)
      /\ tombs' = [tombs EXCEPT ![n] = ts]
      /\ writes' = writes \cup {[v |-> v, val |-> 0, on |-> n]}
      /\ resend' = resend /\ image' = image /\ behind' = behind
      /\ seen' = seen /\ draft' = draft /\ races' = races /\ row[n] # NoRow
  BY DEF LocalDelete, floor
<1> HIDE DEF v
<1>5. tx \in Seq(Change) /\ Tx(tx)
  BY <1>3 DEF DeleteChanges, Change, Tx, Stone, Gone, Pos
<1> HIDE DEF tx
<1>6. ChanOk(chan')
  BY <1>4, <1>5, Streams, Sent
<1>7. HasMax(ts) /\ v \in ts /\ old \subseteq ts
  BY <1>1, <1>3, AddedMax DEF Pos
<1>8. Sound(NoRow, ts)
  BY <1>1, <1>3, <1>7 DEF Sound, NoRow, Row
<1>9. Below(v, NoRow, ts)
  <2>1. v \in Nat /\ v <= v
    BY <1>3 DEF Pos
  <2>2. v \in ts
    BY <1>7
  <2> HIDE DEF ts
  <2> QED BY <2>1, <2>2 DEF Below
<1>10. \A w \in writes : w.on = n => w.v < v /\ Below(w.v, NoRow, ts)
  <2> SUFFICES ASSUME NEW w \in writes, w.on = n PROVE w.v < v /\ Below(w.v, NoRow, ts)
    OBVIOUS
  <2>1. w.v \in Nat /\ Below(w.v, row[n], old)
    BY DEF IInv, TypeOK, OwnCovered
  <2>2. w.v <= row[n].v
    BY <1>1, <1>4, <2>1 DEF Below, Sound
  <2>3. w.v < v
    BY <1>1, <1>2, <1>3, <2>1, <2>2 DEF Pos
  <2> QED BY <1>3, <1>7, <2>1, <2>3 DEF Below, Pos
<1>11. DraftsSound' /\ draft' \in [Nodes -> Nat]
  BY <1>3, <1>4, OtherDrafts DEF IInv, TypeOK
<1>12. ReadingsSound'
  BY <1>4, <1>5, Streams, Heads DEF IInv, ReadingsSound
<1> HIDE DEF ts
<1> QED BY <1>3, <1>4, <1>6, <1>7, <1>8, <1>9, <1>10, <1>11, <1>12, Written

\* A transaction is applied, and the reading it may have taken is over.
LEMMA AppliedStep ==
    ASSUME IInv, NEW l \in Links, chan[l] # <<>>, NEW s, Applied(l, s),
           Kept(State(l[2]), s), s.out # <<>> => Tx(s.out),
           draft[l[2]] # 0 => s.row = NoRow /\ \A tv \in s.tombs : ~DeleteWins /\ tv < draft[l[2]],
           races' = {},
           \/ seen' = seen /\ ~seen[l].read
           \/ seen' = [seen EXCEPT ![l] = NotRead]
    PROVE  IInv'
<1> DEFINE to == l[2]
           rest == [chan EXCEPT ![l] = Tail(@)]
<1>1. to \in Nodes
  BY DEF Links, Nodes
<1>2. /\ row' = [row EXCEPT ![to] = s.row] /\ tombs' = [tombs EXCEPT ![to] = s.tombs]
      /\ resend' = [resend EXCEPT ![to] = s.resend]
      /\ chan' = IF to = Core THEN SendFrom(to, rest, s.out) ELSE rest
      /\ image' = image /\ draft' = draft /\ behind' = behind /\ writes' = writes
  BY DEF Applied
<1>3. ChanOk(rest) /\ Tx(Head(chan[l])) /\ \A k \in Links : k # l => rest[k] = chan[k]
  BY Streams, Taken DEF IInv, TypeOK
<1> HIDE DEF rest
<1>6. /\ s.row \in Row /\ s.tombs \in SUBSET Nat /\ s.resend \in SUBSET Nat
      /\ s.out \in Seq(Change) /\ s.resend \subseteq s.tombs \cup {RowEntry}
      /\ Sound(s.row, s.tombs) /\ tombs[to] \subseteq s.tombs
  BY DEF Kept, Ok, NodeState, State
<1>7. ChanOk(chan')
  BY <1>2, <1>3, <1>6, Sent
<1>8. /\ row' \in [Nodes -> Row] /\ tombs' \in [Nodes -> SUBSET Nat]
      /\ resend' \in [Nodes -> SUBSET Nat]
      /\ \A m \in Nodes : row'[m] = IF m = to THEN s.row ELSE row[m]
      /\ \A m \in Nodes : tombs'[m] = IF m = to THEN s.tombs ELSE tombs[m]
      /\ \A m \in Nodes : resend'[m] = IF m = to THEN s.resend ELSE resend[m]
  <2> HIDE DEF to
  <2> QED BY <1>1, <1>2, <1>6 DEF IInv, TypeOK
<1>9. /\ seen' \in [Links -> [read : BOOLEAN, row : Row, tomb : Nat]]
      /\ \A k \in Links : seen'[k] = NotRead \/ (seen'[k] = seen[k] /\ (k = l => ~seen[k].read))
  <2>1. NotRead \in [read : BOOLEAN, row : Row, tomb : Nat]
    BY DEF NotRead, NoRow, Row
  <2> QED BY <2>1 DEF IInv, TypeOK
<1>10. TypeOK'
  <2>1. \A m \in Nodes : resend'[m] \subseteq tombs'[m] \cup {RowEntry}
    BY <1>6, <1>8 DEF IInv, TypeOK
  <2>2. \A k \in Links : seen'[k].tomb \in tombs'[k[2]] \cup {0}
    <3>1. \A k \in Links : k[2] \in Nodes
      BY DEF Links, Nodes
    <3>2. NotRead.tomb = 0
      BY DEF NotRead
    <3> QED BY <1>6, <1>8, <1>9, <3>1, <3>2 DEF IInv, TypeOK
  <2> QED BY <1>2, <1>7, <1>8, <1>9, <2>1, <2>2 DEF IInv, TypeOK, ChanOk
<1>11. Travelling' /\ ImagesSound' /\ Minted' /\ Unique'
  BY <1>2, <1>7 DEF ChanOk, Travelling, IInv, ImagesSound, Minted, Unique
<1>12. NodesSound'
  BY <1>6, <1>8 DEF IInv, NodesSound
<1>13. OwnCovered'
  <2> SUFFICES ASSUME NEW w \in writes PROVE Below(w.v, row'[w.on], tombs'[w.on])
    BY <1>2 DEF OwnCovered, Below
  <2>1. w.v \in Nat /\ w.on \in Nodes /\ Below(w.v, row[w.on], tombs[w.on])
    BY DEF IInv, TypeOK, OwnCovered
  <2>2. State(to).row = row[to] /\ State(to).tombs = tombs[to]
    BY DEF State
  <2> QED BY <1>8, <2>1, <2>2 DEF Kept
<1>14. NothingYet'
  BY <1>2 DEF IInv, NothingYet
<1>15. DraftsSound'
  BY <1>2, <1>8 DEF IInv, DraftsSound
<1>16. ReadingsSound'
  <2> SUFFICES ASSUME NEW k \in Links, seen'[k].read
               PROVE  chan'[k] # <<>> /\ Inserts(Head(chan'[k]))
    BY DEF ReadingsSound
  <2>1. k # l /\ seen[k].read
    BY <1>9 DEF NotRead
  <2>2. rest[k] # <<>> /\ Inserts(Head(rest[k]))
    BY <1>3, <2>1 DEF IInv, ReadingsSound
  <2>3. CASE to = Core
    BY <1>2, <1>3, <1>6, <2>2, <2>3, Heads
  <2>4. CASE to # Core
    BY <1>2, <2>2, <2>4
  <2> QED BY <2>3, <2>4
<1> QED BY <1>10, <1>11, <1>12, <1>13, <1>14, <1>15, <1>16 DEF IInv

\* The state of a node that satisfies the invariant.
LEMMA StateOk ==
    ASSUME IInv, NEW n \in Nodes
    PROVE  Ok(State(n)) /\ State(n).out = <<>> /\ State(n).row = row[n]
             /\ State(n).tombs = tombs[n]
<1>1. /\ row[n] \in Row /\ tombs[n] \in SUBSET Nat /\ resend[n] \in SUBSET Nat
      /\ resend[n] \subseteq tombs[n] \cup {RowEntry} /\ Sound(row[n], tombs[n])
  BY DEF IInv, TypeOK, NodesSound
<1> QED BY <1>1 DEF Ok, State, NodeState

\* A change of the row, or a tombstone.
LEMMA ApplyStep ==
    ASSUME IInv, NEW l \in Links, Apply(l), races' = {}
    PROVE  IInv'
<1> DEFINE s == ApplyTx(l[2], State(l[2]), Head(chan[l]))
<1>1. l[2] \in Nodes
  BY DEF Links, Nodes
<1>2. /\ chan[l] # <<>> /\ ~Inserts(Head(chan[l])) /\ Applied(l, s)
      /\ seen' = seen /\ Overtaken(l[2], s) = {}
  BY DEF Apply
<1>3. Tx(Head(chan[l]))
  BY <1>2, Streams, Taken
<1>4. /\ Kept(State(l[2]), s) /\ (s.out # <<>> => Tx(s.out))
      /\ (State(l[2]).row = NoRow => s.row = NoRow)
  BY <1>1, <1>2, <1>3, StateOk, Transaction
<1> HIDE DEF s
<1>5. draft[l[2]] # 0 => s.row = NoRow /\ \A tv \in s.tombs : ~DeleteWins /\ tv < draft[l[2]]
  <2> SUFFICES ASSUME draft[l[2]] # 0
               PROVE  s.row = NoRow /\ \A tv \in s.tombs : ~DeleteWins /\ tv < draft[l[2]]
    OBVIOUS
  <2>1. s.row = NoRow
    BY <1>1, <1>4, StateOk DEF IInv, DraftsSound
  <2>2. \A tv \in tombs[l[2]] : ~DeleteWins /\ tv < draft[l[2]]
    BY <1>1 DEF IInv, DraftsSound
  <2>3. \A tv \in s.tombs \ tombs[l[2]] : ~Covers(tv, draft[l[2]])
    BY <1>2 DEF Overtaken
  <2>4. draft[l[2]] \in Nat /\ s.tombs \subseteq Nat
    BY <1>1, <1>4 DEF IInv, TypeOK, Kept, Ok, NodeState
  <2> QED BY <2>1, <2>2, <2>3, <2>4 DEF Covers
<1>6. ~seen[l].read
  BY <1>2 DEF IInv, ReadingsSound
<1> QED BY <1>2, <1>4, <1>5, <1>6, AppliedStep

\* The reading and the write of an insert.
LEMMA ReadStep ==
    ASSUME IInv, NEW l \in Links, InsertReads(l)
    PROVE  IInv'
<1> DEFINE n == l[2]
           r == [read |-> TRUE, row |-> row[n],
                 tomb |-> IF row[n] = NoRow THEN NewestTomb(tombs[n]) ELSE 0]
<1>1. n \in Nodes
  BY DEF Links, Nodes
<1>2. /\ chan[l] # <<>> /\ Inserts(Head(chan[l])) /\ seen' = [seen EXCEPT ![l] = r]
      /\ UNCHANGED <<row, tombs, resend, chan, image, draft, behind, writes, losses, races>>
  BY DEF InsertReads
<1>3. tombs[n] \in SUBSET Nat /\ HasMax(tombs[n]) /\ row[n] \in Row
  BY <1>1 DEF IInv, TypeOK, NodesSound, Sound
<1>4. NewestTomb(tombs[n]) \in tombs[n] \cup {0}
  BY <1>3, Newest DEF NewestTomb
<1>5. /\ r \in [read : BOOLEAN, row : Row, tomb : Nat] /\ r.tomb \in tombs[n] \cup {0}
  BY <1>3, <1>4
<1> HIDE DEF r
<1>6. /\ seen' \in [Links -> [read : BOOLEAN, row : Row, tomb : Nat]]
      /\ \A k \in Links : seen'[k] = IF k = l THEN r ELSE seen[k]
  BY <1>2, <1>5 DEF IInv, TypeOK
<1>7. \A k \in Links : seen'[k].tomb \in tombs'[k[2]] \cup {0}
  BY <1>2, <1>5, <1>6 DEF IInv, TypeOK
<1>8. TypeOK'
  BY <1>2, <1>6, <1>7 DEF IInv, TypeOK
<1>9. ReadingsSound'
  BY <1>2, <1>6 DEF IInv, ReadingsSound
<1> QED BY <1>2, <1>8, <1>9 DEF IInv, Travelling, NodesSound, OwnCovered, Below, Minted,
            NothingYet, ImagesSound, DraftsSound, Unique

LEMMA WriteStep ==
    ASSUME IInv, NEW l \in Links, InsertWrites(l), races' = {}
    PROVE  IInv'
<1> DEFINE c == Head(chan[l])[1]
           new == [v |-> c.v, val |-> c.val]
           s == State(l[2])
           x == ApplyInsert(s, seen[l], new)
<1>1. l[2] \in Nodes
  BY DEF Links, Nodes
<1>2. seen[l].read /\ draft[l[2]] = 0 /\ seen' = [seen EXCEPT ![l] = NotRead]
  BY DEF InsertWrites
<1>3. chan[l] # <<>> /\ Inserts(Head(chan[l]))
  BY <1>2 DEF IInv, ReadingsSound
<1>4. new \in [v : Pos, val : Nat]
  <2>1. Tx(Head(chan[l])) /\ c.op \in {"insert", "repair"}
    BY <1>3, Streams, Taken DEF Inserts
  <2>2. c \in Image
    BY <2>1 DEF Tx, Stone
  <2> QED BY <2>2 DEF Image
<1>5. CASE ReadsAgain(s, seen[l], new)
  <2>1. UNCHANGED <<row, tombs, resend, chan, image, draft, behind, writes, losses, races>>
    BY <1>5 DEF InsertWrites
  <2>2. NotRead \in [read : BOOLEAN, row : Row, tomb : Nat] /\ NotRead.tomb = 0 /\ ~NotRead.read
    BY DEF NotRead, NoRow, Row
  <2>3. /\ seen' \in [Links -> [read : BOOLEAN, row : Row, tomb : Nat]]
        /\ \A k \in Links : seen'[k] = IF k = l THEN NotRead ELSE seen[k]
    BY <1>2, <2>2 DEF IInv, TypeOK
  <2>4. TypeOK' /\ ReadingsSound'
    BY <2>1, <2>2, <2>3 DEF IInv, TypeOK, ReadingsSound
  <2> QED BY <2>1, <2>4 DEF IInv, Travelling, NodesSound, OwnCovered, Below, Minted,
              NothingYet, ImagesSound, DraftsSound, Unique
<1>6. CASE ~ReadsAgain(s, seen[l], new)
  <2>1. Applied(l, x) /\ races' = races \cup Race(s, seen[l], new)
    BY <1>6 DEF InsertWrites
  <2>2. Race(s, seen[l], new) = {}
    BY <2>1
  <2>3. Ok(s) /\ s.out = <<>> /\ s.tombs = tombs[l[2]]
    BY <1>1, StateOk
  <2>4. /\ seen[l] \in [read : BOOLEAN, row : Row, tomb : Nat]
        /\ seen[l].tomb \in s.tombs \cup {0}
    BY <2>3 DEF IInv, TypeOK
  <2> HIDE DEF s, new
  <2>5. /\ Kept(s, x) /\ (x.out = s.out \/ \E d \in Image : x.out = Append(s.out, d))
    BY <1>4, <1>6, <2>2, <2>3, <2>4, Inserted
  <2> HIDE DEF x
  <2>6. x.out # <<>> => Tx(x.out)
    BY <2>3, <2>5, LoggedTx
  <2> QED BY <1>2, <1>3, <2>1, <2>5, <2>6, AppliedStep DEF s
<1> QED BY <1>5, <1>6

\* Streams, queues and images change, rows, tombstones and writes do not.
LEMMA Unwritten ==
    ASSUME IInv, row' = row, tombs' = tombs, writes' = writes, ChanOk(chan'),
           resend' \in [Nodes -> SUBSET Nat],
           \A n \in Nodes : resend'[n] \subseteq tombs[n] \cup {RowEntry},
           image' \in [Nodes -> Row],
           \A n \in Nodes : image'[n] # NoRow => image'[n].v > 0,
           behind' \in [Nodes -> BOOLEAN], NothingYet', draft' = draft, races' = races,
           seen' \in [Links -> [read : BOOLEAN, row : Row, tomb : Nat]],
           \A l \in Links : seen'[l].tomb \in tombs[l[2]] \cup {0}, ReadingsSound'
    PROVE  IInv'
<1>1. TypeOK'
  BY DEF IInv, TypeOK, ChanOk
<1>2. Travelling' /\ ImagesSound'
  BY DEF ChanOk, Travelling, ImagesSound
<1>3. NodesSound' /\ OwnCovered' /\ Minted' /\ Unique' /\ DraftsSound'
  BY DEF IInv, NodesSound, OwnCovered, Below, Minted, Unique, DraftsSound
<1> QED BY <1>1, <1>2, <1>3 DEF IInv

LEMMA DrainStep ==
    ASSUME IInv, NEW n \in Nodes, Drain(n)
    PROVE  IInv'
<1> USE DEF RowEntry
<1>1. CASE DrainRead(n)
  <2>1. row[n] \in Row /\ row[n] # NoRow /\ row[n].v > 0
    BY <1>1 DEF DrainRead, IInv, TypeOK, NodesSound, Sound
  <2>2. image' = [image EXCEPT ![n] = row[n]]
    BY <1>1 DEF DrainRead
  <2>3. image' \in [Nodes -> Row] /\ \A m \in Nodes : image'[m] # NoRow => image'[m].v > 0
    BY <2>1, <2>2 DEF IInv, TypeOK, ImagesSound
  <2>4. NothingYet'
    BY <1>1, <2>1 DEF DrainRead, IInv, NothingYet
  <2> QED BY <1>1, <2>3, <2>4, Streams, Unwritten DEF DrainRead, IInv, TypeOK, ReadingsSound
<1>2. CASE DrainSend(n)
  <2> DEFINE tx == << [op |-> "repair", v |-> image[n].v, val |-> image[n].val] >>
  <2>1. image[n] \in Row /\ image[n] # NoRow /\ image[n].v > 0 /\ NoRow \in Row
    BY <1>2 DEF DrainSend, IInv, TypeOK, ImagesSound, NoRow, Row
  <2>2. image[n].v \in Pos /\ image[n].val \in Nat
    BY <2>1 DEF Row, Pos
  <2>3. tx \in Seq(Change) /\ Tx(tx)
    BY <2>2 DEF Change, Tx, Image, Pos
  <2>4. chan' = SendFrom(n, chan, tx)
    BY <1>2 DEF DrainSend
  <2> HIDE DEF tx
  <2>5. ChanOk(chan')
    BY <2>3, <2>4, Streams, Sent
  <2>6. image' \in [Nodes -> Row] /\ \A m \in Nodes : image'[m] # NoRow => image'[m].v > 0
    BY <1>2, <2>1 DEF DrainSend, IInv, TypeOK, ImagesSound
  <2>7. /\ resend' \in [Nodes -> SUBSET Nat]
        /\ \A m \in Nodes : resend'[m] \subseteq tombs[m] \cup {RowEntry}
    BY <1>2 DEF DrainSend, IInv, TypeOK
  <2>8. NothingYet'
    BY <1>2, <2>1 DEF DrainSend, IInv, NothingYet
  <2>9. ReadingsSound'
    BY <1>2, <2>3, <2>4, Streams, Heads DEF DrainSend, IInv, ReadingsSound
  <2> QED BY <1>2, <2>5, <2>6, <2>7, <2>8, <2>9, Unwritten DEF DrainSend, IInv, TypeOK
<1>3. CASE DrainGone(n)
  <2>1. /\ resend' \in [Nodes -> SUBSET Nat]
        /\ \A m \in Nodes : resend'[m] \subseteq tombs[m] \cup {RowEntry}
    BY <1>3 DEF DrainGone, IInv, TypeOK
  <2>2. NothingYet'
    BY <1>3 DEF DrainGone, IInv, NothingYet
  <2> QED BY <1>3, <2>1, <2>2, Streams, Unwritten DEF DrainGone, IInv, TypeOK, ImagesSound, ReadingsSound
<1>4. ASSUME NEW tv \in tombs[n], DrainTomb(n, tv) PROVE IInv'
  <2> DEFINE tx == << [op |-> "repairTomb", v |-> tv] >>
  <2>1. tv \in Pos
    BY DEF IInv, NodesSound, Sound
  <2>2. tx \in Seq(Change) /\ Tx(tx)
    BY <2>1 DEF Change, Tx, Stone, Pos
  <2>3. chan' = SendFrom(n, chan, tx)
    BY <1>4 DEF DrainTomb
  <2> HIDE DEF tx
  <2>4. ChanOk(chan')
    BY <2>2, <2>3, Streams, Sent
  <2>5. /\ resend' \in [Nodes -> SUBSET Nat]
        /\ \A m \in Nodes : resend'[m] \subseteq tombs[m] \cup {RowEntry}
    BY <1>4 DEF DrainTomb, IInv, TypeOK
  <2>6. NothingYet'
    BY <1>4 DEF DrainTomb, IInv, NothingYet
  <2>7. ReadingsSound'
    BY <1>4, <2>2, <2>3, Streams, Heads DEF DrainTomb, IInv, ReadingsSound
  <2> QED BY <1>4, <2>4, <2>5, <2>6, <2>7, Unwritten DEF DrainTomb, IInv, TypeOK, ImagesSound
<1> QED BY <1>1, <1>2, <1>3, <1>4 DEF Drain

LEMMA LoseStep ==
    ASSUME IInv, NEW l \in Links, LoseSlot(l[1], l[2])
    PROVE  IInv'
<1>1. l = <<l[1], l[2]>> /\ l[1] \in Nodes
  BY DEF Links, Nodes
<1>2. chan' = [chan EXCEPT ![l] = <<>>] /\ behind' = [behind EXCEPT ![l[1]] = TRUE]
  BY <1>1 DEF LoseSlot
<1>3. /\ chan' \in [Links -> Seq(Seq(Change))]
      /\ \A k \in Links : chan'[k] = IF k = l THEN <<>> ELSE chan[k]
  BY <1>2 DEF IInv, TypeOK
<1>4. ChanOk(chan')
  BY <1>3, Streams DEF ChanOk
<1>5. NothingYet'
  BY <1>3 DEF LoseSlot, IInv, NothingYet
<1>6. behind' \in [Nodes -> BOOLEAN]
  BY <1>1, <1>2 DEF IInv, TypeOK
<1>7. NotRead \in [read : BOOLEAN, row : Row, tomb : Nat] /\ NotRead.tomb = 0 /\ ~NotRead.read
  BY DEF NotRead, NoRow, Row
<1>8. seen' = [seen EXCEPT ![l] = NotRead]
  BY <1>1 DEF LoseSlot
<1>9. /\ seen' \in [Links -> [read : BOOLEAN, row : Row, tomb : Nat]]
      /\ \A k \in Links : seen'[k] = IF k = l THEN NotRead ELSE seen[k]
  BY <1>7, <1>8 DEF IInv, TypeOK
<1>10. /\ \A k \in Links : seen'[k].tomb \in tombs[k[2]] \cup {0}
       /\ ReadingsSound'
  BY <1>3, <1>7, <1>9 DEF IInv, TypeOK, ReadingsSound
<1> QED BY <1>4, <1>5, <1>6, <1>9, <1>10, Unwritten DEF LoseSlot, IInv, TypeOK, ImagesSound

LEMMA ResendStep ==
    ASSUME IInv, NEW n \in Nodes, ResendAll(n)
    PROVE  IInv'
<1>1. /\ resend' \in [Nodes -> SUBSET Nat]
      /\ \A m \in Nodes : resend'[m] \subseteq tombs[m] \cup {RowEntry}
  BY DEF ResendAll, AllOf, RowEntry, IInv, TypeOK
<1>2. behind' \in [Nodes -> BOOLEAN]
  BY DEF ResendAll, IInv, TypeOK
<1>3. NothingYet'
  BY DEF ResendAll, IInv, NothingYet
<1> QED BY <1>1, <1>2, <1>3, Streams, Unwritten DEF ResendAll, IInv, TypeOK, ImagesSound, ReadingsSound

\* races only grows.
LEMMA RacesStay == [Next]_vars => (races' = {} => races = {})
BY DEF Next, vars, LocalInsert, LocalUpdate, LocalDelete, InsertCommits, ApplyWorker, Apply,
       InsertReads, InsertWrites, LoseSlot, Drain, DrainRead, DrainSend, DrainGone,
       DrainTomb, ResendAll

LEMMA StepInv == Inv /\ [Next]_vars => Inv'
<1> SUFFICES ASSUME Inv, [Next]_vars, races' = {} PROVE IInv'
  BY DEF Inv
<1>0. races = {} /\ IInv
  BY RacesStay DEF Inv
<1>1. ASSUME NEW n \in Nodes, NEW c \in Clocks,
             LocalInsert(n, c) \/ LocalUpdate(n, c) \/ LocalDelete(n, c)
      PROVE  IInv'
  BY <1>0, <1>1, InsertStep, UpdateStep, DeleteStep
<1>2. ASSUME NEW l \in Links, ApplyWorker(l) \/ LoseSlot(l[1], l[2]) PROVE IInv'
  BY <1>0, <1>2, ApplyStep, ReadStep, WriteStep, LoseStep DEF ApplyWorker
<1>3. ASSUME NEW n \in Nodes, InsertCommits(n) \/ Drain(n) \/ ResendAll(n) PROVE IInv'
  BY <1>0, <1>3, CommitStep, DrainStep, ResendStep
<1>4. CASE UNCHANGED vars
  BY <1>0, <1>4 DEF vars, IInv, TypeOK, Travelling, NodesSound, OwnCovered, Below, Minted,
              NothingYet, ImagesSound, DraftsSound, ReadingsSound, Unique
<1> QED BY <1>1, <1>2, <1>3, <1>4 DEF Next

\* The invariant of the replicated key holds in every state before the first
\* race: rows, tombstones, streams, readings and versions under way agree.
THEOREM ReplInvariant == Spec => []Inv
<1>1. Init => Inv
  BY InitInv DEF Inv
<1> QED BY <1>1, StepInv, PTL DEF Spec

\* On no node is there a row at or below a tombstone the node knows, whatever
\* the clocks read and in whatever order rows, tombstones and deletes arrive,
\* unless an insert was written on a reading that something newer had
\* overtaken: the triggers zz_merge, zz_erase and zz_tomb_guard, for both
\* kinds of table.
THEOREM ReplRowAbove == Spec => []RowAboveTombs
<1>1. Inv => RowAboveTombs
  BY DEF Inv, IInv, NodesSound, Sound, RowAboveTombs
<1> QED BY ReplInvariant, <1>1, PTL

\* No two statements mint the same version, whatever their clocks read: the
\* floors that zz_ver gives scd_hlc are above all the node has written, until a
\* race puts an older row in its place.
THEOREM ReplVersions == Spec => []VersionsDiffer
<1>1. Inv => VersionsDiffer
  BY DEF Inv, IInv, Unique, VersionsDiffer
<1> QED BY ReplInvariant, <1>1, PTL
=============================================================================
