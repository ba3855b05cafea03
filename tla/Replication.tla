---------------------------- MODULE Replication ----------------------------
(***************************************************************************)
(* The rows of one key of a tombstoned table, kept on the core database   *)
(* and on the API nodes' databases by logical replication and by the      *)
(* triggers that ops/replication/gen_triggers.py generates.               *)
(*                                                                         *)
(* Core subscribes to every API node with origin = none, so an API node   *)
(* sends core only what was written on it; API nodes subscribe to core    *)
(* with origin = any, so core forwards to all of them, the writer too,    *)
(* whatever it applied.  A subscription delivers whole transactions in    *)
(* commit order.  An UPDATE names a row the subscriber may not have (it is *)
(* then dropped) and a DELETE carries the key alone, so a delete is a      *)
(* versioned tombstone that travels ahead of it, and whatever a trigger    *)
(* refuses is answered by a resend queue that every node drains.           *)
(*                                                                         *)
(* A change of a row that is there is applied under the row's lock.  An    *)
(* insert has no row to lock: its trigger reads the row and the            *)
(* tombstones, and writes later, while the apply worker of another         *)
(* subscription or a local writer may come in between.  races remembers    *)
(* when what came in between was newer than what was written.              *)
(***************************************************************************)
EXTENDS Integers, Sequences, FiniteSets, FiniteSetsExt

CONSTANTS
    Core,        \* the core node
    Apis,        \* the API nodes
    Writers,     \* the nodes that write the key
    Ord,         \* scd_node_ord: the node's number in the low bits of a version
    Clocks,      \* readings of the nodes' clocks, in any order on any node
    DeleteWins,  \* the table's tombstones delete every row of their key
    MaxWrites,   \* bound: local statements
    Lossy,       \* bound: the links whose slots may be lost
    MaxLost      \* bound: replication slots lost with what they held

Nodes == Apis \cup {Core}
NoRow == [v |-> 0, val |-> 0]   \* versions and values are positive

ASSUME ReplicationAssumption ==
    /\ Core \notin Apis
    /\ Writers \subseteq Nodes
    /\ Ord \in [Nodes -> 1 .. 15]
    /\ \A m, n \in Nodes : Ord[m] = Ord[n] => m = n
    /\ Clocks \subseteq Nat /\ Clocks # {}
    /\ DeleteWins \in BOOLEAN
    /\ MaxWrites \in Nat /\ MaxLost \in Nat

VARIABLES
    row,      \* the key's row on a node: version and value, or NoRow
    tombs,    \* repl_tombstones: versions of the key's tombstones on a node
    resend,   \* repl_resend: the key's own entry and its tombstones' entries
    chan,     \* transactions committed on a node, not applied on a subscriber
    image,    \* the row a drain has locked and read and not yet sent, or NoRow
    seen,     \* what the trigger of an apply worker's insert has read, or NotRead
    draft,    \* the version of a local insert that has not committed, or 0
    behind,   \* a slot of the node was lost and scd_resend_all not run since
    writes,   \* what the local statements minted: version, and value or 0 for a delete
    losses,   \* slots lost so far
    races     \* history: "overwritten", "covered", when an insert came too late

vars == <<row, tombs, resend, chan, image, seen, draft, behind, writes, losses, races>>

Links == ({Core} \X Apis) \cup (Apis \X {Core})
Row == [v : Nat, val : Nat]
RowEntry == 0   \* the entry of repl_resend that names the row itself
NotRead == [read |-> FALSE, row |-> NoRow, tomb |-> 0]

\* What a transaction carries: changes of the table and of repl_tombstones,
\* and images that a drain publishes as repl_repair rows.
Change == [op : {"insert", "update", "repair"}, v : Nat, val : Nat]
    \cup [op : {"tomb", "repairTomb"}, v : Nat] \cup [op : {"delete"}]

Init ==
    /\ row = [n \in Nodes |-> NoRow]
    /\ tombs = [n \in Nodes |-> {}]
    /\ resend = [n \in Nodes |-> {}]
    /\ chan = [l \in Links |-> <<>>]
    /\ image = [n \in Nodes |-> NoRow]
    /\ seen = [l \in Links |-> NotRead]
    /\ draft = [n \in Nodes |-> 0]
    /\ behind = [n \in Nodes |-> FALSE]
    /\ writes = {}
    /\ losses = 0
    /\ races = {}

(***************************************************************************)
(* Versions.                                                               *)
(***************************************************************************)

MaxOf(a, b) == IF a >= b THEN a ELSE b
NewestTomb(ts) == IF ts = {} THEN 0 ELSE Max(ts)

\* Mutant: scd_hlc takes the clock as it reads, even when it is behind.
ClockOnly(n, clock, prev) == clock * 16 + Ord[n]

\* scd_hlc(prev): the clock, or the tick after prev when the clock is behind.
Hlc(n, clock, prev) == MaxOf(clock, (prev \div 16) + 1) * 16 + Ord[n]

\* Does a tombstone of version tv cover a row of version v?
Covers(tv, v) == DeleteWins \/ v <= tv

(***************************************************************************)
(* A transaction committed on n reaches the subscribers of n.  Nothing is  *)
(* sent for a transaction that changed no published row.                   *)
(***************************************************************************)
SendFrom(n, c, tx) ==
    [l \in Links |-> IF l[1] = n /\ tx # <<>> THEN Append(c[l], tx) ELSE c[l]]

(***************************************************************************)
(* Local statements.  zz_ver stamps the row or the tombstone, zz_tomb adds *)
(* the tombstone ahead of the delete.  A row a drain has locked waits.  An *)
(* insert takes its version before it commits: until then the key is its   *)
(* own, and nobody sees the row.                                           *)
(***************************************************************************)
Drafts == {n \in Nodes : draft[n] # 0}
CanWrite(n) == n \in Writers /\ Cardinality(writes) + Cardinality(Drafts) < MaxWrites

\* Mutant: an insert starts above its own version only.
FloorForgotten(n) == 0

\* An insert into a last-writer-wins table starts above the newest tombstone;
\* keys of a delete-wins table are never used again.
InsertFloor(n) == IF DeleteWins THEN 0 ELSE NewestTomb(tombs[n])

LocalInsert(n, clock) ==
    /\ CanWrite(n)
    /\ row[n] = NoRow
    /\ draft[n] = 0
    /\ DeleteWins => writes = {} /\ Drafts = {}
    /\ draft' = [draft EXCEPT ![n] = Hlc(n, clock, InsertFloor(n))]
    /\ UNCHANGED <<row, tombs, resend, chan, image, seen, behind, writes, losses, races>>

\* A tombstone that arrived since the version was taken (Overtaken) found no row.
InsertCommits(n) ==
    /\ draft[n] # 0
    /\ LET v == draft[n]
           val == Cardinality(writes) + 1
       IN /\ row' = [row EXCEPT ![n] = [v |-> v, val |-> val]]
          /\ writes' = writes \cup {[v |-> v, val |-> val, on |-> n]}
          /\ chan' = SendFrom(n, chan, << [op |-> "insert", v |-> v, val |-> val] >>)
    /\ draft' = [draft EXCEPT ![n] = 0]
    /\ UNCHANGED <<tombs, resend, image, seen, behind, losses, races>>

\* Mutant: the drain does not lock the row it has read.
UpdateUnlocked(n, clock) ==
    /\ CanWrite(n)
    /\ row[n] # NoRow
    /\ LET v == Hlc(n, clock, row[n].v)
           val == Cardinality(writes) + 1
       IN /\ row' = [row EXCEPT ![n] = [v |-> v, val |-> val]]
          /\ writes' = writes \cup {[v |-> v, val |-> val, on |-> n]}
          /\ chan' = SendFrom(n, chan, << [op |-> "update", v |-> v, val |-> val] >>)
    /\ UNCHANGED <<tombs, resend, image, seen, draft, behind, losses, races>>

LocalUpdate(n, clock) ==
    /\ CanWrite(n)
    /\ row[n] # NoRow
    /\ image[n] = NoRow
    /\ LET v == Hlc(n, clock, row[n].v)
           val == Cardinality(writes) + 1
       IN /\ row' = [row EXCEPT ![n] = [v |-> v, val |-> val]]
          /\ writes' = writes \cup {[v |-> v, val |-> val, on |-> n]}
          /\ chan' = SendFrom(n, chan, << [op |-> "update", v |-> v, val |-> val] >>)
    /\ UNCHANGED <<tombs, resend, image, seen, draft, behind, losses, races>>

\* What a delete publishes: zz_tomb runs before the row goes.
DeleteChanges(v) == << [op |-> "tomb", v |-> v], [op |-> "delete"] >>

LocalDelete(n, clock) ==
    /\ CanWrite(n)
    /\ row[n] # NoRow
    /\ image[n] = NoRow
    /\ LET v == Hlc(n, clock, MaxOf(row[n].v, NewestTomb(tombs[n])))
       IN /\ row' = [row EXCEPT ![n] = NoRow]
          /\ tombs' = [tombs EXCEPT ![n] = @ \cup {v}]
          /\ writes' = writes \cup {[v |-> v, val |-> 0, on |-> n]}
          /\ chan' = SendFrom(n, chan, DeleteChanges(v))
    /\ UNCHANGED <<resend, image, seen, draft, behind, losses, races>>

(***************************************************************************)
(* Applying one change on node n.  s is the node's state within the       *)
(* transaction: its row, tombstones and resend queue, and what the        *)
(* subscriber's own log gets.                                              *)
(***************************************************************************)

\* zz_merge on an insert has read r: the row, and the newest tombstone if
\* there was no row.  zz_tomb_check and the same block in zz_merge drop an
\* insert that this tombstone covers, and send the sender the tombstone.
Blocked(r, new) == r.tomb # 0 /\ Covers(r.tomb, new.v)

BlockInsert(s, r) ==
    IF DeleteWins THEN s ELSE [s EXCEPT !.resend = @ \cup {r.tomb}]

\* merge_into: the higher version wins, of the row as it was read; what is
\* overwritten is the row as it is now.
MergeInto(s, r, new) ==
    IF new.v > r.row.v
    THEN [s EXCEPT !.row = new,
                   !.out = Append(@, [op |-> "update", v |-> new.v, val |-> new.val])]
    ELSE s

\* The row read is gone, or a row came where none was: the trigger reads again.
ReadsAgain(s, r, new) ==
    IF r.row # NoRow
    THEN new.v > r.row.v /\ s.row = NoRow
    ELSE ~Blocked(r, new) /\ s.row # NoRow

\* Into the row that was read, or as a new row unless a tombstone covers it.
ApplyInsert(s, r, new) ==
    IF r.row # NoRow THEN MergeInto(s, r, new)
    ELSE IF Blocked(r, new) THEN BlockInsert(s, r)
    ELSE [s EXCEPT !.row = new,
                   !.out = Append(@, [op |-> "insert", v |-> new.v, val |-> new.val])]

\* What was written although something newer had come in between: a row
\* above it is lost, or it stands below a tombstone.
Race(s, r, new) ==
    IF r.row # NoRow
    THEN IF new.v > r.row.v /\ s.row.v > new.v THEN {"overwritten"} ELSE {}
    ELSE IF ~Blocked(r, new) /\ NewestTomb(s.tombs) > r.tomb
                            /\ Covers(NewestTomb(s.tombs), new.v)
         THEN {"covered"} ELSE {}

\* A tombstone new to node n that covers a local insert which has taken its
\* version and not committed.
Overtaken(n, s) ==
    IF draft[n] # 0 /\ (\E tv \in s.tombs \ tombs[n] : Covers(tv, draft[n]))
    THEN {"covered"} ELSE {}

\* zz_merge on an update: a missing row drops it before any trigger; the
\* stored row stays when it is newer, and on core also on a tie;
\* zzz_suppress drops an update that changes nothing.
ApplyUpdate(n, s, new) ==
    IF \/ s.row = NoRow
       \/ s.row # NoRow /\ new.v < s.row.v
       \/ s.row # NoRow /\ n = Core /\ new.v = s.row.v
       \/ s.row = new
    THEN s
    ELSE [s EXCEPT !.row = new,
                   !.out = Append(@, [op |-> "update", v |-> new.v, val |-> new.val])]

\* scd_erase_<t>: the covered row goes, a newer one is queued for resend.
EraseRow(s, tv) ==
    IF s.row = NoRow THEN s
    ELSE IF Covers(tv, s.row.v)
    THEN [s EXCEPT !.row = NoRow, !.out = Append(@, [op |-> "delete"])]
    ELSE [s EXCEPT !.resend = @ \cup {RowEntry}]

\* zz_erase: the tombstone is written first (a known one is a no-op), so core
\* forwards it ahead of the delete.
ApplyTomb(n, s, tv) ==
    EraseRow(IF tv \in s.tombs THEN s
             ELSE [s EXCEPT !.tombs = @ \cup {tv},
                            !.out = Append(@, [op |-> "tomb", v |-> tv])],
             tv)

\* zz_tomb_guard: a row newer than the newest tombstone stays, and is queued.
ApplyDelete(n, s) ==
    IF s.row = NoRow THEN s
    ELSE IF DeleteWins \/ s.tombs = {} \/ s.row.v <= NewestTomb(s.tombs)
    THEN [s EXCEPT !.row = NoRow, !.out = Append(@, [op |-> "delete"])]
    ELSE [s EXCEPT !.resend = @ \cup {RowEntry}]

\* A change of the row that is there, and a tombstone: under the row's lock.
ApplyChange(n, s, c) ==
    CASE c.op = "update" -> ApplyUpdate(n, s, [v |-> c.v, val |-> c.val])
      [] c.op \in {"tomb", "repairTomb"} -> ApplyTomb(n, s, c.v)
      [] c.op = "delete" -> ApplyDelete(n, s)

\* A transaction has one change, or a tombstone and its delete.
ApplyTx(n, s, tx) ==
    LET first == ApplyChange(n, s, tx[1])
    IN  IF Len(tx) = 1 THEN first ELSE ApplyChange(n, first, tx[2])

State(n) == [row |-> row[n], tombs |-> tombs[n], resend |-> resend[n], out |-> <<>>]

\* An insert; a repl_repair row is not stored, scd_apply_row inserts its image.
Inserts(tx) == tx[1].op \in {"insert", "repair"}

\* The transaction at the head of link l leaves node l[2] in state s.  Only
\* core forwards what it applied.
Applied(l, s) ==
    LET to == l[2]
        rest == [chan EXCEPT ![l] = Tail(@)]
    IN  /\ row' = [row EXCEPT ![to] = s.row]
        /\ tombs' = [tombs EXCEPT ![to] = s.tombs]
        /\ resend' = [resend EXCEPT ![to] = s.resend]
        /\ chan' = IF to = Core THEN SendFrom(to, rest, s.out) ELSE rest
        /\ UNCHANGED <<image, draft, behind, writes, losses>>

\* The apply worker of link l applies a change of the row or a tombstone.
Apply(l) ==
    /\ chan[l] # <<>>
    /\ ~Inserts(Head(chan[l]))
    /\ image[l[2]] = NoRow
    /\ LET s == ApplyTx(l[2], State(l[2]), Head(chan[l]))
       IN Applied(l, s) /\ races' = races \cup Overtaken(l[2], s)
    /\ UNCHANGED seen

\* The trigger of an insert reads, which waits for no lock.
InsertReads(l) ==
    /\ chan[l] # <<>>
    /\ Inserts(Head(chan[l]))
    /\ ~seen[l].read
    /\ seen' = [seen EXCEPT ![l] =
            [read |-> TRUE, row |-> row[l[2]],
             tomb |-> IF row[l[2]] = NoRow THEN NewestTomb(tombs[l[2]]) ELSE 0]]
    /\ UNCHANGED <<row, tombs, resend, chan, image, draft, behind, writes, losses, races>>

\* It writes, and the transaction commits; or it reads again, as does the
\* whole transaction after three attempts.
InsertWrites(l) ==
    /\ seen[l].read
    /\ image[l[2]] = NoRow
    /\ draft[l[2]] = 0
    /\ seen' = [seen EXCEPT ![l] = NotRead]
    /\ LET c == Head(chan[l])[1]
           new == [v |-> c.v, val |-> c.val]
           s == State(l[2])
       IN \/ /\ ReadsAgain(s, seen[l], new)
             /\ UNCHANGED <<row, tombs, resend, chan, image, draft, behind, writes,
                            losses, races>>
          \/ /\ ~ReadsAgain(s, seen[l], new)
             /\ Applied(l, ApplyInsert(s, seen[l], new))
             /\ races' = races \cup Race(s, seen[l], new)

(***************************************************************************)
(* scd_drain_resend.  The row is locked before it is read and until the   *)
(* image is committed; a tombstone never changes and needs no lock.        *)
(***************************************************************************)

DrainRead(n) ==
    /\ RowEntry \in resend[n]
    /\ row[n] # NoRow
    /\ image[n] = NoRow
    /\ image' = [image EXCEPT ![n] = row[n]]
    /\ UNCHANGED <<row, tombs, resend, chan, seen, draft, behind, writes, losses, races>>

DrainSend(n) ==
    /\ image[n] # NoRow
    /\ chan' = SendFrom(n, chan, << [op |-> "repair", v |-> image[n].v, val |-> image[n].val] >>)
    /\ image' = [image EXCEPT ![n] = NoRow]
    /\ resend' = [resend EXCEPT ![n] = @ \ {RowEntry}]
    /\ UNCHANGED <<row, tombs, seen, draft, behind, writes, losses, races>>

\* The row went since it was queued.
DrainGone(n) ==
    /\ RowEntry \in resend[n]
    /\ row[n] = NoRow
    /\ resend' = [resend EXCEPT ![n] = @ \ {RowEntry}]
    /\ UNCHANGED <<row, tombs, chan, image, seen, draft, behind, writes, losses, races>>

DrainTomb(n, tv) ==
    /\ tv \in resend[n]
    /\ chan' = SendFrom(n, chan, << [op |-> "repairTomb", v |-> tv] >>)
    /\ resend' = [resend EXCEPT ![n] = @ \ {tv}]
    /\ UNCHANGED <<row, tombs, image, seen, draft, behind, writes, losses, races>>

(***************************************************************************)
(* A slot is lost with what it held, and scd_resend_all queues everything  *)
(* the node publishes.                                                     *)
(***************************************************************************)
LoseSlot(from, to) ==
    /\ losses < MaxLost /\ <<from, to>> \in Lossy
    /\ chan[<<from, to>>] # <<>>
    /\ chan' = [chan EXCEPT ![<<from, to>>] = <<>>]
    /\ behind' = [behind EXCEPT ![from] = TRUE]
    /\ losses' = losses + 1
    /\ seen' = [seen EXCEPT ![<<from, to>>] = NotRead]
    /\ UNCHANGED <<row, tombs, resend, image, draft, writes, races>>

\* Every key and every tombstone the node has.
AllOf(n) == tombs[n] \cup (IF row[n] = NoRow THEN {} ELSE {RowEntry})

ResendAll(n) ==
    /\ behind[n]
    /\ resend' = [resend EXCEPT ![n] = @ \cup AllOf(n)]
    /\ behind' = [behind EXCEPT ![n] = FALSE]
    /\ UNCHANGED <<row, tombs, chan, image, seen, draft, writes, losses, races>>

----------------------------------------------------------------------------

ApplyWorker(l) == Apply(l) \/ InsertReads(l) \/ InsertWrites(l)

Drain(n) ==
    \/ DrainRead(n)
    \/ DrainSend(n)
    \/ DrainGone(n)
    \/ \E tv \in tombs[n] : DrainTomb(n, tv)

Next ==
    \/ \E n \in Nodes, c \in Clocks :
        LocalInsert(n, c) \/ LocalUpdate(n, c) \/ LocalDelete(n, c)
    \/ \E l \in Links : ApplyWorker(l) \/ LoseSlot(l[1], l[2])
    \/ \E n \in Nodes : InsertCommits(n) \/ Drain(n) \/ ResendAll(n)

Spec == Init /\ [][Next]_vars

\* An apply worker runs as long as its subscription has transactions, a local
\* insert commits, the sweeper drains every 2 seconds, and a lost slot is followed by its resend.
FairSpec ==
    /\ Spec
    /\ \A l \in Links : WF_vars(ApplyWorker(l))
    /\ \A n \in Nodes :
        WF_vars(InsertCommits(n)) /\ WF_vars(Drain(n)) /\ WF_vars(ResendAll(n))

----------------------------------------------------------------------------

\* Rows, tombstones, queues and streams keep their shape; a queue names the row
\* or tombstones the node has.
TypeOK ==
    /\ row \in [Nodes -> Row]
    /\ image \in [Nodes -> Row]
    /\ tombs \in [Nodes -> SUBSET Nat]
    /\ resend \in [Nodes -> SUBSET Nat]
    /\ \A n \in Nodes : resend[n] \subseteq tombs[n] \cup {RowEntry}
    /\ seen \in [Links -> [read : BOOLEAN, row : Row, tomb : Nat]]
    /\ \A l \in Links : seen[l].tomb \in tombs[l[2]] \cup {0}
    /\ draft \in [Nodes -> Nat]
    /\ behind \in [Nodes -> BOOLEAN]
    /\ chan \in [Links -> Seq(Seq(Change))]
    /\ \A w \in writes : w \in [v : Nat, val : Nat, on : Nodes]
    /\ IsFiniteSet(writes)
    /\ races \subseteq {"overwritten", "covered"}

\* Nothing is under way between the nodes.
Quiet ==
    /\ \A l \in Links : chan[l] = <<>>
    /\ \A n \in Nodes : resend[n] = {} /\ image[n] = NoRow /\ ~behind[n]

\* The latest of the writes, by version.
Latest == CHOOSE w \in writes : \A u \in writes : u.v <= w.v

\* A row lives when its version is above every tombstone of its key, as
\* ops/replication/README.md says of last-writer-wins tables: on no node is
\* there a row at or below a tombstone the node knows, whatever the clocks
\* read and in whatever order rows, tombstones and deletes arrive, as long as
\* no insert was written on a reading that a newer row or tombstone had
\* overtaken (zz_merge, zz_tomb_check and zz_ver read without a lock).
RowAboveTombs ==
    races = {} =>
        \A n \in Nodes : row[n] # NoRow =>
            \A tv \in tombs[n] : ~DeleteWins /\ row[n].v > tv

\* A version names one write: no two statements, on whatever nodes and with
\* whatever clocks, mint the same version, so a tie is always one image, as long
\* as no insert was written on an overtaken reading: after one, the row that
\* gives scd_hlc its floor may be older than what the node has written.
VersionsDiffer ==
    races = {} =>
        \A a, b \in writes : a.v = b.v => a = b

\* Every disagreement ends in a resend toward the higher version: when
\* nothing is under way, every node has the row of the write with the highest
\* version, or no row when that write is a delete (for a delete-wins table,
\* when any write is a delete).  This is so too when an insert was committed
\* below a tombstone that arrived meanwhile: the other nodes send the tombstone
\* back.  Only a newer row that a merge has overwritten is not seen again.
LatestWins ==
    Quiet /\ writes # {} /\ "overwritten" \notin races =>
        \A n \in Nodes :
            IF Latest.val = 0 \/ (DeleteWins /\ \E w \in writes : w.val = 0)
            THEN row[n] = NoRow
            ELSE row[n] = [v |-> Latest.v, val |-> Latest.val]

\* Resends do not answer each other for ever: once the statements have
\* stopped, the nodes' queues and streams empty and stay empty.
SettlesDown == <>[]Quiet
=============================================================================
