--------------------------- MODULE MCReplication ---------------------------
(***************************************************************************)
(* Replication for TLC: core and two API nodes with the numbers            *)
(* scd_node_ord gives them.  A behaviour is about a last-writer-wins table *)
(* or, with table = "owned", about a delete-wins table (Owned).            *)
(***************************************************************************)
EXTENDS Replication

VARIABLE table

Owned == INSTANCE Replication WITH DeleteWins <- TRUE

MCApis == {"main", "star"}
MCOrd == [n \in MCApis \cup {"core"} |->
    CASE n = "core" -> 1 [] n = "main" -> 2 [] n = "star" -> 3]

\* The slots between core and main may be lost.
MCLossy == {<<"core", "main">>, <<"main", "core">>}

TableInit == table \in {"shared", "owned"} /\ Init

TableNext ==
    /\ \/ table = "shared" /\ Next
       \/ table = "owned" /\ Owned!Next
    /\ UNCHANGED table

\* The fairness of FairSpec, for whichever table it is.
FairTables ==
    /\ TableInit /\ [][TableNext]_<<vars, table>>
    /\ \A l \in Links :
        /\ WF_vars(table = "shared" /\ ApplyWorker(l))
        /\ WF_vars(table = "owned" /\ Owned!ApplyWorker(l))
    /\ \A n \in Nodes :
        /\ WF_vars(InsertCommits(n))
        /\ WF_vars(Drain(n))
        /\ WF_vars(ResendAll(n))

-----------------------------------------------------------------------------
\* Replicas agree: once nothing is in flight every node has the latest write
\* of a last-writer-wins table, or the outcome in which deletes win; and the
\* links do fall silent (LatestWins, SettlesDown of Replication).
Converges ==
    /\ [](table = "shared" => TypeOK /\ LatestWins)
    /\ [](table = "owned" => Owned!TypeOK /\ Owned!RowAboveTombs /\ Owned!LatestWins)
    /\ SettlesDown
=============================================================================
