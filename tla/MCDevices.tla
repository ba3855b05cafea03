----------------------------- MODULE MCDevices -----------------------------
(***************************************************************************)
(* People and their devices, for TLC: the pairing of an assistant by code, *)
(* the hub that carries its commands to a desktop (Hub), and the shared    *)
(* rooms (Seats, Moves, Perks, Leaves: what the requests are about).  A    *)
(* behaviour works on one part and leaves the others as they began: they   *)
(* share no state.                                                         *)
(***************************************************************************)
EXTENDS LinkPairing, TLC

CONSTANTS
    Parts, None, a1, a2, a3, p1, p2, p3, ann, bob, cid, c1, c2, c3,
    Devices, Commands, Answers, MaxWaits, MaxActive

VARIABLES part,
    store, seen, recent, dir, moved, chatIndex, stars, req, arrived, flips, aways,
    used, bans, left,
    stream, claims, replies, present, ask, expired, wait, held, client, answering,
    failures

Hub == INSTANCE RemoteHub WITH seen <- present, faults <- failures

\* Joins, leaves, kicks, bans and moderators of a full room whose next host
\* has blocked the newcomer.
Seats == INSTANCE Rooms WITH
    Users <- {ann, bob, cid}, Codes <- {c1}, First <- c1, Procs <- {p1, p2},
    Kinds <- {"join", "leave", "kick", "ban", "moderator"},
    Seated <- <<ann, bob>>, StartPublic <- FALSE, Blocks <- {<<bob, cid>>},
    FreeCapacity <- 2, StarCapacity <- 3, FreeMods <- 1, StarMods <- 2,
    MaxBanned <- 1,
    CasAttempts <- 2, LeaveAttempts <- 2, MaxRequests <- 3, MaxStarFlips <- 0, MaxAway <- 1

\* A public room goes private under a new code.
Moves == INSTANCE Rooms WITH
    Users <- {ann, bob, cid}, Codes <- {c1, c2, c3}, First <- c1, Procs <- {p1, p2},
    Kinds <- {"visibility", "leave", "ban", "create", "poll", "chat", "reap", "playback"},
    Seated <- <<ann, bob>>, StartPublic <- TRUE, Blocks <- {},
    FreeCapacity <- 3, StarCapacity <- 3, FreeMods <- 1, StarMods <- 2,
    MaxBanned <- 2,
    CasAttempts <- 2, LeaveAttempts <- 2, MaxRequests <- 3, MaxStarFlips <- 0, MaxAway <- 0

\* Subscriptions change while the room is handed over.
Perks == INSTANCE Rooms WITH
    Users <- {ann, bob, cid}, Codes <- {c1}, First <- c1, Procs <- {p1, p2},
    Kinds <- {"leave", "recheck", "join_public"},
    Seated <- <<ann, bob>>, StartPublic <- TRUE, Blocks <- {},
    FreeCapacity <- 3, StarCapacity <- 4, FreeMods <- 1, StarMods <- 2,
    MaxBanned <- 2,
    CasAttempts <- 2, LeaveAttempts <- 2, MaxRequests <- 3, MaxStarFlips <- 1, MaxAway <- 1

\* Everyone leaves at once, with so few tries that a leave can use them up.
Leaves == INSTANCE Rooms WITH
    Users <- {ann, bob, cid}, Codes <- {c1}, First <- c1, Procs <- {p1, p2, p3},
    Kinds <- {"leave"},
    Seated <- <<ann, bob, cid>>, StartPublic <- FALSE, Blocks <- {},
    FreeCapacity <- 3, StarCapacity <- 4, FreeMods <- 1, StarMods <- 2,
    MaxBanned <- 2,
    CasAttempts <- 2, LeaveAttempts <- 2, MaxRequests <- 3, MaxStarFlips <- 0, MaxAway <- 1

ASSUME HubOK == Hub!RemoteHubAssumption

Interchange ==
    Permutations({p1, p2}) \cup Permutations({a2, a3})

roomVars == <<store, seen, recent, dir, moved, chatIndex, stars, req, arrived, flips,
              aways, used, bans, left>>
hubVars == <<stream, claims, replies, present, ask, expired, wait, held, client,
             answering, failures>>
partVars == <<part, vars, roomVars, hubVars>>

PartInit ==
    /\ part \in Parts
    /\ Init
    /\ Hub!Init
    /\ CASE part = "moves" -> Moves!Init
         [] part = "perks" -> Perks!Init
         [] part = "leaves" -> Leaves!Init
         [] OTHER -> Seats!Init

HubPart == part \in {"hub", "single"}

PartNext ==
    /\ \/ part = "pairing" /\ Next /\ UNCHANGED <<roomVars, hubVars>>
       \/ HubPart /\ Hub!Next /\ UNCHANGED <<vars, roomVars>>
       \/ part = "seats" /\ Seats!Next /\ UNCHANGED <<vars, hubVars>>
       \/ part = "moves" /\ Moves!Next /\ UNCHANGED <<vars, hubVars>>
       \/ part = "perks" /\ Perks!Next /\ UNCHANGED <<vars, hubVars>>
       \/ part = "leaves" /\ Leaves!Next /\ UNCHANGED <<vars, hubVars>>
    /\ UNCHANGED part

PartSpec == PartInit /\ [][PartNext]_partVars

(* What TLC looks at of the hub: two devices that have a cursor and one    *)
(* command ("hub"), or a device that begins with a handshake, two commands *)
(* and two answers ("single"); of the rooms: three requests, or two and    *)
(* somebody who drops out of sight.                                        *)
BoundedInit ==
    /\ PartInit
    /\ \A d \in Devices : client[d].cursor = IF part = "single" THEN Hub!NoCursor ELSE 0

BoundedNext ==
    /\ PartNext
    /\ part = "hub" => ask'[2].pc = "idle" /\ replies'[1] # 2
    /\ part = "single" => client'[2] = client[2] /\ client'[1].active = 1
    /\ aways' = 0 \/ arrived' <= 2

BoundedSpec == BoundedInit /\ [][BoundedNext]_partVars

-----------------------------------------------------------------------------
(* The properties of hub and rooms, stated in RemoteHub and Rooms.  Those  *)
(* of the pairing are LinkPairing's own.                                   *)

\* No two devices are given a command, the slot of a device is its newest
\* poll, a poll that could not announce itself passes over nothing, the
\* asker hears the answer recorded first and is never told there was none
\* while one is recorded, and as long as one device polls a claimed command
\* whose response was lost comes again.
HubSafe ==
    /\ [](HubPart =>
            /\ Hub!TypeOK /\ Hub!OneDevice /\ Hub!NewestHolds /\ Hub!BlindSkipsNothing
            /\ Hub!FirstAnswerWins /\ Hub!ResentToClaimer)
    /\ [][HubPart => Hub!RecordedIsHeard]_hubVars

\* The host sits in the room and moderators are seated guests, bans outlive
\* concurrent edits and moves until newer ones fill the list, who left is out, a
\* room has one code, perks are the present host's, nobody the host blocked
\* takes a seat, and a leave has effect unless its tries were lost to others.
RoomsSafe ==
    /\ [](part = "seats" => /\ Seats!TypeOK /\ Seats!ModeratorsSeated
                            /\ Seats!BansHold /\ Seats!LeaversOut)
    /\ [](part = "moves" => Moves!BansHold /\ Moves!OneCodePerRoom)
    /\ [](part = "perks" => Perks!PerksOfHost)
    /\ [](part \in {"seats", "moves", "perks", "leaves"} => Seats!HostSeated)
    /\ [][part = "seats" => Seats!NoBlockedSeat]_roomVars
    /\ [][part = "leaves" => Leaves!LeavesTakeEffect]_roomVars
=============================================================================
