------------------------------- MODULE Rooms -------------------------------
(* Shared listening rooms (src/api/src/modules/rooms).                     *)
(*                                                                         *)
(* A room is one Redis hash {v, body} under its code.  Handlers of several *)
(* API instances edit it concurrently: each loads the body, applies its    *)
(* change to the copy and swaps the body in only if v is still the loaded  *)
(* one (store/cas.rs).  Presence (rooms:<code>:seen), the directory of     *)
(* hosts, the pointer from an old code to a new one and the index of room  *)
(* chats are further keys that no transaction ties to the room.            *)
(*                                                                         *)
(* A request is a record of req; its field edit names the change that its  *)
(* pcs "load" and "swap" apply.  Members are kept in the order they        *)
(* joined, which is the order of joined_at.  A code drawn by new_code is   *)
(* fresh: two draws out of 2^30 are taken to differ.                       *)
EXTENDS Naturals, FiniteSets, Sequences, SequencesExt

CONSTANTS
    Users,          \* accounts
    Codes,          \* room codes
    Procs,          \* request handlers running at once
    None,           \* no code, no room, no user
    Kinds,          \* kinds of requests that arrive
    First,          \* the code of the room that exists at the start
    Seated,         \* its members in the order they joined, the host first
    StartPublic,    \* whether it is public
    Blocks,         \* pairs <<h, u>>: h blocked u (the users' block list)
    FreeCapacity, StarCapacity,  \* seats of a room by its host's perks
    FreeMods, StarMods,          \* moderators of a room by its host's perks
    MaxBanned,      \* names a room's ban list keeps
    CasAttempts,    \* tries of a compare-and-swap
    LeaveAttempts,  \* tries of a leave that meets a change of host
    MaxRequests,    \* bound: requests that arrive
    MaxStarFlips,   \* bound: times a subscription starts or ends
    MaxAway         \* bound: times a user drops out of the online window

VARIABLES
    store,      \* Redis: code -> room or None
    seen,       \* Redis: code -> users seen within the online window
    recent,     \* code -> members whose joined_at is within that window
    dir,        \* Redis: user -> code of the room the user hosts, or None
    moved,      \* Redis: old code -> new code, or None
    chatIndex,  \* Redis: room (by its id) -> code its chat leads to, or None
    stars,      \* users with a STAR subscription
    req,        \* the requests in flight
    arrived, flips, aways,  \* counters of the three bounds
    used,       \* history: codes ever drawn
    bans,       \* history: room (by its id) -> acknowledged bans in their order
    left        \* history: <<code, user>>, leaves that returned Ok

redis == <<store, seen, recent, dir, moved, chatIndex>>
vars == <<redis, stars, req, arrived, flips, aways, used, bans, left>>

-----------------------------------------------------------------------------
(* The room body. id stands for Room::id, which survives a new code, and   *)
(* is named after the room's first code; starOf records for whom the STAR  *)
(* check behind the perks was made.                                        *)

AllKinds ==
    {"create", "join", "join_public", "leave", "kick", "ban", "moderator",
     "playback", "visibility", "chat", "recheck", "poll", "reap"}

Room == [id : Codes, v : Nat, host : Users, members : Seq(Users),
         mods : SUBSET Users, banned : Seq(Users), public : BOOLEAN,
         star : BOOLEAN, starOf : Users, chat : BOOLEAN]

NewRoom(code, user, public, star) ==
    [id |-> code, v |-> 1, host |-> user, members |-> <<user>>, mods |-> {},
     banned |-> <<>>, public |-> public, star |-> star, starOf |-> user,
     chat |-> FALSE]

IsBanned(room, u) == u \in ToSet(room.banned)
IsMember(room, u) == room # None /\ u \in ToSet(room.members)
Capacity(room) == IF room.star THEN StarCapacity ELSE FreeCapacity
ModsMax(room) == IF room.star THEN StarMods ELSE FreeMods
CanModerate(room, u) == u = room.host \/ u \in room.mods

\* retain and keep_members_only
KeepMembers(room, keep) ==
    [room EXCEPT !.members = SelectSeq(@, LAMBDA m : m \in keep),
                 !.mods = @ \cap keep \cap ToSet(room.members)]

Unseat(room, u) == KeepMembers(room, Users \ {u})

\* The candidate who joined first.
NextHost(room, leaving, candidates) ==
    LET fit == SelectSeq(room.members,
                         LAMBDA m : m # leaving /\ m \in candidates)
    IN  IF fit = <<>> THEN None ELSE Head(fit)

\* The directory's busy hosts do not take a second room over.
HostCandidates(code, room, host) ==
    {u \in seen[code] :
        /\ u # host
        /\ IsMember(room, u)
        /\ ~ (dir[u] \notin {None, code} /\ store[dir[u]] # None)}

HandOff(room, leaving, next) ==
    LET gone == Unseat(room, leaving)
    IN  [gone EXCEPT !.host = next, !.mods = @ \ {next}]

MayActOn(room, actor, target) ==
    /\ CanModerate(room, actor)
    /\ actor # target
    /\ target # room.host
    /\ actor = room.host \/ target \notin room.mods

-----------------------------------------------------------------------------
(* Requests and the change each applies to the copy it loaded.             *)

NoRequest == [kind |-> "none", pc |-> "idle", edit |-> "none", code |-> None,
              user |-> None, target |-> None, on |-> FALSE, copy |-> None,
              tries |-> 0, rounds |-> 0, since |-> 0, who |-> {}, next |-> None,
              star |-> FALSE]

\* Seats that drop_absent gives away when the room is at its capacity.
Seats(r, room) ==
    IF Len(room.members) = Capacity(room)
    THEN KeepMembers(room, {room.host} \cup r.who \cup recent[r.code])
    ELSE room

\* The error paths of refusal: a guest of the public list needs a public room.
Unwelcome(r, room) ==
    (r.kind = "join_public" /\ ~ room.public) \/ IsBanned(room, r.user)

JoinRefused(r, room) ==
    /\ ~ IsMember(room, r.user)
    /\ \/ Unwelcome(r, room)
       \/ room.host # r.next
       \/ Len(Seats(r, room).members) >= Capacity(room)

\* As if a guest who became host left like a guest.
LeaveNeverRaces(r, room) ==
    r.edit = "hand_off" /\ r.user = room.host
                        /\ NextHost(room, r.user, r.who) = None

\* raced(): the room is no longer the one the way of leaving was chosen for.
LeaveRaced(r, room) ==
    /\ r.user = room.host
    /\ \/ r.edit = "guest_leave"
       \/ r.edit = "hand_off" /\ NextHost(room, r.user, r.who) = None

\* The closure handed to update returns an error.
Refused(r, room) ==
    CASE r.edit = "join" -> JoinRefused(r, room)
      [] r.edit = "kick" ->
            ~ MayActOn(room, r.user, r.target) \/ ~ IsMember(room, r.target)
      [] r.edit = "ban" -> r.user # room.host \/ r.user = r.target
      [] r.edit = "moderator" ->
            \/ r.user # room.host
            \/ r.target = room.host
            \/ /\ r.on
               /\ r.target \notin room.mods
               /\ \/ ~ IsMember(room, r.target)
                  \/ Cardinality(room.mods) >= ModsMax(room)
      [] r.edit \in {"playback", "open", "close"} -> r.user # room.host
      [] r.edit = "chat" -> ~ IsMember(room, r.user)
      [] r.edit \in {"guest_leave", "hand_off"} -> LeaveRaced(r, room)
      [] OTHER -> FALSE

\* The closure of hand_off: the perks that were read are those of r.next.
HandedOver(r, room) ==
    IF r.user # room.host THEN Unseat(room, r.user)
    ELSE LET next == NextHost(room, r.user, r.who)
         IN  [HandOff(room, r.user, next) EXCEPT
                !.star = next = r.next /\ r.star, !.starOf = next]

\* recheck_room, upgrade_to_star and settle_perks
PerksSet(r, room) ==
    IF room.host # r.next THEN room
    ELSE [room EXCEPT !.star = r.star, !.starOf = r.next]

\* ban: the list keeps its newest MaxBanned names (trim_front); a person who
\* is on it keeps the place of the first ban.
Banned(room, u) ==
    LET all == IF IsBanned(room, u) THEN room.banned ELSE Append(room.banned, u)
        n == Len(all)
    IN  [Unseat(room, u) EXCEPT
            !.banned = IF n > MaxBanned THEN SubSeq(all, n - MaxBanned + 1, n)
                                        ELSE all]

Changed(r, room) ==
    CASE r.edit = "join" ->
            IF IsMember(room, r.user) THEN room
            ELSE [Seats(r, room) EXCEPT !.members = Append(@, r.user)]
      [] r.edit = "kick" -> Unseat(room, r.target)
      [] r.edit = "ban" -> Banned(room, r.target)
      [] r.edit = "moderator" ->
            [room EXCEPT !.mods = IF r.on THEN @ \cup {r.target}
                                          ELSE @ \ {r.target}]
      [] r.edit = "open" -> [room EXCEPT !.public = TRUE]
      [] r.edit = "close" -> [room EXCEPT !.public = FALSE]
      [] r.edit = "chat" -> [room EXCEPT !.chat = TRUE]
      [] r.edit = "guest_leave" -> Unseat(room, r.user)
      [] r.edit = "hand_off" -> HandedOver(r, room)
      [] r.edit = "perks" -> PerksSet(r, room)
      [] OTHER -> room

-----------------------------------------------------------------------------
RequestFields ==
    [kind : AllKinds \cup {"none"},
     pc : {"idle", "look", "load", "swap", "leave", "follow", "end",
           "forget_room", "close", "insert", "index", "forget", "release",
           "settle", "host_seen", "touch", "show"},
     edit : {"none", "join", "kick", "ban", "moderator", "playback", "open",
             "close", "chat", "guest_leave", "hand_off", "perks"},
     code : Codes \cup {None}, user : Users \cup {None},
     target : Users \cup {None}, on : BOOLEAN, copy : Room \cup {None},
     tries : 0..CasAttempts, rounds : 0..LeaveAttempts, since : Nat,
     who : SUBSET Users, next : Users \cup {None}, star : BOOLEAN]

\* The values of the state.
TypeOK ==
    /\ store \in [Codes -> Room \cup {None}]
    /\ seen \in [Codes -> SUBSET Users]
    /\ recent \in [Codes -> SUBSET Users]
    /\ dir \in [Users -> Codes \cup {None}]
    /\ moved \in [Codes -> Codes \cup {None}]
    /\ chatIndex \in [Codes -> Codes \cup {None}]
    /\ stars \subseteq Users
    /\ req \in [Procs -> RequestFields]
    /\ arrived \in 0..MaxRequests
    /\ flips \in 0..MaxStarFlips
    /\ aways \in 0..MaxAway
    /\ used \subseteq Codes
    /\ bans \in [Codes -> Seq(Users)]
    /\ left \subseteq Codes \X Users

\* A room that was created and joined, everyone online.
Init ==
    /\ store = [c \in Codes |->
                    IF c = First
                    THEN [NewRoom(First, Head(Seated), StartPublic, FALSE)
                            EXCEPT !.members = Seated, !.v = Len(Seated)]
                    ELSE None]
    /\ seen = [c \in Codes |-> IF c = First THEN ToSet(Seated) ELSE {}]
    /\ recent = [c \in Codes |-> {}]
    /\ dir = [u \in Users |-> IF u = Head(Seated) THEN First ELSE None]
    /\ moved = [c \in Codes |-> None]
    /\ chatIndex = [c \in Codes |-> None]
    /\ stars = {}
    /\ req = [p \in Procs |-> NoRequest]
    /\ arrived = 0
    /\ flips = 0
    /\ aways = 0
    /\ used = {First}
    /\ bans = [c \in Codes |-> <<>>]
    /\ left = {}

-----------------------------------------------------------------------------
Goto(p, r, pc) == req' = [req EXCEPT ![p] = [r EXCEPT !.pc = pc]]
Finish(p) == req' = [req EXCEPT ![p] = NoRequest]
LoadNext(p, r, edit) ==
    req' = [req EXCEPT ![p] = [r EXCEPT !.pc = "load", !.edit = edit,
                                        !.tries = 0]]
SwapCopy(room, r) == [Changed(r, room) EXCEPT !.v = room.v + 1]
Unused == Codes \ used
Bounds == <<arrived, flips, aways>>
History == <<used, bans, left>>

\* Where a request begins.
Arrive(p) ==
    /\ req[p].pc = "idle"
    /\ arrived < MaxRequests
    /\ \E kind \in Kinds, code \in used, u \in Users, t \in Users,
          on \in BOOLEAN :
        /\ t = u \/ kind \in {"kick", "ban", "moderator", "join_public"}
        /\ on \/ kind \in {"moderator", "visibility"}
        /\ req' = [req EXCEPT ![p] =
               [NoRequest EXCEPT
                   !.kind = kind, !.code = code, !.user = u, !.target = t,
                   !.on = on,
                   !.edit = IF kind \in {"kick", "ban", "moderator", "playback"}
                            THEN kind ELSE "none",
                   !.pc = CASE kind = "leave" -> "follow"
                            [] kind \in {"kick", "ban", "moderator",
                                         "playback"} -> "load"
                            [] OTHER -> "look"]]
    /\ arrived' = arrived + 1
    /\ UNCHANGED <<redis, stars, flips, aways, History>>

\* admit: the room, the host's block list and who is online, read once.
LookJoin(p) ==
    LET r == req[p]
        code == IF r.kind = "join_public" THEN dir[r.target] ELSE r.code
        room == IF code = None THEN None ELSE store[code]
    IN  /\ r.pc = "look" /\ r.kind \in {"join", "join_public"}
        /\ IF \/ room = None
              \/ /\ ~ IsMember(room, r.user)
                 /\ Unwelcome(r, room) \/ <<room.host, r.user>> \in Blocks
           THEN Finish(p)
           ELSE req' = [req EXCEPT ![p] =
                   [r EXCEPT !.code = code, !.pc = "load", !.edit = "join",
                             !.who = seen[code] \cup recent[code],
                             !.next = room.host]]
        /\ UNCHANGED <<redis, stars, Bounds, History>>

\* set_public: the visibility the room has now decides what is done.
LookVisibility(p) ==
    LET r == req[p]
        room == store[r.code]
    IN  /\ r.pc = "look" /\ r.kind = "visibility"
        /\ IF room = None \/ room.host # r.user
           THEN Finish(p)
           ELSE IF room.public = r.on THEN Goto(p, r, "show")
           ELSE LoadNext(p, r, IF r.on THEN "open" ELSE "close")
        /\ UNCHANGED <<redis, stars, Bounds, History>>

\* claim_chat: the conversation is there, or is claimed by an update.
LookChat(p) ==
    LET r == req[p]
        room == store[r.code]
    IN  /\ r.pc = "look" /\ r.kind = "chat"
        /\ IF ~ IsMember(room, r.user)
           THEN Finish(p)
           ELSE IF room.chat
           THEN req' = [req EXCEPT ![p] = [r EXCEPT !.pc = "index",
                                                    !.next = room.host,
                                                    !.copy = room]]
           ELSE LoadNext(p, r, "chat")
        /\ UNCHANGED <<redis, stars, Bounds, History>>

\* recheck_room: the STAR check of the loaded room's host, while it may change.
LookPerks(p) ==
    LET r == req[p]
        room == store[r.code]
    IN  /\ r.pc = "look" /\ r.kind = "recheck"
        /\ IF room = None \/ (room.star <=> room.host \in stars)
           THEN Finish(p)
           ELSE req' = [req EXCEPT ![p] =
                   [r EXCEPT !.pc = "load", !.edit = "perks",
                             !.next = room.host, !.star = ~ room.star]]
        /\ UNCHANGED <<redis, stars, Bounds, History>>

\* wait_on: a member's poll; a poll of an old code follows the pointer.
LookPoll(p) ==
    LET r == req[p]
        code == IF store[r.code] = None /\ moved[r.code] # None
                THEN moved[r.code] ELSE r.code
    IN  /\ r.pc = "look" /\ r.kind = "poll"
        /\ IF ~ IsMember(store[code], r.user)
           THEN Finish(p)
           ELSE req' = [req EXCEPT ![p] = [r EXCEPT !.pc = "touch",
                                                    !.code = code,
                                                    !.copy = store[code]]]
        /\ UNCHANGED <<redis, stars, Bounds, History>>

\* reap_room: nobody was seen, so the room is ended.
LookReap(p) ==
    LET r == req[p]
    IN  /\ r.pc = "look" /\ r.kind = "reap"
        /\ IF seen[r.code] # {} THEN Finish(p) ELSE Goto(p, r, "end")
        /\ UNCHANGED <<redis, stars, Bounds, History>>

\* create: the room the directory knows is left first.
LookCreate(p) ==
    LET r == req[p]
    IN  /\ r.pc = "look" /\ r.kind = "create"
        /\ IF dir[r.user] = None THEN Goto(p, r, "insert")
           ELSE req' = [req EXCEPT ![p] = [r EXCEPT !.pc = "follow",
                                                    !.code = dir[r.user]]]
        /\ UNCHANGED <<redis, stars, Bounds, History>>

Look(p) ==
    \/ LookJoin(p) \/ LookVisibility(p) \/ LookChat(p) \/ LookPerks(p)
    \/ LookPoll(p) \/ LookReap(p) \/ LookCreate(p)

\* CREATE_SCRIPT under a new code, with the perks of a STAR check that may fail.
Insert(p) ==
    LET r == req[p]
    IN  /\ r.pc = "insert"
        /\ IF Unused = {} THEN Finish(p) /\ UNCHANGED <<store, recent, used>>
           ELSE \E code \in Unused, star \in {r.user \in stars, FALSE} :
                    /\ store' = [store EXCEPT ![code] =
                            NewRoom(code, r.user, r.on, star)]
                    /\ recent' = [recent EXCEPT ![code] = {r.user}]
                    /\ used' = used \cup {code}
                    /\ req' = [req EXCEPT ![p] = [r EXCEPT !.pc = "touch",
                                                           !.code = code]]
        /\ UNCHANGED <<seen, dir, moved, chatIndex, stars, Bounds, bans, left>>

-----------------------------------------------------------------------------
(* leave                                                                   *)

\* A leave that returned Ok; create goes on from there.
LeftOk(p, r) ==
    /\ left' = left \cup {<<r.code, r.user>>}
    /\ IF r.kind = "create" THEN Goto(p, r, "insert") ELSE Finish(p)

\* leave: an old code leads to the new one, looked up once.
Follow(p) ==
    LET r == req[p]
        code == IF store[r.code] = None /\ moved[r.code] # None
                THEN moved[r.code] ELSE r.code
    IN  /\ r.pc = "follow"
        /\ req' = [req EXCEPT ![p] =
               [r EXCEPT !.pc = "leave", !.code = code,
                         !.since = IF store[code] = None THEN 0
                                   ELSE store[code].v]]
        /\ UNCHANGED <<redis, stars, Bounds, History>>

\* leave_once: what the loaded room says decides the path.
Leave(p) ==
    LET r == req[p]
        room == store[r.code]
        cands == HostCandidates(r.code, room, r.user)
        next == NextHost(room, r.user, cands)
    IN  /\ r.pc = "leave"
        /\ \/ /\ ~ IsMember(room, r.user)
              /\ LeftOk(p, r)
           \/ /\ IsMember(room, r.user)
              /\ \/ Len(room.members) = 1
                 \/ r.user = room.host /\ next = None
              /\ Goto(p, r, "end")
              /\ UNCHANGED left
           \/ /\ IsMember(room, r.user)
              /\ Len(room.members) > 1
              /\ r.user = room.host /\ next # None
              /\ \E star \in {FALSE, (next \in stars)} :
                    req' = [req EXCEPT ![p] =
                       [r EXCEPT !.pc = "load", !.edit = "hand_off",
                                 !.tries = 0, !.who = cands, !.next = next,
                                 !.star = star]]
              /\ UNCHANGED left
           \/ /\ IsMember(room, r.user)
              /\ Len(room.members) > 1
              /\ r.user # room.host
              /\ LoadNext(p, r, "guest_leave")
              /\ UNCHANGED left
        /\ UNCHANGED <<redis, stars, Bounds, used, bans>>

\* end: the room is loaded for its host and chat ...
EndLoad(p) ==
    LET r == req[p]
        room == store[r.code]
    IN  /\ r.pc = "end"
        /\ IF room # None
           THEN /\ req' = [req EXCEPT ![p] = [r EXCEPT !.pc = "forget_room",
                                                       !.copy = room]]
                /\ UNCHANGED left
           ELSE IF r.kind = "reap" THEN Finish(p) /\ UNCHANGED left
                ELSE LeftOk(p, r)
        /\ UNCHANGED <<redis, stars, Bounds, used, bans>>

\* ... whatever the code holds by then is deleted ...
ForgetRoom(p) ==
    LET r == req[p]
    IN  /\ r.pc = "forget_room"
        /\ store' = [store EXCEPT ![r.code] = None]
        /\ seen' = [seen EXCEPT ![r.code] = {}]
        /\ recent' = [recent EXCEPT ![r.code] = {}]
        /\ chatIndex' = [chatIndex EXCEPT
                            ![r.copy.id] = IF r.copy.chat THEN None ELSE @]
        /\ Goto(p, r, "close")
        /\ UNCHANGED <<dir, moved, stars, Bounds, History>>

\* RELEASE_SCRIPT: the directory forgets a host who is still listed under code.
Released(u, code) == [dir EXCEPT ![u] = IF @ = code THEN None ELSE @]

\* ... and the directory lets go of the host that was loaded (close).
Close(p) ==
    LET r == req[p]
    IN  /\ r.pc = "close"
        /\ dir' = Released(r.copy.host, r.code)
        /\ IF r.kind = "reap" THEN Finish(p) /\ UNCHANGED left
           ELSE LeftOk(p, [r EXCEPT !.copy = None])
        /\ UNCHANGED <<store, seen, recent, moved, chatIndex, stars, Bounds,
                       used, bans>>

-----------------------------------------------------------------------------
(* The compare-and-swap                                                    *)

\* leave tries again what raced.
LeaveAgain(p, r) ==
    IF r.rounds + 1 < LeaveAttempts
    THEN req' = [req EXCEPT ![p] = [r EXCEPT !.pc = "leave", !.rounds = @ + 1]]
    ELSE Finish(p)

\* update: the copy is loaded and the change tried on it.
Load(p) ==
    LET r == req[p]
        room == store[r.code]
        raced == r.edit \in {"guest_leave", "hand_off"}
    IN  /\ r.pc = "load"
        /\ IF room = None \/ (Refused(r, room) /\ ~ raced) THEN
               IF r.edit = "perks" /\ r.kind \in {"leave", "create"}
               THEN Goto(p, r, "forget") ELSE Finish(p)
           ELSE IF Refused(r, room) THEN LeaveAgain(p, r)
           ELSE req' = [req EXCEPT ![p] = [r EXCEPT !.pc = "swap",
                                                    !.copy = room]]
        /\ UNCHANGED <<redis, stars, Bounds, History>>

\* The script's answer 0: load again, a bounded number of times.
Lose(p, r) ==
    IF r.tries + 1 < CasAttempts
    THEN req' = [req EXCEPT ![p] = [r EXCEPT !.pc = "load", !.copy = None,
                                             !.tries = @ + 1]]
    ELSE IF r.edit = "perks" /\ r.kind \in {"leave", "create"}
    THEN Goto(p, r, "forget")
    ELSE Finish(p)

\* The version the swap script compares.
Fresh(r) == store[r.code] # None /\ store[r.code].v = r.copy.v

AfterSwap(p, r, after) ==
    CASE r.edit = "join" -> Goto(p, [r EXCEPT !.copy = after], "touch")
      [] \/ r.edit \in {"kick", "ban"}
         \/ r.edit = "guest_leave" /\ IsMember(r.copy, r.user) ->
            Goto(p, [r EXCEPT !.copy = after], "forget")
      [] r.edit = "guest_leave" /\ r.kind = "create" ->
            Goto(p, [r EXCEPT !.copy = None], "insert")
      [] r.edit = "hand_off" ->
            IF r.copy.host = r.user /\ after.host # r.next
            THEN req' = [req EXCEPT ![p] = [r EXCEPT !.pc = "settle",
                                                     !.next = after.host,
                                                     !.copy = after]]
            ELSE Goto(p, [r EXCEPT !.copy = after], "forget")
      [] r.edit = "perks" /\ r.kind # "recheck" ->
            Goto(p, [r EXCEPT !.copy = after], "forget")
      [] r.edit = "chat" -> Goto(p, [r EXCEPT !.copy = after], "index")
      [] r.edit = "open" -> Goto(p, [r EXCEPT !.copy = after], "host_seen")
      [] r.edit = "playback" -> Goto(p, [r EXCEPT !.copy = after], "show")
      [] OTHER -> Finish(p)

\* SWAP_SCRIPT
Swap(p) ==
    LET r == req[p]
        after == SwapCopy(r.copy, r)
    IN  /\ r.pc = "swap" /\ r.edit # "close"
        /\ IF Fresh(r)
           THEN /\ store' = [store EXCEPT ![r.code] = after]
                /\ recent' = IF r.edit = "join" /\ ~ IsMember(r.copy, r.user)
                             THEN [recent EXCEPT ![r.code] = @ \cup {r.user}]
                             ELSE recent
                /\ bans' = IF r.edit = "ban"
                           THEN [bans EXCEPT ![after.id] = Append(@, r.target)]
                           ELSE bans
                /\ left' = CASE r.edit \in {"guest_leave", "hand_off"} ->
                                    left \cup {<<r.code, r.user>>}
                             [] r.edit = "join" -> left \ {<<r.code, r.user>>}
                             [] OTHER -> left
                /\ AfterSwap(p, r, after)
           ELSE /\ Lose(p, r)
                /\ UNCHANGED <<store, recent, bans, left>>
        /\ UNCHANGED <<seen, dir, moved, chatIndex, stars, Bounds, used>>

MovedTo(old, code, after) == [store EXCEPT ![old] = None, ![code] = after]

\* MOVE_SCRIPT: the room goes to a new code, its presence with it.
Move(p) ==
    LET r == req[p]
        after == SwapCopy(r.copy, r)
    IN  /\ r.pc = "swap" /\ r.edit = "close"
        /\ IF Fresh(r) /\ Unused # {}
           THEN \E code \in Unused :
                /\ store' = MovedTo(r.code, code, after)
                /\ seen' = [seen EXCEPT ![r.code] = {}, ![code] = seen[r.code]]
                /\ recent' = [recent EXCEPT ![r.code] = {},
                                            ![code] = recent[r.code]]
                /\ moved' = [moved EXCEPT ![r.code] = code]
                /\ used' = used \cup {code}
                /\ req' = [req EXCEPT ![p] =
                       [r EXCEPT !.code = code, !.copy = after,
                                 !.pc = IF after.chat THEN "index"
                                        ELSE "host_seen"]]
           ELSE /\ Lose(p, r)
                /\ UNCHANGED <<store, seen, recent, moved, used>>
        /\ UNCHANGED <<dir, chatIndex, stars, Bounds, bans, left>>

-----------------------------------------------------------------------------
(* What follows an edit                                                    *)

\* index_chat, from claim_chat and from relocate
Index(p) ==
    LET r == req[p]
    IN  /\ r.pc = "index"
        /\ chatIndex' = [chatIndex EXCEPT ![r.copy.id] = r.code]
        /\ IF r.kind = "visibility" THEN Goto(p, r, "host_seen") ELSE Finish(p)
        /\ UNCHANGED <<store, seen, recent, dir, moved, stars, Bounds, History>>

Leaving(r) == r.kind \in {"leave", "create"}
Done(p, r) ==
    IF r.kind = "create" THEN Goto(p, [r EXCEPT !.copy = None], "insert")
    ELSE Finish(p)

\* forget: presence of the one who left or was removed
Forget(p) ==
    LET r == req[p]
        u == IF Leaving(r) THEN r.user ELSE r.target
    IN  /\ r.pc = "forget"
        /\ seen' = [seen EXCEPT ![r.code] = @ \ {u}]
        /\ IF r.edit \in {"hand_off", "perks"} THEN Goto(p, r, "release")
           ELSE Done(p, r)
        /\ UNCHANGED <<store, recent, dir, moved, chatIndex, stars, Bounds,
                       History>>

\* release_host: the end of hand_off for the one who left
Release(p) ==
    LET r == req[p]
    IN  /\ r.pc = "release"
        /\ dir' = Released(r.user, r.code)
        /\ Goto(p, r, "host_seen")
        /\ UNCHANGED <<store, seen, recent, moved, chatIndex, stars, Bounds,
                       History>>

\* settle_perks: someone else than expected took over.
Settle(p) ==
    LET r == req[p]
    IN  /\ r.pc = "settle"
        /\ \E star \in {r.next \in stars, FALSE} :
              req' = [req EXCEPT ![p] = [r EXCEPT !.pc = "load",
                                                  !.edit = "perks",
                                                  !.tries = 0, !.star = star]]
        /\ UNCHANGED <<redis, stars, Bounds, History>>

\* host_seen of the room as it was handed over, swapped or moved
HostSeen(p) ==
    LET r == req[p]
        host == IF r.edit = "perks" THEN r.next ELSE r.copy.host
    IN  /\ r.pc = "host_seen"
        /\ dir' = [dir EXCEPT ![host] = r.code]
        /\ IF Leaving(r) THEN Done(p, r)
           ELSE Goto(p, [r EXCEPT !.copy = None], "show")
        /\ UNCHANGED <<store, seen, recent, moved, chatIndex, stars, Bounds,
                       History>>

\* touch, and for a poll keep_alive: the chat index is written from the copy.
Touch(p) ==
    LET r == req[p]
    IN  /\ r.pc = "touch"
        /\ seen' = [seen EXCEPT ![r.code] = @ \cup {r.user}]
        /\ \/ UNCHANGED chatIndex
           \/ /\ r.kind = "poll" /\ r.copy.chat
              /\ chatIndex' = [chatIndex EXCEPT ![r.copy.id] = r.code]
        /\ Goto(p, [r EXCEPT !.copy = None], "show")
        /\ UNCHANGED <<store, recent, dir, moved, stars, Bounds, History>>

\* view and show: a host who looks refreshes the directory.
Show(p) ==
    LET r == req[p]
        room == store[r.code]
    IN  /\ r.pc = "show"
        /\ dir' = IF IsMember(room, r.user) /\ room.host = r.user
                  THEN [dir EXCEPT ![r.user] = r.code] ELSE dir
        /\ Finish(p)
        /\ UNCHANGED <<store, seen, recent, moved, chatIndex, stars, Bounds,
                       History>>

-----------------------------------------------------------------------------
(* The world: users go quiet, subscriptions start and end.                 *)

GoAway(c, u) ==
    /\ aways < MaxAway
    /\ u \in seen[c] \cup recent[c]
    /\ seen' = [seen EXCEPT ![c] = @ \ {u}]
    /\ recent' = [recent EXCEPT ![c] = @ \ {u}]
    /\ aways' = aways + 1
    /\ UNCHANGED <<store, dir, moved, chatIndex, stars, req, arrived, flips,
                   History>>

FlipStar(u) ==
    /\ flips < MaxStarFlips
    /\ stars' = IF u \in stars THEN stars \ {u} ELSE stars \cup {u}
    /\ flips' = flips + 1
    /\ UNCHANGED <<redis, req, arrived, aways, History>>

Work(p) ==
    \/ Look(p) \/ Insert(p) \/ Follow(p) \/ Leave(p) \/ EndLoad(p)
    \/ ForgetRoom(p) \/ Close(p) \/ Load(p) \/ Swap(p) \/ Move(p) \/ Index(p) \/ Forget(p)
    \/ Settle(p) \/ Release(p) \/ HostSeen(p) \/ Touch(p) \/ Show(p)

Quiet == arrived = MaxRequests /\ \A p \in Procs : req[p].pc = "idle"

Next ==
    \/ \E p \in Procs : Arrive(p) \/ Work(p)
    \/ \E c \in Codes, u \in Users : GoAway(c, u)
    \/ \E u \in Users : FlipStar(u)
    \/ Quiet /\ UNCHANGED vars

Spec == Init /\ [][Next]_vars
-----------------------------------------------------------------------------
(* What must hold of every room however its edits interleave.              *)

Stored == {c \in Codes : store[c] # None}

\* A room's host sits in it: the host leaves only by handing the room over,
\* nobody removes the host, and a guest who became host while leaving starts
\* again (src/api/src/modules/rooms/service/handoff.rs, model.rs).
HostSeated == \A c \in Stored : IsMember(store[c], store[c].host)

\* Moderators are seated guests, also after a hand-off, a kick or seats given
\* away to a newcomer of a full room (model.rs keep_members_only).
ModeratorsSeated ==
    \A c \in Stored : store[c].mods \subseteq ToSet(store[c].members)
                                            \ {store[c].host}

\* So many others were banned after u that the list may have dropped u.
Overtaken(id, u) ==
    \E k \in DOMAIN bans[id] :
        /\ bans[id][k] = u
        /\ Cardinality(ToSet(SubSeq(bans[id], k + 1, Len(bans[id]))) \ {u})
                >= MaxBanned

\* An acknowledged ban outlives every concurrent edit and the room's move to a
\* new code, until MAX_BANNED other people were banned after it (store/cas.rs;
\* moderation_tests.rs the_ban_list_keeps_the_newest_entries); who is on the
\* list holds no seat.
BansHold ==
    \A c \in Stored, u \in Users :
        /\ IsBanned(store[c], u) => ~ IsMember(store[c], u)
        /\ u \in ToSet(bans[store[c].id]) =>
               IsBanned(store[c], u) \/ Overtaken(store[c].id, u)

\* STAR perks are those of the present host: a check made for a former host
\* never gives the room of the next one its perks (service/perks.rs).
PerksOfHost == \A c \in Stored : store[c].star => store[c].starOf = store[c].host

\* A room lives under one code, also while requests of the old code race with
\* the move (MOVE_SCRIPT of store/cas.rs).
OneCodePerRoom ==
    \A c, d \in Stored : store[c].id = store[d].id => c = d

\* Who left the room under a code is not in it, whoever hosted it meanwhile,
\* until they join again (leave and leave_once of service/handoff.rs).
LeaversOut ==
    \A c \in Stored, u \in Users :
        <<c, u>> \in left => ~ IsMember(store[c], u)

\* Nobody takes a seat in a room whose host blocked them, also when the host
\* changed between the look at the block list and the swap (service/admit.rs).
\* (What every step keeps.)
NoBlockedSeat ==
    \A c \in Codes : store[c] # None /\ store'[c] # None =>
        \A u \in ToSet(store'[c].members) \ ToSet(store[c].members) :
            <<store'[c].host, u>> \notin Blocks

\* Everyone may leave at once: a leave that ends has taken effect, unless it
\* used up its swaps or its rounds and answers 409; then others changed the room
\* at least that often meanwhile, so somebody always gets out, and with
\* HostSeated no room stays behind without its host (leave of
\* service/handoff.rs, update of store/cas.rs, service_tests.rs
\* a_host_and_a_guest_leaving_at_once_end_the_room).
\* (What every step keeps.)
LeavesTakeEffect ==
    \A p \in Procs : req[p].kind = "leave" /\ req'[p].kind # "leave" =>
        LET room == store'[req[p].code]
        IN  \/ ~ IsMember(room, req[p].user)
            \/ room.v >= req[p].since + CasAttempts
            \/ room.v >= req[p].since + LeaveAttempts
=============================================================================
