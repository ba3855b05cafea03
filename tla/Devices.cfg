CONSTANTS
    Parts = {"pairing", "hub", "single", "seats", "moves", "perks", "leaves"}
    None = None
    a1 = a1  a2 = a2  a3 = a3  p1 = p1  p2 = p2  p3 = p3
    ann = ann  bob = bob  cid = cid  c1 = c1  c2 = c2  c3 = c3
    Attempts = {a1, a2, a3}  Speakers = {a1}  Polls = {p1, p2}
    MaxCodeAsks = 2  PerDay = 2  MaxFaults = 1
    Devices = {1, 2}  Commands = {1, 2}  Answers = {1, 2}  MaxWaits = 2  MaxActive = 2
SPECIFICATION BoundedSpec
SYMMETRY Interchange
INVARIANTS PairsOnce QuestionsBounded
PROPERTIES HubSafe RoomsSafe
CHECK_DEADLOCK FALSE
