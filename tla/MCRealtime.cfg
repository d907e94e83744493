SPECIFICATION Spec
CONSTANTS
    w1 = w1
    w2 = w2
    w3 = w3
    c1 = c1
    c2 = c2
    turns = turns
    ticks = ticks
    rps = rps
    Glitches = {}
    Frags = {}
    Health = 2
    Earlier = {0, 51}
    MaxCooling = 2
    Bot = Bot
    Nobody = Nobody
    Players = {w1, w2, w3}
    RoomCodes = {c1, c2}
    Games = {turns, ticks, rps}
    Ticking = {ticks}
    Together = {rps}
    MaxRooms = 2
    MaxTimers = 2
    NimStart = 21
    WinRounds = 2
    Pairs = 2
    Openings = {0, 1, 4}
    Cols = 4
    Rows = 3
    CentreFirst <- FourColumns
    Need = 3
    Board = 3
    N = 4
    Weight <- FourWeights
    Side = 4
    Margin = 1
    StartLen = 2
    Larder <- FoodCells
    LongestSnake = 4
    WinScore = 2
INVARIANTS
    RoomsSound
    ClockworkRuns
    ResultRight
    NeverStuck
    BotUnbeaten
    VictoryKept
CHECK_DEADLOCK FALSE
