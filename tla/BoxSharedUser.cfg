SPECIFICATION BoxSpec
CHECK_DEADLOCK FALSE
CONSTANTS
    Projects = {"shop-api", "shop_api"}
    AppUser <- SharedUser
    MaxBoxCommands = 2
INVARIANT NeverLockedOut
