\* One file that may grow over two chunks, read and written by items of 1 and 3.
CONSTANTS
    FirstBytes = {10}
    OldByte = 0
    Chunk = 2
    MaxFile = 5
    ItemSizes = {1, 3}
    ItemCounts = {1, 3}
    Wrap = 4
SPECIFICATION FileSpec
INVARIANT ReadIsDelivered
CHECK_DEADLOCK FALSE
