SPECIFICATION ServeSpec
CONSTANTS
    Inputs <- SmallInputs
    MaxLen = 4
    Types = {"string", "hash"}
    Names = {1, 2, 3}
    Slots = {0, 1}
    NoSlot = NoSlot
    TopN = 2
    TopPrefixes = 3
    ShownN = 1
    PageRows = 1
    BigPrefix = 4
    MaxRestarts = 2
    None = None
INVARIANTS
    TypeOK
    ResultsTypeOK
    LargestKept
    ShownAreLargest
    EntryTallies
    PrefixTallies
    LargestPrefixesKept
    PagePrefixesAreTop
    PageTotals
    RestartShowsSame
