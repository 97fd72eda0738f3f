CHECK_DEADLOCK FALSE
SPECIFICATION WireSpec
CONSTANTS
    Names = {"m", "n"}
    Values = {"x", "y"}
    Unknown = "?"
    NameLen <- MCNameLen
    ValueLen <- MCValueLen
    Overhead = 1
    Static <- MCStatic
    Limit = 2
    MaxTableSize = 3
    Announced = 3
INVARIANT KnownIsRight
INVARIANT KeepsWhatItSaw
INVARIANT EventsAreRight
INVARIANT NothingIsMissed
INVARIANT ShortRunAnchors
INVARIANT GapsAreLosses
INVARIANT SplitsDoNotMatter
INVARIANT UsageIsTheBodys
INVARIANT EndsWithBody
