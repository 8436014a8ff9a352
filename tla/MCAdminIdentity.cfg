\* Two invocations that may cross, and two keys.
CONSTANTS
    Keys = {1, 2}
    NoKey = 0
    Calls = {"c1", "c2"}
SPECIFICATION FairSpec
INVARIANT Agreement
PROPERTIES Adopted Served
