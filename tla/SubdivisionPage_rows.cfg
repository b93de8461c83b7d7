SPECIFICATION Spec
CONSTANTS
    Characters <- MCCharacters
    Inputs <- MCInputs
    Countries <- MCCountries
    CLDR_CONTAINMENT <- MCContainment
INVARIANTS TypeOK PageShowsAnswer SmallestDifference OneEdit
CHECK_DEADLOCK FALSE
