SPECIFICATION FairSpec
CONSTANTS
  Texts <- Files
  First <- FirstOf
  Try <- TryOf
INVARIANT TokensAreLongest
INVARIANT PlacesTrue
INVARIANT ErrorsAreReal
INVARIANT FirstErrorTrue
INVARIANT CleanWithoutErrors
INVARIANT ReportedOnce
PROPERTY LoadEnds
