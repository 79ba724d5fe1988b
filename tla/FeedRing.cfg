\* More lines than the ring holds, and one re-explanation.
SPECIFICATION FeedSpec
CONSTANTS
  Hashes = {h1, h2, h3}
  RingSize = 3
  CardContext = 3
  CardsKept = 2
  MaxLines = 4
  MaxAnswers = 1
INVARIANTS
  RingQuotesTheStream
  CardsAreTheNewest
PROPERTIES
  EndReachesTheTui
