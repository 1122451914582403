\* Two days, the hot board and that of one category.
CONSTANTS
    Totals <- HotOnly
    Categories <- OneCategory
    LastDay = 2
    MaxVisits = 1
    MaxByHand = 1
SPECIFICATION RankSpec
PROPERTIES
    YesterdayArchived
