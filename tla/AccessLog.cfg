SPECIFICATION Spec
CONSTANTS
    Number <- NumberOf
    Lower <- LowerOf
    Identifiers <- Records
    MaxItem = 7
    Hosts <- SomeHosts
    Segments <- SomeSegments
    Lines <- SomeLines
    Times <- Decimals
    maxSamples = 2
    maxRankedRowsPerTick = 2
    topLists = TRUE
    siteHost <- OwnSite
    Capacity = 4
    MaxLines = 5
INVARIANTS TypeOK CountsTrue Uniform BaseFirst OneSiteOneRow OnePageOneRow FurnitureStaysOut
