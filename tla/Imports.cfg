SPECIFICATION FairSpec
CONSTANTS
    A = A  B = B  C = C  Unpinned = Unpinned  NoInterface = NoInterface
    Interface = {A, B, C}
    ImportLists <- MCImportLists
    Pins = {1, 2}
    MaxVersion <- MCMaxVersion
    Operations = {"update_api", "freeze_api", "generate_source"}
INVARIANTS TypeOK FrozenClosed ResolvesToNewest
PROPERTIES  FrozenStaysResolvable RecordsWhatWasChecked EveryOperationEnds
