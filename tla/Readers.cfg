SPECIFICATION MCSpec
INVARIANTS
    PlaybackIsExact
PROPERTIES
    RecordingsAreReadWhole
    RequestsAreExact
    MeasuresAreSound
    SettingsAreExact
    PanelIsShown
CHECK_DEADLOCK FALSE
