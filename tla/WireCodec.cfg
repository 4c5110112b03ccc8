SPECIFICATION MCSpec
CONSTANTS
    Jobs <- MCJobs
    Scripts <- MCScripts
    MaxPayload = 116
    Tablets <- MCTablets
    Places <- MCPlaces
    Desktops <- MCDesktops
INVARIANTS
    MessagesSurvive
    StreamStaysDecodable
    PointsLand
CHECK_DEADLOCK FALSE
