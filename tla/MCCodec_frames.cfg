CONSTANTS
    Versions = {"v3", "v5"}
    MaxInbound = {0, 125}
    Offers <- MCOffers
    Foreign <- MCForeign
SPECIFICATION Spec
INVARIANTS WellFormed VersionDetected WithinPeerLimit DiagnosticsKept InSync
CHECK_DEADLOCK FALSE
