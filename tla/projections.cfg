\* Two refreshes, one of them part of an audit, and an import beside the controller.
SPECIFICATION Spec
CONSTANTS
    e1 = e1
    predictions = predictions
    figure = figure
    summary = summary
    cli = cli
    api = api
    Experiments = {e1}
    Artifacts = {predictions}
    Owner <- MCOwner
    Required = {predictions}
    Refreshers = {cli, api}
    Auditors = {cli}
    Importers = {summary}
    Scores = {1}
    Legacy = {e1}
    NoRow = NoRow
    Nobody = Nobody
    MaxEvents = 10
    MaxWithdrawals = 1
INVARIANTS
    TypeOK
    TablesFollowLedger
    BoardShowsWhatCameAfter
    QuietAuditIsExact
    CleanAuditVouches
PROPERTIES
    LossIsKept
CHECK_DEADLOCK FALSE
