\* A withdrawal before the acceptance.
SPECIFICATION Spec
CONSTANTS
    e1 = e1
    predictions = predictions
    figure = figure
    summary = summary
    cli = cli
    api = api
    Experiments = {e1}
    Artifacts = {predictions}
    Owner <- MCOwner
    Required = {predictions}
    Refreshers = {cli}
    Auditors = {}
    Importers = {}
    Scores = {1}
    Legacy = {}
    NoRow = NoRow
    Nobody = Nobody
    MaxEvents = 10
    MaxWithdrawals = 1
INVARIANTS
    BoardFollowsLedger
CHECK_DEADLOCK FALSE
