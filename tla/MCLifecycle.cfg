SPECIFICATION FairSpec
CONSTANTS
    Collectors = {pm, kalshi, tracer, context}
    BarKeepers = {pm, kalshi}
    Polymarket = pm
    Crashing = {tracer}
    Flushing = {kalshi, tracer, context}
    MaxRestarts = 1
INVARIANTS TypeOK CleanExit
PROPERTIES SignalStops CollectorsRun
CHECK_DEADLOCK FALSE
