\* Two counters stand for the nine of the log and two fields for the seventeen
\* gauges, so that one can be loaded before and one after an event; a counter
\* grows in two lines or by two in one.
CONSTANTS
    Counters = {c1, c2}
    MaxCount = 2
    Fields = {"successfully_sent", "write_error_stopped"}
    MaxSent = 2
SPECIFICATION MetricsSpec
INVARIANT LinesAddUp
PROPERTIES EventsAreLogged CancelStops ExporterStops
CHECK_DEADLOCK FALSE
