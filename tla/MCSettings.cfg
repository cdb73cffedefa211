SPECIFICATION Spec
CONSTANTS
    Absent = Absent
    Drivers = {"", "prometheus", "statsd", "graphite"}
    AuthTypes = {"", "require_any_client_cert", "unknown"}
    MaxReplaced = 1
INVARIANTS SectionPresent MetricsAsGiven TLSAsGiven
CHECK_DEADLOCK FALSE
