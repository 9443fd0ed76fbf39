\* One signal, sent twice.
SPECIFICATION Spec
CONSTANTS
    Connections = {c1}
    Signals = {"SIGTERM"}
PROPERTY FurtherSignalsIgnored
\* The process ends.
CHECK_DEADLOCK FALSE
