SPECIFICATION Spec
CONSTANT CLICommands = {"get", "status"}
INVARIANT CLIReportsDaemonOutcome
PROPERTY CommandReturns
\* The daemon and the receive goroutine wait for more once a command is done.
CHECK_DEADLOCK FALSE
