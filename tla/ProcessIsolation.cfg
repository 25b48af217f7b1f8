SPECIFICATION Spec
CONSTANTS
    MaxPid = 2
    Calls = {"compute", "getppid", "fork", "exit", "waitpid", "kill", "raise", "signal", "pause", "sleep", "exec", "fault", "answer"}
PROPERTIES ProcessesAreIndependent
VIEW View
