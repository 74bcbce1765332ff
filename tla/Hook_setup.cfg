SPECIFICATION Spec
CONSTANTS
    Absent = Absent  NotArray = NotArray
    PreToolUse = PreToolUse  Stop = Stop  NotificationStart = NotificationStart
    HookEvents = {PreToolUse, Stop}
    Invalid = NotificationStart
    Checked = PreToolUse
    Installers = {i1, i2}
    UserCommands = {"mine"}
    InitialHooks <- MCInitialHooks
    MaxEdits = 1
INVARIANT InstalledOnce
INVARIANT UserEntriesKept
PROPERTY NothingLeftToDo
CHECK_DEADLOCK FALSE
