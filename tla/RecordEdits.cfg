SPECIFICATION EditSpec
CONSTANTS
    Records = {r1, r2}
    Names = {n1, host}
    HostName = host
    CLIs = {cli}
    Desktops = {desktop}
    Extensions = {extension}
    MaxEdits = 3
CHECK_DEADLOCK FALSE
PROPERTIES
    EditsAreMerged
