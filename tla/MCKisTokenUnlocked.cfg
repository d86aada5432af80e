CONSTANTS
    s1 = s1
    s2 = s2
    j = j
    server_process = server_process
    job_process = job_process
    Clients = {s1, j}
    Processes = {server_process, job_process}
    ProcessOf <- MCProcessOf
    Tokens = {t1, t2}
    None = None
    Torn = Torn
    Foreign = Foreign
    LockWorks = FALSE
    MaxResends = 0
SPECIFICATION Spec
SYMMETRY TokenSymmetry
PROPERTIES
    OthersNotUnlinked
