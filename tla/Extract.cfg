\* Two files of a session, with and without bytes, from two hosts.
SPECIFICATION ExtractSpec
CONSTANTS
    h1 = h1
    h2 = h2
    script = script
    part = part
    binary = binary
    Hosts = {h1, h2}
    Payloads = {script, part, binary}
    Names <- MCNames
    Scripts = {script, part}
    CutOf <- MCCutOf
    None = None
    MaxFiles = 2
INVARIANTS
    ExtractInv
    EvidenceIsComplete
