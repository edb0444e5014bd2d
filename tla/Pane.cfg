\* Two messages, one of them long, a draft and one trouble.
CONSTANTS
    Msgs = {"m", "long"}
    Long = {"long"}
    Cancelling = {"long"}
    Invisible = {"m"}
    Drafts = {"draft"}
    Attempts = 2
    Retypes = 2
    MaxKills = 2
    MaxTries = 1
    MaxGlitches = 1
SPECIFICATION Spec
INVARIANTS Apart OncePerTry NothingLost GivenBackWhole
\* Messages, drafts and trouble are bounded.
CHECK_DEADLOCK FALSE
