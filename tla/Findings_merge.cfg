\* Two agents that may both report "logic", of which each makes one finding anywhere or two of one line.
CONSTANTS
    Files <- MCFiles
    Words <- MCWords
    Injections = {"ignore"}
    Neutralized = "neutralized"
    Fences = {"fence"}
    Quotes = "quotes"
    Agents = 2
    Categories <- MCCategories
    Caps <- MCCaps
    Answers <- MCAnswers
    None = None
SPECIFICATION Spec
INVARIANTS FirstHeardPrevails HonestIsReported
CHECK_DEADLOCK FALSE
