\* The durations of the source and of GitHub in minutes, over two lives of a token.
CONSTANTS
    TokenLifetime = 60
    RefreshMargin = 5
    JwtTtl = 9
    JwtBackdate = 1
    JwtCap = 10
    MaxSkew = 1
    Delay = 1
    MaxTries = 3
    MaxTime = 130
    NoToken = NoToken
SPECIFICATION TokenSpec
INVARIANTS TokenAlive JwtAccepted
PROPERTIES TokensReused
