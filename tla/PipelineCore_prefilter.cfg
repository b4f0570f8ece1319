SPECIFICATION CoreSpec
CONSTANTS
 EngHistory = 2
 EngSecrets = {"s"}
 EngTokens <- Tokens
 EngDay = 3
 CoreChains <- UnderTagRegex
 CoreAlphabet <- Alphabet
 CoreFileCtx <- LogcatFile
 CoreMaxLines = 4
 CoreMaxBatch = 2
INVARIANT CorePrefilterConclusive
CHECK_DEADLOCK FALSE
