----------------------------- MODULE MCHttpParser -----------------------------
EXTENDS HttpParser

\* Between two tokens of a request nothing is remembered.
BetweenTokens == {1, 3, 4, 13, 17, 20, 199}
==============================================================================
