--------------------------- MODULE MCAccountUsage ---------------------------
\* One account over a few clock readings: long enough for a window of MaxRetry
\* and a whole ProbeTTL to pass, and for the clock to be set back into either.
EXTENDS AccountUsage

MCTime    == 0..5
MCRetries == {None, 1, 9}
============================================================================
