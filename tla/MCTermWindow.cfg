\* Room for two of four terms, and weights that fade after two more batches:
\* terms leave by fading and by trimming, and a batch may exceed the window.
SPECIFICATION MCSpec
CONSTANTS
  Terms = {1, 2, 3, 4}
  Max = 2
  MaxAge = 2
  MaxAdds = 4
INVARIANTS TotalIsSum RecentTermsKnown
CHECK_DEADLOCK FALSE
