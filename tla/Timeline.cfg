\* Two authors of three posts, in at most three different seconds, read in pages
\* of one; one call of delete_post at a time.
SPECIFICATION Spec
CONSTANTS
  Authors = {a1, a2}
  Threads = {t1}
  Limit = 1
  MaxPosts = 3
  MaxTime = 2
  MaxLikes = 1
SYMMETRY Symmetry
INVARIANTS TypeOK PagesSlipOnlyByChanges FailsOnlyOnDangling
